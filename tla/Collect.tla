------------------------------- MODULE Collect -------------------------------
(***************************************************************************)
(* missive gather, missive reduce and missive task artifact export         *)
(* (missive-cli/src/gather.rs, reduce.rs, artifact.rs): what the members   *)
(* of a group have answered in one context, taken from the local rows,     *)
(* written to a directory or reduced to one text.                          *)
(*                                                                         *)
(* Data.  A text is a number, its place in the order of normalised texts.  *)
(* An artifact file name is a sequence: the number of its stem, then the   *)
(* suffixes that made it unique ("plan-2.md" is <<plan, 2>>).              *)
(***************************************************************************)
EXTENDS Naturals, Sequences, FiniteSets, SequencesExt

CONSTANTS
  Members,    \* the group's agents, in rank order
  Outsider,   \* an agent outside the group
  Lists,      \* artifact name lists a task may have
  Texts,      \* texts, 1 .. n
  MaxRows,    \* task rows the context gets
  Nothing     \* no text, no task

ASSUME CollectAssumption ==
  /\ Members \in Seq({Members[i] : i \in DOMAIN Members})
  /\ Lists \subseteq Seq(Seq(Nat))
  /\ Texts \subseteq Nat /\ Nothing \notin Texts
  /\ MaxRows \in Nat

VARIABLES
  answers,   \* task rows of the context, in the order of updated_at
  files,     \* names in the output directory
  journal,   \* events of the last operation
  stage,     \* the running operation
  report     \* what the last one printed

collectVars == <<answers, files, journal, stage, report>>

Ranked == 1 .. Len(Members)
Agents == {Members[i] : i \in Ranked} \cup {Outsider}

Answers == [id : 1 .. MaxRows, agent : Agents, text : Texts \cup {Nothing},
            messages : 0 .. 1, artifacts : {<<>>} \cup Lists]

Strategies == {"merge", "vote", "rank"}
Methods == {"local", "agent", "command"}

NoReport == [kind |-> "none", status |-> "none", inputs |-> <<>>, result |-> <<>>]

IsIdle == stage = [kind |-> "idle", strategy |-> Nothing, method |-> Nothing]
NoStage == [kind |-> "idle", strategy |-> Nothing, method |-> Nothing]

CollectTypeOK ==
  /\ \A i \in 1 .. Len(answers) : answers[i] \in Answers
  /\ Len(answers) <= MaxRows
  /\ stage \in {NoStage} \cup [kind : {"reducing", "reduced"}, strategy : Strategies,
                               method : Methods]
  /\ \A i \in 1 .. Len(journal) : journal[i] \in {"started", "member", "completed", "failed"}
  /\ report.status \in {"none", "succeeded", "partial", "missing", "invalid", "refused",
                        "failed", "unsaved", "killed", "io"}

----------------------------------------------------------------------------
(* What a member has answered.                                             *)

RowsOf(a) == {k \in 1 .. Len(answers) : answers[k].agent = a}

\* latest_member_task: the row that was updated last.
LatestMemberTask(a) == IF RowsOf(a) = {} THEN Nothing ELSE answers[Max(RowsOf(a))]

\* GatherMemberView::from_state, ReduceInputView::from_state.
MemberStatus(r) ==
  IF r = Nothing THEN "missing_task"
  ELSE IF r.text # Nothing \/ r.messages > 0 \/ r.artifacts # <<>> THEN "gathered"
  ELSE "empty_output"

Inputs == [i \in Ranked |-> LatestMemberTask(Members[i])]
Gathered(inputs) == {i \in DOMAIN inputs : MemberStatus(inputs[i]) = "gathered"}

\* The status of finalize_gather_output.
GatherStatus(inputs) ==
  IF Gathered(inputs) = DOMAIN inputs THEN "succeeded"
  ELSE IF Gathered(inputs) # {} THEN "partial" ELSE "missing"

----------------------------------------------------------------------------
(* File names.                                                             *)

\* Seeded fault of UniqueName: the suffixed name is not looked up again.
UniqueNameOnce(base, used) == IF base \notin used THEN base ELSE base \o <<2>>

\* unique_file_name, unique_safe_file_name: the first suffix that is free.
UniqueName(base, used) ==
  IF base \notin used THEN base
  ELSE base \o <<CHOOSE n \in 2 .. Cardinality(used) + 2 :
                   /\ base \o <<n>> \notin used
                   /\ \A m \in 2 .. n - 1 : base \o <<m>> \in used>>

\* Names for a sequence of bases, one after the other.
PlanNames(bases) ==
  LET plan[i \in 0 .. Len(bases)] ==
        IF i = 0 THEN <<>>
        ELSE Append(plan[i - 1], UniqueName(bases[i], ToSet(plan[i - 1])))
  IN  plan[Len(bases)]

\* The rank and alias of the member are part of a gather's names.
MemberBases(n, r) ==
  IF r = Nothing THEN <<>> ELSE [k \in 1 .. Len(r.artifacts) |-> <<n>> \o r.artifacts[k]]

\* The bases of all artifacts of the gathered rows.
GatherBases(inputs) ==
  LET upTo[n \in 0 .. Len(inputs)] ==
        IF n = 0 THEN <<>> ELSE upTo[n - 1] \o MemberBases(n, inputs[n])
  IN  upTo[Len(inputs)]

----------------------------------------------------------------------------
(* Rows arrive.                                                            *)

\* Some command writes a task row of the context (modules TaskCommands, Bcast).
RowWritten(a, text, artifacts) ==
  /\ IsIdle /\ Len(answers) < MaxRows
  /\ answers' = Append(answers, [id |-> Len(answers) + 1, agent |-> a, text |-> text,
                                 messages |-> IF text = Nothing THEN 0 ELSE 1,
                                 artifacts |-> artifacts])
  /\ journal' = <<>> /\ report' = NoReport
  /\ UNCHANGED <<files, stage>>

\* A refresh makes an older row the newest again.
RowRefreshed(i) ==
  /\ IsIdle /\ i \in 1 .. Len(answers) - 1
  /\ answers' = Append(RemoveAt(answers, i), answers[i])
  /\ journal' = <<>> /\ report' = NoReport
  /\ UNCHANGED <<files, stage>>

----------------------------------------------------------------------------
(* missive gather.                                                         *)

Report(kind, status, inputs, result) ==
  report' = [kind |-> kind, status |-> status, inputs |-> inputs, result |-> result]

MemberEvents(n) == [i \in 1 .. n |-> "member"]

\* The files a gather writes: none when it exports nothing.
GatherPlan(export) == IF export THEN PlanNames(GatherBases(Inputs)) ELSE <<>>

\* Every path is looked at before the first is written.
GatherRefuses(plan, force) == ~force /\ ToSet(plan) \cap files # {}

Gather(export, force) ==
  /\ IsIdle
  /\ LET plan == GatherPlan(export)
     IN  IF GatherRefuses(plan, force)
         THEN /\ Report("gather", "refused", Inputs, <<>>)
              /\ journal' = <<"started">>
              /\ files' = files
         ELSE \/ /\ files' = files \cup ToSet(plan)
                 /\ Report("gather", GatherStatus(Inputs), Inputs, plan)
                 /\ journal' = <<"started">> \o MemberEvents(Len(Members)) \o <<"completed">>
              \/ \E n \in 0 .. Len(plan) :
                   /\ files' = files \cup ToSet(SubSeq(plan, 1, n))
                   /\ Report("gather", "io", Inputs, SubSeq(plan, 1, n))
                   /\ journal' = <<"started">>
  /\ UNCHANGED <<answers, stage>>

\* task artifact export: each path is looked at when its turn comes.
ArtifactExport(i, force) ==
  LET plan == PlanNames(answers[i].artifacts)
      taken == {k \in 1 .. Len(plan) : plan[k] \in files}
      upTo == IF force \/ taken = {} THEN Len(plan)
              ELSE Min(taken) - 1
      done == SubSeq(plan, 1, upTo)
  IN  /\ IsIdle /\ i \in 1 .. Len(answers)
      /\ files' = files \cup ToSet(done)
      /\ Report("export", IF done = plan THEN "succeeded" ELSE "refused", <<>>, done)
      /\ UNCHANGED <<answers, journal, stage>>

----------------------------------------------------------------------------
(* missive reduce.                                                         *)

\* The inputs that count, in rank order.
Voters == SelectSeq([i \in Ranked |-> i], LAMBDA i : i \in Gathered(Inputs))

Tally(v) == Cardinality({i \in Gathered(Inputs) : Inputs[i].text = v})
Voted == {v \in Texts : Tally(v) > 0}

\* local_vote: most votes, a tie to the text that sorts first.
LocalVote ==
  CHOOSE v \in Voted : \A w \in Voted : Tally(w) < Tally(v) \/ (Tally(w) = Tally(v) /\ v <= w)

\* input_rank_score; a text is as long as its number.
Score(r) == (IF r.text = Nothing THEN 0 ELSE r.text) + 25 * Len(r.artifacts) + 10 * r.messages

\* local_rank: by falling score, then by rank.
LocalRank ==
  SortSeq(Voters, LAMBDA i, j : Score(Inputs[i]) > Score(Inputs[j])
                                \/ (Score(Inputs[i]) = Score(Inputs[j]) /\ i < j))

\* local_strategy_output; a vote needs a text.
LocalOutput(strategy) ==
  CASE strategy = "vote" -> IF Voted = {} THEN Nothing ELSE <<LocalVote>>
    [] strategy = "rank" -> LocalRank
    [] OTHER -> Voters

\* execute_reduce_command up to the started event.
ReduceStart(strategy, method) ==
  /\ IsIdle
  /\ IF Gathered(Inputs) = {}
     THEN /\ Report("reduce", "invalid", Inputs, <<>>)
          /\ UNCHANGED <<journal, stage>>
     ELSE /\ stage' = [kind |-> "reducing", strategy |-> strategy, method |-> method]
          /\ journal' = <<"started">>
          /\ Report("none", "none", Inputs, <<>>)
  /\ UNCHANGED <<answers, files>>

ReduceFails ==
  /\ journal' = Append(journal, "failed")
  /\ report' = [report EXCEPT !.kind = "reduce", !.status = "failed"]
  /\ stage' = NoStage
  /\ UNCHANGED <<answers, files>>

ReduceGivesText(result) ==
  /\ stage' = [stage EXCEPT !.kind = "reduced"]
  /\ report' = [report EXCEPT !.result = result]
  /\ UNCHANGED <<files, journal>>

\* run_reducer: the local output is computed first, whatever the method.  The
\* reducer may be any agent, and its reply is a task row of the same context
\* when the agent answers with a task.
RunReducer ==
  /\ stage.kind = "reducing"
  /\ LET local == LocalOutput(stage.strategy)
     IN  \/ local = Nothing /\ ReduceFails
         \/ /\ local # Nothing /\ stage.method = "local"
            /\ ReduceGivesText(local) /\ UNCHANGED answers
         \/ /\ local # Nothing /\ stage.method = "command"
            /\ ReduceFails \/ (ReduceGivesText(<<"stdout">>) /\ UNCHANGED answers)
         \/ /\ local # Nothing /\ stage.method = "agent"
            /\ \/ ReduceFails
               \/ ReduceGivesText(<<"reply">>) /\ UNCHANGED answers
               \/ /\ ReduceGivesText(<<"reply">>)
                  /\ Len(answers) < MaxRows
                  /\ \E a \in Agents, text \in Texts :
                       answers' = Append(answers,
                         [id |-> Len(answers) + 1, agent |-> a, text |-> text,
                          messages |-> 1, artifacts |-> <<>>])

\* persist_reduced_output, finalize_reduce_output and the events.
ReduceFinish ==
  /\ stage.kind = "reduced"
  /\ journal' = journal \o MemberEvents(Len(report.inputs)) \o <<"completed">>
  /\ report' = [report EXCEPT !.kind = "reduce",
                              !.status = IF Gathered(report.inputs) = DOMAIN report.inputs
                                         THEN "succeeded" ELSE "partial"]
  /\ stage' = NoStage
  /\ UNCHANGED <<answers, files>>

\* Only persist_reduced_output parses --metadata: a value it cannot read ends
\* the command once the reducer has run, with no event of it.
ReduceUnsaved ==
  /\ stage.kind = "reduced"
  /\ report' = [report EXCEPT !.kind = "reduce", !.status = "unsaved"]
  /\ stage' = NoStage
  /\ UNCHANGED <<answers, files, journal>>

ReduceKilled ==
  /\ ~IsIdle
  /\ report' = [report EXCEPT !.kind = "reduce", !.status = "killed"]
  /\ stage' = NoStage
  /\ UNCHANGED <<answers, files, journal>>

----------------------------------------------------------------------------
CollectInit ==
  /\ answers = <<>>
  /\ files = {}
  /\ journal = <<>>
  /\ stage = NoStage
  /\ report = NoReport

\* Answers that are text or nothing, and what is made of them.
TextNext ==
  \/ \E i \in Ranked, v \in Texts \cup {Nothing} : RowWritten(Members[i], v, <<>>)
  \/ \E i \in 1 .. MaxRows : RowRefreshed(i)
  \/ Gather(FALSE, FALSE)
  \/ \E strategy \in Strategies, method \in Methods : ReduceStart(strategy, method)
  \/ RunReducer \/ ReduceFinish \/ ReduceUnsaved \/ ReduceKilled

\* Answers that are artifacts.
FileNext ==
  \/ \E i \in Ranked, l \in Lists : RowWritten(Members[i], Nothing, l)
  \/ \E i \in 1 .. MaxRows, force \in BOOLEAN : ArtifactExport(i, force)
  \/ \E force \in BOOLEAN : Gather(TRUE, force)

CollectNext == TextNext \/ FileNext

CollectSpec == CollectInit /\ [][CollectNext]_collectVars

----------------------------------------------------------------------------
(* Properties.                                                             *)

\* The inputs of a gather or reduce are answers of the members, each at its own
\* rank, never the reply an outside reducer gave to an earlier reduce in the same
\* context.
InputsAreMembersOwn ==
  \A i \in DOMAIN report.inputs :
    report.inputs[i] # Nothing => report.inputs[i].agent = Members[i]

\* Two artifacts are never written to the same file by one command, also when
\* one is named like the suffixed name of the other.
ExportNamesDistinct ==
  \A i, j \in 1 .. Len(report.result) :
    report.kind \in {"gather", "export"} /\ i # j => report.result[i] # report.result[j]

\* A gather without --force writes into no file that is there already, and a
\* refused one has written nothing.
GatherKeepsFiles ==
  [][report'.kind = "gather" /\ Gather(TRUE, FALSE)
       => ToSet(report'.result) \cap files = {}]_collectVars

\* A vote is won by a text no other got more votes than, and does not depend
\* on which member gave which text; ties go to the text that sorts first.
VoteIsPlurality ==
  [][RunReducer /\ stage.strategy = "vote" /\ stage.method = "local" /\ stage' # NoStage
       => LET votes == [v \in Texts |-> Cardinality({i \in DOMAIN report.inputs :
                            report.inputs[i] # Nothing /\ report.inputs[i].text = v})]
              won == report'.result[1]
          IN  \A v \in Texts : votes[v] <= votes[won] /\ (v < won => votes[v] < votes[won])
     ]_collectVars

\* A reduce that has journalled its start journals one outcome, after the
\* events of all its inputs, unless it is killed, or its reducer has run and
\* its output cannot be stored: then the start is all the journal ever says.
ReduceIsBracketed ==
  IsIdle /\ report.kind = "reduce" /\ report.status \notin {"killed", "invalid"}
    => IF report.status = "unsaved" THEN journal = <<"started">>
       ELSE /\ Len(journal) >= 2 /\ journal[1] = "started"
            /\ journal[Len(journal)] = IF report.status = "failed" THEN "failed" ELSE "completed"
            /\ report.status # "failed" => Len(journal) = 2 + Len(Members)

\* A gather or a reduce uses the members' own answers, counts them fairly, says
\* in the journal how it ended and overwrites no file.
CollectIsSound ==
  /\ [](CollectTypeOK /\ InputsAreMembersOwn /\ ExportNamesDistinct /\ ReduceIsBracketed)
  /\ GatherKeepsFiles /\ VoteIsPlurality
=============================================================================
