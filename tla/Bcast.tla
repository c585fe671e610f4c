------------------------------- MODULE Bcast -------------------------------
(***************************************************************************)
(* `missive bcast` (missive-cli/src/bcast.rs): one message to every member *)
(* of a group, in rank order one after the other or in parallel threads,   *)
(* with a failure policy, a deadline for the whole command, and a store    *)
(* that may refuse a response.                                             *)
(*                                                                         *)
(* The command holds the state-mutation lock from start to end, so no      *)
(* other writer is modelled; the concurrency is that of its own threads,   *)
(* of the agents and of the clock.  Killed is a crash between any two      *)
(* commits.                                                                *)
(*                                                                         *)
(* Data.  A response is the message id the agent chose for it: it is the   *)
(* primary key of the messages row, so a second response with the same id  *)
(* cannot be stored.  A task without a status message is stored under a    *)
(* fresh id, which is an answer with an id nobody else uses.               *)
(***************************************************************************)
EXTENDS Integers, FiniteSets

CONSTANTS
  Members,      \* group members, ordered by rank
  MessageIds    \* ids agents give to their response messages

ASSUME MembersAssumption == Members \subseteq Nat /\ IsFiniteSet(Members)

\* An answer is told apart from a failed call.
ASSUME MessageIdsAssumption == "none" \notin MessageIds /\ "error" \notin MessageIds

VARIABLES
  args,       \* --execution, --failure-policy, --timeout
  pc,         \* where the command stands
  stage,      \* where it stands with each member
  outcome,    \* what send_message returned for the member
  result,     \* status of the member in the summary
  event,      \* missive.bcast.member.* event of the member
  stored,     \* members whose exchange persist_send committed
  messages,   \* response ids in the messages table
  delivered,  \* history: members whose agent got the message
  expired,    \* the deadline has passed
  status      \* status of the summary

member == <<stage, outcome, result, event>>
store == <<stored, messages>>
vars == <<args, pc, stage, outcome, result, event, stored, messages,
          delivered, expired, status>>

Args == [execution : {"sequential", "concurrent"},
         policy : {"stop", "continue"},
         timeout : BOOLEAN]

Sequential == args.execution = "sequential"

Below(m, stages) == \A k \in Members : k < m => stage[k] \in stages

----------------------------------------------------------------------------
(* Preparation and planning.                                               *)

\* prepare_bcast_operation, load_bcast_group and append_bcast_start_event; an
\* unknown or an empty group ends the command before anything is written.
StartBcast ==
  /\ pc = "idle" /\ Members # {}
  /\ pc' = "plan"
  /\ UNCHANGED <<args, member, store, delivered, expired, status>>

\* The loop reaches member m: the earlier ones are finished (sequential), or
\* planned or given up (concurrent).
Planning(m) ==
  /\ pc = "plan" /\ stage[m] = "todo"
  /\ Below(m, IF Sequential THEN {"done"} ELSE {"planned", "done"})

Judge(m, r) ==
  /\ result' = [result EXCEPT ![m] = r]
  /\ stage' = [stage EXCEPT ![m] = "judged"]

TimeoutMemberBeforeStart(m) ==
  /\ Planning(m) /\ expired
  /\ Judge(m, "timeout")
  /\ UNCHANGED <<args, pc, outcome, event, store, delivered, expired, status>>

\* plan_member_send: no such agent, no secret, no card, no interface.
PlanFails(m) ==
  /\ Planning(m) /\ ~expired
  /\ Judge(m, "failed")
  /\ UNCHANGED <<args, pc, outcome, event, store, delivered, expired, status>>

PlanMemberSend(m) ==
  /\ Planning(m) /\ ~expired
  /\ stage' = [stage EXCEPT ![m] = "planned"]
  /\ UNCHANGED <<args, pc, outcome, result, event, store, delivered, expired,
                 status>>

\* Seeded fault of SpawnThreads: a member given up in planning is waited for.
SpawnAllOrNone ==
  /\ pc = "plan" /\ ~Sequential
  /\ \A m \in Members : stage[m] = "planned"
  /\ pc' = "join"
  /\ UNCHANGED <<args, member, store, delivered, expired, status>>

\* run_bcast_concurrent: one thread per planned member.
SpawnThreads ==
  /\ pc = "plan" /\ ~Sequential
  /\ \A m \in Members : stage[m] \in {"planned", "done"}
  /\ pc' = "join"
  /\ UNCHANGED <<args, member, store, delivered, expired, status>>

----------------------------------------------------------------------------
(* send_planned_member, in the command's thread or in its own.             *)

Sending == pc = "join" \/ (pc = "plan" /\ Sequential)

AgentReceives(m) ==
  /\ Sending /\ stage[m] = "planned"
  /\ stage' = [stage EXCEPT ![m] = "sent"]
  /\ delivered' = delivered \union {m}
  /\ UNCHANGED <<args, pc, outcome, result, event, store, expired, status>>

AgentAnswers(m, id) ==
  /\ Sending /\ stage[m] = "sent"
  /\ stage' = [stage EXCEPT ![m] = "answered"]
  /\ outcome' = [outcome EXCEPT ![m] = id]
  /\ UNCHANGED <<args, pc, result, event, store, delivered, expired, status>>

\* The request or the answer is lost, refused, malformed or too late.
SendFails(m) ==
  /\ Sending /\ stage[m] \in {"planned", "sent"}
  /\ stage' = [stage EXCEPT ![m] = "answered"]
  /\ outcome' = [outcome EXCEPT ![m] = "error"]
  /\ UNCHANGED <<args, pc, result, event, store, delivered, expired, status>>

----------------------------------------------------------------------------
(* persist_member_result and append_bcast_member_event, in rank order.     *)

Joining(m) == Sending /\ stage[m] = "answered" /\ Below(m, {"done"})

MemberFailed(m) ==
  /\ Joining(m) /\ outcome[m] = "error"
  /\ Judge(m, IF expired THEN "timeout" ELSE "failed")
  /\ UNCHANGED <<args, pc, outcome, event, store, delivered, expired, status>>

\* persist_send: one transaction.
PersistSend(m) ==
  /\ Joining(m) /\ outcome[m] \in MessageIds \ messages
  /\ stored' = stored \union {m}
  /\ messages' = messages \union {outcome[m]}
  /\ Judge(m, "succeeded")
  /\ UNCHANGED <<args, pc, outcome, event, delivered, expired, status>>

\* persist_send fails: the error ends the command, without a summary.
PersistRefused(m) ==
  /\ Joining(m) /\ outcome[m] \in messages
  /\ pc' = "aborted"
  /\ UNCHANGED <<args, member, store, delivered, expired, status>>

\* A sequential broadcast with --failure-policy stop ends at its first failure.
StopsHere(m) ==
  Sequential /\ args.policy = "stop" /\ result[m] # "succeeded"

AppendMemberEvent(m) ==
  /\ pc \in {"plan", "join"} /\ stage[m] = "judged"
  /\ event' = [event EXCEPT ![m] = result[m]]
  /\ stage' = [stage EXCEPT ![m] = "done"]
  /\ pc' = IF StopsHere(m) THEN "stopped" ELSE pc
  /\ UNCHANGED <<args, outcome, result, store, delivered, expired, status>>

----------------------------------------------------------------------------
(* The summary.                                                            *)

With(r, s) == {m \in Members : r[m] = s}

\* Seeded fault of Relabelled: any member that is not reported becomes a timeout.
RelabelledAll(r) ==
  [m \in Members |-> IF expired /\ r[m] # "succeeded" THEN "timeout" ELSE r[m]]

\* mark_last_failure_as_timeout: if the deadline has passed and no member
\* timed out, the last failure is called a timeout.
Relabelled(r) ==
  IF expired /\ With(r, "timeout") = {}
    THEN [m \in Members |->
            IF r[m] = "failed" /\ \A k \in With(r, "failed") : k <= m
              THEN "timeout" ELSE r[m]]
    ELSE r

\* finalize_bcast_output.
SummaryStatus(r) ==
  IF With(r, "timeout") # {} THEN "timeout"
  ELSE IF With(r, "succeeded") = Members THEN "succeeded"
  ELSE IF With(r, "succeeded") # {} THEN "partial_failure"
  ELSE "failed"

\* The summary and the completed event; the exit code follows from status.
FinishBcast ==
  /\ \/ pc = "stopped"
     \/ pc \in {"plan", "join"} /\ \A m \in Members : stage[m] = "done"
  /\ result' = Relabelled(result)
  /\ status' = SummaryStatus(result')
  /\ pc' = "completed"
  /\ UNCHANGED <<args, stage, outcome, event, store, delivered, expired>>

Running == pc \in {"plan", "join", "stopped"}

Expire ==
  /\ Running /\ args.timeout /\ ~expired
  /\ expired' = TRUE
  /\ UNCHANGED <<args, pc, member, store, delivered, status>>

Killed ==
  /\ Running
  /\ pc' = "killed"
  /\ UNCHANGED <<args, member, store, delivered, expired, status>>

----------------------------------------------------------------------------

Init ==
  /\ args \in Args
  /\ pc = "idle"
  /\ stage = [m \in Members |-> "todo"]
  /\ outcome = [m \in Members |-> "none"]
  /\ result = [m \in Members |-> "none"]
  /\ event = [m \in Members |-> "none"]
  /\ stored = {}
  /\ messages \in SUBSET MessageIds
  /\ delivered = {}
  /\ expired = FALSE
  /\ status = "none"

\* The steps of the command and its threads.
MemberStep(m) ==
  \/ TimeoutMemberBeforeStart(m)
  \/ PlanFails(m)
  \/ PlanMemberSend(m)
  \/ SendFails(m)
  \/ MemberFailed(m)
  \/ PersistSend(m)
  \/ PersistRefused(m)
  \/ AppendMemberEvent(m)

Command ==
  \/ StartBcast
  \/ SpawnThreads
  \/ FinishBcast
  \/ \E m \in Members : MemberStep(m)

Next ==
  \/ Command
  \/ \E m \in Members : AgentReceives(m)
  \/ \E m \in Members, id \in MessageIds : AgentAnswers(m, id)
  \/ Expire
  \/ Killed

Spec == Init /\ [][Next]_vars

\* The command is a loop whose remote calls all have a timeout (SendFails).
FairSpec == Spec /\ WF_vars(Command)

----------------------------------------------------------------------------
(* Properties.                                                             *)

Results == {"none", "succeeded", "failed", "timeout"}

TypeOK ==
  /\ args \in Args
  /\ pc \in {"idle", "plan", "join", "stopped", "completed", "aborted", "killed"}
  /\ stage \in [Members -> {"todo", "planned", "sent", "answered", "judged",
                            "done"}]
  /\ outcome \in [Members -> MessageIds \union {"none", "error"}]
  /\ result \in [Members -> Results]
  /\ event \in [Members -> Results]
  /\ stored \subseteq delivered
  /\ messages \subseteq MessageIds
  /\ delivered \subseteq Members
  /\ expired \in BOOLEAN
  /\ status \in {"none", "succeeded", "partial_failure", "timeout", "failed"}

\* With --execution sequential and --failure-policy stop no agent gets the
\* message once a member before it has failed, timed out or was given up.
StopsAtFirstFailure ==
  Sequential /\ args.policy = "stop" =>
    \A m \in delivered, k \in Members : k < m => event[k] = "succeeded"

\* A broadcast that is called succeeded reached every member, and every
\* exchange is in the store.
SucceededIsComplete ==
  status = "succeeded" => stored = Members /\ delivered = Members

\* The summary differs from the journal in at most one member: the last
\* failure, called a timeout once the deadline has passed.
SummaryMatchesJournal ==
  pc = "completed" =>
    \A m \in Members :
      event[m] # result[m] =>
        /\ expired /\ event[m] = "failed" /\ result[m] = "timeout"
        /\ \A k \in Members \ {m} : event[k] = result[k]

\* What a summary reports is what the store holds: a member succeeded exactly
\* when its exchange was committed, lost and late answers included.
ReportedAsStored ==
  pc = "completed" => With(result, "succeeded") = stored

\* Every broadcast comes to an end.
BcastEnds == pc = "plan" ~> pc \in {"completed", "aborted", "killed"}

\* What a broadcast says of itself is so: its status and summary against the
\* exchanges that took place, the store and the journal, and how far it went
\* after a failure.
SummaryIsTrue ==
  /\ TypeOK /\ StopsAtFirstFailure /\ SucceededIsComplete
  /\ SummaryMatchesJournal /\ ReportedAsStored
=============================================================================
