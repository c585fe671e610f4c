------------------------------ MODULE Barrier ------------------------------
(***************************************************************************)
(* `missive barrier` (missive-cli/src/barrier.rs): wait until enough       *)
(* members of a group have a task in a requested state.                    *)
(*                                                                         *)
(* The command opens the registry, and with it takes the state-mutation    *)
(* lock, before its first read and drops it when it returns.  The tasks at *)
(* the agents move on meanwhile; the gateway, which stands for every other *)
(* writer of the tasks table, holds answers it can write only under the    *)
(* same lock, and so do the commands that guess a row.  A kill leaves a    *)
(* prefix of a behaviour: every write is one transaction, and the lock is  *)
(* a file lock that dies with its process.                                 *)
(*                                                                         *)
(* Data.  A member is its rank, with one task in the context of the        *)
(* barrier.  The events the command appends are left out: nothing reads    *)
(* them.                                                                   *)
(***************************************************************************)
EXTENDS Integers, FiniteSets

CONSTANTS
  N,            \* number of group members
  Reported,     \* task states the agents report
  TargetSets    \* values of the repeatable --state option; {} when omitted

TaskStates ==
  {"submitted", "working", "input_required", "completed", "failed", "cancelled",
   "unknown"}

\* What a command of this machine writes before it has heard of the task:
\* ensure_task_placeholder of send and push, job enqueue, persist_stream_request.
Guesses == {"submitted", "unknown"}

ASSUME NAssumption == N \in Nat \ {0}
ASSUME TargetsAssumption == TargetSets \subseteq SUBSET TaskStates
ASSUME ReportedAssumption == Reported \subseteq TaskStates

Members == 1 .. N

VARIABLES
  args,        \* --local, --failure-policy, --required, --state
  referenced,  \* members whose task id comes from --from-bcast
  remote,      \* state of the member's task at its agent, "none" if there is none
  row,         \* its row in tasks, "none" if there is none
  reached,     \* history: members whose task has been in a satisfying state
  guessed,     \* history: members whose row a command set to a satisfying guess
  news,        \* an answer a gateway holds, to be written under the lock
  pc,          \* where the command stands
  cur,         \* member being refreshed in this round
  answer,      \* task state in the GetTask answer
  status,      \* MemberBarrierStatus
  expired,     \* --timeout has elapsed
  decision     \* BarrierDecision

world == <<args, referenced, remote, reached, guessed, news>>
vars == <<args, referenced, remote, row, reached, guessed, news, pc, cur,
          answer, status, expired, decision>>

Args == [local : BOOLEAN,
         policy : {"stop", "continue"},
         required : Members,
         states : TargetSets]

IsTerminalTaskState(s) == s \in {"completed", "failed", "cancelled"}

\* BarrierTargets: what satisfies the barrier.
Success == IF args.states = {} THEN {"completed"} ELSE args.states

----------------------------------------------------------------------------
(* Members.                                                                *)

IsDisqualified(st) == st \in {"failed", "cancelled", "error", "terminal_unmatched"}

IsFailure(st) == st \in {"failed", "error", "terminal_unmatched"}

Latched(st) == st = "satisfied" \/ IsDisqualified(st)

\* Seeded fault of ClassifyRecordState: any terminal state satisfies.
ClassifyAnyTerminal(s) ==
  IF s \in Success \/ IsTerminalTaskState(s) THEN "satisfied" ELSE "pending"

\* classify_record_state: with --state, a terminal state that was not asked
\* for is terminal_unmatched; without, failed and cancelled keep their names.
ClassifyRecordState(s) ==
  IF s \in Success THEN "satisfied"
  ELSE IF ~IsTerminalTaskState(s) THEN "pending"
  ELSE IF args.states = {} THEN s
  ELSE "terminal_unmatched"

\* The member has a task id, from the broadcast or from its row.
Known(m) == m \in referenced \/ row[m] # "none"

Refreshing(m) == pc = "round" /\ cur = m

\* Member m gets status st and the round goes on.
Refreshed(m, st) ==
  /\ status' = [status EXCEPT ![m] = st]
  /\ cur' = cur + 1
  /\ pc' = "round"

----------------------------------------------------------------------------
(* The command.                                                            *)

\* open_agent_registry, prepare_barrier_operation, build_member_states.
StartBarrier ==
  /\ pc = "idle"
  /\ pc' = "round"
  /\ UNCHANGED <<world, row, cur, answer, status, expired, decision>>

\* refresh_barrier_member: a member that is decided is not looked at again.
SkipMember(m) ==
  /\ Refreshing(m) /\ Latched(status[m])
  /\ Refreshed(m, status[m])
  /\ UNCHANGED <<world, row, answer, expired, decision>>

RefreshLocalMember(m) ==
  /\ Refreshing(m) /\ ~Latched(status[m]) /\ args.local
  /\ Refreshed(m, IF row[m] = "none" THEN "missing" ELSE ClassifyRecordState(row[m]))
  /\ UNCHANGED <<world, row, answer, expired, decision>>

\* refresh_remote_member: the stored row decides, or there is no task id.
RefreshFromStore(m) ==
  /\ Refreshing(m) /\ ~Latched(status[m]) /\ ~args.local
  /\ IF Known(m)
       THEN /\ row[m] # "none" /\ Latched(ClassifyRecordState(row[m]))
            /\ Refreshed(m, ClassifyRecordState(row[m]))
       ELSE Refreshed(m, "missing")
  /\ UNCHANGED <<world, row, answer, expired, decision>>

\* refresh_remote_member: GetTask, with what is left of the timeout.
AskAgent(m) ==
  /\ Refreshing(m) /\ ~Latched(status[m]) /\ ~args.local /\ Known(m)
  /\ row[m] = "none" \/ ~Latched(ClassifyRecordState(row[m]))
  /\ status' = IF row[m] = "none" THEN status
               ELSE [status EXCEPT ![m] = ClassifyRecordState(row[m])]
  /\ pc' = "asked"
  /\ UNCHANGED <<world, row, cur, answer, expired, decision>>

AgentAnswers ==
  /\ pc = "asked" /\ remote[cur] # "none"
  /\ answer' = remote[cur]
  /\ pc' = "answered"
  /\ UNCHANGED <<world, row, cur, status, expired, decision>>

\* Agent unreachable, task unknown to it, answer lost or late, answer that
\* cannot be stored.
PollFails ==
  /\ pc \in {"asked", "answered"}
  /\ Refreshed(cur, "error")
  /\ answer' = "none"
  /\ UNCHANGED <<world, row, expired, decision>>

\* persist_barrier_remote_task, apply_record.
PersistBarrierRemoteTask ==
  /\ pc = "answered"
  /\ row' = [row EXCEPT ![cur] = answer]
  /\ Refreshed(cur, ClassifyRecordState(answer))
  /\ answer' = "none"
  /\ UNCHANGED <<world, expired, decision>>

Satisfied == {m \in Members : status[m] = "satisfied"}
Disqualified == {m \in Members : IsDisqualified(status[m])}
Failures == {m \in Members : IsFailure(status[m])}
Cancellations == {m \in Members : status[m] = "cancelled"}

\* Seeded fault of Evaluation: the deadline is looked at only when no member is out.
EvaluationLate ==
  IF Cardinality(Satisfied) >= args.required THEN "succeeded"
  ELSE IF args.policy = "stop" /\ Failures # {} THEN "failed"
  ELSE IF args.policy = "stop" /\ Cancellations # {} THEN "cancelled"
  ELSE IF N - Cardinality(Disqualified) < args.required
    THEN IF Cancellations # {} /\ Failures = {} THEN "cancelled" ELSE "failed"
  ELSE IF expired /\ Disqualified = {} THEN "timeout"
  ELSE "continue"

\* Seeded fault of Evaluation: the quorum is impossible one member too early.
EvaluationOffByOne ==
  IF Cardinality(Satisfied) >= args.required THEN "succeeded"
  ELSE IF args.policy = "stop" /\ Failures # {} THEN "failed"
  ELSE IF args.policy = "stop" /\ Cancellations # {} THEN "cancelled"
  ELSE IF N - Cardinality(Disqualified) <= args.required
    THEN IF Cancellations # {} /\ Failures = {} THEN "cancelled" ELSE "failed"
  ELSE IF expired THEN "timeout"
  ELSE "continue"

\* evaluate_barrier.
Evaluation ==
  IF Cardinality(Satisfied) >= args.required THEN "succeeded"
  ELSE IF args.policy = "stop" /\ Failures # {} THEN "failed"
  ELSE IF args.policy = "stop" /\ Cancellations # {} THEN "cancelled"
  ELSE IF N - Cardinality(Disqualified) < args.required
    THEN IF Cancellations # {} /\ Failures = {} THEN "cancelled" ELSE "failed"
  ELSE IF expired THEN "timeout"
  ELSE "continue"

\* The end of a round: the summary and the exit code, which drops the lock, or
\* another round after a sleep.
EvaluateBarrier ==
  /\ pc = "round" /\ cur = N + 1
  /\ decision' = Evaluation
  /\ pc' = IF decision' = "continue" THEN "sleep" ELSE "done"
  /\ UNCHANGED <<world, row, cur, answer, status, expired>>

Wake ==
  /\ pc = "sleep"
  /\ pc' = "round"
  /\ cur' = 1
  /\ UNCHANGED <<world, row, answer, status, expired, decision>>

\* From its first read to its exit the command holds the state-mutation lock.
Running == pc \in {"round", "asked", "answered", "sleep"}

Expire ==
  /\ Running /\ ~expired
  /\ expired' = TRUE
  /\ UNCHANGED <<world, row, pc, cur, answer, status, decision>>

----------------------------------------------------------------------------
(* The agents and the gateway.  What they do after the barrier has ended   *)
(* matters to nobody here.                                                 *)

TaskMoves(m, s) ==
  /\ pc # "done" /\ remote[m] # "none" /\ ~IsTerminalTaskState(remote[m]) /\ s # remote[m]
  /\ remote' = [remote EXCEPT ![m] = s]
  /\ reached' = IF s \in Success THEN reached \union {m} ELSE reached
  /\ UNCHANGED <<args, referenced, row, guessed, news, pc, cur, answer, status,
                 expired, decision>>

NoNews == [member |-> 0, state |-> "none"]

\* A subscription stream or a wait job gets an answer, without the lock.
GatewayReads(m) ==
  /\ pc # "done" /\ news = NoNews /\ remote[m] # "none"
  /\ news' = [member |-> m, state |-> remote[m]]
  /\ UNCHANGED <<args, referenced, remote, reached, guessed, row, pc, cur, answer,
                 status, expired, decision>>

\* Seeded fault of GatewayWrites: the lock is not taken.
GatewayWritesUnlocked ==
  /\ news # NoNews
  /\ row' = [row EXCEPT ![news.member] = news.state]
  /\ news' = NoNews
  /\ UNCHANGED <<args, referenced, remote, reached, guessed, pc, cur, answer,
                 status, expired, decision>>

\* It is written, over whatever the row says by then, before a barrier
\* takes the lock.
GatewayWrites ==
  /\ pc = "idle" /\ news # NoNews
  /\ row' = [row EXCEPT ![news.member] = news.state]
  /\ news' = NoNews
  /\ UNCHANGED <<args, referenced, remote, reached, guessed, pc, cur, answer,
                 status, expired, decision>>

\* Another command names the task of a member before the barrier takes the
\* lock: a row that is missing is guessed, and `stream --task` writes its guess
\* over the one that is there.  The agent need not know the task.
GuessTask(m, s) ==
  /\ pc = "idle" /\ (row[m] = "none" \/ s = "submitted")
  /\ row' = [row EXCEPT ![m] = s]
  /\ guessed' = IF s \in Success THEN guessed \union {m} ELSE guessed
  /\ UNCHANGED <<args, referenced, remote, reached, news, pc, cur, answer,
                 status, expired, decision>>

----------------------------------------------------------------------------

\* The tasks run and nothing is stored yet; agents and gateway come first.
Init ==
  /\ args \in Args
  /\ remote \in [Members -> {s \in Reported : ~IsTerminalTaskState(s)} \union {"none"}]
  /\ row = [m \in Members |-> "none"]
  /\ referenced \in SUBSET {m \in Members : remote[m] # "none"}
  /\ reached = {m \in Members : remote[m] \in Success}
  /\ guessed = {}
  /\ news = NoNews
  /\ pc = "idle"
  /\ cur = 1
  /\ answer = "none"
  /\ status = [m \in Members |-> "pending"]
  /\ expired = FALSE
  /\ decision = "continue"

Command ==
  \/ StartBarrier
  \/ \E m \in Members : SkipMember(m)
  \/ \E m \in Members : RefreshLocalMember(m)
  \/ \E m \in Members : RefreshFromStore(m)
  \/ \E m \in Members : AskAgent(m)
  \/ PollFails
  \/ PersistBarrierRemoteTask
  \/ EvaluateBarrier
  \/ Wake

Next ==
  \/ Command
  \/ AgentAnswers
  \/ Expire
  \/ \E m \in Members, s \in Reported : TaskMoves(m, s)
  \/ \E m \in Members : GatewayReads(m)
  \/ GatewayWrites
  \/ \E m \in Members, s \in Guesses : GuessTask(m, s)

Spec == Init /\ [][Next]_vars

\* A poll comes back (PollFails), sleeps end, and the timeout elapses.
FairSpec == Spec /\ WF_vars(Command) /\ WF_vars(Expire)

----------------------------------------------------------------------------
(* Properties.                                                             *)

TypeOK ==
  /\ args \in Args
  /\ referenced \subseteq Members
  /\ remote \in [Members -> TaskStates \union {"none"}]
  /\ row \in [Members -> TaskStates \union {"none"}]
  /\ reached \subseteq Members
  /\ guessed \subseteq Members
  /\ news \in [member : Members, state : TaskStates] \union {NoNews}
  /\ pc \in {"idle", "round", "asked", "answered", "sleep", "done"}
  /\ cur \in 1 .. N + 1
  /\ answer \in TaskStates \union {"none"}
  /\ status \in [Members -> {"satisfied", "pending", "failed", "cancelled",
                             "missing", "error", "terminal_unmatched"}]
  /\ expired \in BOOLEAN
  /\ decision \in {"continue", "succeeded", "failed", "cancelled", "timeout"}

\* A barrier that succeeds had its quorum: that many tasks have really been in
\* a satisfying state at their agents, however old the rows and answers were.
\* Only with --state submitted or unknown may a row some command guessed stand
\* for a member: the barrier takes a satisfying row without asking the agent.
QuorumIsReal ==
  decision = "succeeded" =>
    /\ Cardinality(reached \union guessed) >= args.required
    /\ Success \intersect Guesses = {} => Cardinality(reached) >= args.required

\* With --failure-policy continue and no failed poll, a barrier gives up only
\* if too many tasks have ended otherwise at their agents for the quorum.
GivesUpOnlyWhenImpossible ==
  /\ decision \in {"failed", "cancelled"} /\ args.policy = "continue"
  /\ \A m \in Members : status[m] # "error"
  => N - Cardinality({m \in Members : /\ IsTerminalTaskState(remote[m])
                                      /\ remote[m] \notin Success}) < args.required

\* While a barrier runs, a finished task is not taken back to an older state:
\* the answers other writers hold wait for the lock.
FinishedRowsStay ==
  [][\A m \in Members :
       Running /\ Running' /\ IsTerminalTaskState(row[m]) => row'[m] = row[m]]_vars

\* Every barrier ends, whatever tasks and agents do.
BarrierEnds == pc = "round" ~> pc = "done"

\* docs/cli.md: "Exit codes are `0` for success, `80` for failed member tasks
\* or impossible quorum, `81` for cancellation": a barrier whose only members
\* out are cancelled ones is not called failed.
CancellationIsCancelled ==
  decision = "failed" =>
    \E m \in Disqualified : status[m] = "error" \/ row[m] # "cancelled"
=============================================================================
