---------------------------- MODULE TaskCommands ----------------------------
(***************************************************************************)
(* The commands that talk to an agent about tasks and mirror what it says: *)
(* send, stream, task get / list / wait / cancel and the artifact rows     *)
(* (missive-cli/src/send.rs, stream.rs, task.rs, artifact.rs), next to a   *)
(* gateway whose jobs and subscriptions follow the same tasks.             *)
(*                                                                         *)
(* A command holds the state-mutation lock from open_agent_registry to its *)
(* end; the agents' tasks move meanwhile, and a stream's events are on     *)
(* their way.  A gateway gets its answers and stream events without the    *)
(* lock and takes it to write one.  Each persist is one transaction.       *)
(*                                                                         *)
(* Data.  A task's state history stands for its remote task JSON: position *)
(* i of it is the snapshot with the i-th state.  A task has one artifact   *)
(* row; its parts are numbered as the agent produced them.  A message has  *)
(* the id its agent gave it: its own, or one that is stored already.       *)
(***************************************************************************)
EXTENDS Naturals, Sequences

CONSTANTS
  TaskIds,    \* task ids
  MaxMoves,   \* how many states a task goes through
  MaxChunks,  \* how many parts its artifact gets
  None        \* no row, no task

ASSUME CommandBounds == MaxMoves \in Nat \ {0} /\ MaxChunks \in Nat /\ None \notin TaskIds

VARIABLES
  remote,    \* the states each agent task has been in
  chunks,    \* parts of its artifact produced so far
  rows,      \* the tasks row
  parts,     \* parts of the artifacts row
  told,      \* state in the last journalled event about the task
  ids,       \* <<task, position>>: status messages stored by their id
  polled,    \* position of the answer the gateway holds
  command,   \* the command that holds the lock
  wire,      \* stream events on their way
  outcome    \* how the last command ended

agent == <<remote, chunks>>
mirror == <<rows, parts, told, ids>>
taskVars == <<remote, chunks, rows, parts, told, ids, polled, command, wire, outcome>>

AgentStates == {"working", "input_required", "completed", "cancelled"}
Terminal == {"completed", "cancelled"}

TaskRowSet == [state : AgentStates \cup {"submitted", "unknown"}, seen : 0 .. MaxMoves,
               done : BOOLEAN, json : 0 .. MaxMoves]

ASSUME NoneIsNoRow == None \notin TaskRowSet

Idle == [kind |-> "idle", task |-> None]
CommandSet ==
  {Idle} \cup [kind : {"opening", "stream", "wait", "wait_local"}, task : TaskIds]

\* A stream event, with the state and the number of parts it was sent at.
WireEvents == [type : {"task", "status", "artifact", "message"}, at : 1 .. MaxMoves,
               chunk : 0 .. MaxChunks]

TaskTypeOK ==
  /\ remote \in [TaskIds -> UNION {[1 .. n -> AgentStates] : n \in 0 .. MaxMoves}]
  /\ chunks \in [TaskIds -> 0 .. MaxChunks]
  /\ rows \in [TaskIds -> TaskRowSet \cup {None}]
  /\ \A t \in TaskIds : \A i \in 1 .. Len(parts[t]) : parts[t][i] \in 1 .. MaxChunks
  /\ told \in [TaskIds -> AgentStates \cup {"submitted", "unknown", None}]
  /\ ids \subseteq TaskIds \X (1 .. MaxMoves)
  /\ polled \in [TaskIds -> 0 .. MaxMoves]
  /\ command \in CommandSet
  /\ \A i \in 1 .. Len(wire) : wire[i] \in WireEvents
  /\ outcome \in {"ok", "invalid", "failed", "storage", "collision", "killed",
                  "input_required", "cancelled", "timeout"}

Now(h) == h[Len(h)]
Known(t) == remote[t] # <<>>
UpTo(n) == [i \in 1 .. n |-> i]

Free == command = Idle
Finished(o) == command' = Idle /\ outcome' = o

----------------------------------------------------------------------------
(* The agents (external).                                                  *)

\* What a change of task t puts on the open stream about it.
Emits(t, event) ==
  wire' = IF command = [kind |-> "stream", task |-> t] THEN Append(wire, event) ELSE wire

AgentMoves(t) ==
  /\ Known(t) /\ Now(remote[t]) \notin Terminal /\ Len(remote[t]) < MaxMoves
  /\ \E s \in AgentStates \ {Now(remote[t])} : remote' = [remote EXCEPT ![t] = Append(@, s)]
  /\ Emits(t, [type |-> "status", at |-> Len(remote[t]) + 1, chunk |-> chunks[t]])
  /\ UNCHANGED <<chunks, mirror, polled, command, outcome>>

AgentProduces(t) ==
  /\ Known(t) /\ Now(remote[t]) \notin Terminal /\ chunks[t] < MaxChunks
  /\ chunks' = [chunks EXCEPT ![t] = @ + 1]
  /\ Emits(t, [type |-> "artifact", at |-> Len(remote[t]), chunk |-> chunks[t] + 1])
  /\ UNCHANGED <<remote, mirror, polled, command, outcome>>

AgentSpeaks(t) ==
  /\ command = [kind |-> "stream", task |-> t]
  /\ Now(remote[t]) \notin Terminal /\ wire = <<>>
  /\ Emits(t, [type |-> "message", at |-> Len(remote[t]), chunk |-> chunks[t]])
  /\ UNCHANGED <<agent, mirror, polled, command, outcome>>

\* A message for task t: a new task, or input it was waiting for.
Accepted(t) ==
  IF ~Known(t) THEN <<"working">>
  ELSE IF Now(remote[t]) = "input_required" /\ Len(remote[t]) < MaxMoves
       THEN Append(remote[t], "working") ELSE remote[t]

----------------------------------------------------------------------------
(* Writing what an agent said.                                             *)

\* upsert_remote_task of task.rs and send.rs: a fresh row from the snapshot.
FreshRow(h) ==
  [state |-> Now(h), seen |-> Len(h), done |-> Now(h) \in Terminal, json |-> Len(h)]

\* merged_task_upsert of stream.rs: the JSON and the completion time of the
\* row are carried over.
MergedRow(old, s, i) ==
  [state |-> s, seen |-> i, done |-> s \in Terminal \/ (old # None /\ old.done),
   json |-> IF old = None THEN 0 ELSE old.json]

\* Seeded fault of TaskArtifacts: the parts are added to the ones stored.
TaskArtifactsAdded(old, n) == IF n = 0 THEN old ELSE old \o UpTo(n)

\* persist_task_artifacts: the artifact of a snapshot replaces the stored one.
TaskArtifacts(old, n) == IF n = 0 THEN old ELSE UpTo(n)

\* Seeded fault of MergeIncremental: `append` is not looked at.
MergeReplacing(old, chunk) == <<chunk>>

\* merge_incremental_artifact: an appended chunk goes behind the stored parts.
MergeIncremental(old, chunk) == Append(old, chunk)

\* Whether upsert_remote_task of task.rs journals a2a.task.updated.
Changed(row, h) == row = None \/ row.state # Now(h) \/ row.json # Len(h)

\* persist_remote_task: the snapshot of t, whose history is now h.
PersistRemoteTask(t, h) ==
  /\ rows' = [rows EXCEPT ![t] = FreshRow(h)]
  /\ parts' = [parts EXCEPT ![t] = TaskArtifacts(@, chunks[t])]
  /\ told' = IF Changed(rows[t], h) THEN [told EXCEPT ![t] = Now(h)] ELSE told
  /\ ids' = ids

----------------------------------------------------------------------------
(* missive send.                                                           *)

\* Seeded fault of Placeholder: a row that exists is overwritten too.
PlaceholderAlways(row, s) == [state |-> s, seen |-> 0, done |-> FALSE, json |-> 0]

\* ensure_task_placeholder(_for_message_fk): only a missing row is written.
Placeholder(row, s) ==
  IF row # None THEN row ELSE [state |-> s, seen |-> 0, done |-> FALSE, json |-> 0]

\* insert_response_message inserts under the id the agent gave the message: a
\* status message that was stored with an earlier answer cannot be stored
\* again.
StoredBefore(t, i) == <<t, i>> \in ids

\* The answer is the task, with or without a status message.
SendTaskResponse(t, h, message) ==
  IF message /\ StoredBefore(t, Len(h))
  THEN UNCHANGED mirror /\ outcome' = "storage"
  ELSE /\ rows' = [rows EXCEPT ![t] = FreshRow(h)]
       /\ parts' = [parts EXCEPT ![t] = TaskArtifacts(@, chunks[t])]
       /\ told' = [told EXCEPT ![t] = Now(h)]
       /\ ids' = IF message THEN ids \cup {<<t, Len(h)>>} ELSE ids
       /\ outcome' = "ok"

\* The answer is a message that names the task, or the request did.
SendMessageResponse(t) ==
  /\ rows' = [rows EXCEPT ![t] = Placeholder(@, "submitted")]
  /\ UNCHANGED <<parts, told, ids>>
  /\ outcome' = "ok"

\* The agent gave the message or the status message of its answer an id under
\* which another message is stored, be it the request's own, inserted a
\* statement before: the transaction is rolled back.
IdCollides == UNCHANGED mirror /\ outcome' = "collision"

\* execute_send_command: the call fails, or it is answered and persist_send
\* runs, or the process is killed before it does.
Send(t) ==
  /\ Free
  /\ \/ /\ UNCHANGED <<agent, mirror>> /\ outcome' = "failed"
     \/ /\ remote' = [remote EXCEPT ![t] = Accepted(t)]
        /\ chunks' = chunks
        /\ \/ \E message \in BOOLEAN : SendTaskResponse(t, Accepted(t), message)
           \/ SendMessageResponse(t)
           \/ IdCollides
           \/ UNCHANGED mirror /\ outcome' = "killed"
  /\ UNCHANGED <<polled, command, wire>>

----------------------------------------------------------------------------
(* missive stream.                                                         *)

\* persist_stream_request: a task named by the request is "submitted" again.
StreamRequest(t, requested) ==
  /\ Free
  /\ requested \/ ~Known(t)
  /\ rows' = IF requested THEN [rows EXCEPT ![t] = MergedRow(@, "submitted", 0)] ELSE rows
  /\ command' = [kind |-> "opening", task |-> t]
  /\ UNCHANGED <<agent, parts, told, ids, polled, wire, outcome>>

\* The agent takes the message and starts to stream, from the task on.
StreamOpens ==
  LET t == command.task
  IN  /\ command.kind = "opening"
      /\ remote' = [remote EXCEPT ![t] = Accepted(t)]
      /\ wire' = <<[type |-> "task", at |-> Len(Accepted(t)), chunk |-> chunks[t]]>>
      /\ command' = [kind |-> "stream", task |-> t]
      /\ UNCHANGED <<chunks, mirror, polled, outcome>>

\* persist_stream_event, one transaction per event.
StreamEvent ==
  LET t == command.task
      e == Head(wire)
      s == remote[t][e.at]
      row == Placeholder(rows[t], "unknown")
  IN  /\ command.kind = "stream" /\ wire # <<>>
      /\ rows' = [rows EXCEPT ![t] =
           CASE e.type = "task" -> [MergedRow(row, s, e.at) EXCEPT !.json = e.at]
             [] e.type = "status" -> MergedRow(row, s, e.at)
             [] OTHER -> MergedRow(row, row.state, row.seen)]
      /\ parts' = [parts EXCEPT ![t] =
           CASE e.type = "task" -> TaskArtifacts(@, e.chunk)
             [] e.type = "artifact" -> MergeIncremental(@, e.chunk)
             [] OTHER -> @]
      /\ told' = IF e.type \in {"task", "status"} THEN [told EXCEPT ![t] = s] ELSE told
      /\ wire' = Tail(wire)
      /\ UNCHANGED <<agent, ids, polled, command, outcome>>

\* The agent closes the stream behind the last event of a finished task.
StreamEnds ==
  /\ command.kind = "stream" /\ wire = <<>>
  /\ Now(remote[command.task]) \in Terminal
  /\ Finished("ok")
  /\ UNCHANGED <<agent, mirror, polled, wire>>

\* The call or the connection fails, an event cannot be persisted, or the
\* process is killed: what is on its way is lost.
StreamBreaks ==
  /\ command.kind \in {"opening", "stream"}
  /\ wire' = <<>>
  /\ Finished("failed")
  /\ UNCHANGED <<agent, mirror, polled>>

----------------------------------------------------------------------------
(* missive task.                                                           *)

\* get --remote; cancel when it is refused.
TaskGetRemote(t) ==
  /\ Free
  /\ \/ Known(t) /\ PersistRemoteTask(t, remote[t]) /\ outcome' = "ok"
     \/ UNCHANGED mirror /\ outcome' = "failed"
  /\ UNCHANGED <<agent, polled, command, wire>>

\* get and list without --remote, artifact list / show / save / export.
TaskGetLocal(t) ==
  /\ Free
  /\ outcome' = IF rows[t] = None THEN "invalid" ELSE "ok"
  /\ UNCHANGED <<agent, mirror, polled, command, wire>>

\* list --remote: a transaction per task, and a kill between two of them.
TaskListRemote ==
  /\ Free
  /\ \E S \in SUBSET {t \in TaskIds : Known(t)} :
       /\ rows' = [t \in TaskIds |-> IF t \in S THEN FreshRow(remote[t]) ELSE rows[t]]
       /\ parts' = [t \in TaskIds |-> IF t \in S THEN TaskArtifacts(parts[t], chunks[t])
                                      ELSE parts[t]]
       /\ told' = [t \in TaskIds |-> IF t \in S /\ Changed(rows[t], remote[t])
                                     THEN Now(remote[t]) ELSE told[t]]
       /\ outcome' = IF \A t \in TaskIds : Known(t) => t \in S THEN "ok" ELSE "killed"
  /\ UNCHANGED <<agent, ids, polled, command, wire>>

\* cancel: the agent cancels the task or answers with it as it is.
TaskCancel(t) ==
  /\ Free /\ Known(t)
  /\ \E h \in {remote[t]} \cup
              (IF Now(remote[t]) \in Terminal \/ Len(remote[t]) = MaxMoves THEN {}
               ELSE {Append(remote[t], "cancelled")}) :
       remote' = [remote EXCEPT ![t] = h] /\ PersistRemoteTask(t, h)
  /\ outcome' = "ok"
  /\ UNCHANGED <<chunks, polled, command, wire>>

\* wait, with --local or without.
TaskWait(t, local) ==
  /\ Free
  /\ command' = [kind |-> IF local THEN "wait_local" ELSE "wait", task |-> t]
  /\ UNCHANGED <<agent, mirror, polled, wire, outcome>>

\* wait_state_is_decisive
Decisive(s) == s \in Terminal \cup {"input_required"}

\* wait_exit_for_state
WaitExit(s) ==
  CASE s = "cancelled" -> "cancelled"
    [] s = "input_required" -> "input_required"
    [] OTHER -> "ok"

\* A poll that found state s ends the wait, or its time is up, or it goes on.
WaitGoesOn(s) ==
  IF Decisive(s) THEN Finished(WaitExit(s))
  ELSE Finished("timeout") \/ UNCHANGED <<command, outcome>>

WaitPolls ==
  LET t == command.task
  IN  /\ command.kind = "wait"
      /\ \/ Known(t) /\ PersistRemoteTask(t, remote[t]) /\ WaitGoesOn(Now(remote[t]))
         \/ UNCHANGED mirror /\ Finished("failed")
      /\ UNCHANGED <<agent, polled, wire>>

WaitPollsLocal ==
  LET t == command.task
  IN  /\ command.kind = "wait_local"
      /\ IF rows[t] = None THEN Finished("invalid") ELSE WaitGoesOn(rows[t].state)
      /\ UNCHANGED <<agent, mirror, polled, wire>>

----------------------------------------------------------------------------
(* The gateway's jobs and subscriptions (jobs.rs, subscription.rs).        *)

\* A send or stream job brings a task about (input for one that waits is a
\* move of the agent's).
GatewaySends(t) ==
  /\ ~Known(t)
  /\ remote' = [remote EXCEPT ![t] = <<"working">>]
  /\ UNCHANGED <<chunks, mirror, polled, command, wire, outcome>>

\* An answer or a stream event arrives.
GatewayPolls(t) ==
  /\ Known(t) /\ polled[t] = 0
  /\ polled' = [polled EXCEPT ![t] = Len(remote[t])]
  /\ UNCHANGED <<agent, mirror, command, wire, outcome>>

LockFree == Free

\* upsert_task_from_protocol of a job's answer or task event replaces the row;
\* upsert_task_from_status_update and the subscription's events are merged into
\* it, the latter with the JSON when they carry the task.
GatewayRow(old, h, form) ==
  CASE form = "replace" -> FreshRow(h)
    [] form = "status" -> MergedRow(old, Now(h), Len(h))
    [] form = "task" -> [MergedRow(old, Now(h), Len(h)) EXCEPT !.json = Len(h)]

\* Artifacts of the answer are not persisted, and an event without a state
\* leaves the row as it is.
GatewayPersists(t, form) ==
  LET h == SubSeq(remote[t], 1, polled[t])
  IN  /\ polled[t] # 0 /\ LockFree
      /\ rows' = [rows EXCEPT ![t] = GatewayRow(@, h, form)]
      /\ told' = [told EXCEPT ![t] = Now(h)]
      /\ polled' = [polled EXCEPT ![t] = 0]
      /\ UNCHANGED <<agent, parts, ids, command, wire, outcome>>

Forms == {"replace", "status", "task"}

----------------------------------------------------------------------------
TaskInit ==
  /\ remote = [t \in TaskIds |-> <<>>]
  /\ chunks = [t \in TaskIds |-> 0]
  /\ rows = [t \in TaskIds |-> None]
  /\ parts = [t \in TaskIds |-> <<>>]
  /\ told = [t \in TaskIds |-> None]
  /\ ids = {}
  /\ polled = [t \in TaskIds |-> 0]
  /\ command = Idle
  /\ wire = <<>>
  /\ outcome = "ok"

TaskNext ==
  \/ \E t \in TaskIds :
       \/ AgentMoves(t) \/ AgentProduces(t) \/ AgentSpeaks(t)
       \/ Send(t)
       \/ \E requested \in BOOLEAN : StreamRequest(t, requested)
       \/ TaskGetRemote(t) \/ TaskGetLocal(t) \/ TaskCancel(t)
       \/ \E local \in BOOLEAN : TaskWait(t, local)
       \/ GatewaySends(t) \/ GatewayPolls(t)
       \/ \E form \in Forms : GatewayPersists(t, form)
  \/ StreamOpens \/ StreamEvent \/ StreamEnds \/ StreamBreaks
  \/ TaskListRemote
  \/ WaitPolls \/ WaitPollsLocal

TaskSpec == TaskInit /\ [][TaskNext]_taskVars

----------------------------------------------------------------------------
(* Properties.                                                             *)

M == INSTANCE MirroredTask WITH
       Tasks <- TaskIds,
       history <- remote,
       held <- polled,
       at <- [t \in TaskIds |-> IF rows[t] = None THEN 0 ELSE rows[t].seen],
       view <- [t \in TaskIds |-> IF rows[t] = None THEN "none" ELSE rows[t].state]

\* The commands and the gateway implement module MirroredTask: the tasks row
\* shows a state the agent's task was in and moves forward with it, whichever
\* command writes it and wherever it is interrupted.
RowsMirrorTasks == M!Spec

\* completed_at is never missing and never invented: a row with a terminal
\* state has it, and a row that has it belongs to a task that is over at the
\* agent, whether a snapshot replaced the row or an event, maybe an old one,
\* was merged into it.
CompletedAtMatchesState ==
  \A t \in TaskIds : rows[t] # None =>
    /\ rows[t].state \in Terminal => rows[t].done
    /\ rows[t].done => Known(t) /\ Now(remote[t]) \in Terminal

\* Parts of a stored artifact are parts the agent produced, each at most once
\* and in its order, however snapshots and appended chunks were mixed and
\* streams broken off.
PartsInOrder ==
  \A t \in TaskIds :
    /\ \A i \in 1 .. Len(parts[t]) : parts[t][i] <= chunks[t]
    /\ \A i, j \in 1 .. Len(parts[t]) : i < j => parts[t][i] < parts[t][j]

\* A stream that ends on its own leaves the task as the agent has it: the last
\* state and all parts of the artifact.
StreamEndsCurrent ==
  [][StreamEnds => LET t == command.task
                   IN  rows[t].seen = Len(remote[t]) /\ parts[t] = UpTo(chunks[t])]_taskVars

\* A wait exits with success only for a task that is completed at the agent,
\* also when it looked at local rows only and a gateway wrote them.
WaitExitIsTrue ==
  [][command.kind \in {"wait", "wait_local"} /\ command' = Idle /\ outcome' = "ok"
       => Now(remote[command.task]) = "completed"]_taskVars

\* `task wait --local` holds the lock every writer needs: the row it polls
\* does not change while it waits, so it ends as its first poll found it or
\* runs into its timeout.
LocalWaitIsFrozen ==
  [][command.kind = "wait_local" => rows' = rows]_taskVars

\* The last event journalled about a task shows the state its row has, unless
\* the row was reset for a follow-up.
JournalFollowsRow ==
  \A t \in TaskIds : rows[t] # None /\ rows[t].seen # 0 => told[t] = rows[t].state

\* A send the agent has answered and the database then refuses leaves the rows
\* alone, and it carried no news if the agent names messages apart: the task
\* had not moved and its status message was stored already.  Only an id that
\* belongs to another message ("collision") rolls back first contact or a new
\* state.
RollbackLosesNoState ==
  [][\A t \in TaskIds : Send(t) /\ outcome' \in {"storage", "collision"} =>
       /\ UNCHANGED mirror
       /\ outcome' = "storage" => remote' = remote /\ <<t, Len(remote[t])>> \in ids]_taskVars

\* What the database says of a task is consistent and no more than the agent
\* has said, whatever snapshots, events, follow-ups and failures made it up.
StoreFollowsAgent ==
  TaskTypeOK /\ CompletedAtMatchesState /\ PartsInOrder /\ JournalFollowsRow

\* A command that has ended was right about the task: a wait that succeeded, a
\* stream that ended, a send that was refused by the database, and a local
\* wait that looked at rows nobody could write.
CommandsReportTruly ==
  StreamEndsCurrent /\ WaitExitIsTrue /\ LocalWaitIsFrozen /\ RollbackLosesNoState
=============================================================================
