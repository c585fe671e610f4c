------------------------- MODULE TaskSubscriptions -------------------------
(***************************************************************************)
(* The subscription manager of a missive gateway                           *)
(* (missive-gateway/src/subscription.rs): it finds the in-flight tasks in  *)
(* the store, keeps a gateway_jobs row of kind task_subscription for each, *)
(* follows the remote task over an SSE stream and writes what it reads     *)
(* into the tasks table, next to the other writers of that table: the      *)
(* foreground CLI (task get / wait / cancel, send, stream) and the         *)
(* gateway's own wait, send and stream jobs.                               *)
(*                                                                         *)
(* Atomicity.  The scan, one stream event and the finish run under the     *)
(* state-mutation lock; an SSE event or a GetTask answer that is read      *)
(* before the lock is taken may be old when it is written.  A foreground   *)
(* stream holds the lock from its request to its end, and the events it    *)
(* writes may be old too.  The scan and the finish are several commits, so *)
(* a crash may cut them anywhere.                                          *)
(*                                                                         *)
(* Data.  A task is "working" (submitted, working, unknown),               *)
(* "input_required" or "completed" (completed, failed, cancelled): the     *)
(* classes is_monitorable_task_state and is_terminal_task_state tell       *)
(* apart.  next_run_at is "in the future" or not; the lock columns of the  *)
(* row are written and never read.  Message and artifact events leave the  *)
(* state of the task alone and are left out.                               *)
(***************************************************************************)
EXTENDS Integers, FiniteSets, Sequences

CONSTANTS
  Tasks,         \* task ids, ordered as ORDER BY task_id
  Agents,
  Agent,         \* Agent[t]: the agent a task belongs to
  Gateways,
  ReplaysTerminal,  \* does the agent stream a task that is already terminal?
  MaxMoves,      \* bound: state changes of a remote task
  MaxFollowUps,  \* bound: follow-ups somebody streams to a task
  MaxStops       \* bound: gateway crashes and shutdowns

ASSUME TasksAssumption ==
  /\ Tasks \subseteq Nat
  /\ Agent \in [Tasks -> Agents]
  /\ ReplaysTerminal \in BOOLEAN
  /\ MaxMoves \in Nat
  /\ MaxFollowUps \in Nat
  /\ MaxStops \in Nat

VARIABLES
  remote,   \* the task at the agent
  moves,    \* how often it changed
  task,     \* the tasks row
  sub,      \* the task_subscription row
  event,    \* the last lifecycle event journalled for the row
  card,     \* the cached Agent Card of each agent
  cli,      \* the task a foreground stream, which holds the lock, is about
  open,     \* has the agent accepted it?
  feed,     \* its events, sent and not yet persisted
  followUps,
  polled,   \* answers or events a job has read and not yet written
  proc,     \* life cycle of each gateway process
  mgr,      \* where its subscription manager stands
  batch,    \* candidates of the last scan, not yet finished
  wire,     \* events of the open stream, sent and not yet persisted
  seen,     \* terminal_seen of the attempt
  stops

agents == <<remote, moves>>
store == <<task, sub, event, card>>
attempt == <<wire, seen>>
process == <<proc, mgr, batch, wire, seen>>
foreground == <<cli, open, feed, followUps>>
vars == <<remote, moves, task, sub, event, card, cli, open, feed, followUps,
          polled, proc, mgr, batch, wire, seen, stops>>

TaskStates == {"working", "input_required", "completed"}
\* "later": retrying with next_run_at ahead; "retry": retrying and due again.
RowStates == {"absent", "queued", "running", "later", "retry"}
Cards == {"streaming", "plain", "unusable"}

IsMonitorable(s) == s = "working"
IsTerminal(s) == s = "completed"

\* Seeded fault of JobIsDue: a running row is taken to be in good hands.
DueUnlessRunning(r) == r \notin {"later", "running"}

JobIsDue(r) == r # "later"

----------------------------------------------------------------------------
(* The remote agent and the other writers.                                 *)

LockFree == cli = {}

Current(g, t) == t \in batch[g] /\ \A u \in batch[g] : t <= u
Streams(g, t) == mgr[g] = "stream" /\ Current(g, t)

\* The remote task changes; every open stream of it is told.
RemoteMoves(t, s) ==
  /\ moves[t] < MaxMoves
  /\ ~IsTerminal(remote[t]) /\ s # remote[t]
  /\ remote' = [remote EXCEPT ![t] = s]
  /\ moves' = [moves EXCEPT ![t] = @ + 1]
  /\ wire' = [g \in Gateways |-> IF Streams(g, t) THEN Append(wire[g], s)
                                                  ELSE wire[g]]
  /\ feed' = IF open /\ t \in cli THEN Append(feed, s) ELSE feed
  /\ UNCHANGED <<store, cli, open, followUps, polled, proc, mgr, batch, seen, stops>>

\* missive send, task get --remote, task wait, task cancel: the command holds
\* the state-mutation lock around the remote call and the write.
RefreshTask(t) ==
  /\ LockFree
  /\ task' = [task EXCEPT ![t] = remote[t]]
  /\ UNCHANGED <<agents, sub, event, card, foreground, polled, process, stops>>

\* send, push create and job submit write a task they do not know yet as
\* submitted or unknown, whatever the agent has made of it.
FirstGuess(t) ==
  /\ LockFree /\ task[t] = "absent"
  /\ task' = [task EXCEPT ![t] = "working"]
  /\ UNCHANGED <<agents, sub, event, card, foreground, polled, process, stops>>

\* stream --task: persist_stream_request sets the row to submitted, also that
\* of a finished task, before the agent is asked ...
FollowUp(t) ==
  /\ LockFree /\ followUps < MaxFollowUps
  /\ task' = [task EXCEPT ![t] = "working"]
  /\ cli' = {t}
  /\ followUps' = followUps + 1
  /\ UNCHANGED <<agents, sub, event, card, open, feed, polled, process, stops>>

\* ... which may refuse, or stream the task from where it is ...
FollowUpOpens(t) ==
  /\ t \in cli /\ ~open
  /\ open' = TRUE
  /\ feed' = <<remote[t]>>
  /\ UNCHANGED <<agents, store, cli, followUps, polled, process, stops>>

\* ... event by event (persist_stream_event) ...
FollowUpEvent(t) ==
  /\ t \in cli /\ feed # <<>>
  /\ task' = [task EXCEPT ![t] = Head(feed)]
  /\ feed' = Tail(feed)
  /\ UNCHANGED <<agents, sub, event, card, cli, open, followUps, polled,
                 process, stops>>

\* ... until the stream closes or breaks, or the command is killed.
FollowUpEnds ==
  /\ ~LockFree
  /\ cli' = {}
  /\ open' = FALSE
  /\ feed' = <<>>
  /\ UNCHANGED <<agents, store, followUps, polled, process, stops>>

\* The job manager of a gateway runs one attempt at a time.  A wait or send
\* job reads the task without the lock; a stream job gets an event for each
\* change while earlier ones wait to be written ...
JobReadsTask(g, t) ==
  /\ proc[g] # "down"
  /\ polled[g] # <<>> => LET last == polled[g][Len(polled[g])]
                         IN last.id = t /\ last.state # remote[t]
  /\ polled' = [polled EXCEPT ![g] = Append(@, [id |-> t, state |-> remote[t]])]
  /\ UNCHANGED <<agents, store, foreground, process, stops>>

\* ... and writes what it read under it ...
JobPersistsTask(g) ==
  /\ polled[g] # <<>> /\ LockFree
  /\ task' = [task EXCEPT ![Head(polled[g]).id] = Head(polled[g]).state]
  /\ polled' = [polled EXCEPT ![g] = Tail(@)]
  /\ UNCHANGED <<agents, sub, event, card, foreground, process, stops>>

\* ... or fails before that.
JobDropsTask(g) ==
  /\ polled[g] # <<>>
  /\ polled' = [polled EXCEPT ![g] = <<>>]
  /\ UNCHANGED <<agents, store, foreground, process, stops>>

\* agent refresh negotiates an interface before it caches the card; agent
\* capabilities --refresh caches whatever parses.
CacheCard(a, c, negotiated) ==
  /\ LockFree
  /\ negotiated => c # "unusable"
  /\ card' = [card EXCEPT ![a] = c]
  /\ UNCHANGED <<agents, task, sub, event, foreground, polled, process, stops>>

----------------------------------------------------------------------------
(* The gateway process.                                                    *)

GatewayStart(g) ==
  /\ proc[g] = "down"
  /\ \A h \in Gateways : proc[h] \notin {"up", "stopping"}
  /\ proc' = [proc EXCEPT ![g] = "up"]
  /\ mgr' = [mgr EXCEPT ![g] = "batch"]
  /\ UNCHANGED <<agents, store, foreground, polled, batch, attempt, stops>>

RequestShutdown(g) ==
  /\ proc[g] = "up" /\ stops < MaxStops
  /\ proc' = [proc EXCEPT ![g] = "stopping"]
  /\ stops' = stops + 1
  /\ UNCHANGED <<agents, store, foreground, polled, mgr, batch, attempt>>

\* The gateway lock is dropped before the managers are joined.
DropGatewayLock(g) ==
  /\ proc[g] = "stopping"
  /\ proc' = [proc EXCEPT ![g] = "joining"]
  /\ UNCHANGED <<agents, store, foreground, polled, mgr, batch, attempt, stops>>

\* The error of a dead manager is returned before the job manager is joined.
GatewayExit(g) ==
  /\ proc[g] = "joining"
  /\ mgr[g] = "dead" \/ (mgr[g] = "stopped" /\ polled[g] = <<>>)
  /\ proc' = [proc EXCEPT ![g] = "down"]
  /\ mgr' = [mgr EXCEPT ![g] = "off"]
  /\ polled' = [polled EXCEPT ![g] = <<>>]
  /\ UNCHANGED <<agents, store, foreground, batch, attempt, stops>>

ForgetBatch(g) ==
  /\ batch' = [batch EXCEPT ![g] = {}]
  /\ wire' = [wire EXCEPT ![g] = <<>>]
  /\ seen' = [seen EXCEPT ![g] = FALSE]

KillProcess(g) ==
  /\ proc[g] # "down" /\ stops < MaxStops
  /\ stops' = stops + 1
  /\ proc' = [proc EXCEPT ![g] = "down"]
  /\ mgr' = [mgr EXCEPT ![g] = "off"]
  /\ polled' = [polled EXCEPT ![g] = <<>>]
  /\ ForgetBatch(g)

GatewayCrash(g) ==
  /\ KillProcess(g)
  /\ UNCHANGED <<agents, store, foreground>>

----------------------------------------------------------------------------
(* The scan: cleanup first, then the tasks in id order.                    *)

NextScan(g) ==
  /\ proc[g] = "up" /\ mgr[g] = "batch" /\ batch[g] = {}
  /\ mgr' = [mgr EXCEPT ![g] = "scan"]
  /\ UNCHANGED <<agents, store, foreground, polled, proc, batch, attempt, stops>>

StopManager(g) ==
  /\ proc[g] \in {"stopping", "joining"} /\ mgr[g] = "batch"
  /\ mgr' = [mgr EXCEPT ![g] = "stopped"]
  /\ ForgetBatch(g)
  /\ UNCHANGED <<agents, store, foreground, polled, proc, stops>>

\* Rows cleanup_stale_or_terminal_jobs deletes.
Stale == {t \in Tasks : sub[t] # "absent" /\ ~IsMonitorable(task[t])}

InFlight == {t \in Tasks : IsMonitorable(task[t])}

\* Tasks whose card streaming_interface_for_agent answers with an error.
Blocking == {t \in InFlight : card[Agent[t]] = "unusable"}

\* Tasks the loop claims: due, and before the first that stops the loop.
Claimed == {t \in InFlight : /\ card[Agent[t]] = "streaming"
                             /\ JobIsDue(sub[t])
                             /\ \A b \in Blocking : t < b}

\* The first C of the rows to clean are deleted, the first D of the tasks to
\* claim are running; their events are in the journal.
CleanAndClaim(C, D) ==
  /\ sub' = [t \in Tasks |-> IF t \in C THEN "absent"
                             ELSE IF t \in D THEN "running" ELSE sub[t]]
  /\ event' = [t \in Tasks |-> IF t \in C THEN "cleaned"
                               ELSE IF t \in D THEN "started" ELSE event[t]]

Scan(g) ==
  /\ mgr[g] = "scan" /\ LockFree
  /\ Blocking = {}
  /\ CleanAndClaim(Stale, Claimed)
  /\ batch' = [batch EXCEPT ![g] = Claimed]
  /\ mgr' = [mgr EXCEPT ![g] = "batch"]
  /\ UNCHANGED <<agents, task, card, foreground, polled, proc, attempt, stops>>

\* One unusable card: the error ends the manager task, and nobody looks at it
\* before the daemon shuts down.  The rows claimed so far stay claimed.
ScanFails(g) ==
  /\ mgr[g] = "scan" /\ LockFree
  /\ Blocking # {}
  /\ CleanAndClaim(Stale, Claimed)
  /\ mgr' = [mgr EXCEPT ![g] = "dead"]
  /\ UNCHANGED <<agents, task, card, foreground, polled, proc, batch, attempt, stops>>

IsPrefix(C, S) == C \subseteq S /\ \A c \in C, s \in S \ C : c < s

\* Seeded fault of CrashInCleanup: the row is deleted before its event.
CrashInUnloggedCleanup(g, C, t, half) ==
  /\ mgr[g] = "scan" /\ LockFree /\ KillProcess(g)
  /\ t \in Stale \ C /\ IsPrefix(C, Stale) /\ IsPrefix(C \union {t}, Stale)
  /\ sub' = [u \in Tasks |-> IF u \in C \/ (half /\ u = t) THEN "absent"
                                                         ELSE sub[u]]
  /\ event' = [u \in Tasks |-> IF u \in C THEN "cleaned" ELSE event[u]]
  /\ UNCHANGED <<agents, task, card, foreground>>

\* The process dies in the cleanup, at row t: half is between the event and
\* the delete of t.
CrashInCleanup(g, C, t, half) ==
  /\ mgr[g] = "scan" /\ LockFree /\ KillProcess(g)
  /\ t \in Stale \ C /\ IsPrefix(C, Stale) /\ IsPrefix(C \union {t}, Stale)
  /\ sub' = [u \in Tasks |-> IF u \in C THEN "absent" ELSE sub[u]]
  /\ event' = [u \in Tasks |-> IF u \in C \/ (half /\ u = t) THEN "cleaned"
                                                           ELSE event[u]]
  /\ UNCHANGED <<agents, task, card, foreground>>

\* The process dies among the claims, at task t: its row is untouched, new and
\* queued, or running without its event.
CrashInClaims(g, D, t, left) ==
  /\ mgr[g] = "scan" /\ LockFree /\ KillProcess(g)
  /\ t \in Claimed \ D /\ IsPrefix(D, Claimed)
  /\ IsPrefix(D \union {t}, Claimed)
  /\ left \in {sub[t], "running"} \/ (sub[t] = "absent" /\ left = "queued")
  /\ sub' = [u \in Tasks |-> IF u \in Stale THEN "absent"
                             ELSE IF u \in D THEN "running"
                             ELSE IF u = t THEN left ELSE sub[u]]
  /\ event' = [u \in Tasks |-> IF u \in Stale THEN "cleaned"
                               ELSE IF u \in D THEN "started" ELSE event[u]]
  /\ UNCHANGED <<agents, task, card, foreground>>

----------------------------------------------------------------------------
(* One attempt: subscribe, persist events, finish.                         *)

NextCandidate(g) ==
  /\ proc[g] = "up" /\ mgr[g] = "batch" /\ batch[g] # {}
  /\ mgr' = [mgr EXCEPT ![g] = "connect"]
  /\ UNCHANGED <<agents, store, foreground, polled, proc, batch, attempt, stops>>

\* SubscribeToTask is accepted; the stream opens with the task as it is.
Connect(g, t) ==
  /\ mgr[g] = "connect" /\ Current(g, t)
  /\ IsTerminal(remote[t]) => ReplaysTerminal
  /\ wire' = [wire EXCEPT ![g] = <<remote[t]>>]
  /\ mgr' = [mgr EXCEPT ![g] = "stream"]
  /\ UNCHANGED <<agents, store, foreground, polled, proc, batch, seen, stops>>

\* Refused, broken, closed, or over the 5 s request timeout: events not yet
\* read are gone.
StreamEnds(g, t) ==
  /\ mgr[g] \in {"connect", "stream"} /\ Current(g, t)
  /\ wire' = [wire EXCEPT ![g] = <<>>]
  /\ mgr' = [mgr EXCEPT ![g] = "finish"]
  /\ UNCHANGED <<agents, store, foreground, polled, proc, batch, seen, stops>>

\* Seeded fault of PersistEvent: the event does not refer to the row.
PersistUnlinkedEvent(g, t) ==
  /\ Streams(g, t) /\ wire[g] # <<>> /\ LockFree
  /\ task' = [task EXCEPT ![t] = Head(wire[g])]
  /\ seen' = [seen EXCEPT ![g] = @ \/ IsTerminal(Head(wire[g]))]
  /\ wire' = [wire EXCEPT ![g] = Tail(@)]
  /\ UNCHANGED <<agents, sub, event, card, foreground, polled, proc, mgr, batch, stops>>

\* persist_subscription_stream_event: task row and journal entry in one
\* transaction, which the foreign key events.gateway_job_id lets through only
\* while the subscription row exists.
PersistEvent(g, t) ==
  /\ Streams(g, t) /\ wire[g] # <<>> /\ LockFree
  /\ sub[t] # "absent"
  /\ task' = [task EXCEPT ![t] = Head(wire[g])]
  /\ seen' = [seen EXCEPT ![g] = @ \/ IsTerminal(Head(wire[g]))]
  /\ wire' = [wire EXCEPT ![g] = Tail(@)]
  /\ UNCHANGED <<agents, sub, event, card, foreground, polled, proc, mgr, batch, stops>>

\* What every finish does to the manager.
FinishCommon(g, t) ==
  /\ mgr[g] = "finish" /\ Current(g, t) /\ LockFree
  /\ mgr' = [mgr EXCEPT ![g] = "batch"]
  /\ batch' = [batch EXCEPT ![g] = @ \ {t}]
  /\ seen' = [seen EXCEPT ![g] = FALSE]
  /\ UNCHANGED <<agents, task, card, foreground, polled, proc, wire, stops>>

\* finish_subscription_attempt_blocking: the row is gone already.
FinishGone(g, t) ==
  /\ sub[t] = "absent"
  /\ FinishCommon(g, t)
  /\ UNCHANGED <<sub, event>>

IsOver(g, t) == seen[g] \/ IsTerminal(task[t])

FinishCleaned(g, t) ==
  /\ sub[t] # "absent" /\ IsOver(g, t)
  /\ FinishCommon(g, t)
  /\ sub' = [sub EXCEPT ![t] = "absent"]
  /\ event' = [event EXCEPT ![t] = "cleaned"]

\* Seeded faults of FinishRetrying: a stream that closes counts as the end of
\* the task; the row is dropped with the stream.
FinishAssumingDone(g, t) ==
  /\ sub[t] # "absent" /\ ~IsOver(g, t)
  /\ mgr[g] = "finish" /\ Current(g, t) /\ LockFree
  /\ mgr' = [mgr EXCEPT ![g] = "batch"]
  /\ batch' = [batch EXCEPT ![g] = @ \ {t}]
  /\ task' = [task EXCEPT ![t] = "completed"]
  /\ sub' = [sub EXCEPT ![t] = "later"]
  /\ event' = [event EXCEPT ![t] = "retrying"]
  /\ UNCHANGED <<agents, card, foreground, polled, proc, wire, seen, stops>>
FinishDropped(g, t) ==
  /\ sub[t] # "absent" /\ ~IsOver(g, t)
  /\ FinishCommon(g, t)
  /\ sub' = [sub EXCEPT ![t] = "absent"]
  /\ event' = [event EXCEPT ![t] = "cleaned"]

\* Not over: the row waits for its backoff, however often it has failed.
FinishRetrying(g, t) ==
  /\ sub[t] # "absent" /\ ~IsOver(g, t)
  /\ FinishCommon(g, t)
  /\ sub' = [sub EXCEPT ![t] = "later"]
  /\ event' = [event EXCEPT ![t] = "retrying"]

\* The process dies between the two statements of a finish.
CrashInFinish(g, t) ==
  /\ mgr[g] = "finish" /\ Current(g, t) /\ LockFree /\ sub[t] # "absent"
  /\ KillProcess(g)
  /\ \/ IsOver(g, t) /\ event' = [event EXCEPT ![t] = "cleaned"] /\ sub' = sub
     \/ ~IsOver(g, t) /\ sub' = [sub EXCEPT ![t] = "later"] /\ event' = event
  /\ UNCHANGED <<agents, task, card, foreground>>

\* next_run_at is reached (between 1 and 30 s later).
BackoffOver(t) ==
  /\ sub[t] = "later"
  /\ sub' = [sub EXCEPT ![t] = "retry"]
  /\ UNCHANGED <<agents, task, event, card, foreground, polled, process, stops>>

----------------------------------------------------------------------------

Init ==
  /\ remote = [t \in Tasks |-> "working"]
  /\ moves = [t \in Tasks |-> 0]
  /\ task = [t \in Tasks |-> "absent"]
  /\ sub = [t \in Tasks |-> "absent"]
  /\ event = [t \in Tasks |-> "none"]
  /\ card \in [Agents -> {"streaming", "plain"}]
  /\ cli = {}
  /\ open = FALSE
  /\ feed = <<>>
  /\ followUps = 0
  /\ polled = [g \in Gateways |-> <<>>]
  /\ proc = [g \in Gateways |-> "down"]
  /\ mgr = [g \in Gateways |-> "off"]
  /\ batch = [g \in Gateways |-> {}]
  /\ wire = [g \in Gateways |-> <<>>]
  /\ seen = [g \in Gateways |-> FALSE]
  /\ stops = 0

Outside ==
  \/ \E t \in Tasks : \/ \E s \in TaskStates : RemoteMoves(t, s)
                      \/ RefreshTask(t)
                      \/ FirstGuess(t)
                      \/ FollowUp(t)
                      \/ FollowUpOpens(t)
                      \/ FollowUpEvent(t)
                      \/ BackoffOver(t)
  \/ FollowUpEnds
  \/ \E a \in Agents, c \in Cards, negotiated \in BOOLEAN :
       CacheCard(a, c, negotiated)

JobManager(g) ==
  \/ \E t \in Tasks : JobReadsTask(g, t)
  \/ JobPersistsTask(g)
  \/ JobDropsTask(g)

Daemon(g) ==
  \/ GatewayStart(g)
  \/ RequestShutdown(g)
  \/ DropGatewayLock(g)
  \/ GatewayExit(g)
  \/ GatewayCrash(g)

Finish(g, t) ==
  FinishGone(g, t) \/ FinishCleaned(g, t) \/ FinishRetrying(g, t)

ScanCrash(g) ==
  \E S \in SUBSET Tasks, t \in Tasks :
    \/ \E half \in BOOLEAN : CrashInCleanup(g, S, t, half)
    \/ \E left \in RowStates : CrashInClaims(g, S, t, left)

Manager(g) ==
  \/ NextScan(g)
  \/ Scan(g)
  \/ ScanFails(g)
  \/ ScanCrash(g)
  \/ StopManager(g)
  \/ NextCandidate(g)
  \/ \E t \in Tasks : \/ Connect(g, t)
                      \/ StreamEnds(g, t)
                      \/ PersistEvent(g, t)
                      \/ Finish(g, t)
                      \/ CrashInFinish(g, t)

Next ==
  \/ Outside
  \/ \E g \in Gateways : Daemon(g) \/ JobManager(g) \/ Manager(g)

Spec == Init /\ [][Next]_vars

----------------------------------------------------------------------------
(* Fairness.  The manager loop never waits for anything but the state lock *)
(* and a request that times out; so does a foreground stream, and somebody *)
(* sends finitely many; a stopped gateway is started again by its          *)
(* supervisor; a backoff passes.  A wait job polls for a bounded time and  *)
(* a stopping job manager starts no other, so a gateway that is joining    *)
(* finds it idle in the end (strong fairness of GatewayExit).  An agent    *)
(* that is asked again and again accepts at some time and its first event  *)
(* arrives within the timeout: this is assumed of the agent, not           *)
(* guaranteed by the code.                                                 *)

ManagerStep(g) ==
  \/ NextScan(g)
  \/ Scan(g)
  \/ ScanFails(g)
  \/ StopManager(g)
  \/ NextCandidate(g)
  \/ \E t \in Tasks : StreamEnds(g, t) \/ Finish(g, t)

Fairness ==
  /\ WF_vars(FollowUpEnds)
  /\ \A t \in Tasks : WF_vars(BackoffOver(t))
  /\ \A g \in Gateways :
       /\ WF_vars(GatewayStart(g))
       /\ WF_vars(DropGatewayLock(g))
       /\ SF_vars(GatewayExit(g))
       /\ WF_vars(JobDropsTask(g) \/ JobPersistsTask(g))
       /\ WF_vars(ManagerStep(g))
       /\ \A t \in Tasks : SF_vars(Connect(g, t)) /\ SF_vars(PersistEvent(g, t))

FairSpec == Spec /\ Fairness

----------------------------------------------------------------------------
(* Properties.                                                             *)

Managers == {"off", "batch", "scan", "connect", "stream", "finish",
             "stopped", "dead"}

\* The local state of an attempt: candidates while one is worked on, events
\* only on an open stream, terminal_seen only after one; nothing survives the
\* process.
AttemptOK(g) ==
  /\ mgr[g] = "off" <=> proc[g] = "down"
  /\ mgr[g] \in {"connect", "stream", "finish"} => batch[g] # {}
  /\ wire[g] # <<>> => mgr[g] = "stream"
  /\ seen[g] => mgr[g] \in {"stream", "finish"}

\* One foreground stream at a time, with events once it is open.
ForegroundOK ==
  /\ cli \subseteq Tasks /\ \A t, u \in cli : t = u
  /\ open \in BOOLEAN /\ feed \in Seq(TaskStates) /\ followUps \in Nat
  /\ (cli = {} => ~open) /\ (~open => feed = <<>>)

Answers == [id : Tasks, state : TaskStates]

\* Types, and every attempt of the subscription manager well formed.
TypeOK ==
  /\ remote \in [Tasks -> TaskStates]
  /\ moves \in [Tasks -> Nat]
  /\ task \in [Tasks -> TaskStates \union {"absent"}]
  /\ sub \in [Tasks -> RowStates]
  /\ event \in [Tasks -> {"none", "started", "retrying", "cleaned"}]
  /\ card \in [Agents -> Cards]
  /\ ForegroundOK
  /\ polled \in [Gateways -> Seq(Answers)]
  /\ proc \in [Gateways -> {"down", "up", "stopping", "joining"}]
  /\ mgr \in [Gateways -> Managers]
  /\ batch \in [Gateways -> SUBSET Tasks]
  /\ wire \in [Gateways -> Seq(TaskStates)]
  /\ seen \in [Gateways -> BOOLEAN]
  /\ stops \in Nat
  /\ \A g \in Gateways : AttemptOK(g)

\* No outcome is invented: whatever old answers and old stream events reach
\* the tasks table, in whatever order, a task is terminal locally only when it
\* is terminal at the agent.
OutcomeIsReal ==
  \A t \in Tasks : IsTerminal(task[t]) => IsTerminal(remote[t])

\* A subscription row disappears only with a journal entry that says so, also
\* when the gateway dies between the two writes or two gateways overlap.
RemovalIsJournalled ==
  \A t \in Tasks : sub[t] = "absent" => event[t] \in {"none", "cleaned"}

\* The next thing a job of gateway g writes is state s of task t.
Writes(g, t, s) == polled[g] # <<>> /\ Head(polled[g]) = [id |-> t, state |-> s]

\* Once its row is cleaned up, no subscription stream that is still open
\* elsewhere takes a finished task back to work: only somebody who streams a
\* follow-up to it does, or a job that writes an answer or event it read
\* earlier.
CleanedStaysFinished ==
  [][\A t \in Tasks :
       IsTerminal(task[t]) /\ sub[t] = "absent" =>
         \/ IsTerminal(task'[t])
         \/ t \in cli'
         \/ \E g \in Gateways : Writes(g, t, task'[t])]_vars

\* The subscription of a task that is still in flight on both sides is never
\* given up: it is there until the agent or the store says otherwise.
KeptWhileInFlight ==
  [][\A t \in Tasks :
       /\ sub[t] # "absent"
       /\ IsMonitorable(task[t]) /\ ~IsTerminal(remote[t])
       => sub'[t] # "absent"]_vars

\* A task the agent has finished does not stay in flight in the store, and its
\* subscription row goes away, although events are lost, old answers are
\* written late and gateways come and go; unless the manager died or the
\* cached card no longer advertises streaming.
FinishedTaskIsNoticed ==
  \A t \in Tasks :
    IsTerminal(remote[t]) ~>
      \/ ~IsMonitorable(task[t]) /\ sub[t] = "absent"
      \/ card[Agent[t]] # "streaming"
      \/ \E g \in Gateways : mgr[g] = "dead"
=============================================================================
