---------------------------- MODULE GatewayJobs ----------------------------
(***************************************************************************)
(* Background communication jobs of missive: the durable gateway_jobs rows *)
(* written by `missive job start` / `missive job cancel` and worked off by *)
(* the job manager of a gateway daemon (missive-gateway/src/jobs.rs).      *)
(*                                                                         *)
(* Several gateway PROCESSES are modelled because the profile's gateway    *)
(* lock is dropped before the managers of a stopping daemon are joined     *)
(* (daemon.rs, run_gateway_daemon): a later gateway may scan while an      *)
(* attempt of the earlier one is still in flight.                          *)
(*                                                                         *)
(* Atomicity.  Every write runs under the state-mutation process lock, so  *)
(* one critical section is one action; a process that is killed inside a   *)
(* critical section is a variant of that action that drops the writes not  *)
(* yet committed (each statement commits by itself).  Reads that take no   *)
(* lock (job_cancelled, the agent and group lookups) are separate steps.   *)
(*                                                                         *)
(* Time.  A stored timestamp is modelled by the number of ticks left until *)
(* it is due, which is all the code ever asks of it (`t <= now`).          *)
(* Timestamps are whole seconds, so timestamp_after forgets the sub-second *)
(* part of now, kept in `phase`.                                           *)
(***************************************************************************)
EXTENDS Integers, FiniteSets

CONSTANTS
  Jobs,            \* gateway job ids, ordered as ORDER BY gateway_job_id
  Gateways,        \* gateway daemon processes
  Targets,         \* agent aliases and group names
  Kind,            \* Kind[j]: the operation of job j
  Target,          \* Target[j]: the agent (reduce: the group) in j's request
  MaxAttempts,     \* MaxAttempts[j]: --max-attempts of job j
  Concurrency,     \* job_concurrency of the profile
  LockTTL,         \* JOB_LOCK_TTL, in seconds
  MinBackoff,      \* JOB_MIN_BACKOFF, in seconds
  MaxBackoff,      \* JOB_MAX_BACKOFF, in seconds
  TicksPerSecond,  \* resolution of the clock
  MaxStops         \* bound: gateway crashes and shutdowns in a behaviour

Kinds == {"send", "stream", "wait", "reduce"}

ASSUME JobsAssumption ==
  /\ Jobs \subseteq Nat
  /\ Kind \in [Jobs -> Kinds]
  /\ Target \in [Jobs -> Targets]
  /\ MaxAttempts \in [Jobs -> Nat \ {0}]   \* validate_job_start_options

ASSUME TimeAssumption ==
  /\ LockTTL \in Nat \ {0}
  /\ MinBackoff \in Nat
  /\ MaxBackoff \in Nat
  /\ TicksPerSecond \in Nat \ {0}

ASSUME BoundsAssumption ==
  /\ Concurrency \in Nat
  /\ MaxStops \in Nat

VARIABLES
  row,         \* the gateway_jobs row of each job
  event,       \* the last lifecycle event journalled for each job
  recorded,    \* jobs whose remote response reached the event journal
  registered,  \* targets with a row in agents / groups
  pinned,      \* agents some task row references (ON DELETE RESTRICT)
  proc,        \* life cycle of each gateway process
  mgr,         \* where the process's job manager stands
  batch,       \* candidates claimed by the last scan and not yet finished
  result,      \* outcome of the attempt in flight
  phase,       \* ticks since the last whole second
  stops,       \* gateway crashes and shutdowns so far
  starts,      \* history: claims of each job
  lost,        \* history: claims whose attempt no gateway finishes any more
  overran,     \* history: jobs some attempt of which outlived its lock
  refused      \* history: jobs a `job cancel` command failed on

journal == <<event, recorded>>
registry == <<registered, pinned>>
process == <<proc, mgr, batch, result>>
history == <<starts, lost, overran, refused>>
vars == <<row, event, recorded, registered, pinned, proc, mgr, batch, result,
          phase, stops, starts, lost, overran, refused>>

----------------------------------------------------------------------------
(* The stored row.                                                         *)

NoTime == -1
States == {"absent", "queued", "running", "retrying",
           "succeeded", "failed", "cancelled"}
TerminalStates == {"succeeded", "failed", "cancelled"}
ActiveStates == {"queued", "running", "retrying"}

Row == [state : States,        \* "absent": not enqueued yet
        retry : Nat,           \* retry_count
        delay : Nat \union {NoTime},   \* ticks until next_run_at
        lock  : Nat \union {NoTime},   \* ticks until locked_until
        done  : BOOLEAN,       \* completed_at is set
        task  : BOOLEAN]       \* task_id is known

AbsentRow == [state |-> "absent", retry |-> 0, delay |-> NoTime,
              lock |-> NoTime, done |-> FALSE, task |-> FALSE]

AtLeastOne(n) == IF n < 1 THEN 1 ELSE n

\* Ticks from now to timestamp_after(seconds): whole seconds, at least one.
TimestampAfter(seconds) == AtLeastOne(seconds) * TicksPerSecond - phase

Doubling == <<1, 2, 4, 8, 16, 32>>

\* bounded_backoff: doubled per attempt, five times at most, then capped.
BoundedBackoff(attempt) ==
  LET exponent == IF attempt > 6 THEN 5 ELSE AtLeastOne(attempt) - 1
      seconds  == MinBackoff * Doubling[exponent + 1]
  IN  IF seconds < MaxBackoff THEN seconds ELSE MaxBackoff

\* Seeded faults of JobIsDue.
DueIgnoringLock(r) ==
  \/ r.state \in {"queued", "retrying"} /\ r.delay \in {NoTime, 0}
  \/ r.state = "running"
DueNeverReclaimed(r) ==
  r.state \in {"queued", "retrying"} /\ r.delay \in {NoTime, 0}
DueAfterSuccess(r) ==
  \/ r.state \in {"queued", "retrying", "succeeded"} /\ r.delay \in {NoTime, 0}
  \/ r.state = "running" /\ r.lock = 0

JobIsDue(r) ==
  \/ r.state \in {"queued", "retrying"} /\ r.delay \in {NoTime, 0}
  \/ r.state = "running" /\ r.lock = 0

RunningJobUpsert(r) ==
  [r EXCEPT !.state = "running", !.lock = TimestampAfter(LockTTL),
            !.delay = NoTime, !.done = FALSE]

FinishTerminalJob(r, state, task) ==
  [r EXCEPT !.state = state, !.task = @ \/ task, !.delay = NoTime,
            !.lock = NoTime, !.done = TRUE]

\* Seeded faults of FinishRetryOrFail.
RetryOncePastMax(r, max) ==
  IF r.retry + 1 <= max
    THEN [r EXCEPT !.state = "retrying", !.retry = @ + 1, !.lock = NoTime,
                   !.delay = TimestampAfter(BoundedBackoff(r.retry + 1)),
                   !.done = FALSE]
    ELSE FinishTerminalJob(r, "failed", FALSE)
RetryUncounted(r, max) ==
  IF r.retry + 1 < max
    THEN [r EXCEPT !.state = "retrying", !.lock = NoTime,
                   !.delay = TimestampAfter(BoundedBackoff(r.retry + 1)),
                   !.done = FALSE]
    ELSE FinishTerminalJob(r, "failed", FALSE)

FinishRetryOrFail(r, max) ==
  IF r.retry + 1 < max
    THEN [r EXCEPT !.state = "retrying", !.retry = @ + 1, !.lock = NoTime,
                   !.delay = TimestampAfter(BoundedBackoff(r.retry + 1)),
                   !.done = FALSE]
    ELSE FinishTerminalJob(r, "failed", FALSE)

----------------------------------------------------------------------------
(* The CLI.  A command holds the state-mutation lock from start to end;    *)
(* logged = FALSE is a command killed between its last two statements.     *)

\* start_job: the target must be known; ensure_job_links inserts the task row
\* a wait job refers to, which pins the agent.
StartJob(j, logged) ==
  /\ row[j].state = "absent"
  /\ Target[j] \in registered
  /\ row' = [row EXCEPT ![j] = [AbsentRow EXCEPT !.state = "queued",
                                                 !.task = Kind[j] = "wait"]]
  /\ event' = IF logged THEN [event EXCEPT ![j] = "enqueued"] ELSE event
  /\ pinned' = IF Kind[j] = "wait" THEN pinned \union {Target[j]} ELSE pinned
  /\ UNCHANGED <<recorded, registered, process, phase, stops, history>>

CancelledRow(r) ==
  [r EXCEPT !.state = "cancelled", !.lock = NoTime, !.delay = NoTime,
            !.done = TRUE]

\* cancel_job without a remote request, or after the agent accepted CancelTask.
\* The row is overwritten whatever its state is.
CancelJob(j, remote, logged) ==
  /\ row[j].state # "absent"
  /\ remote => row[j].task /\ Target[j] \in registered
  /\ row' = [row EXCEPT ![j] = CancelledRow(@)]
  /\ event' = IF logged THEN [event EXCEPT ![j] = "cancelled"] ELSE event
  /\ UNCHANGED <<recorded, registry, process, phase, stops, history>>

\* cancel_job when cancel_remote_task_for_job fails: no task id, no agent or a
\* failed CancelTask call.  The error is returned before the row is written.
CancelJobRefused(j) ==
  /\ row[j].state # "absent"
  /\ refused' = refused \union {j}
  /\ UNCHANGED <<row, journal, registry, process, phase, stops,
                 starts, lost, overran>>

\* agent add, group create.
RegisterTarget(t) ==
  /\ t \notin registered
  /\ registered' = registered \union {t}
  /\ UNCHANGED <<row, journal, pinned, process, phase, stops, history>>

\* agent remove, agent rename, group delete, group rename: the name goes away.
\* A task row that refers to an agent makes SQLite refuse.
RemoveTarget(t) ==
  /\ t \in registered \ pinned
  /\ registered' = registered \ {t}
  /\ UNCHANGED <<row, journal, pinned, process, phase, stops, history>>

----------------------------------------------------------------------------
(* The gateway process.                                                    *)

HoldsGatewayLock(g) == proc[g] \in {"up", "stopping"}

\* run_gateway_daemon: try_acquire fails while another process has the lock.
GatewayStart(g) ==
  /\ proc[g] = "down"
  /\ \A h \in Gateways : ~HoldsGatewayLock(h)
  /\ proc' = [proc EXCEPT ![g] = "up"]
  /\ mgr' = [mgr EXCEPT ![g] = "batch"]
  /\ UNCHANGED <<row, journal, registry, batch, result, phase, stops, history>>

\* The shutdown watch channel is set (signal or --timeout).
RequestShutdown(g) ==
  /\ proc[g] = "up"
  /\ stops < MaxStops
  /\ proc' = [proc EXCEPT ![g] = "stopping"]
  /\ stops' = stops + 1
  /\ UNCHANGED <<row, journal, registry, mgr, batch, result, phase, history>>

\* The HTTP server has stopped; the gateway lock is dropped first, the managers
\* are joined afterwards.
DropGatewayLock(g) ==
  /\ proc[g] = "stopping"
  /\ proc' = [proc EXCEPT ![g] = "joining"]
  /\ UNCHANGED <<row, journal, registry, mgr, batch, result, phase, stops,
                 history>>

GatewayExit(g) ==
  /\ proc[g] = "joining"
  /\ mgr[g] \in {"stopped", "dead"}
  /\ proc' = [proc EXCEPT ![g] = "down"]
  /\ mgr' = [mgr EXCEPT ![g] = "off"]
  /\ UNCHANGED <<row, journal, registry, batch, result, phase, stops, history>>

LoseBatch(g) ==
  /\ batch' = [batch EXCEPT ![g] = {}]
  /\ result' = [result EXCEPT ![g] = "none"]
  /\ lost' = [j \in Jobs |-> IF j \in batch[g] THEN lost[j] + 1 ELSE lost[j]]

KillProcess(g) ==
  /\ proc[g] # "down"
  /\ stops < MaxStops
  /\ stops' = stops + 1
  /\ proc' = [proc EXCEPT ![g] = "down"]
  /\ mgr' = [mgr EXCEPT ![g] = "off"]

\* Kill -9, power loss: the rows stay as they are, the claims in memory are gone.
GatewayCrash(g) ==
  /\ KillProcess(g)
  /\ LoseBatch(g)
  /\ UNCHANGED <<row, journal, registry, phase, starts, overran, refused>>

----------------------------------------------------------------------------
(* The job manager: one scan, then its candidates one after the other.     *)
(* "batch" is the loop: with an empty batch its head, otherwise the point  *)
(* between two candidates.  The shutdown signal is looked at only there; a *)
(* scan or an attempt that passed the check goes on whatever happens next. *)

\* The first `Concurrency` due jobs in id order.
IsDueBatch(B) ==
  LET due == {j \in Jobs : JobIsDue(row[j])}
      cap == AtLeastOne(Concurrency)
  IN  /\ B \subseteq due
      /\ Cardinality(B) = IF Cardinality(due) < cap THEN Cardinality(due)
                                                    ELSE cap
      /\ \A b \in B, d \in due \ B : b < d

Claim(B) ==
  /\ row' = [j \in Jobs |-> IF j \in B THEN RunningJobUpsert(row[j])
                                       ELSE row[j]]
  /\ starts' = [j \in Jobs |-> IF j \in B THEN starts[j] + 1 ELSE starts[j]]

JournalStarted(B) ==
  event' = [j \in Jobs |-> IF j \in B THEN "started" ELSE event[j]]

\* No shutdown yet: sleep, then ask for the state-mutation lock to scan.
NextScan(g) ==
  /\ proc[g] = "up" /\ mgr[g] = "batch" /\ batch[g] = {}
  /\ mgr' = [mgr EXCEPT ![g] = "scan"]
  /\ UNCHANGED <<row, journal, registry, proc, batch, result, phase, stops,
                 history>>

\* scan_background_jobs_blocking: claims a batch under the lock.
ScanBackgroundJobs(g) ==
  /\ mgr[g] = "scan"
  /\ \E B \in SUBSET Jobs :
       /\ IsDueBatch(B)
       /\ Claim(B)
       /\ JournalStarted(B)
       /\ batch' = [batch EXCEPT ![g] = B]
  /\ mgr' = [mgr EXCEPT ![g] = "batch"]
  /\ UNCHANGED <<recorded, registry, proc, result, phase, stops,
                 lost, overran, refused>>

\* The process dies inside the scan: the rows up to some id are claimed, the
\* last of them perhaps without its event.
CrashInScan(g) ==
  /\ mgr[g] = "scan"
  /\ KillProcess(g)
  /\ \E B, C, D \in SUBSET Jobs :
       /\ IsDueBatch(B)
       /\ C # {} /\ C \subseteq B /\ \A c \in C, b \in B \ C : c < b
       /\ Claim(C)
       /\ D \subseteq C /\ Cardinality(C \ D) <= 1
       /\ \A d \in D, c \in C \ D : d < c
       /\ JournalStarted(D)
       /\ lost' = [j \in Jobs |-> IF j \in C THEN lost[j] + 1 ELSE lost[j]]
  /\ UNCHANGED <<recorded, registry, batch, result, phase, overran, refused>>

\* The loop is at its head or between candidates and sees the shutdown signal:
\* claimed candidates stay "running" until their lock expires.
StopManager(g) ==
  /\ proc[g] \in {"stopping", "joining"}
  /\ mgr[g] = "batch"
  /\ mgr' = [mgr EXCEPT ![g] = "stopped"]
  /\ LoseBatch(g)
  /\ UNCHANGED <<row, journal, registry, proc, phase, stops,
                 starts, overran, refused>>

Current(g, j) == j \in batch[g] /\ \A k \in batch[g] : j <= k

AttemptReturns(g, r) ==
  /\ result' = [result EXCEPT ![g] = r]
  /\ mgr' = [mgr EXCEPT ![g] = "finish"]

\* No shutdown yet: the next candidate goes to a worker thread.
NextCandidate(g) ==
  /\ proc[g] = "up" /\ mgr[g] = "batch" /\ batch[g] # {}
  /\ mgr' = [mgr EXCEPT ![g] = "attempt"]
  /\ UNCHANGED <<row, journal, registry, proc, batch, result, phase, stops,
                 history>>

\* Seeded fault of StartAttempt: any row that is not running counts as cancelled.
StartUnlessRunning(g, j) ==
  /\ mgr[g] = "attempt" /\ Current(g, j)
  /\ IF row[j].lock = 0 \/ row[j].state # "running"
       THEN AttemptReturns(g, "cancelled")
       ELSE /\ mgr' = [mgr EXCEPT ![g] = "remote"]
            /\ result' = [result EXCEPT ![g] = "message"]
  /\ UNCHANGED <<row, journal, registry, proc, batch, phase, stops, history>>

\* execute_job_inner up to its first remote call: job_cancelled, then the
\* agent (send, stream) or the group (reduce) is looked up without the lock.
\* A reduce job is over with that.
StartAttempt(g, j) ==
  /\ mgr[g] = "attempt" /\ Current(g, j)
  /\ IF row[j].state = "cancelled"
       THEN AttemptReturns(g, "cancelled")
     ELSE IF Target[j] \notin registered
       THEN AttemptReturns(g, "retriable")
     ELSE IF Kind[j] = "reduce"
       THEN AttemptReturns(g, "message")
     ELSE /\ mgr' = [mgr EXCEPT ![g] = "remote"]
          /\ result' = [result EXCEPT ![g] = "message"]
  /\ UNCHANGED <<row, journal, registry, proc, batch, phase, stops, history>>

\* Any `?` on the way: transport error, timeout, malformed card or response,
\* a panicking worker.
AttemptFails(g, j) ==
  /\ mgr[g] \in {"attempt", "remote", "persist"} /\ Current(g, j)
  /\ AttemptReturns(g, "retriable")
  /\ UNCHANGED <<row, journal, registry, proc, batch, phase, stops, history>>

\* Seeded fault of SendResponse: the response is not persisted before finishing.
SendResponseUnsaved(g, j, answer) ==
  /\ mgr[g] = "remote" /\ Current(g, j) /\ Kind[j] = "send"
  /\ AttemptReturns(g, answer)
  /\ UNCHANGED <<row, journal, registry, proc, batch, phase, stops, history>>

\* send_message returned a Message or a Task; nothing is stored yet.
SendResponse(g, j, answer) ==
  /\ mgr[g] = "remote" /\ Current(g, j) /\ Kind[j] = "send"
  /\ result' = [result EXCEPT ![g] = answer]
  /\ mgr' = [mgr EXCEPT ![g] = "persist"]
  /\ UNCHANGED <<row, journal, registry, proc, batch, phase, stops, history>>

\* The foreign key on events.agent_alias (and tasks.agent_alias) decides
\* whether the transaction commits.
PersistResponse(j, answer) ==
  /\ Target[j] \in registered
  /\ recorded' = recorded \union {j}
  /\ pinned' = IF answer = "task" THEN pinned \union {Target[j]} ELSE pinned

\* persist_send_outcome: one transaction; an error makes the attempt retriable.
PersistSendOutcome(g, j) ==
  /\ mgr[g] = "persist" /\ Current(g, j)
  /\ PersistResponse(j, result[g])
  /\ mgr' = [mgr EXCEPT ![g] = "finish"]
  /\ UNCHANGED <<row, event, registered, proc, batch, result, phase, stops,
                 history>>

\* persist_stream_job_event: one transaction per SSE event, the stream goes on.
PersistStreamJobEvent(g, j, answer) ==
  /\ mgr[g] = "remote" /\ Current(g, j) /\ Kind[j] = "stream"
  /\ PersistResponse(j, answer)
  /\ result' = [result EXCEPT ![g] = IF answer = "task" THEN answer ELSE @]
  /\ UNCHANGED <<row, event, registered, proc, mgr, batch, phase, stops,
                 history>>

\* The stream closes in order: the job is linked to the last task it saw.
StreamEnds(g, j) ==
  /\ mgr[g] = "remote" /\ Current(g, j) /\ Kind[j] = "stream"
  /\ AttemptReturns(g, result[g])
  /\ UNCHANGED <<row, journal, registry, proc, batch, phase, stops, history>>

\* A remote round of execute_wait_job that finds the task undecided journals
\* the task it saw and sleeps; a local round changes nothing.
WaitPolls(g, j) ==
  /\ mgr[g] = "remote" /\ Current(g, j) /\ Kind[j] = "wait"
  /\ row[j].state # "cancelled"
  /\ recorded' = recorded \union {j}
  /\ UNCHANGED <<row, event, registry, process, phase, stops, history>>

\* One round of execute_wait_job that ends the loop: the row was cancelled, the
\* task is decisive, or the timeout of the wait is over.  A remote wait also
\* journals the task, a local one (wait --local) does not.
WaitEnds(g, j, outcome) ==
  /\ mgr[g] = "remote" /\ Current(g, j) /\ Kind[j] = "wait"
  /\ IF row[j].state = "cancelled" THEN outcome = "cancelled"
                                   ELSE outcome \in {"task", "permanent"}
  /\ AttemptReturns(g, outcome)
  /\ \/ recorded' = recorded
     \/ outcome # "cancelled" /\ recorded' = recorded \union {j}
  /\ UNCHANGED <<row, event, registry, proc, batch, phase, stops, history>>

\* Outcomes whose row carries the target as a foreign key again.
NamesTarget(r) == r \in {"message", "task", "permanent"}

\* Seeded fault of FinishedRow: a row cancelled meanwhile is overwritten.
FinishIgnoringCancel(j, r) ==
  CASE r \in {"message", "task"} -> FinishTerminalJob(row[j], "succeeded", r = "task")
    [] r = "permanent" -> FinishTerminalJob(row[j], "failed", TRUE)
    [] r = "cancelled" -> FinishTerminalJob(row[j], "cancelled", FALSE)
    [] r = "retriable" -> FinishRetryOrFail(row[j], MaxAttempts[j])

\* finish_job_attempt_blocking re-reads the row: only "cancelled" is respected.
FinishedRow(j, r) ==
  CASE row[j].state = "cancelled" -> row[j]
    [] row[j].state # "cancelled" /\ r \in {"message", "task"} ->
         FinishTerminalJob(row[j], "succeeded", r = "task")
    [] row[j].state # "cancelled" /\ r = "permanent" ->
         FinishTerminalJob(row[j], "failed", TRUE)
    [] row[j].state # "cancelled" /\ r = "cancelled" ->
         FinishTerminalJob(row[j], "cancelled", FALSE)
    [] row[j].state # "cancelled" /\ r = "retriable" ->
         FinishRetryOrFail(row[j], MaxAttempts[j])

ForeignKeyFails(j, r) ==
  row[j].state # "cancelled" /\ NamesTarget(r) /\ Target[j] \notin registered

FinishJobAttempt(g, j) ==
  /\ mgr[g] = "finish" /\ Current(g, j)
  /\ ~ForeignKeyFails(j, result[g])
  /\ row' = [row EXCEPT ![j] = FinishedRow(j, result[g])]
  /\ event' = [event EXCEPT ![j] = FinishedRow(j, result[g]).state]
  /\ mgr' = [mgr EXCEPT ![g] = "batch"]
  /\ batch' = [batch EXCEPT ![g] = @ \ {j}]
  /\ result' = [result EXCEPT ![g] = "none"]
  /\ UNCHANGED <<recorded, registry, proc, phase, stops, history>>

\* Seeded fault of CrashInFinish: the event is written before the row.
CrashAfterEvent(g, j) ==
  /\ mgr[g] = "finish" /\ Current(g, j)
  /\ ~ForeignKeyFails(j, result[g])
  /\ KillProcess(g)
  /\ event' = [event EXCEPT ![j] = FinishedRow(j, result[g]).state]
  /\ LoseBatch(g)
  /\ UNCHANGED <<row, recorded, registry, phase, starts, overran, refused>>

\* The process dies after the row is written and before its event is.
CrashInFinish(g, j) ==
  /\ mgr[g] = "finish" /\ Current(g, j)
  /\ ~ForeignKeyFails(j, result[g])
  /\ KillProcess(g)
  /\ row' = [row EXCEPT ![j] = FinishedRow(j, result[g])]
  /\ batch' = [batch EXCEPT ![g] = {}]
  /\ result' = [result EXCEPT ![g] = "none"]
  /\ lost' = [k \in Jobs |-> IF k \in batch[g] \ {j} THEN lost[k] + 1
                                                     ELSE lost[k]]
  /\ UNCHANGED <<journal, registry, phase, starts, overran, refused>>

\* finish_job_attempt(..)? fails: the manager task ends with the error, which
\* nobody looks at before the daemon shuts down.
ManagerDies(g, j) ==
  /\ mgr[g] = "finish" /\ Current(g, j)
  /\ ForeignKeyFails(j, result[g])
  /\ mgr' = [mgr EXCEPT ![g] = "dead"]
  /\ LoseBatch(g)
  /\ UNCHANGED <<row, journal, registry, proc, phase, stops,
                 starts, overran, refused>>

----------------------------------------------------------------------------
(* Time.                                                                   *)

Elapse(n) == IF n > 0 THEN n - 1 ELSE n

Held(j) == \E g \in Gateways : j \in batch[g]

\* One tick; a lock that runs out under a held candidate is remembered.
Tick ==
  /\ phase' = (phase + 1) % TicksPerSecond
  /\ row' = [j \in Jobs |-> [row[j] EXCEPT !.delay = Elapse(@),
                                           !.lock = Elapse(@)]]
  /\ overran' = overran \union
                  {j \in Jobs : Held(j) /\ row[j].lock \in {0, 1}}
  /\ UNCHANGED <<journal, registry, process, stops, starts, lost, refused>>

----------------------------------------------------------------------------

Init ==
  /\ row = [j \in Jobs |-> AbsentRow]
  /\ event = [j \in Jobs |-> "none"]
  /\ recorded = {}
  /\ registered = Targets
  /\ pinned = {}
  /\ proc = [g \in Gateways |-> "down"]
  /\ mgr = [g \in Gateways |-> "off"]
  /\ batch = [g \in Gateways |-> {}]
  /\ result = [g \in Gateways |-> "none"]
  /\ phase = 0
  /\ stops = 0
  /\ starts = [j \in Jobs |-> 0]
  /\ lost = [j \in Jobs |-> 0]
  /\ overran = {}
  /\ refused = {}

Cli ==
  \/ \E j \in Jobs, logged \in BOOLEAN : StartJob(j, logged)
  \/ \E j \in Jobs, remote, logged \in BOOLEAN : CancelJob(j, remote, logged)
  \/ \E j \in Jobs : CancelJobRefused(j)
  \/ \E t \in Targets : RegisterTarget(t) \/ RemoveTarget(t)

Daemon(g) ==
  \/ GatewayStart(g)
  \/ RequestShutdown(g)
  \/ DropGatewayLock(g)
  \/ GatewayExit(g)
  \/ GatewayCrash(g)

Attempt(g, j) ==
  \/ AttemptFails(g, j)
  \/ \E answer \in {"message", "task"} : SendResponse(g, j, answer)
  \/ PersistSendOutcome(g, j)
  \/ \E answer \in {"message", "task"} : PersistStreamJobEvent(g, j, answer)
  \/ StreamEnds(g, j)
  \/ WaitPolls(g, j)
  \/ \E outcome \in {"task", "permanent", "cancelled"} : WaitEnds(g, j, outcome)

JobManager(g) ==
  \/ ScanBackgroundJobs(g)
  \/ CrashInScan(g)
  \/ StopManager(g)
  \/ NextScan(g)
  \/ NextCandidate(g)
  \/ \E j \in Jobs :
       \/ StartAttempt(g, j)
       \/ Attempt(g, j)
       \/ FinishJobAttempt(g, j)
       \/ CrashInFinish(g, j)
       \/ ManagerDies(g, j)

Next ==
  \/ Cli
  \/ \E g \in Gateways : Daemon(g) \/ JobManager(g)
  \/ Tick

Spec == Init /\ [][Next]_vars

----------------------------------------------------------------------------
(* Fairness.  The manager is a loop that never waits for anything but the  *)
(* state-mutation lock; every remote call has a timeout, so an attempt     *)
(* comes back; a stopped or crashed gateway is started again by its        *)
(* supervisor (systemd, launchd); time passes.  Crashes and shutdowns are  *)
(* never required, and MaxStops bounds them.                               *)

AttemptComesBack(g, j) ==
  \/ AttemptFails(g, j)
  \/ \E answer \in {"message", "task"} : SendResponse(g, j, answer)
  \/ PersistSendOutcome(g, j)
  \/ StreamEnds(g, j)
  \/ \E outcome \in {"task", "permanent", "cancelled"} : WaitEnds(g, j, outcome)

ManagerStep(g) ==
  \/ ScanBackgroundJobs(g)
  \/ StopManager(g)
  \/ NextScan(g)
  \/ NextCandidate(g)
  \/ \E j \in Jobs : \/ StartAttempt(g, j)
                     \/ AttemptComesBack(g, j)
                     \/ FinishJobAttempt(g, j)
                     \/ ManagerDies(g, j)

Fairness ==
  /\ WF_vars(Tick)
  /\ \A g \in Gateways : /\ WF_vars(GatewayStart(g))
                         /\ WF_vars(DropGatewayLock(g))
                         /\ WF_vars(GatewayExit(g))
                         /\ WF_vars(ManagerStep(g))

FairSpec == Spec /\ Fairness

----------------------------------------------------------------------------
(* Properties.                                                             *)

Results == {"none", "message", "task", "permanent", "retriable", "cancelled"}
Events == {"none", "enqueued", "started", "retrying"} \union TerminalStates

\* The columns each state of a row has set: a lock exactly while running,
\* next_run_at exactly while retrying, completed_at exactly when terminal, and
\* a retry count that leaves an attempt to make.
WellFormed(j, r) ==
  /\ r \in Row
  /\ r.retry < MaxAttempts[j]
  /\ r.lock # NoTime <=> r.state = "running"
  /\ r.delay # NoTime <=> r.state = "retrying"
  /\ r.done <=> r.state \in TerminalStates

\* Types, and every gateway_jobs row as upsert_gateway_job may leave it.
TypeOK ==
  /\ row \in [Jobs -> Row]
  /\ \A j \in Jobs : WellFormed(j, row[j])
  /\ event \in [Jobs -> Events]
  /\ recorded \subseteq Jobs
  /\ registered \subseteq Targets
  /\ pinned \subseteq registered
  /\ proc \in [Gateways -> {"down", "up", "stopping", "joining"}]
  /\ mgr \in [Gateways -> {"off", "scan", "batch", "attempt", "remote",
                           "persist", "finish", "stopped", "dead"}]
  /\ batch \in [Gateways -> SUBSET Jobs]
  /\ result \in [Gateways -> Results]
  /\ phase \in 0 .. TicksPerSecond - 1
  /\ stops \in Nat
  /\ starts \in [Jobs -> Nat]
  /\ lost \in [Jobs -> Nat]
  /\ overran \subseteq Jobs
  /\ refused \subseteq Jobs

\* While no attempt of a job has outlived its 60 s lock, the job is in the
\* hands of one gateway at a time, and its row says so: still running under a
\* live lock, or cancelled from the CLI.  (jobs.rs takes no other measure
\* against two gateways that overlap during a shutdown.)
OneOwnerWithinLock ==
  \A j \in Jobs \ overran :
    /\ \A g, h \in Gateways : j \in batch[g] /\ j \in batch[h] => g = h
    /\ Held(j) => \/ row[j].state = "running" /\ row[j].lock > 0
                  \/ row[j].state = "cancelled"

\* A worker never undoes `missive job cancel`: whatever attempt was in flight,
\* however late it comes back, a cancelled row stays cancelled.
CancelIsFinal ==
  [][\A j \in Jobs : row[j].state = "cancelled" => row'[j] = row[j]]_vars

\* A finished job is not run again and does not change its outcome, except by
\* an explicit cancel, as long as no attempt outlived its lock: what
\* `job start --attach` reports is what the row says from then on.
TerminalIsFinal ==
  [][\A j \in Jobs \ overran :
       row[j].state \in TerminalStates =>
         row'[j].state \in {row[j].state, "cancelled"}]_vars

\* The retry budget: of the claims of a job only those lost in a crash, a
\* shutdown or with a dead manager do not count against --max-attempts.
AttemptsAccountedFor ==
  \A j \in Jobs \ overran : starts[j] <= MaxAttempts[j] + lost[j]

\* An execution reports "cancelled" only for a row that is cancelled when the
\* attempt is finished, although it read the row without the lock and earlier.
CancelledOutcomeIsReal ==
  \A g \in Gateways, j \in Jobs :
    mgr[g] = "finish" /\ Current(g, j) /\ result[g] = "cancelled"
      => row[j].state = "cancelled"

\* A send job is marked succeeded only after the response it got is in the
\* event journal, in whatever order crashes, removals and retries fall.
SucceededSendIsRecorded ==
  \A j \in Jobs : row[j].state = "succeeded" /\ Kind[j] = "send"
                   => j \in recorded

\* The journal never runs ahead of the row: a terminal lifecycle event is about
\* a row that is in that state or was cancelled since.
JournalBehindRow ==
  \A j \in Jobs \ overran :
    event[j] \in TerminalStates => row[j].state \in {event[j], "cancelled"}

\* A job on its way ends, unless the manager died on the way (ManagerDies).
JobSettles ==
  \A j \in Jobs :
    row[j].state \in ActiveStates
      ~> row[j].state \in TerminalStates \/ \E g \in Gateways : mgr[g] = "dead"

\* docs/gateway.md: "`missive job cancel <job-id>` always marks the local job
\* cancelled."
CancelAlwaysMarks == \A j \in refused : row[j].state = "cancelled"
=============================================================================
