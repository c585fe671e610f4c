------------------------- MODULE GatewayJobsProofs -------------------------
(***************************************************************************)
(* Proofs about GatewayJobs, for any set of jobs, gateways and targets:    *)
(* its types first, then its safety properties.  For those every step is   *)
(* first classified by what it does to ONE job (StepCases); each invariant *)
(* is then a short argument over those cases.                              *)
(***************************************************************************)
EXTENDS GatewayJobs, TLAPS

----------------------------------------------------------------------------
(* Facts about the row operators.                                          *)

\* A product with a factor of at least one is at least the other factor.
LEMMA ProductAtLeast ==
  ASSUME NEW m \in Nat, m >= 1, NEW t \in Nat
  PROVE  m * t \in Nat /\ m * t >= t
<1>1. PICK n \in Nat : m = n + 1
  <2>1. m - 1 \in Nat /\ m = (m - 1) + 1
    OBVIOUS
  <2> QED
    BY <2>1
<1>2. m * t = n * t + t
  BY <1>1
<1>3. n * t \in Nat
  OBVIOUS
<1> QED
  BY <1>2, <1>3

\* timestamp_after lies in the future: a stored deadline is never already due,
\* although the sub-second part of now is dropped.
LEMMA TimestampAfterPositive ==
  ASSUME NEW s \in Nat, TypeOK
  PROVE  TimestampAfter(s) \in Nat /\ TimestampAfter(s) > 0
<1> DEFINE m == AtLeastOne(s)
<1>1. m \in Nat /\ m >= 1
  BY DEF AtLeastOne
<1>2. TicksPerSecond \in Nat /\ phase \in Nat /\ phase < TicksPerSecond
  BY TimeAssumption DEF TypeOK
<1>3. m * TicksPerSecond \in Nat /\ m * TicksPerSecond >= TicksPerSecond
  <2> HIDE DEF m
  <2> QED
    BY <1>1, <1>2, ProductAtLeast
<1>4. TimestampAfter(s) = m * TicksPerSecond - phase
  BY DEF TimestampAfter
<1> HIDE DEF m
<1> QED
  BY <1>2, <1>3, <1>4

\* bounded_backoff never exceeds the cap and is a number of seconds.
LEMMA BackoffBounded ==
  ASSUME NEW n \in Nat
  PROVE  BoundedBackoff(n) \in Nat /\ BoundedBackoff(n) <= MaxBackoff
<1> DEFINE e == IF n > 6 THEN 5 ELSE AtLeastOne(n) - 1
           s == MinBackoff * Doubling[e + 1]
<1>1. e \in 0 .. 5
  BY DEF AtLeastOne
<1>2. Doubling[e + 1] \in Nat
  <2> HIDE DEF e
  <2>1. e + 1 \in 1 .. 6
    BY <1>1
  <2> QED
    BY <2>1 DEF Doubling
<1>3. s \in Nat
  <2> HIDE DEF e
  <2> QED
    BY <1>2, TimeAssumption
<1>4. BoundedBackoff(n) = IF s < MaxBackoff THEN s ELSE MaxBackoff
  BY DEF BoundedBackoff
<1> HIDE DEF s
<1> QED
  BY <1>3, <1>4, TimeAssumption

\* Claiming a row that is due keeps it well-formed and locks it for later.
LEMMA ClaimedRow ==
  ASSUME TypeOK, NEW j \in Jobs
  PROVE  /\ WellFormed(j, RunningJobUpsert(row[j]))
         /\ RunningJobUpsert(row[j]).state = "running"
         /\ RunningJobUpsert(row[j]).lock > 0
         /\ RunningJobUpsert(row[j]).retry = row[j].retry
<1>1. TimestampAfter(LockTTL) \in Nat /\ TimestampAfter(LockTTL) > 0
  BY TimestampAfterPositive, TimeAssumption
<1>2. WellFormed(j, row[j])
  BY DEF TypeOK
<1> DEFINE u == RunningJobUpsert(row[j])
<1>3. row[j] \in Row
  BY <1>2 DEF WellFormed
<1>4. u = [row[j] EXCEPT !.state = "running", !.lock = TimestampAfter(LockTTL),
                         !.delay = NoTime, !.done = FALSE]
  BY DEF RunningJobUpsert
<1>5. /\ u \in Row
      /\ u.state = "running" /\ u.lock = TimestampAfter(LockTTL)
      /\ u.delay = NoTime /\ u.done = FALSE /\ u.retry = row[j].retry
  <2> HIDE DEF u
  <2> QED
    BY <1>1, <1>3, <1>4 DEF Row, States, NoTime
<1> HIDE DEF u
<1>6. WellFormed(j, u)
  BY <1>1, <1>2, <1>5 DEF WellFormed, NoTime, TerminalStates
<1> QED
  BY <1>1, <1>5, <1>6 DEF u

\* finish_terminal_job leaves a complete terminal row.
LEMMA TerminalRow ==
  ASSUME TypeOK, NEW j \in Jobs,
         NEW s \in TerminalStates, NEW b \in BOOLEAN,
         NEW u, u = FinishTerminalJob(row[j], s, b)
  PROVE  WellFormed(j, u) /\ u.state = s /\ u.retry = row[j].retry
<1>1. WellFormed(j, row[j])
  BY DEF TypeOK
<1> QED
  BY <1>1 DEF WellFormed, Row, FinishTerminalJob, NoTime, States, TerminalStates

\* A retriable failure either uses up one attempt or is the last one.
LEMMA RetryRow ==
  ASSUME TypeOK, NEW j \in Jobs, NEW u,
         u = FinishRetryOrFail(row[j], MaxAttempts[j])
  PROVE  /\ WellFormed(j, u)
         /\ \/ u.state = "retrying" /\ u.retry = row[j].retry + 1
            \/ u.state = "failed" /\ u.retry = row[j].retry
<1>1. WellFormed(j, row[j]) /\ MaxAttempts[j] \in Nat
  BY JobsAssumption DEF TypeOK
<1>2. row[j] \in Row /\ row[j].retry \in Nat /\ row[j].retry + 1 \in Nat
  BY <1>1 DEF WellFormed, Row
<1>3. CASE row[j].retry + 1 < MaxAttempts[j]
  <2> DEFINE d == TimestampAfter(BoundedBackoff(row[j].retry + 1))
  <2>1. BoundedBackoff(row[j].retry + 1) \in Nat
    BY <1>2, BackoffBounded
  <2>2. d \in Nat
    BY <2>1, TimestampAfterPositive
  <2>3. u = [row[j] EXCEPT !.state = "retrying", !.retry = @ + 1,
                           !.lock = NoTime, !.delay = d, !.done = FALSE]
    BY <1>3 DEF FinishRetryOrFail
  <2> HIDE DEF d
  <2>4. /\ u \in Row
        /\ u.state = "retrying" /\ u.retry = row[j].retry + 1
        /\ u.lock = NoTime /\ u.delay = d /\ u.done = FALSE
    BY <1>2, <2>2, <2>3 DEF Row, States, NoTime
  <2> QED
    BY <1>1, <1>2, <1>3, <2>2, <2>4 DEF WellFormed, NoTime, TerminalStates
<1>4. CASE ~(row[j].retry + 1 < MaxAttempts[j])
  <2>1. u = FinishTerminalJob(row[j], "failed", FALSE)
    BY <1>4 DEF FinishRetryOrFail
  <2> QED
    BY <2>1, TerminalRow DEF TerminalStates
<1> QED
  BY <1>3, <1>4

\* What finish_job_attempt_blocking may do to a row: nothing to a cancelled one.
LEMMA FinishedRowFacts ==
  ASSUME TypeOK, NEW j \in Jobs, NEW x \in Results \ {"none"},
         NEW u, u = FinishedRow(j, x)
  PROVE  /\ WellFormed(j, u)
         /\ row[j].state = "cancelled" => u = row[j]
         /\ row[j].state # "cancelled" =>
              \/ u.state \in TerminalStates /\ u.retry = row[j].retry
              \/ u.state = "retrying" /\ u.retry = row[j].retry + 1
         /\ u.state \in TerminalStates \union {"retrying"}
         /\ u.state = "succeeded" =>
              row[j].state = "succeeded" \/ x \in {"message", "task"}
<1>1. WellFormed(j, row[j])
  BY DEF TypeOK
<1>2. CASE row[j].state = "cancelled"
  <2>1. u = row[j]
    BY <1>2 DEF FinishedRow
  <2> QED
    BY <1>1, <1>2, <2>1 DEF TerminalStates
<1>3. CASE row[j].state # "cancelled"
  <2>1. CASE x \in {"message", "task"}
    <3>1. \E b \in BOOLEAN : u = FinishTerminalJob(row[j], "succeeded", b)
      BY <1>3, <2>1 DEF FinishedRow
    <3>2. WellFormed(j, u) /\ u.state = "succeeded" /\ u.retry = row[j].retry
      BY <3>1, TerminalRow DEF TerminalStates
    <3> QED
      BY <1>3, <2>1, <3>2 DEF TerminalStates
  <2>2. CASE x = "permanent"
    <3>1. u = FinishTerminalJob(row[j], "failed", TRUE)
      BY <1>3, <2>2 DEF FinishedRow
    <3>2. WellFormed(j, u) /\ u.state = "failed" /\ u.retry = row[j].retry
      BY <3>1, TerminalRow DEF TerminalStates
    <3> QED
      BY <1>3, <2>2, <3>2 DEF TerminalStates
  <2>3. CASE x = "cancelled"
    <3>1. u = FinishTerminalJob(row[j], "cancelled", FALSE)
      BY <1>3, <2>3 DEF FinishedRow
    <3>2. WellFormed(j, u) /\ u.state = "cancelled" /\ u.retry = row[j].retry
      BY <3>1, TerminalRow DEF TerminalStates
    <3> QED
      BY <1>3, <2>3, <3>2 DEF TerminalStates
  <2>4. CASE x = "retriable"
    <3>1. u = FinishRetryOrFail(row[j], MaxAttempts[j])
      BY <1>3, <2>4 DEF FinishedRow
    <3>2. /\ WellFormed(j, u)
          /\ \/ u.state = "retrying" /\ u.retry = row[j].retry + 1
             \/ u.state = "failed" /\ u.retry = row[j].retry
      BY <3>1, RetryRow
    <3> QED
      BY <1>3, <2>4, <3>2 DEF TerminalStates
  <2> QED
    BY <2>1, <2>2, <2>3, <2>4 DEF Results
<1> QED
  BY <1>2, <1>3
----------------------------------------------------------------------------
(* Type correctness.                                                       *)

\* What an attempt may have in hand, by where its manager stands.
ManagerShape ==
  \A g \in Gateways :
    /\ mgr[g] = "finish" => result[g] # "none"
    /\ mgr[g] \in {"remote", "persist"} => result[g] \in {"message", "task"}

TypeInv == TypeOK /\ ManagerShape

\* Deadlines stay well-formed while time passes.
LEMMA TickRow ==
  ASSUME TypeOK, NEW j \in Jobs, NEW u,
         u = [row[j] EXCEPT !.delay = Elapse(@), !.lock = Elapse(@)]
  PROVE  /\ WellFormed(j, u)
         /\ u.state = row[j].state /\ u.retry = row[j].retry
         /\ u.lock = Elapse(row[j].lock)
<1>1. WellFormed(j, row[j])
  BY DEF TypeOK
<1>2. ASSUME NEW n \in Nat \union {NoTime}
      PROVE  /\ Elapse(n) \in Nat \union {NoTime}
             /\ Elapse(n) = NoTime <=> n = NoTime
  BY DEF Elapse, NoTime
<1> DEFINE d == Elapse(row[j].delay)
           k == Elapse(row[j].lock)
<1>3. row[j] \in Row
  BY <1>1 DEF WellFormed
<1>4. row[j].delay \in Nat \union {NoTime} /\ row[j].lock \in Nat \union {NoTime}
  BY <1>3 DEF Row
<1>5. /\ d \in Nat \union {NoTime} /\ (d = NoTime <=> row[j].delay = NoTime)
      /\ k \in Nat \union {NoTime} /\ (k = NoTime <=> row[j].lock = NoTime)
  BY <1>2, <1>4
<1>6. u = [row[j] EXCEPT !.delay = d, !.lock = k]
  OBVIOUS
<1> HIDE DEF d, k
<1>7. /\ u \in Row
      /\ u.state = row[j].state /\ u.retry = row[j].retry
      /\ u.lock = k /\ u.delay = d /\ u.done = row[j].done
  BY <1>3, <1>5, <1>6 DEF Row
<1>8. WellFormed(j, u)
  BY <1>1, <1>5, <1>7 DEF WellFormed
<1> QED
  BY <1>7, <1>8 DEF k

\* A scan, complete or cut short, leaves well-formed rows.
LEMMA ClaimKeepsRows ==
  ASSUME TypeOK, NEW B, Claim(B)
  PROVE  /\ row' \in [Jobs -> Row]
         /\ \A j \in Jobs : WellFormed(j, row'[j])
         /\ starts' \in [Jobs -> Nat]
<1>1. ASSUME NEW j \in Jobs
      PROVE  WellFormed(j, row'[j])
  <2>1. CASE j \in B
    <3>1. row'[j] = RunningJobUpsert(row[j])
      BY <2>1 DEF Claim
    <3> QED
      BY <3>1, ClaimedRow
  <2>2. CASE j \notin B
    BY <2>2 DEF Claim, TypeOK
  <2> QED
    BY <2>1, <2>2
<1>2. row' \in [Jobs -> Row]
  <2>1. row' = [j \in Jobs |-> row'[j]]
    BY DEF Claim
  <2>2. \A j \in Jobs : row'[j] \in Row
    BY <1>1 DEF WellFormed
  <2> QED
    BY <2>1, <2>2
<1>3. starts' \in [Jobs -> Nat]
  BY DEF Claim, TypeOK
<1> QED
  BY <1>1, <1>2, <1>3

\* One row is replaced by a well-formed one.
LEMMA OneRowKeepsRows ==
  ASSUME TypeOK, NEW i \in Jobs, NEW u, WellFormed(i, u),
         row' = [row EXCEPT ![i] = u]
  PROVE  /\ row' \in [Jobs -> Row]
         /\ \A j \in Jobs : WellFormed(j, row'[j])
<1>1. u \in Row
  BY DEF WellFormed
<1> QED
  BY <1>1 DEF TypeOK

\* The steps of the command line keep the types.
LEMMA CliKeepsTypes ==
  ASSUME TypeInv, Cli
  PROVE  TypeInv'
<1> USE DEF TypeInv
<1>1. ASSUME NEW j \in Jobs, NEW logged \in BOOLEAN, StartJob(j, logged)
      PROVE  TypeInv'
  <2> DEFINE u == [AbsentRow EXCEPT !.state = "queued", !.task = Kind[j] = "wait"]
  <2>1. /\ u \in Row /\ u.state = "queued" /\ u.retry = 0
        /\ u.delay = NoTime /\ u.lock = NoTime /\ u.done = FALSE
    BY DEF AbsentRow, Row, States, NoTime
  <2>2. row' = [row EXCEPT ![j] = u]
    BY <1>1 DEF StartJob
  <2> HIDE DEF u
  <2>3. WellFormed(j, u)
    BY <2>1, JobsAssumption DEF WellFormed, TerminalStates
  <2>4. /\ row' \in [Jobs -> Row]
        /\ \A k \in Jobs : WellFormed(k, row'[k])
    BY <2>2, <2>3, OneRowKeepsRows
  <2>5. event' \in [Jobs -> Events] /\ pinned' \subseteq registered'
    BY <1>1, JobsAssumption DEF StartJob, TypeOK, Events
  <2> QED
    BY <1>1, <2>4, <2>5 DEF StartJob, TypeOK, ManagerShape, process, history
<1>2. ASSUME NEW j \in Jobs, NEW remote \in BOOLEAN, NEW logged \in BOOLEAN,
             CancelJob(j, remote, logged)
      PROVE  TypeInv'
  <2> DEFINE u == CancelledRow(row[j])
  <2>1. WellFormed(j, row[j])
    BY DEF TypeOK
  <2>2. /\ u \in Row /\ u.state = "cancelled" /\ u.retry = row[j].retry
        /\ u.delay = NoTime /\ u.lock = NoTime /\ u.done = TRUE
    BY <2>1 DEF CancelledRow, WellFormed, Row, States, NoTime
  <2>3. row' = [row EXCEPT ![j] = u]
    BY <1>2 DEF CancelJob
  <2> HIDE DEF u
  <2>4. WellFormed(j, u)
    BY <2>1, <2>2 DEF WellFormed, TerminalStates
  <2>5. /\ row' \in [Jobs -> Row]
        /\ \A k \in Jobs : WellFormed(k, row'[k])
    BY <2>3, <2>4, OneRowKeepsRows
  <2>6. event' \in [Jobs -> Events]
    BY <1>2 DEF CancelJob, TypeOK, Events, TerminalStates
  <2> QED
    BY <1>2, <2>5, <2>6
    DEF CancelJob, TypeOK, ManagerShape, registry, process, history
<1>3. ASSUME NEW j \in Jobs, CancelJobRefused(j)
      PROVE  TypeInv'
  BY <1>3 DEF CancelJobRefused, TypeOK, ManagerShape, journal, registry, process
<1>4. ASSUME NEW t \in Targets, RegisterTarget(t) \/ RemoveTarget(t)
      PROVE  TypeInv'
  BY <1>4 DEF RegisterTarget, RemoveTarget, TypeOK, ManagerShape, journal,
              process, history
<1> QED
  BY <1>1, <1>2, <1>3, <1>4 DEF Cli

\* The steps of the daemon around its manager keep the types.
LEMMA DaemonKeepsTypes ==
  ASSUME TypeInv, NEW g \in Gateways, Daemon(g)
  PROVE  TypeInv'
<1> USE DEF TypeInv
<1>1. CASE GatewayStart(g)
  BY <1>1 DEF GatewayStart, TypeOK, ManagerShape, journal, registry, history
<1>2. CASE RequestShutdown(g)
  BY <1>2 DEF RequestShutdown, TypeOK, ManagerShape, journal, registry, history
<1>3. CASE DropGatewayLock(g)
  BY <1>3 DEF DropGatewayLock, TypeOK, ManagerShape, journal, registry, history
<1>4. CASE GatewayExit(g)
  BY <1>4 DEF GatewayExit, TypeOK, ManagerShape, journal, registry, history
<1>5. CASE GatewayCrash(g)
  <2>1. lost' \in [Jobs -> Nat]
    BY <1>5 DEF GatewayCrash, LoseBatch, TypeOK
  <2>2. /\ batch' \in [Gateways -> SUBSET Jobs]
        /\ result' \in [Gateways -> Results]
    BY <1>5 DEF GatewayCrash, LoseBatch, TypeOK, Results
  <2>3. ManagerShape'
    BY <1>5 DEF GatewayCrash, LoseBatch, KillProcess, TypeOK, ManagerShape
  <2>4. /\ proc' \in [Gateways -> {"down", "up", "stopping", "joining"}]
        /\ mgr' \in [Gateways -> {"off", "scan", "batch", "attempt", "remote",
                                  "persist", "finish", "stopped", "dead"}]
        /\ stops' \in Nat
    BY <1>5 DEF GatewayCrash, KillProcess, TypeOK
  <2>5. UNCHANGED <<row, event, recorded, registered, pinned, phase, starts,
                    overran, refused>>
    BY <1>5 DEF GatewayCrash, journal, registry
  <2> QED
    BY <2>1, <2>2, <2>3, <2>4, <2>5 DEF TypeOK
<1> QED
  BY <1>1, <1>2, <1>3, <1>4, <1>5 DEF Daemon

\* Steps of an attempt that only move the manager and its result.
LEMMA ReturnKeepsShape ==
  ASSUME TypeInv, NEW g \in Gateways, NEW x \in Results \ {"none"},
         AttemptReturns(g, x)
  PROVE  /\ ManagerShape'
         /\ result' \in [Gateways -> Results]
         /\ mgr' \in [Gateways -> {"off", "scan", "batch", "attempt", "remote",
                                   "persist", "finish", "stopped", "dead"}]
  BY DEF TypeInv, AttemptReturns, TypeOK, ManagerShape

\* The steps of one attempt keep the types.
LEMMA AttemptKeepsTypes ==
  ASSUME TypeInv, NEW g \in Gateways, NEW j \in Jobs,
         StartAttempt(g, j) \/ Attempt(g, j)
  PROVE  TypeInv'
<1> USE DEF TypeInv
<1>0. Target[j] \in Targets
  BY JobsAssumption
<1>1. CASE StartAttempt(g, j)
  <2>1. CASE \E x \in Results \ {"none"} : AttemptReturns(g, x)
    <3>1. PICK x \in Results \ {"none"} : AttemptReturns(g, x)
      BY <2>1
    <3> QED
      BY <1>1, <3>1, ReturnKeepsShape
      DEF StartAttempt, TypeOK, journal, registry, history
  <2>2. CASE /\ mgr' = [mgr EXCEPT ![g] = "remote"]
             /\ result' = [result EXCEPT ![g] = "message"]
    BY <1>1, <2>2
    DEF StartAttempt, TypeOK, ManagerShape, Results, journal, registry, history
  <2> QED
    BY <1>1, <2>1, <2>2 DEF StartAttempt, Results
<1>2. CASE AttemptFails(g, j)
  <2>1. AttemptReturns(g, "retriable") /\ "retriable" \in Results \ {"none"}
    BY <1>2 DEF AttemptFails, Results
  <2> QED
    BY <1>2, <2>1, ReturnKeepsShape
    DEF AttemptFails, TypeOK, journal, registry, history
<1>3. ASSUME NEW answer \in {"message", "task"}, SendResponse(g, j, answer)
      PROVE  TypeInv'
  BY <1>3
  DEF SendResponse, TypeOK, ManagerShape, Results, journal, registry, history
<1>4. CASE PersistSendOutcome(g, j)
  BY <1>0, <1>4 DEF PersistSendOutcome, PersistResponse, TypeOK, ManagerShape,
                    Results, journal, registry, history
<1>5. ASSUME NEW answer \in {"message", "task"},
             PersistStreamJobEvent(g, j, answer)
      PROVE  TypeInv'
  BY <1>0, <1>5 DEF PersistStreamJobEvent, PersistResponse, TypeOK,
                    ManagerShape, Results, journal, registry, history
<1>6. CASE StreamEnds(g, j)
  <2>1. AttemptReturns(g, result[g]) /\ result[g] \in Results \ {"none"}
    BY <1>6 DEF StreamEnds, ManagerShape, Results
  <2> QED
    BY <1>6, <2>1, ReturnKeepsShape
    DEF StreamEnds, TypeOK, journal, registry, history
<1>7. CASE WaitPolls(g, j)
  BY <1>7 DEF WaitPolls, TypeOK, ManagerShape, process, registry, history
<1>8. ASSUME NEW outcome \in {"task", "permanent", "cancelled"},
             WaitEnds(g, j, outcome)
      PROVE  TypeInv'
  <2>1. AttemptReturns(g, outcome) /\ outcome \in Results \ {"none"}
    BY <1>8 DEF WaitEnds, Results
  <2>2. recorded' \subseteq Jobs
    BY <1>8 DEF WaitEnds, TypeOK
  <2> QED
    BY <1>8, <2>1, <2>2, ReturnKeepsShape
    DEF WaitEnds, TypeOK, journal, registry, history
<1> QED
  BY <1>1, <1>2, <1>3, <1>4, <1>5, <1>6, <1>7, <1>8 DEF Attempt

\* The steps of the manager's loop keep the types.
LEMMA ManagerKeepsTypes ==
  ASSUME TypeInv, NEW g \in Gateways, JobManager(g)
  PROVE  TypeInv'
<1> USE DEF TypeInv
<1>1. CASE ScanBackgroundJobs(g)
  <2>1. PICK B \in SUBSET Jobs : /\ Claim(B) /\ JournalStarted(B)
                                 /\ batch' = [batch EXCEPT ![g] = B]
    BY <1>1 DEF ScanBackgroundJobs
  <2>2. /\ row' \in [Jobs -> Row]
        /\ \A j \in Jobs : WellFormed(j, row'[j])
        /\ starts' \in [Jobs -> Nat]
    BY <2>1, ClaimKeepsRows
  <2>3. event' \in [Jobs -> Events]
    BY <2>1 DEF JournalStarted, TypeOK, Events
  <2> QED
    BY <1>1, <2>1, <2>2, <2>3
    DEF ScanBackgroundJobs, TypeOK, ManagerShape, registry
<1>2. CASE CrashInScan(g)
  <2>1. PICK C \in SUBSET Jobs, D \in SUBSET Jobs :
          /\ Claim(C) /\ JournalStarted(D)
          /\ lost' = [j \in Jobs |-> IF j \in C THEN lost[j] + 1 ELSE lost[j]]
    BY <1>2 DEF CrashInScan
  <2>2. /\ row' \in [Jobs -> Row]
        /\ \A j \in Jobs : WellFormed(j, row'[j])
        /\ starts' \in [Jobs -> Nat]
    BY <2>1, ClaimKeepsRows
  <2>3. event' \in [Jobs -> Events] /\ lost' \in [Jobs -> Nat]
    BY <2>1 DEF JournalStarted, TypeOK, Events
  <2> QED
    BY <1>2, <2>2, <2>3
    DEF CrashInScan, KillProcess, TypeOK, ManagerShape, registry
<1>3. CASE StopManager(g)
  <2>1. lost' \in [Jobs -> Nat]
    BY <1>3 DEF StopManager, LoseBatch, TypeOK
  <2> QED
    BY <1>3, <2>1 DEF StopManager, LoseBatch, TypeOK, ManagerShape, Results,
                      journal, registry
<1>4. CASE NextScan(g) \/ NextCandidate(g)
  BY <1>4 DEF NextScan, NextCandidate, TypeOK, ManagerShape, journal, registry,
              history
<1>5. ASSUME NEW j \in Jobs, FinishJobAttempt(g, j) \/ CrashInFinish(g, j)
      PROVE  TypeInv'
  <2> DEFINE u == FinishedRow(j, result[g])
  <2>1. result[g] \in Results \ {"none"}
    BY <1>5 DEF FinishJobAttempt, CrashInFinish, TypeOK, ManagerShape
  <2>2. row' = [row EXCEPT ![j] = u]
    BY <1>5 DEF FinishJobAttempt, CrashInFinish
  <2>3. WellFormed(j, u) /\ u.state \in Events
    <3> HIDE DEF u
    <3>1. u = FinishedRow(j, result[g])
      BY DEF u
    <3> QED
      BY <2>1, <3>1, FinishedRowFacts DEF Events
  <2>4. event' = event \/ event' = [event EXCEPT ![j] = u.state]
    BY <1>5 DEF FinishJobAttempt, CrashInFinish, journal
  <2> HIDE DEF u
  <2>5. /\ row' \in [Jobs -> Row]
        /\ \A k \in Jobs : WellFormed(k, row'[k])
    BY <2>2, <2>3, OneRowKeepsRows
  <2>6. event' \in [Jobs -> Events]
    BY <2>3, <2>4 DEF TypeOK
  <2>7. CASE FinishJobAttempt(g, j)
    BY <2>5, <2>6, <2>7
    DEF FinishJobAttempt, TypeOK, ManagerShape, Results, registry, history
  <2>8. CASE CrashInFinish(g, j)
    <3>1. lost' \in [Jobs -> Nat]
      BY <2>8 DEF CrashInFinish, TypeOK
    <3> QED
      BY <2>5, <2>6, <2>8, <3>1
      DEF CrashInFinish, KillProcess, TypeOK, ManagerShape, Results, journal,
          registry
  <2> QED
    BY <1>5, <2>7, <2>8
<1>6. ASSUME NEW j \in Jobs, ManagerDies(g, j)
      PROVE  TypeInv'
  <2>1. lost' \in [Jobs -> Nat]
    BY <1>6 DEF ManagerDies, LoseBatch, TypeOK
  <2> QED
    BY <1>6, <2>1 DEF ManagerDies, LoseBatch, TypeOK, ManagerShape, Results,
                      journal, registry
<1> QED
  BY <1>1, <1>2, <1>3, <1>4, <1>5, <1>6, AttemptKeepsTypes DEF JobManager

\* Time passing keeps the types.
LEMMA TickKeepsTypes ==
  ASSUME TypeInv, Tick
  PROVE  TypeInv'
<1> USE DEF TypeInv
<1>1. ASSUME NEW j \in Jobs
      PROVE  WellFormed(j, row'[j])
  <2>1. row'[j] = [row[j] EXCEPT !.delay = Elapse(@), !.lock = Elapse(@)]
    BY DEF Tick
  <2> QED
    BY <2>1, TickRow
<1>2. row' \in [Jobs -> Row]
  <2>1. \A j \in Jobs : row'[j] \in Row
    BY <1>1 DEF WellFormed
  <2>2. row' = [j \in Jobs |-> row'[j]]
    BY DEF Tick
  <2> QED
    BY <2>1, <2>2
<1>3. phase' \in 0 .. TicksPerSecond - 1
  <2>1. phase + 1 \in Nat /\ TicksPerSecond \in Nat \ {0}
    BY TimeAssumption DEF TypeOK
  <2>2. (phase + 1) % TicksPerSecond \in 0 .. TicksPerSecond - 1
    BY <2>1
  <2> QED
    BY <2>2 DEF Tick
<1>4. overran' \subseteq Jobs
  BY DEF Tick, TypeOK
<1> QED
  BY <1>1, <1>2, <1>3, <1>4
  DEF Tick, TypeOK, ManagerShape, journal, registry, process

\* The empty store, before any command and any gateway, has its types.
LEMMA InitTypes ==
  ASSUME Init
  PROVE  TypeInv
<1>2. ASSUME NEW j \in Jobs
      PROVE  WellFormed(j, AbsentRow)
  <2>1. AbsentRow \in Row
    BY DEF AbsentRow, Row, States, NoTime
  <2>2. MaxAttempts[j] \in Nat \ {0}
    BY JobsAssumption
  <2> QED
    BY <2>1, <2>2 DEF WellFormed, AbsentRow, TerminalStates
<1>3. row \in [Jobs -> Row] /\ \A j \in Jobs : WellFormed(j, row[j])
  BY <1>2 DEF Init, WellFormed
<1>4. phase \in 0 .. TicksPerSecond - 1
  BY TimeAssumption DEF Init
<1> QED
  BY <1>3, <1>4 DEF Init, TypeInv, TypeOK, ManagerShape, Events, Results

\* The rows always have the columns their state calls for, and the retry count
\* never reaches --max-attempts, in every interleaving of gateways, commands,
\* crashes and time.
THEOREM TypeCorrect == Spec => []TypeInv
<1>1. Init => TypeInv
  BY InitTypes
<1>2. TypeInv /\ [Next]_vars => TypeInv'
  <2> SUFFICES ASSUME TypeInv, [Next]_vars
               PROVE  TypeInv'
    OBVIOUS
  <2>1. CASE Cli
    BY <2>1, CliKeepsTypes
  <2>2. ASSUME NEW g \in Gateways, Daemon(g) \/ JobManager(g)
        PROVE  TypeInv'
    BY <2>2, DaemonKeepsTypes, ManagerKeepsTypes
  <2>3. CASE Tick
    BY <2>3, TickKeepsTypes
  <2>4. CASE UNCHANGED vars
    BY <2>4 DEF vars, TypeInv, TypeOK, ManagerShape, WellFormed
  <2> QED
    BY <2>1, <2>2, <2>3, <2>4 DEF Next
<1> QED
  BY <1>1, <1>2, PTL DEF Spec

----------------------------------------------------------------------------
(* A manager that is not working on a batch has none, and a process that   *)
(* is down has no manager.                                                 *)

IdleHoldsNothing ==
  \A g \in Gateways :
    /\ proc[g] = "down" => mgr[g] = "off"
    /\ mgr[g] \in {"off", "scan", "stopped", "dead"} => batch[g] = {}

\* Batches are filled by a scan only, and dropped when the manager goes away.
LEMMA IdleStep ==
  ASSUME TypeInv, IdleHoldsNothing, [Next]_vars
  PROVE  IdleHoldsNothing'
<1> USE DEF TypeInv
<1>1. CASE Cli
  BY <1>1 DEF Cli, StartJob, CancelJob, CancelJobRefused, RegisterTarget,
              RemoveTarget, process, IdleHoldsNothing
<1>2. ASSUME NEW g \in Gateways, Daemon(g)
      PROVE  IdleHoldsNothing'
  BY <1>2 DEF Daemon, GatewayStart, RequestShutdown, DropGatewayLock,
              GatewayExit, GatewayCrash, KillProcess, LoseBatch, TypeOK,
              IdleHoldsNothing
<1>3. ASSUME NEW g \in Gateways,
             \/ ScanBackgroundJobs(g) \/ CrashInScan(g)
             \/ StopManager(g) \/ NextScan(g) \/ NextCandidate(g)
      PROVE  IdleHoldsNothing'
  <2>1. CASE ScanBackgroundJobs(g)
    BY <2>1 DEF ScanBackgroundJobs, TypeOK, IdleHoldsNothing
  <2>2. CASE CrashInScan(g)
    BY <2>2 DEF CrashInScan, KillProcess, TypeOK, IdleHoldsNothing
  <2>3. CASE StopManager(g) \/ NextScan(g) \/ NextCandidate(g)
    BY <2>3 DEF StopManager, NextScan, NextCandidate, LoseBatch, TypeOK,
                IdleHoldsNothing
  <2> QED
    BY <1>3, <2>1, <2>2, <2>3
<1>4. ASSUME NEW g \in Gateways, NEW j \in Jobs,
             StartAttempt(g, j) \/ Attempt(g, j)
      PROVE  IdleHoldsNothing'
  <2>1. batch' = batch /\ proc' = proc
    BY <1>4 DEF StartAttempt, Attempt, AttemptFails, SendResponse,
                PersistSendOutcome, PersistStreamJobEvent, StreamEnds,
                WaitPolls, WaitEnds, process
  <2>2. \A h \in Gateways :
          \/ mgr'[h] = mgr[h]
          \/ mgr[h] # "off" /\ mgr'[h] \in {"remote", "persist", "finish"}
    BY <1>4 DEF StartAttempt, Attempt, AttemptFails, SendResponse,
                PersistSendOutcome, PersistStreamJobEvent, StreamEnds,
                WaitPolls, WaitEnds, AttemptReturns, process, TypeOK
  <2> QED
    BY <2>1, <2>2 DEF IdleHoldsNothing
<1>5. ASSUME NEW g \in Gateways, NEW j \in Jobs,
             \/ FinishJobAttempt(g, j) \/ CrashInFinish(g, j)
             \/ ManagerDies(g, j)
      PROVE  IdleHoldsNothing'
  BY <1>5 DEF FinishJobAttempt, CrashInFinish, ManagerDies, KillProcess,
              LoseBatch, TypeOK, IdleHoldsNothing
<1>6. CASE Tick
  BY <1>6 DEF Tick, process, IdleHoldsNothing
<1>7. CASE UNCHANGED vars
  BY <1>7 DEF vars, IdleHoldsNothing
<1> QED
  BY <1>1, <1>2, <1>3, <1>4, <1>5, <1>6, <1>7 DEF Next, JobManager

----------------------------------------------------------------------------
(* What one step does to one job.                                          *)

SameHolders(j) ==
  \A g \in Gateways : j \in batch'[g] <=> j \in batch[g]
OnlyReleasedBy(g, j) ==
  /\ j \in batch[g]
  /\ \A h \in Gateways : j \in batch'[h] <=> h # g /\ j \in batch[h]
SameCounts(j) == starts'[j] = starts[j] /\ lost'[j] = lost[j]

Untouched(j) ==
  /\ row'[j] = row[j] /\ event'[j] = event[j] /\ overran' = overran
  /\ SameHolders(j) /\ SameCounts(j)
Enqueued(j) ==
  /\ row[j].state = "absent"
  /\ row'[j].state = "queued" /\ row'[j].retry = 0
  /\ event'[j] \in {event[j], "enqueued"} /\ overran' = overran
  /\ SameHolders(j) /\ SameCounts(j)
Cancelled(j) ==
  /\ row[j].state # "absent"
  /\ row'[j].state = "cancelled" /\ row'[j].retry = row[j].retry
  /\ row[j].state = "cancelled" => row'[j] = row[j]
  /\ event'[j] \in {event[j], "cancelled"} /\ overran' = overran
  /\ SameHolders(j) /\ SameCounts(j)
Dropped(g, j) ==
  /\ row'[j] = row[j] /\ event'[j] = event[j] /\ overran' = overran
  /\ OnlyReleasedBy(g, j)
  /\ starts'[j] = starts[j] /\ lost'[j] = lost[j] + 1
Claimed(g, j) ==
  /\ JobIsDue(row[j]) /\ row'[j] = RunningJobUpsert(row[j])
  /\ event'[j] \in {event[j], "started"} /\ overran' = overran
  /\ starts'[j] = starts[j] + 1
  /\ \/ /\ \A h \in Gateways : j \in batch'[h] <=> h = g \/ j \in batch[h]
        /\ lost'[j] = lost[j]
     \/ SameHolders(j) /\ lost'[j] = lost[j] + 1
Finished(g, j) ==
  /\ result[g] \in Results \ {"none"}
  /\ mgr[g] = "finish" /\ Current(g, j)
  /\ row'[j] = FinishedRow(j, result[g])
  /\ event'[j] \in {event[j], row'[j].state} /\ overran' = overran
  /\ OnlyReleasedBy(g, j) /\ SameCounts(j)
Aged(j) ==
  /\ row'[j] = [row[j] EXCEPT !.delay = Elapse(@), !.lock = Elapse(@)]
  /\ event'[j] = event[j]
  /\ overran' = overran \union
                  {k \in Jobs : Held(k) /\ row[k].lock \in {0, 1}}
  /\ SameHolders(j) /\ SameCounts(j)

JobStep(j) ==
  \/ Untouched(j) \/ Enqueued(j) \/ Cancelled(j) \/ Aged(j)
  \/ \E g \in Gateways : Dropped(g, j) \/ Claimed(g, j) \/ Finished(g, j)

\* `job cancel` leaves a cancelled row exactly as it is.
LEMMA CancelTwice ==
  ASSUME TypeOK, NEW j \in Jobs, NEW u, u = CancelledRow(row[j])
  PROVE  /\ u.state = "cancelled" /\ u.retry = row[j].retry
         /\ row[j].state = "cancelled" => u = row[j]
<1>1. WellFormed(j, row[j])
  BY DEF TypeOK
<1>2. row[j] \in Row
  BY <1>1 DEF WellFormed
<1>3. u.state = "cancelled" /\ u.retry = row[j].retry
  BY <1>2 DEF Row, CancelledRow
<1>4. ASSUME row[j].state = "cancelled"
      PROVE  u = row[j]
  <2>1. row[j].lock = NoTime /\ row[j].delay = NoTime /\ row[j].done = TRUE
    BY <1>1, <1>2, <1>4 DEF WellFormed, TerminalStates, Row
  <2> QED
    BY <1>2, <1>4, <2>1 DEF Row, CancelledRow
<1> QED
  BY <1>3, <1>4

\* The commands enqueue or cancel one job and leave the others alone.
LEMMA CliCases ==
  ASSUME TypeInv, NEW j \in Jobs, Cli
  PROVE  JobStep(j)
<1> USE DEF TypeInv
<1>1. ASSUME NEW i \in Jobs, NEW logged \in BOOLEAN, StartJob(i, logged)
      PROVE  JobStep(j)
  <2>1. CASE i = j
    <3>1. row'[j] = [AbsentRow EXCEPT !.state = "queued",
                                      !.task = Kind[j] = "wait"]
      BY <1>1, <2>1 DEF StartJob, TypeOK
    <3>2. row'[j].state = "queued" /\ row'[j].retry = 0
      BY <3>1 DEF AbsentRow
    <3> QED
      BY <1>1, <2>1, <3>2 DEF StartJob, TypeOK, process, history, JobStep,
                              Enqueued, SameHolders, SameCounts
  <2>2. CASE i # j
    BY <1>1, <2>2 DEF StartJob, TypeOK, process, history, JobStep, Untouched,
                      SameHolders, SameCounts
  <2> QED
    BY <2>1, <2>2
<1>2. ASSUME NEW i \in Jobs, NEW remote \in BOOLEAN, NEW logged \in BOOLEAN,
             CancelJob(i, remote, logged)
      PROVE  JobStep(j)
  <2>1. CASE i = j
    <3>1. row'[j] = CancelledRow(row[j])
      BY <1>2, <2>1 DEF CancelJob, TypeOK
    <3>2. /\ row'[j].state = "cancelled" /\ row'[j].retry = row[j].retry
          /\ row[j].state = "cancelled" => row'[j] = row[j]
      BY <3>1, CancelTwice
    <3> QED
      BY <1>2, <2>1, <3>2 DEF CancelJob, TypeOK, process, history, JobStep,
                              Cancelled, SameHolders, SameCounts
  <2>2. CASE i # j
    BY <1>2, <2>2 DEF CancelJob, TypeOK, process, history, JobStep, Untouched,
                      SameHolders, SameCounts
  <2> QED
    BY <2>1, <2>2
<1>3. ASSUME NEW i \in Jobs, CancelJobRefused(i)
      PROVE  JobStep(j)
  BY <1>3 DEF CancelJobRefused, journal, process, JobStep, Untouched,
              SameHolders, SameCounts
<1>4. ASSUME NEW t \in Targets, RegisterTarget(t) \/ RemoveTarget(t)
      PROVE  JobStep(j)
  BY <1>4 DEF RegisterTarget, RemoveTarget, journal, process, history, JobStep,
              Untouched, SameHolders, SameCounts
<1> QED
  BY <1>1, <1>2, <1>3, <1>4 DEF Cli

\* Losing a batch drops each of its jobs and no other.
LEMMA LoseBatchCases ==
  ASSUME TypeInv, NEW j \in Jobs, NEW g \in Gateways, LoseBatch(g),
         UNCHANGED <<row, event, starts, overran>>
  PROVE  JobStep(j)
<1>1. CASE j \in batch[g]
  BY <1>1 DEF LoseBatch, TypeInv, TypeOK, JobStep, Dropped, OnlyReleasedBy
<1>2. CASE j \notin batch[g]
  BY <1>2 DEF LoseBatch, TypeInv, TypeOK, JobStep, Untouched, SameHolders,
              SameCounts
<1> QED
  BY <1>1, <1>2

\* The daemon around the manager only ever loses a batch.
LEMMA DaemonCases ==
  ASSUME TypeInv, NEW j \in Jobs, NEW g \in Gateways, Daemon(g)
  PROVE  JobStep(j)
<1>1. CASE GatewayCrash(g)
  BY <1>1, LoseBatchCases DEF GatewayCrash, journal
<1>2. CASE ~GatewayCrash(g)
  BY <1>2 DEF Daemon, GatewayStart, RequestShutdown, DropGatewayLock,
              GatewayExit, journal, history, JobStep, Untouched, SameHolders,
              SameCounts
<1> QED
  BY <1>1, <1>2

\* A scan claims due jobs only, for the manager that scans.
LEMMA ScanCases ==
  ASSUME TypeInv, IdleHoldsNothing, NEW j \in Jobs, NEW g \in Gateways,
         ScanBackgroundJobs(g) \/ CrashInScan(g)
  PROVE  JobStep(j)
<1> USE DEF TypeInv
<1>0. batch[g] = {}
  BY DEF ScanBackgroundJobs, CrashInScan, IdleHoldsNothing
<1>1. CASE ScanBackgroundJobs(g)
  <2>1. PICK B \in SUBSET Jobs :
          /\ IsDueBatch(B) /\ Claim(B) /\ JournalStarted(B)
          /\ batch' = [batch EXCEPT ![g] = B]
    BY <1>1 DEF ScanBackgroundJobs
  <2>2. overran' = overran /\ lost' = lost
    BY <1>1 DEF ScanBackgroundJobs
  <2>3. CASE j \in B
    <3>1. JobIsDue(row[j])
      BY <2>1, <2>3 DEF IsDueBatch
    <3>2. /\ row'[j] = RunningJobUpsert(row[j]) /\ starts'[j] = starts[j] + 1
          /\ event'[j] = "started"
      BY <2>1, <2>3 DEF Claim, JournalStarted
    <3>3. \A h \in Gateways : j \in batch'[h] <=> h = g \/ j \in batch[h]
      BY <2>1, <2>3 DEF TypeOK
    <3> QED
      BY <2>2, <3>1, <3>2, <3>3 DEF JobStep, Claimed
  <2>4. CASE j \notin B
    <3>1. /\ row'[j] = row[j] /\ starts'[j] = starts[j]
          /\ event'[j] = event[j]
      BY <2>1, <2>4 DEF Claim, JournalStarted
    <3>2. \A h \in Gateways : j \in batch'[h] <=> j \in batch[h]
      BY <1>0, <2>1, <2>4 DEF TypeOK
    <3> QED
      BY <2>2, <3>1, <3>2 DEF JobStep, Untouched, SameHolders, SameCounts
  <2> QED
    BY <2>3, <2>4
<1>2. CASE CrashInScan(g)
  <2>1. PICK B \in SUBSET Jobs, C \in SUBSET Jobs, D \in SUBSET Jobs :
          /\ IsDueBatch(B) /\ C \subseteq B /\ Claim(C)
          /\ D \subseteq C /\ JournalStarted(D)
          /\ lost' = [k \in Jobs |-> IF k \in C THEN lost[k] + 1 ELSE lost[k]]
    BY <1>2 DEF CrashInScan
  <2>2. overran' = overran /\ batch' = batch
    BY <1>2 DEF CrashInScan
  <2>3. CASE j \in C
    <3>1. JobIsDue(row[j])
      BY <2>1, <2>3 DEF IsDueBatch
    <3>2. /\ row'[j] = RunningJobUpsert(row[j]) /\ starts'[j] = starts[j] + 1
          /\ event'[j] \in {event[j], "started"} /\ lost'[j] = lost[j] + 1
      BY <2>1, <2>3 DEF Claim, JournalStarted
    <3> QED
      BY <2>2, <3>1, <3>2 DEF JobStep, Claimed, SameHolders
  <2>4. CASE j \notin C
    BY <2>1, <2>2, <2>4 DEF Claim, JournalStarted, JobStep, Untouched,
                            SameHolders, SameCounts
  <2> QED
    BY <2>3, <2>4
<1> QED
  BY <1>1, <1>2

\* The steps of an attempt touch no row, no batch and no lifecycle event.
LEMMA AttemptCases ==
  ASSUME TypeInv, NEW j \in Jobs, NEW g \in Gateways, NEW i \in Jobs,
         StartAttempt(g, i) \/ Attempt(g, i)
  PROVE  Untouched(j)
  BY DEF StartAttempt, Attempt, AttemptFails, SendResponse, PersistSendOutcome,
         PersistStreamJobEvent, StreamEnds, WaitPolls, WaitEnds, journal,
         process, history, Untouched, SameHolders, SameCounts

\* Finishing an attempt takes the job out of this manager's batch; a crash on
\* the way also drops the candidates behind it.
LEMMA FinishCases ==
  ASSUME TypeInv, NEW j \in Jobs, NEW g \in Gateways, NEW i \in Jobs,
         FinishJobAttempt(g, i) \/ CrashInFinish(g, i)
  PROVE  JobStep(j)
<1> USE DEF TypeInv
<1>1. result[g] \in Results \ {"none"} /\ mgr[g] = "finish" /\ Current(g, i)
  BY DEF FinishJobAttempt, CrashInFinish, TypeOK, ManagerShape
<1>2. i \in batch[g] /\ batch[g] \subseteq Jobs
  BY <1>1 DEF Current, TypeOK
<1>3. row' = [row EXCEPT ![i] = FinishedRow(i, result[g])]
  BY DEF FinishJobAttempt, CrashInFinish
<1>4. starts' = starts /\ overran' = overran
  BY DEF FinishJobAttempt, CrashInFinish, history
<1>5. CASE i = j
  <2>1. row'[j] = FinishedRow(j, result[g])
    BY <1>3, <1>5 DEF TypeOK
  <2>2. event'[j] \in {event[j], row'[j].state}
    <3>1. \/ event' = event
          \/ event' = [event EXCEPT ![j] = FinishedRow(j, result[g]).state]
      BY <1>5 DEF FinishJobAttempt, CrashInFinish, journal
    <3> QED
      BY <2>1, <3>1 DEF TypeOK
  <2>3. OnlyReleasedBy(g, j) /\ lost'[j] = lost[j]
    BY <1>2, <1>5 DEF FinishJobAttempt, CrashInFinish, TypeOK, OnlyReleasedBy,
                      history
  <2> QED
    BY <1>1, <1>4, <1>5, <2>1, <2>2, <2>3 DEF JobStep, Finished, SameCounts
<1>6. CASE i # j
  <2>1. row'[j] = row[j] /\ event'[j] = event[j]
    BY <1>3, <1>6 DEF FinishJobAttempt, CrashInFinish, journal, TypeOK
  <2>2. CASE FinishJobAttempt(g, i) \/ j \notin batch[g]
    BY <1>4, <1>6, <2>1, <2>2
    DEF FinishJobAttempt, CrashInFinish, TypeOK, history, JobStep, Untouched,
        SameHolders, SameCounts
  <2>3. CASE CrashInFinish(g, i) /\ j \in batch[g]
    BY <1>4, <1>6, <2>1, <2>3
    DEF CrashInFinish, TypeOK, JobStep, Dropped, OnlyReleasedBy
  <2> QED
    BY <2>2, <2>3
<1> QED
  BY <1>5, <1>6

\* Every step is one of the cases for every job.
LEMMA StepCases ==
  ASSUME TypeInv, IdleHoldsNothing, [Next]_vars, NEW j \in Jobs
  PROVE  JobStep(j)
<1>1. CASE Cli
  BY <1>1, CliCases
<1>2. ASSUME NEW g \in Gateways, Daemon(g)
      PROVE  JobStep(j)
  BY <1>2, DaemonCases
<1>3. ASSUME NEW g \in Gateways, JobManager(g)
      PROVE  JobStep(j)
  <2>1. CASE ScanBackgroundJobs(g) \/ CrashInScan(g)
    BY <2>1, ScanCases
  <2>2. CASE StopManager(g)
    BY <2>2, LoseBatchCases DEF StopManager, journal
  <2>3. CASE NextScan(g) \/ NextCandidate(g)
    BY <2>3 DEF NextScan, NextCandidate, journal, history, JobStep, Untouched,
                SameHolders, SameCounts
  <2>4. ASSUME NEW i \in Jobs, StartAttempt(g, i) \/ Attempt(g, i)
        PROVE  JobStep(j)
    BY <2>4, AttemptCases DEF JobStep
  <2>5. ASSUME NEW i \in Jobs, FinishJobAttempt(g, i) \/ CrashInFinish(g, i)
        PROVE  JobStep(j)
    BY <2>5, FinishCases
  <2>6. ASSUME NEW i \in Jobs, ManagerDies(g, i)
        PROVE  JobStep(j)
    BY <2>6, LoseBatchCases DEF ManagerDies, journal
  <2> QED
    BY <1>3, <2>1, <2>2, <2>3, <2>4, <2>5, <2>6 DEF JobManager
<1>4. CASE Tick
  BY <1>4 DEF Tick, journal, process, JobStep, Aged, SameHolders, SameCounts
<1>5. CASE UNCHANGED vars
  BY <1>5 DEF vars, JobStep, Untouched, SameHolders, SameCounts
<1> QED
  BY <1>1, <1>2, <1>3, <1>4, <1>5 DEF Next

----------------------------------------------------------------------------
(* The inductive invariant.                                                *)

\* OneOwnerWithinLock, for one job.
OwnedOnce(j) ==
  j \notin overran =>
    /\ \A g, h \in Gateways : j \in batch[g] /\ j \in batch[h] => g = h
    /\ Held(j) => \/ row[j].state = "running" /\ row[j].lock > 0
                  \/ row[j].state = "cancelled"

\* Claims are paid for: by a counted retry, by a loss, or by the one attempt
\* that is in flight or has settled the job.
Paid(j) ==
  /\ row[j].state = "absent" => row[j].retry = 0
  /\ j \notin overran =>
       starts[j] <= row[j].retry + lost[j] +
         (IF Held(j) \/ row[j].state \in TerminalStates THEN 1 ELSE 0)

\* JournalBehindRow, for one job.
JournalBehind(j) ==
  j \notin overran /\ event[j] \in TerminalStates
    => row[j].state \in {event[j], "cancelled"}

JobInv(j) == OwnedOnce(j) /\ Paid(j) /\ JournalBehind(j)

SafetyInv == TypeInv /\ IdleHoldsNothing /\ \A j \in Jobs : JobInv(j)

\* A due job has been let go by everyone, unless an attempt overran its lock.
LEMMA DueIsFree ==
  ASSUME TypeOK, NEW j \in Jobs, OwnedOnce(j), JobIsDue(row[j]), j \notin overran
  PROVE  /\ ~Held(j)
         /\ row[j].state \in ActiveStates
  BY DEF TypeOK, OwnedOnce, JobIsDue, ActiveStates

\* Types of the columns and counters of one job, before and after a step.
LEMMA JobTypes ==
  ASSUME TypeOK, NEW j \in Jobs
  PROVE  /\ row[j].retry \in Nat /\ starts[j] \in Nat /\ lost[j] \in Nat
         /\ row[j].lock \in Int
  BY DEF TypeOK, WellFormed, Row, NoTime

\* A step keeps the ownership of a job single, and visible in its row.
LEMMA OwnershipStep ==
  ASSUME TypeInv, NEW j \in Jobs, OwnedOnce(j), JobStep(j)
  PROVE  OwnedOnce(j)'
<1> USE DEF TypeInv
<1>1. CASE Untouched(j)
  BY <1>1 DEF Untouched, SameHolders, OwnedOnce, Held
<1>2. CASE Enqueued(j)
  BY <1>2 DEF Enqueued, SameHolders, OwnedOnce, Held
<1>3. CASE Cancelled(j)
  BY <1>3 DEF Cancelled, SameHolders, OwnedOnce, Held
<1>4. CASE Aged(j)
  <2>1. /\ row'[j].state = row[j].state
        /\ row'[j].lock = Elapse(row[j].lock)
    BY <1>4, TickRow DEF Aged
  <2>2. row[j].lock \in Int
    BY JobTypes
  <2> QED
    BY <1>4, <2>1, <2>2 DEF Aged, SameHolders, OwnedOnce, Held, Elapse
<1>5. ASSUME NEW g \in Gateways, Dropped(g, j)
      PROVE  OwnedOnce(j)'
  BY <1>5 DEF Dropped, OnlyReleasedBy, OwnedOnce, Held
<1>6. ASSUME NEW g \in Gateways, Claimed(g, j)
      PROVE  OwnedOnce(j)'
  <2>1. row'[j].state = "running" /\ row'[j].lock > 0
    BY <1>6, ClaimedRow DEF Claimed
  <2>2. j \notin overran => ~Held(j)
    BY <1>6, DueIsFree DEF Claimed
  <2> QED
    BY <1>6, <2>1, <2>2 DEF Claimed, SameHolders, OwnedOnce, Held
<1>7. ASSUME NEW g \in Gateways, Finished(g, j)
      PROVE  OwnedOnce(j)'
  BY <1>7 DEF Finished, OnlyReleasedBy, OwnedOnce, Held
<1> QED
  BY <1>1, <1>2, <1>3, <1>4, <1>5, <1>6, <1>7 DEF JobStep

\* A step keeps every claim of a job paid for.
LEMMA PaidStep ==
  ASSUME TypeInv, NEW j \in Jobs, OwnedOnce(j), Paid(j), JobStep(j)
  PROVE  Paid(j)'
<1> USE DEF TypeInv
<1>0. row[j].retry \in Nat /\ starts[j] \in Nat /\ lost[j] \in Nat
  BY JobTypes
<1>1. CASE Untouched(j)
  BY <1>1 DEF Untouched, SameHolders, SameCounts, Paid, Held
<1>2. CASE Enqueued(j)
  BY <1>0, <1>2 DEF Enqueued, SameHolders, SameCounts, Paid, OwnedOnce, Held,
                    TerminalStates
<1>3. CASE Cancelled(j)
  BY <1>0, <1>3 DEF Cancelled, SameHolders, SameCounts, Paid, Held,
                    TerminalStates
<1>4. CASE Aged(j)
  <2>1. row'[j].state = row[j].state /\ row'[j].retry = row[j].retry
    BY <1>4, TickRow DEF Aged
  <2>2. overran \subseteq overran'
    BY <1>4 DEF Aged
  <2> QED
    BY <1>4, <2>1, <2>2 DEF Aged, SameHolders, SameCounts, Paid, Held
<1>5. ASSUME NEW g \in Gateways, Dropped(g, j)
      PROVE  Paid(j)'
  BY <1>0, <1>5 DEF Dropped, Paid
<1>6. ASSUME NEW g \in Gateways, Claimed(g, j)
      PROVE  Paid(j)'
  <2>1. row'[j].state = "running" /\ row'[j].retry = row[j].retry
    BY <1>6, ClaimedRow DEF Claimed
  <2>2. j \notin overran => ~Held(j) /\ row[j].state \notin TerminalStates
    BY <1>6, DueIsFree DEF Claimed, ActiveStates, TerminalStates
  <2>3. j \notin overran => starts[j] <= row[j].retry + lost[j]
    BY <1>0, <2>2 DEF Paid
  <2>4. \/ Held(j)' /\ lost'[j] = lost[j]
        \/ lost'[j] = lost[j] + 1
    BY <1>6 DEF Claimed, Held
  <2>5. starts'[j] = starts[j] + 1 /\ overran' = overran
    BY <1>6 DEF Claimed
  <2> QED
    BY <1>0, <2>1, <2>3, <2>4, <2>5 DEF Paid
<1>7. ASSUME NEW g \in Gateways, Finished(g, j)
      PROVE  Paid(j)'
  <2>1. /\ row[j].state = "cancelled" => row'[j] = row[j]
        /\ row[j].state # "cancelled" =>
             \/ row'[j].state \in TerminalStates /\ row'[j].retry = row[j].retry
             \/ row'[j].state = "retrying" /\ row'[j].retry = row[j].retry + 1
    BY <1>7, FinishedRowFacts DEF Finished
  <2>2. starts'[j] = starts[j] /\ lost'[j] = lost[j] /\ overran' = overran
    BY <1>7 DEF Finished, SameCounts
  <2> QED
    BY <1>0, <2>1, <2>2 DEF Paid, TerminalStates
<1> QED
  BY <1>1, <1>2, <1>3, <1>4, <1>5, <1>6, <1>7 DEF JobStep

\* A step keeps the journal behind the row of a job.
LEMMA JournalStep ==
  ASSUME TypeInv, NEW j \in Jobs, OwnedOnce(j), JournalBehind(j), JobStep(j)
  PROVE  JournalBehind(j)'
<1> USE DEF TypeInv
<1>1. CASE Untouched(j)
  BY <1>1 DEF Untouched, JournalBehind
<1>2. CASE Enqueued(j)
  BY <1>2 DEF Enqueued, JournalBehind, TerminalStates
<1>3. CASE Cancelled(j)
  BY <1>3 DEF Cancelled, JournalBehind
<1>4. CASE Aged(j)
  <2>1. row'[j].state = row[j].state
    BY <1>4, TickRow DEF Aged
  <2> QED
    BY <1>4, <2>1 DEF Aged, JournalBehind
<1>5. ASSUME NEW g \in Gateways, Dropped(g, j)
      PROVE  JournalBehind(j)'
  BY <1>5 DEF Dropped, JournalBehind
<1>6. ASSUME NEW g \in Gateways, Claimed(g, j)
      PROVE  JournalBehind(j)'
  <2>1. j \notin overran => row[j].state \in ActiveStates
    BY <1>6, DueIsFree DEF Claimed
  <2> QED
    BY <1>6, <2>1 DEF Claimed, JournalBehind, ActiveStates, TerminalStates
<1>7. ASSUME NEW g \in Gateways, Finished(g, j)
      PROVE  JournalBehind(j)'
  <2>1. row[j].state = "cancelled" => row'[j] = row[j]
    BY <1>7, FinishedRowFacts DEF Finished
  <2>2. j \notin overran => row[j].state \in {"running", "cancelled"}
    BY <1>7 DEF Finished, OnlyReleasedBy, OwnedOnce, Held
  <2> QED
    BY <1>7, <2>1, <2>2 DEF Finished, JournalBehind, TerminalStates
<1> QED
  BY <1>1, <1>2, <1>3, <1>4, <1>5, <1>6, <1>7 DEF JobStep

\* SafetyInv is an invariant of every behaviour.
THEOREM Safety == Spec => []SafetyInv
<1>1. Init => SafetyInv
  <2> SUFFICES ASSUME Init
               PROVE  SafetyInv
    OBVIOUS
  <2>1. TypeInv
    BY InitTypes
  <2>2. IdleHoldsNothing
    BY DEF Init, IdleHoldsNothing
  <2>3. ASSUME NEW j \in Jobs
        PROVE  JobInv(j)
    BY DEF Init, JobInv, OwnedOnce, Paid, JournalBehind, Held, AbsentRow,
           TerminalStates
  <2> QED
    BY <2>1, <2>2, <2>3 DEF SafetyInv
<1>2. SafetyInv /\ [Next]_vars /\ TypeInv' => SafetyInv'
  <2> SUFFICES ASSUME SafetyInv, [Next]_vars, TypeInv'
               PROVE  SafetyInv'
    OBVIOUS
  <2>1. IdleHoldsNothing'
    BY IdleStep DEF SafetyInv
  <2>2. ASSUME NEW j \in Jobs
        PROVE  JobInv(j)'
    <3>1. TypeInv /\ OwnedOnce(j) /\ Paid(j) /\ JournalBehind(j)
      BY DEF SafetyInv, JobInv
    <3>2. JobStep(j)
      BY StepCases DEF SafetyInv
    <3> QED
      BY <3>1, <3>2, OwnershipStep, PaidStep, JournalStep DEF JobInv
  <2> QED
    BY <2>1, <2>2 DEF SafetyInv
<1> QED
  BY <1>1, <1>2, TypeCorrect, PTL DEF Spec

----------------------------------------------------------------------------
(* The properties the runs check.                                          *)

\* Every row keeps the columns its state calls for, and a retry count below
\* --max-attempts (upsert_gateway_job, finish_retry_or_fail).
THEOREM TypeSafety == Spec => []TypeOK
<1>1. TypeInv => TypeOK
  BY DEF TypeInv
<1> QED
  BY <1>1, TypeCorrect, PTL

\* Two gateways never work on the same job while no attempt outlives its lock,
\* although the gateway lock is dropped before the managers are joined.
THEOREM Ownership == Spec => []OneOwnerWithinLock
<1>1. SafetyInv => OneOwnerWithinLock
  BY DEF SafetyInv, JobInv, OwnedOnce, OneOwnerWithinLock
<1> QED
  BY <1>1, Safety, PTL

\* Only claims lost in a crash, a shutdown or with a dead manager escape the
\* budget of --max-attempts (running_job_upsert keeps retry_count).
THEOREM RetryBudget == Spec => []AttemptsAccountedFor
<1>1. SafetyInv => AttemptsAccountedFor
  <2> SUFFICES ASSUME SafetyInv, NEW j \in Jobs \ overran
               PROVE  starts[j] <= MaxAttempts[j] + lost[j]
    BY DEF AttemptsAccountedFor
  <2>1. TypeOK /\ Paid(j)
    BY DEF SafetyInv, TypeInv, JobInv
  <2>2. /\ row[j].retry \in Nat /\ starts[j] \in Nat /\ lost[j] \in Nat
        /\ MaxAttempts[j] \in Nat
    BY <2>1, JobTypes, JobsAssumption
  <2>3. row[j].retry < MaxAttempts[j]
    BY <2>1 DEF TypeOK, WellFormed
  <2> QED
    BY <2>1, <2>2, <2>3 DEF Paid
<1> QED
  BY <1>1, Safety, PTL

\* A terminal lifecycle event is never about a row that is not in that state
\* (or cancelled since), although row and event are separate statements.
THEOREM JournalOrder == Spec => []JournalBehindRow
<1>1. SafetyInv => JournalBehindRow
  BY DEF SafetyInv, JobInv, JournalBehind, JournalBehindRow
<1> QED
  BY <1>1, Safety, PTL

\* Writing the deadlines a row already has changes nothing.
LEMMA SameDeadlines ==
  ASSUME NEW r \in Row, r.delay = NoTime, r.lock = NoTime, NEW u,
         u = [r EXCEPT !.delay = NoTime, !.lock = NoTime]
  PROVE  u = r
  BY DEF Row

\* No step changes a cancelled row but the clock, and that finds no deadline.
LEMMA CancelledStays ==
  ASSUME TypeInv, NEW j \in Jobs, JobStep(j), row[j].state = "cancelled"
  PROVE  row'[j] = row[j]
<1> USE DEF TypeInv
<1>1. CASE Aged(j)
  <2>1. WellFormed(j, row[j]) /\ row[j] \in Row
    BY DEF TypeOK, WellFormed
  <2>2. row[j].lock = NoTime /\ row[j].delay = NoTime
    BY <2>1 DEF WellFormed
  <2>3. Elapse(NoTime) = NoTime
    BY DEF Elapse, NoTime
  <2>4. row'[j] = [row[j] EXCEPT !.delay = NoTime, !.lock = NoTime]
    BY <1>1, <2>2, <2>3 DEF Aged
  <2> QED
    BY <2>1, <2>2, <2>4, SameDeadlines
<1>2. ASSUME NEW g \in Gateways, Finished(g, j)
      PROVE  row'[j] = row[j]
  BY <1>2, FinishedRowFacts DEF Finished
<1> QED
  BY <1>1, <1>2 DEF JobStep, Untouched, Enqueued, Cancelled, Dropped, Claimed,
                    JobIsDue

\* `missive job cancel` is final: no attempt that comes back late, no scan and
\* no gateway that starts afterwards touches the row again.
THEOREM CancelFinal == Spec => CancelIsFinal
<1>1. SafetyInv /\ [Next]_vars =>
        [\A j \in Jobs : row[j].state = "cancelled" => row'[j] = row[j]]_vars
  BY StepCases, CancelledStays DEF SafetyInv
<1> QED
  BY <1>1, Safety, PTL DEF Spec, CancelIsFinal

\* The outcome of a finished job does not change except by a cancel, while no
\* attempt of it outlived its lock (finish_job_attempt_blocking itself does not
\* check that the attempt still owns the row).
THEOREM OutcomeFinal == Spec => TerminalIsFinal
<1>1. ASSUME SafetyInv, [Next]_vars, NEW j \in Jobs \ overran,
             row[j].state \in TerminalStates
      PROVE  row'[j].state \in {row[j].state, "cancelled"}
  <2>1. TypeInv /\ TypeOK /\ OwnedOnce(j) /\ JobStep(j)
    BY <1>1, StepCases DEF SafetyInv, JobInv, TypeInv
  <2>2. CASE Aged(j)
    BY <2>1, <2>2, TickRow DEF Aged
  <2>3. ASSUME NEW g \in Gateways, Claimed(g, j)
        PROVE  FALSE
    BY <1>1, <2>3 DEF Claimed, JobIsDue, TerminalStates
  <2>4. ASSUME NEW g \in Gateways, Finished(g, j)
        PROVE  row'[j] = row[j]
    <3>1. Held(j) /\ j \notin overran
      BY <1>1, <2>4 DEF Finished, OnlyReleasedBy, Held
    <3>2. row[j].state \in {"running", "cancelled"}
      BY <2>1, <3>1 DEF OwnedOnce
    <3>3. row[j].state = "cancelled"
      BY <1>1, <3>2 DEF TerminalStates
    <3> QED
      BY <2>1, <3>3, CancelledStays
  <2> QED
    BY <1>1, <2>1, <2>2, <2>3, <2>4
    DEF JobStep, Untouched, Enqueued, Cancelled, Dropped, TerminalStates
<1>2. SafetyInv /\ [Next]_vars =>
        [\A j \in Jobs \ overran :
           row[j].state \in TerminalStates =>
             row'[j].state \in {row[j].state, "cancelled"}]_vars
  BY <1>1
<1> QED
  BY <1>2, Safety, PTL DEF Spec, TerminalIsFinal

----------------------------------------------------------------------------
(* Outcomes: what a finished attempt reports is true of the store.         *)

\* A manager about to finish: "cancelled" is what the row says, and an answer
\* to a send has been persisted.
OutcomeHolds(g, j) ==
  mgr[g] = "finish" /\ Current(g, j) =>
    /\ result[g] = "cancelled" => row[j].state = "cancelled"
    /\ result[g] \in {"message", "task"} /\ Kind[j] = "send" => j \in recorded

OutcomeInv ==
  /\ \A g \in Gateways, j \in Jobs : OutcomeHolds(g, j)
  /\ SucceededSendIsRecorded

\* The candidate a manager works on is unique.
LEMMA OneCurrent ==
  ASSUME TypeOK, NEW g \in Gateways, NEW i \in Jobs, NEW j \in Jobs,
         Current(g, i), Current(g, j)
  PROVE  i = j
<1>1. i \in Nat /\ j \in Nat /\ i <= j /\ j <= i
  BY JobsAssumption DEF Current
<1> QED
  BY <1>1

\* A step of another process, a step that does not end an attempt, or the end
\* of the attempt on the current candidate i.
Elsewhere(g) ==
  mgr'[g] = mgr[g] /\ batch'[g] = batch[g] /\ result'[g] = result[g]
Ends(g, i) ==
  /\ Current(g, i) /\ batch'[g] = batch[g]
  /\ result'[g] = "cancelled" => row[i].state = "cancelled"
  /\ result'[g] \in {"message", "task"} /\ Kind[i] = "send" => i \in recorded'
GatewayStep(g) ==
  Elsewhere(g) \/ mgr'[g] # "finish" \/ \E i \in Jobs : Ends(g, i)

\* The steps of one attempt, seen from any gateway.
LEMMA AttemptOutcome ==
  ASSUME TypeInv, NEW g \in Gateways, NEW h \in Gateways, NEW i \in Jobs,
         StartAttempt(h, i) \/ Attempt(h, i)
  PROVE  GatewayStep(g) /\ recorded \subseteq recorded'
<1> USE DEF TypeInv
<1>1. CASE StartAttempt(h, i)
  BY <1>1 DEF StartAttempt, AttemptReturns, journal, TypeOK, GatewayStep,
              Elsewhere, Ends
<1>2. CASE AttemptFails(h, i)
  BY <1>2 DEF AttemptFails, AttemptReturns, journal, TypeOK, GatewayStep,
              Elsewhere, Ends
<1>3. ASSUME NEW answer \in {"message", "task"}, SendResponse(h, i, answer)
      PROVE  GatewayStep(g) /\ recorded \subseteq recorded'
  BY <1>3 DEF SendResponse, journal, TypeOK, GatewayStep, Elsewhere
<1>4. CASE PersistSendOutcome(h, i)
  <2>1. result[h] \in {"message", "task"}
    BY <1>4 DEF PersistSendOutcome, ManagerShape
  <2> QED
    BY <1>4, <2>1 DEF PersistSendOutcome, PersistResponse, TypeOK, GatewayStep,
                      Elsewhere, Ends
<1>5. ASSUME NEW answer \in {"message", "task"},
             PersistStreamJobEvent(h, i, answer)
      PROVE  GatewayStep(g) /\ recorded \subseteq recorded'
  BY <1>5 DEF PersistStreamJobEvent, PersistResponse, TypeOK, GatewayStep,
              Elsewhere
<1>6. CASE StreamEnds(h, i)
  <2>1. result[h] \in {"message", "task"} /\ Kind[i] = "stream"
    BY <1>6 DEF StreamEnds, ManagerShape
  <2> QED
    BY <1>6, <2>1 DEF StreamEnds, AttemptReturns, journal, TypeOK, GatewayStep,
                      Elsewhere, Ends
<1>7. CASE WaitPolls(h, i)
  BY <1>7 DEF WaitPolls, process, GatewayStep, Elsewhere
<1>8. ASSUME NEW outcome \in {"task", "permanent", "cancelled"},
             WaitEnds(h, i, outcome)
      PROVE  GatewayStep(g) /\ recorded \subseteq recorded'
  BY <1>8 DEF WaitEnds, AttemptReturns, TypeOK, GatewayStep, Elsewhere, Ends
<1> QED
  BY <1>1, <1>2, <1>3, <1>4, <1>5, <1>6, <1>7, <1>8 DEF Attempt

\* Every step, seen from any gateway.
LEMMA GatewayCases ==
  ASSUME TypeInv, [Next]_vars, NEW g \in Gateways
  PROVE  GatewayStep(g) /\ recorded \subseteq recorded'
<1> USE DEF TypeInv
<1>1. CASE Cli
  BY <1>1 DEF Cli, StartJob, CancelJob, CancelJobRefused, RegisterTarget,
              RemoveTarget, process, journal, GatewayStep, Elsewhere
<1>2. ASSUME NEW h \in Gateways, Daemon(h)
      PROVE  GatewayStep(g) /\ recorded \subseteq recorded'
  BY <1>2 DEF Daemon, GatewayStart, RequestShutdown, DropGatewayLock,
              GatewayExit, GatewayCrash, KillProcess, LoseBatch, journal,
              TypeOK, GatewayStep, Elsewhere
<1>3. ASSUME NEW h \in Gateways,
             \/ ScanBackgroundJobs(h) \/ CrashInScan(h)
             \/ StopManager(h) \/ NextScan(h) \/ NextCandidate(h)
      PROVE  GatewayStep(g) /\ recorded \subseteq recorded'
  <2>1. CASE ScanBackgroundJobs(h)
    BY <2>1 DEF ScanBackgroundJobs, TypeOK, GatewayStep, Elsewhere
  <2>2. CASE CrashInScan(h)
    BY <2>2 DEF CrashInScan, KillProcess, TypeOK, GatewayStep, Elsewhere
  <2>3. CASE StopManager(h) \/ NextScan(h) \/ NextCandidate(h)
    BY <2>3 DEF StopManager, NextScan, NextCandidate, LoseBatch, journal,
                TypeOK, GatewayStep, Elsewhere
  <2> QED
    BY <1>3, <2>1, <2>2, <2>3
<1>4. ASSUME NEW h \in Gateways, NEW i \in Jobs,
             StartAttempt(h, i) \/ Attempt(h, i)
      PROVE  GatewayStep(g) /\ recorded \subseteq recorded'
  BY <1>4, AttemptOutcome
<1>5. ASSUME NEW h \in Gateways, NEW i \in Jobs,
             \/ FinishJobAttempt(h, i) \/ CrashInFinish(h, i)
             \/ ManagerDies(h, i)
      PROVE  GatewayStep(g) /\ recorded \subseteq recorded'
  BY <1>5 DEF FinishJobAttempt, CrashInFinish, ManagerDies, KillProcess,
              LoseBatch, journal, TypeOK, GatewayStep, Elsewhere
<1>6. CASE Tick
  BY <1>6 DEF Tick, process, journal, GatewayStep, Elsewhere
<1>7. CASE UNCHANGED vars
  BY <1>7 DEF vars, GatewayStep, Elsewhere
<1> QED
  BY <1>1, <1>2, <1>3, <1>4, <1>5, <1>6, <1>7 DEF Next, JobManager

\* OutcomeInv is inductive relative to SafetyInv.
LEMMA OutcomeStep ==
  ASSUME SafetyInv, OutcomeInv, [Next]_vars
  PROVE  OutcomeInv'
<1>0. TypeInv /\ TypeOK
  BY DEF SafetyInv, TypeInv
<1>1. ASSUME NEW g \in Gateways, NEW j \in Jobs
      PROVE  OutcomeHolds(g, j)'
  <2> SUFFICES ASSUME mgr'[g] = "finish", Current(g, j)'
               PROVE  /\ result'[g] = "cancelled" => row'[j].state = "cancelled"
                      /\ result'[g] \in {"message", "task"} /\ Kind[j] = "send"
                           => j \in recorded'
    BY DEF OutcomeHolds
  <2>1. row[j].state = "cancelled" => row'[j] = row[j]
    BY <1>0, StepCases, CancelledStays DEF SafetyInv
  <2>2. GatewayStep(g) /\ recorded \subseteq recorded'
    BY <1>0, GatewayCases
  <2>3. OutcomeHolds(g, j)
    BY DEF OutcomeInv
  <2>4. CASE Elsewhere(g)
    <3>1. Current(g, j)
      BY <2>4 DEF Elsewhere, Current
    <3> QED
      BY <2>1, <2>2, <2>3, <2>4, <3>1 DEF Elsewhere, OutcomeHolds
  <2>5. ASSUME NEW i \in Jobs, Ends(g, i)
        PROVE  i = j
    <3>1. Current(g, i) /\ Current(g, j)
      BY <2>5 DEF Ends, Current
    <3> QED
      BY <1>0, <3>1, OneCurrent
  <2> QED
    BY <2>1, <2>2, <2>4, <2>5 DEF GatewayStep, Ends
<1>2. ASSUME NEW j \in Jobs, row'[j].state = "succeeded", Kind[j] = "send"
      PROVE  j \in recorded'
  <2>1. JobStep(j)
    BY <1>0, StepCases DEF SafetyInv
  <2>2. recorded \subseteq recorded'
    <3>1. CASE Gateways = {}
      BY <1>2, <2>1, <3>1, <1>0, TickRow
      DEF Next, Cli, StartJob, CancelJob, CancelJobRefused, RegisterTarget,
          RemoveTarget, Tick, journal, vars
    <3>2. CASE Gateways # {}
      BY <1>0, <3>2, GatewayCases
    <3> QED
      BY <3>1, <3>2
  <2>3. CASE row[j].state = "succeeded"
    BY <1>2, <2>2, <2>3 DEF OutcomeInv, SucceededSendIsRecorded
  <2>4. CASE row[j].state # "succeeded"
    <3>1. ~Aged(j)
      BY <1>0, <1>2, <2>4, TickRow DEF Aged
    <3>2. ASSUME NEW g \in Gateways, Claimed(g, j)
          PROVE  FALSE
      BY <1>0, <1>2, <3>2, ClaimedRow DEF Claimed
    <3>3. PICK g \in Gateways : Finished(g, j)
      BY <1>2, <2>1, <2>4, <3>1, <3>2
      DEF JobStep, Untouched, Enqueued, Cancelled, Dropped
    <3>4. result[g] \in {"message", "task"}
      BY <1>0, <1>2, <2>4, <3>3, FinishedRowFacts DEF Finished
    <3>5. OutcomeHolds(g, j)
      BY DEF OutcomeInv
    <3> QED
      BY <1>2, <2>2, <3>3, <3>4, <3>5 DEF Finished, OutcomeHolds
  <2> QED
    BY <2>3, <2>4
<1> QED
  BY <1>1, <1>2 DEF OutcomeInv, SucceededSendIsRecorded

\* OutcomeInv is an invariant of every behaviour.
THEOREM Outcomes == Spec => []OutcomeInv
<1>1. Init => OutcomeInv
  BY DEF Init, OutcomeInv, OutcomeHolds, SucceededSendIsRecorded, AbsentRow
<1>2. SafetyInv /\ OutcomeInv /\ [Next]_vars => OutcomeInv'
  BY OutcomeStep
<1> QED
  BY <1>1, <1>2, Safety, PTL DEF Spec

\* A send job is marked succeeded only after its response was persisted
\* (execute_send_job persists before finish_terminal_job).
THEOREM SendRecorded == Spec => []SucceededSendIsRecorded
<1>1. OutcomeInv => SucceededSendIsRecorded
  BY DEF OutcomeInv
<1> QED
  BY <1>1, Outcomes, PTL

\* An attempt that reports "cancelled" finds the row cancelled when it is
\* finished, although job_cancelled read it earlier and without the lock.
THEOREM CancelledReal == Spec => []CancelledOutcomeIsReal
<1>1. OutcomeInv => CancelledOutcomeIsReal
  BY DEF OutcomeInv, OutcomeHolds, CancelledOutcomeIsReal
<1> QED
  BY <1>1, Outcomes, PTL
=============================================================================
