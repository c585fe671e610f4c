---------------------- MODULE TaskSubscriptionsProofs ----------------------
(***************************************************************************)
(* Proofs about the subscription manager, for any number of tasks, agents, *)
(* gateways, state changes, crashes and shutdowns.                         *)
(***************************************************************************)
EXTENDS TaskSubscriptions, TLAPS

\* The type invariant holds initially.
LEMMA TypeInit == Init => TypeOK
<1> SUFFICES ASSUME Init PROVE TypeOK
  OBVIOUS
<1>1. ForegroundOK
  <2>1. cli = {} /\ open \in BOOLEAN /\ ~open /\ feed = <<>> /\ followUps = 0
    BY DEF Init
  <2> QED
    BY <2>1 DEF ForegroundOK
<1> QED
  BY <1>1 DEF Init, TypeOK, TaskStates, RowStates, Cards, Managers, AttemptOK

\* Most steps leave the foreground stream alone.
LEMMA KeepsForeground ==
  ASSUME ForegroundOK, UNCHANGED foreground
  PROVE  ForegroundOK'
  BY DEF ForegroundOK, foreground

\* The steps of the agent, the CLI and the clock keep the type invariant.
LEMMA OutsideType ==
  ASSUME TypeOK, Outside
  PROVE  TypeOK'
<1> USE DEF TypeOK, AttemptOK, store, attempt, process, agents, foreground
<1>1. ASSUME NEW t \in Tasks, NEW s \in TaskStates, RemoteMoves(t, s)
      PROVE  TypeOK'
  <2>1. ForegroundOK'
    BY <1>1 DEF RemoteMoves, ForegroundOK
  <2> QED
    BY <1>1, <2>1 DEF RemoteMoves, Streams
<1>2. ASSUME NEW t \in Tasks, RefreshTask(t)
      PROVE  TypeOK'
  BY <1>2, KeepsForeground
     DEF RefreshTask
<1>3. ASSUME NEW t \in Tasks, BackoffOver(t)
      PROVE  TypeOK'
  BY <1>3, KeepsForeground
     DEF BackoffOver, RowStates
<1>4. ASSUME NEW a \in Agents, NEW c \in Cards, NEW n \in BOOLEAN,
             CacheCard(a, c, n)
      PROVE  TypeOK'
  BY <1>4, KeepsForeground
     DEF CacheCard
<1>5. ASSUME NEW t \in Tasks, FirstGuess(t)
      PROVE  TypeOK'
  BY <1>5, KeepsForeground
     DEF FirstGuess, TaskStates
<1>6. ASSUME NEW t \in Tasks, FollowUp(t)
      PROVE  TypeOK'
  <2>1. ForegroundOK'
    BY <1>6 DEF FollowUp, LockFree, ForegroundOK
  <2> QED
    BY <1>6, <2>1 DEF FollowUp, TaskStates
<1>7. ASSUME NEW t \in Tasks, FollowUpOpens(t)
      PROVE  TypeOK'
  <2>1. ForegroundOK'
    BY <1>7 DEF FollowUpOpens, ForegroundOK
  <2> QED
    BY <1>7, <2>1 DEF FollowUpOpens
<1>8. ASSUME NEW t \in Tasks, FollowUpEvent(t)
      PROVE  TypeOK'
  <2>1. ForegroundOK' /\ Head(feed) \in TaskStates
    BY <1>8 DEF FollowUpEvent, ForegroundOK
  <2> QED
    BY <1>8, <2>1 DEF FollowUpEvent
<1>9. CASE FollowUpEnds
  <2>1. ForegroundOK'
    <3>1. cli' = {} /\ open' \in BOOLEAN /\ ~open' /\ feed' = <<>> /\ followUps' = followUps
      BY <1>9 DEF FollowUpEnds
    <3> QED
      BY <3>1 DEF ForegroundOK
  <2> QED
    BY <1>9, <2>1 DEF FollowUpEnds
<1> QED
  BY <1>1, <1>2, <1>3, <1>4, <1>5, <1>6, <1>7, <1>8, <1>9 DEF Outside

\* The life cycle of a gateway process keeps the type invariant.
LEMMA DaemonType ==
  ASSUME TypeOK, NEW g \in Gateways, Daemon(g)
  PROVE  TypeOK'
<1> USE DEF TypeOK, AttemptOK, Managers, store, attempt, process, agents, foreground
<1>1. CASE GatewayStart(g)
  BY <1>1, KeepsForeground
     DEF GatewayStart
<1>2. CASE RequestShutdown(g)
  BY <1>2, KeepsForeground
     DEF RequestShutdown
<1>3. CASE DropGatewayLock(g)
  BY <1>3, KeepsForeground
     DEF DropGatewayLock
<1>4. CASE GatewayExit(g)
  BY <1>4, KeepsForeground
     DEF GatewayExit
<1>5. CASE GatewayCrash(g)
  BY <1>5, KeepsForeground
     DEF GatewayCrash, KillProcess, ForgetBatch
<1> QED
  BY <1>1, <1>2, <1>3, <1>4, <1>5 DEF Daemon

\* So do the reads and writes of the gateway's jobs.
LEMMA JobManagerType ==
  ASSUME TypeOK, NEW g \in Gateways, JobManager(g)
  PROVE  TypeOK'
<1> USE DEF TypeOK, AttemptOK, Managers, store, attempt, process, agents, foreground
<1>1. ASSUME NEW t \in Tasks, JobReadsTask(g, t)
      PROVE  TypeOK'
  <2>1. [id |-> t, state |-> remote[t]] \in Answers
    BY DEF Answers
  <2> QED
    BY <1>1, <2>1, KeepsForeground DEF JobReadsTask
<1>2. CASE JobPersistsTask(g)
  <2>1. Head(polled[g]) \in Answers
    BY <1>2 DEF JobPersistsTask
  <2>2. Head(polled[g]).id \in Tasks /\ Head(polled[g]).state \in TaskStates
    BY <2>1 DEF Answers
  <2> QED
    BY <1>2, <2>2, KeepsForeground DEF JobPersistsTask
<1>3. CASE JobDropsTask(g)
  BY <1>3, KeepsForeground
     DEF JobDropsTask
<1> QED
  BY <1>1, <1>2, <1>3 DEF JobManager

\* So does the subscription manager.
LEMMA ManagerType ==
  ASSUME TypeOK, NEW g \in Gateways, Manager(g)
  PROVE  TypeOK'
<1> USE DEF TypeOK, AttemptOK, Managers, store, attempt, process, agents, foreground
<1>1. CASE NextScan(g)
  BY <1>1, KeepsForeground
     DEF NextScan
<1>2. CASE Scan(g) \/ ScanFails(g)
  <2>1. Claimed \subseteq Tasks
    BY DEF Claimed, InFlight
  <2>2. /\ sub' \in [Tasks -> RowStates]
        /\ event' \in [Tasks -> {"none", "started", "retrying", "cleaned"}]
    BY <1>2, KeepsForeground
     DEF Scan, ScanFails, CleanAndClaim, RowStates
  <2>3. CASE Scan(g)
    BY <2>1, <2>2, <2>3, KeepsForeground
     DEF Scan
  <2>4. CASE ScanFails(g)
    BY <2>1, <2>2, <2>4, KeepsForeground
     DEF ScanFails
  <2> QED
    BY <1>2, <2>3, <2>4
<1>3. ASSUME NEW S \in SUBSET Tasks, NEW t \in Tasks, NEW half \in BOOLEAN,
             CrashInCleanup(g, S, t, half)
      PROVE  TypeOK'
  BY <1>3, KeepsForeground
     DEF CrashInCleanup, KillProcess, ForgetBatch, RowStates
<1>4. ASSUME NEW S \in SUBSET Tasks, NEW t \in Tasks, NEW left \in RowStates,
             CrashInClaims(g, S, t, left)
      PROVE  TypeOK'
  BY <1>4, KeepsForeground
     DEF CrashInClaims, KillProcess, ForgetBatch, RowStates
<1>5. CASE StopManager(g)
  BY <1>5, KeepsForeground
     DEF StopManager, ForgetBatch
<1>6. CASE NextCandidate(g)
  BY <1>6, KeepsForeground
     DEF NextCandidate
<1>7. ASSUME NEW t \in Tasks, Connect(g, t)
      PROVE  TypeOK'
  BY <1>7, KeepsForeground
     DEF Connect, Current
<1>8. ASSUME NEW t \in Tasks, StreamEnds(g, t)
      PROVE  TypeOK'
  BY <1>8, KeepsForeground
     DEF StreamEnds
<1>9. ASSUME NEW t \in Tasks, PersistEvent(g, t)
      PROVE  TypeOK'
  BY <1>9, KeepsForeground
     DEF PersistEvent, Streams
<1>10. ASSUME NEW t \in Tasks, Finish(g, t)
       PROVE  TypeOK'
  <2>1. /\ sub' \in [Tasks -> RowStates]
        /\ event' \in [Tasks -> {"none", "started", "retrying", "cleaned"}]
    <3>1. CASE FinishGone(g, t)
      BY <3>1 DEF FinishGone
    <3>2. CASE FinishCleaned(g, t)
      BY <3>2 DEF FinishCleaned, RowStates
    <3>3. CASE FinishRetrying(g, t)
      BY <3>3 DEF FinishRetrying, RowStates
    <3> QED
      BY <1>10, <3>1, <3>2, <3>3 DEF Finish
  <2>2. FinishCommon(g, t)
    BY <1>10, KeepsForeground
     DEF Finish, FinishGone, FinishCleaned, FinishRetrying
  <2> QED
    BY <2>1, <2>2, KeepsForeground DEF FinishCommon
<1>11. ASSUME NEW t \in Tasks, CrashInFinish(g, t)
       PROVE  TypeOK'
  <2>1. /\ sub' \in [Tasks -> RowStates]
        /\ event' \in [Tasks -> {"none", "started", "retrying", "cleaned"}]
    <3>1. CASE sub' = sub /\ event' = [event EXCEPT ![t] = "cleaned"]
      BY <3>1
    <3>2. CASE event' = event /\ sub' = [sub EXCEPT ![t] = "later"]
      BY <3>2 DEF RowStates
    <3> QED
      BY <1>11, <3>1, <3>2 DEF CrashInFinish
  <2> QED
    BY <1>11, <2>1, KeepsForeground DEF CrashInFinish, KillProcess, ForgetBatch
<1> QED
  BY <1>1, <1>2, <1>3, <1>4, <1>5, <1>6, <1>7, <1>8, <1>9, <1>10, <1>11
     DEF Manager, ScanCrash

\* Every step keeps the type invariant.
LEMMA TypeStep == TypeOK /\ [Next]_vars => TypeOK'
<1> SUFFICES ASSUME TypeOK, [Next]_vars PROVE TypeOK'
  OBVIOUS
<1>1. CASE UNCHANGED vars
  BY <1>1, KeepsForeground DEF vars, foreground, TypeOK, AttemptOK
<1> QED
  BY <1>1, OutsideType, DaemonType, JobManagerType, ManagerType DEF Next

\* Every reachable state is well typed and every attempt of a subscription
\* manager is well formed, however processes start, stop and crash.
THEOREM TypeCorrect == Spec => []TypeOK
  BY TypeInit, TypeStep, PTL DEF Spec
----------------------------------------------------------------------------
(* No outcome is invented.  OutcomeIsReal is not inductive: what is on its *)
(* way to the store has to be real as well, that is the answers the jobs   *)
(* have read, the events on the open streams and terminal_seen.            *)

PollSound ==
  \A g \in Gateways : \A i \in 1 .. Len(polled[g]) :
    IsTerminal(polled[g][i].state) => IsTerminal(remote[polled[g][i].id])
CliSound ==
  \A t \in cli : \A i \in 1 .. Len(feed) :
    IsTerminal(feed[i]) => IsTerminal(remote[t])
StreamSound ==
  \A g \in Gateways, t \in Tasks :
    Streams(g, t) => \A i \in 1 .. Len(wire[g]) :
                       IsTerminal(wire[g][i]) => IsTerminal(remote[t])
SeenSound ==
  \A g \in Gateways, t \in Tasks :
    seen[g] /\ Current(g, t) => IsTerminal(remote[t])
MirrorInv == OutcomeIsReal /\ PollSound /\ CliSound /\ StreamSound /\ SeenSound

\* A gateway brings no new state of a task on its way.
Quiet(g) ==
  /\ polled'[g] \in {polled[g], <<>>}
  /\ \/ /\ seen'[g] => seen[g]
        /\ batch'[g] = batch[g]
        /\ mgr'[g] = "stream" => mgr[g] = "stream" /\ wire'[g] = wire[g]
     \/ ~seen'[g] /\ mgr'[g] # "stream"

\* Steps that leave the tasks alone and keep every gateway quiet.
LEMMA QuietStep ==
  ASSUME TypeOK, MirrorInv, remote' = remote, task' = task,
         UNCHANGED <<cli, feed>> \/ cli' = {}, \A g \in Gateways : Quiet(g)
  PROVE  MirrorInv'
<1> USE DEF MirrorInv, Quiet
<1>1. OutcomeIsReal'
  BY DEF OutcomeIsReal, IsTerminal
<1>2. PollSound'
  BY DEF PollSound, IsTerminal
<1>3. StreamSound'
  BY DEF StreamSound, Streams, Current, IsTerminal
<1>4. SeenSound'
  BY DEF SeenSound, Current, IsTerminal
<1>5. CliSound'
  <2>1. CASE UNCHANGED <<cli, feed>>
    BY <2>1 DEF CliSound, IsTerminal
  <2>2. CASE cli' = {}
    BY <2>2 DEF CliSound
  <2> QED
    BY <2>1, <2>2
<1> QED
  BY <1>1, <1>2, <1>3, <1>4, <1>5

\* The manager works on one candidate at a time.
LEMMA CurrentUnique ==
  ASSUME TypeOK, NEW g \in Gateways, NEW t \in Tasks, NEW u \in Tasks,
         Current(g, t), Current(g, u)
  PROVE  t = u
  BY TasksAssumption DEF Current

\* The agent's own steps: a terminal state is announced where it is reached.
LEMMA RemoteMovesMirror ==
  ASSUME TypeOK, MirrorInv, NEW t \in Tasks, NEW s \in TaskStates,
         RemoteMoves(t, s)
  PROVE  MirrorInv'
<1> USE DEF MirrorInv, RemoteMoves, store, IsTerminal
<1>0. /\ remote \in [Tasks -> TaskStates]
      /\ polled \in [Gateways -> Seq(Answers)]
      /\ cli \subseteq Tasks /\ \A u, v \in cli : u = v
      /\ feed \in Seq(TaskStates)
      /\ wire \in [Gateways -> Seq(TaskStates)]
  BY DEF TypeOK, ForegroundOK
<1>1. OutcomeIsReal'
  BY <1>0 DEF OutcomeIsReal
<1>2. PollSound'
  BY <1>0 DEF PollSound
<1>3. StreamSound'
  <2> SUFFICES ASSUME NEW g \in Gateways, NEW u \in Tasks, Streams(g, u),
                      NEW i \in 1 .. Len(wire'[g]), wire'[g][i] = "completed"
               PROVE  remote'[u] = "completed"
    BY DEF StreamSound, Streams, Current
  <2>1. CASE u = t
    <3>1. wire'[g] = Append(wire[g], s)
      BY <2>1
    <3>2. \A k \in 1 .. Len(wire[g]) : wire[g][k] # "completed"
      BY <2>1, <1>0 DEF StreamSound
    <3>3. i = Len(wire[g]) + 1
      BY <3>1, <3>2, <1>0
    <3> QED
      BY <3>1, <3>3, <2>1, <1>0
  <2>2. CASE u # t
    <3>1. ~Streams(g, t)
      BY <2>2, CurrentUnique DEF Streams
    <3>2. wire'[g] = wire[g] /\ remote'[u] = remote[u]
      BY <3>1, <2>2, <1>0
    <3> QED
      BY <3>2 DEF StreamSound
  <2> QED
    BY <2>1, <2>2
<1>4. SeenSound'
  BY <1>0 DEF SeenSound, Current
<1>5. CliSound'
  <2> SUFFICES ASSUME NEW u \in cli, NEW i \in 1 .. Len(feed'),
                      feed'[i] = "completed"
               PROVE  remote'[u] = "completed"
    BY <1>0 DEF CliSound
  <2>1. CASE feed' = feed
    BY <2>1, <1>0 DEF CliSound
  <2>2. CASE open /\ t \in cli
    <3>1. feed' = Append(feed, s)
      BY <2>2, <1>0
    <3>2. CASE i \in 1 .. Len(feed)
      BY <3>1, <3>2, <1>0 DEF CliSound
    <3>3. CASE i = Len(feed) + 1
      <4>1. s = "completed"
        BY <3>1, <3>3, <1>0
      <4>2. u = t
        BY <2>2, <1>0
      <4> QED
        BY <4>1, <4>2, <1>0
    <3> QED
      BY <3>1, <3>2, <3>3, <1>0
  <2> QED
    BY <2>1, <2>2
<1> QED
  BY <1>1, <1>2, <1>3, <1>4, <1>5

\* Where the gateways and the agent stand still, the row and the foreground
\* stream decide.
LEMMA OnlyCliWritten ==
  ASSUME TypeOK, MirrorInv, OutcomeIsReal', CliSound',
         remote' = remote, polled' = polled, mgr' = mgr, batch' = batch,
         wire' = wire, seen' = seen
  PROVE  MirrorInv'
<1>1. PollSound'
  BY DEF MirrorInv, PollSound, IsTerminal
<1>2. StreamSound'
  BY DEF MirrorInv, StreamSound, Streams, Current, IsTerminal
<1>3. SeenSound'
  BY DEF MirrorInv, SeenSound, Current, IsTerminal
<1> QED
  BY <1>1, <1>2, <1>3 DEF MirrorInv

\* Where only a row is written, it decides.
LEMMA OnlyTaskWritten ==
  ASSUME TypeOK, MirrorInv, OutcomeIsReal', UNCHANGED <<cli, feed>>,
         remote' = remote, polled' = polled, mgr' = mgr, batch' = batch,
         wire' = wire, seen' = seen
  PROVE  MirrorInv'
<1>1. CliSound'
  BY DEF MirrorInv, CliSound, IsTerminal
<1> QED
  BY <1>1, OnlyCliWritten

\* What is left of a queue was in it.
LEMMA TailFrom ==
  ASSUME NEW S, NEW q \in Seq(S), q # <<>>, NEW i \in 1 .. Len(Tail(q))
  PROVE  i + 1 \in 1 .. Len(q) /\ Tail(q)[i] = q[i + 1]
<1>1. Len(Tail(q)) = Len(q) - 1 /\ Len(q) \in Nat
  OBVIOUS
<1>2. \A k \in 1 .. Len(Tail(q)) : Tail(q)[k] = q[k + 1]
  OBVIOUS
<1> QED
  BY <1>1, <1>2

\* The other steps outside the gateways.
LEMMA OutsideMirror ==
  ASSUME TypeOK, MirrorInv, Outside
  PROVE  MirrorInv'
<1> USE DEF agents, process, store, foreground
<1>1. ASSUME NEW t \in Tasks, RefreshTask(t) \/ FirstGuess(t)
      PROVE  MirrorInv'
  <2>1. OutcomeIsReal'
    BY <1>1 DEF RefreshTask, FirstGuess, TypeOK, MirrorInv, OutcomeIsReal,
                IsTerminal
  <2>2. /\ remote' = remote /\ polled' = polled /\ UNCHANGED <<cli, feed>> /\ mgr' = mgr
        /\ batch' = batch /\ wire' = wire /\ seen' = seen
    BY <1>1 DEF RefreshTask, FirstGuess
  <2> QED
    BY <2>1, <2>2, OnlyTaskWritten
<1>2. ASSUME NEW t \in Tasks, BackoffOver(t)
      PROVE  MirrorInv'
  BY <1>2, QuietStep DEF BackoffOver, Quiet
<1>3. ASSUME NEW a \in Agents, NEW c \in Cards, NEW n \in BOOLEAN,
             CacheCard(a, c, n)
      PROVE  MirrorInv'
  BY <1>3, QuietStep DEF CacheCard, Quiet
<1>4. ASSUME NEW t \in Tasks, FollowUp(t)
      PROVE  MirrorInv'
  <2>1. OutcomeIsReal'
    BY <1>4 DEF FollowUp, TypeOK, MirrorInv, OutcomeIsReal, IsTerminal
  <2>2. CliSound'
    BY <1>4 DEF FollowUp, LockFree, TypeOK, ForegroundOK, CliSound
  <2> QED
    BY <1>4, <2>1, <2>2, OnlyCliWritten DEF FollowUp
<1>5. ASSUME NEW t \in Tasks, FollowUpOpens(t)
      PROVE  MirrorInv'
  <2>1. OutcomeIsReal'
    BY <1>5 DEF FollowUpOpens, MirrorInv, OutcomeIsReal, IsTerminal
  <2>2. CliSound'
    <3>1. cli' = {t} /\ feed' = <<remote[t]>>
      BY <1>5 DEF FollowUpOpens, TypeOK, ForegroundOK
    <3> QED
      BY <3>1, <1>5 DEF FollowUpOpens, CliSound, IsTerminal
  <2> QED
    BY <1>5, <2>1, <2>2, OnlyCliWritten DEF FollowUpOpens
<1>6. ASSUME NEW t \in Tasks, FollowUpEvent(t)
      PROVE  MirrorInv'
  <2>0. /\ feed \in Seq(TaskStates) /\ feed # <<>>
        /\ cli' = cli /\ feed' = Tail(feed)
    BY <1>6 DEF FollowUpEvent, TypeOK, ForegroundOK
  <2>1. IsTerminal(Head(feed)) => IsTerminal(remote[t])
    BY <2>0, <1>6 DEF FollowUpEvent, MirrorInv, CliSound
  <2>2. OutcomeIsReal'
    BY <1>6, <2>1 DEF FollowUpEvent, TypeOK, MirrorInv, OutcomeIsReal,
                      IsTerminal
  <2>3. CliSound'
    BY <1>6, <2>0, TailFrom DEF FollowUpEvent, MirrorInv, CliSound, IsTerminal
  <2> QED
    BY <1>6, <2>2, <2>3, OnlyCliWritten DEF FollowUpEvent
<1>7. CASE FollowUpEnds
  BY <1>7, QuietStep DEF FollowUpEnds, Quiet
<1> QED
  BY <1>1, <1>2, <1>3, <1>4, <1>5, <1>6, <1>7, RemoteMovesMirror DEF Outside

\* The life cycle of the processes forgets and invents nothing.
LEMMA DaemonMirror ==
  ASSUME TypeOK, MirrorInv, NEW g \in Gateways, Daemon(g)
  PROVE  MirrorInv'
<1> USE DEF TypeOK, AttemptOK, Quiet, store, attempt, agents, foreground
<1>1. CASE GatewayStart(g)
  BY <1>1, QuietStep DEF GatewayStart
<1>2. CASE RequestShutdown(g)
  BY <1>2, QuietStep DEF RequestShutdown
<1>3. CASE DropGatewayLock(g)
  BY <1>3, QuietStep DEF DropGatewayLock
<1>4. CASE GatewayExit(g)
  BY <1>4, QuietStep DEF GatewayExit
<1>5. CASE GatewayCrash(g)
  BY <1>5, QuietStep DEF GatewayCrash, KillProcess, ForgetBatch
<1> QED
  BY <1>1, <1>2, <1>3, <1>4, <1>5 DEF Daemon

\* The answers of the jobs are real when they are read and stay so.
LEMMA JobManagerMirror ==
  ASSUME TypeOK, MirrorInv, NEW g \in Gateways, JobManager(g)
  PROVE  MirrorInv'
<1> USE DEF agents, process, store, foreground
<1>0. /\ polled \in [Gateways -> Seq(Answers)]
      /\ remote \in [Tasks -> TaskStates]
  BY DEF TypeOK
<1>1. ASSUME OutcomeIsReal', PollSound', remote' = remote,
             UNCHANGED <<cli, feed, process>>
      PROVE  MirrorInv'
  <2>1. CliSound'
    BY <1>1 DEF MirrorInv, CliSound, IsTerminal
  <2>2. StreamSound'
    BY <1>1 DEF MirrorInv, StreamSound, Streams, Current, IsTerminal
  <2>3. SeenSound'
    BY <1>1 DEF MirrorInv, SeenSound, Current, IsTerminal
  <2> QED
    BY <1>1, <2>1, <2>2, <2>3 DEF MirrorInv
<1>2. ASSUME NEW t \in Tasks, JobReadsTask(g, t)
      PROVE  MirrorInv'
  <2>1. OutcomeIsReal'
    BY <1>2 DEF JobReadsTask, MirrorInv, OutcomeIsReal, IsTerminal
  <2>2. PollSound'
    <3> SUFFICES ASSUME NEW h \in Gateways, NEW i \in 1 .. Len(polled'[h]),
                        polled'[h][i].state = "completed"
                 PROVE  remote[polled'[h][i].id] = "completed"
      BY <1>2 DEF JobReadsTask, PollSound, IsTerminal
    <3>1. CASE h # g
      BY <3>1, <1>0, <1>2 DEF JobReadsTask, MirrorInv, PollSound, IsTerminal
    <3>2. CASE h = g
      <4> DEFINE new == [id |-> t, state |-> remote[t]]
      <4>1. polled'[g] = Append(polled[g], new)
        BY <1>0, <1>2 DEF JobReadsTask
      <4>2. polled[g] \in Seq(Answers)
        BY <1>0
      <4>3. CASE i \in 1 .. Len(polled[g])
        <5>1. polled'[g][i] = polled[g][i]
          BY <4>1, <4>2, <4>3
        <5> QED
          BY <5>1, <4>3, <3>2 DEF MirrorInv, PollSound, IsTerminal
      <4>4. CASE i = Len(polled[g]) + 1
        <5>1. polled'[g][i] = new
          BY <4>1, <4>2, <4>4
        <5> QED
          BY <5>1, <3>2
      <4>5. i \in 1 .. (Len(polled[g]) + 1) /\ Len(polled[g]) \in Nat
        BY <4>1, <4>2, <3>2
      <4> QED
        BY <4>3, <4>4, <4>5
    <3> QED
      BY <3>1, <3>2
  <2> QED
    BY <1>1, <1>2, <2>1, <2>2 DEF JobReadsTask
<1>3. CASE JobPersistsTask(g)
  <2>0. polled[g] \in Seq(Answers) /\ polled[g] # <<>>
    BY <1>0, <1>3 DEF JobPersistsTask
  <2>1. /\ Head(polled[g]) = polled[g][1] /\ 1 \in 1 .. Len(polled[g])
        /\ Head(polled[g]) \in Answers
    BY <2>0
  <2>2. OutcomeIsReal'
    BY <1>3, <2>1 DEF Answers, JobPersistsTask, TypeOK, MirrorInv, OutcomeIsReal,
                      PollSound, IsTerminal
  <2>3. PollSound'
    <3> SUFFICES ASSUME NEW h \in Gateways, NEW i \in 1 .. Len(polled'[h]),
                        polled'[h][i].state = "completed"
                 PROVE  remote[polled'[h][i].id] = "completed"
      BY <1>3 DEF JobPersistsTask, PollSound, IsTerminal
    <3>1. CASE h # g
      BY <3>1, <1>0, <1>3 DEF JobPersistsTask, MirrorInv, PollSound, IsTerminal
    <3>2. CASE h = g
      <4>1. polled'[g] = Tail(polled[g])
        BY <1>0, <1>3 DEF JobPersistsTask
      <4>2. i + 1 \in 1 .. Len(polled[g]) /\ polled'[g][i] = polled[g][i + 1]
        BY <4>1, <3>2, <2>0, TailFrom
      <4> QED
        BY <4>2, <3>2 DEF MirrorInv, PollSound, IsTerminal
    <3> QED
      BY <3>1, <3>2
  <2> QED
    BY <1>1, <1>3, <2>2, <2>3 DEF JobPersistsTask
<1>4. CASE JobDropsTask(g)
  BY <1>4, QuietStep DEF TypeOK, JobDropsTask, Quiet
<1> QED
  BY <1>2, <1>3, <1>4 DEF JobManager

\* What a stream shows is what the agent said.
LEMMA ManagerMirror ==
  ASSUME TypeOK, MirrorInv, NEW g \in Gateways, Manager(g)
  PROVE  MirrorInv'
<1> USE DEF store, attempt, process, agents, foreground
<1>1. CASE NextScan(g) \/ NextCandidate(g)
  BY <1>1, QuietStep DEF TypeOK, Quiet, NextScan, NextCandidate
<1>2. CASE Scan(g)
  BY <1>2, QuietStep DEF TypeOK, AttemptOK, Quiet, Scan
<1>3. CASE ScanFails(g)
  BY <1>3, QuietStep DEF TypeOK, AttemptOK, Quiet, ScanFails
<1>4. CASE ScanCrash(g) \/ \E t \in Tasks : CrashInFinish(g, t)
  <2>1. KillProcess(g) /\ UNCHANGED <<remote, task, cli, feed>>
    BY <1>4 DEF ScanCrash, CrashInCleanup, CrashInClaims, CrashInFinish
  <2> QED
    BY <2>1, QuietStep DEF TypeOK, Quiet, KillProcess, ForgetBatch
<1>5. CASE StopManager(g)
  BY <1>5, QuietStep DEF TypeOK, Quiet, StopManager, ForgetBatch
<1>6. ASSUME NEW t \in Tasks, StreamEnds(g, t)
      PROVE  MirrorInv'
  BY <1>6, QuietStep DEF TypeOK, Quiet, StreamEnds
<1>7. ASSUME NEW t \in Tasks, Finish(g, t)
      PROVE  MirrorInv'
  <2>1. FinishCommon(g, t)
    BY <1>7 DEF Finish, FinishGone, FinishCleaned, FinishRetrying
  <2> QED
    BY <2>1, QuietStep DEF TypeOK, Quiet, FinishCommon
<1>8. ASSUME NEW t \in Tasks, Connect(g, t)
      PROVE  MirrorInv'
  <2> USE <1>8 DEF Connect
  <2>1. OutcomeIsReal' /\ PollSound' /\ CliSound'
    BY DEF MirrorInv, OutcomeIsReal, PollSound, CliSound, IsTerminal
  <2>2. StreamSound'
    <3> SUFFICES ASSUME NEW h \in Gateways, NEW u \in Tasks,
                        Streams(h, u)', NEW i \in 1 .. Len(wire'[h]),
                        wire'[h][i] = "completed"
                 PROVE  remote'[u] = "completed"
      BY DEF StreamSound, IsTerminal
    <3>1. CASE h = g
      <4>1. u = t
        BY <3>1, CurrentUnique DEF Streams, Current
      <4>2. wire'[h] = <<remote[t]>>
        BY <3>1 DEF TypeOK
      <4> QED
        BY <4>1, <4>2
    <3>2. CASE h # g
      BY <3>2 DEF TypeOK, MirrorInv, StreamSound, Streams, Current, IsTerminal
    <3> QED
      BY <3>1, <3>2
  <2>3. SeenSound'
    BY DEF MirrorInv, SeenSound, Current, IsTerminal
  <2> QED
    BY <2>1, <2>2, <2>3 DEF MirrorInv
<1>9. ASSUME NEW t \in Tasks, PersistEvent(g, t)
      PROVE  MirrorInv'
  <2> USE <1>9 DEF PersistEvent
  <2>0. wire[g] \in Seq(TaskStates) /\ wire[g] # <<>>
    BY DEF TypeOK
  <2>1. IsTerminal(Head(wire[g])) => IsTerminal(remote[t])
    BY <2>0 DEF MirrorInv, StreamSound
  <2>2. OutcomeIsReal' /\ PollSound' /\ CliSound'
    BY <2>1 DEF TypeOK, MirrorInv, OutcomeIsReal, PollSound, CliSound, IsTerminal
  <2>3. StreamSound'
    <3> SUFFICES ASSUME NEW h \in Gateways, NEW u \in Tasks,
                        Streams(h, u), NEW i \in 1 .. Len(wire'[h]),
                        wire'[h][i] = "completed"
                 PROVE  remote[u] = "completed"
      BY DEF StreamSound, Streams, Current, IsTerminal
    <3>1. CASE h = g
      <4>1. wire'[h] = Tail(wire[g])
        BY <3>1 DEF TypeOK
      <4>2. i + 1 \in 1 .. Len(wire[g]) /\ wire[g][i + 1] = wire'[h][i]
        BY <4>1, <2>0, TailFrom
      <4> QED
        BY <4>2, <3>1 DEF MirrorInv, StreamSound, IsTerminal
    <3>2. CASE h # g
      BY <3>2 DEF TypeOK, MirrorInv, StreamSound, IsTerminal
    <3> QED
      BY <3>1, <3>2
  <2>4. SeenSound'
    <3> SUFFICES ASSUME NEW h \in Gateways, NEW u \in Tasks,
                        seen'[h], Current(h, u)
                 PROVE  IsTerminal(remote[u])
      BY DEF SeenSound, Current, IsTerminal
    <3>1. CASE h = g
      <4>1. u = t
        BY <3>1, CurrentUnique DEF Streams
      <4>2. seen[g] \/ IsTerminal(Head(wire[g]))
        BY <3>1 DEF TypeOK
      <4> QED
        BY <4>1, <4>2, <2>1, <3>1 DEF MirrorInv, SeenSound
    <3>2. CASE h # g
      BY <3>2 DEF TypeOK, MirrorInv, SeenSound
    <3> QED
      BY <3>1, <3>2
  <2> QED
    BY <2>2, <2>3, <2>4 DEF MirrorInv
<1> QED
  BY <1>1, <1>2, <1>3, <1>4, <1>5, <1>6, <1>7, <1>8, <1>9 DEF Manager

\* A step that changes nothing keeps the invariant.
LEMMA StutterMirror ==
  ASSUME TypeOK, MirrorInv, UNCHANGED vars
  PROVE  MirrorInv'
  BY QuietStep DEF Quiet, vars

\* Whatever reaches the store or is on its way there was true of the agent.
THEOREM Mirror == Spec => []MirrorInv
<1>1. Init => MirrorInv
  BY DEF Init, MirrorInv, OutcomeIsReal, PollSound, CliSound,
         StreamSound, SeenSound, IsTerminal
<1>2. TypeOK /\ MirrorInv /\ [Next]_vars => MirrorInv'
  BY OutsideMirror, DaemonMirror, JobManagerMirror, ManagerMirror,
     StutterMirror DEF Next
<1> QED
  BY <1>1, <1>2, TypeCorrect, PTL DEF Spec

\* A task is terminal in the store only when it is terminal at the agent: no
\* interleaving of streams, jobs and commands invents an outcome.
THEOREM Outcome == Spec => []OutcomeIsReal
<1>1. MirrorInv => OutcomeIsReal
  BY DEF MirrorInv
<1> QED
  BY <1>1, Mirror, PTL
----------------------------------------------------------------------------
(* The subscription rows and their journal.                                *)

\* A scan or a crash in it gives a row up only with its event, and only when
\* its task is no longer in flight.
LEMMA ScanRows ==
  ASSUME TypeOK, NEW g \in Gateways, Scan(g) \/ ScanFails(g) \/ ScanCrash(g),
         NEW t \in Tasks
  PROVE  /\ sub'[t] = "absent" => \/ event'[t] = "cleaned"
                                  \/ sub[t] = "absent" /\ event'[t] = event[t]
         /\ sub[t] # "absent" /\ IsMonitorable(task[t]) => sub'[t] # "absent"
<1>1. CASE Scan(g) \/ ScanFails(g)
  BY <1>1 DEF Scan, ScanFails, CleanAndClaim, Stale, TypeOK
<1>2. ASSUME NEW S \in SUBSET Tasks, NEW u \in Tasks, NEW half \in BOOLEAN,
             CrashInCleanup(g, S, u, half)
      PROVE  /\ sub'[t] = "absent" => \/ event'[t] = "cleaned"
                                      \/ /\ sub[t] = "absent"
                                         /\ event'[t] = event[t]
             /\ sub[t] # "absent" /\ IsMonitorable(task[t])
                  => sub'[t] # "absent"
  BY <1>2 DEF CrashInCleanup, IsPrefix, Stale, TypeOK
<1>3. ASSUME NEW S \in SUBSET Tasks, NEW u \in Tasks, NEW left \in RowStates,
             CrashInClaims(g, S, u, left)
      PROVE  /\ sub'[t] = "absent" => \/ event'[t] = "cleaned"
                                      \/ /\ sub[t] = "absent"
                                         /\ event'[t] = event[t]
             /\ sub[t] # "absent" /\ IsMonitorable(task[t])
                  => sub'[t] # "absent"
  BY <1>3 DEF CrashInClaims, IsPrefix, Stale, TypeOK
<1> QED
  BY <1>1, <1>2, <1>3 DEF ScanCrash

\* The end of an attempt, a crash in it included, gives up its own row at most,
\* with its event, and only when the attempt found the task to be over.
LEMMA FinishRows ==
  ASSUME TypeOK, NEW g \in Gateways, NEW u \in Tasks,
         Finish(g, u) \/ CrashInFinish(g, u),
         NEW t \in Tasks
  PROVE  /\ sub'[t] = "absent" => \/ event'[t] = "cleaned"
                                  \/ sub[t] = "absent" /\ event'[t] = event[t]
         /\ sub[t] # "absent" /\ sub'[t] = "absent"
              => Current(g, t) /\ IsOver(g, t)
<1>1. CASE FinishGone(g, u)
  BY <1>1 DEF FinishGone
<1>2. CASE FinishCleaned(g, u)
  BY <1>2 DEF FinishCleaned, FinishCommon, TypeOK
<1>3. CASE FinishRetrying(g, u)
  BY <1>3 DEF FinishRetrying, TypeOK
<1>4. CASE CrashInFinish(g, u)
  <2>1. CASE sub' = sub /\ event' = [event EXCEPT ![u] = "cleaned"]
    BY <2>1 DEF TypeOK
  <2>2. CASE event' = event /\ sub' = [sub EXCEPT ![u] = "later"]
    BY <2>2 DEF TypeOK
  <2> QED
    BY <1>4, <2>1, <2>2 DEF CrashInFinish
<1> QED
  BY <1>1, <1>2, <1>3, <1>4 DEF Finish

\* The steps that write subscription rows.
RowStep ==
  \/ \E t \in Tasks : BackoffOver(t)
  \/ \E g \in Gateways :
       \/ Scan(g) \/ ScanFails(g) \/ ScanCrash(g)
       \/ \E t \in Tasks : Finish(g, t) \/ CrashInFinish(g, t)

\* No other step does.
LEMMA OtherSteps ==
  ASSUME [Next]_vars, ~RowStep
  PROVE  sub' = sub /\ event' = event
<1> USE DEF store, RowStep
<1>1. CASE Outside
  BY <1>1 DEF Outside, RemoteMoves, RefreshTask, CacheCard, FirstGuess,
     FollowUp, FollowUpOpens, FollowUpEvent, FollowUpEnds
<1>2. ASSUME NEW g \in Gateways, Daemon(g) \/ JobManager(g)
      PROVE  sub' = sub /\ event' = event
  BY <1>2 DEF Daemon, JobManager, GatewayStart, RequestShutdown,
     DropGatewayLock, GatewayExit, GatewayCrash, JobReadsTask,
     JobPersistsTask, JobDropsTask
<1>3. ASSUME NEW g \in Gateways, Manager(g)
      PROVE  sub' = sub /\ event' = event
  BY <1>3 DEF Manager, NextScan, StopManager, NextCandidate, Connect,
     StreamEnds, PersistEvent
<1>4. CASE UNCHANGED vars
  BY <1>4 DEF vars
<1> QED
  BY <1>1, <1>2, <1>3, <1>4 DEF Next

\* A row goes away with a journal entry, in every step.
LEMMA RowsJournalled ==
  ASSUME TypeOK, [Next]_vars, NEW t \in Tasks, sub'[t] = "absent"
  PROVE  event'[t] = "cleaned" \/ (sub[t] = "absent" /\ event'[t] = event[t])
<1>1. CASE ~RowStep
  BY <1>1, OtherSteps
<1>2. ASSUME NEW u \in Tasks, BackoffOver(u)
      PROVE  sub[t] = "absent" /\ event'[t] = event[t]
  BY <1>2 DEF BackoffOver, TypeOK
<1> QED
  BY <1>1, <1>2, ScanRows, FinishRows DEF RowStep

\* A missing subscription row was never there, or its removal is the last
\* thing the journal says of it: also after a crash between the two writes.
THEOREM Removal == Spec => []RemovalIsJournalled
<1>1. Init => RemovalIsJournalled
  BY DEF Init, RemovalIsJournalled
<1>2. TypeOK /\ RemovalIsJournalled /\ [Next]_vars => RemovalIsJournalled'
  BY RowsJournalled DEF RemovalIsJournalled
<1> QED
  BY <1>1, <1>2, TypeCorrect, PTL DEF Spec

\* No step deletes the subscription of a task that is in flight on both sides:
\* terminal_seen and the task row, the two reasons to clean up, are both real.
THEOREM Kept == Spec => KeptWhileInFlight
<1>1. ASSUME TypeOK, MirrorInv, [Next]_vars, NEW t \in Tasks,
             sub[t] # "absent", IsMonitorable(task[t]),
             ~IsTerminal(remote[t])
      PROVE  sub'[t] # "absent"
  <2>1. CASE ~RowStep
    BY <1>1, <2>1, OtherSteps
  <2>2. ASSUME NEW u \in Tasks, BackoffOver(u)
        PROVE  sub'[t] # "absent"
    BY <1>1, <2>2 DEF BackoffOver, TypeOK
  <2>3. ASSUME NEW g \in Gateways, NEW u \in Tasks,
               Finish(g, u) \/ CrashInFinish(g, u)
        PROVE  sub'[t] # "absent"
    <3>1. ~(Current(g, t) /\ IsOver(g, t))
      BY <1>1 DEF MirrorInv, SeenSound, IsOver, IsMonitorable, IsTerminal
    <3> QED
      BY <1>1, <2>3, <3>1, FinishRows
  <2> QED
    BY <1>1, <2>1, <2>2, <2>3, ScanRows DEF RowStep
<1>2. TypeOK /\ MirrorInv /\ [Next]_vars =>
        [\A t \in Tasks :
           /\ sub[t] # "absent"
           /\ IsMonitorable(task[t]) /\ ~IsTerminal(remote[t])
           => sub'[t] # "absent"]_vars
  BY <1>1
<1> QED
  BY <1>2, TypeCorrect, Mirror, PTL DEF Spec, KeptWhileInFlight

\* The steps that write the tasks table.
LEMMA TaskWriters ==
  ASSUME [Next]_vars, task' # task
  PROVE  \/ \E t \in Tasks : RefreshTask(t)
         \/ \E g \in Gateways, t \in Tasks : PersistEvent(g, t)
         \/ \E t \in Tasks : FirstGuess(t) \/ FollowUp(t) \/ FollowUpEvent(t)
         \/ \E g \in Gateways : JobPersistsTask(g)
<1> USE DEF store
<1>1. CASE Outside
  BY <1>1 DEF Outside, RemoteMoves, BackoffOver, CacheCard, FollowUpOpens,
     FollowUpEnds
<1>2. ASSUME NEW g \in Gateways, Daemon(g)
      PROVE  FALSE
  BY <1>2 DEF Daemon, GatewayStart, RequestShutdown, DropGatewayLock,
     GatewayExit, GatewayCrash
<1>3. ASSUME NEW g \in Gateways, JobManager(g)
      PROVE  JobPersistsTask(g)
  BY <1>3 DEF JobManager, JobReadsTask, JobDropsTask
<1>4. ASSUME NEW g \in Gateways, Manager(g)
      PROVE  \E t \in Tasks : PersistEvent(g, t)
  BY <1>4 DEF Manager, NextScan, Scan, ScanFails, ScanCrash, CrashInCleanup,
     CrashInClaims, StopManager, NextCandidate, Connect, StreamEnds, Finish,
     FinishGone, FinishCleaned, FinishRetrying, FinishCommon, CrashInFinish
<1>5. CASE UNCHANGED vars
  BY <1>5 DEF vars
<1> QED
  BY <1>1, <1>2, <1>3, <1>4, <1>5 DEF Next

\* A cleaned-up, finished task is taken back only by somebody who streams a
\* follow-up to it or by what a gateway job had read before: the foreign key
\* keeps late events of subscriptions out, and a refresh finds the task
\* finished.
THEOREM CleanedFinished == Spec => CleanedStaysFinished
<1>1. ASSUME TypeOK, MirrorInv, [Next]_vars, NEW t \in Tasks,
             IsTerminal(task[t]), sub[t] = "absent", ~IsTerminal(task'[t])
      PROVE  t \in cli' \/ \E g \in Gateways : Writes(g, t, task'[t])
  <2>1. task' # task
    BY <1>1
  <2>2. ASSUME NEW u \in Tasks, RefreshTask(u) \/ FirstGuess(u)
        PROVE  FALSE
    BY <1>1, <2>2 DEF RefreshTask, FirstGuess, MirrorInv, OutcomeIsReal, TypeOK,
                      IsTerminal
  <2>3. ASSUME NEW g \in Gateways, NEW u \in Tasks, PersistEvent(g, u)
        PROVE  FALSE
    BY <1>1, <2>3 DEF PersistEvent, TypeOK, IsTerminal
  <2>4. ASSUME NEW g \in Gateways, JobPersistsTask(g)
        PROVE  Writes(g, t, task'[t])
    <3>0. Head(polled[g]) \in Answers
      BY <1>1, <2>4 DEF JobPersistsTask, TypeOK
    <3>1. Head(polled[g]) \in [id : Tasks, state : TaskStates]
      BY <3>0 DEF Answers
    <3>2. Head(polled[g]).id = t /\ task'[t] = Head(polled[g]).state
      BY <1>1, <2>4, <3>1 DEF JobPersistsTask, TypeOK, IsTerminal
    <3> QED
      BY <2>4, <3>1, <3>2 DEF JobPersistsTask, Writes
  <2>5. ASSUME NEW u \in Tasks, FollowUp(u) \/ FollowUpEvent(u)
        PROVE  t \in cli'
    BY <1>1, <2>5 DEF FollowUp, FollowUpEvent, TypeOK,
                      ForegroundOK, IsTerminal
  <2> QED
    BY <1>1, <2>1, <2>2, <2>3, <2>4, <2>5, TaskWriters
<1>2. TypeOK /\ MirrorInv /\ [Next]_vars =>
        [\A t \in Tasks :
           IsTerminal(task[t]) /\ sub[t] = "absent" =>
             \/ IsTerminal(task'[t])
             \/ t \in cli'
             \/ \E g \in Gateways : Writes(g, t, task'[t])]_vars
  BY <1>1
<1> QED
  BY <1>2, TypeCorrect, Mirror, PTL DEF Spec, CleanedStaysFinished
=============================================================================
