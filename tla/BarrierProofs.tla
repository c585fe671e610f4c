--------------------------- MODULE BarrierProofs ---------------------------
(***************************************************************************)
(* What a barrier decides is true of the tasks at their agents, for every  *)
(* group size, every --state and any behaviour of agents and gateway.      *)
(***************************************************************************)
EXTENDS Barrier, FiniteSetTheorems, TLAPS

\* Where the command stands: an answer is in hand only between its arrival and
\* its use, a member is asked only while its row is open, and nothing is
\* decided before the end.
ShapeInv ==
  /\ pc \in {"asked", "answered"} =>
       cur \in Members /\ ~IsTerminalTaskState(row[cur])
  /\ answer # "none" => pc = "answered"
  /\ decision # "continue" => pc = "done"

\* Every place a task state is kept in was filled from the agent, or the row by
\* a command's guess: a satisfying state there has been reached or guessed.
ReachedInv ==
  /\ \A m \in Members : remote[m] \in Success => m \in reached
  /\ \A m \in Members : row[m] \in Success => m \in reached \union guessed
  /\ answer \in Success => cur \in reached
  /\ news.state \in Success => news.member \in reached
  /\ \A m \in Members : status[m] = "satisfied" => m \in reached \union guessed
  /\ Success \intersect Guesses = {} => guessed = {}

\* Terminal states are final at the agent, so a copy of one is still true, and
\* a member that is out without a failed poll is out for good.
FinalInv ==
  /\ \A m \in Members : IsTerminalTaskState(row[m]) => remote[m] = row[m]
  /\ IsTerminalTaskState(answer) => remote[cur] = answer
  /\ IsTerminalTaskState(news.state) => remote[news.member] = news.state
  /\ \A m \in Members :
       status[m] \in {"failed", "cancelled", "terminal_unmatched"} =>
         IsTerminalTaskState(remote[m]) /\ remote[m] \notin Success

IndInv == TypeOK /\ ShapeInv /\ ReachedInv /\ FinalInv

----------------------------------------------------------------------------
(* What the operators return.                                              *)

\* BarrierTargets holds task states only.
LEMMA SuccessType ==
  ASSUME TypeOK
  PROVE Success \subseteq TaskStates
<1>1. args.states \in SUBSET TaskStates
  BY TargetsAssumption DEF TypeOK, Args
<1> QED BY <1>1 DEF Success, TaskStates

\* classify_record_state, by what it says of the state it is given.
LEMMA Classified ==
  ASSUME NEW s \in TaskStates \union {"none"}, TypeOK
  PROVE /\ ClassifyRecordState(s) \in {"satisfied", "pending", "failed",
                                       "cancelled", "terminal_unmatched"}
        /\ ClassifyRecordState(s) = "satisfied" <=> s \in Success
        /\ ClassifyRecordState(s) \in {"failed", "cancelled", "terminal_unmatched"} =>
             IsTerminalTaskState(s) /\ s \notin Success
        /\ IsTerminalTaskState(s) => Latched(ClassifyRecordState(s))
BY SuccessType DEF ClassifyRecordState, IsTerminalTaskState, Latched,
     IsDisqualified, TaskStates, Success

\* The decision of evaluate_barrier is one of five.
LEMMA EvaluationType ==
  Evaluation \in {"continue", "succeeded", "failed", "cancelled", "timeout"}
BY DEF Evaluation

----------------------------------------------------------------------------
(* The invariant.                                                          *)

\* The initial states satisfy the invariant.
LEMMA InitInv == Init => IndInv
<1> SUFFICES ASSUME Init PROVE IndInv
  OBVIOUS
<1> USE DEF Init
<1>a. remote \in [Members -> TaskStates \union {"none"}]
  BY ReportedAssumption
<1>b. row \in [Members -> TaskStates \union {"none"}]
  OBVIOUS
<1>c. referenced \subseteq Members /\ reached \subseteq Members
  OBVIOUS
<1>d. cur \in 1 .. N + 1
  BY NAssumption
<1>e. status \in [Members -> {"satisfied", "pending", "failed", "cancelled",
                              "missing", "error", "terminal_unmatched"}]
  OBVIOUS
<1>1. TypeOK
  BY <1>a, <1>b, <1>c, <1>d, <1>e DEF TypeOK
<1>2. ShapeInv
  BY DEF Init, ShapeInv
<1>3. ReachedInv
  BY <1>1, SuccessType DEF Init, ReachedInv, TaskStates, NoNews
<1>4. FinalInv
  BY DEF Init, FinalInv, NoNews, IsTerminalTaskState
<1> QED BY <1>1, <1>2, <1>3, <1>4 DEF IndInv

\* A step that gives the member being refreshed the class of its row keeps the
\* invariant (refresh_local_member, the first half of refresh_remote_member).
LEMMA RefreshKeeps ==
  ASSUME IndInv, NEW m \in Members, Refreshing(m), ~Latched(status[m]),
         NEW st, Refreshed(m, st),
         st = "missing" \/ st = ClassifyRecordState(row[m]),
         UNCHANGED <<world, row, answer, expired, decision>>
  PROVE IndInv'
<1> USE DEF world, Refreshed, Refreshing, Members
<1>1. TypeOK /\ ShapeInv /\ ReachedInv /\ FinalInv
  BY DEF IndInv
<1>2. row[m] \in TaskStates \union {"none"}
  BY <1>1 DEF TypeOK
<1>3. /\ st \in {"missing", "satisfied", "pending", "failed", "cancelled",
                 "terminal_unmatched"}
      /\ st = "satisfied" => row[m] \in Success
      /\ st \in {"failed", "cancelled", "terminal_unmatched"} =>
           IsTerminalTaskState(row[m]) /\ row[m] \notin Success
  BY <1>1, <1>2, Classified
<1>4. TypeOK'
  BY <1>1, <1>3, NAssumption DEF TypeOK
<1>5. Success' = Success
  BY DEF Success
<1>6. ShapeInv'
  BY <1>1 DEF ShapeInv, IsTerminalTaskState
<1>7. answer = "none"
  BY <1>1 DEF ShapeInv
<1>8. ReachedInv'
  BY <1>1, <1>3, <1>5, <1>7, SuccessType DEF ReachedInv, TypeOK, TaskStates
<1>9. FinalInv'
  BY <1>1, <1>3, <1>5, <1>7 DEF FinalInv, TypeOK, IsTerminalTaskState
<1> QED BY <1>4, <1>6, <1>8, <1>9 DEF IndInv

\* Every step keeps the invariant.
LEMMA StepInv == IndInv /\ [Next]_vars => IndInv'
<1> SUFFICES ASSUME IndInv, [Next]_vars PROVE IndInv'
  OBVIOUS
<1>0. TypeOK /\ ShapeInv /\ ReachedInv /\ FinalInv
  BY DEF IndInv
<1>s. Success \subseteq TaskStates /\ "none" \notin Success
  BY <1>0, SuccessType DEF TaskStates
<1>1. CASE StartBarrier
  <2> USE <1>1 DEF StartBarrier, world
  <2>1. TypeOK'
    BY <1>0 DEF TypeOK
  <2>2. ShapeInv'
    BY <1>0 DEF ShapeInv
  <2>3. Success' = Success
    BY DEF Success
  <2>4. ReachedInv'
    BY <1>0, <2>3 DEF ReachedInv
  <2>5. FinalInv'
    BY <1>0, <2>3 DEF FinalInv, IsTerminalTaskState
  <2> QED BY <2>1, <2>2, <2>4, <2>5 DEF IndInv
<1>2. ASSUME NEW m \in Members, SkipMember(m) PROVE IndInv'
  <2> USE <1>2 DEF SkipMember, Refreshing, Refreshed, world
  <2>1. status' = status
    BY <1>0 DEF TypeOK
  <2>2. TypeOK'
    BY <1>0, <2>1, NAssumption DEF TypeOK, Members
  <2>3. ShapeInv' /\ answer = "none"
    BY <1>0 DEF ShapeInv
  <2>4. Success' = Success
    BY DEF Success
  <2>5. ReachedInv'
    BY <1>0, <1>s, <2>1, <2>3, <2>4 DEF ReachedInv
  <2>6. FinalInv'
    BY <1>0, <2>1, <2>3, <2>4 DEF FinalInv, IsTerminalTaskState
  <2> QED BY <2>2, <2>3, <2>5, <2>6 DEF IndInv
<1>3. ASSUME NEW m \in Members, RefreshLocalMember(m) PROVE IndInv'
  BY <1>3, RefreshKeeps DEF RefreshLocalMember
<1>4. ASSUME NEW m \in Members, RefreshFromStore(m) PROVE IndInv'
  BY <1>4, RefreshKeeps DEF RefreshFromStore
<1>5. ASSUME NEW m \in Members, AskAgent(m) PROVE IndInv'
  <2> USE <1>5 DEF AskAgent, Refreshing, world
  <2>1. row[m] \in TaskStates \union {"none"}
    BY <1>0 DEF TypeOK
  <2>2. ~IsTerminalTaskState(row[m])
    BY <1>0, <2>1, Classified DEF IsTerminalTaskState
  <2>3. row[m] # "none" => ClassifyRecordState(row[m]) = "pending"
    BY <1>0, <2>1, Classified DEF Latched, IsDisqualified
  <2>4. /\ status' \in [Members -> {"satisfied", "pending", "failed", "cancelled",
                                    "missing", "error", "terminal_unmatched"}]
        /\ \A k \in Members : status'[k] = status[k] \/ status'[k] = "pending"
    BY <1>0, <2>3 DEF TypeOK
  <2>5. TypeOK'
    BY <1>0, <2>4 DEF TypeOK
  <2>6. ShapeInv'
    BY <1>0, <2>2 DEF ShapeInv, IsTerminalTaskState
  <2>7. Success' = Success
    BY DEF Success
  <2>8. ReachedInv'
    BY <1>0, <2>4, <2>7 DEF ReachedInv
  <2>9. FinalInv'
    BY <1>0, <2>4, <2>7 DEF FinalInv, IsTerminalTaskState
  <2> QED BY <2>5, <2>6, <2>8, <2>9 DEF IndInv
<1>6. CASE PollFails
  <2> USE <1>6 DEF PollFails, Refreshed, world
  <2>1. cur \in Members
    BY <1>0 DEF ShapeInv
  <2>2. TypeOK'
    BY <1>0, <2>1, NAssumption DEF TypeOK, Members
  <2>3. ShapeInv'
    BY <1>0 DEF ShapeInv
  <2>4. Success' = Success
    BY DEF Success
  <2>5. \A k \in Members : status'[k] = status[k] \/ status'[k] = "error"
    BY <1>0 DEF TypeOK
  <2>6. ReachedInv'
    BY <1>0, <1>s, <2>4, <2>5 DEF ReachedInv
  <2>7. FinalInv'
    BY <1>0, <2>4, <2>5 DEF FinalInv, IsTerminalTaskState
  <2> QED BY <2>2, <2>3, <2>6, <2>7 DEF IndInv
<1>7. CASE PersistBarrierRemoteTask
  <2> USE <1>7 DEF PersistBarrierRemoteTask, Refreshed, world
  <2>1. cur \in Members /\ answer \in TaskStates \union {"none"}
    BY <1>0 DEF ShapeInv, TypeOK
  <2> DEFINE st == ClassifyRecordState(answer)
  <2>2. /\ st \in {"satisfied", "pending", "failed", "cancelled",
                   "terminal_unmatched"}
        /\ st = "satisfied" => answer \in Success
        /\ st \in {"failed", "cancelled", "terminal_unmatched"} =>
             IsTerminalTaskState(answer) /\ answer \notin Success
    BY <1>0, <2>1, Classified
  <2> HIDE DEF st
  <2>3. status' = [status EXCEPT ![cur] = st]
    BY DEF st
  <2>4. TypeOK'
    BY <1>0, <2>1, <2>2, <2>3, NAssumption DEF TypeOK, Members
  <2>5. ShapeInv'
    BY <1>0 DEF ShapeInv
  <2>6. Success' = Success
    BY DEF Success
  <2>7. ReachedInv'
    BY <1>0, <1>s, <2>1, <2>2, <2>3, <2>6 DEF ReachedInv, TypeOK
  <2>8. FinalInv'
    BY <1>0, <2>1, <2>2, <2>3, <2>6 DEF FinalInv, TypeOK, IsTerminalTaskState
  <2> QED BY <2>4, <2>5, <2>7, <2>8 DEF IndInv
<1>8. CASE EvaluateBarrier
  <2> USE <1>8 DEF EvaluateBarrier, world
  <2>1. TypeOK'
    BY <1>0, EvaluationType DEF TypeOK
  <2>2. ShapeInv' /\ answer = "none"
    BY <1>0 DEF ShapeInv
  <2>3. Success' = Success
    BY DEF Success
  <2>4. ReachedInv'
    BY <1>0, <2>3 DEF ReachedInv
  <2>5. FinalInv'
    BY <1>0, <2>3 DEF FinalInv, IsTerminalTaskState
  <2> QED BY <2>1, <2>2, <2>4, <2>5 DEF IndInv
<1>9. CASE Wake
  <2> USE <1>9 DEF Wake, world
  <2>1. TypeOK'
    BY <1>0, NAssumption DEF TypeOK
  <2>2. ShapeInv' /\ answer = "none"
    BY <1>0 DEF ShapeInv
  <2>3. Success' = Success
    BY DEF Success
  <2>4. ReachedInv'
    BY <1>0, <1>s, <2>2, <2>3 DEF ReachedInv
  <2>5. FinalInv'
    BY <1>0, <2>2, <2>3 DEF FinalInv, IsTerminalTaskState
  <2> QED BY <2>1, <2>2, <2>4, <2>5 DEF IndInv
<1>10. CASE AgentAnswers
  <2> USE <1>10 DEF AgentAnswers, world
  <2>1. cur \in Members
    BY <1>0 DEF ShapeInv
  <2>2. TypeOK'
    BY <1>0, <2>1 DEF TypeOK
  <2>3. ShapeInv'
    BY <1>0 DEF ShapeInv, IsTerminalTaskState
  <2>4. Success' = Success
    BY DEF Success
  <2>5. ReachedInv'
    BY <1>0, <2>1, <2>4 DEF ReachedInv
  <2>6. FinalInv'
    BY <1>0, <2>4 DEF FinalInv, IsTerminalTaskState
  <2> QED BY <2>2, <2>3, <2>5, <2>6 DEF IndInv
<1>11. CASE Expire
  <2> USE <1>11 DEF Expire, world
  <2>1. TypeOK' /\ ShapeInv'
    BY <1>0 DEF TypeOK, ShapeInv, IsTerminalTaskState
  <2>2. Success' = Success
    BY DEF Success
  <2>3. ReachedInv' /\ FinalInv'
    BY <1>0, <2>2 DEF ReachedInv, FinalInv, IsTerminalTaskState
  <2> QED BY <2>1, <2>3 DEF IndInv
<1>12. ASSUME NEW m \in Members, NEW s \in Reported, TaskMoves(m, s) PROVE IndInv'
  <2> USE <1>12 DEF TaskMoves
  <2>1. s \in TaskStates
    BY ReportedAssumption
  <2>2. TypeOK'
    BY <1>0, <2>1 DEF TypeOK
  <2>3. ShapeInv'
    BY <1>0 DEF ShapeInv, IsTerminalTaskState
  <2>4. Success' = Success
    BY DEF Success
  <2>5. /\ \A k \in Members \ {m} : remote'[k] = remote[k]
        /\ remote'[m] = s
        /\ reached \subseteq reached'
        /\ s \in Success => m \in reached'
    BY <1>0 DEF TypeOK
  <2>6. ReachedInv'
    BY <1>0, <2>4, <2>5 DEF ReachedInv
  <2>7. /\ IsTerminalTaskState(answer) => cur \in Members
        /\ IsTerminalTaskState(news.state) => news.member \in Members
    BY <1>0 DEF ShapeInv, TypeOK, NoNews, IsTerminalTaskState
  <2>8. FinalInv'
    BY <1>0, <2>4, <2>5, <2>7 DEF FinalInv, IsTerminalTaskState
  <2> QED BY <2>2, <2>3, <2>6, <2>8 DEF IndInv
<1>13. ASSUME NEW m \in Members, GatewayReads(m) PROVE IndInv'
  <2> USE <1>13 DEF GatewayReads
  <2>1. TypeOK' /\ ShapeInv'
    BY <1>0 DEF TypeOK, ShapeInv, IsTerminalTaskState
  <2>2. Success' = Success
    BY DEF Success
  <2>3. ReachedInv' /\ FinalInv'
    BY <1>0, <2>2 DEF ReachedInv, FinalInv, IsTerminalTaskState
  <2> QED BY <2>1, <2>3 DEF IndInv
<1>14. CASE GatewayWrites
  <2> USE <1>14 DEF GatewayWrites
  <2>1. news.member \in Members /\ news.state \in TaskStates
    BY <1>0 DEF TypeOK
  <2>2. TypeOK'
    BY <1>0, <2>1 DEF TypeOK
  <2>3. ShapeInv'
    BY <1>0 DEF ShapeInv
  <2>4. Success' = Success
    BY DEF Success
  <2>5. ReachedInv'
    BY <1>0, <1>s, <2>1, <2>4 DEF ReachedInv, TypeOK, NoNews
  <2>6. FinalInv'
    BY <1>0, <2>1, <2>4 DEF FinalInv, TypeOK, NoNews, IsTerminalTaskState
  <2> QED BY <2>2, <2>3, <2>5, <2>6 DEF IndInv
<1>15. ASSUME NEW m \in Members, NEW s \in Guesses, GuessTask(m, s) PROVE IndInv'
  <2> USE <1>15 DEF GuessTask
  <2>1. s \in TaskStates /\ ~IsTerminalTaskState(s)
    BY DEF Guesses, TaskStates, IsTerminalTaskState
  <2>2. TypeOK'
    BY <1>0, <2>1 DEF TypeOK
  <2>3. ShapeInv'
    BY <1>0 DEF ShapeInv
  <2>4. Success' = Success
    BY DEF Success
  <2>5. /\ \A k \in Members \ {m} : row'[k] = row[k]
        /\ row'[m] = s
        /\ guessed \subseteq guessed'
        /\ s \in Success => m \in guessed'
        /\ s \notin Success => guessed' = guessed
    BY <1>0 DEF TypeOK
  <2>6. ReachedInv'
    BY <1>0, <2>4, <2>5 DEF ReachedInv
  <2>7. FinalInv'
    BY <1>0, <2>1, <2>4, <2>5 DEF FinalInv, IsTerminalTaskState
  <2> QED BY <2>2, <2>3, <2>6, <2>7 DEF IndInv
<1>16. CASE UNCHANGED vars
  <2> USE <1>16 DEF vars
  <2>1. TypeOK' /\ ShapeInv'
    BY <1>0 DEF TypeOK, ShapeInv, IsTerminalTaskState
  <2>2. Success' = Success
    BY DEF Success
  <2>3. ReachedInv' /\ FinalInv'
    BY <1>0, <2>2 DEF ReachedInv, FinalInv, IsTerminalTaskState
  <2> QED BY <2>1, <2>3 DEF IndInv
<1> QED
  BY <1>1, <1>2, <1>3, <1>4, <1>5, <1>6, <1>7, <1>8, <1>9, <1>10, <1>11, <1>12,
     <1>13, <1>14, <1>15, <1>16 DEF Next, Command

\* The invariant holds throughout.
THEOREM Invariant == Spec => []IndInv
BY InitInv, StepInv, PTL DEF Spec

\* Every reachable state of a barrier is well typed (BarrierMemberState,
\* BarrierDecision).
THEOREM TypeCorrect == Spec => []TypeOK
BY Invariant, PTL DEF IndInv

----------------------------------------------------------------------------
(* Decisions.                                                              *)

\* Subsets of the members have a size, and smaller ones a smaller size.
LEMMA MemberSets ==
  ASSUME NEW S, NEW T, S \subseteq T, T \subseteq Members
  PROVE /\ Cardinality(S) \in Nat /\ Cardinality(T) \in Nat
        /\ Cardinality(S) <= Cardinality(T)
<1>1. IsFiniteSet(Members)
  BY FS_Interval, NAssumption DEF Members
<1>2. IsFiniteSet(T)
  BY <1>1, FS_Subset
<1> QED BY <1>2, FS_Subset, FS_CardinalityType

\* Once it has decided, a barrier does nothing more.
LEMMA OnlyEvaluationDecides ==
  ASSUME IndInv, [Next]_vars, decision' # "continue"
  PROVE EvaluateBarrier \/ UNCHANGED vars
<1>1. decision # "continue" => pc = "done"
  BY DEF IndInv, ShapeInv
<1> QED
  BY <1>1 DEF Next, Command, StartBarrier, SkipMember, RefreshLocalMember,
     RefreshFromStore, AskAgent, PollFails, PersistBarrierRemoteTask, Wake,
     AgentAnswers, Expire, TaskMoves, GatewayReads, GatewayWrites, GuessTask, Refreshing,
     Running, vars, world

\* A barrier that succeeds had its quorum at the agents (evaluate_barrier over
\* statuses latched in earlier rounds), rows guessed by other commands counted
\* only when --state asks for a state commands guess.
THEOREM Quorum == Spec => []QuorumIsReal
<1>1. Init => QuorumIsReal
  BY DEF Init, QuorumIsReal
<1>2. ASSUME IndInv, QuorumIsReal, [Next]_vars PROVE QuorumIsReal'
  <2> SUFFICES ASSUME decision' = "succeeded"
               PROVE /\ Cardinality(reached' \union guessed') >= args'.required
                     /\ Success' \intersect Guesses = {} =>
                          Cardinality(reached') >= args'.required
    BY DEF QuorumIsReal
  <2>1. CASE UNCHANGED vars
    BY <1>2, <2>1 DEF QuorumIsReal, vars, Success
  <2>2. CASE EvaluateBarrier
    <3>1. Cardinality(Satisfied) >= args.required
      BY <2>2 DEF EvaluateBarrier, Evaluation
    <3>2. /\ Satisfied \subseteq reached \union guessed
          /\ reached \union guessed \subseteq Members
          /\ Success \intersect Guesses = {} => reached \union guessed = reached
      BY <1>2 DEF IndInv, ReachedInv, TypeOK, Satisfied
    <3>3. args.required \in Nat
      BY <1>2, NAssumption DEF IndInv, TypeOK, Args, Members
    <3>4. Cardinality(reached \union guessed) >= args.required
      BY <3>1, <3>2, <3>3, MemberSets
    <3> QED BY <2>2, <3>2, <3>4 DEF EvaluateBarrier, world, Success
  <2> QED BY <1>2, <2>1, <2>2, OnlyEvaluationDecides
<1> QED BY <1>1, <1>2, Invariant, PTL DEF Spec

\* With the continue policy and no failed poll a barrier gives up only if the
\* quorum is out of reach at the agents.
THEOREM GivesUp == Spec => []GivesUpOnlyWhenImpossible
<1> DEFINE Out == {m \in Members : /\ IsTerminalTaskState(remote[m])
                                   /\ remote[m] \notin Success}
<1>1. Init => GivesUpOnlyWhenImpossible
  BY DEF Init, GivesUpOnlyWhenImpossible
<1>2. ASSUME IndInv, GivesUpOnlyWhenImpossible, [Next]_vars
      PROVE GivesUpOnlyWhenImpossible'
  <2> SUFFICES ASSUME decision' \in {"failed", "cancelled"},
                      args'.policy = "continue",
                      \A m \in Members : status'[m] # "error"
               PROVE N - Cardinality(Out') < args'.required
    BY DEF GivesUpOnlyWhenImpossible, IsTerminalTaskState
  <2>1. CASE UNCHANGED vars
    <3>1. Out' = Out
      BY <2>1 DEF vars, Success, IsTerminalTaskState
    <3>2. N - Cardinality(Out) < args.required
      BY <1>2, <2>1 DEF GivesUpOnlyWhenImpossible, vars
    <3> QED BY <2>1, <3>1, <3>2 DEF vars
  <2>2. CASE EvaluateBarrier
    <3>1. N - Cardinality(Disqualified) < args.required
      BY <2>2 DEF EvaluateBarrier, Evaluation, world
    <3>2. Disqualified \subseteq Out
      BY <1>2, <2>2 DEF EvaluateBarrier, IndInv, FinalInv, TypeOK, Disqualified,
         IsDisqualified, world
    <3>3. Out' = Out
      BY <2>2 DEF EvaluateBarrier, world, Success, IsTerminalTaskState
    <3>4. args.required \in Nat /\ N \in Nat
      BY <1>2, NAssumption DEF IndInv, TypeOK, Args, Members
    <3> HIDE DEF Out
    <3>5. Out \subseteq Members
      BY DEF Out
    <3>6. N - Cardinality(Out) < args.required
      BY <3>1, <3>2, <3>4, <3>5, MemberSets
    <3> QED BY <2>2, <3>3, <3>6 DEF EvaluateBarrier, world
  <2> QED BY <1>2, <2>1, <2>2, OnlyEvaluationDecides
<1> QED BY <1>1, <1>2, Invariant, PTL DEF Spec

\* While a barrier runs no finished row changes: a member is asked only while
\* its row is open, and other writers wait for the state-mutation lock.
THEOREM RowsStay == Spec => FinishedRowsStay
<1>1. ASSUME IndInv, [Next]_vars
      PROVE [\A m \in Members :
               Running /\ Running' /\ IsTerminalTaskState(row[m])
                 => row'[m] = row[m]]_vars
  <2> SUFFICES ASSUME NEW m \in Members, Running, IsTerminalTaskState(row[m])
               PROVE row'[m] = row[m]
    OBVIOUS
  <2>1. CASE PersistBarrierRemoteTask
    <3>1. cur # m
      BY <1>1, <2>1 DEF PersistBarrierRemoteTask, IndInv, ShapeInv
    <3> QED BY <1>1, <2>1, <3>1 DEF PersistBarrierRemoteTask, IndInv, TypeOK
  <2>2. ~GatewayWrites /\ ~\E k \in Members, s \in Guesses : GuessTask(k, s)
    BY DEF GatewayWrites, GuessTask, Running
  <2>3. CASE ~PersistBarrierRemoteTask
    BY <1>1, <2>2, <2>3 DEF Next, Command, StartBarrier, SkipMember,
       RefreshLocalMember, RefreshFromStore, AskAgent, PollFails,
       EvaluateBarrier, Wake, AgentAnswers, Expire, TaskMoves, GatewayReads,
       vars, world
  <2> QED BY <2>1, <2>3
<1> QED BY <1>1, Invariant, PTL DEF Spec, FinishedRowsStay
=============================================================================
