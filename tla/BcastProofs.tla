---------------------------- MODULE BcastProofs ----------------------------
(***************************************************************************)
(* What `missive bcast` says of itself is so, for every group, every set   *)
(* of response ids and any timing of threads, agents and deadline.         *)
(***************************************************************************)
EXTENDS Bcast, TLAPS

Open == {"todo", "planned", "sent", "answered"}
Verdicts == {"succeeded", "failed", "timeout"}

\* The way of one member: nothing is said of it before it is judged, nothing
\* journalled before it is done, and "succeeded" means stored from then on.
MemberInv(m) ==
  /\ stage[m] \in Open => result[m] = "none" /\ event[m] = "none" /\ m \notin stored
  /\ stage[m] = "judged" => event[m] = "none" /\ result[m] \in Verdicts
  /\ stage[m] = "done" => event[m] \in Verdicts /\ (event[m] = "succeeded" <=> m \in stored)
  /\ stage[m] = "done" /\ pc # "completed" => result[m] = event[m]
  /\ result[m] = "succeeded" <=> m \in stored
  /\ stage[m] \in {"todo", "planned"} => m \notin delivered
  /\ stage[m] = "sent" \/ outcome[m] \in MessageIds => m \in delivered

\* How far the command is: nothing is summed up before the end, a summary is
\* made of finished members, and of untouched ones after a stop.
ProgressInv ==
  /\ pc = "idle" => \A m \in Members : stage[m] = "todo"
  /\ status # "none" => pc = "completed"
  /\ pc = "stopped" => Sequential /\ args.policy = "stop"
  /\ pc \in {"stopped", "completed"} => \A m \in Members : stage[m] \in {"todo", "done"}
  /\ pc = "completed" => \A m \in Members : stage[m] = "todo" => result[m] = "none"

\* The order of a sequential run: a member is touched when the earlier ones are
\* finished, and the run goes on only while it may.
OrderInv ==
  Sequential =>
    /\ \A m \in Members : stage[m] # "todo" => Below(m, {"done"})
    /\ args.policy = "stop" /\ pc \in {"plan", "join"} =>
         \A m \in Members : stage[m] = "done" => event[m] = "succeeded"

BcastInv ==
  /\ TypeOK /\ (\A m \in Members : MemberInv(m)) /\ ProgressInv /\ OrderInv
  /\ StopsAtFirstFailure /\ SucceededIsComplete /\ SummaryMatchesJournal

----------------------------------------------------------------------------
(* The summary.                                                            *)

\* mark_last_failure_as_timeout changes at most one result, a failure, and only
\* once the deadline has passed; it neither makes nor unmakes a success.
LEMMA RelabelledChangesOne ==
  ASSUME NEW r \in [Members -> Results], expired \in BOOLEAN
  PROVE /\ Relabelled(r) \in [Members -> Results]
        /\ \A m \in Members : Relabelled(r)[m] = "succeeded" <=> r[m] = "succeeded"
        /\ \A m \in Members : Relabelled(r)[m] = "none" <=> r[m] = "none"
        /\ \A m \in Members : Relabelled(r)[m] # r[m] =>
             /\ expired /\ r[m] = "failed" /\ Relabelled(r)[m] = "timeout"
             /\ \A k \in Members \ {m} : Relabelled(r)[k] = r[k]
<1>1. CASE ~(expired /\ With(r, "timeout") = {})
  BY <1>1 DEF Relabelled
<1>2. CASE expired /\ With(r, "timeout") = {}
  <2> DEFINE Last(m) == r[m] = "failed" /\ \A k \in With(r, "failed") : k <= m
  <2>1. Relabelled(r) = [m \in Members |-> IF Last(m) THEN "timeout" ELSE r[m]]
    BY <1>2 DEF Relabelled
  <2>2. ASSUME NEW m \in Members, NEW k \in Members, Last(m), Last(k)
        PROVE m = k
    <3>1. m \in With(r, "failed") /\ k \in With(r, "failed")
      BY <2>2 DEF With
    <3>2. m <= k /\ k <= m /\ m \in Nat /\ k \in Nat
      BY <2>2, <3>1, MembersAssumption
    <3> QED BY <3>2
  <2>3. \A m \in Members : Last(m) => r[m] = "failed"
    OBVIOUS
  <2> HIDE DEF Last
  <2> QED BY <1>2, <2>1, <2>2, <2>3 DEF Results
<1> QED BY <1>1, <1>2

\* finalize_bcast_output returns one of its states; "succeeded" only for all.
LEMMA SummaryStatusMeans ==
  ASSUME NEW r
  PROVE /\ SummaryStatus(r) \in {"succeeded", "partial_failure", "timeout", "failed"}
        /\ SummaryStatus(r) = "succeeded" => \A m \in Members : r[m] = "succeeded"
<1>1. SummaryStatus(r) \in {"succeeded", "partial_failure", "timeout", "failed"}
  BY DEF SummaryStatus
<1>2. SummaryStatus(r) = "succeeded" => With(r, "succeeded") = Members
  BY DEF SummaryStatus
<1> QED BY <1>1, <1>2 DEF With

----------------------------------------------------------------------------
(* The invariant.                                                          *)

\* A broadcast starts in the invariant.
LEMMA InitBcast == Init => BcastInv
<1> SUFFICES ASSUME Init PROVE BcastInv
  OBVIOUS
<1>1. TypeOK
  BY DEF Init, TypeOK, Results
<1>2. \A m \in Members : MemberInv(m)
  BY MessageIdsAssumption DEF Init, MemberInv, Open
<1>3. ProgressInv /\ OrderInv
  BY DEF Init, ProgressInv, OrderInv
<1>4. StopsAtFirstFailure /\ SucceededIsComplete /\ SummaryMatchesJournal
  BY DEF Init, StopsAtFirstFailure, SucceededIsComplete, SummaryMatchesJournal
<1> QED BY <1>1, <1>2, <1>3, <1>4 DEF BcastInv

\* A step of one member leaves the others as they are.
LEMMA MemberSteps ==
  ASSUME BcastInv, NEW m \in Members,
         \/ TimeoutMemberBeforeStart(m) \/ PlanFails(m) \/ PlanMemberSend(m)
         \/ SendFails(m) \/ AgentReceives(m) \/ \E id \in MessageIds : AgentAnswers(m, id)
         \/ MemberFailed(m) \/ PersistSend(m)
  PROVE BcastInv'
<1> USE DEF BcastInv, TypeOK, Results
<1>t. TypeOK'
  <2>1. CASE TimeoutMemberBeforeStart(m) \/ PlanFails(m) \/ PlanMemberSend(m) \/ SendFails(m) \/ MemberFailed(m)
    BY <2>1 DEF TimeoutMemberBeforeStart, PlanFails, PlanMemberSend, SendFails, MemberFailed, Judge, store
  <2>2. CASE AgentReceives(m) \/ \E id \in MessageIds : AgentAnswers(m, id)
    BY <2>2 DEF AgentReceives, AgentAnswers, store
  <2>3. CASE PersistSend(m)
    BY <2>3 DEF PersistSend, Judge, Joining, MemberInv
  <2> QED BY <2>1, <2>2, <2>3
<1>m. \A k \in Members : MemberInv(k)'
  <2> SUFFICES ASSUME NEW k \in Members PROVE MemberInv(k)'
    OBVIOUS
  <2>1. CASE TimeoutMemberBeforeStart(m) \/ PlanFails(m) \/ PlanMemberSend(m)
    BY <2>1 DEF TimeoutMemberBeforeStart, PlanFails, PlanMemberSend, Planning, Judge, store, MemberInv, Open, Verdicts
  <2>2. CASE SendFails(m)
    BY <2>2, MessageIdsAssumption DEF SendFails, store, MemberInv, Open, Verdicts
  <2>5. CASE MemberFailed(m)
    <3>1. /\ stage' = [stage EXCEPT ![m] = "judged"] /\ result'[m] \in {"timeout", "failed"}
          /\ (k # m => result'[k] = result[k]) /\ stage[m] = "answered"
          /\ UNCHANGED <<pc, outcome, event, stored, delivered>>
      BY <2>5 DEF MemberFailed, Joining, Judge, store
    <3>2. CASE k = m
      BY <3>1, <3>2 DEF MemberInv, Open, Verdicts
    <3> QED BY <3>1, <3>2 DEF MemberInv
  <2>3. CASE AgentReceives(m) \/ \E id \in MessageIds : AgentAnswers(m, id)
    <3>1. /\ \A i \in Members : i # m => stage'[i] = stage[i] /\ outcome'[i] = outcome[i]
          /\ stage[m] \in {"planned", "sent"} /\ stage'[m] \in {"sent", "answered"}
          /\ m \in delivered' /\ delivered \subseteq delivered'
          /\ \A i \in delivered' : i # m => i \in delivered
          /\ UNCHANGED <<pc, result, event, stored>>
      BY <2>3 DEF AgentReceives, AgentAnswers, store, MemberInv, Open
    <3>2. CASE k = m
      BY <3>1, <3>2 DEF MemberInv, Open
    <3> QED BY <3>1, <3>2 DEF MemberInv
  <2>4. CASE PersistSend(m)
    BY <2>4 DEF PersistSend, Judge, Joining, MemberInv, Open, Verdicts
  <2> QED BY <2>1, <2>2, <2>3, <2>4, <2>5
<1>u. /\ args' = args /\ pc' = pc /\ status' = status /\ event' = event
      /\ pc \in {"plan", "join"} /\ pc # "completed" /\ pc # "stopped"
      /\ stage[m] \in Open
      /\ \A k \in Members \ {m} : stage'[k] = stage[k] /\ result'[k] = result[k]
      /\ stage'[m] # "done" /\ stage'[m] # "todo"
  BY DEF TimeoutMemberBeforeStart, PlanFails, PlanMemberSend, SendFails, AgentReceives, AgentAnswers,
     MemberFailed, PersistSend, Planning, Joining, Sending, Judge, Open
<1>p. ProgressInv'
  BY <1>u DEF ProgressInv, Sequential
<1>b. Sequential => Below(m, {"done"})
  BY DEF TimeoutMemberBeforeStart, PlanFails, PlanMemberSend, SendFails, AgentReceives, AgentAnswers,
     MemberFailed, PersistSend, Planning, Joining, Sending, OrderInv, Below
<1>o. OrderInv'
  <2>1. Sequential' <=> Sequential
    BY <1>u DEF Sequential
  <2>2. ASSUME Sequential, NEW k \in Members, stage'[k] # "todo", NEW i \in Members, i < k
        PROVE stage'[i] = "done"
    <3>1. stage[i] = "done"
      BY <1>u, <1>b, <2>2 DEF OrderInv, Below
    <3> QED BY <1>u, <3>1 DEF Open
  <2> QED BY <1>u, <2>1, <2>2 DEF OrderInv, Below
<1>s. StopsAtFirstFailure'
  <2>1. delivered' = delivered \/ (AgentReceives(m) /\ delivered' = delivered \union {m})
    BY DEF TimeoutMemberBeforeStart, PlanFails, PlanMemberSend, SendFails, AgentReceives, AgentAnswers,
       MemberFailed, PersistSend
  <2>2. Sequential /\ args.policy = "stop" => \A k \in Members : k < m => event[k] = "succeeded"
    BY <1>u, <1>b DEF OrderInv, Below
  <2> QED BY <1>u, <2>1, <2>2 DEF StopsAtFirstFailure, Sequential
<1>c. SucceededIsComplete'
  BY <1>u DEF SucceededIsComplete, ProgressInv
<1>j. SummaryMatchesJournal'
  BY <1>u DEF SummaryMatchesJournal
<1> QED BY <1>t, <1>m, <1>p, <1>o, <1>s, <1>c, <1>j

\* append_bcast_member_event, and where the stop policy ends the loop.
LEMMA MemberEvents ==
  ASSUME BcastInv, NEW m \in Members, AppendMemberEvent(m)
  PROVE BcastInv'
<1> USE DEF BcastInv, TypeOK, Results
<1>u. /\ args' = args /\ status' = status /\ result' = result /\ delivered' = delivered
      /\ pc \in {"plan", "join"} /\ stage[m] = "judged" /\ stored' = stored /\ outcome' = outcome
      /\ messages' = messages /\ expired' = expired
      /\ pc' = IF StopsHere(m) THEN "stopped" ELSE pc
      /\ stage' = [stage EXCEPT ![m] = "done"] /\ event' = [event EXCEPT ![m] = result[m]]
  BY DEF AppendMemberEvent, store
<1>q. (Sequential' <=> Sequential) /\ pc' # "completed"
  BY <1>u DEF Sequential
<1>t. TypeOK'
  BY <1>u
<1>m. \A k \in Members : MemberInv(k)'
  BY <1>u, <1>q DEF MemberInv, Open, Verdicts
<1>b. Sequential => /\ Below(m, {"done"})
                    /\ \A k \in Members : k # m => stage[k] \in {"todo", "done"}
  <2> SUFFICES ASSUME Sequential, NEW k \in Members, k # m, stage[k] # "todo"
               PROVE Below(m, {"done"}) /\ stage[k] = "done"
    BY <1>u DEF OrderInv
  <2>1. Below(m, {"done"}) /\ Below(k, {"done"})
    BY <1>u DEF OrderInv
  <2>2. k < m \/ m < k
    BY MembersAssumption
  <2> QED BY <1>u, <2>1, <2>2 DEF Below
<1>p. ProgressInv'
  BY <1>u, <1>q, <1>b DEF ProgressInv, StopsHere
<1>o. OrderInv'
  BY <1>u, <1>q, <1>b DEF OrderInv, Below, StopsHere
<1>s. StopsAtFirstFailure'
  BY <1>u, <1>q DEF StopsAtFirstFailure, MemberInv
<1>c. SucceededIsComplete'
  BY <1>u DEF SucceededIsComplete
<1>j. SummaryMatchesJournal'
  BY <1>q DEF SummaryMatchesJournal
<1> QED BY <1>t, <1>m, <1>p, <1>o, <1>s, <1>c, <1>j

\* finalize_bcast_output and what it may say.
LEMMA Finishes ==
  ASSUME BcastInv, FinishBcast
  PROVE BcastInv'
<1> USE DEF BcastInv, TypeOK, Results
<1>u. /\ UNCHANGED <<args, stage, outcome, event, stored, messages, delivered, expired>>
      /\ result' = Relabelled(result) /\ status' = SummaryStatus(result') /\ pc' = "completed"
      /\ pc \in {"plan", "join", "stopped"}
      /\ \A m \in Members : stage[m] \in {"todo", "done"}
  BY DEF FinishBcast, store, ProgressInv
<1>r. /\ result' \in [Members -> Results]
      /\ \A m \in Members : result'[m] = "succeeded" <=> result[m] = "succeeded"
      /\ \A m \in Members : result'[m] = "none" <=> result[m] = "none"
      /\ \A m \in Members : result'[m] # result[m] =>
           /\ expired /\ result[m] = "failed" /\ result'[m] = "timeout"
           /\ \A k \in Members \ {m} : result'[k] = result[k]
  BY <1>u, RelabelledChangesOne
<1>v. /\ status' \in {"succeeded", "partial_failure", "timeout", "failed"}
      /\ status' = "succeeded" => \A m \in Members : result'[m] = "succeeded"
  BY <1>u, SummaryStatusMeans
<1>e. \A m \in Members : event[m] = result[m]
  BY <1>u DEF MemberInv, Open
<1>q. Sequential' <=> Sequential
  BY <1>u DEF Sequential
<1>t. TypeOK'
  BY <1>u, <1>r, <1>v
<1>m. \A k \in Members : MemberInv(k)'
  BY <1>u, <1>r DEF MemberInv, Open, Verdicts
<1>p. ProgressInv'
  BY <1>u, <1>r DEF ProgressInv, MemberInv, Open
<1>o. OrderInv'
  BY <1>u, <1>q DEF OrderInv, Below
<1>s. StopsAtFirstFailure'
  BY <1>u, <1>q DEF StopsAtFirstFailure
<1>c. SucceededIsComplete'
  <2>1. status' = "succeeded" => \A m \in Members : m \in stored
    BY <1>r, <1>v DEF MemberInv
  <2> QED BY <1>u, <2>1 DEF SucceededIsComplete
<1>j. SummaryMatchesJournal'
  BY <1>u, <1>r, <1>e DEF SummaryMatchesJournal
<1> QED BY <1>t, <1>m, <1>p, <1>o, <1>s, <1>c, <1>j

\* The other steps of the command, and the clock, touch no member.
LEMMA OtherSteps ==
  ASSUME BcastInv,
         \/ StartBcast \/ SpawnThreads \/ Expire \/ Killed \/ UNCHANGED vars
         \/ \E m \in Members : PersistRefused(m)
  PROVE BcastInv'
<1> USE DEF BcastInv, TypeOK, Results
<1>1. /\ UNCHANGED <<args, member, store, delivered, status>>
      /\ expired' \in BOOLEAN
      /\ \/ pc' = pc /\ (pc = "completed" => expired' = expired)
         \/ pc' = "plan" /\ pc = "idle"
         \/ pc' = "join" /\ pc = "plan" /\ ~Sequential
         \/ pc' \in {"aborted", "killed"} /\ pc \in {"plan", "join", "stopped"}
  BY DEF StartBcast, SpawnThreads, Expire, Killed, PersistRefused, Joining, Sending, Running, vars, member, store
<1>2. (Sequential' <=> Sequential) /\ (pc' = "completed" <=> pc = "completed")
  BY <1>1 DEF Sequential
<1>3. TypeOK'
  BY <1>1 DEF member, store
<1>4. \A k \in Members : MemberInv(k)'
  BY <1>1, <1>2 DEF MemberInv, member, store
<1>5. ProgressInv'
  BY <1>1, <1>2 DEF ProgressInv, member
<1>6. OrderInv'
  <2>1. CASE pc' = "plan" /\ pc = "idle"
    BY <1>1, <1>2, <2>1 DEF OrderInv, Below, member, ProgressInv
  <2> QED BY <1>1, <1>2, <2>1 DEF OrderInv, Below, member
<1>7. StopsAtFirstFailure'
  BY <1>1, <1>2 DEF StopsAtFirstFailure, member
<1>8. SucceededIsComplete'
  BY <1>1 DEF SucceededIsComplete, store
<1>9. SummaryMatchesJournal'
  BY <1>1, <1>2 DEF SummaryMatchesJournal, member
<1> QED BY <1>3, <1>4, <1>5, <1>6, <1>7, <1>8, <1>9

\* Every step keeps the invariant.
LEMMA NextBcast == BcastInv /\ [Next]_vars => BcastInv'
<1> SUFFICES ASSUME BcastInv, [Next]_vars PROVE BcastInv'
  OBVIOUS
<1>1. CASE \/ StartBcast \/ SpawnThreads \/ Expire \/ Killed \/ UNCHANGED vars
           \/ \E m \in Members : PersistRefused(m)
  BY <1>1, OtherSteps
<1>2. CASE FinishBcast
  BY <1>2, Finishes
<1>3. CASE \E m \in Members : AppendMemberEvent(m)
  BY <1>3, MemberEvents
<1>4. ASSUME NEW m \in Members,
             \/ TimeoutMemberBeforeStart(m) \/ PlanFails(m) \/ PlanMemberSend(m)
             \/ SendFails(m) \/ AgentReceives(m) \/ \E id \in MessageIds : AgentAnswers(m, id)
             \/ MemberFailed(m) \/ PersistSend(m)
      PROVE BcastInv'
  BY <1>4, MemberSteps
<1> QED BY <1>1, <1>2, <1>3, <1>4 DEF Next, Command, MemberStep

----------------------------------------------------------------------------
(* Results.                                                                *)

\* A summary reports exactly the exchanges the store holds.
LEMMA Reported == BcastInv => ReportedAsStored
<1> SUFFICES ASSUME BcastInv, pc = "completed" PROVE With(result, "succeeded") = stored
  BY DEF ReportedAsStored
<1>1. \A m \in Members : result[m] = "succeeded" <=> m \in stored
  BY DEF BcastInv, MemberInv
<1>2. stored \subseteq Members
  BY DEF BcastInv, TypeOK
<1> QED BY <1>1, <1>2 DEF With

\* Status, summary, journal and store of a broadcast agree with each other and
\* with what the agents got, whatever fails, comes late or is killed.
THEOREM SummaryTrue == Spec => []SummaryIsTrue
<1>1. Init => BcastInv
  BY InitBcast
<1>2. BcastInv /\ [Next]_vars => BcastInv'
  BY NextBcast
<1>3. BcastInv => SummaryIsTrue
  BY Reported DEF BcastInv, SummaryIsTrue
<1> QED BY <1>1, <1>2, <1>3, PTL DEF Spec
=============================================================================
