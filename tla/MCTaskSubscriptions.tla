------------------------ MODULE MCTaskSubscriptions ------------------------
(* Values for the CONSTANTS of TaskSubscriptions, and the steps            *)
(* subs_overlap is limited to: one task between two gateways, one between  *)
(* a gateway and a follow-up, or two tasks of two agents in one.           *)
EXTENDS TaskSubscriptions

CONSTANTS g1, g2, echo, relay

OneTask == {1}
TwoTasks == {1, 2}
OneAgent == <<echo>>
TwoAgents == <<echo, relay>>

OnlyFirst ==
  /\ task'[2] = "absent" /\ moves'[2] = 0 /\ card'[relay] = "plain"
  /\ \A g \in Gateways : polled'[g] # <<>> => Head(polled'[g]).id = 1

\* Two gateways that overlap on the first task; nobody follows up, and the
\* jobs hold one answer at a time.
OneAtTwo == OnlyFirst /\ followUps' = 0 /\ Len(polled'[g1] \o polled'[g2]) <= 1

\* A gateway, its job and a foreground stream on the first task.
OneFollowedUp == OnlyFirst /\ proc'[g2] = "down" /\ stops' <= 1

\* One gateway, restarted once, that scans two tasks and runs no jobs.
TwoAtOne ==
  /\ proc'[g2] = "down" /\ stops' <= 1 /\ polled'[g1] = <<>> /\ followUps' = 0
  /\ \A t \in Tasks : moves'[t] <= 1

OneOrTheOther == OneAtTwo \/ OneFollowedUp \/ TwoAtOne
=============================================================================
