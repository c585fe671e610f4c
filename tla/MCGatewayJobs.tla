--------------------------- MODULE MCGatewayJobs ---------------------------
(* Values for the CONSTANTS of GatewayJobs, and the steps jobs_overlap is  *)
(* limited to: a send job between two gateways, a stream or a reduce job   *)
(* in one.                                                                 *)
EXTENDS GatewayJobs

CONSTANTS g1, g2, echo, team

OneJob == {1}
TwoJobs == {1, 2}
ThreeJobs == {1, 2, 3}

OneSend == <<"send">>
OneAgent == <<echo>>
Once == <<1>>

\* A send job and a wait job of the same agent.
SendWait == <<"send", "wait">>
SameAgent == <<echo, echo>>
TwiceOnce == <<2, 1>>

\* A send and a stream job of an agent and a reduce job of a group.
SendStreamReduce == <<"send", "stream", "reduce">>
AgentOrGroup == <<echo, echo, team>>
TwiceEach == <<2, 2, 2>>

NotEnqueued(j) == row'[j].state = "absent"

\* Two gateways that overlap on the send job.
SendAtTwo == NotEnqueued(2) /\ NotEnqueued(3) /\ team \in registered'

\* One gateway, restarted once, with one of the others.
OthersAtOne ==
  NotEnqueued(1) /\ (NotEnqueued(2) \/ NotEnqueued(3)) /\ proc'[g2] = "down" /\ stops' <= 1

OneOrTheOther == SendAtTwo \/ OthersAtOne
=============================================================================
