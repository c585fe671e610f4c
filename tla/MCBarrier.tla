----------------------------- MODULE MCBarrier -----------------------------
(* Values of --state: omitted, one outcome, or an outcome with a state on  *)
(* the way to it and one that commands guess.                              *)
EXTENDS Barrier

Outcomes == {"working", "completed", "failed", "cancelled"}
TwoOutcomes == {"working", "completed", "cancelled"}
Completed == {{"completed"}}
OmittedOrOnTheWay == {{}, {"working", "submitted", "cancelled"}}
=============================================================================
