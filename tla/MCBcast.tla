------------------------------ MODULE MCBcast ------------------------------
(* A group of three ranks; agents that may choose the same message id.     *)
EXTENDS Bcast

ThreeMembers == 1 .. 3
=============================================================================
