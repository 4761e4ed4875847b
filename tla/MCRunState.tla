----------------------------- MODULE MCRunState -----------------------------
(***************************************************************************)
(* Processes competing for the lock.                                       *)
(***************************************************************************)
EXTENDS RunState, TLC

CONSTANTS p1, p2, p3

MCTwo == {p1, p2}
MCThree == {p1, p2, p3}
=============================================================================
