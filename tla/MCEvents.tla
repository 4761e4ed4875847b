------------------------------ MODULE MCEvents ------------------------------
(***************************************************************************)
(* A cp with limits, run from Lua, and an mv without.                      *)
(***************************************************************************)
EXTENDS Bindings

CONSTANTS cp, mv

MCCmds == {cp, mv}
MCTimed == {cp}
MCMoves == {mv}
MCPostforked == {cp}
=============================================================================
