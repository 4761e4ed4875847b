----------------------------- MODULE MCJournal -----------------------------
(***************************************************************************)
(* The journal alone, used in any order its functions allow.               *)
(***************************************************************************)
EXTENDS Journal, TLC

CONSTANTS none, result, norec

MCParams == {none, result}
=============================================================================
