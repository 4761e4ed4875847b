---------------------------- MODULE MCSubprocess ----------------------------
(***************************************************************************)
(* A command with a limit of two ticks and two more after SIGTERM.         *)
(***************************************************************************)
EXTENDS Subprocess
=============================================================================
