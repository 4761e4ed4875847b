------------------------------ MODULE Bindings ------------------------------
(***************************************************************************)
(* Commands run from Lua: src/lib/interpreter.c on top of the event loop.  *)
(*                                                                         *)
(* run_command and run_util keep the functions to be called back in the    *)
(* registry of Lua, under names that are kept in a structure on the heap,  *)
(* until the command ends; whether it is ever waited for, and by whom, is  *)
(* up to the caller.  move and copy run mv and cp with a callback that     *)
(* writes into the frame of the C function, which waits.  The callbacks    *)
(* of either may be called while the other waits.                          *)
(***************************************************************************)
EXTENDS Events

CONSTANTS Moves,      \* the commands run by move and copy, the others by run_util
          Postforked  \* those with a function to be called after the fork

ASSUME MovesAssumption == Moves \subseteq Cmds \ Timed
ASSUME PostforkedAssumption == Postforked \subseteq Cmds \ Moves

VARIABLES
  frame,     \* the command of the lua_move that is on the C stack, if any
  registry,  \* what is in the table "libupdater" of the registry
  data       \* commands whose struct lua_command_data is allocated

lua == <<frame, registry, data>>

Init_L == Init /\ frame = {} /\ registry = {} /\ data = {}

\* register_value is called for each function that is given.
Registered(c) == ({"terminated"} \cup IF c \in Postforked THEN {"postfork"} ELSE {}) \X {c}

\* lua_run_generic.
Run(c) == /\ c \notin Moves
          /\ frame = {}
          /\ data' = data \cup {c}
          /\ registry' = registry \cup Registered(c)
          /\ Fork(c)
          /\ UNCHANGED frame

\* lua_move and lua_copy, up to the fork in run_util.
Move(c) == /\ c \in Moves
           /\ frame = {}
           /\ frame' = {c}
           /\ Fork(c)
           /\ UNCHANGED <<registry, data>>

\* lua_events_wait, or the wait in lua_move.
WaitFor(s) == /\ frame # {} => s = frame
              /\ Wait(s)
              /\ UNCHANGED lua

\* Fault: the function called after the fork is taken for gone.
FreeTerminated(c) == /\ registry' = registry \ {<<"terminated", c>>}
                     /\ data' = data \ {c}

\* command_terminated takes all that Lua keeps for the command; mv_result
\* only writes into the frame.
FreeData(c) == /\ registry' = registry \ ({"terminated", "postfork"} \X {c})
               /\ data' = data \ {c}

Terminated(c) == /\ DispatchCommand(c)
                 /\ IF c \in Moves THEN UNCHANGED <<registry, data>> ELSE FreeData(c)
                 /\ UNCHANGED frame

\* lua_move returns when events_wait does.
Return == /\ PendingDone
          /\ frame' = IF pc' = "idle" THEN {} ELSE frame
          /\ UNCHANGED <<registry, data>>

Call_L == \/ \E c \in Cmds : Run(c) \/ Move(c) \/ Terminated(c)
          \/ \E s \in (SUBSET commands) \ {{}} : WaitFor(s)
          \/ Return
          \/ /\ \/ \E c \in Cmds : \/ Register(c) \/ Reap(c) \/ DispatchChild(c)
                                   \/ \E o \in Outputs : CommandEvent(o, c)
                                   \/ \E g \in Signals : SignalSend(g, c)
                \/ \E expired \in SUBSET Scheduled : Turn(expired)
                \/ Recv \/ ReapDone \/ TurnDone
             /\ UNCHANGED lua

Next_L == Call_L \/ \E c \in Cmds : Process(c) /\ UNCHANGED lua

vars_L == <<vars, lua>>

Spec_L == Init_L /\ [][Next_L]_vars_L

FairSpec_L == /\ Spec_L
              /\ WF_vars_L(pc # "idle" /\ Call_L)
              /\ \A c \in Cmds : WF_vars_L(Ending(c) /\ UNCHANGED lua)

-----------------------------------------------------------------------------
(* Whoever waits for whatever, a callback finds its data: a command that   *)
(* may still call back has its entries in the registry and its structure   *)
(* on the heap, or its lua_move has not returned ("this may be called from *)
(* C code with a dirty stack").  Nothing is kept longer than that.         *)
CallbackDataKept ==
  LET live == {c \in Cmds : proc[c] # "none" /\ called[c] = 0} IN
  /\ registry = UNION {Registered(c) : c \in live \ Moves}
  /\ data = live \ Moves
  /\ live \cap Moves \subseteq frame
=============================================================================
