------------------------------- MODULE Events -------------------------------
(***************************************************************************)
(* The event loop that runs cp and mv: src/lib/events.c.                   *)
(*                                                                         *)
(* run_command forks a command and registers it twice: as a command, with  *)
(* buffers for its outputs and time limits, and as a child to be waited    *)
(* for.  The handler of SIGCHLD writes a byte to a socket pair that the    *)
(* loop reads; chld_event then reaps all zombies.  Callbacks are not       *)
(* called inside the loop of libevent but put into the queue pending,      *)
(* which events_wait works off after each turn.                            *)
(*                                                                         *)
(* A command is complete when its child callback was called and both       *)
(* outputs are at their end.  The input of a command, which no caller      *)
(* gives, and watch_cancel, which nobody calls, are left out.              *)
(***************************************************************************)
EXTENDS Integers, Sequences, FiniteSets

CONSTANTS Cmds,   \* the commands that may be run, each once
          Timed,  \* those with time limits, as cp in pkg_merge_control; mv has none
          Self    \* in the place of a command: the event is the loop's own

ASSUME TimedAssumption == Timed \subseteq Cmds
ASSUME SelfAssumption == Self \notin Cmds

VARIABLES
  pc,        \* where the updater is, see Stages
  ids,       \* ids events_wait was called for
  proc,      \* [Cmds -> {"none", "running", "zombie", "reaped"}]
  writers,   \* [Cmds -> [Outputs -> SUBSET {"child", "background"}]]
  children,  \* events->children
  commands,  \* events->commands
  running,   \* commands with the flag running
  buffers,   \* [Cmds -> SUBSET Outputs]: output_buffer, error_buffer
  timers,    \* [Cmds -> SUBSET Signals]: timers that have not fired
  sent,      \* [Cmds -> SUBSET Signals]: signals sent to the process group
  armed,     \* self_chld: the handler of SIGCHLD is there
  wake,      \* something is in the self socket pair
  active,    \* events libevent has seen in this turn and not handled yet
  pending,   \* events->pending
  called     \* history: [Cmds -> Nat]: calls of the callback

process == <<proc, writers>>
registered == <<children, commands, running, buffers, timers>>
vars == <<pc, ids, process, registered, sent, armed, wake, active, pending, called>>

Outputs == {"output", "error"}
Signals == {"TERM", "KILL"}
Stages == {"idle", "wait", "handle", "reap", "pending"}
Chld == <<"chld", Self>>
Sources == {Chld} \cup ((Outputs \cup Signals) \X Cmds)
Postponed == {"child", "command"} \X Cmds

Init == /\ pc = "idle" /\ ids = {}
        /\ proc = [c \in Cmds |-> "none"]
        /\ writers = [c \in Cmds |-> [o \in Outputs |-> {}]]
        /\ children = {} /\ commands = {} /\ running = {}
        /\ buffers = [c \in Cmds |-> {}]
        /\ timers = [c \in Cmds |-> {}]
        /\ sent = [c \in Cmds |-> {}]
        /\ armed = FALSE /\ wake = FALSE
        /\ active = {}
        /\ pending = <<>>
        /\ called = [c \in Cmds |-> 0]

-----------------------------------------------------------------------------
\* The processes.

Exit(c) == /\ proc[c] = "running"
           /\ proc' = [proc EXCEPT ![c] = "zombie"]
           /\ writers' = [writers EXCEPT ![c] = [o \in Outputs |-> @[o] \ {"child"}]]
           /\ wake' = (wake \/ armed)
           /\ UNCHANGED <<pc, ids, registered, sent, armed, active, pending, called>>

CloseOutput(c, o) == /\ proc[c] = "running"
                     /\ "child" \in writers[c][o]
                     /\ writers' = [writers EXCEPT ![c][o] = @ \ {"child"}]
                     /\ UNCHANGED <<pc, ids, proc, registered, sent, armed, wake, active,
                                    pending, called>>

\* A process started by the command keeps its outputs, for as long as it likes.
StartBackground(c) == /\ proc[c] = "running"
                      /\ writers' = [writers EXCEPT ![c] = [o \in Outputs |->
                           IF "child" \in @[o] THEN @[o] \cup {"background"} ELSE @[o]]]
                      /\ UNCHANGED <<pc, ids, proc, registered, sent, armed, wake, active,
                                     pending, called>>

EndBackground(c) == /\ \E o \in Outputs : "background" \in writers[c][o]
                    /\ writers' = [writers EXCEPT ![c] =
                                     [o \in Outputs |-> @[o] \ {"background"}]]
                    /\ UNCHANGED <<pc, ids, proc, registered, sent, armed, wake, active,
                                   pending, called>>

-----------------------------------------------------------------------------
Forked == {c \in Cmds : proc[c] # "none" /\ c \notin commands /\ called[c] = 0}

\* run_child: its outputs are the new process's alone.
Child == [o \in Outputs |-> {"child"}]

\* run_command_a up to the fork.
Fork(c) == /\ pc = "idle" /\ Forked = {}
           /\ proc[c] = "none"
           /\ proc' = [proc EXCEPT ![c] = "running"]
           /\ writers' = [writers EXCEPT ![c] = Child]
           /\ UNCHANGED <<pc, ids, registered, sent, armed, wake, active, pending, called>>

\* The records of a command and of a child.
Watch(c) == /\ children' = children \cup {c}
            /\ commands' = commands \cup {c}
            /\ running' = running \cup {c}
            /\ buffers' = [buffers EXCEPT ![c] = Outputs]
            /\ timers' = [timers EXCEPT ![c] = IF c \in Timed THEN Signals ELSE {}]
            /\ armed' = TRUE

\* Fault: the loop is not woken up for a child that is dead already.
RegisterAsleep(c) == /\ c \in Forked
                     /\ Watch(c)
                     /\ UNCHANGED <<pc, ids, process, sent, wake, active, pending, called>>

\* register_command, with watch_child.
Register(c) == /\ c \in Forked
               /\ Watch(c)
               /\ wake' = TRUE
               /\ UNCHANGED <<pc, ids, process, sent, active, pending, called>>

\* events_wait is called for commands that have been run.
Wait(s) == /\ pc = "idle" /\ Forked = {}
           /\ pc' = "wait"
           /\ ids' = s
           /\ UNCHANGED <<process, registered, sent, armed, wake, active, pending, called>>

-----------------------------------------------------------------------------
Ready == (IF wake THEN {Chld} ELSE {})
         \cup {e \in Outputs \X Cmds : e[1] \in buffers[e[2]] /\ writers[e[2]][e[1]] = {}}

Scheduled == {e \in Signals \X Cmds : e[1] \in timers[e[2]]}

\* event_base_loop wakes up for what is ready and for limits that are over.
\* libevent tells nothing of the order in which it handles the events of a turn.
Turn(expired) == /\ pc = "wait" /\ pending = <<>>
                 /\ active' = Ready \cup expired
                 /\ active' # {}
                 /\ pc' = "handle"
                 /\ UNCHANGED <<ids, process, registered, sent, armed, wake, pending, called>>

Handle(e) == /\ pc = "handle" /\ e \in active
             /\ active' = active \ {e}

\* chld_event empties the socket first ...
Recv == /\ Handle(Chld)
        /\ pc' = "reap"
        /\ wake' = FALSE
        /\ UNCHANGED <<ids, process, registered, sent, armed, pending, called>>

\* ... and reaps the zombies one by one ...
Reap(c) == /\ pc = "reap"
           /\ proc[c] = "zombie"
           /\ proc' = [proc EXCEPT ![c] = "reaped"]
           /\ pending' = IF c \in children THEN Append(pending, <<"child", c>>) ELSE pending
           /\ UNCHANGED <<pc, ids, writers, registered, sent, armed, wake, active, called>>

\* Fault: waitpid is not called again.
ReapSome == /\ pc = "reap"
            /\ pc' = "handle"
            /\ UNCHANGED <<ids, process, registered, sent, armed, wake, active, pending, called>>

\* ... until there is none.
ReapDone == /\ pc = "reap"
            /\ \A c \in Cmds : proc[c] # "zombie"
            /\ pc' = "handle"
            /\ UNCHANGED <<ids, process, registered, sent, armed, wake, active, pending, called>>

-----------------------------------------------------------------------------
\* Fault: error_buffer is not looked at.
CheckOutput(c, queue) ==
  pending' = IF "output" \notin buffers'[c] /\ c \notin running'
             THEN Append(queue, <<"command", c>>) ELSE queue

\* command_check_complete, after its caller's changes.
CheckComplete(c, queue) ==
  pending' = IF buffers'[c] = {} /\ c \notin running'
             THEN Append(queue, <<"command", c>>) ELSE queue

\* command_event: an output has come to its end.
CommandEvent(o, c) == /\ Handle(<<o, c>>)
                      /\ o \in buffers[c]
                      /\ buffers' = [buffers EXCEPT ![c] = @ \ {o}]
                      /\ UNCHANGED running
                      /\ CheckComplete(c, pending)
                      /\ UNCHANGED <<pc, ids, process, children, commands, timers, sent, armed,
                                     wake, called>>

\* command_send_term, command_send_kill.
SignalSend(g, c) == /\ Handle(<<g, c>>)
                    /\ g \in timers[c]
                    /\ timers' = [timers EXCEPT ![c] = @ \ {g}]
                    /\ sent' = [sent EXCEPT ![c] = IF c \in running THEN @ \cup {g} ELSE @]
                    /\ UNCHANGED <<pc, ids, process, children, commands, running, buffers, armed,
                                   wake, pending, called>>

TurnDone == /\ pc = "handle" /\ active = {}
            /\ pc' = "pending"
            /\ UNCHANGED <<ids, process, registered, sent, armed, wake, active, pending, called>>

\* The entry at the head is looked up, which must succeed, its callback called.
Dispatch(kind, c) == /\ pc = "pending" /\ pending # <<>>
                     /\ Head(pending) = <<kind, c>>

\* command_terminated_callback, then child_pop.
DispatchChild(c) == /\ Dispatch("child", c)
                    /\ c \in children
                    /\ running' = running \ {c}
                    /\ children' = children \ {c}
                    /\ UNCHANGED buffers
                    /\ CheckComplete(c, Tail(pending))
                    /\ UNCHANGED <<pc, ids, process, commands, timers, sent, armed, wake, active,
                                   called>>

\* The callback of the caller, then command_free.
DispatchCommand(c) == /\ Dispatch("command", c)
                      /\ c \in commands
                      /\ called' = [called EXCEPT ![c] = @ + 1]
                      /\ commands' = commands \ {c}
                      /\ buffers' = [buffers EXCEPT ![c] = {}]
                      /\ timers' = [timers EXCEPT ![c] = {}]
                      /\ pending' = Tail(pending)
                      /\ UNCHANGED <<pc, ids, process, children, running, sent, armed, wake, active>>

\* Fault: it returns after one turn.
PendingDoneReturns == /\ pc = "pending" /\ pending = <<>>
                      /\ pc' = "idle"
                      /\ UNCHANGED <<ids, process, registered, sent, armed, wake, active, pending,
                                     called>>

\* events_wait returns when none of its ids is registered any more.
PendingDone == /\ pc = "pending" /\ pending = <<>>
               /\ pc' = IF ids \cap commands = {} THEN "idle" ELSE "wait"
               /\ UNCHANGED <<ids, process, registered, sent, armed, wake, active, pending, called>>

-----------------------------------------------------------------------------
Call == \/ \E c \in Cmds : \/ Fork(c) \/ Register(c) \/ Reap(c)
                           \/ DispatchChild(c) \/ DispatchCommand(c)
                           \/ \E o \in Outputs : CommandEvent(o, c)
                           \/ \E g \in Signals : SignalSend(g, c)
        \/ \E s \in (SUBSET commands) \ {{}} : Wait(s)
        \/ \E expired \in SUBSET Scheduled : Turn(expired)
        \/ Recv \/ ReapDone \/ TurnDone \/ PendingDone

Process(c) == \/ Exit(c) \/ StartBackground(c) \/ EndBackground(c)
              \/ \E o \in Outputs : CloseOutput(c, o)

Next == Call \/ \E c \in Cmds : Process(c)

Spec == Init /\ [][Next]_vars

\* A command without limits ends by itself, one that got SIGKILL has no choice.
Ending(c) == (c \notin Timed \/ "KILL" \in sent[c]) /\ Exit(c)

\* The updater runs, time with it, so that limits come to their end.
FairSpec == /\ Spec
            /\ WF_vars(pc # "idle" /\ Call)
            /\ \A c \in Cmds : WF_vars(Ending(c))

-----------------------------------------------------------------------------
(* The variables have their types.                                         *)
TypeOK == /\ pc \in Stages
          /\ ids \subseteq Cmds
          /\ proc \in [Cmds -> {"none", "running", "zombie", "reaped"}]
          /\ writers \in [Cmds -> [Outputs -> SUBSET {"child", "background"}]]
          /\ children \subseteq Cmds /\ commands \subseteq Cmds /\ running \subseteq Cmds
          /\ buffers \in [Cmds -> SUBSET Outputs]
          /\ timers \in [Cmds -> SUBSET Signals]
          /\ sent \in [Cmds -> SUBSET Signals]
          /\ armed \in BOOLEAN /\ wake \in BOOLEAN
          /\ active \subseteq Sources
          /\ pending \in Seq(Postponed)
          /\ called \in [Cmds -> Nat]

(* "It would make it possible to lose a zombie if it arrived in between":  *)
(* whenever a child that is waited for is dead, the loop has a reason to   *)
(* call waitpid, however the child's end, its registration and the reaping *)
(* of others fall together.                                                *)
NoZombieLost == (\E c \in children : proc[c] = "zombie") =>
                  wake \/ Chld \in active \/ pc = "reap"

(* The assertions of events_wait: what is in the queue is still registered *)
(* when its turn comes, and is in the queue only once.                     *)
PendingRegistered ==
  /\ \A n \in DOMAIN pending :
       pending[n][2] \in IF pending[n][1] = "child" THEN children ELSE commands
  /\ \A m, n \in DOMAIN pending : pending[m] = pending[n] => m = n

(* The callback of a command is called once, and not before the command is *)
(* dead, reaped, and both of its outputs have been read to their end.      *)
CalledWhenComplete ==
  [][\A c \in Cmds : called'[c] # called[c] =>
       /\ called[c] = 0
       /\ proc[c] = "reaped"
       /\ buffers[c] = {} /\ \A o \in Outputs : writers[c][o] = {}]_vars

(* events_wait returns, unless a process in the background keeps an output *)
(* of a command that is waited for: no limit ends that.                    *)
WaitReturns ==
  pc = "wait" ~> \/ pc = "idle"
                 \/ \E c \in ids, o \in Outputs : "background" \in writers[c][o]
=============================================================================
