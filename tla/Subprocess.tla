----------------------------- MODULE Subprocess -----------------------------
(***************************************************************************)
(* Running a maintainer script or a hook: subprocloc of                    *)
(* src/lib/subprocess.c.                                                   *)
(*                                                                         *)
(* The updater forks the command, blocks SIGCHLD, and polls the two pipes  *)
(* the command writes to and a signalfd that tells of the signal.  It ends *)
(* the poll loop when both pipes are hung up, when SIGCHLD has come, or    *)
(* when the time is over for the second time.  The command may leave a     *)
(* process in the background that keeps its outputs open.                  *)
(*                                                                         *)
(* poll(2) looks at one descriptor after the other, so that the command    *)
(* may do something between two looks.                                     *)
(***************************************************************************)
EXTENDS Integers, FiniteSets

CONSTANTS Timeout,      \* time limit of the command in ticks of time(2)
          KillTimeout,  \* kill_timeout: time from SIGTERM to SIGKILL
          MaxClock,     \* bound of the clock, beyond both limits
          Writes        \* bound of what is in each pipe at a time

ASSUME TimesAssumption == /\ Timeout \in Nat /\ KillTimeout \in Nat
                          /\ MaxClock \in Nat
                          /\ Timeout + KillTimeout <= MaxClock
ASSUME WritesAssumption == Writes \in Nat

VARIABLES
  pc,        \* where subprocloc is
  seen,      \* revents of the poll: hung up pipes, readable pipes, "SIGCHLD"
  deadline,  \* timeout, as it is extended
  sent,      \* "none", "TERM" or "KILL": the last signal sent to the command
  child,     \* "running", "zombie" or "reaped"
  writers,   \* [Pipes -> SUBSET {"child", "background"}]: who has it open
  unread,    \* [Pipes -> Nat]: data in the pipe
  signal,    \* SIGCHLD is pending
  clock,
  late,      \* history: [Pipes -> Nat]: written since poll looked at the pipe, up to
             \* what a pipe can have
  termed,    \* history: when SIGTERM was sent
  unheard    \* history: the command ended before SIGCHLD was blocked

parent == <<pc, deadline, sent, termed>>
command == <<child, writers, signal, unheard>>
vars == <<pc, seen, deadline, sent, child, writers, unread, signal, clock, late, termed,
          unheard>>

Pipes == {"out", "err"}
Looks == {"look_out", "look_err", "look_signal"}
Reads == {"read_out", "read_err"}
Stages == Looks \cup Reads \cup {"fork", "asleep", "siginfo", "time", "closed", "done"}
Events == ({"in", "hup"} \X Pipes) \cup {<<"in", "SIGCHLD">>}

Init == /\ pc = "fork"
        /\ seen = {}
        /\ deadline = Timeout
        /\ sent = "none"
        /\ child = "running"
        /\ writers = [p \in Pipes |-> {"child"}]
        /\ unread = [p \in Pipes |-> 0]
        /\ signal = FALSE
        /\ clock = 0
        /\ late = [p \in Pipes |-> 0]
        /\ termed = 0
        /\ unheard = FALSE

-----------------------------------------------------------------------------
\* The command.  Its end makes SIGCHLD pending if that is blocked already, and
\* is not told of otherwise.

Write(p) == /\ writers[p] # {}
            /\ unread[p] < Writes
            /\ unread' = [unread EXCEPT ![p] = @ + 1]
            /\ late' = [late EXCEPT ![p] = IF @ < Writes THEN @ + 1 ELSE @]
            /\ UNCHANGED <<parent, command, seen, clock>>

\* It may also close its outputs, or redirect them, and run on.
CloseOutput(p) == /\ child = "running"
                  /\ writers' = [writers EXCEPT ![p] = @ \ {"child"}]
                  /\ UNCHANGED <<parent, child, signal, unheard, seen, unread, clock, late>>

StartBackground == /\ child = "running"
                   /\ writers' = [p \in Pipes |-> IF "child" \in writers[p]
                                              THEN writers[p] \cup {"background"}
                                              ELSE writers[p]]
                   /\ UNCHANGED <<parent, child, signal, unheard, seen, unread, clock, late>>

Exit == /\ child = "running"
        /\ child' = "zombie"
        /\ writers' = [p \in Pipes |-> writers[p] \ {"child"}]
        /\ signal' = (pc # "fork")
        /\ unheard' = (pc = "fork")
        /\ UNCHANGED <<parent, seen, unread, clock, late>>

Killed == sent = "KILL" /\ Exit

Tick == /\ clock < MaxClock
        /\ clock' = clock + 1
        /\ UNCHANGED <<parent, command, seen, unread, late>>

-----------------------------------------------------------------------------
Goto(stage) == pc' = stage /\ UNCHANGED <<deadline, sent, termed>>

\* sigprocmask and signalfd.
Block == /\ pc = "fork"
         /\ Goto("look_out")
         /\ UNCHANGED <<command, seen, unread, clock, late>>

Ready(p) == (IF unread[p] > 0 THEN {<<"in", p>>} ELSE {})
            \cup (IF writers[p] = {} THEN {<<"hup", p>>} ELSE {})
Told == IF signal THEN {<<"in", "SIGCHLD">>} ELSE {}
Expired == clock >= deadline

\* poll looks at the descriptors in their order.
LookAt(p, next) == /\ seen' = (seen \ ({"in", "hup"} \X {p})) \cup Ready(p)
                   /\ late' = [late EXCEPT ![p] = 0]
                   /\ Goto(next)
                   /\ UNCHANGED <<command, unread, clock>>

LookOut == pc = "look_out" /\ LookAt("out", "look_err")
LookErr == pc = "look_err" /\ LookAt("err", "look_signal")

LookSignal == LET all == (seen \ {<<"in", "SIGCHLD">>}) \cup Told
              IN /\ pc = "look_signal"
                 /\ seen' = all
                 /\ Goto(IF all = {} /\ ~Expired THEN "asleep" ELSE "read_out")
                 /\ UNCHANGED <<command, unread, clock, late>>

\* Fault: poll has no time limit.
WakeOnEvent == /\ pc = "asleep"
               /\ Told # {} \/ \E p \in Pipes : Ready(p) # {}
               /\ Goto("look_out")
               /\ UNCHANGED <<command, seen, unread, clock, late>>

\* It sleeps until there is something to see, and looks at all of them again.
Wake == /\ pc = "asleep"
        /\ Expired \/ Told # {} \/ \E p \in Pipes : Ready(p) # {}
        /\ Goto("look_out")
        /\ UNCHANGED <<command, seen, unread, clock, late>>

\* One read(2) from a pipe that poll found readable; what it got is forwarded.
Read(p) == /\ <<"in", p>> \in seen
           /\ \E n \in 1..unread[p] : unread' = [unread EXCEPT ![p] = @ - n]
           /\ UNCHANGED <<parent, command, seen, clock, late>>

ReadOut == pc = "read_out" /\ Read("out")
ReadErr == pc = "read_err" /\ Read("err")

\* Fault: the pipes are not read any more once SIGCHLD has come.
ReadDoneTold(p, next) ==
  /\ <<"in", p>> \in seen /\ <<"in", "SIGCHLD">> \notin seen => unread[p] = 0
  /\ Goto(next)
  /\ UNCHANGED <<command, seen, unread, clock, late>>

\* The loop goes on until read(2) finds nothing: a command that always has
\* written something again keeps the updater in it.
ReadDone(p, next) == /\ <<"in", p>> \in seen => unread[p] = 0
                     /\ Goto(next)
                     /\ UNCHANGED <<command, seen, unread, clock, late>>

ReadOutDone == pc = "read_out" /\ ReadDone("out", "read_err")
ReadErrDone == pc = "read_err" /\ ReadDone("err", "siginfo")

HungUp == \A p \in Pipes : <<"hup", p>> \in seen

\* Read the signalfd.  The loop ends when the command is taken for dead.
ReadSignal == /\ pc = "siginfo"
              /\ signal' = (signal /\ <<"in", "SIGCHLD">> \notin seen)
              /\ Goto(IF <<"in", "SIGCHLD">> \in seen \/ HungUp THEN "closed" ELSE "time")
              /\ UNCHANGED <<child, writers, unheard, seen, unread, clock, late>>

InTime == /\ pc = "time"
          /\ ~Expired
          /\ Goto("look_out")
          /\ UNCHANGED <<command, seen, unread, clock, late>>

\* The limit is over: SIGTERM, and more time.
Term == /\ pc = "time"
        /\ Expired /\ sent = "none"
        /\ sent' = "TERM"
        /\ termed' = clock
        /\ deadline' = deadline + KillTimeout
        /\ pc' = "look_out"
        /\ UNCHANGED <<command, seen, unread, clock, late>>

\* That is over as well: SIGKILL.
Kill == /\ pc = "time"
        /\ Expired /\ sent = "TERM"
        /\ sent' = "KILL"
        /\ pc' = "closed"
        /\ UNCHANGED <<command, deadline, termed, seen, unread, clock, late>>

\* The descriptors are closed, SIGCHLD is unblocked; waitpid.
Reap == /\ pc = "closed"
        /\ child = "zombie"
        /\ child' = "reaped"
        /\ signal' = FALSE
        /\ Goto("done")
        /\ UNCHANGED <<writers, unheard, seen, unread, clock, late>>

Call == \/ Block \/ LookOut \/ LookErr \/ LookSignal \/ Wake
        \/ ReadOut \/ ReadOutDone \/ ReadErr \/ ReadErrDone \/ ReadSignal
        \/ InTime \/ Term \/ Kill \/ Reap

Next == Call \/ Tick \/ StartBackground \/ Exit
        \/ \E p \in Pipes : Write(p) \/ CloseOutput(p)

Spec == Init /\ [][Next]_vars

\* The updater runs, time passes, and SIGKILL kills.
FairSpec == Spec /\ WF_vars(Call) /\ WF_vars(Tick) /\ WF_vars(Killed)

-----------------------------------------------------------------------------
(* The variables have their types.                                         *)
TypeOK == /\ pc \in Stages
          /\ seen \subseteq Events
          /\ deadline \in {Timeout, Timeout + KillTimeout}
          /\ sent \in {"none", "TERM", "KILL"}
          /\ child \in {"running", "zombie", "reaped"}
          /\ writers \in [Pipes -> SUBSET {"child", "background"}]
          /\ unread \in [Pipes -> 0..Writes]
          /\ late \in [Pipes -> 0..Writes]
          /\ {signal, unheard} \subseteq BOOLEAN
          /\ clock \in 0..MaxClock
          /\ termed \in 0..MaxClock

(* What the command wrote before poll looked at the pipe for the last time *)
(* has been forwarded when the pipes are closed, however the command came  *)
(* to its end.                                                             *)
OutputForwarded == pc \in {"closed", "done"} => \A p \in Pipes : unread[p] <= late[p]

(* SIGTERM is not sent before the limit is over, and SIGKILL only to a     *)
(* command that had SIGTERM, after both limits, though every piece of      *)
(* output wakes the loop.  (Both are counted from the start: a loop that   *)
(* was held up may send one right after the other.)                        *)
Grace == /\ sent \in {"TERM", "KILL"} => termed >= Timeout
         /\ sent = "KILL" => clock >= Timeout + KillTimeout

\* The call has returned, or the command runs on with both outputs closed,
\* which the loop takes for its end.
Returned == pc = "done" \/ (child = "running" /\ \A p \in Pipes : writers[p] = {})

\* From some time on the updater does nothing but read one of the pipes, in
\* which there is something again each time.
Flooded == <>[](pc = "read_out") \/ <>[](pc = "read_err")

(* A command is not waited for without a limit: the call returns, whatever *)
(* the command does with signals and outputs, if it lets the updater read  *)
(* a pipe empty now and then (subprocess.c 156, 174).                      *)
Returns == Flooded \/ <>Returned

(* So it does for any command: "This tests if we are able to correctly     *)
(* timeout process with non-empty pipes" (tests/c/subprocess.c 47).  The   *)
(* code that reads them (subprocess.c 156) has no limit.                   *)
LimitKept == <>Returned

(* "We detect process termination without waiting for timeout": a command  *)
(* that has ended while the loop is asleep is about to wake it, by the     *)
(* signal or by a pipe that is hung up (tests/c/subprocess.c 56).          *)
TerminationDetected ==
  pc = "asleep" /\ child = "zombie" => signal \/ \E p \in Pipes : writers[p] = {}

(* So it is, whoever keeps the outputs open, for a command that ends after *)
(* SIGCHLD was blocked (subprocess.c 130), which is after the fork.        *)
EndNoticed == ~unheard => TerminationDetected
=============================================================================
