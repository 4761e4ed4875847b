-------------------------- MODULE SubprocessProofs --------------------------
(***************************************************************************)
(* Proofs about subprocloc, for all time limits and any amount of output.  *)
(***************************************************************************)
EXTENDS Subprocess, TLAPS

USE DEF TimesAssumption, WritesAssumption
USE TimesAssumption, WritesAssumption

\* The limit is extended once, with SIGTERM.
Extended == deadline = IF sent = "none" THEN Timeout ELSE Timeout + KillTimeout

LEMMA TypedAndExtended == Spec => [](TypeOK /\ Extended)
<1>1. Init => TypeOK /\ Extended
  <2> SUFFICES ASSUME Init PROVE TypeOK /\ Extended
    OBVIOUS
  <2>1. writers \in [Pipes -> SUBSET {"child", "background"}]
    BY DEF Init
  <2>2. unread \in [Pipes -> 0..Writes] /\ late \in [Pipes -> 0..Writes]
    BY DEF Init
  <2>3. clock \in 0..MaxClock /\ termed \in 0..MaxClock
    BY DEF Init
  <2> QED BY <2>1, <2>2, <2>3 DEF Init, TypeOK, Extended, Stages
<1>2. TypeOK /\ Extended /\ [Next]_vars => TypeOK' /\ Extended'
  <2> SUFFICES ASSUME TypeOK, Extended, [Next]_vars PROVE TypeOK' /\ Extended'
    OBVIOUS
  <2> USE DEF TypeOK, Extended, Goto, parent, command, Stages, Looks, Reads
  <2>1. CASE Block BY <2>1 DEF Block
  <2>2. ASSUME NEW p \in Pipes, NEW next \in {"look_err", "look_signal"}, LookAt(p, next)
        PROVE TypeOK' /\ Extended'
    BY <2>2 DEF LookAt, Ready, Events
  <2>3. CASE LookOut BY <2>2, <2>3 DEF LookOut, Pipes
  <2>4. CASE LookErr BY <2>2, <2>4 DEF LookErr, Pipes
  <2>5. CASE LookSignal BY <2>5 DEF LookSignal, Told, Events
  <2>6. CASE Wake BY <2>6 DEF Wake
  <2>7. ASSUME NEW p \in Pipes, Read(p) PROVE TypeOK' /\ Extended'
    BY <2>7 DEF Read
  <2>19. ASSUME NEW p \in Pipes, NEW next \in {"read_err", "siginfo"}, ReadDone(p, next)
         PROVE TypeOK' /\ Extended'
    BY <2>19 DEF ReadDone, Reads
  <2>20. CASE ReadOut \/ ReadErr \/ ReadOutDone \/ ReadErrDone
    BY <2>7, <2>19, <2>20 DEF ReadOut, ReadErr, ReadOutDone, ReadErrDone, Pipes
  <2>8. CASE ReadSignal BY <2>8 DEF ReadSignal
  <2>9. CASE InTime BY <2>9 DEF InTime
  <2>10. CASE Term BY <2>10 DEF Term
  <2>11. CASE Kill BY <2>11 DEF Kill
  <2>12. CASE Reap BY <2>12 DEF Reap
  <2>13. CASE Tick BY <2>13 DEF Tick
  <2>14. CASE StartBackground BY <2>14 DEF StartBackground
  <2>15. CASE Exit BY <2>15 DEF Exit
  <2>16. ASSUME NEW p \in Pipes, Write(p) PROVE TypeOK' /\ Extended'
    BY <2>16 DEF Write
  <2>17. ASSUME NEW p \in Pipes, CloseOutput(p) PROVE TypeOK' /\ Extended'
    BY <2>17 DEF CloseOutput
  <2>18. CASE UNCHANGED vars BY <2>18 DEF vars
  <2> QED BY <2>1, <2>3, <2>4, <2>5, <2>6, <2>8, <2>9, <2>10, <2>11, <2>12, <2>13, <2>14,
             <2>15, <2>16, <2>17, <2>18, <2>20 DEF Next, Call
<1> QED BY <1>1, <1>2, PTL DEF Spec

(* The variables have their types.                                         *)
THEOREM TypeCorrect == Spec => []TypeOK
  BY TypedAndExtended, PTL

-----------------------------------------------------------------------------
(* SIGTERM comes after the limit, SIGKILL after SIGTERM and both limits.   *)
THEOREM SignalsInTime == Spec => []Grace
<1>1. Init => Grace
  BY DEF Init, Grace
<1>2. TypeOK /\ Extended /\ Grace /\ [Next]_vars => Grace'
  <2> SUFFICES ASSUME TypeOK, Extended, Grace, [Next]_vars PROVE Grace'
    OBVIOUS
  <2> USE DEF TypeOK, Extended, Grace, Goto
  <2>1. CASE Term BY <2>1 DEF Term, Expired
  <2>2. CASE Kill BY <2>2 DEF Kill, Expired, command
  <2>3. CASE Tick BY <2>3 DEF Tick, parent
  <2>4. ASSUME UNCHANGED <<sent, termed, clock>> PROVE Grace'
    BY <2>4
  <2>5. ASSUME NEW p \in Pipes, Write(p) \/ CloseOutput(p) PROVE UNCHANGED <<sent, termed, clock>>
    BY <2>5 DEF Write, CloseOutput, parent
  <2>6. CASE StartBackground \/ Exit \/ UNCHANGED vars
    BY <2>4, <2>6 DEF StartBackground, Exit, parent, vars
  <2>7. CASE Block \/ LookOut \/ LookErr \/ LookSignal \/ Wake \/ ReadSignal \/ InTime \/ Reap
    BY <2>4, <2>7 DEF Block, LookOut, LookErr, LookAt, LookSignal, Wake, ReadSignal, InTime, Reap
  <2>8. CASE ReadOut \/ ReadErr \/ ReadOutDone \/ ReadErrDone
    BY <2>4, <2>8 DEF ReadOut, ReadErr, ReadOutDone, ReadErrDone, Read, ReadDone, parent
  <2> QED BY <2>1, <2>2, <2>3, <2>4, <2>5, <2>6, <2>7, <2>8 DEF Next, Call
<1> QED BY <1>1, <1>2, TypedAndExtended, PTL DEF Spec

-----------------------------------------------------------------------------
\* What a pipe has now it did not have when poll looked at it last.
Fresh(p) == unread[p] <= late[p]

\* A pipe that poll did not report as readable had nothing.
Looked(p) == <<"in", p>> \in seen \/ Fresh(p)

Forwarding ==
  /\ pc = "look_err" => Looked("out")
  /\ pc \in {"look_signal", "read_out"} => \A p \in Pipes : Looked(p)
  /\ pc = "read_err" => Fresh("out") /\ Looked("err")
  /\ pc \in {"siginfo", "time", "closed", "done"} => \A p \in Pipes : Fresh(p)

\* Until the loop has ended, the signal of the command's end is there.
Heard == child = "zombie" /\ ~unheard /\ pc \notin {"closed", "done"} => signal

(* All that was written before poll looked for the last time is forwarded. *)
THEOREM AllForwarded == Spec => []OutputForwarded
<1>1. Init => Forwarding
  BY DEF Init, Forwarding
<1>2. TypeOK /\ Forwarding /\ [Next]_vars => Forwarding'
  <2> SUFFICES ASSUME TypeOK, Forwarding, [Next]_vars PROVE Forwarding'
    OBVIOUS
  <2> USE DEF TypeOK, Forwarding, Looked, Fresh, Goto, Pipes
  <2>1. CASE Block BY <2>1 DEF Block
  <2>2. CASE LookOut BY <2>2 DEF LookOut, LookAt, Ready
  <2>3. CASE LookErr BY <2>3 DEF LookErr, LookAt, Ready
  <2>4. CASE LookSignal BY <2>4 DEF LookSignal, Told, command
  <2>5. CASE Wake BY <2>5 DEF Wake
  <2>6. CASE ReadOut \/ ReadErr BY <2>6 DEF ReadOut, ReadErr, Read, parent
  <2>12. CASE ReadOutDone BY <2>12 DEF ReadOutDone, ReadDone
  <2>13. CASE ReadErrDone BY <2>13 DEF ReadErrDone, ReadDone
  <2>7. CASE ReadSignal \/ InTime \/ Term \/ Kill \/ Reap
    BY <2>7 DEF ReadSignal, InTime, Term, Kill, Reap
  <2>8. CASE Tick \/ StartBackground \/ Exit
    BY <2>8 DEF Tick, StartBackground, Exit, parent
  <2>9. ASSUME NEW p \in Pipes, Write(p) PROVE Forwarding'
    BY <2>9 DEF Write, parent
  <2>10. ASSUME NEW p \in Pipes, CloseOutput(p) PROVE Forwarding'
    BY <2>10 DEF CloseOutput, parent
  <2>11. CASE UNCHANGED vars BY <2>11 DEF vars
  <2> QED BY <2>1, <2>2, <2>3, <2>4, <2>5, <2>6, <2>7, <2>8, <2>9, <2>10, <2>11, <2>12,
             <2>13 DEF Next, Call
<1>3. Forwarding => OutputForwarded
  BY DEF Forwarding, OutputForwarded, Fresh
<1> QED BY <1>1, <1>2, <1>3, TypeCorrect, PTL DEF Spec

(* The end of a command that comes after SIGCHLD was blocked does not find *)
(* the loop asleep for good, whoever has its outputs.                      *)
THEOREM EndsNoticed == Spec => []EndNoticed
<1>1. Init => Heard
  BY DEF Init, Heard
<1>2. Heard /\ [Next]_vars => Heard'
  <2> SUFFICES ASSUME Heard, [Next]_vars PROVE Heard'
    OBVIOUS
  <2> USE DEF Heard, Goto, parent, command
  <2>1. CASE Exit BY <2>1 DEF Exit
  <2>2. CASE ReadSignal BY <2>2 DEF ReadSignal
  <2>3. CASE Reap BY <2>3 DEF Reap
  <2>4. CASE Block \/ LookOut \/ LookErr \/ LookSignal \/ Wake \/ InTime \/ Term \/ Kill
    BY <2>4 DEF Block, LookOut, LookErr, LookAt, LookSignal, Wake, InTime, Term, Kill
  <2>7. CASE ReadOut \/ ReadErr \/ ReadOutDone \/ ReadErrDone
    BY <2>7 DEF ReadOut, ReadErr, ReadOutDone, ReadErrDone, Read, ReadDone
  <2>5. CASE Tick \/ StartBackground \/ UNCHANGED vars
    BY <2>5 DEF Tick, StartBackground, vars
  <2>6. ASSUME NEW p \in Pipes, Write(p) \/ CloseOutput(p) PROVE Heard'
    BY <2>6 DEF Write, CloseOutput
  <2> QED BY <2>1, <2>2, <2>3, <2>4, <2>5, <2>6, <2>7 DEF Next, Call
<1>3. Heard => EndNoticed
  BY DEF Heard, EndNoticed, TerminationDetected
<1> QED BY <1>1, <1>2, <1>3, PTL DEF Spec
=============================================================================
