---------------------------- MODULE EventsProofs ----------------------------
(***************************************************************************)
(* Proofs about the event loop and the commands run from Lua on top of it, *)
(* for every set of commands.                                              *)
(***************************************************************************)
EXTENDS Bindings, TLAPS

USE DEF TimedAssumption, SelfAssumption
USE TimedAssumption, SelfAssumption

(* The variables have their types.                                         *)
THEOREM TypeCorrect == Spec => []TypeOK
<1>1. Init => TypeOK
  <2> SUFFICES ASSUME Init PROVE TypeOK
    OBVIOUS
  <2>1. /\ proc \in [Cmds -> {"none", "running", "zombie", "reaped"}]
        /\ writers \in [Cmds -> [Outputs -> SUBSET {"child", "background"}]]
    BY DEF Init
  <2>2. /\ buffers \in [Cmds -> SUBSET Outputs]
        /\ timers \in [Cmds -> SUBSET Signals] /\ sent \in [Cmds -> SUBSET Signals]
        /\ called \in [Cmds -> Nat]
    BY DEF Init
  <2>3. pending \in Seq(Postponed)
    BY DEF Init
  <2> QED BY <2>1, <2>2, <2>3 DEF Init, TypeOK, Stages
<1>2. TypeOK /\ [Next]_vars => TypeOK'
  <2> SUFFICES ASSUME TypeOK, [Next]_vars PROVE TypeOK'
    OBVIOUS
  <2> USE DEF TypeOK, Stages, process, registered, CheckComplete
  <2>1. ASSUME NEW c \in Cmds, Exit(c) PROVE TypeOK'
    BY <2>1 DEF Exit
  <2>2. ASSUME NEW c \in Cmds, StartBackground(c) PROVE TypeOK'
    BY <2>2 DEF StartBackground
  <2>3. ASSUME NEW c \in Cmds, EndBackground(c) PROVE TypeOK'
    BY <2>3 DEF EndBackground
  <2>4. ASSUME NEW c \in Cmds, NEW o \in Outputs, CloseOutput(c, o) PROVE TypeOK'
    BY <2>4 DEF CloseOutput
  <2>5. ASSUME NEW c \in Cmds, Fork(c) PROVE TypeOK'
    BY <2>5 DEF Fork, Child
  <2>6. ASSUME NEW c \in Cmds, Register(c) PROVE TypeOK'
    BY <2>6 DEF Register, Watch
  <2>7. ASSUME NEW c \in Cmds, Reap(c) PROVE TypeOK'
    <3>1. <<"child", c>> \in Postponed
      BY DEF Postponed
    <3> QED BY <2>7, <3>1 DEF Reap
  <2>8. ASSUME NEW c \in Cmds, DispatchChild(c) PROVE TypeOK'
    <3>1. <<"command", c>> \in Postponed
      BY DEF Postponed
    <3>2. Tail(pending) \in Seq(Postponed)
      BY <2>8 DEF DispatchChild, Dispatch
    <3> QED BY <2>8, <3>1, <3>2 DEF DispatchChild
  <2>9. ASSUME NEW c \in Cmds, DispatchCommand(c) PROVE TypeOK'
    <3>1. Tail(pending) \in Seq(Postponed)
      BY <2>9 DEF DispatchCommand, Dispatch
    <3> QED BY <2>9, <3>1 DEF DispatchCommand
  <2>10. ASSUME NEW c \in Cmds, NEW o \in Outputs, CommandEvent(o, c) PROVE TypeOK'
    <3>1. <<"command", c>> \in Postponed
      BY DEF Postponed
    <3> QED BY <2>10, <3>1 DEF CommandEvent, Handle
  <2>11. ASSUME NEW c \in Cmds, NEW g \in Signals, SignalSend(g, c) PROVE TypeOK'
    BY <2>11 DEF SignalSend, Handle
  <2>12. ASSUME NEW s \in SUBSET commands, Wait(s) PROVE TypeOK'
    BY <2>12 DEF Wait
  <2>13. ASSUME NEW expired \in SUBSET Scheduled, Turn(expired) PROVE TypeOK'
    BY <2>13 DEF Turn, Ready, Scheduled, Sources
  <2>14. CASE Recv \/ ReapDone \/ TurnDone \/ PendingDone
    BY <2>14 DEF Recv, Handle, ReapDone, TurnDone, PendingDone
  <2>15. CASE UNCHANGED vars
    BY <2>15 DEF vars
  <2> QED BY <2>1, <2>2, <2>3, <2>4, <2>5, <2>6, <2>7, <2>8, <2>9, <2>10, <2>11, <2>12, <2>13,
             <2>14, <2>15 DEF Next, Call, Process
<1> QED BY <1>1, <1>2, PTL DEF Spec

-----------------------------------------------------------------------------

\* No child is registered without the handler of SIGCHLD, and nothing of an
\* earlier turn is forgotten when the next one begins.
Awake == /\ NoZombieLost
         /\ children # {} => armed
         /\ pc \notin {"handle", "reap"} => active = {}

LEMMA InitAwake == Init => Awake
  BY DEF Init, Awake, NoZombieLost

\* A handler of libevent other than chld_event leaves the event of the socket.
LEMMA OtherHandler ==
  ASSUME Awake, NEW e, Handle(e), e # Chld,
         pc' = pc, UNCHANGED <<proc, children, armed, wake>>
  PROVE  Awake'
  BY DEF Awake, NoZombieLost, Handle

LEMMA ProcessAwake == ASSUME Awake, NEW c \in Cmds, Process(c) PROVE Awake'
<1>1. CASE Exit(c)
  BY <1>1 DEF Exit, Awake, NoZombieLost, registered
<1>2. CASE StartBackground(c) \/ EndBackground(c) \/ \E o \in Outputs : CloseOutput(c, o)
  BY <1>2 DEF StartBackground, EndBackground, CloseOutput, Awake, NoZombieLost, registered
<1> QED BY <1>1, <1>2 DEF Process

LEMMA CallAwake == TypeOK /\ Awake /\ Call => Awake'
<1> SUFFICES ASSUME TypeOK, Awake, Call PROVE Awake'
  OBVIOUS
<1> USE DEF Awake, NoZombieLost, process, registered
<1>1. ASSUME NEW c \in Cmds, Fork(c) PROVE Awake'
  BY <1>1 DEF Fork, Forked, Child
<1>2. ASSUME NEW c \in Cmds, Register(c) PROVE Awake'
  BY <1>2 DEF Register, Watch
<1>3. ASSUME NEW c \in Cmds, Reap(c) PROVE Awake'
  BY <1>3 DEF Reap
<1>4. ASSUME NEW c \in Cmds, DispatchChild(c) PROVE Awake'
  BY <1>4 DEF DispatchChild, Dispatch
<1>5. ASSUME NEW c \in Cmds, DispatchCommand(c) PROVE Awake'
  BY <1>5 DEF DispatchCommand, Dispatch
<1>6. ASSUME NEW c \in Cmds, NEW o \in Outputs, CommandEvent(o, c) PROVE Awake'
  <2>1. <<o, c>> # Chld
    BY DEF Chld
  <2> QED BY <1>6, <2>1, OtherHandler DEF CommandEvent
<1>7. ASSUME NEW c \in Cmds, NEW g \in Signals, SignalSend(g, c) PROVE Awake'
  <2>1. <<g, c>> # Chld
    BY DEF Chld
  <2> QED BY <1>7, <2>1, OtherHandler DEF SignalSend
<1>8. ASSUME NEW s, Wait(s) PROVE Awake'
  BY <1>8 DEF Wait
<1>9. ASSUME NEW expired, Turn(expired) PROVE Awake'
  BY <1>9 DEF Turn, Ready
<1>10. CASE Recv
  BY <1>10 DEF Recv, Handle
<1>11. CASE ReapDone
  BY <1>11 DEF ReapDone, TypeOK
<1>12. CASE TurnDone
  BY <1>12 DEF TurnDone
<1>13. CASE PendingDone
  BY <1>13 DEF PendingDone
<1> QED BY <1>1, <1>2, <1>3, <1>4, <1>5, <1>6, <1>7, <1>8, <1>9, <1>10, <1>11, <1>12, <1>13
        DEF Call

(* No child's end goes unnoticed, for any number of commands.              *)
THEOREM ZombiesNoticed == Spec => []NoZombieLost
<1>1. TypeOK /\ Awake /\ [Next]_vars => Awake'
  <2> SUFFICES ASSUME TypeOK, Awake, [Next]_vars PROVE Awake'
    OBVIOUS
  <2>1. CASE UNCHANGED vars
    BY <2>1 DEF vars, process, registered, Awake, NoZombieLost
  <2> QED BY <2>1, CallAwake, ProcessAwake DEF Next
<1>2. Awake => NoZombieLost
  BY DEF Awake
<1> QED BY <1>1, <1>2, InitAwake, TypeCorrect, PTL DEF Spec
-----------------------------------------------------------------------------

Entries(q) == {q[n] : n \in DOMAIN q}

Once(q) == \A m, n \in DOMAIN q : q[m] = q[n] => m = n

Called(c) == <<"command", c>> \in Entries(pending)
Buried(c) == <<"child", c>> \in Entries(pending)

\* How far a command is with what: it is a child until its end was told of, and its outputs
\* are at their end when their buffers are gone.
Progress(c) ==
  /\ c \in running <=> c \in children
  /\ c \in running => c \in commands
  /\ c \in commands => called[c] = 0 /\ proc[c] # "none"
  /\ c \in commands \ running => proc[c] = "reaped"
  /\ c \notin commands => buffers[c] = {}
  /\ c \in commands => \A o \in Outputs \ buffers[c] : writers[c][o] = {}
  /\ \A o \in Outputs : <<o, c>> \in active => writers[c][o] = {} /\ proc[c] # "none"
  /\ c \in Forked => pc = "idle" /\ proc[c] # "reaped"
  /\ proc[c] = "none" => called[c] = 0

\* What is in the queue fits how far its command is.
InQueue(c) ==
  /\ Called(c) => c \in commands \ running /\ buffers[c] = {}
  /\ c \in children => (Buried(c) <=> proc[c] = "reaped")
  /\ Buried(c) => c \in children

Orderly == /\ Once(pending)
           /\ \A c \in Cmds : Progress(c) /\ InQueue(c)

\* Whoever waits in a lua_move waits for its command.
WaitsForFrame == pc # "idle" /\ frame # {} => ids = frame

LEMMA AppendEntries ==
  ASSUME NEW S, NEW q \in Seq(S), NEW x \in S
  PROVE  /\ Entries(Append(q, x)) = Entries(q) \cup {x}
         /\ Once(q) /\ x \notin Entries(q) => Once(Append(q, x))
<1>1. /\ Append(q, x) \in Seq(S) /\ Len(Append(q, x)) = Len(q) + 1
      /\ Append(q, x)[Len(q) + 1] = x
      /\ \A n \in 1..Len(q) : Append(q, x)[n] = q[n]
      /\ DOMAIN q = 1..Len(q) /\ DOMAIN Append(q, x) = 1..(Len(q) + 1)
  OBVIOUS
<1>2. Len(q) \in Nat
  OBVIOUS
<1>3. 1..(Len(q) + 1) = 1..Len(q) \cup {Len(q) + 1}
  BY <1>2
<1>4. Entries(Append(q, x)) = Entries(q) \cup {x}
  <2>1. ASSUME NEW e \in Entries(Append(q, x)) PROVE e \in Entries(q) \cup {x}
    BY <1>1, <1>3 DEF Entries
  <2>2. ASSUME NEW e \in Entries(q) PROVE e \in Entries(Append(q, x))
    BY <1>1, <1>3 DEF Entries
  <2>3. x \in Entries(Append(q, x))
    BY <1>1, <1>3 DEF Entries
  <2> QED BY <2>1, <2>2, <2>3
<1>5. ASSUME Once(q), x \notin Entries(q) PROVE Once(Append(q, x))
  <2> SUFFICES ASSUME NEW m \in 1..(Len(q) + 1), NEW n \in 1..(Len(q) + 1),
                      Append(q, x)[m] = Append(q, x)[n]
               PROVE  m = n
    BY <1>1, Zenon DEF Once
  <2>1. \A k \in 1..Len(q) : q[k] # x
    BY <1>1, <1>5, Zenon DEF Entries
  <2>2. m \in 1..Len(q) \/ m = Len(q) + 1
    BY <1>3
  <2>3. n \in 1..Len(q) \/ n = Len(q) + 1
    BY <1>3
  <2> QED BY <1>1, <1>5, <2>1, <2>2, <2>3, Zenon DEF Once
<1> QED BY <1>4, <1>5

LEMMA TailEntries ==
  ASSUME NEW S, NEW q \in Seq(S), q # <<>>, Once(q)
  PROVE  /\ Entries(Tail(q)) = Entries(q) \ {Head(q)}
         /\ Once(Tail(q)) /\ Head(q) \in Entries(q)
<1>1. /\ Len(q) \in Nat \ {0} /\ DOMAIN q = 1..Len(q)
      /\ Head(q) = q[1]
      /\ DOMAIN Tail(q) = 1..(Len(q) - 1)
      /\ \A n \in 1..(Len(q) - 1) : Tail(q)[n] = q[n + 1]
  OBVIOUS
<1>2. Once(Tail(q))
  BY <1>1 DEF Once
<1>3. Head(q) \in Entries(q)
  BY <1>1 DEF Entries
<1>4. ASSUME NEW e \in Entries(Tail(q)) PROVE e \in Entries(q) \ {Head(q)}
  BY <1>1 DEF Entries, Once
<1>5. ASSUME NEW e \in Entries(q), e # Head(q) PROVE e \in Entries(Tail(q))
  <2>1. PICK n \in 1..Len(q) : e = q[n]
    BY <1>1 DEF Entries
  <2>2. n - 1 \in 1..(Len(q) - 1) /\ (n - 1) + 1 = n
    BY <1>1, <1>5, <2>1
  <2> QED BY <1>1, <2>1, <2>2 DEF Entries
<1> QED BY <1>2, <1>3, <1>4, <1>5

LEMMA HeadQueued ==
  ASSUME TypeOK, Orderly, NEW c \in Cmds, DispatchCommand(c)
  PROVE  Called(c)
<1>1. pending \in Seq(Postponed) /\ Once(pending) /\ pending # <<>>
      /\ Head(pending) = <<"command", c>>
  BY DEF TypeOK, Orderly, DispatchCommand, Dispatch
<1> QED BY <1>1, TailEntries DEF Called

LEMMA InitOrderly == Init => Orderly
  BY DEF Init, Orderly, Once, Entries, Progress, InQueue, Called, Buried, Forked

LEMMA ProcessOrderly ==
  ASSUME TypeOK, Orderly, NEW d \in Cmds, Process(d)
  PROVE  Orderly'
<1>1. /\ UNCHANGED <<pc, registered, active, pending, called>>
      /\ proc' \in [Cmds -> {"none", "running", "zombie", "reaped"}]
  BY DEF Process, Exit, StartBackground, EndBackground, CloseOutput, TypeOK
<1>2. Once(pending)'
  BY <1>1 DEF Orderly, Once
<1> SUFFICES ASSUME NEW c \in Cmds PROVE Progress(c)' /\ InQueue(c)'
  BY <1>2 DEF Orderly
<1> USE <1>1 DEF registered
<1>3. Progress(c) /\ InQueue(c)
  BY DEF Orderly
<1>4. /\ proc'[c] = proc[c] \/ (proc[c] = "running" /\ proc'[c] = "zombie")
      /\ \A o \in Outputs : writers[c][o] = {} => writers'[c][o] = {}
  <2>1. CASE Exit(d)
    BY <2>1 DEF Exit, TypeOK
  <2>2. CASE StartBackground(d)
    BY <2>2 DEF StartBackground, TypeOK
  <2>3. CASE EndBackground(d)
    BY <2>3 DEF EndBackground, TypeOK
  <2>4. ASSUME NEW o \in Outputs, CloseOutput(d, o)
        PROVE  /\ proc'[c] = proc[c]
               /\ \A u \in Outputs : writers[c][u] = {} => writers'[c][u] = {}
    BY <2>4 DEF CloseOutput, TypeOK
  <2> QED BY <2>1, <2>2, <2>3, <2>4 DEF Process
<1>5. Progress(c)'
  BY <1>3, <1>4 DEF Progress, Forked
<1>6. InQueue(c)'
  BY <1>3, <1>4 DEF InQueue, Called, Buried, Entries, Progress
<1> QED BY <1>5, <1>6

LEMMA CallOrderly ==
  ASSUME TypeOK, TypeOK', Orderly, Call
  PROVE  Orderly'
<1> USE DEF process, registered
<1>0. /\ pending \in Seq(Postponed) /\ Once(pending)
      /\ \A c \in Cmds : Progress(c) /\ InQueue(c)
  BY DEF TypeOK, Orderly
<1>1. ASSUME NEW d \in Cmds, Fork(d) PROVE Orderly'
  <2> SUFFICES ASSUME NEW c \in Cmds PROVE Progress(c)' /\ InQueue(c)'
    BY <1>0, <1>1 DEF Fork, Orderly, Once
  <2>1. Progress(c) /\ InQueue(c)
    BY <1>0
  <2>2. Progress(c)'
    BY <1>1, <2>1 DEF Fork, Progress, Forked, TypeOK
  <2>3. InQueue(c)'
    BY <1>1, <2>1 DEF Fork, Progress, InQueue, Called, Buried, TypeOK
  <2> QED BY <2>2, <2>3
<1>2. ASSUME NEW d \in Cmds, Register(d) PROVE Orderly'
  <2> SUFFICES ASSUME NEW c \in Cmds PROVE Progress(c)' /\ InQueue(c)'
    BY <1>0, <1>2 DEF Register, Watch, Orderly, Once
  <2>1. Progress(c) /\ InQueue(c)
    BY <1>0
  <2>2. Progress(c)'
    BY <1>2, <2>1 DEF Register, Watch, Progress, Forked, TypeOK
  <2>3. InQueue(c)'
    BY <1>2, <2>1 DEF Register, Watch, Progress, InQueue, Called, Buried, Forked, TypeOK
  <2> QED BY <2>2, <2>3
<1>3. ASSUME NEW d \in Cmds, Reap(d) PROVE Orderly'
  <2>1. <<"child", d>> \in Postponed /\ (d \in children => ~Buried(d))
    BY <1>0, <1>3 DEF Postponed, Reap, InQueue
  <2>2. /\ Once(pending)'
        /\ Entries(pending)' = Entries(pending) \cup (IF d \in children THEN {<<"child", d>>} ELSE {})
    BY <1>0, <1>3, <2>1, AppendEntries DEF Reap, Buried
  <2> SUFFICES ASSUME NEW c \in Cmds PROVE Progress(c)' /\ InQueue(c)'
    BY <2>2 DEF Orderly
  <2>3. Progress(c) /\ InQueue(c)
    BY <1>0
  <2>4. Progress(c)'
    BY <1>3, <2>3 DEF Reap, Progress, Forked, TypeOK
  <2>5. InQueue(c)'
    <3>1. /\ UNCHANGED <<children, commands, running, buffers>>
          /\ proc'[c] = IF c = d THEN "reaped" ELSE proc[c]
          /\ c \in running <=> c \in children
      BY <1>3, <2>3 DEF Reap, registered, Progress, TypeOK
    <3>2. /\ Called(c)' <=> Called(c)
          /\ Buried(c)' <=> Buried(c) \/ (c = d /\ d \in children)
      BY <2>2 DEF Called, Buried
    <3>3. c = d => proc[c] = "zombie"
      BY <1>3 DEF Reap
    <3> QED BY <2>3, <3>1, <3>2, <3>3 DEF InQueue
  <2> QED BY <2>4, <2>5
<1>4. ASSUME NEW d \in Cmds, DispatchChild(d) PROVE Orderly'
  <2>1. /\ <<"command", d>> \in Postponed /\ pending # <<>> /\ Head(pending) = <<"child", d>>
        /\ Tail(pending) \in Seq(Postponed)
    BY <1>0, <1>4 DEF Postponed, DispatchChild, Dispatch
  <2>2. ~Called(d)
    BY <1>0, <1>4 DEF InQueue, Progress, DispatchChild
  <2>3. /\ Once(Tail(pending)) /\ Entries(Tail(pending)) = Entries(pending) \ {<<"child", d>>}
        /\ Buried(d)
    BY <1>0, <2>1, TailEntries DEF Buried
  <2>4. /\ Once(pending)'
        /\ Entries(pending)' = (Entries(pending) \ {<<"child", d>>})
                                 \cup (IF buffers[d] = {} THEN {<<"command", d>>} ELSE {})
    <3>1. CASE buffers[d] = {}
      <4>1. pending' = Append(Tail(pending), <<"command", d>>)
        BY <1>4, <3>1 DEF DispatchChild, CheckComplete
      <4>2. <<"command", d>> \notin Entries(Tail(pending))
        BY <2>2, <2>3 DEF Called
      <4> DEFINE rest == Tail(pending)
      <4>0. rest \in Seq(Postponed) /\ <<"command", d>> \in Postponed
        BY <2>1
      <4>a. Once(rest) /\ <<"command", d>> \notin Entries(rest)
        BY <2>3, <4>2
      <4> HIDE DEF rest
      <4>3. /\ Entries(Append(rest, <<"command", d>>)) = Entries(rest) \cup {<<"command", d>>}
            /\ Once(Append(rest, <<"command", d>>))
        BY <4>0, <4>a, AppendEntries
      <4>4. Entries(pending)' = Entries(pending') /\ (Once(pending)' <=> Once(pending'))
        BY DEF Entries, Once
      <4> QED BY <2>3, <3>1, <4>1, <4>3, <4>4 DEF rest
    <3>2. CASE buffers[d] # {}
      BY <1>4, <2>3, <3>2 DEF DispatchChild, CheckComplete
    <3> QED BY <3>1, <3>2
  <2> SUFFICES ASSUME NEW c \in Cmds PROVE Progress(c)' /\ InQueue(c)'
    BY <2>4 DEF Orderly
  <2>5. Progress(c) /\ InQueue(c) /\ Progress(d) /\ InQueue(d)
    BY <1>0
  <2>6. Progress(c)'
    BY <1>4, <2>3, <2>5 DEF DispatchChild, Progress, InQueue, Forked, TypeOK
  <2>7. InQueue(c)'
    BY <1>4, <2>3, <2>4, <2>5 DEF DispatchChild, Progress, InQueue, Called, Buried, TypeOK
  <2> QED BY <2>6, <2>7
<1>5. ASSUME NEW d \in Cmds, DispatchCommand(d) PROVE Orderly'
  <2>1. pending # <<>> /\ Head(pending) = <<"command", d>>
    BY <1>5 DEF DispatchCommand, Dispatch
  <2>2. Once(pending)' /\ Entries(pending)' = Entries(pending) \ {<<"command", d>>} /\ Called(d)
    BY <1>0, <1>5, <2>1, TailEntries DEF Called, DispatchCommand
  <2> SUFFICES ASSUME NEW c \in Cmds PROVE Progress(c)' /\ InQueue(c)'
    BY <2>2 DEF Orderly
  <2>3. Progress(c) /\ InQueue(c) /\ Progress(d) /\ InQueue(d)
    BY <1>0
  <2>4. Progress(c)'
    BY <1>5, <2>2, <2>3 DEF DispatchCommand, Progress, InQueue, Forked, TypeOK
  <2>5. InQueue(c)'
    BY <1>5, <2>2, <2>3 DEF DispatchCommand, Progress, InQueue, Called, Buried, TypeOK
  <2> QED BY <2>4, <2>5
<1>6. ASSUME NEW d \in Cmds, NEW u \in Outputs, CommandEvent(u, d) PROVE Orderly'
  <2>1. <<"command", d>> \in Postponed /\ ~Called(d) /\ d \in commands
    BY <1>0, <1>6 DEF Postponed, InQueue, CommandEvent, Progress
  <2>2. /\ Once(pending)'
        /\ Entries(pending)' = Entries(pending)
             \cup (IF buffers[d] \ {u} = {} /\ d \notin running THEN {<<"command", d>>} ELSE {})
    <3>1. buffers'[d] = buffers[d] \ {u} /\ running' = running
      BY <1>6 DEF CommandEvent, TypeOK
    <3>2. CASE buffers[d] \ {u} = {} /\ d \notin running
      <4>1. pending' = Append(pending, <<"command", d>>)
        BY <1>6, <3>1, <3>2 DEF CommandEvent, CheckComplete
      <4> QED BY <1>0, <2>1, <3>2, <4>1, AppendEntries DEF Called
    <3>3. CASE ~(buffers[d] \ {u} = {} /\ d \notin running)
      BY <1>0, <1>6, <3>1, <3>3 DEF CommandEvent, CheckComplete
    <3> QED BY <3>2, <3>3
  <2> SUFFICES ASSUME NEW c \in Cmds PROVE Progress(c)' /\ InQueue(c)'
    BY <2>2 DEF Orderly
  <2>3. Progress(c) /\ InQueue(c) /\ Progress(d) /\ InQueue(d)
    BY <1>0
  <2>4. writers[d][u] = {} /\ active' \subseteq active
    BY <1>6, <2>3 DEF CommandEvent, Handle, Progress
  <2>5. Progress(c)'
    BY <1>6, <2>1, <2>3, <2>4 DEF CommandEvent, Progress, Forked, TypeOK
  <2>6. InQueue(c)'
    BY <1>6, <2>1, <2>2, <2>3 DEF CommandEvent, Progress, InQueue, Called, Buried, TypeOK
  <2> QED BY <2>5, <2>6
<1>7. ASSUME NEW d \in Cmds, NEW g \in Signals, SignalSend(g, d) PROVE Orderly'
  BY <1>0, <1>7 DEF SignalSend, Handle, Orderly, Progress, InQueue, Called, Buried, Forked
<1>8. ASSUME NEW s, Wait(s) PROVE Orderly'
  BY <1>0, <1>8 DEF Wait, Orderly, Progress, InQueue, Called, Buried, Forked
<1>9. ASSUME NEW expired \in SUBSET Scheduled, Turn(expired) PROVE Orderly'
  <2> SUFFICES ASSUME NEW c \in Cmds PROVE Progress(c)' /\ InQueue(c)'
    BY <1>0, <1>9 DEF Turn, Orderly, Once
  <2>1. Progress(c) /\ InQueue(c)
    BY <1>0
  <2>2. ASSUME NEW o \in Outputs, <<o, c>> \in active' PROVE o \in buffers[c] /\ writers[c][o] = {}
    BY <1>9, <2>2 DEF Turn, Ready, Scheduled, Chld, Outputs, Signals
  <2>3. Progress(c)'
    BY <1>9, <2>1, <2>2 DEF Turn, Progress, Forked
  <2>4. InQueue(c)'
    BY <1>9, <2>1 DEF Turn, InQueue, Called, Buried
  <2> QED BY <2>3, <2>4
<1>10. CASE Recv \/ ReapDone \/ TurnDone \/ PendingDone
  <2>1. /\ UNCHANGED <<process, registered, pending, called>>
        /\ active' \subseteq active /\ pc # "idle"
    BY <1>10 DEF Recv, Handle, ReapDone, TurnDone, PendingDone
  <2> QED BY <1>0, <2>1 DEF Orderly, Progress, InQueue, Called, Buried, Forked
<1> QED BY <1>1, <1>2, <1>3, <1>4, <1>5, <1>6, <1>7, <1>8, <1>9, <1>10 DEF Call

LEMMA AlwaysOrderly == Spec => []Orderly
<1>1. TypeOK /\ TypeOK' /\ Orderly /\ [Next]_vars => Orderly'
  <2> SUFFICES ASSUME TypeOK, TypeOK', Orderly, [Next]_vars PROVE Orderly'
    OBVIOUS
  <2>1. CASE UNCHANGED vars
    BY <2>1 DEF vars, process, registered, Orderly, Progress, InQueue, Called, Buried, Forked
  <2> QED BY <2>1, CallOrderly, ProcessOrderly DEF Next
<1> QED BY <1>1, InitOrderly, TypeCorrect, PTL DEF Spec

(* The assertions of events_wait hold, for any number of commands.         *)
THEOREM QueueRegistered == Spec => []PendingRegistered
<1>1. TypeOK /\ Orderly => PendingRegistered
  <2> SUFFICES ASSUME TypeOK, Orderly PROVE PendingRegistered
    OBVIOUS
  <2>1. ASSUME NEW n \in DOMAIN pending
        PROVE  pending[n][2] \in IF pending[n][1] = "child" THEN children ELSE commands
    <3>1. pending[n] \in Entries(pending) /\ pending[n] \in Postponed
      BY DEF Entries, TypeOK
    <3>2. PICK k \in {"child", "command"}, c \in Cmds : pending[n] = <<k, c>>
      BY <3>1 DEF Postponed
    <3>3. pending[n][1] = k /\ pending[n][2] = c
      BY <3>2
    <3>4. CASE k = "child"
      BY <3>1, <3>2, <3>3, <3>4 DEF Orderly, InQueue, Buried
    <3>5. CASE k = "command"
      BY <3>1, <3>2, <3>3, <3>5 DEF Orderly, InQueue, Called
    <3> QED BY <3>2, <3>4, <3>5
  <2> QED BY <2>1 DEF PendingRegistered, Orderly, Once
<1> QED BY <1>1, TypeCorrect, AlwaysOrderly, PTL

(* A callback is called once, when all of its command is over, in any      *)
(* order of ends, outputs and limits.                                      *)
THEOREM CalledOnceComplete == Spec => CalledWhenComplete
<1> DEFINE Complete(c) == /\ called[c] = 0
                          /\ proc[c] = "reaped"
                          /\ buffers[c] = {} /\ \A o \in Outputs : writers[c][o] = {}
<1>1. TypeOK /\ Orderly /\ [Next]_vars
        => [\A c \in Cmds : called'[c] # called[c] => Complete(c)]_vars
  <2> SUFFICES ASSUME TypeOK, Orderly, Next, NEW c \in Cmds, called'[c] # called[c]
               PROVE  Complete(c)
    OBVIOUS
  <2>1. PICK d \in Cmds : DispatchCommand(d)
    BY DEF Next, Call, Process, Fork, Register, Reap, DispatchChild, CommandEvent, SignalSend,
           Wait, Turn, Recv, ReapDone, TurnDone, PendingDone, Exit, StartBackground,
           EndBackground, CloseOutput
  <2>2. d = c
    BY <2>1 DEF DispatchCommand, TypeOK
  <2>3. Called(c)
    BY <2>1, <2>2, HeadQueued
  <2> QED BY <2>3 DEF Orderly, Progress, InQueue
<1> QED BY <1>1, TypeCorrect, AlwaysOrderly, PTL DEF Spec, CalledWhenComplete

-----------------------------------------------------------------------------

LEMMA LuaSteps == Next_L => Next
<1> USE DEF Next, Call
<1>1. ASSUME NEW c \in Cmds, Run(c) \/ Move(c) \/ Terminated(c) PROVE Next
  BY <1>1 DEF Run, Move, Terminated
<1>2. ASSUME NEW s \in (SUBSET commands) \ {{}}, WaitFor(s) PROVE Next
  BY <1>2 DEF WaitFor
<1>3. CASE Return
  BY <1>3 DEF Return
<1> QED BY <1>1, <1>2, <1>3 DEF Next_L, Call_L

(* The event loop goes on under the bindings as it does alone.             *)
THEOREM LuaRunsLoop == Spec_L => Spec
<1>1. Init_L => Init
  BY DEF Init_L
<1>2. [Next_L]_vars_L => [Next]_vars
  BY LuaSteps DEF vars_L
<1> QED BY <1>1, <1>2, PTL DEF Spec_L, Spec

LEMMA WaitKept ==
  ASSUME WaitsForFrame, [Next_L]_vars_L
  PROVE  WaitsForFrame'
<1> USE DEF WaitsForFrame, lua
<1>1. ASSUME NEW c \in Cmds, Run(c) PROVE WaitsForFrame'
  BY <1>1 DEF Run, Fork
<1>2. ASSUME NEW c \in Cmds, Move(c) PROVE WaitsForFrame'
  BY <1>2 DEF Move, Fork
<1>3. ASSUME NEW c \in Cmds, Terminated(c) PROVE WaitsForFrame'
  BY <1>3 DEF Terminated, DispatchCommand, Dispatch
<1>4. ASSUME NEW s, WaitFor(s) PROVE WaitsForFrame'
  BY <1>4 DEF WaitFor, Wait
<1>5. CASE Return
  BY <1>5 DEF Return, PendingDone
<1>6. ASSUME UNCHANGED lua, NEW c \in Cmds, Register(c) \/ Reap(c) \/ DispatchChild(c)
      PROVE  WaitsForFrame'
  BY <1>6 DEF Register, Reap, DispatchChild, Dispatch
<1>7. ASSUME UNCHANGED lua, NEW c \in Cmds, \/ \E o \in Outputs : CommandEvent(o, c)
                                            \/ \E g \in Signals : SignalSend(g, c)
      PROVE  WaitsForFrame'
  BY <1>7 DEF CommandEvent, SignalSend
<1>8. ASSUME UNCHANGED lua, \/ \E expired \in SUBSET Scheduled : Turn(expired)
                            \/ Recv \/ ReapDone \/ TurnDone
      PROVE  WaitsForFrame'
  BY <1>8 DEF Turn, Recv, Handle, ReapDone, TurnDone
<1>9. ASSUME UNCHANGED lua, NEW c \in Cmds, Process(c) PROVE WaitsForFrame'
  BY <1>9 DEF Process, Exit, StartBackground, EndBackground, CloseOutput
<1>10. CASE UNCHANGED vars_L
  BY <1>10 DEF vars_L, vars
<1> QED BY <1>1, <1>2, <1>3, <1>4, <1>5, <1>6, <1>7, <1>8, <1>9, <1>10 DEF Next_L, Call_L

Live == {c \in Cmds : proc[c] # "none" /\ called[c] = 0}

Kept == /\ registry = UNION {Registered(c) : c \in Live \ Moves}
        /\ data = Live \ Moves
        /\ Live \cap Moves \subseteq frame

LEMMA KeptIsCallbackDataKept == CallbackDataKept <=> Kept
  BY DEF CallbackDataKept, Kept, Live

\* What Lua keeps is for the commands that may still call back.
LEMMA DataKept ==
  ASSUME TypeOK, Orderly, Kept, WaitsForFrame, [Next_L]_vars_L
  PROVE  Kept'
<1> USE DEF lua
<1>1. ASSUME NEW c \in Cmds, Fork(c) PROVE Live' = Live \cup {c} /\ c \notin Live
  BY <1>1 DEF Live, Fork, TypeOK, Orderly, Progress
<1>2. ASSUME Live' = Live, UNCHANGED lua PROVE Kept'
  BY <1>2 DEF Kept, Registered
<1>3. ASSUME NEW c \in Cmds, Run(c) PROVE Kept'
  BY <1>1, <1>3 DEF Run, Kept
<1>4. ASSUME NEW c \in Cmds, Move(c) PROVE Kept'
  BY <1>1, <1>4 DEF Move, Kept
<1>5. ASSUME NEW c \in Cmds, Terminated(c) PROVE Kept'
  <2>1. c \in Live /\ Live' = Live \ {c}
    <3>1. Called(c)
      BY <1>5, HeadQueued DEF Terminated
    <3> QED BY <1>5, <3>1 DEF Terminated, DispatchCommand, process, Live, TypeOK, Orderly,
                             Progress, InQueue
  <2>2. CASE c \in Moves
    <3>1. Live' \ Moves = Live \ Moves
      BY <2>1, <2>2
    <3> QED BY <1>5, <2>1, <2>2, <3>1 DEF Terminated, Kept
  <2>3. CASE c \notin Moves
    <3>1. /\ registry' = registry \ ({"terminated", "postfork"} \X {c})
          /\ data' = data \ {c} /\ frame' = frame
      BY <1>5, <2>3 DEF Terminated, FreeData
    <3> DEFINE own == {"terminated", "postfork"} \X {c}
    <3>2. /\ Registered(c) \subseteq own
          /\ \A d \in Live \ {c} : Registered(d) \cap own = {}
      BY DEF Registered
    <3> HIDE DEF own
    <3>3. UNION {Registered(d) : d \in (Live \ {c}) \ Moves}
            = (UNION {Registered(d) : d \in Live \ Moves}) \ own
      BY <3>2
    <3>4. data' = Live' \ Moves
      BY <2>1, <3>1 DEF Kept
    <3>5. Live' \cap Moves \subseteq frame'
      BY <2>1, <3>1 DEF Kept
    <3>6. registry' = UNION {Registered(d) : d \in Live' \ Moves}
      BY <2>1, <3>1, <3>3 DEF own, Kept
    <3> QED BY <3>4, <3>5, <3>6 DEF Kept
  <2> QED BY <2>2, <2>3
<1>6. ASSUME NEW s, WaitFor(s) PROVE Kept'
  BY <1>2, <1>6 DEF WaitFor, Wait, process, Live
<1>7. CASE Return
  <2>1. Live' = Live /\ UNCHANGED <<registry, data>> /\ pc = "pending"
    BY <1>7 DEF Return, PendingDone, process, Live
  <2>2. CASE pc' = "idle"
    <3>1. ids \cap commands = {} /\ frame' = {}
      BY <1>7, <2>2 DEF Return, PendingDone
    <3>2. ASSUME NEW c \in Live \cap Moves PROVE FALSE
      <4>1. c \in ids /\ c \notin commands
        BY <2>1, <3>1, <3>2 DEF WaitsForFrame, Kept
      <4>2. c \in Forked
        BY <4>1 DEF Forked, Live
      <4> QED BY <2>1, <4>2 DEF Orderly, Progress, Live
    <3> QED BY <2>1, <3>1, <3>2 DEF Kept
  <2>3. CASE pc' # "idle"
    BY <1>7, <2>1, <2>3 DEF Return, Kept
  <2> QED BY <2>2, <2>3
<1>8. ASSUME UNCHANGED lua, NEW c \in Cmds,
             \/ Register(c) \/ Reap(c) \/ DispatchChild(c)
             \/ \E o \in Outputs : CommandEvent(o, c)
             \/ \E g \in Signals : SignalSend(g, c)
      PROVE  Kept'
  <2>1. Live' = Live
    BY <1>8 DEF Register, Reap, DispatchChild, CommandEvent, SignalSend, process, Live, TypeOK
  <2> QED BY <1>2, <1>8, <2>1
<1>9. ASSUME UNCHANGED lua, \/ \E expired \in SUBSET Scheduled : Turn(expired)
                            \/ Recv \/ ReapDone \/ TurnDone
      PROVE  Kept'
  BY <1>2, <1>9 DEF Turn, Recv, ReapDone, TurnDone, process, Live
<1>10. ASSUME UNCHANGED lua, NEW c \in Cmds, Process(c) PROVE Kept'
  <2>1. Live' = Live
    BY <1>10 DEF Process, Exit, StartBackground, EndBackground, CloseOutput, Live, TypeOK
  <2> QED BY <1>2, <1>10, <2>1
<1>11. CASE UNCHANGED vars_L
  <2>1. Live' = Live
    BY <1>11 DEF vars_L, vars, process, Live
  <2>2. UNCHANGED lua
    BY <1>11 DEF vars_L
  <2> QED BY <1>2, <2>1, <2>2
<1>12. Call_L => Kept'
  BY <1>3, <1>4, <1>5, <1>6, <1>7, <1>8, <1>9 DEF Call_L
<1> QED BY <1>10, <1>11, <1>12 DEF Next_L

(* Every callback finds what Lua keeps for it, and nothing is kept longer, *)
(* for any commands, moves and functions.                                  *)
THEOREM CallbackDataFound == Spec_L => []CallbackDataKept
<1>1. Init_L => Kept /\ WaitsForFrame
  BY DEF Init_L, Init, Kept, Live, WaitsForFrame
<1> QED BY <1>1, WaitKept, DataKept, KeptIsCallbackDataKept, LuaRunsLoop, TypeCorrect, AlwaysOrderly, PTL DEF Spec_L
=============================================================================
