----------------------------- MODULE PlanProofs -----------------------------
(***************************************************************************)
(* Proofs about the order of the plan, for all packages, dependencies and  *)
(* requests.                                                               *)
(***************************************************************************)
EXTENDS Plan, SequenceTheorems, TLAPS

USE DEF InputsAssumption

-----------------------------------------------------------------------------
(* The invariant.                                                          *)

Working == {frames[i].name : i \in 1..Len(frames)}

Frame == [name : Names, left : Seq(Calls), got : SUBSET Names]

Jobs == [call : Calls, optional : BOOLEAN, request : Nat, result : {<<>>} \cup {<<e>> : e \in SUBSET Names}]

\* The calls of a frame that have returned.
Done(f) == {in.calls[f.name][i] : i \in 1..(Len(in.calls[f.name]) - Len(f.left))}

\* A frame goes through the dependencies of its package in their order.
Stack == /\ frames \in Seq(Frame)
         /\ \A i \in 1..Len(frames) :
              LET f == frames[i]
                  c == in.calls[f.name]
              IN /\ Len(f.left) <= Len(c)
                 /\ \A k \in 1..Len(f.left) : f.left[k] = c[Len(c) - Len(f.left) + k]
                 /\ f.got \subseteq planned
                 /\ i < Len(frames) => f.left # <<>> /\ Head(f.left).to = frames[i + 1].name

\* A package is worked on once, and not after it was planned; what is not virtual is on wstack
\* in the order of the calls.
OnStack ==
  /\ \A i, k \in 1..Len(frames) : frames[i].name = frames[k].name => i = k
  /\ planned \cap Working = {}
  /\ \A n \in Names : inwstack[n] # 0 /\ HasCandidate(n) => n \in Working
  /\ \A i \in 1..Len(frames) :
       LET n == frames[i].name
       IN /\ n \in in.selected /\ inwstack[n] # 0
          /\ HasCandidate(n) \/ n \in in.virtual
          /\ HasCandidate(n) => inwstack[n] \in 1..Len(wstack) /\ wstack[inwstack[n]] = n
  /\ \A i, k \in 1..Len(frames) :
       i < k /\ HasCandidate(frames[i].name) /\ HasCandidate(frames[k].name)
         => inwstack[frames[i].name] < inwstack[frames[k].name]

\* What is planned stands for the package, or will.
Covered(n) == n \in Working \/ Standing(n) \subseteq planned \cup Working

\* The frames from i on are in a cycle.
CycleFrom(i, k) == \A j \in i..k : HasCandidate(frames[j].name) => frames[j].name \in inconsistent

AllCovered ==
  /\ \A n \in planned : \A c \in ToSet(in.calls[n]) : Chosen(c) => Covered(c.to)
  /\ \A i \in 1..Len(frames) : \A c \in Done(frames[i]) : Chosen(c) => Covered(c.to)

\* A dependency that is not planned when its call returns is a reason for a cycle.
Behind(c, k) ==
  \/ Standing(c.to) \subseteq planned
  \/ /\ frames[k].name \in inconsistent
     /\ c.to \in in.own => \E i \in 1..k : frames[i].name = c.to /\ CycleFrom(i, k)

BehindInCycle ==
  \A k \in 1..Len(frames) : \A c \in Done(frames[k]) :
    Chosen(c) /\ HasCandidate(frames[k].name) => Behind(c, k)

InOrder ==
  /\ plan \in Seq(Names) /\ planned \subseteq in.own
  /\ \A i, k \in 1..Len(plan) : plan[i] = plan[k] => i = k
  /\ \A i \in 1..Len(plan) : \A n : plan[i] = n /\ n \notin inconsistent =>
       \A d \in Needs(n) : \E k \in 1..(i - 1) : plan[k] = d

Wanted(i) == in.requests[i].install /\ in.requests[i].satisfied /\ in.requests[i].to \in in.selected

\* The main loops are at one call, whose result is what stands for the package.
AtJob ==
  /\ next \in 1..(Len(in.requests) + 1)
  /\ job \in Seq(Jobs) /\ Len(job) <= 1
  /\ job = <<>> => frames = <<>>
  /\ job # <<>> => /\ job[1].call.fits
                   /\ job[1].result # <<>> => frames = <<>> /\ job[1].result[1] \subseteq planned
                   /\ frames # <<>> => frames[1].name = job[1].call.to
                   /\ job[1].request # 0 => /\ job[1].request = next - 1
                                            /\ job[1].call.to = in.requests[next - 1].to
  /\ \A i \in 1..(next - 1) :
       Wanted(i) => \/ Standing(in.requests[i].to) \subseteq planned
                    \/ job # <<>> /\ job[1].request = i /\ job[1].result = <<>>

IInv == /\ TypeOK /\ Stack /\ OnStack /\ AllCovered /\ BehindInCycle /\ InOrder /\ AtJob
-----------------------------------------------------------------------------
(* Sequences.                                                              *)

LEMMA Before ==
  ASSUME NEW S, NEW s \in Seq(S), NEW i \in 1..Len(s)
  PROVE  /\ SubSeq(s, 1, i - 1) \in Seq(S) /\ Len(SubSeq(s, 1, i - 1)) = i - 1
         /\ \A k \in 1..(i - 1) : SubSeq(s, 1, i - 1)[k] = s[k]
  OBVIOUS

LEMMA FrontLast ==
  ASSUME NEW S, NEW s \in Seq(S), s # <<>>
  PROVE  /\ Front(s) \in Seq(S) /\ Len(Front(s)) = Len(s) - 1
         /\ \A i \in 1..(Len(s) - 1) : Front(s)[i] = s[i]
         /\ Len(s) \in Nat \ {0} /\ Last(s) = s[Len(s)] /\ Last(s) \in S
<1>1. Len(s) \in 1..Len(s) /\ Len(s) \in Nat \ {0} /\ s[Len(s)] \in S
  OBVIOUS
<1>2. Front(s) = SubSeq(s, 1, Len(s) - 1) /\ Last(s) = s[Len(s)]
  BY DEF Front, Last
<1> QED BY <1>1, <1>2, Before

LEMMA Appended ==
  ASSUME NEW S, NEW s \in Seq(S), NEW x \in S
  PROVE  /\ Append(s, x) \in Seq(S) /\ Len(Append(s, x)) = Len(s) + 1 /\ Len(s) \in Nat
         /\ \A i \in 1..Len(s) : Append(s, x)[i] = s[i]
         /\ Append(s, x)[Len(s) + 1] = x
         /\ ToSet(Append(s, x)) = ToSet(s) \cup {x}
<1>1. /\ Append(s, x) \in Seq(S) /\ Len(Append(s, x)) = Len(s) + 1 /\ Len(s) \in Nat
      /\ \A i \in 1..Len(s) : Append(s, x)[i] = s[i]
      /\ Append(s, x)[Len(s) + 1] = x
      /\ DOMAIN s = 1..Len(s) /\ DOMAIN Append(s, x) = 1..(Len(s) + 1)
  OBVIOUS
<1>2. 1..(Len(s) + 1) = 1..Len(s) \cup {Len(s) + 1}
  BY <1>1
<1>3. ASSUME NEW e \in ToSet(Append(s, x)) PROVE e \in ToSet(s) \cup {x}
  BY <1>1, <1>2 DEF ToSet
<1>4. ASSUME NEW e \in ToSet(s) PROVE e \in ToSet(Append(s, x))
  BY <1>1, <1>2 DEF ToSet
<1>5. x \in ToSet(Append(s, x))
  BY <1>1, <1>2 DEF ToSet
<1> QED BY <1>1, <1>3, <1>4, <1>5

LEMMA WithoutOne ==
  ASSUME NEW S, NEW s \in Seq(S), NEW i \in 1..Len(s)
  PROVE  /\ RemoveAt(s, i) \in Seq(S) /\ Len(RemoveAt(s, i)) = Len(s) - 1
         /\ \A k \in 1..(i - 1) : RemoveAt(s, i)[k] = s[k]
         /\ \A k \in i..(Len(s) - 1) : RemoveAt(s, i)[k] = s[k + 1]
<1> DEFINE one == SubSeq(s, 1, i - 1)
           two == SubSeq(s, i + 1, Len(s))
<1>1. one \in Seq(S) /\ Len(one) = i - 1 /\ \A k \in 1..(i - 1) : one[k] = s[k]
  BY Before
<1>2. two \in Seq(S) /\ Len(two) = Len(s) - i /\ \A k \in 1..(Len(s) - i) : two[k] = s[i + k]
  <2>1. i + 1 \in Int /\ Len(s) \in Int /\ \A k \in (i + 1)..Len(s) : s[k] \in S
    OBVIOUS
  <2>2. /\ two \in Seq(S) /\ Len(two) = IF i + 1 <= Len(s) THEN Len(s) - (i + 1) + 1 ELSE 0
        /\ \A k \in 1..(Len(s) - (i + 1) + 1) : two[k] = s[i + 1 + k - 1]
    BY <2>1, SubSeqProperties
  <2> HIDE DEF two
  <2>3. i \in Nat /\ Len(s) \in Nat /\ i <= Len(s)
    OBVIOUS
  <2>4. ASSUME NEW k \in 1..(Len(s) - i) PROVE two[k] = s[i + k]
    <3>1. k \in 1..(Len(s) - (i + 1) + 1) /\ i + 1 + k - 1 = i + k
      BY <2>3
    <3> QED BY <2>2, <3>1
  <2> QED BY <2>2, <2>3, <2>4
<1> HIDE DEF one, two
<1>3. /\ one \o two \in Seq(S) /\ Len(one \o two) = Len(one) + Len(two)
      /\ \A k \in 1..Len(one) : (one \o two)[k] = one[k]
      /\ \A k \in 1..Len(two) : (one \o two)[Len(one) + k] = two[k]
  <2>1. one \in Seq(S) /\ two \in Seq(S)
    BY <1>1, <1>2
  <2>2. ASSUME NEW k \in 1..Len(two) PROVE (one \o two)[Len(one) + k] = two[k]
    <3>1. Len(one) + k \in 1..(Len(one) + Len(two)) /\ Len(one) + k > Len(one)
          /\ Len(one) + k - Len(one) = k
      BY <2>1
    <3> QED BY <2>1, <3>1, ConcatProperties
  <2> QED BY <2>1, <2>2
<1>4. i \in Nat \ {0} /\ Len(s) \in Nat
  OBVIOUS
<1>5. RemoveAt(s, i) = one \o two
  BY DEF RemoveAt, one, two
<1>6. ASSUME NEW k \in i..(Len(s) - 1) PROVE (one \o two)[k] = s[k + 1]
  <2>1. PICK l \in 1..Len(two) : k = Len(one) + l /\ i + l = k + 1
    <3>1. k - (i - 1) \in 1..Len(two) /\ k = Len(one) + (k - (i - 1)) /\ i + (k - (i - 1)) = k + 1
      BY <1>1, <1>2, <1>4
    <3> QED BY <3>1
  <2>2. (one \o two)[k] = two[l] /\ two[l] = s[i + l]
    BY <1>2, <1>3, <2>1
  <2> QED BY <2>1, <2>2
<1>7. /\ RemoveAt(s, i) \in Seq(S) /\ Len(RemoveAt(s, i)) = Len(s) - 1
      /\ \A k \in 1..(i - 1) : RemoveAt(s, i)[k] = s[k]
  BY <1>1, <1>2, <1>3, <1>4, <1>5
<1> QED BY <1>5, <1>6, <1>7

-----------------------------------------------------------------------------
(* What the invariant is made of is a matter of the input.                 *)

LEMMA InputFixed ==
  ASSUME in' = in
  PROVE  /\ \A n : HasCandidate(n)' <=> HasCandidate(n)
         /\ \A n : Standing(n)' = Standing(n)
         /\ \A c : Chosen(c)' <=> Chosen(c)
         /\ \A n : Needs(n)' = Needs(n)
         /\ \A f : Done(f)' = Done(f)
         /\ \A i : Wanted(i)' <=> Wanted(i)
  BY DEF HasCandidate, Standing, Chosen, Needs, Done, Wanted

LEMMA Input ==
  ASSUME TypeOK
  PROVE  /\ in \in InputType /\ Solved(in)
         /\ in.own \subseteq Names
         /\ \A n \in Names : in.calls[n] \in Seq(Calls) /\ ToSet(in.calls[n]) \subseteq Calls
<1>1. in \in InputType /\ Solved(in)
  BY InputsAssumption DEF TypeOK
<1>2. \A n \in Names : in.calls[n] \in Seq(Calls)
  BY <1>1 DEF InputType
<1>3. \A s \in Seq(Calls) : ToSet(s) \subseteq Calls
  BY DEF ToSet
<1> QED BY <1>1, <1>2, <1>3 DEF InputType

LEMMA StandingOwn ==
  ASSUME NEW n
  PROVE  /\ Standing(n) \subseteq in.own
         /\ n \in in.own => Standing(n) = {n}
         /\ ~HasCandidate(n) => Standing(n) = {}
  BY DEF Standing, HasCandidate

\* Each package that stands for one that others provide is called.
LEMMA ProvidersChosen ==
  ASSUME TypeOK, NEW n \in Names, n \notin in.own, NEW d \in Standing(n)
  PROVE  \E c \in ToSet(in.calls[n]) : c.to = d /\ c.provides /\ Chosen(c) /\ d \in in.own
<1>1. PICK c \in ToSet(in.calls[n]) : c.provides /\ c.to = d /\ d \in in.own
  BY DEF Standing
<1>2. c.fits /\ c.to \in in.selected
  BY <1>1, Input DEF Solved
<1> QED BY <1>1, <1>2 DEF Chosen, HasCandidate

-----------------------------------------------------------------------------
(* A call returns.                                                         *)

LEMMA StackType ==
  ASSUME Stack, NEW i \in 1..Len(frames)
  PROVE  /\ Len(frames) \in Nat /\ frames[i] \in Frame /\ frames[i].name \in Names
         /\ frames[i].left \in Seq(Calls)
<1>1. frames \in Seq(Frame) /\ Len(frames) \in Nat
  BY DEF Stack
<1>2. frames[i] \in Frame
  BY <1>1
<1> QED BY <1>1, <1>2 DEF Frame

\* The first K frames stay, and one call of the last of them has returned.
Callers(callers, K) == /\ K \in 0..Len(frames) /\ callers \in Seq(Frame) /\ Len(callers) = K
                       /\ \A i \in 1..K : callers[i] = frames[i]
                       /\ K > 0 => frames[K].left # <<>>

Back(K) == /\ Len(frames') = K
           /\ \A i \in 1..K : frames'[i].name = frames[i].name
           /\ \A i \in 1..(K - 1) : Done(frames[i])' = Done(frames[i])
           /\ K > 0 => Done(frames[K])' = Done(frames[K]) \cup {Head(frames[K].left)}

LEMMA ReturnBack ==
  ASSUME TypeOK, Stack, in' = in, NEW callers, NEW K, Callers(callers, K),
         NEW entries \in SUBSET Names, entries \subseteq planned', planned \subseteq planned',
         Return(entries, callers)
  PROVE  /\ Stack' /\ Back(K)
         /\ K = 0 => job' = <<[job[1] EXCEPT !.result = <<entries>>]>>
         /\ K > 0 => job' = job
<1>0. K \in 0..Len(frames) /\ Len(frames) \in Nat
  BY DEF Callers, Stack
<1>1. CASE K = 0
  <2>1. callers = <<>>
    BY <1>1 DEF Callers
  <2>2. frames' = <<>> /\ job' = <<[job[1] EXCEPT !.result = <<entries>>]>>
    BY <2>1 DEF Return
  <2> QED BY <1>1, <2>2 DEF Stack, Back
<1>2. CASE K > 0
  <2> DEFINE f == frames[K]
             calls == in.calls[f.name]
             g == [f EXCEPT !.left = Tail(@),
                            !.got = IF Head(f.left).provides THEN @ \cup entries ELSE @]
  <2>1. K \in 1..Len(frames) /\ callers # <<>> /\ callers \in Seq(Frame) /\ Last(callers) = f
        /\ f.left # <<>> /\ Len(callers) = K
    BY <1>0, <1>2 DEF Callers, Last
  <2>2. frames' = Append(Front(callers), g) /\ job' = job
    BY <2>1, Zenon DEF Return
  <2>3. f \in Frame /\ f.left \in Seq(Calls) /\ calls \in Seq(Calls) /\ f.got \subseteq planned
        /\ Len(f.left) <= Len(calls)
        /\ \A k \in 1..Len(f.left) : f.left[k] = calls[Len(calls) - Len(f.left) + k]
    BY <2>1, StackType, Input DEF Stack
  <2>4. /\ Tail(f.left) \in Seq(Calls) /\ Len(Tail(f.left)) = Len(f.left) - 1
        /\ \A k \in 1..(Len(f.left) - 1) : Tail(f.left)[k] = f.left[k + 1]
        /\ Head(f.left) = f.left[1] /\ Len(f.left) \in Nat \ {0} /\ Len(calls) \in Nat
    BY <2>1, <2>3
  <2>5. g \in Frame /\ g.name = f.name /\ g.left = Tail(f.left) /\ g.got \subseteq planned'
    BY <2>3, <2>4 DEF Frame
  <2>6. /\ Front(callers) \in Seq(Frame) /\ Len(Front(callers)) = K - 1
        /\ \A i \in 1..(K - 1) : Front(callers)[i] = frames[i]
    BY <2>1, FrontLast DEF Callers
  <2> HIDE DEF g
  <2>7. /\ frames' \in Seq(Frame) /\ Len(frames') = K
        /\ \A i \in 1..(K - 1) : frames'[i] = frames[i]
        /\ frames'[K] = g
    BY <1>0, <2>2, <2>5, <2>6, Appended
  <2> DEFINE a == Len(calls)
             b == Len(f.left)
  <2>10. /\ a \in Nat /\ b \in Nat \ {0} /\ b <= a /\ Len(g.left) = b - 1
         /\ \A k \in 1..(b - 1) : g.left[k] = f.left[k + 1]
         /\ \A k \in 1..b : f.left[k] = calls[a - b + k]
         /\ Head(f.left) = f.left[1]
    BY <2>3, <2>4, <2>5
  <2> HIDE DEF a, b
  <2>8. Stack'
    <3> SUFFICES ASSUME NEW i \in 1..K
                 PROVE  LET h == frames'[i]
                            c == in.calls[h.name]
                        IN /\ Len(h.left) <= Len(c)
                           /\ \A k \in 1..Len(h.left) : h.left[k] = c[Len(c) - Len(h.left) + k]
                           /\ h.got \subseteq planned'
                           /\ i < K => h.left # <<>> /\ Head(h.left).to = frames'[i + 1].name
      BY <2>7 DEF Stack
    <3>1. CASE i < K
      <4>1. i \in 1..(K - 1) /\ i \in 1..Len(frames) /\ i < Len(frames)
        BY <1>0, <1>2, <3>1
      <4>2. frames'[i] = frames[i]
        BY <2>7, <4>1
      <4>3. frames'[i + 1].name = frames[i + 1].name
        <5>1. i + 1 = K \/ i + 1 \in 1..(K - 1)
          BY <4>1, <1>0
        <5> QED BY <2>5, <2>7, <5>1
      <4> QED BY <4>1, <4>2, <4>3 DEF Stack
    <3>2. CASE i = K
      <4>1. frames'[i] = g
        BY <2>7, <3>2
      <4>2. ASSUME NEW k \in 1..Len(g.left) PROVE g.left[k] = calls[a - Len(g.left) + k]
        <5>1. k \in 1..(b - 1) /\ k + 1 \in 1..b /\ a - b + (k + 1) = a - Len(g.left) + k
          BY <2>10
        <5>2. g.left[k] = f.left[k + 1] /\ f.left[k + 1] = calls[a - b + (k + 1)]
          BY <2>10, <5>1, Zenon
        <5> QED BY <5>1, <5>2, Zenon
      <4>3. Len(g.left) <= a
        BY <2>10
      <4>4. /\ Len(g.left) <= Len(in.calls[g.name]) /\ g.got \subseteq planned'
            /\ \A k \in 1..Len(g.left) :
                 g.left[k] = in.calls[g.name][Len(in.calls[g.name]) - Len(g.left) + k]
        BY <2>5, <4>2, <4>3, Zenon DEF a
      <4>5. ~(i < K)
        BY <1>0, <3>2
      <4> QED BY <4>1, <4>4, <4>5
    <3>3. i < K \/ i = K
      BY <1>0
    <3> QED BY <3>1, <3>2, <3>3, Zenon
  <2>9. Back(K)
    <3>1. \A i \in 1..K : frames'[i].name = frames[i].name
      BY <1>0, <2>5, <2>7
    <3>2. \A i \in 1..(K - 1) : Done(frames[i])' = Done(frames[i])
      BY <2>7 DEF Done
    <3>3. Done(frames[K])' = Done(frames[K]) \cup {Head(frames[K].left)}
      <4>1. Done(frames[K])' = {calls[i] : i \in 1..(a - (b - 1))}
        <5>1. Done(frames[K])'
                = {in.calls[g.name][i] : i \in 1..(Len(in.calls[g.name]) - Len(g.left))}
          BY <2>7, Zenon DEF Done
        <5>2. Len(in.calls[g.name]) = a /\ in.calls[g.name] = calls
          BY <2>5, Zenon DEF a
        <5>3. Len(g.left) = b - 1
          BY <2>10
        <5> HIDE DEF calls
        <5> QED BY <5>1, <5>2, <5>3
      <4>2. 1..(a - (b - 1)) = 1..(a - b) \cup {a - b + 1}
        BY <2>10
      <4>3. Head(f.left) = calls[a - b + 1]
        BY <2>10
      <4>4. Done(frames[K]) = {calls[i] : i \in 1..(a - b)}
        BY DEF Done, a, b
      <4> HIDE DEF calls
      <4>5. {calls[i] : i \in 1..(a - (b - 1))} = {calls[i] : i \in 1..(a - b)} \cup {calls[a - b + 1]}
        BY <4>2
      <4> QED BY <4>1, <4>3, <4>4, <4>5
    <3> QED BY <2>7, <3>1, <3>2, <3>3 DEF Back
  <2> QED BY <1>2, <2>2, <2>8, <2>9
<1> QED BY <1>0, <1>1, <1>2

LEMMA BackWorking ==
  ASSUME NEW K \in Nat, Back(K)
  PROVE  Working' = {frames[i].name : i \in 1..K}
  BY DEF Back, Working

LEMMA ReturnCovered ==
  ASSUME TypeOK, Stack, AllCovered, BehindInCycle, in' = in,
         NEW K \in 0..Len(frames), Back(K),
         inconsistent \subseteq inconsistent', planned \subseteq planned',
         \A n : Covered(n) => Covered(n)',
         \A n \in planned' \ planned : \A c \in ToSet(in.calls[n]) : Chosen(c) => Covered(c.to)',
         NEW call, K > 0 => call = Head(frames[K].left),
         K > 0 /\ Chosen(call) => Covered(call.to)',
         K > 0 /\ Chosen(call) /\ HasCandidate(frames[K].name) => Behind(call, K)'
  PROVE  AllCovered' /\ BehindInCycle'
<1>0. K \in Nat /\ Len(frames) \in Nat /\ K <= Len(frames) /\ Len(frames') = K
  BY DEF Stack, Back
<1>1. ASSUME NEW n \in planned', NEW c \in ToSet(in.calls[n]), Chosen(c) PROVE Covered(c.to)'
  BY <1>1 DEF AllCovered
<1>2. ASSUME NEW k \in 1..K, NEW c \in Done(frames[k])'
      PROVE  c \in Done(frames[k]) \/ (k = K /\ c = call)
  <2>1. CASE k = K
    BY <1>0, <1>2, <2>1 DEF Back
  <2>2. CASE k # K
    <3>1. k \in 1..(K - 1)
      BY <1>0, <2>2
    <3> QED BY <1>2, <3>1 DEF Back
  <2> QED BY <2>1, <2>2
<1>3. \A k \in 1..K : k \in 1..Len(frames) /\ frames'[k].name = frames[k].name
  BY <1>0 DEF Back
<1>4. ASSUME NEW k \in 1..K, NEW c \in Done(frames[k])', Chosen(c) PROVE Covered(c.to)'
  BY <1>0, <1>2, <1>3, <1>4 DEF AllCovered
<1>5. ASSUME NEW k \in 1..K, NEW c, Behind(c, k) PROVE Behind(c, k)'
  <2>1. CASE Standing(c.to) \subseteq planned
    BY <2>1, InputFixed DEF Behind
  <2>2. CASE ~(Standing(c.to) \subseteq planned)
    <3>1. frames'[k].name \in inconsistent'
      BY <1>3, <1>5, <2>2 DEF Behind
    <3>2. ASSUME c.to \in in.own PROVE \E i \in 1..k : frames'[i].name = c.to /\ CycleFrom(i, k)'
      <4>1. PICK i \in 1..k : frames[i].name = c.to /\ CycleFrom(i, k)
        BY <1>5, <2>2, <3>2 DEF Behind
      <4>2. \A j \in i..k : j \in 1..K
        BY <1>0
      <4>3. i \in 1..K
        BY <1>0
      <4>4. CycleFrom(i, k)'
        BY <1>3, <4>1, <4>2, InputFixed DEF CycleFrom
      <4> QED BY <1>3, <4>1, <4>3, <4>4
    <3> QED BY <3>1, <3>2 DEF Behind
  <2> QED BY <2>1, <2>2
<1>6. ASSUME NEW k \in 1..K, NEW c \in Done(frames[k])', Chosen(c), HasCandidate(frames[k].name)
      PROVE  Behind(c, k)'
  <2>1. CASE c \in Done(frames[k])
    BY <1>3, <1>5, <1>6, <2>1 DEF BehindInCycle
  <2>2. CASE c \notin Done(frames[k])
    <3>1. k = K /\ c = call /\ K > 0
      BY <1>0, <1>2, <1>6, <2>2
    <3> QED BY <1>6, <3>1
  <2> QED BY <2>1, <2>2
<1>7. AllCovered'
  BY <1>0, <1>1, <1>4, InputFixed DEF AllCovered
<1>8. BehindInCycle'
  BY <1>0, <1>3, <1>6, InputFixed DEF BehindInCycle
<1> QED BY <1>7, <1>8

LEMMA OrderKept ==
  ASSUME InOrder, in' = in, plan' = plan, inconsistent \subseteq inconsistent'
  PROVE  InOrder'
<1>1. planned' = planned
  BY DEF planned
<1>2. ASSUME NEW i \in 1..Len(plan'), NEW n, plan'[i] = n, n \notin inconsistent', NEW d \in Needs(n)'
      PROVE  \E k \in 1..(i - 1) : plan'[k] = d
  <2>1. d \in Needs(n) /\ i \in 1..Len(plan) /\ plan[i] = n /\ n \notin inconsistent
    BY <1>2, InputFixed
  <2> QED BY <2>1 DEF InOrder
<1>3. /\ plan \in Seq(Names) /\ planned \subseteq in.own
      /\ \A i, k \in 1..Len(plan) : plan[i] = plan[k] => i = k
  BY DEF InOrder
<1>4. /\ plan' \in Seq(Names) /\ planned' \subseteq in'.own
      /\ \A i, k \in 1..Len(plan') : plan'[i] = plan'[k] => i = k
  BY <1>1, <1>3
<1> QED BY <1>2, <1>4, Zenon DEF InOrder

\* What a step leaves alone as long as the stack and the plan are the same.
LEMMA SameStack ==
  ASSUME Stack, OnStack, AllCovered, BehindInCycle, InOrder,
         UNCHANGED <<in, frames, plan, wstack, inwstack, inconsistent>>
  PROVE  Stack' /\ OnStack' /\ AllCovered' /\ BehindInCycle' /\ InOrder'
<1>0. planned' = planned /\ Working' = Working
  BY DEF planned, Working
<1>1. Stack' /\ OnStack'
  BY <1>0, InputFixed DEF Stack, OnStack
<1>2. AllCovered' /\ BehindInCycle'
  <2>1. /\ \A n : Covered(n)' <=> Covered(n)
        /\ \A i, k : CycleFrom(i, k)' <=> CycleFrom(i, k)
    BY <1>0, InputFixed DEF Covered, CycleFrom
  <2>2. \A c, k : Behind(c, k)' <=> Behind(c, k)
    BY <1>0, <2>1, InputFixed DEF Behind
  <2> QED BY <1>0, <2>1, <2>2, InputFixed DEF AllCovered, BehindInCycle
<1>3. InOrder'
  BY OrderKept
<1> QED BY <1>1, <1>2, <1>3

LEMMA WithinCall ==
  ASSUME IInv, NEW call \in Calls, NEW optional, InCall(call, optional)
  PROVE  /\ Callers(frames, Len(frames)) /\ job # <<>> /\ job[1] \in Jobs /\ outcome = "running"
         /\ frames # <<>> => call = Head(frames[Len(frames)].left)
         /\ frames = <<>> => job[1].result = <<>> /\ call = job[1].call
<1>1. frames \in Seq(Frame) /\ Len(frames) \in Nat /\ (frames = <<>> <=> Len(frames) = 0)
  BY DEF IInv, Stack
<1>2. frames # <<>> => Last(frames) = frames[Len(frames)]
  BY DEF Last
<1>3. job # <<>> /\ job \in Seq(Jobs) /\ Len(job) <= 1
  BY DEF InCall, IInv, AtJob
<1>4. job[1] \in Jobs
  BY <1>3
<1> QED BY <1>1, <1>2, <1>3, <1>4 DEF InCall, Callers

\* A call returns without having been worked on.
LEMMA ReturnsAtOnce ==
  ASSUME IInv, NEW call \in Calls, NEW optional, InCall(call, optional),
         UNCHANGED <<in, replans, next, plan, wstack, inwstack, reinstall, critical, outcome>>,
         inconsistent \subseteq inconsistent', inconsistent' \subseteq Names,
         missing_dep' \subseteq Names,
         NEW entries \in SUBSET Names, entries \subseteq planned, Return(entries, frames),
         Chosen(call) =>
           \/ Standing(call.to) \subseteq planned
           \/ \E i \in 1..Len(frames) :
                /\ frames[i].name = call.to
                /\ HasCandidate(frames[Len(frames)].name) =>
                     \A j \in i..Len(frames) : HasCandidate(frames[j].name)
                                                 => frames[j].name \in inconsistent'
  PROVE  IInv'
<1>a. PICK K \in Nat : K = Len(frames)
  BY DEF IInv, Stack
<1>0. (frames = <<>> <=> K = 0) /\ K \in 0..Len(frames) /\ Stack /\ TypeOK
  <2>1. frames \in Seq(Frame) /\ Stack /\ TypeOK
    BY DEF IInv, Stack
  <2> QED BY <1>a, <2>1
<1>1. Callers(frames, K) /\ job # <<>> /\ job[1] \in Jobs
  BY <1>a, WithinCall
<1>2. planned' = planned
  BY DEF planned
<1>3. /\ Stack' /\ Back(K)
      /\ K = 0 => job' = <<[job[1] EXCEPT !.result = <<entries>>]>>
      /\ K > 0 => job' = job
  BY <1>0, <1>1, <1>2, ReturnBack
<1>4. Working' = Working
  BY <1>a, <1>3, BackWorking DEF Working
<1>5. \A n : Covered(n)' <=> Covered(n)
  BY <1>2, <1>4, InputFixed DEF Covered
<1>6. AllCovered' /\ BehindInCycle'
  <2>1. K > 0 => call = Head(frames[K].left)
    BY <1>a, <1>0, WithinCall
  <2>2. K > 0 /\ Chosen(call) => Covered(call.to)'
    BY <1>5 DEF Covered, Working
  <2>3. ASSUME K > 0, Chosen(call), HasCandidate(frames[K].name) PROVE Behind(call, K)'
    <3>1. CASE Standing(call.to) \subseteq planned
      BY <1>2, <3>1, InputFixed DEF Behind
    <3>2. CASE ~(Standing(call.to) \subseteq planned)
      <4>1. PICK i \in 1..K : /\ frames[i].name = call.to
                              /\ \A j \in i..K : HasCandidate(frames[j].name)
                                                   => frames[j].name \in inconsistent'
        BY <1>a, <2>3, <3>2
      <4>2. \A j \in 1..K : frames'[j].name = frames[j].name
        BY <1>3 DEF Back
      <4>3. K \in i..K /\ \A j \in i..K : j \in 1..K
        OBVIOUS
      <4>4. frames'[K].name \in inconsistent' /\ frames'[i].name = call.to
        BY <2>3, <4>1, <4>2, <4>3
      <4>5. CycleFrom(i, K)'
        BY <4>1, <4>2, <4>3, InputFixed DEF CycleFrom
      <4> QED BY <4>4, <4>5 DEF Behind
    <3> QED BY <3>1, <3>2
  <2>4. AllCovered /\ BehindInCycle
    BY DEF IInv
  <2> QED BY <1>0, <1>2, <1>3, <1>5, <2>1, <2>2, <2>3, <2>4, ReturnCovered
<1>7. \A i \in 1..K : frames'[i].name = frames[i].name
  BY <1>3 DEF Back
<1>8. OnStack'
  BY <1>a, <1>2, <1>3, <1>4, <1>7, InputFixed DEF OnStack, Back, IInv
<1>9. InOrder'
  BY OrderKept DEF IInv
<1>10. TypeOK'
  <2>1. \A i \in 1..K : frames'[i].name \in Names /\ inwstack'[frames'[i].name] # 0
    BY <1>a, <1>7 DEF IInv, TypeOK
  <2> QED BY <1>2, <1>3, <2>1, InputFixed DEF IInv, TypeOK, Back
<1>11. AtJob'
  <2>1. AtJob /\ TypeOK
    BY DEF IInv
  <2>2. CASE K = 0
    <3> DEFINE j == [job[1] EXCEPT !.result = <<entries>>]
    <3>1. job' = <<j>> /\ j \in Jobs /\ j.result = <<entries>> /\ j.call = job[1].call
          /\ j.request = job[1].request
      BY <1>1, <1>3, <2>2 DEF Jobs
    <3> HIDE DEF j
    <3>2. job' \in Seq(Jobs) /\ Len(job') = 1 /\ job' # <<>> /\ job'[1] = j
      BY <3>1
    <3>3. frames' = <<>>
      BY <1>3, <2>2 DEF Back, Stack
    <3>4. call = job[1].call /\ call.fits /\ job[1].result = <<>>
      BY <1>0, <1>1, <2>1, <2>2, WithinCall DEF AtJob
    <3>5. ASSUME Wanted(job[1].request), job[1].request # 0
          PROVE  Standing(in.requests[job[1].request].to) \subseteq planned
      <4>1. in.requests[job[1].request].to = call.to
        BY <1>1, <2>1, <3>4, <3>5 DEF AtJob
      <4>2. CASE HasCandidate(call.to)
        <5>1. Chosen(call)
          BY <3>4, <3>5, <4>1, <4>2 DEF Chosen, Wanted
        <5> QED BY <1>a, <2>2, <4>1, <5>1
      <4>3. CASE ~HasCandidate(call.to)
        BY <4>1, <4>3, StandingOwn
      <4> QED BY <4>2, <4>3
    <3>6. /\ j.call.fits /\ j.result[1] \subseteq planned'
          /\ j.request # 0 => /\ j.request = next' - 1
                              /\ j.call.to = in.requests[next' - 1].to
      BY <1>1, <1>2, <2>1, <3>1, <3>4 DEF AtJob
    <3>7. ASSUME NEW i \in 1..(next' - 1), Wanted(i)
          PROVE  Standing(in.requests[i].to) \subseteq planned'
      <4>1. \/ Standing(in.requests[i].to) \subseteq planned
            \/ job[1].request = i
        BY <2>1, <3>7 DEF AtJob
      <4>2. i # 0
        BY <2>1 DEF AtJob
      <4> QED BY <1>2, <3>5, <3>7, <4>1, <4>2
    <3>8. next' \in 1..(Len(in'.requests) + 1)
      BY <2>1 DEF AtJob
    <3> QED BY <3>2, <3>3, <3>6, <3>7, <3>8, InputFixed DEF AtJob
  <2>3. CASE K > 0
    <3>1. job' = job /\ frames' # <<>> /\ frames # <<>>
      BY <1>0, <1>3, <2>3 DEF Back
    <3>2. frames'[1].name = frames[1].name
      BY <1>0, <1>7, <2>3
    <3> QED BY <1>2, <2>1, <3>1, <3>2, InputFixed DEF AtJob
  <2> QED BY <1>0, <2>2, <2>3
<1> QED BY <1>3, <1>6, <1>8, <1>9, <1>10, <1>11 DEF IInv

LEMMA CallReturns ==
  ASSUME IInv, NEW call \in Calls, NEW optional, InCall(call, optional),
         \/ NotSelected(call) \/ AlreadyPlanned(call, optional) \/ NotThisOne(call, optional)
  PROVE  IInv'
<1>1. call.to \in Names /\ wstack \in Seq(Names) /\ missing_dep \subseteq Names
      /\ inconsistent \subseteq Names
  BY DEF Calls, IInv, TypeOK
<1>2. Ignored(call) \subseteq Names
  <2>1. ToSet(wstack) \subseteq Names
    BY <1>1 DEF ToSet
  <2> QED BY <1>1, <2>1 DEF Ignored
<1>3. CASE NotSelected(call)
  <2>1. ~Chosen(call)
    BY <1>3 DEF NotSelected, Chosen
  <2>2. UNCHANGED <<in, replans, next, plan, wstack, inwstack, inconsistent, missing_dep, reinstall,
                    critical, outcome>>
    BY <1>3 DEF NotSelected, search
  <2>3. Return({}, frames)
    BY <1>3 DEF NotSelected
  <2> QED BY <1>1, <2>1, <2>2, <2>3, ReturnsAtOnce
<1>4. CASE AlreadyPlanned(call, optional)
  <2>1. call.to \in planned /\ planned \subseteq in.own
    BY <1>4 DEF AlreadyPlanned, IInv, InOrder
  <2>2. Standing(call.to) \subseteq planned
    BY <2>1, StandingOwn
  <2>3. Return({call.to}, frames) /\ {call.to} \subseteq planned /\ {call.to} \in SUBSET Names
    BY <1>1, <1>4, <2>1 DEF AlreadyPlanned
  <2>4. /\ UNCHANGED <<in, replans, next, plan, wstack, inwstack, inconsistent, reinstall,
                       critical, outcome>>
        /\ missing_dep' \subseteq Names
    BY <1>2, <1>4 DEF AlreadyPlanned
  <2> QED BY <1>1, <2>2, <2>3, <2>4, ReturnsAtOnce
<1>5. CASE NotThisOne(call, optional)
  <2>1. ~Chosen(call)
    BY <1>5 DEF NotThisOne, Chosen
  <2>2. Return({}, frames)
    BY <1>5 DEF NotThisOne
  <2>3. /\ UNCHANGED <<in, replans, next, plan, wstack, inwstack, inconsistent, reinstall,
                       critical, outcome>>
        /\ missing_dep' \subseteq Names
    BY <1>2, <1>5 DEF NotThisOne
  <2> QED BY <1>1, <2>1, <2>2, <2>3, ReturnsAtOnce
<1> QED BY <1>3, <1>4, <1>5

LEMMA CycleFound ==
  ASSUME IInv, NEW call \in Calls, NEW optional, InCall(call, optional), Cycle(call, optional)
  PROVE  IInv'
<1> DEFINE K == Len(frames)
           ring == {wstack[i] : i \in inwstack[call.to]..Len(wstack)}
<1>1. /\ call.to \in Names /\ wstack \in Seq(Names) /\ missing_dep \subseteq Names
      /\ inconsistent \subseteq Names /\ inwstack \in [Names -> Nat] /\ inwstack[call.to] # 0
      /\ K \in Nat
  BY DEF Calls, IInv, TypeOK, Cycle, Stack
<1>2. Ignored(call) \subseteq Names
  <2>1. ToSet(wstack) \subseteq Names
    BY <1>1 DEF ToSet
  <2> QED BY <1>1, <2>1 DEF Ignored
<1>3. ring \subseteq Names
  BY <1>1
<1>4. inconsistent' = inconsistent \cup ring /\ Return({}, frames)
      /\ UNCHANGED <<in, replans, next, plan, wstack, inwstack, reinstall, critical, outcome>>
      /\ missing_dep' \subseteq Names
  BY <1>2 DEF Cycle
<1>5. ASSUME Chosen(call)
      PROVE  \E i \in 1..K :
               /\ frames[i].name = call.to
               /\ \A j \in i..K : HasCandidate(frames[j].name) => frames[j].name \in inconsistent'
  <2>1. HasCandidate(call.to)
    BY <1>5 DEF Chosen
  <2>2. PICK i \in 1..K : frames[i].name = call.to
    BY <1>1, <2>1 DEF IInv, OnStack, Working
  <2>3. ASSUME NEW j \in i..K, HasCandidate(frames[j].name) PROVE frames[j].name \in ring
    <3>1. j \in 1..K /\ (j = i \/ i < j)
      BY <1>1
    <3>2. inwstack[frames[j].name] \in 1..Len(wstack)
          /\ wstack[inwstack[frames[j].name]] = frames[j].name
      BY <2>3, <3>1 DEF IInv, OnStack
    <3>3. inwstack[call.to] <= inwstack[frames[j].name]
      <4>1. CASE i < j
        <5>1. inwstack[frames[i].name] < inwstack[frames[j].name]
          BY <2>1, <2>2, <2>3, <3>1, <4>1 DEF IInv, OnStack
        <5> QED BY <1>1, <2>2, <3>2, <5>1
      <4>2. CASE j = i
        BY <1>1, <2>2, <4>2
      <4> QED BY <3>1, <4>1, <4>2
    <3>4. inwstack[frames[j].name] \in inwstack[call.to]..Len(wstack)
      BY <1>1, <3>2, <3>3
    <3> QED BY <3>2, <3>4
  <2> QED BY <1>4, <2>2, <2>3
<1> HIDE DEF ring
<1> QED BY <1>1, <1>3, <1>4, <1>5, ReturnsAtOnce

LEMMA Entered ==
  ASSUME IInv, NEW call \in Calls, NEW optional, InCall(call, optional), Enter(call, optional)
  PROVE  IInv'
<1> DEFINE n == call.to
           f == [name |-> n, left |-> in.calls[n], got |-> {}]
<1>a. PICK K \in Nat : K = Len(frames)
  BY DEF IInv, Stack
<1>1. /\ n \in Names /\ in.calls[n] \in Seq(Calls) /\ f \in Frame /\ frames \in Seq(Frame)
      /\ wstack \in Seq(Names) /\ inwstack \in [Names -> Nat]
      /\ TypeOK /\ Stack /\ OnStack /\ AllCovered /\ BehindInCycle /\ InOrder /\ AtJob
  BY Input DEF Calls, Frame, IInv, TypeOK, Stack
<1>2. /\ UNCHANGED <<in, replans, next, job, plan, inconsistent, reinstall, critical, outcome>>
      /\ frames' = Append(frames, f)
      /\ inwstack' = [inwstack EXCEPT ![n] = Len(wstack) + 1] /\ inwstack[n] = 0
      /\ wstack' = Append(wstack, n) /\ missing_dep' = Ignored(call)
      /\ n \in in.selected /\ n \notin planned
      /\ HasCandidate(n) \/ n \in in.virtual
  BY DEF Enter, Plannable, Reached
<1> HIDE DEF f
<1>3. /\ frames' \in Seq(Frame) /\ Len(frames') = K + 1 /\ frames'[K + 1] = f
      /\ \A i \in 1..K : frames'[i] = frames[i]
  BY <1>a, <1>1, <1>2, Appended
<1>4. 1..(K + 1) = 1..K \cup {K + 1} /\ f.name = n /\ f.left = in.calls[n] /\ f.got = {}
  BY DEF f
<1>5. Working' = Working \cup {n} /\ n \notin Working
  <2>1. Working' = {frames'[i].name : i \in 1..(K + 1)}
    BY <1>3 DEF Working
  <2>2. Working' = Working \cup {n}
    BY <1>a, <1>3, <1>4, <2>1 DEF Working
  <2>3. n \notin Working
    BY <1>1, <1>2 DEF OnStack, Working
  <2> QED BY <2>2, <2>3
<1>6. planned' = planned
  BY <1>2 DEF planned
<1>7. /\ wstack' \in Seq(Names) /\ Len(wstack') = Len(wstack) + 1 /\ Len(wstack) \in Nat
      /\ wstack'[Len(wstack) + 1] = n /\ \A i \in 1..Len(wstack) : wstack'[i] = wstack[i]
  BY <1>1, <1>2, Appended
<1>8. inwstack' \in [Names -> Nat] /\ inwstack'[n] = Len(wstack) + 1
      /\ \A m \in Names \ {n} : inwstack'[m] = inwstack[m]
  BY <1>1, <1>2, <1>7
<1>9. \A i \in 1..K : frames[i].name \in Names \ {n}
  BY <1>a, <1>1, <1>5, StackType DEF Working
<1>10. Stack'
  <2>1. ASSUME NEW i \in 1..K
        PROVE  /\ frames[i].left # <<>>
               /\ Head(frames[i].left).to = frames'[i + 1].name
    <3>1. CASE i < K
      <4>1. i + 1 \in 1..K
        BY <3>1
      <4>2. frames'[i + 1] = frames[i + 1]
        BY <1>3, <4>1
      <4> QED BY <1>a, <1>1, <3>1, <4>2 DEF Stack
    <3>2. CASE i = K
      <4>1. frames # <<>> /\ frames[K].left # <<>> /\ call = Head(frames[K].left)
        BY <1>a, <3>2, WithinCall DEF Callers
      <4> QED BY <1>3, <1>4, <3>2, <4>1
    <3>3. i < K \/ i = K
      OBVIOUS
    <3> QED BY <3>1, <3>2, <3>3
  <2>2. ASSUME NEW i \in 1..K
        PROVE  /\ Len(frames[i].left) <= Len(in.calls[frames[i].name])
               /\ \A k \in 1..Len(frames[i].left) :
                    frames[i].left[k] = in.calls[frames[i].name]
                      [Len(in.calls[frames[i].name]) - Len(frames[i].left) + k]
               /\ frames[i].got \subseteq planned
    BY <1>a, <1>1 DEF Stack
  <2>3. /\ Len(f.left) <= Len(in.calls[f.name]) /\ f.got \subseteq planned
        /\ \A k \in 1..Len(f.left) :
             f.left[k] = in.calls[f.name][Len(in.calls[f.name]) - Len(f.left) + k]
    BY <1>1, <1>4
  <2>4. ~(K + 1 < K + 1)
    OBVIOUS
  <2>5. \A i \in 1..(K + 1) : i \in 1..K \/ i = K + 1
    BY <1>4
  <2>0. in' = in /\ planned' = planned /\ Len(frames') = K + 1 /\ frames' \in Seq(Frame)
    BY <1>2, <1>3, <1>6
  <2> SUFFICES ASSUME NEW i \in 1..Len(frames')
               PROVE  LET h == frames'[i]
                          c == in'.calls[h.name]
                      IN /\ Len(h.left) <= Len(c)
                         /\ \A k \in 1..Len(h.left) : h.left[k] = c[Len(c) - Len(h.left) + k]
                         /\ h.got \subseteq planned'
                         /\ i < Len(frames') => h.left # <<>> /\ Head(h.left).to = frames'[i + 1].name
    BY <2>0, Zenon DEF Stack
  <2>6. CASE i \in 1..K
    <3>1. frames'[i] = frames[i]
      BY <1>3, <2>6
    <3> QED BY <2>0, <2>1, <2>2, <2>6, <3>1, Zenon
  <2>7. CASE i = K + 1
    <3>1. frames'[i] = f /\ ~(i < K + 1)
      BY <1>3, <2>7
    <3> QED BY <2>0, <2>3, <3>1
  <2> QED BY <2>0, <2>5, <2>6, <2>7, Zenon
<1>11. OnStack'
  <2>1. \A i, k \in 1..(K + 1) : frames'[i].name = frames'[k].name => i = k
    <3>1. \A i, k \in 1..K : frames[i].name = frames[k].name => i = k
      BY <1>a, <1>1 DEF OnStack
    <3> QED BY <1>3, <1>4, <1>9, <3>1
  <2>2. planned' \cap Working' = {}
    BY <1>1, <1>2, <1>5, <1>6 DEF OnStack
  <2>3. \A m \in Names : inwstack'[m] # 0 /\ HasCandidate(m) => m \in Working'
    BY <1>1, <1>5, <1>8 DEF OnStack
  <2>4. ASSUME NEW i \in 1..(K + 1), NEW m, m = frames'[i].name
        PROVE  /\ m \in in.selected /\ inwstack'[m] # 0
               /\ HasCandidate(m) \/ m \in in.virtual
               /\ HasCandidate(m) => inwstack'[m] \in 1..Len(wstack') /\ wstack'[inwstack'[m]] = m
    <3>1. CASE i \in 1..K
      <4>1. m = frames[i].name /\ m \in Names \ {n} /\ inwstack'[m] = inwstack[m]
        BY <1>3, <1>8, <1>9, <2>4, <3>1
      <4>2. /\ m \in in.selected /\ inwstack[m] # 0
            /\ HasCandidate(m) \/ m \in in.virtual
            /\ HasCandidate(m) => inwstack[m] \in 1..Len(wstack) /\ wstack[inwstack[m]] = m
        BY <1>a, <1>1, <3>1, <4>1 DEF OnStack
      <4> QED BY <1>7, <4>1, <4>2
    <3>2. CASE i = K + 1
      BY <1>2, <1>3, <1>4, <1>7, <1>8, <2>4, <3>2
    <3> QED BY <1>4, <3>1, <3>2
  <2>5. ASSUME NEW i \in 1..(K + 1), NEW k \in 1..(K + 1), i < k,
               HasCandidate(frames'[i].name), HasCandidate(frames'[k].name)
        PROVE  inwstack'[frames'[i].name] < inwstack'[frames'[k].name]
    <3>1. i \in 1..K /\ frames'[i] = frames[i] /\ inwstack'[frames[i].name] = inwstack[frames[i].name]
      <4>1. i \in 1..K
        BY <2>5
      <4> QED BY <1>3, <1>8, <1>9, <4>1
    <3>2. CASE k \in 1..K
      <4>1. frames'[k] = frames[k] /\ inwstack'[frames[k].name] = inwstack[frames[k].name]
        BY <1>3, <1>8, <1>9, <3>2
      <4> QED BY <1>a, <1>1, <2>5, <3>1, <3>2, <4>1 DEF OnStack
    <3>3. CASE k = K + 1
      <4>1. inwstack[frames[i].name] \in 1..Len(wstack)
        BY <1>a, <1>1, <2>5, <3>1 DEF OnStack
      <4>2. inwstack'[frames'[k].name] = Len(wstack) + 1
        BY <1>3, <1>4, <1>8, <3>3
      <4> QED BY <1>7, <3>1, <4>1, <4>2
    <3> QED BY <1>4, <3>2, <3>3
  <2>6. in' = in
    BY <1>2
  <2> QED BY <1>3, <2>1, <2>2, <2>3, <2>4, <2>5, <2>6, InputFixed DEF OnStack
<1>12. \A m : Covered(m) => Covered(m)'
  BY <1>2, <1>5, <1>6, InputFixed DEF Covered
<1>13. /\ \A i \in 1..K : Done(frames[i])' = Done(frames[i])
       /\ Done(frames[K + 1])' = {}
  <2>1. \A i \in 1..K : Done(frames[i])' = Done(frames[i])
    BY <1>2, <1>3 DEF Done
  <2>2. Done(frames[K + 1])' = {in.calls[f.name][i] : i \in 1..(Len(in.calls[f.name]) - Len(f.left))}
    <3>1. in' = in /\ frames'[K + 1] = f
      BY <1>2, <1>3
    <3> QED BY <3>1, Zenon DEF Done
  <2>3. 1..(Len(in.calls[f.name]) - Len(f.left)) = {}
    BY <1>1, <1>4
  <2> QED BY <2>1, <2>2, <2>3
<1>14. AllCovered'
  <2>1. ASSUME NEW i \in 1..(K + 1), NEW c \in Done(frames[i])', Chosen(c) PROVE Covered(c.to)'
    <3>1. i \in 1..K /\ c \in Done(frames[i])
      BY <1>4, <1>13, <2>1
    <3> QED BY <1>a, <1>1, <1>12, <2>1, <3>1 DEF AllCovered
  <2>2. ASSUME NEW m \in planned, NEW c \in ToSet(in.calls[m]), Chosen(c) PROVE Covered(c.to)'
    BY <1>1, <1>12, <2>2 DEF AllCovered
  <2> QED BY <1>2, <1>3, <1>6, <2>1, <2>2, InputFixed DEF AllCovered
<1>15. BehindInCycle'
  <2>1. ASSUME NEW k \in 1..(K + 1), NEW c \in Done(frames[k])', Chosen(c),
               HasCandidate(frames'[k].name)
        PROVE  Behind(c, k)'
    <3>1. k \in 1..K /\ c \in Done(frames[k]) /\ frames'[k] = frames[k]
      BY <1>3, <1>4, <1>13, <2>1
    <3>2. Behind(c, k)
      BY <1>a, <1>1, <2>1, <3>1 DEF BehindInCycle
    <3>3. \A i \in 1..k : CycleFrom(i, k) => CycleFrom(i, k)'
      BY <1>2, <1>3, <3>1, InputFixed DEF CycleFrom
    <3>4. \A i \in 1..k : frames'[i] = frames[i]
      BY <1>3, <3>1
    <3> QED BY <1>2, <1>6, <3>1, <3>2, <3>3, <3>4, InputFixed DEF Behind
  <2> QED BY <1>2, <1>3, <2>1, InputFixed DEF BehindInCycle
<1>16. InOrder'
  BY <1>1, <1>2, OrderKept
<1>17. AtJob'
  <2>1. frames' # <<>> /\ job # <<>> /\ (frames = <<>> => job[1].call = call)
        /\ job[1].result = <<>>
    <3>1. frames' # <<>>
      BY <1>3
    <3>2. job # <<>> /\ (frames = <<>> => job[1].call = call /\ job[1].result = <<>>)
      BY WithinCall
    <3> QED BY <1>1, <3>1, <3>2 DEF AtJob
  <2>2. frames'[1].name = job[1].call.to
    <3>1. CASE K = 0
      <4>1. frames = <<>>
        <5>1. frames \in Seq(Frame) /\ Len(frames) = 0
          BY <1>a, <1>1, <3>1
        <5> QED BY <5>1
      <4> QED BY <1>3, <1>4, <2>1, <3>1, <4>1
    <3>2. CASE K > 0
      <4>1. frames # <<>> /\ frames'[1] = frames[1]
        BY <1>a, <1>3, <3>2
      <4> QED BY <1>1, <2>1, <4>1 DEF AtJob
    <3> QED BY <3>1, <3>2
  <2> QED BY <1>1, <1>2, <1>6, <2>1, <2>2, InputFixed DEF AtJob
<1>18. TypeOK'
  <2>1. ToSet(wstack) \subseteq Names
    BY <1>1 DEF ToSet
  <2>2. missing_dep' \subseteq Names
    BY <1>1, <1>2, <2>1 DEF Ignored, TypeOK
  <2>3. ASSUME NEW i \in 1..(K + 1) PROVE frames'[i].name \in Names /\ inwstack'[frames'[i].name] # 0
    <3>1. CASE i \in 1..K
      BY <1>a, <1>1, <1>3, <1>8, <1>9, <3>1 DEF TypeOK
    <3>2. CASE i = K + 1
      BY <1>1, <1>3, <1>4, <1>7, <1>8, <3>2
    <3> QED BY <1>4, <3>1, <3>2
  <2>4. ASSUME NEW m \in Names, inwstack'[m] # 0, HasCandidate(m)
        PROVE  inwstack'[m] \in 1..Len(wstack') /\ wstack'[inwstack'[m]] = m
    <3>1. CASE m = n
      BY <1>7, <1>8, <3>1
    <3>2. CASE m # n
      <4>1. inwstack'[m] = inwstack[m] /\ inwstack[m] \in 1..Len(wstack) /\ wstack[inwstack[m]] = m
        BY <1>1, <1>8, <2>4, <3>2 DEF TypeOK
      <4> QED BY <1>7, <4>1
    <3> QED BY <3>1, <3>2
  <2> QED BY <1>1, <1>2, <1>3, <1>6, <1>7, <1>8, <2>2, <2>3, <2>4, InputFixed DEF TypeOK
<1> QED BY <1>10, <1>11, <1>14, <1>15, <1>16, <1>17, <1>18 DEF IInv

\* Of the frame that is left, all calls have returned.
LEMMA Leaving ==
  ASSUME IInv, NEW n \in Names, Planning(n), NEW K, K = Len(frames) - 1
  PROVE  /\ K \in Nat /\ K + 1 = Len(frames) /\ K \in 0..Len(frames)
         /\ n = frames[K + 1].name /\ outcome = "running" /\ job # <<>> /\ job[1] \in Jobs
         /\ Callers(Front(frames), K)
         /\ K > 0 => Head(frames[K].left).to = n
         /\ Done(frames[K + 1]) = ToSet(in.calls[n])
         /\ \A i \in 1..K : frames[i].name # n
         /\ n \notin planned /\ in.calls[n] \in Seq(Calls)
<1>1. frames \in Seq(Frame) /\ frames # <<>> /\ TypeOK /\ Stack /\ OnStack /\ AtJob
  BY DEF IInv, Stack, Planning
<1>2. /\ K \in Nat /\ K + 1 = Len(frames) /\ K \in 0..Len(frames) /\ K + 1 \in 1..Len(frames)
      /\ \A i \in 1..K : i \in 1..Len(frames) /\ i # K + 1
  BY <1>1
<1>3. /\ n = frames[K + 1].name /\ frames[K + 1].left = <<>> /\ outcome = "running"
  BY <1>1, <1>2, FrontLast DEF Planning
<1>4. K > 0 => frames[K].left # <<>> /\ Head(frames[K].left).to = n
  <2> SUFFICES ASSUME K > 0 PROVE frames[K].left # <<>> /\ Head(frames[K].left).to = n
    OBVIOUS
  <2>1. K \in 1..Len(frames) /\ K < Len(frames)
    BY <1>2
  <2> QED BY <1>1, <1>2, <1>3, <2>1 DEF Stack
<1>5. Callers(Front(frames), K)
  <2>1. Front(frames) \in Seq(Frame) /\ Len(Front(frames)) = K
        /\ \A i \in 1..K : Front(frames)[i] = frames[i]
    BY <1>1, <1>2, FrontLast
  <2> QED BY <1>2, <1>4, <2>1 DEF Callers
<1>6. in.calls[n] \in Seq(Calls)
  BY <1>1, Input
<1>7. Done(frames[K + 1]) = ToSet(in.calls[n])
  <2>1. 1..(Len(in.calls[n]) - Len(<<>>)) = DOMAIN in.calls[n]
    BY <1>6
  <2>2. Done(frames[K + 1]) = {in.calls[n][i] : i \in 1..(Len(in.calls[n]) - Len(<<>>))}
    BY <1>3, Zenon DEF Done
  <2> QED BY <2>1, <2>2 DEF ToSet
<1>8. \A i \in 1..K : frames[i].name # n
  BY <1>1, <1>2, <1>3 DEF OnStack
<1>9. n \notin planned
  BY <1>1, <1>2, <1>3 DEF OnStack, Working
<1>10. job # <<>> /\ job[1] \in Jobs
  <2>1. job # <<>> /\ job \in Seq(Jobs) /\ Len(job) <= 1
    BY <1>1 DEF AtJob
  <2> QED BY <2>1
<1> QED BY <1>2, <1>3, <1>4, <1>5, <1>6, <1>7, <1>8, <1>9, <1>10

\* A call that was worked on returns; what stands for its package is planned or will be.
LEMMA Left ==
  ASSUME IInv, NEW n \in Names, Planning(n), NEW K, K = Len(frames) - 1,
         UNCHANGED <<in, replans, next, inconsistent, missing_dep, reinstall, critical, outcome>>,
         NEW entries \in SUBSET Names, entries \subseteq planned', Return(entries, Front(frames)),
         planned \subseteq planned', planned' \subseteq planned \cup {n},
         n \in in.own => n \in planned',
         \/ ~HasCandidate(n) /\ UNCHANGED <<wstack, inwstack>>
         \/ HasCandidate(n) /\ wstack' = Removed(n) /\ inwstack' = [inwstack EXCEPT ![n] = 0],
         InOrder'
  PROVE  IInv'
<1>1. /\ K \in Nat /\ K + 1 = Len(frames) /\ K \in 0..Len(frames) /\ K + 1 \in 1..Len(frames)
      /\ n = frames[K + 1].name /\ job # <<>> /\ job[1] \in Jobs
      /\ Callers(Front(frames), K)
      /\ K > 0 => Head(frames[K].left).to = n
      /\ Done(frames[K + 1]) = ToSet(in.calls[n])
      /\ \A i \in 1..K : frames[i].name # n
      /\ n \notin planned
  BY Leaving
<1>2. /\ TypeOK /\ Stack /\ OnStack /\ AllCovered /\ BehindInCycle /\ InOrder /\ AtJob
  BY DEF IInv
<1>3. /\ Stack' /\ Back(K)
      /\ K = 0 => job' = <<[job[1] EXCEPT !.result = <<entries>>]>>
      /\ K > 0 => job' = job
  BY <1>1, <1>2, ReturnBack
<1>4. \A i \in 1..K : frames'[i].name = frames[i].name /\ i \in 1..Len(frames)
  BY <1>1, <1>3 DEF Back
<1>5. Working' = {frames[i].name : i \in 1..K}
  BY <1>1, <1>3, BackWorking
<1>6. Working' = Working \ {n}
  <2>1. Working = {frames[i].name : i \in 1..(K + 1)}
    BY <1>1 DEF Working
  <2>2. 1..(K + 1) = 1..K \cup {K + 1}
    BY <1>1
  <2> QED BY <1>1, <1>5, <2>1, <2>2
<1>7. \A c \in ToSet(in.calls[n]) : Chosen(c) => Covered(c.to)
  BY <1>1, <1>2 DEF AllCovered
<1>8. Standing(n) \subseteq planned' \cup Working'
  <2>1. CASE n \in in.own
    BY <2>1, StandingOwn
  <2>2. ASSUME n \notin in.own, NEW d \in Standing(n) PROVE d \in planned' \cup Working'
    <3>1. PICK c \in ToSet(in.calls[n]) : c.to = d /\ Chosen(c) /\ d \in in.own
      BY <1>2, <2>2, ProvidersChosen
    <3>2. Covered(d) /\ Standing(d) = {d}
      BY <1>7, <3>1, StandingOwn
    <3>3. d \in planned \cup Working /\ d # n
      BY <2>2, <3>1, <3>2 DEF Covered
    <3> QED BY <1>6, <3>3
  <2> QED BY <2>1, <2>2
<1>9. ASSUME NEW m, Covered(m) PROVE Covered(m)'
  <2>1. CASE m = n
    BY <1>8, <2>1, InputFixed DEF Covered
  <2>2. CASE m # n /\ m \in Working
    BY <1>6, <2>2 DEF Covered
  <2>3. CASE m # n /\ m \notin Working
    <3>1. \A d \in Standing(m) : d \in planned' \cup Working'
      BY <1>6, <1>9, <2>3, StandingOwn DEF Covered
    <3> QED BY <3>1, InputFixed DEF Covered
  <2> QED BY <2>1, <2>2, <2>3
<1>10. AllCovered' /\ BehindInCycle'
  <2>0. PICK call : call = Head(frames[K].left)
    OBVIOUS
  <2>1. \A m \in planned' \ planned : \A c \in ToSet(in.calls[m]) : Chosen(c) => Covered(c.to)'
    BY <1>7, <1>9
  <2>2. K > 0 /\ Chosen(call) => Covered(call.to)'
    BY <1>1, <1>8, <2>0, InputFixed DEF Covered
  <2>3. ASSUME K > 0, Chosen(call), HasCandidate(frames[K].name) PROVE Behind(call, K)'
    <3>1. call.to = n /\ HasCandidate(n) /\ K \in 1..K
      BY <1>1, <2>0, <2>3 DEF Chosen
    <3>2. CASE n \in in.own
      <4>1. Standing(n) \subseteq planned'
        BY <3>2, StandingOwn
      <4> QED BY <3>1, <4>1, InputFixed DEF Behind
    <3>3. CASE n \notin in.own /\ frames[K].name \in inconsistent
      <4>1. frames'[K].name \in inconsistent'
        BY <1>4, <3>1, <3>3
      <4> QED BY <3>1, <3>3, <4>1 DEF Behind
    <3>4. CASE n \notin in.own /\ frames[K].name \notin inconsistent
      <4>1. ASSUME NEW d \in Standing(n) PROVE d \in planned
        <5>1. PICK c \in ToSet(in.calls[n]) : c.to = d /\ Chosen(c) /\ d \in in.own
          BY <1>2, <3>4, <4>1, ProvidersChosen
        <5>2. Behind(c, K + 1) /\ Standing(d) = {d}
          BY <1>1, <1>2, <3>1, <5>1, StandingOwn DEF BehindInCycle
        <5>3. ASSUME d \notin planned PROVE FALSE
          <6>1. PICK i \in 1..(K + 1) : frames[i].name = d /\ CycleFrom(i, K + 1)
            BY <5>1, <5>2, <5>3 DEF Behind
          <6>2. i # K + 1
            BY <1>1, <3>4, <5>1, <6>1
          <6>3. K \in i..(K + 1)
            <7>1. K \in Nat /\ i \in 1..(K + 1)
              BY <1>1, <6>1
            <7> QED BY <6>2, <7>1
          <6>4. HasCandidate(frames[K].name) => frames[K].name \in inconsistent
            BY <6>1, <6>3, Zenon DEF CycleFrom
          <6> QED BY <2>3, <3>4, <6>4
        <5> QED BY <5>3
      <4>2. Standing(n) \subseteq planned'
        BY <4>1
      <4> QED BY <3>1, <4>2, InputFixed DEF Behind
    <3> QED BY <3>2, <3>3, <3>4
  <2> QED BY <1>1, <1>2, <1>3, <1>9, <2>0, <2>1, <2>2, <2>3, ReturnCovered
<1>11. wstack \in Seq(Names) /\ inwstack \in [Names -> Nat]
  BY <1>2 DEF TypeOK
<1>12. /\ wstack' \in Seq(Names) /\ inwstack' \in [Names -> Nat]
       /\ inwstack'[n] = 0 \/ ~HasCandidate(n)
       /\ \A m \in Names \ {n} : inwstack'[m] = inwstack[m]
       /\ \A i \in 1..K : HasCandidate(frames[i].name) =>
            /\ inwstack[frames[i].name] \in 1..Len(wstack')
            /\ wstack'[inwstack[frames[i].name]] = frames[i].name
  <2> DEFINE At(i) == inwstack[frames[i].name]
  <2>1. \A i \in 1..K : HasCandidate(frames[i].name) =>
          At(i) \in 1..Len(wstack) /\ wstack[At(i)] = frames[i].name
    BY <1>2, <1>4 DEF OnStack
  <2>2. CASE ~HasCandidate(n)
    <3>1. wstack' = wstack /\ inwstack' = inwstack
      BY <2>2
    <3> QED BY <1>11, <2>1, <2>2, <3>1
  <2>3. CASE HasCandidate(n)
    <3>1. wstack' = Removed(n) /\ inwstack' = [inwstack EXCEPT ![n] = 0]
      BY <2>3
    <3>2. inwstack[n] \in 1..Len(wstack)
      BY <1>1, <1>2, <2>3 DEF OnStack
    <3>3. /\ wstack' \in Seq(Names) /\ Len(wstack') = Len(wstack) - 1
          /\ \A k \in 1..(inwstack[n] - 1) : wstack'[k] = wstack[k]
      BY <1>11, <3>1, <3>2, WithoutOne DEF Removed
    <3>4. ASSUME NEW i \in 1..K, HasCandidate(frames[i].name) PROVE At(i) \in 1..(inwstack[n] - 1)
      <4>1. At(i) < inwstack[n]
        <5>1. i < K + 1 /\ i \in 1..Len(frames)
          BY <1>1
        <5> QED BY <1>1, <1>2, <2>3, <3>4, <5>1 DEF OnStack
      <4>2. At(i) \in 1..Len(wstack)
        BY <2>1, <3>4
      <4> HIDE DEF At
      <4> QED BY <3>2, <4>1, <4>2
    <3>5. \A i \in 1..K : HasCandidate(frames[i].name) =>
            At(i) \in 1..Len(wstack') /\ wstack'[At(i)] = frames[i].name
      <4> SUFFICES ASSUME NEW i \in 1..K, HasCandidate(frames[i].name)
                   PROVE  At(i) \in 1..Len(wstack') /\ wstack'[At(i)] = frames[i].name
        OBVIOUS
      <4>1. At(i) \in 1..(inwstack[n] - 1) /\ wstack[At(i)] = frames[i].name
        BY <2>1, <3>4
      <4>2. Len(wstack) \in Nat
        BY <1>11
      <4> HIDE DEF At
      <4> QED BY <3>2, <3>3, <4>1, <4>2
    <3> QED BY <1>11, <3>1, <3>3, <3>5
  <2> QED BY <2>2, <2>3
<1>13. OnStack'
  <2>1. planned' \cap Working' = {}
    BY <1>2, <1>6 DEF OnStack
  <2>2. \A i, k \in 1..K : frames[i].name = frames[k].name => i = k
    BY <1>1, <1>2, <1>4 DEF OnStack
  <2>3. ASSUME NEW m \in Names, inwstack'[m] # 0, HasCandidate(m) PROVE m \in Working'
    <3>1. m # n
      BY <1>12, <2>3
    <3>2. m \in Working
      BY <1>2, <1>12, <2>3, <3>1 DEF OnStack
    <3> QED BY <1>6, <3>1, <3>2
  <2>4. \A i \in 1..K : frames[i].name \in Names \ {n}
    BY <1>1, <1>2, <1>4 DEF TypeOK
  <2>5. ASSUME NEW i \in 1..K
        PROVE  LET m == frames[i].name
               IN /\ m \in in.selected /\ inwstack'[m] # 0
                  /\ HasCandidate(m) \/ m \in in.virtual
                  /\ HasCandidate(m) => inwstack'[m] \in 1..Len(wstack') /\ wstack'[inwstack'[m]] = m
    <3>1. /\ frames[i].name \in in.selected /\ inwstack[frames[i].name] # 0
          /\ HasCandidate(frames[i].name) \/ frames[i].name \in in.virtual
      BY <1>2, <1>4 DEF OnStack
    <3>2. inwstack'[frames[i].name] = inwstack[frames[i].name]
      BY <1>12, <2>4
    <3> QED BY <1>12, <3>1, <3>2
  <2>6. ASSUME NEW i \in 1..K, NEW k \in 1..K, i < k,
               HasCandidate(frames[i].name), HasCandidate(frames[k].name)
        PROVE  inwstack'[frames[i].name] < inwstack'[frames[k].name]
    BY <1>2, <1>4, <1>12, <2>4, <2>6 DEF OnStack
  <2>7. Len(frames') = K
    BY <1>3 DEF Back
  <2> QED BY <1>4, <2>1, <2>2, <2>3, <2>5, <2>6, <2>7, InputFixed DEF OnStack
<1>14. TypeOK'
  <2>1. plan' \in Seq(Names)
    BY DEF InOrder
  <2>2. reinstall' \subseteq planned' /\ critical' \subseteq planned'
    BY <1>2 DEF TypeOK
  <2>3. \A i \in 1..Len(frames') : frames'[i].name \in Names /\ inwstack'[frames'[i].name] # 0
    <3>1. \A i \in 1..Len(frames') : inwstack'[frames'[i].name] # 0
      BY <1>13 DEF OnStack
    <3>2. \A i \in 1..K : frames[i].name \in Names
      BY <1>2, <1>4 DEF TypeOK
    <3> QED BY <1>3, <1>4, <3>1, <3>2 DEF Back
  <2>4. ASSUME NEW m \in Names, inwstack'[m] # 0, HasCandidate(m)
        PROVE  inwstack'[m] \in 1..Len(wstack') /\ wstack'[inwstack'[m]] = m
    <3>1. m \in Working'
      BY <1>13, <2>4, InputFixed DEF OnStack
    <3>2. PICK i \in 1..K : frames[i].name = m
      BY <1>5, <3>1
    <3>3. inwstack'[m] = inwstack[m]
      BY <1>1, <1>12, <3>2
    <3> QED BY <1>12, <2>4, <3>2, <3>3
  <2> QED BY <1>2, <1>12, <2>1, <2>2, <2>3, <2>4, InputFixed DEF TypeOK
<1>15. AtJob'
  <2>1. next' \in 1..(Len(in'.requests) + 1) /\ job[1].call.fits
    BY <1>1, <1>2 DEF AtJob
  <2>2. CASE K = 0
    <3> DEFINE j == [job[1] EXCEPT !.result = <<entries>>]
    <3>1. job' = <<j>> /\ j \in Jobs /\ j.result = <<entries>> /\ j.call = job[1].call
          /\ j.request = job[1].request
      BY <1>1, <1>3, <2>2 DEF Jobs
    <3> HIDE DEF j
    <3>2. job' \in Seq(Jobs) /\ Len(job') = 1 /\ job' # <<>> /\ job'[1] = j
      BY <3>1
    <3>3. frames' = <<>> /\ Working' = {}
      BY <1>3, <1>5, <2>2 DEF Back, Stack
    <3>4. frames # <<>> /\ job[1].call.to = n
      BY <1>1, <1>2, <2>2 DEF AtJob
    <3>5. Standing(n) \subseteq planned'
      BY <1>8, <3>3
    <3>6. /\ j.call.fits /\ j.result[1] \subseteq planned'
          /\ j.request # 0 => /\ j.request = next' - 1
                              /\ j.call.to = in.requests[next' - 1].to
      BY <1>1, <1>2, <2>1, <3>1, <3>4 DEF AtJob
    <3>7. ASSUME NEW i \in 1..(next' - 1), Wanted(i)
          PROVE  Standing(in.requests[i].to) \subseteq planned'
      <4>1. \/ Standing(in.requests[i].to) \subseteq planned
            \/ job[1].request = i
        BY <1>2, <3>7 DEF AtJob
      <4>2. i # 0
        BY <2>1
      <4>3. job[1].request = i => in.requests[i].to = n
        BY <1>1, <1>2, <3>4, <4>2 DEF AtJob
      <4> QED BY <3>5, <4>1, <4>3
    <3> QED BY <2>1, <3>2, <3>3, <3>6, <3>7, InputFixed DEF AtJob
  <2>3. CASE K > 0
    <3>1. job' = job /\ frames' # <<>> /\ frames # <<>> /\ frames'[1].name = frames[1].name
      BY <1>1, <1>3, <1>4, <2>3 DEF Back
    <3> QED BY <1>2, <3>1, InputFixed DEF AtJob
  <2> QED BY <1>1, <2>2, <2>3
<1> QED BY <1>3, <1>10, <1>13, <1>14, <1>15 DEF IInv

LEMMA PlannedLast ==
  ASSUME IInv, NEW n \in Names, Planning(n), n \in in.own, plan' = Append(plan, n),
         UNCHANGED <<in, inconsistent>>
  PROVE  InOrder' /\ planned' = planned \cup {n}
<1>1. PICK K : K = Len(frames) - 1
  OBVIOUS
<1>2. /\ K + 1 \in 1..Len(frames) /\ n = frames[K + 1].name /\ n \notin planned
      /\ Done(frames[K + 1]) = ToSet(in.calls[n])
  <2>1. K \in Nat /\ K + 1 = Len(frames) /\ n = frames[K + 1].name /\ n \notin planned
        /\ Done(frames[K + 1]) = ToSet(in.calls[n])
    BY <1>1, Leaving
  <2> QED BY <2>1
<1>3. InOrder /\ BehindInCycle /\ plan \in Seq(Names) /\ planned \subseteq in.own
  BY DEF IInv, InOrder
<1>4. /\ plan' \in Seq(Names) /\ Len(plan') = Len(plan) + 1 /\ Len(plan) \in Nat
      /\ \A i \in 1..Len(plan) : plan'[i] = plan[i]
      /\ plan'[Len(plan) + 1] = n
      /\ planned' = planned \cup {n}
  BY <1>3, Appended DEF planned
<1>5. planned = {plan[i] : i \in 1..Len(plan)}
  BY <1>3 DEF planned, ToSet
<1>6. \A i \in 1..Len(plan') : i \in 1..Len(plan) \/ i = Len(plan) + 1
  BY <1>4
<1>7. \A i, k \in 1..Len(plan') : plan'[i] = plan'[k] => i = k
  <2>1. \A i, k \in 1..Len(plan) : plan[i] = plan[k] => i = k
    BY <1>3 DEF InOrder
  <2>2. \A i \in 1..Len(plan) : plan[i] # n
    BY <1>2, <1>5
  <2> QED BY <1>4, <1>6, <2>1, <2>2
<1>8. ASSUME NEW i \in 1..Len(plan'), NEW m, plan'[i] = m, m \notin inconsistent, NEW d \in Needs(m)
      PROVE  \E k \in 1..(i - 1) : plan'[k] = d
  <2>1. CASE i \in 1..Len(plan)
    <3>1. PICK k \in 1..(i - 1) : plan[k] = d
      BY <1>3, <1>4, <1>8, <2>1 DEF InOrder
    <3>2. k \in 1..Len(plan)
      BY <1>4, <2>1
    <3> QED BY <1>4, <3>1, <3>2
  <2>2. CASE i = Len(plan) + 1
    <3>1. m = n
      BY <1>4, <1>8, <2>2
    <3>2. PICK c \in ToSet(in.calls[n]) : Chosen(c) /\ d \in Standing(c.to)
      BY <1>8, <3>1 DEF Needs
    <3>3. HasCandidate(n)
      BY DEF HasCandidate
    <3>4. Behind(c, K + 1)
      BY <1>2, <1>3, <3>2, <3>3 DEF BehindInCycle
    <3>5. d \in planned
      BY <1>2, <1>8, <3>1, <3>2, <3>4 DEF Behind
    <3>6. PICK k \in 1..Len(plan) : plan[k] = d
      BY <1>5, <3>5
    <3>7. 1..(i - 1) = 1..Len(plan)
      BY <1>4, <2>2
    <3> QED BY <1>4, <3>6, <3>7
  <2> QED BY <1>6, <2>1, <2>2
<1>9. planned' \subseteq in'.own
  BY <1>3, <1>4
<1>10. \A i \in 1..Len(plan') : \A m : plan'[i] = m /\ m \notin inconsistent' =>
         \A d \in Needs(m)' : \E k \in 1..(i - 1) : plan'[k] = d
  <2>1. \A m : Needs(m)' = Needs(m)
    BY InputFixed
  <2>2. inconsistent' = inconsistent
    OBVIOUS
  <2> QED BY <1>8, <2>1, <2>2, Zenon
<1>11. InOrder'
  BY <1>4, <1>7, <1>9, <1>10, Zenon DEF InOrder
<1> QED BY <1>4, <1>11

LEMMA CallLeaves ==
  ASSUME IInv, NEW n \in Names, Planning(n),
         LeaveVirtual(n) \/ LeaveProvided(n) \/ LeavePlanned(n)
  PROVE  IInv'
<1>1. PICK K : K = Len(frames) - 1
  OBVIOUS
<1>2. CASE LeaveVirtual(n)
  <2>1. /\ ~HasCandidate(n) /\ n \notin in.own /\ Return({}, Front(frames))
        /\ UNCHANGED <<in, replans, next, plan, wstack, inwstack, inconsistent, missing_dep,
                       reinstall, critical, outcome>>
    BY <1>2 DEF LeaveVirtual, HasCandidate, search
  <2>2. planned' = planned
    BY <2>1 DEF planned
  <2>3. InOrder'
    BY <2>1, OrderKept DEF IInv
  <2> QED BY <1>1, <2>1, <2>2, <2>3, Left
<1>3. CASE LeaveProvided(n)
  <2>1. /\ HasCandidate(n) /\ n \notin in.own /\ Return(Last(frames).got, Front(frames))
        /\ wstack' = Removed(n) /\ inwstack' = [inwstack EXCEPT ![n] = 0]
        /\ UNCHANGED <<in, replans, next, plan, inconsistent, missing_dep, reinstall, critical,
                       outcome>>
    BY <1>3 DEF LeaveProvided
  <2>2. planned' = planned
    BY <2>1 DEF planned
  <2>3. InOrder'
    BY <2>1, OrderKept DEF IInv
  <2>4. Last(frames).got \in SUBSET Names /\ Last(frames).got \subseteq planned
    <3>1. frames \in Seq(Frame) /\ frames # <<>> /\ Stack
      BY DEF IInv, Stack, Planning
    <3>2. Last(frames) \in Frame /\ Last(frames) = frames[Len(frames)] /\ Len(frames) \in 1..Len(frames)
      BY <3>1, FrontLast
    <3>3. frames[Len(frames)].got \subseteq planned
      BY <3>1, <3>2 DEF Stack
    <3> QED BY <3>2, <3>3 DEF Frame
  <2> QED BY <1>1, <2>1, <2>2, <2>3, <2>4, Left
<1>4. CASE LeavePlanned(n)
  <2>1. /\ n \in in.own /\ Return({n}, Front(frames)) /\ plan' = Append(plan, n)
        /\ wstack' = Removed(n) /\ inwstack' = [inwstack EXCEPT ![n] = 0]
        /\ UNCHANGED <<in, replans, next, inconsistent, missing_dep, reinstall, critical, outcome>>
    BY <1>4 DEF LeavePlanned
  <2>2. InOrder' /\ planned' = planned \cup {n}
    BY <2>1, PlannedLast
  <2>3. HasCandidate(n)
    BY <2>1 DEF HasCandidate
  <2>4. {n} \in SUBSET Names /\ {n} \subseteq planned'
    BY <2>2
  <2> QED BY <1>1, <2>1, <2>2, <2>3, <2>4, Left
<1> QED BY <1>2, <1>3, <1>4

-----------------------------------------------------------------------------
(* The main loops.                                                         *)

LEMMA JobBegins ==
  ASSUME IInv, NEW call \in Calls, NEW optional \in BOOLEAN, NEW i \in Nat,
         Idle, call.fits, Job(call, optional, i), replans' \subseteq Names,
         \/ i = 0 /\ next' = next
         \/ /\ next <= Len(in.requests) /\ i = next /\ next' = next + 1
            /\ call.to = in.requests[next].to
  PROVE  IInv'
<1> DEFINE j == [call |-> call, optional |-> optional, request |-> i, result |-> <<>>]
<1>1. /\ job' = <<j>> /\ job = <<>> /\ outcome = "running"
      /\ UNCHANGED <<in, frames, plan, wstack, inwstack, inconsistent, missing_dep, reinstall,
                     critical, outcome>>
  BY DEF Job, Idle, search
<1>2. j \in Jobs /\ j.call = call /\ j.request = i /\ j.result = <<>>
  BY DEF Jobs
<1> HIDE DEF j
<1>3. job' \in Seq(Jobs) /\ Len(job') = 1 /\ job' # <<>> /\ job'[1] = j
  BY <1>1, <1>2
<1>4. /\ TypeOK /\ AtJob /\ frames = <<>> /\ next \in Nat \ {0} /\ Len(in.requests) \in Nat
      /\ next <= Len(in.requests) + 1
  <2>1. TypeOK /\ AtJob
    BY DEF IInv
  <2>2. Len(in.requests) \in Nat
    BY <2>1, Input DEF InputType
  <2> QED BY <1>1, <2>1, <2>2 DEF AtJob
<1>5. planned' = planned
  BY <1>1 DEF planned
<1>6. Stack' /\ OnStack' /\ AllCovered' /\ BehindInCycle' /\ InOrder'
  BY <1>1, SameStack DEF IInv
<1>7. TypeOK'
  BY <1>1, <1>4, <1>5, InputFixed DEF TypeOK
<1>8. ASSUME NEW k \in 1..(next' - 1), Wanted(k)
      PROVE  Standing(in.requests[k].to) \subseteq planned \/ i = k
  <2>1. CASE k \in 1..(next - 1)
    BY <1>1, <1>4, <1>8, <2>1 DEF AtJob
  <2>2. CASE k \notin 1..(next - 1)
    BY <1>4, <2>2
  <2> QED BY <2>1, <2>2
<1>9. next' \in 1..(Len(in'.requests) + 1)
      /\ (i # 0 => i = next' - 1 /\ call.to = in.requests[next' - 1].to)
  BY <1>1, <1>4
<1>10. AtJob'
  <2>1. frames' = <<>>
    BY <1>1, <1>4
  <2>2. \A k \in 1..(next' - 1) : Wanted(k)' =>
          \/ Standing(in.requests[k].to)' \subseteq planned'
          \/ job' # <<>> /\ job'[1].request = k /\ job'[1].result = <<>>
    <3>1. ASSUME NEW k \in 1..(next' - 1), Wanted(k)'
          PROVE  Standing(in.requests[k].to)' \subseteq planned' \/ i = k
      <4>1. Wanted(k) /\ Standing(in.requests[k].to)' = Standing(in.requests[k].to)
        BY <1>1, <3>1, InputFixed
      <4> QED BY <1>5, <1>8, <3>1, <4>1
    <3> QED BY <1>2, <1>3, <3>1
  <2>3. /\ job'[1].call.fits /\ job'[1].result = <<>>
        /\ job'[1].request # 0 => /\ job'[1].request = next' - 1
                                  /\ job'[1].call.to = in'.requests[next' - 1].to
    BY <1>1, <1>2, <1>3, <1>9
  <2>4. Len(job') <= 1
    BY <1>3
  <2> QED BY <1>3, <1>9, <2>1, <2>2, <2>3, <2>4, Zenon DEF AtJob
<1> QED BY <1>6, <1>7, <1>10 DEF IInv

LEMMA MainLoops ==
  ASSUME IInv,
         (\E n \in Names : PlanReplan(n)) \/ PlanRequest \/ SkipRequest \/ Settle \/ Finish
  PROVE  IInv'
<1>1. /\ TypeOK /\ AtJob /\ in \in InputType /\ next \in Nat \ {0} /\ Len(in.requests) \in Nat
  <2>1. TypeOK /\ AtJob
    BY DEF IInv
  <2>2. in \in InputType
    BY <2>1, Input
  <2>3. Len(in.requests) \in Nat
    BY <2>2 DEF InputType
  <2> QED BY <2>1, <2>2, <2>3 DEF AtJob
<1>2. ASSUME NEW n \in Names, PlanReplan(n) PROVE IInv'
  <2> DEFINE call == [to |-> n, provides |-> FALSE, fits |-> TRUE, missing |-> FALSE]
  <2>1. call \in Calls /\ call.fits
    BY DEF Calls
  <2>2. Idle /\ Job(call, FALSE, 0) /\ next' = next /\ replans' \subseteq Names
    BY <1>1, <1>2 DEF PlanReplan, TypeOK
  <2> HIDE DEF call
  <2> QED BY <2>1, <2>2, JobBegins
<1>3. CASE PlanRequest
  <2> DEFINE r == in.requests[next]
             call == [to |-> r.to, provides |-> FALSE, fits |-> TRUE, missing |-> r.missing]
  <2>1. next <= Len(in.requests) /\ Idle /\ next' = next + 1 /\ replans' = replans
        /\ Job(call, r.optional, next)
    BY <1>3 DEF PlanRequest, AtRequest
  <2>2. r \in Requests
    <3>1. in.requests \in Seq(Requests)
      BY <1>1 DEF InputType
    <3> QED BY <1>1, <2>1, <3>1
  <2>3. call \in Calls /\ call.fits /\ call.to = in.requests[next].to /\ r.optional \in BOOLEAN
    BY <2>2 DEF Calls, Requests
  <2> HIDE DEF r, call
  <2>4. replans' \subseteq Names
    BY <1>1, <2>1 DEF TypeOK
  <2> QED BY <1>1, <2>1, <2>3, <2>4, JobBegins
<1>4. CASE SkipRequest
  <2>1. /\ job = <<>> /\ next <= Len(in.requests) /\ next' = next + 1
        /\ ~(in.requests[next].satisfied /\ in.requests[next].install)
        /\ UNCHANGED <<in, replans, job, frames, plan, wstack, inwstack, inconsistent, missing_dep,
                       reinstall, critical, outcome>>
    BY <1>4 DEF SkipRequest, AtRequest, Idle, search
  <2>2. planned' = planned
    BY <2>1 DEF planned
  <2>3. Stack' /\ OnStack' /\ AllCovered' /\ BehindInCycle' /\ InOrder'
    BY <2>1, SameStack DEF IInv
  <2>4. TypeOK'
    BY <1>1, <2>1, <2>2, InputFixed DEF TypeOK
  <2>5. ASSUME NEW k \in 1..(next' - 1), Wanted(k) PROVE Standing(in.requests[k].to) \subseteq planned
    <3>1. k # next
      BY <2>1, <2>5 DEF Wanted
    <3>2. k \in 1..(next - 1)
      BY <1>1, <2>1, <3>1
    <3> QED BY <1>1, <2>1, <2>5, <3>2 DEF AtJob
  <2>6. next' \in 1..(Len(in'.requests) + 1)
    BY <1>1, <2>1
  <2>7. AtJob'
    BY <1>1, <2>1, <2>2, <2>5, <2>6, InputFixed DEF AtJob
  <2> QED BY <2>3, <2>4, <2>7 DEF IInv
<1>5. CASE Settle
  <2>1. /\ job # <<>> /\ frames = <<>> /\ job[1].result # <<>> /\ job' = <<>>
        /\ UNCHANGED <<in, replans, next, frames, plan, wstack, inwstack, inconsistent, missing_dep>>
        /\ reinstall' \subseteq reinstall \cup job[1].result[1]
        /\ critical' \subseteq critical \cup job[1].result[1]
        /\ outcome' \in {"cycle", outcome}
    BY <1>5 DEF Settle, Settled, search
  <2>2. planned' = planned
    BY <2>1 DEF planned
  <2>3. Stack' /\ OnStack' /\ AllCovered' /\ BehindInCycle' /\ InOrder'
    BY <2>1, SameStack DEF IInv
  <2>4. job[1].result[1] \subseteq planned
    BY <1>1, <2>1 DEF AtJob
  <2>5. TypeOK'
    BY <1>1, <2>1, <2>2, <2>4, InputFixed DEF TypeOK, Outcomes
  <2>6. AtJob'
    BY <1>1, <2>1, <2>2, InputFixed DEF AtJob
  <2> QED BY <2>3, <2>5, <2>6 DEF IInv
<1>6. CASE Finish
  <2>1. /\ UNCHANGED <<in, replans, next, job, frames, plan, wstack, inwstack, inconsistent,
                       missing_dep, reinstall, critical>>
        /\ outcome' = "done"
    BY <1>6 DEF Finish, search
  <2>2. planned' = planned
    BY <2>1 DEF planned
  <2>3. Stack' /\ OnStack' /\ AllCovered' /\ BehindInCycle' /\ InOrder'
    BY <2>1, SameStack DEF IInv
  <2>4. TypeOK' /\ AtJob'
    BY <1>1, <2>1, <2>2, InputFixed DEF TypeOK, AtJob, Outcomes
  <2> QED BY <2>3, <2>4 DEF IInv
<1> QED BY <1>2, <1>3, <1>4, <1>5, <1>6

LEMMA CallFails ==
  ASSUME IInv, NEW what \in Outcomes, Fail(what)
  PROVE  IInv'
<1>1. /\ UNCHANGED <<in, replans, next, job, frames, plan, wstack, inwstack, inconsistent,
                     missing_dep, reinstall, critical>>
      /\ outcome' = what
  BY DEF Fail, search
<1>2. planned' = planned
  BY <1>1 DEF planned
<1>3. Stack' /\ OnStack' /\ AllCovered' /\ BehindInCycle' /\ InOrder'
  BY <1>1, SameStack DEF IInv
<1>4. TypeOK' /\ AtJob'
  BY <1>1, <1>2, InputFixed DEF IInv, TypeOK, AtJob
<1> QED BY <1>3, <1>4 DEF IInv

-----------------------------------------------------------------------------
(* All behaviours.                                                         *)

LEMMA Initial == ASSUME Init PROVE IInv
<1>1. /\ in \in Inputs /\ replans = in.replan \ in.missing /\ next = 1 /\ job = <<>>
      /\ frames = <<>> /\ plan = <<>> /\ wstack = <<>> /\ inwstack = [n \in Names |-> 0]
      /\ inconsistent = {} /\ missing_dep = {} /\ reinstall = {} /\ critical = {}
      /\ outcome = "running"
  BY DEF Init
<1>2. in.replan \subseteq Names /\ Len(in.requests) \in Nat
  <2>1. in \in InputType
    BY <1>1, InputsAssumption
  <2> QED BY <2>1 DEF InputType
<1>3. planned = {} /\ Working = {} /\ Len(frames) = 0 /\ Len(plan) = 0
  BY <1>1 DEF planned, Working, ToSet
<1>4. TypeOK
  BY <1>1, <1>2, <1>3 DEF TypeOK, Outcomes
<1>5. Stack /\ OnStack /\ AllCovered /\ BehindInCycle
  BY <1>1, <1>3 DEF Stack, OnStack, AllCovered, BehindInCycle
<1>6. InOrder /\ AtJob
  BY <1>1, <1>2, <1>3 DEF InOrder, AtJob
<1> QED BY <1>4, <1>5, <1>6 DEF IInv

LEMMA Step == ASSUME IInv, [Next]_vars PROVE IInv'
<1>1. ASSUME NEW call \in Calls, NEW optional \in BOOLEAN, InCall(call, optional),
             pkg_plan(call, optional)
      PROVE  IInv'
  <2>1. CASE NotSelected(call) \/ AlreadyPlanned(call, optional) \/ NotThisOne(call, optional)
    BY <1>1, <2>1, CallReturns
  <2>2. CASE MissingFails(call, optional)
    BY <2>2, CallFails DEF MissingFails, Outcomes
  <2>3. CASE VirtualVersion(call, optional)
    BY <2>3, CallFails DEF VirtualVersion, Outcomes
  <2>4. CASE Cycle(call, optional)
    BY <1>1, <2>4, CycleFound
  <2>5. CASE Enter(call, optional)
    BY <1>1, <2>5, Entered
  <2> QED BY <1>1, <2>1, <2>2, <2>3, <2>4, <2>5 DEF pkg_plan
<1>2. CASE UNCHANGED vars
  <2>1. UNCHANGED <<in, replans, next, job, frames, plan, wstack, inwstack, inconsistent,
                    missing_dep, reinstall, critical, outcome>>
    BY <1>2 DEF vars
  <2>2. Stack' /\ OnStack' /\ AllCovered' /\ BehindInCycle' /\ InOrder'
    BY <2>1, SameStack DEF IInv
  <2>3. planned' = planned
    BY <2>1 DEF planned
  <2>4. TypeOK' /\ AtJob'
    BY <2>1, <2>3, InputFixed DEF IInv, TypeOK, AtJob
  <2> QED BY <2>2, <2>4 DEF IInv
<1> QED BY <1>1, <1>2, MainLoops, CallLeaves DEF Next

THEOREM Invariant == Spec => []IInv
  BY Initial, Step, PTL DEF Spec

(* The variables of build_plan have their types, and each package worked   *)
(* on is on wstack at the index inwstack has for it, which is what is      *)
(* removed when it was planned.                                            *)
THEOREM TypeCorrect == Spec => []TypeOK
<1>1. IInv => TypeOK
  BY DEF IInv
<1> QED BY <1>1, Invariant, PTL

LEMMA Ordered == ASSUME IInv PROVE DependenciesFirst
<1>0. InOrder
  BY DEF IInv
<1>1. /\ plan \in Seq(Names) /\ Len(plan) \in Nat /\ InOrder
      /\ \A i, k \in 1..Len(plan) : plan[i] = plan[k] => i = k
  <2>1. /\ plan \in Seq(Names)
        /\ \A i, k \in 1..Len(plan) : plan[i] = plan[k] => i = k
    BY <1>0, Zenon DEF InOrder
  <2> QED BY <1>0, <2>1
<1>2. planned = {plan[i] : i \in 1..Len(plan)} /\ DOMAIN plan = 1..Len(plan)
  BY <1>1 DEF planned, ToSet
<1>3. ASSUME NEW i \in 1..Len(plan) PROVE Place(plan[i]) = i
  BY <1>1, <1>3 DEF Place
<1>4. ASSUME NEW n \in planned \ inconsistent, NEW d \in Needs(n)
      PROVE  d \in planned /\ Place(d) < Place(n)
  <2>1. PICK i \in 1..Len(plan) : plan[i] = n
    BY <1>2, <1>4
  <2>2. PICK k \in 1..(i - 1) : plan[k] = d
    BY <1>1, <1>4, <2>1 DEF InOrder
  <2>3. k \in 1..Len(plan) /\ k < i
    BY <1>1
  <2>4. Place(d) = k /\ Place(n) = i
    BY <1>3, <2>1, <2>2, <2>3
  <2> QED BY <1>2, <2>2, <2>3, <2>4
<1>5. IsInjective(plan)
  BY <1>1, <1>2 DEF IsInjective
<1> QED BY <1>4, <1>5 DEF DependenciesFirst

(* A package comes in the plan after all it depends on, unless it was said *)
(* to be in a cycle, and no package comes twice: the order transactions    *)
(* run their scripts in, whatever the dependencies are.                    *)
THEOREM PlanOrdered == Spec => []DependenciesFirst
  BY Ordered, Invariant, PTL

\* build_plan returns when nothing is left to plan.
AtEnd == outcome = "done" => job = <<>> /\ next > Len(in.requests)

LEMMA Closed == ASSUME IInv, AtEnd PROVE Complete
<1> SUFFICES ASSUME outcome = "done" PROVE Complete
  BY DEF Complete
<1>1. AllCovered /\ AtJob /\ TypeOK /\ job = <<>> /\ frames = <<>> /\ next > Len(in.requests)
  BY DEF IInv, AtEnd, AtJob
<1>2. Working = {}
  BY <1>1 DEF Working
<1>3. ASSUME NEW n \in planned, NEW d \in Needs(n) PROVE d \in planned
  <2>1. PICK c \in ToSet(in.calls[n]) : Chosen(c) /\ d \in Standing(c.to)
    BY DEF Needs
  <2>2. Covered(c.to)
    BY <1>1, <1>3, <2>1 DEF AllCovered
  <2> QED BY <1>2, <2>1, <2>2 DEF Covered
<1>4. ASSUME NEW i \in 1..Len(in.requests), Wanted(i)
      PROVE  Standing(in.requests[i].to) \subseteq planned
  <2>1. Len(in.requests) \in Nat /\ next \in Nat
    BY <1>1, Input DEF InputType, AtJob
  <2>2. i \in 1..(next - 1)
    BY <1>1, <2>1
  <2> QED BY <1>1, <1>4, <2>2 DEF AtJob
<1> QED BY <1>3, <1>4 DEF Complete, Wanted

LEMMA EndKept == ASSUME AtEnd, [Next]_vars PROVE AtEnd'
<1>1. CASE UNCHANGED vars
  BY <1>1 DEF AtEnd, vars
<1>2. ASSUME NEW n \in Names, PlanReplan(n) PROVE AtEnd'
  BY <1>2 DEF PlanReplan, Job, Idle, AtEnd
<1>3. ASSUME PlanRequest \/ SkipRequest PROVE AtEnd'
  BY <1>3 DEF PlanRequest, SkipRequest, AtRequest, Job, Idle, AtEnd
<1>4. ASSUME Settle PROVE AtEnd'
  BY <1>4 DEF Settle, Settled, AtEnd
<1>5. ASSUME Finish PROVE AtEnd'
  BY <1>5 DEF Finish, Idle, AtEnd
<1>6. ASSUME NEW call \in Calls, NEW optional \in BOOLEAN, InCall(call, optional),
             pkg_plan(call, optional)
      PROVE  AtEnd'
  <2>1. outcome = "running" /\ (outcome' = outcome \/ outcome' = "missing" \/ outcome' = "nil")
    BY <1>6 DEF InCall, pkg_plan, NotSelected, MissingFails, AlreadyPlanned, NotThisOne,
                VirtualVersion, Cycle, Enter, Fail
  <2> QED BY <2>1 DEF AtEnd
<1>7. ASSUME NEW n \in Names, Planning(n), LeaveVirtual(n) \/ LeaveProvided(n) \/ LeavePlanned(n)
      PROVE  AtEnd'
  <2>1. outcome = "running" /\ outcome' = outcome
    BY <1>7 DEF Planning, LeaveVirtual, LeaveProvided, LeavePlanned
  <2> QED BY <2>1 DEF AtEnd
<1> QED BY <1>1, <1>2, <1>3, <1>4, <1>5, <1>6, <1>7 DEF Next

(* A plan that build_plan returns is closed: it has whatever its packages  *)
(* depend on, in cycles too, and whatever satisfied requests asked for.    *)
THEOREM PlanClosed == Spec => []Complete
<1>1. Init => AtEnd
  BY DEF Init, AtEnd
<1>2. AtEnd /\ [Next]_vars => AtEnd'
  BY EndKept
<1>3. IInv /\ AtEnd => Complete
  BY Closed
<1> QED BY <1>1, <1>2, <1>3, Invariant, PTL DEF Spec

\* What is above the package that is left has no candidates.
Indexed == \A i \in 1..Len(wstack) : HasCandidate(wstack[i]) => inwstack[wstack[i]] = i

Consistent == outcome \in {"running", "done"} => critical \cap inconsistent = {}

LEMMA IndexKept ==
  ASSUME IInv, Indexed, [Next]_vars
  PROVE  Indexed'
<1>1. /\ TypeOK /\ OnStack /\ wstack \in Seq(Names) /\ Len(wstack) \in Nat
      /\ inwstack \in [Names -> Nat] /\ Len(frames) \in Nat
  BY DEF IInv, TypeOK, Stack
<1>2. CASE UNCHANGED <<in, wstack, inwstack>>
  BY <1>2, InputFixed DEF Indexed
<1>3. ASSUME NEW call \in Calls, NEW optional \in BOOLEAN, Enter(call, optional) PROVE Indexed'
  <2> DEFINE n == call.to
  <2>1. n \in Names /\ inwstack[n] = 0 /\ wstack' = Append(wstack, n)
        /\ inwstack' = [inwstack EXCEPT ![n] = Len(wstack) + 1] /\ in' = in
    BY <1>3 DEF Enter, Calls
  <2> HIDE DEF n
  <2>2. /\ Len(wstack') = Len(wstack) + 1 /\ wstack'[Len(wstack) + 1] = n
        /\ \A i \in 1..Len(wstack) : wstack'[i] = wstack[i] /\ wstack[i] \in Names
    BY <1>1, <2>1, Appended
  <2>3. ASSUME NEW i \in 1..Len(wstack'), HasCandidate(wstack'[i]) PROVE inwstack'[wstack'[i]] = i
    <3>1. CASE i \in 1..Len(wstack)
      <4>1. inwstack[wstack[i]] = i /\ wstack[i] # n /\ wstack'[i] = wstack[i]
        BY <2>1, <2>2, <2>3, <3>1 DEF Indexed
      <4> QED BY <1>1, <2>1, <2>2, <3>1, <4>1
    <3>2. CASE i = Len(wstack) + 1
      BY <1>1, <2>1, <2>2, <3>2
    <3> QED BY <1>1, <2>2, <3>1, <3>2
  <2> QED BY <2>1, <2>3, InputFixed DEF Indexed
<1>4. ASSUME NEW n \in Names, Planning(n), LeaveProvided(n) \/ LeavePlanned(n) PROVE Indexed'
  <2>1. /\ HasCandidate(n) /\ wstack' = Removed(n) /\ inwstack' = [inwstack EXCEPT ![n] = 0]
        /\ in' = in
    BY <1>4 DEF LeaveProvided, LeavePlanned, HasCandidate
  <2>2. PICK K : K = Len(frames) - 1
    OBVIOUS
  <2>3. K \in Nat /\ K + 1 = Len(frames) /\ n = frames[K + 1].name
    BY <1>4, <2>2, Leaving
  <2>4. inwstack[n] \in 1..Len(wstack)
    BY <2>1, <2>3 DEF IInv, OnStack
  <2>5. PICK p \in 1..Len(wstack) : p = inwstack[n]
    BY <2>4
  <2>6. /\ wstack' \in Seq(Names) /\ Len(wstack') = Len(wstack) - 1
        /\ \A k \in 1..(p - 1) : wstack'[k] = wstack[k]
        /\ \A k \in p..(Len(wstack) - 1) : wstack'[k] = wstack[k + 1]
    BY <1>1, <2>1, <2>5, WithoutOne DEF Removed
  <2>7. ASSUME NEW k \in 1..Len(wstack'), HasCandidate(wstack'[k]) PROVE inwstack'[wstack'[k]] = k
    <3> DEFINE m == wstack'[k]
    <3>1. m \in Names
      BY <2>6
    <3>2. CASE k < p
      <4>1. k \in 1..(p - 1) /\ k \in 1..Len(wstack) /\ k # p
        BY <1>1, <3>2
      <4>2. m = wstack[k] /\ inwstack[m] = k
        BY <2>6, <2>7, <4>1 DEF Indexed
      <4> QED BY <1>1, <2>1, <2>5, <3>1, <4>1, <4>2
    <3>3. CASE k >= p
      <4>1. k \in p..(Len(wstack) - 1) /\ k + 1 \in 1..Len(wstack)
        BY <1>1, <2>6, <3>3
      <4>2. m = wstack[k + 1] /\ inwstack[m] = k + 1 /\ HasCandidate(m)
        BY <2>6, <2>7, <4>1 DEF Indexed
      <4>3. m \in Working
        BY <1>1, <3>1, <4>1, <4>2 DEF OnStack
      <4>4. PICK i \in 1..Len(frames) : frames[i].name = m
        BY <4>3 DEF Working
      <4>5. i = K + 1 \/ i < K + 1
        BY <2>3
      <4>6. inwstack[m] <= p
        <5>1. CASE i = K + 1
          BY <1>1, <2>3, <2>5, <4>4, <5>1
        <5>2. CASE i < K + 1
          <6>1. K + 1 \in 1..Len(frames) /\ HasCandidate(frames[i].name)
                /\ HasCandidate(frames[K + 1].name)
            BY <2>1, <2>3, <4>2, <4>4
          <6>2. inwstack[frames[i].name] < inwstack[frames[K + 1].name]
            BY <1>1, <5>2, <6>1 DEF OnStack
          <6> QED BY <2>3, <2>5, <4>2, <4>4, <6>2
        <5> QED BY <4>5, <5>1, <5>2
      <4> QED BY <3>3, <4>2, <4>6
    <3> QED BY <3>2, <3>3
  <2> QED BY <2>1, <2>7, InputFixed DEF Indexed
<1>5. ASSUME NEW call \in Calls, NEW optional \in BOOLEAN, pkg_plan(call, optional),
             ~Enter(call, optional)
      PROVE  UNCHANGED <<in, wstack, inwstack>>
  BY <1>5 DEF pkg_plan, NotSelected, MissingFails, AlreadyPlanned, NotThisOne, VirtualVersion,
              Cycle, Fail, search
<1>6. ASSUME NEW n \in Names, LeaveVirtual(n) PROVE UNCHANGED <<in, wstack, inwstack>>
  BY <1>6 DEF LeaveVirtual, search
<1>7. ASSUME (\E n \in Names : PlanReplan(n)) \/ PlanRequest \/ SkipRequest \/ Settle \/ Finish
      PROVE  UNCHANGED <<in, wstack, inwstack>>
  BY <1>7 DEF PlanReplan, PlanRequest, SkipRequest, Settle, Finish, Job, search
<1> QED BY <1>2, <1>3, <1>4, <1>5, <1>6, <1>7 DEF Next, vars

LEMMA ConsistentKept ==
  ASSUME IInv, Indexed, AtEnd, Consistent, [Next]_vars
  PROVE  Consistent'
<1>1. /\ critical \subseteq planned /\ planned \subseteq in.own /\ OnStack
      /\ wstack \in Seq(Names) /\ inwstack \in [Names -> Nat]
  BY DEF IInv, TypeOK, InOrder
<1>2. CASE UNCHANGED <<critical, inconsistent, outcome>>
  BY <1>2 DEF Consistent
<1>3. ASSUME NEW call \in Calls, NEW optional \in BOOLEAN, Cycle(call, optional),
             outcome = "running"
      PROVE  Consistent'
  <2>1. /\ critical' = critical /\ outcome' = outcome /\ call.to \in Names
        /\ inwstack[call.to] # 0
        /\ inconsistent' = inconsistent \cup {wstack[i] : i \in inwstack[call.to]..Len(wstack)}
    BY <1>3 DEF Cycle, Calls
  <2>2. ASSUME NEW i \in inwstack[call.to]..Len(wstack), wstack[i] \in critical PROVE FALSE
    <3>1. i \in 1..Len(wstack)
      BY <1>1, <2>1
    <3>2. HasCandidate(wstack[i]) /\ wstack[i] \in Names
      BY <1>1, <2>2, <3>1 DEF HasCandidate
    <3>3. inwstack[wstack[i]] # 0
      BY <3>1, <3>2 DEF Indexed
    <3>4. wstack[i] \in Working
      BY <1>1, <3>2, <3>3 DEF OnStack
    <3> QED BY <1>1, <2>2, <3>4 DEF OnStack
  <2> QED BY <1>3, <2>1, <2>2 DEF Consistent
<1>4. ASSUME Settle PROVE Consistent'
  <2>1. /\ job # <<>> /\ inconsistent' = inconsistent
        /\ outcome' # "cycle" => /\ outcome' = outcome
                                 /\ \/ critical' = critical
                                    \/ /\ critical' = critical \cup job[1].result[1]
                                       /\ job[1].result[1] \cap inconsistent = {}
    BY <1>4 DEF Settle, Settled, search
  <2> QED BY <2>1 DEF Consistent, AtEnd
<1>5. ASSUME Finish PROVE Consistent'
  BY <1>5 DEF Finish, Idle, Consistent, search
<1>6. ASSUME NEW call \in Calls, NEW optional \in BOOLEAN, pkg_plan(call, optional),
             ~Cycle(call, optional)
      PROVE  /\ UNCHANGED <<critical, inconsistent>>
             /\ outcome' = outcome \/ outcome' = "missing" \/ outcome' = "nil"
  BY <1>6 DEF pkg_plan, NotSelected, MissingFails, AlreadyPlanned, NotThisOne, VirtualVersion,
              Enter, Fail, search
<1>7. ASSUME NEW n \in Names, LeaveVirtual(n) \/ LeaveProvided(n) \/ LeavePlanned(n)
      PROVE  UNCHANGED <<critical, inconsistent, outcome>>
  BY <1>7 DEF LeaveVirtual, LeaveProvided, LeavePlanned, search
<1>8. ASSUME (\E n \in Names : PlanReplan(n)) \/ PlanRequest \/ SkipRequest
      PROVE  UNCHANGED <<critical, inconsistent, outcome>>
  BY <1>8 DEF PlanReplan, PlanRequest, SkipRequest, Job, search
<1>9. ASSUME NEW call \in Calls, NEW optional \in BOOLEAN, InCall(call, optional),
             pkg_plan(call, optional)
      PROVE  Consistent'
  <2>1. CASE Cycle(call, optional)
    BY <1>3, <1>9, <2>1 DEF InCall
  <2>2. CASE ~Cycle(call, optional)
    BY <1>6, <1>9, <2>2 DEF Consistent
  <2> QED BY <2>1, <2>2
<1>10. CASE UNCHANGED vars
  BY <1>2, <1>10 DEF vars
<1> QED BY <1>2, <1>4, <1>5, <1>7, <1>8, <1>9, <1>10 DEF Next

(* No critical package of a plan that build_plan returns was put there in  *)
(* the wrong order because of a cycle that was noticed: neither before the *)
(* request was handled nor by the search for a later one.                  *)
THEOREM CriticalOrdered == Spec => []CriticalConsistent
<1>1. Init => AtEnd /\ Indexed /\ Consistent
  <2> SUFFICES ASSUME Init PROVE AtEnd /\ Indexed /\ Consistent
    OBVIOUS
  <2>1. wstack = <<>> /\ critical = {} /\ outcome = "running"
    BY DEF Init
  <2> QED BY <2>1 DEF AtEnd, Indexed, Consistent
<1>2. AtEnd /\ [Next]_vars => AtEnd'
  BY EndKept
<1>3. IInv /\ Indexed /\ [Next]_vars => Indexed'
  BY IndexKept
<1>4. IInv /\ Indexed /\ AtEnd /\ Consistent /\ [Next]_vars => Consistent'
  BY ConsistentKept
<1>5. Consistent => CriticalConsistent
  BY DEF Consistent, CriticalConsistent
<1> QED BY <1>1, <1>2, <1>3, <1>4, <1>5, Invariant, PTL DEF Spec
=============================================================================
