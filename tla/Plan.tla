-------------------------------- MODULE Plan --------------------------------
(***************************************************************************)
(* build_plan of src/lib/lua/planner.lua: the packages the solver selected *)
(* are put in an order in which a package comes after what it depends on,  *)
(* by a search that goes through dependencies depth first.                 *)
(*                                                                         *)
(* What the solver decided is an input: the groups it selected, what it    *)
(* chose for them and which requests it satisfied.                         *)
(***************************************************************************)
EXTENDS Naturals, Sequences, SequencesExt, FiniteSets, Functions

CONSTANTS Names, Inputs

(* A call of pkg_plan that is to be made: for a dependency, with or        *)
(* without a version the choice of the solver agrees with and a candidate  *)
(* at all, or for a package that provides the one planned.                 *)
Calls == [to : Names, provides : BOOLEAN, fits : BOOLEAN, missing : BOOLEAN]

Requests == [to : Names, install : BOOLEAN, satisfied : BOOLEAN, optional : BOOLEAN,
             critical : BOOLEAN, reinstall : BOOLEAN, missing : BOOLEAN]

(* own: groups with a chosen candidate of their own; others have the       *)
(* packages that provide them, or nothing: virtual ones, and missing ones. *)
InputType == [selected : SUBSET Names, own : SUBSET Names, virtual : SUBSET Names,
              missing : SUBSET Names, replan : SUBSET Names,
              calls : [Names -> Seq(Calls)], requests : Seq(Requests)]

(* A clause of the solver makes a candidate imply its group, and packages  *)
(* that provide another are planned whatever their version.                *)
Solved(i) == /\ i.own \subseteq i.selected
             /\ \A n \in Names : \A c \in ToSet(i.calls[n]) : c.provides => c.fits

ASSUME InputsAssumption == Inputs \subseteq {i \in InputType : Solved(i)}

VARIABLES
  in,            \* pkgs, requests, sat and satmap
  replans,       \* packages with immediate replan that were not planned yet
  next,          \* index in the requests
  job,           \* the call from the main loops, <<>> between them
  frames,        \* calls of pkg_plan on the stack: name, calls left, results
  plan,          \* sequence of names
  wstack,        \* sequence of names
  inwstack,      \* [Names -> Nat], 0 for nil
  inconsistent, missing_dep,
  reinstall, critical,   \* entries of the plan marked so
  outcome

vars == <<in, replans, next, job, frames, plan, wstack, inwstack, inconsistent,
          missing_dep, reinstall, critical, outcome>>

search == <<plan, wstack, inwstack, inconsistent, missing_dep>>

Outcomes == {"running", "done", "missing", "cycle", "nil"}

Init == /\ in \in Inputs
        /\ replans = in.replan \ in.missing
        /\ next = 1 /\ job = <<>> /\ frames = <<>> /\ plan = <<>>
        /\ wstack = <<>> /\ inwstack = [n \in Names |-> 0]
        /\ inconsistent = {} /\ missing_dep = {} /\ reinstall = {} /\ critical = {}
        /\ outcome = "running"

planned == ToSet(plan)

HasCandidate(n) == n \in in.own \/ \E c \in ToSet(in.calls[n]) : c.provides

-----------------------------------------------------------------------------
(* The main loops.                                                         *)
Idle == outcome = "running" /\ job = <<>>

Job(call, optional, request) ==
  /\ job' = <<[call |-> call, optional |-> optional, request |-> request, result |-> <<>>]>>
  /\ UNCHANGED <<in, frames, search, reinstall, critical, outcome>>

\* pairs(pkgs): in any order.
PlanReplan(n) ==
  /\ Idle /\ n \in replans
  /\ replans' = replans \ {n}
  /\ Job([to |-> n, provides |-> FALSE, fits |-> TRUE, missing |-> FALSE], FALSE, 0)
  /\ UNCHANGED next

AtRequest == Idle /\ replans = {} /\ next <= Len(in.requests)

PlanRequest ==
  /\ AtRequest
  /\ LET r == in.requests[next]
     IN /\ r.satisfied /\ r.install
        /\ Job([to |-> r.to, provides |-> FALSE, fits |-> TRUE, missing |-> r.missing],
               r.optional, next)
  /\ next' = next + 1
  /\ UNCHANGED replans

\* A request that was not satisfied, or to uninstall.
SkipRequest ==
  /\ AtRequest
  /\ ~(in.requests[next].satisfied /\ in.requests[next].install)
  /\ next' = next + 1
  /\ UNCHANGED <<in, replans, job, frames, search, reinstall, critical, outcome>>

Finish == /\ Idle /\ replans = {} /\ next > Len(in.requests)
          /\ outcome' = "done"
          /\ UNCHANGED <<in, replans, next, job, frames, search, reinstall, critical>>

Settled == job # <<>> /\ frames = <<>> /\ job[1].result # <<>>

\* The entries a request led to are marked; a critical one must be consistent.
Settle ==
  /\ Settled
  /\ LET i == job[1].request
         entries == job[1].result[1]
     IN /\ reinstall' = IF i # 0 /\ in.requests[i].reinstall THEN reinstall \cup entries ELSE reinstall
        /\ critical' = IF i # 0 /\ in.requests[i].critical THEN critical \cup entries ELSE critical
        /\ outcome' = IF i # 0 /\ in.requests[i].critical /\ entries \cap inconsistent # {}
                      THEN "cycle" ELSE outcome
  /\ job' = <<>>
  /\ UNCHANGED <<in, replans, next, frames, search>>

-----------------------------------------------------------------------------
(* pkg_plan.                                                               *)

\* The caller goes on, on a stack of the callers.
Return(entries, callers) ==
  IF callers = <<>>
  THEN /\ job' = <<[job[1] EXCEPT !.result = <<entries>>]>>
       /\ frames' = <<>>
  ELSE LET f == Last(callers)
       IN /\ frames' = Append(Front(callers),
                         [f EXCEPT !.left = Tail(@),
                                   !.got = IF Head(f.left).provides THEN @ \cup entries ELSE @])
          /\ UNCHANGED job

InCall(call, optional) ==
  /\ outcome = "running" /\ job # <<>>
  /\ IF frames = <<>>
     THEN job[1].result = <<>> /\ call = job[1].call /\ optional = job[1].optional
     ELSE /\ Last(frames).left # <<>> /\ call = Head(Last(frames).left)
          /\ optional = (job[1].optional /\ \A i \in 1..Len(frames) : Head(frames[i].left).provides)

Fail(what) == /\ outcome' = what
              /\ UNCHANGED <<in, replans, next, job, frames, search, reinstall, critical>>

NotSelected(call) ==
  /\ call.to \notin in.selected
  /\ Return({}, frames)
  /\ UNCHANGED <<in, replans, next, search, reinstall, critical, outcome>>

Missing(call) == call.missing \/ call.to \in in.missing

\* A package that is missing, or that was planned in spite of that.
MissingFails(call, optional) ==
  /\ call.to \in in.selected /\ ~optional
  /\ Missing(call) \/ (call.to \in planned /\ call.to \in missing_dep)
  /\ Fail("missing")

Reached(call, optional) == call.to \in in.selected /\ (Missing(call) => optional)

\* What is ignored concerns all that are worked on.
Ignored(call) == IF Missing(call) THEN missing_dep \cup {call.to} \cup ToSet(wstack) ELSE missing_dep

AlreadyPlanned(call, optional) ==
  /\ Reached(call, optional)
  /\ call.to \in planned
  /\ call.to \in missing_dep => optional
  /\ missing_dep' = Ignored(call)
  /\ Return({call.to}, frames)
  /\ UNCHANGED <<in, replans, next, plan, wstack, inwstack, inconsistent, reinstall, critical, outcome>>

\* The choice has another version, or there is none to plan.
NotThisOne(call, optional) ==
  /\ Reached(call, optional) /\ call.to \notin planned
  /\ IF HasCandidate(call.to) THEN ~call.fits ELSE call.to \notin in.virtual
  /\ missing_dep' = Ignored(call)
  /\ Return({}, frames)
  /\ UNCHANGED <<in, replans, next, plan, wstack, inwstack, inconsistent, reinstall, critical, outcome>>

\* candidates[1].Package where there is no candidate.
VirtualVersion(call, optional) ==
  /\ Reached(call, optional) /\ ~call.fits
  /\ call.to \in in.virtual /\ ~HasCandidate(call.to)
  /\ Fail("nil")

Plannable(call, optional) ==
  /\ Reached(call, optional) /\ call.to \notin planned
  /\ call.fits
  /\ HasCandidate(call.to) \/ call.to \in in.virtual

\* Fault: only the package itself is marked.
CycleMarksOne(call, optional) ==
  /\ Plannable(call, optional)
  /\ inwstack[call.to] # 0
  /\ inconsistent' = inconsistent \cup {call.to}
  /\ missing_dep' = Ignored(call)
  /\ Return({}, frames)
  /\ UNCHANGED <<in, replans, next, plan, wstack, inwstack, reinstall, critical, outcome>>

\* Fault: the search is given up.
CycleGivesUp(call, optional) ==
  /\ Plannable(call, optional)
  /\ inwstack[call.to] # 0
  /\ Return({}, <<>>)
  /\ UNCHANGED <<in, replans, next, search, reinstall, critical, outcome>>

\* Worked on already: all above it on the stack are in a cycle.
Cycle(call, optional) ==
  /\ Plannable(call, optional)
  /\ inwstack[call.to] # 0
  /\ inconsistent' = inconsistent \cup {wstack[i] : i \in inwstack[call.to]..Len(wstack)}
  /\ missing_dep' = Ignored(call)
  /\ Return({}, frames)
  /\ UNCHANGED <<in, replans, next, plan, wstack, inwstack, reinstall, critical, outcome>>

\* Fault: no record of what is worked on.
EnterUnmarked(call, optional) ==
  /\ Plannable(call, optional)
  /\ Len(frames) < 8
  /\ frames' = Append(frames, [name |-> call.to, left |-> in.calls[call.to], got |-> {}])
  /\ UNCHANGED <<in, replans, next, job, search, reinstall, critical, outcome>>

Enter(call, optional) ==
  /\ Plannable(call, optional)
  /\ inwstack[call.to] = 0
  /\ inwstack' = [inwstack EXCEPT ![call.to] = Len(wstack) + 1]
  /\ wstack' = Append(wstack, call.to)
  /\ missing_dep' = Ignored(call)
  /\ frames' = Append(frames, [name |-> call.to, left |-> in.calls[call.to], got |-> {}])
  /\ UNCHANGED <<in, replans, next, job, plan, inconsistent, reinstall, critical, outcome>>

-----------------------------------------------------------------------------
Planning(n) == /\ outcome = "running" /\ frames # <<>>
               /\ Last(frames).left = <<>> /\ n = Last(frames).name

\* table.remove
Removed(n) == IF inwstack[n] \in 1..Len(wstack) THEN RemoveAt(wstack, inwstack[n]) ELSE wstack

\* A virtual package stays on the stack.
LeaveVirtual(n) ==
  /\ ~HasCandidate(n)
  /\ Return({}, Front(frames))
  /\ UNCHANGED <<in, replans, next, search, reinstall, critical, outcome>>

\* The packages that provide it were planned in its place.
LeaveProvided(n) ==
  /\ HasCandidate(n) /\ n \notin in.own
  /\ wstack' = Removed(n) /\ inwstack' = [inwstack EXCEPT ![n] = 0]
  /\ Return(Last(frames).got, Front(frames))
  /\ UNCHANGED <<in, replans, next, plan, inconsistent, missing_dep, reinstall, critical, outcome>>

LeavePlanned(n) ==
  /\ n \in in.own
  /\ wstack' = Removed(n) /\ inwstack' = [inwstack EXCEPT ![n] = 0]
  /\ plan' = Append(plan, n)
  /\ Return({n}, Front(frames))
  /\ UNCHANGED <<in, replans, next, inconsistent, missing_dep, reinstall, critical, outcome>>

pkg_plan(call, optional) ==
  \/ NotSelected(call)
  \/ MissingFails(call, optional) \/ AlreadyPlanned(call, optional)
  \/ NotThisOne(call, optional) \/ VirtualVersion(call, optional)
  \/ Cycle(call, optional) \/ Enter(call, optional)

Next == \/ \E n \in Names : PlanReplan(n)
        \/ PlanRequest \/ SkipRequest \/ Settle \/ Finish
        \/ \E call \in Calls, optional \in BOOLEAN :
             InCall(call, optional) /\ pkg_plan(call, optional)
        \/ \E n \in Names : Planning(n) /\ (LeaveVirtual(n) \/ LeaveProvided(n) \/ LeavePlanned(n))

Spec == Init /\ [][Next]_vars /\ WF_vars(Next)

-----------------------------------------------------------------------------
(* The variables have their types; what is worked on is what wstack has,   *)
(* each at its index, except for virtual packages.                         *)
TypeOK == /\ in \in Inputs
          /\ replans \subseteq Names /\ next \in 1..(Len(in.requests) + 1)
          /\ plan \in Seq(Names) /\ wstack \in Seq(Names)
          /\ inwstack \in [Names -> Nat]
          /\ inconsistent \subseteq Names /\ missing_dep \subseteq Names
          /\ reinstall \subseteq planned /\ critical \subseteq planned
          /\ outcome \in Outcomes
          /\ \A i \in 1..Len(frames) : frames[i].name \in Names /\ inwstack[frames[i].name] # 0
          /\ \A n \in Names : inwstack[n] # 0 /\ HasCandidate(n) =>
               inwstack[n] \in 1..Len(wstack) /\ wstack[inwstack[n]] = n

(* A dependency the solver's choice stands for: a package, or the packages *)
(* that provide it.                                                        *)
Chosen(c) == c.to \in in.selected /\ c.fits /\ HasCandidate(c.to)

Standing(n) == IF n \in in.own THEN {n}
               ELSE {c.to : c \in {k \in ToSet(in.calls[n]) : k.provides}} \cap in.own

Needs(n) == UNION {Standing(c.to) : c \in {k \in ToSet(in.calls[n]) : Chosen(k)}}

Place(n) == CHOOSE i \in 1..Len(plan) : plan[i] = n

(* A package is planned once, and after all it depends on, unless it was   *)
(* said to be in a cycle.                                                  *)
DependenciesFirst ==
  /\ IsInjective(plan)
  /\ \A n \in planned \ inconsistent : \A d \in Needs(n) :
       d \in planned /\ (d # n => Place(d) < Place(n))

(* The finished plan is closed: no package lacks a dependency, in a cycle  *)
(* or not, and no request that was satisfied is forgotten.                 *)
Complete ==
  outcome = "done" =>
    /\ \A n \in planned : Needs(n) \subseteq planned
    /\ \A i \in 1..Len(in.requests) :
         LET r == in.requests[i]
         IN r.install /\ r.satisfied /\ r.to \in in.selected => Standing(r.to) \subseteq planned

(* No critical package of a finished plan was in a cycle that was noticed. *)
CriticalConsistent == outcome = "done" => critical \cap inconsistent = {}

(* The groups a package leads to, by the dependencies pkg_plan follows.    *)
Follows(n) == {c.to : c \in {k \in ToSet(in.calls[n]) : k.to \in in.selected /\ k.fits}}

Reachable(n) == LET more[i \in Nat] == IF i = 0 THEN Follows(n)
                                       ELSE LET near == more[i - 1]
                                            IN near \cup UNION {Follows(m) : m \in near}
                IN more[Cardinality(Names)]

InCycle(n) == n \in Reachable(n)

(* A package is said to be in a cycle only if it is in one, as long as no  *)
(* virtual package was left on the stack.                                  *)
WarnedInCycle == (\A n \in Names : inwstack[n] # 0 => HasCandidate(n)) =>
                   \A n \in inconsistent : InCycle(n)

(* Cycles or not, the search ends.                                         *)
PlanEnds == <>(outcome # "running")

(* A comment says of critical packages that no cycles are allowed for them *)
(* and the result is an error.                                             *)
CriticalAcyclic == outcome = "done" => \A n \in critical : ~InCycle(n)
=============================================================================
