------------------------------- MODULE Fetch -------------------------------
(***************************************************************************)
(* What downloading a set of resources promises, whatever curl does: a     *)
(* resource is used only when it was received, given up only when it could *)
(* not be and may be missing, and the whole succeeds only when every       *)
(* resource was used or given up.                                          *)
(***************************************************************************)
CONSTANTS Resources,
          Dispensable  \* those that may be missing

VARIABLES received,  \* resources that were received
          lost,      \* resources that could not be received
          wanted,    \* resources that were asked for
          used, givenUp,
          outcome    \* "open", "success", "failure"

fvars == <<received, lost, wanted, used, givenUp, outcome>>

Init == /\ received \subseteq Resources
        /\ lost = {} /\ wanted = {} /\ used = {} /\ givenUp = {}
        /\ outcome = "open"

Want(s) == /\ outcome = "open" /\ used = {} /\ givenUp = {}
           /\ wanted' = wanted \cup s
           /\ UNCHANGED <<received, lost, used, givenUp, outcome>>

\* Each resource arrives or is lost, once and for all.
Arrive(s, t) == /\ s \cap t = {} /\ (s \cup t) \cap (received \cup lost) = {}
                /\ s \cup t \subseteq wanted
                /\ received' = received \cup s
                /\ lost' = lost \cup t
                /\ UNCHANGED <<wanted, used, givenUp, outcome>>

Use(u) == /\ outcome = "open"
          /\ u \in (received \cap wanted) \ used
          /\ used' = used \cup {u}
          /\ UNCHANGED <<received, lost, wanted, givenUp, outcome>>

GiveUp(u) == /\ outcome = "open"
             /\ u \in (lost \cap wanted \cap Dispensable) \ givenUp
             /\ givenUp' = givenUp \cup {u}
             /\ UNCHANGED <<received, lost, wanted, used, outcome>>

Succeed == /\ outcome = "open"
           /\ wanted = used \cup givenUp
           /\ outcome' = "success"
           /\ UNCHANGED <<received, lost, wanted, used, givenUp>>

Fail == /\ outcome = "open"
        /\ outcome' = "failure"
        /\ UNCHANGED <<received, lost, wanted, used, givenUp>>

Next == \/ \E s \in SUBSET Resources : Want(s)
        \/ \E s, t \in SUBSET Resources : Arrive(s, t)
        \/ \E u \in Resources : Use(u) \/ GiveUp(u)
        \/ Succeed \/ Fail

Spec == Init /\ [][Next]_fvars
=============================================================================
