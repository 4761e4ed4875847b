------------------------------- MODULE MCPlan -------------------------------
(***************************************************************************)
(* All dependencies among three packages, in every order, with every two   *)
(* requests, and packages that are provided, virtual, missing or have a    *)
(* version nobody asked for.                                               *)
(***************************************************************************)
EXTENDS Plan, TLC

CONSTANTS a, b, c

MCNames == {a, b, c}

On(n) == [to |-> n, provides |-> FALSE, fits |-> TRUE, missing |-> FALSE]
By(n) == [On(n) EXCEPT !.provides = TRUE]
Other(n) == [On(n) EXCEPT !.fits = FALSE]
Lacking(n) == [On(n) EXCEPT !.missing = TRUE]

Install(n) == [to |-> n, install |-> TRUE, satisfied |-> TRUE, optional |-> FALSE,
               critical |-> FALSE, reinstall |-> FALSE, missing |-> FALSE]
Critical(n) == [Install(n) EXCEPT !.critical = TRUE]
Optional(n) == [Install(n) EXCEPT !.optional = TRUE, !.missing = TRUE]
Uninstall(n) == [Install(n) EXCEPT !.install = FALSE]
Reinstall(n) == [Install(n) EXCEPT !.reinstall = TRUE]

\* The orders in which a package may depend on others.
Orders(others) == {<<>>} \cup {<<On(n)>> : n \in others}
                    \cup {<<On(n), On(m)>> : n \in others, m \in others}
Graphs == {f \in [MCNames -> UNION {Orders(MCNames \ {n}) : n \in MCNames}] :
             \A n \in MCNames : f[n] \in Orders(MCNames \ {n})
                                /\ (Len(f[n]) = 2 => f[n][1] # f[n][2])}

Plain == [selected |-> MCNames, own |-> MCNames, virtual |-> {}, missing |-> {}, replan |-> {},
          calls |-> [n \in MCNames |-> <<>>], requests |-> <<>>]

Ordinary ==
  {[Plain EXCEPT !.calls = g, !.requests = r, !.replan = p] :
     g \in Graphs, p \in {{}, {c}},
     r \in {<<Install(a), Reinstall(b)>>, <<Critical(a), Install(b)>>, <<Critical(a), Critical(b)>>,
            <<Critical(b), Install(a)>>}}

\* The calls of c are its own when it is real, and those by others when it is not.
Special ==
  {[Plain EXCEPT !.calls = [g EXCEPT ![c] = x[2]], !.own = x[1], !.virtual = {c} \ x[1],
                 !.requests = r] :
     g \in Graphs,
     x \in {<<{a, b}, <<>>>>, <<{a, b}, <<On(b)>>>>, <<{a, b}, <<By(b)>>>>, <<{a, b}, <<On(a), By(b)>>>>,
            <<MCNames, <<Other(a), On(b)>>>>, <<MCNames, <<Lacking(a)>>>>},
     r \in {<<Critical(a), Install(b)>>, <<Optional(b), Install(a)>>, <<Uninstall(b), Install(c)>>}}

\* c is not available, or not selected, or wanted in a version though it is virtual.
Absent ==
  {[Plain EXCEPT !.calls = [g EXCEPT ![c] = <<>>, ![a] = IF x[4] THEN <<Other(c)>> ELSE @],
                 !.own = {a, b}, !.selected = x[1], !.missing = x[2], !.virtual = x[3],
                 !.requests = r] :
     g \in Graphs,
     x \in {<<MCNames, {c}, {}, FALSE>>, <<{a, b}, {}, {}, FALSE>>, <<MCNames, {}, {c}, TRUE>>},
     r \in {<<Install(a), Install(b)>>, <<[Optional(c) EXCEPT !.missing = FALSE], Install(b)>>}}

MCInputs == Ordinary \cup Special \cup Absent
=============================================================================
