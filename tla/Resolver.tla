------------------------------ MODULE Resolver ------------------------------
(***************************************************************************)
(* What is to be on the system: the first half of src/lib/lua/planner.lua. *)
(*                                                                         *)
(* sat_build turns requests, groups, candidates and dependencies into the  *)
(* variables and clauses of a SAT problem.  required_pkgs then asks the    *)
(* solver for as many requests as possible, one after the other, and       *)
(* settles what they leave open in four steps, of which each prefers as    *)
(* many literals of a kind as possible: nothing that is missing, the best  *)
(* candidates, the first alternatives, few packages.                       *)
(*                                                                         *)
(* The solver (picosat, behind src/lib/picosat.c) is a set of models: the  *)
(* assignments, as sets of variables that are true, that satisfy all       *)
(* clauses it has been given.                                              *)
(***************************************************************************)
EXTENDS Candidates

VARIABLES
  requests,   \* in the order they are tried in
  next,       \* index in the requests
  sat,        \* what sat_build made, see NoSat
  models,
  accepted,   \* indexes of requests
  selection   \* the model that is taken

resolution == <<requests, next, sat, models, accepted, selection>>
vars == <<notes, stage, world, resolution>>

NoSat == [n |-> 1, clauses |-> {{1}}, pkg2sat |-> <<>>, candidate2sat |-> <<>>, req2sat |-> <<>>,
          missing |-> {}, penalty_candidates |-> <<>>, penalty_or |-> <<>>]

RInit == /\ Init
         /\ requests = <<>> /\ next = 1 /\ sat = NoSat /\ models = {}
         /\ accepted = {} /\ selection = {}

-----------------------------------------------------------------------------
\* sort_requests: what is not set at all and what is false are different.
Preferable(a, b) ==
  CASE a.critical # b.critical -> a.critical
    [] a.priority # b.priority -> a.priority > b.priority
    [] (a.condition = Nothing) # (b.condition = Nothing) -> b.condition # Nothing
    [] OTHER -> a.cmd # b.cmd /\ a.cmd = "install"

sort_requests == Sort(content_requests, Preferable)

-----------------------------------------------------------------------------
(* The operators of sat_build take the problem as it is and return it with *)
(* what they add, together with the variable (literal) that stands for it. *)
Clause(s, lits) == [s EXCEPT !.clauses = @ \cup {lits}]
Fresh(s) == [s EXCEPT !.n = @ + 1]

\* A penalty variable for all but the first of a group: -1 is nil.
sat_penalize(s, activator, var, group, lastpen) ==
  LET pen == s.n + 1
      s1 == Clause(Fresh(s), {-activator, -pen, -var})
      s2 == IF lastpen = 0 THEN s1 ELSE Clause(s1, {-activator, -lastpen, pen})
  IN IF lastpen = -1 THEN [s |-> s, pen |-> 0]
     ELSE [s |-> [s2 EXCEPT ![group] = Append(@, pen)], pen |-> pen]


\* The clauses of one candidate of a group, and its exclusivity.
Known(s, c) == IF c \in DOMAIN s.candidate2sat THEN s
               ELSE [Fresh(s) EXCEPT !.candidate2sat = @ @@ (c :> s.n + 1)]
Exclusive(s, var, pkg, others) == [s EXCEPT !.clauses = @ \cup {{-var, pkg}} \cup {{-var, -o} : o \in others}]
AddKnown(acc, s, c, own, pkg) ==
  LET var == s.candidate2sat[c]
      pen == sat_penalize(Exclusive(s, var, pkg, IF own THEN acc.exclusive ELSE {}), 1, var,
                          "penalty_candidates", acc.lastpen)
  IN [s |-> pen.s, lastpen |-> pen.pen,
      exclusive |-> IF own THEN acc.exclusive \cup {var} ELSE acc.exclusive]

\* Fault: all candidates of a group exclude each other.
ExcludeAll(acc, c, name, pkg) == AddKnown(acc, Known(acc.s, c), c, TRUE, pkg)

AddCandidate(acc, c, name, pkg) == AddKnown(acc, Known(acc.s, c), c, c[2] = name, pkg)

RECURSIVE sat_pkg_group(_, _), sat_dep(_, _, _, _), sat_dep_traverse(_, _, _)

\* Of a result: its literal follows from another one.
Implied(r, var) == Clause(r.s, {-var, r.var})

\* Dependencies are added for a candidate of the group itself, others have
\* their own group.
AddDependencies(s, c, name) ==
  CASE c[2] # name -> sat_pkg_group(s, c[2]).s
    [] c[2] = name /\ deps[c] # Nothing ->
         Implied(sat_dep_traverse(s, s.candidate2sat[c], deps[c]), s.candidate2sat[c])
    [] OTHER -> s

\* A group needs one of its candidates.
OneOf(s, name, pkg) ==
  LET group == available_packages[name]
  IN CASE group.candidates # <<>> ->
            Clause(s, {-pkg} \cup {s.candidate2sat[c] : c \in Range(group.candidates)})
       [] group.candidates = <<>> /\ ~group.virtual ->
            [s EXCEPT !.missing = @ \cup {<<<<name, <<>>, {}>>, pkg>>}]
       [] OTHER -> s

NewGroup(s, name, pkg) ==
  LET group == available_packages[name]
      candidates == FoldLeft(LAMBDA acc, c : AddCandidate(acc, c, name, pkg),
                             [s |-> [Fresh(s) EXCEPT !.pkg2sat = @ @@ (name :> pkg)],
                              lastpen |-> -1, exclusive |-> {}], group.candidates)
      all == OneOf(FoldLeft(LAMBDA t, c : AddDependencies(t, c, name), candidates.s, group.candidates),
                   name, pkg)
  IN [s |-> IF group.deps = Nothing THEN all ELSE Implied(sat_dep_traverse(all, pkg, group.deps), pkg),
      var |-> pkg]

sat_pkg_group(s, name) == IF name \in DOMAIN s.pkg2sat THEN [s |-> s, var |-> s.pkg2sat[name]]
                          ELSE NewGroup(s, name, s.n + 1)

candidates_choose(name, version, repos) ==
  {c \in Range(available_packages[name].candidates) :
     /\ version = <<>> \/ (c[2] = name /\ version_match(Info(c).version, version))
     /\ repos = {} \/ known_repositories[c[1]].name \in repos}

\* The candidates of a group that a version or repositories allow.
Limit(group, name, version, repos) ==
  LET var == group.s.n + 1
      s == Implied([group EXCEPT !.s = Fresh(@)], var)
      chosen == IF available_packages[name].virtual THEN {}
                ELSE {s.candidate2sat[c] : c \in candidates_choose(name, version, repos)}
  IN [s |-> IF chosen = {} THEN [s EXCEPT !.missing = @ \cup {<<<<name, version, repos>>, var>>}]
            ELSE [s EXCEPT !.clauses = @ \cup {{-c, var} : c \in chosen} \cup {{-var} \cup chosen}],
      var |-> var]

\* A package, or some of its candidates.
sat_dep(s, name, version, repos) ==
  IF version = <<>> /\ repos = {} THEN sat_pkg_group(s, name)
  ELSE Limit(sat_pkg_group(s, name), name, version, repos)

\* One argument of a conjunction or a disjunction with the variable w.
AddArgument(acc, sub, activator, w, tp) ==
  LET pen == sat_penalize(Clause(sub.s, {-activator, -sub.var, w}), activator, sub.var,
                          "penalty_or", acc.lastpen)
  IN IF tp = "or" THEN [s |-> pen.s, lastpen |-> pen.pen, vars |-> acc.vars \cup {sub.var}]
     ELSE [s |-> Clause(sub.s, {-activator, -w, sub.var}), lastpen |-> -1,
           vars |-> acc.vars \cup {-sub.var}]

Arguments(acc, activator, w, tp) ==
  [s |-> Clause(acc.s, {-activator, IF tp = "or" THEN -w ELSE w} \cup acc.vars), var |-> w]

sat_dep_traverse(s, activator, d) ==
  CASE d.tp = "word" -> sat_dep(s, d.name, d.version, {})
    [] d.tp = "not" -> [sat_dep_traverse(s, activator, d.sub[1]) EXCEPT !.var = -@]
    [] OTHER -> Arguments(FoldLeft(LAMBDA acc, sub :
                                     AddArgument(acc, sat_dep_traverse(acc.s, activator, sub),
                                                 activator, s.n + 1, d.tp),
                                   [s |-> Fresh(s), lastpen |-> -1, vars |-> {}], d.sub),
                          activator, s.n + 1, d.tp)

\* A request of sat_build: its goal, unless its condition does not hold.
Goal(target, r, req) ==
  LET goal == IF r.cmd = "uninstall" THEN -target.var ELSE target.var
      cond == sat_dep_traverse(target.s, req, r.condition)
  IN IF r.condition = Nothing THEN Clause(target.s, {-req, goal})
     ELSE Clause(cond.s, {-req, goal, -cond.var})

AddRequest(s, r) ==
  [Goal(sat_dep(Fresh(s), r.name, r.version, r.repository), r, s.n + 1)
     EXCEPT !.req2sat = Append(@, s.n + 1)]

sat_build(reqs) == FoldLeft(AddRequest, NoSat, reqs)

-----------------------------------------------------------------------------
(* The solver.                                                             *)
Holds(lit, m) == IF lit > 0 THEN lit \in m ELSE -lit \notin m

\* The models of a set of clauses, one variable after the other.
ModelsOf(s) ==
  LET about == [k \in 1..s.n |-> {c \in s.clauses : /\ {k, -k} \cap c # {}
                                                    /\ \A l \in c : l <= k /\ -l <= k}]
      upto[k \in 0..s.n] ==
        IF k = 0 THEN {{}}
        ELSE LET parts == upto[k - 1]
             IN {m \in parts \cup {p \cup {k} : p \in parts} :
                   \A c \in about[k] : \E l \in c : Holds(l, m)}
  IN upto[s.n]

Satisfiable(lits) == \E m \in models : \A l \in lits : Holds(l, m)

\* What a model has of some literals, and the largest sets of them there are.
Among(lits, m) == {l \in lits : Holds(l, m)}
Largest(lits) == LET sets == {Among(lits, m) : m \in models}
                 IN {a \in sets : \A b \in sets : a \subseteq b => a = b}

\* clause_max_satisfiable: some of the largest sets of the literals that can
\* be satisfied are made clauses.
Settle(from, lits, to) ==
  /\ stage = from
  /\ \E most \in Largest(lits) : models' = {m \in models : most \subseteq Among(lits, m)}
  /\ stage' = to
  /\ UNCHANGED <<notes, world, requests, next, sat, accepted, selection>>

-----------------------------------------------------------------------------
(* required_pkgs.                                                          *)
Build == /\ stage = "ready"
         /\ stage' = "requests"
         /\ requests' = sort_requests
         /\ sat' = sat_build(requests')
         /\ models' = ModelsOf(sat')
         /\ UNCHANGED <<notes, world, next, accepted, selection>>

Trying == stage = "requests" /\ next <= Len(requests)

Accept == /\ Trying
          /\ Satisfiable({sat.req2sat[next]})
          /\ models' = {m \in models : Holds(sat.req2sat[next], m)}
          /\ accepted' = accepted \cup {next}
          /\ next' = next + 1
          /\ UNCHANGED <<notes, stage, world, requests, sat, selection>>

Reject == /\ Trying
          /\ ~Satisfiable({sat.req2sat[next]})
          /\ next' = next + 1
          /\ stage' = IF requests[next].critical THEN "failed" ELSE stage
          /\ UNCHANGED <<notes, world, requests, sat, models, accepted, selection>>

RequestsDone == /\ stage = "requests" /\ next > Len(requests)
                /\ stage' = "deny"
                /\ UNCHANGED <<notes, world, resolution>>

DenyMissing == Settle("deny", {-m[2] : m \in sat.missing}, "best")

\* Fault: alternatives come first, and candidates not at all.
PenalizeAlternatives == Settle("best", Range(sat.penalty_or), "first")

PenalizeCandidates == Settle("best", Range(sat.penalty_candidates), "first")
PenalizeOr == Settle("first", Range(sat.penalty_or), "few")

\* Fault: packages are preferred rather than denied.
Maximize == Settle("few", Range(sat.pkg2sat), "select")

Minimize == Settle("few", {-v : v \in Range(sat.pkg2sat)}, "select")

Select == /\ stage = "select"
          /\ selection' \in models
          /\ stage' = "done"
          /\ UNCHANGED <<notes, world, requests, next, sat, models, accepted>>

RNext == \/ Next /\ UNCHANGED resolution
         \/ Build \/ Accept \/ Reject \/ RequestsDone
         \/ DenyMissing \/ PenalizeCandidates \/ PenalizeOr \/ Minimize \/ Select

RSpec == RInit /\ [][RNext]_vars

-----------------------------------------------------------------------------
(* What scripts note down, without contexts: the commands in the order in  *)
(* which they are referenced, depth first, up to the first error, or up to *)
(* that of a script called with pcall.                                     *)
(*                                                                         *)
(* What a URI is verified with is what was said last of each option, by    *)
(* the command and the scripts around it; the last to name certificates or *)
(* revocation lists says which of both there are.                          *)
Sayings(said, fields) ==
  <<Flag(TRUE)>> \o FlattenSeq([i \in DOMAIN said |->
    FlattenSeq([f \in DOMAIN fields |-> IF fields[f] \in DOMAIN said[i] THEN <<said[i][fields[f]]>> ELSE <<>>])])
LastSaid(said, fields) == Last(Sayings(said, fields))
Places(val) == Reverse([i \in DOMAIN wrap(val) |-> canonize_uri(wrap(val)[i].ref, NoUri)])

InForce(at, said) ==
  LET ca == LastSaid(said, <<"ca">>)
      keys == Places(LastSaid(said, <<"pubkey">>))
  IN [at |-> at, ssl_verify |-> ca # Flag(FALSE), ocsp |-> LastSaid(said, <<"ocsp">>).on,
      system |-> wrap(ca) = <<>>, pem |-> Places(LastSaid(said, <<"ca", "crl">>)), pubkey |-> keys,
      sig |-> CASE keys = <<>> -> NoUri.at
                [] keys # <<>> /\ "sig" \in DOMAIN Last(said) -> canonize_uri(Last(said)["sig"].ref, [at |-> at])
                [] OTHER -> [at EXCEPT !.sig = TRUE]]

\* The signature is there, by a key in force that is there.
Vouched(s, keys) ==
  keys = <<>> \/ \E i \in DOMAIN keys : LET k == Last(keys[i].path)
                                      IN /\ k \in DOMAIN Keys /\ Keys[k].pkalg = "Ed"
                                         /\ s.signature = Signature("Ed", Keys[k].fingerprint, k)

RECURSIVE Meaning(_, _)

Does(m, s) ==
  LET level == IF s.security = "" THEN m.level ELSE Rank(s.security)
      fits == ~Rejected(s) /\ ~Unusable(s.uri, m.base, s.extra)
      at == canonize_uri(s.uri, m.base)
      said == Append(m.said, s.extra)
      fetched == s.fetched /\ Vouched(s, InForce(at, said).pubkey)
      seen == [m EXCEPT !.asked = Append(@, InForce(at, said))]
      sub == Meaning(s.content, [seen EXCEPT !.level = level, !.base = [at |-> at], !.said = said,
                                   !.env = [f \in funcs(Levels[level]) |-> f]
                                             @@ [v \in DOMAIN @ \cap m.exported |-> @[v]]])
  IN CASE Rejected(s) -> [m EXCEPT !.ok = s.caught]
       [] ~Rejected(s) /\ ~fits -> [m EXCEPT !.ok = Optional(s) \/ s.caught]
       [] fits /\ ~fetched -> [seen EXCEPT !.ok = Optional(s) \/ s.caught]
       [] fits /\ fetched /\ level > m.level -> [seen EXCEPT !.ok = s.caught]
       [] OTHER -> [seen EXCEPT !.noted = sub.noted, !.asked = sub.asked, !.ok = sub.ok \/ s.caught]

Repositories(noted) == SelectSeq(noted, LAMBDA s : s.cmd = "repository")

\* The parts of a repository up to one that has a name or a URI that cannot be.
Adds(m, s) ==
  LET parts == Parts(s)
      good == {i \in DOMAIN parts : /\ ~Registered(<<s.name>> \o parts[i], Repositories(m.noted))
                                    /\ \A k \in 1..(i - 1) : parts[k] # parts[i]
                                    /\ ~Unusable(IndexRef(s, parts[i]), m.base, s.extra)}
      there == SelectSeq([i \in DOMAIN parts |-> i], LAMBDA i : 1..i \subseteq good)
      asks == [i \in DOMAIN there |-> InForce(canonize_uri(IndexRef(s, parts[i]), m.base),
                                              Append(m.said, s.extra))]
  IN [m EXCEPT !.noted = @ \o [i \in DOMAIN there |-> Noted(s, parts[i], Vouched(s, asks[i].pubkey))],
               !.asked = @ \o asks,
               !.ok = good = DOMAIN parts]

Wrong(m, s) ==
  CASE s.cmd = "call" -> s.var \notin DOMAIN m.env \/ m.env[s.var] \notin funcs("Full")
    [] s.cmd = "export" -> s.var \in funcs("Full")
    [] s.cmd \in {"package", "repository", "install", "uninstall"} -> Rejected(s)
    [] OTHER -> s.cmd = "error"

\* A variable that gets the value of one that is not set is not set.
Bound(env, v, values) == values @@ [w \in DOMAIN env \ {v} |-> env[w]]

Said(m, s) ==
  CASE ~m.ok -> m
    [] m.ok /\ Wrong(m, s) -> [m EXCEPT !.ok = FALSE]
    [] m.ok /\ ~Wrong(m, s) ->
         CASE s.cmd = "script" -> Does(m, s)
           [] s.cmd = "repository" -> Adds(m, s)
           [] s.cmd = "set" -> [m EXCEPT !.env = Bound(@, s.var, s.var :> s.value)]
           [] s.cmd = "assign" -> [m EXCEPT !.env =
                Bound(@, s.var, [v \in {w \in {s.var} : s.value \in DOMAIN m.env} |-> m.env[s.value]])]
           [] s.cmd = "call" -> m
           [] s.cmd = "export" -> [m EXCEPT !.exported = @ \cup {s.var}]
           [] s.cmd = "unexport" -> [m EXCEPT !.exported = @ \ {s.var}]
           [] s.cmd \in {"install", "uninstall"} -> [m EXCEPT !.noted = @ \o SetToSeq(Named(s, m.env))]
           [] OTHER -> [m EXCEPT !.noted = Append(@, s)]

Meaning(body, m) == FoldLeft(Said, m, body)

Configured ==
  Meaning(configuration, [noted |-> <<>>, ok |-> TRUE, env |-> [f \in funcs("Full") |-> f], exported |-> {},
                          level |-> Len(Levels), base |-> Entry, said |-> <<<<>>>>,
                          asked |-> <<InForce(Entry.at, <<<<>>>>)>>])

DepthFirst ==
  stage = "download" \/ contexts = <<>> =>
    /\ Configured.ok <=> contexts # <<>>
    /\ known_repositories = Repositories(Configured.noted)
    /\ content_requests = SelectSeq(Configured.noted, LAMBDA s : s.cmd \in {"install", "uninstall"})
    /\ asked = Configured.asked

(* What requests and dependencies mean, without variables and clauses: a   *)
(* choice is a set of candidates, and of those groups and limited ones     *)
(* without candidates that are taken to be there: virtual and missing.     *)
Fitting(w) == CASE w[2] = <<>> /\ w[3] = {} -> Range(available_packages[w[1]].candidates)
                [] available_packages[w[1]].virtual -> {}
                [] OTHER -> candidates_choose(w[1], w[2], w[3])

RECURSIVE Met(_, _)
Met(d, ch) ==
  CASE d.tp = "word" ->
         LET w == <<d.name, d.version, {}>>
         IN IF Fitting(w) = {} THEN w \in ch.hollow ELSE Fitting(w) \cap ch.packages # {}
    [] d.tp = "not" -> ~Met(d.sub[1], ch)
    [] d.tp = "or" -> \E i \in DOMAIN d.sub : Met(d.sub[i], ch)
    [] OTHER -> \A i \in DOMAIN d.sub : Met(d.sub[i], ch)

Wanted(r, ch) ==
  LET w == <<r.name, r.version, r.repository>>
      there == IF Fitting(w) = {} THEN w \in ch.hollow ELSE Fitting(w) \cap ch.packages # {}
  IN Met(r.condition, ch) => (there <=> r.cmd = "install")

Present(n, ch) == Met(Word(n), ch)

\* A package as its index was written.
Published(c) == CHOOSE p \in known_repositories[c[1]].packages : p.name = c[2]

Consistent(ch) ==
  /\ \A c, d \in ch.packages : c[2] = d[2] => c = d
  /\ \A c \in ch.packages :
       /\ Met(Published(c).depends, ch)
       /\ \A i \in DOMAIN Published(c).conflicts :
            LET w == Published(c).conflicts[i]
            IN ~\E d \in ch.packages : d[2] = w.name
                 /\ (w.version = <<>> \/ version_match(Published(d).version, w.version))
  /\ \A i \in DOMAIN known_packages :
       Present(known_packages[i].name, ch) => Met(known_packages[i].deps, ch)
  /\ \A w \in ch.hollow : Present(w[1], ch)

Hollow == {m[1] : m \in sat.missing}
            \cup {<<n, <<>>, {}>> : n \in {k \in DOMAIN sat.pkg2sat : available_packages[k].virtual}}
Selections == [packages : SUBSET DOMAIN sat.candidate2sat, hollow : SUBSET Hollow]

Keeps(ch, upto) == \A i \in accepted : i <= upto => Wanted(requests[i], ch)

Chosen == [packages |-> {c \in DOMAIN sat.candidate2sat : sat.candidate2sat[c] \in selection},
           hollow |-> {m[1] : m \in {k \in sat.missing : k[2] \in selection}}
                        \cup {w \in Hollow : w[2] = <<>> /\ w[3] = {} /\ sat.pkg2sat[w[1]] \in selection}]

(* What is selected has its dependencies and no conflicts, packages as     *)
(* indexes and configuration have them, and does what was requested.       *)
Sound == stage = "done" => Consistent(Chosen) /\ Keeps(Chosen, Len(requests))

(* A request is given up only if it cannot be met together with those that *)
(* come before it.                                                         *)
InTurn == stage \in {"deny", "failed"} =>
            \A i \in (1..(next - 1)) \ accepted :
              ~\E ch \in Selections : Consistent(ch) /\ Keeps(ch, i) /\ Wanted(requests[i], ch)

\* The worst candidate of a group that is taken, the first if there is none.
Worst(n, ch) ==
  LET taken == {i \in DOMAIN available_packages[n].candidates :
                  available_packages[n].candidates[i] \in ch.packages}
  IN IF taken = {} THEN 1 ELSE CHOOSE i \in taken : \A k \in taken : k <= i

(* No group could have a better candidate without another having a worse   *)
(* one or something else missing.                                          *)
BestCandidates ==
  stage = "done" =>
    ~\E ch \in Selections :
      /\ ch.hollow \subseteq Chosen.hollow
      /\ \A n \in DOMAIN sat.pkg2sat : Worst(n, ch) <= Worst(n, Chosen)
      /\ \E n \in DOMAIN sat.pkg2sat : Worst(n, ch) < Worst(n, Chosen)
      /\ Consistent(ch) /\ Keeps(ch, Len(requests))

(* Nothing is selected that could be left out.                             *)
NothingNeedless ==
  stage = "done" =>
    ~\E ch \in [packages : SUBSET Chosen.packages, hollow : SUBSET Chosen.hollow] :
      ch # Chosen /\ Consistent(ch) /\ Keeps(ch, Len(requests))

(* Of the candidates of a group, one from a repository with a higher       *)
(* priority comes first, then the package itself before those that provide *)
(* it, then the newer version, then what comes from the repository that    *)
(* was introduced first: in whatever order all of them were found.  So     *)
(* says the comment of sort_candidates (postprocess.lua 242).              *)
BetterBy(n, a, b) ==
  LET pa == known_repositories[a[1]].priority
      pb == known_repositories[b[1]].priority
      cmp == version_cmp(Info(a).version, Info(b).version)
  IN \/ pa > pb
     \/ pa = pb /\ a[2] = n /\ b[2] # n
     \/ pa = pb /\ a[2] = b[2] /\ cmp = 1
     \/ pa = pb /\ a[2] = b[2] /\ cmp = 0 /\ a[1] < b[1]

InOrder(n) == LET found == available_packages[n].candidates
              IN \A i, k \in DOMAIN found : i < k => ~BetterBy(n, found[k], found[i])

\* Packages that provide the same are in no order that goes by versions.
Mixed(n) == \E a, b \in Range(available_packages[n].candidates) : a[2] # b[2] /\ n \notin {a[2], b[2]}
BestFirst == stage = "ready" => \A n \in Names : Mixed(n) \/ InOrder(n)

(* A comment has the newer of two versions preferred in all groups.        *)
NewestFirst == stage = "ready" => \A n \in Names : InOrder(n)

(* docs/language.txt leaves out the versions: "The package is taken from   *)
(* the repository with highest priority.  In case of equality, the one     *)
(* introduced first wins" (272).                                           *)
IntroducedFirst ==
  stage = "ready" =>
    \A n \in Names :
      LET found == available_packages[n].candidates
          Priority(i) == known_repositories[found[i][1]].priority
      IN \A i, k \in DOMAIN found :
           i < k /\ found[i][2] = found[k][2] /\ Priority(i) = Priority(k) => found[i][1] <= found[k][1]

(* An optional repository that cannot be received, verified or parsed is   *)
(* no reason to fail, says docs/language.txt.                              *)
OptionalTolerated ==
  /\ \A i \in DOMAIN known_repositories : known_repositories[i].optional
  /\ contexts # <<>>
  /\ \A i \in DOMAIN content_requests : ~content_requests[i].critical
  => stage # "failed"

(* The request defined earlier is preferred, says docs/language.txt: one   *)
(* that was given up cannot be met together with what is preferred to it.  *)
DefinedEarlier(r, q) ==
  /\ ~Preferable(r, q) /\ ~Preferable(q, r)
  /\ \E i, j \in DOMAIN content_requests : i < j /\ content_requests[i] = r /\ content_requests[j] = q

EarlierPreferred ==
  stage = "deny" =>
    \A i \in DOMAIN requests \ accepted :
      ~\E ch \in Selections :
        /\ Consistent(ch) /\ Wanted(requests[i], ch)
        /\ \A k \in accepted : DefinedEarlier(requests[i], requests[k]) \/ Wanted(requests[k], ch)
=============================================================================
