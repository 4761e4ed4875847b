----------------------------- MODULE Candidates -----------------------------
(***************************************************************************)
(* From the scripts of the configuration to the candidates of packages:    *)
(* src/lib/lua/requests.lua and postprocess.lua, with the comparison of    *)
(* versions in backend.lua.                                                *)
(*                                                                         *)
(* Commands only take notes: of repositories, of what is said of packages  *)
(* (promises) and of requests.  When the configuration has been run the    *)
(* indexes are downloaded, and available_packages gets a group for every   *)
(* name, with the packages of that name and those that provide it as its   *)
(* candidates, the best one first.                                         *)
(*                                                                         *)
(* Lua goes through tables with pairs in an order nobody determines.       *)
(***************************************************************************)
EXTENDS Scripts

CONSTANTS Names,    \* of packages
          Alphabet  \* all names, in alphabetical order

ASSUME AlphabetAssumption == Alphabet \in Seq(Names) /\ Range(Alphabet) = Names

VARIABLES
  known_packages,      \* sequence of promises
  known_repositories,  \* sequence, in the order of their serials
  content_requests,    \* sequence
  content,             \* what was read from the indexes, by repository
  left,                \* packages pkg_aggregate has not come to
  available_packages,  \* [Names -> group]
  deps                 \* the field deps of candidates

notes == <<script_vars, known_packages, known_repositories, content_requests>>
world == <<content, left, available_packages, deps>>

Text == INSTANCE ControlText

Stages == {"config", "download", "aggregate", "merge", "ready", "failed"}

-----------------------------------------------------------------------------
(* Dependencies: a word, which names a package and may limit its version,  *)
(* a list, which a string with commas and a table without a type are, or   *)
(* an operator and its arguments.                                          *)
Dep(tp, sub) == [tp |-> tp, name |-> "", version |-> <<>>, sub |-> sub]
Limited(n, rule) == [tp |-> "word", name |-> n, version |-> rule, sub |-> <<>>]
Word(n) == Limited(n, <<>>)
List(sub) == Dep("list", sub)
Nothing == List(<<>>)

(* Versions are sequences of parts, numbers and other text by turns, as    *)
(* explode makes them.  A part has a rank among parts of its kind, and the *)
(* number of zeros it begins with.  Parts that are not there are empty.    *)
Part(v, i) == IF i <= Len(v) THEN v[i] ELSE <<-1, 0>>

version_cmp(v1, v2) ==
  LET differ == {i \in 1..(Len(v1) + Len(v2)) : Part(v1, i) # Part(v2, i)}
      i == CHOOSE k \in differ : \A m \in differ : k <= m
  IN IF differ = {} THEN 0 ELSE IF Part(v1, i)[1] < Part(v2, i)[1] THEN -1 ELSE 1

(* A rule is a set of characters to compare with and a version.  Of the    *)
(* patterns there is the one conflicts_canon writes, ".*".                 *)
AnyVersion == <<{"~"}, <<>>>>

version_match(v, rule) ==
  LET cmp == version_cmp(rule[2], v)
  IN \/ rule = AnyVersion
     \/ rule[1] = {} /\ v = rule[2]
     \/ (CASE cmp = -1 -> ">" [] cmp = 1 -> "<" [] OTHER -> "=") \in rule[1]

\* table.sort of Lua 5.1, for up to four elements: of four, the second is the pivot, and is put
\* third before the others are looked at.
Swap(s, i, j) == [s EXCEPT ![i] = s[j], ![j] = s[i]]
Sort(s, Less(_, _)) ==
  LET n == Len(s)
      Ordered(q, i, j) == IF Less(q[j], q[i]) THEN Swap(q, i, j) ELSE q
      ends == Ordered(s, 1, n)
      middle == IF Less(ends[2], ends[1]) THEN Swap(ends, 1, 2) ELSE Ordered(ends, 2, n)
      moved == Swap(middle, 2, 3)
  IN CASE n < 2 -> s
       [] n = 2 -> ends
       [] n = 3 -> middle
       [] n = 4 /\ Less(moved[3], moved[2]) -> Ordered(middle, 3, 4)
       [] n = 4 /\ ~Less(moved[3], moved[2]) -> Ordered(moved, 1, 2)

-----------------------------------------------------------------------------
NoGroup == [candidates |-> <<>>, virtual |-> FALSE, deps |-> Nothing,
            reboot |-> "no", replan |-> "no"]

Init == /\ SInit
        /\ known_packages = <<>> /\ known_repositories = <<>> /\ content_requests = <<>>
        /\ content = <<>> /\ left = {}
        /\ available_packages = [n \in Names |-> NoGroup]
        /\ deps = <<>>

\* The value "immediate" of reboot is said to become "finished", and does not.
package ==
  /\ At("package")
  /\ IF Rejected(Statement)
     THEN Raise(Advanced) /\ UNCHANGED known_packages
     ELSE Continue(Advanced) /\ known_packages' = Append(known_packages, Statement)
  /\ UNCHANGED <<known_repositories, content_requests, world>>

(* A repository of the obsolete option subdirs is several, which have the  *)
(* names of both; an index is at its URI.                                  *)
Parts(s) == IF "subdirs" \notin DOMAIN s.extra THEN <<<<>>>>
            ELSE [i \in DOMAIN s.extra["subdirs"].items |-> <<s.extra["subdirs"].items[i].text>>]
IndexRef(s, part) ==
  [s.uri EXCEPT !.path = @ \o part \o (IF "index" \in DOMAIN s.extra THEN s.extra["index"].ref.path
                                       ELSE <<"Packages">>)]
Noted(s, part, verified) ==
  [cmd |-> "repository", name |-> <<s.name>> \o part, priority |-> s.priority, optional |-> Optional(s),
   reachable |-> s.reachable, verified |-> verified, index |-> s.index, packages |-> s.packages]
Registered(name, repositories) == \E i \in DOMAIN repositories : repositories[i].name = name

\* A name that was used before is an error, and so is a URI.
register_repo(acc, s, part) ==
  LET u == uri_config(uri(IndexRef(s, part), Current.uri), s.extra)
  IN IF \/ acc.failed
        \/ Registered(<<s.name>> \o part, acc.known)
        \/ Unusable(IndexRef(s, part), Current.uri, s.extra)
     THEN [acc EXCEPT !.failed = TRUE]
     ELSE [acc EXCEPT !.known = Append(@, Noted(s, part, verify_signature(u, s.signature))),
                     !.requested = Append(@, Requested(u))]

\* The parts before one that fails stay.
repository ==
  /\ At("repository")
  /\ LET none == [known |-> known_repositories, requested |-> <<>>, failed |-> Rejected(Statement)]
         acc == FoldLeft(LAMBDA a, part : register_repo(a, Statement, part), none, Parts(Statement))
     IN /\ IF acc.failed THEN RaiseAfter(Advanced, acc.requested) ELSE Proceed(Advanced, acc.requested)
        /\ known_repositories' = acc.known
  /\ UNCHANGED <<known_packages, content_requests, world>>

Promise(n) == [cmd |-> "package", name |-> n, virtual |-> FALSE, deps |-> Nothing,
               reboot |-> "no", replan |-> "no", extra |-> <<>>]

\* The name may be in a variable; a request of nil is none.
Named(s, env) == IF s.var = "" THEN {s}
                 ELSE {[s EXCEPT !.name = env[v]] : v \in {s.var} \cap DOMAIN env}

Note(named) ==
  /\ known_packages' = known_packages \o [i \in DOMAIN named |-> Promise(named[i].name)]
  /\ content_requests' = content_requests \o named

content_request ==
  /\ At("install") \/ At("uninstall")
  /\ IF Rejected(Statement)
     THEN Raise(Advanced) /\ UNCHANGED <<known_packages, content_requests>>
     ELSE Continue(Advanced) /\ Note(SetToSeq(Named(Statement, Current.env)))
  /\ UNCHANGED <<known_repositories, world>>

RunScripts == /\ SNext
              /\ UNCHANGED <<known_packages, known_repositories, content_requests, world>>

ConfigDone == /\ ConfigEnded
              /\ stage' = "download"
              /\ UNCHANGED <<notes, world>>

-----------------------------------------------------------------------------
(* A package of an index, from a block of it: its dependencies are a list  *)
(* of words, one of nothing if there is no such field.                     *)
Words(block, field) == IF field \in DOMAIN block THEN FlattenSeq(block[field]) ELSE <<>>
Package(block) == [name |-> Words(block, "Package")[1], version |-> Words(block, "Version")[1],
                   provides |-> ToSet(Words(block, "Provides")),
                   depends |-> List(Words(block, "Depends")),
                   conflicts |-> Words(block, "Conflicts")]

\* A block without a name is an error too.
Corrupt(text) ==
  LET blocks == Text!block_split(text)
  IN \E i \in DOMAIN blocks : Text!Malformed(blocks[i]) \/ Words(Text!block_parse(blocks[i]), "Package") = <<>>

\* Fault: of several blocks for a package the first one counts.
ParseKeepsFirst(text) ==
  LET blocks == Text!block_split(text)
      packages == [i \in DOMAIN blocks |-> Package(Text!block_parse(blocks[i]))]
  IN {packages[i] : i \in {j \in DOMAIN blocks : \A k \in 1..(j - 1) : packages[k].name # packages[j].name}}

\* Of several blocks for a package the last one counts.
repo_parse(text) ==
  LET blocks == Text!block_split(text)
      packages == [i \in DOMAIN blocks |-> Package(Text!block_parse(blocks[i]))]
  IN {packages[i] : i \in {j \in DOMAIN blocks :
                              \A k \in (j + 1)..Len(blocks) : packages[k].name # packages[j].name}}

Candidate == UNION {{<<i, p.name>> : p \in content[i]} : i \in DOMAIN content}
Info(c) == CHOOSE p \in content[c[1]] : p.name = c[2]

(* get_repos: the download tells of some of the failures, of all if there  *)
(* is one.  What it does not tell of is an error when the index is parsed, *)
(* as is one that cannot be verified or parsed, optional or not.           *)
Unreachable == {i \in DOMAIN known_repositories : ~known_repositories[i].reachable}

get_repos ==
  /\ stage = "download"
  /\ \E told \in SUBSET Unreachable :
       /\ told = {} => Unreachable = {}
       /\ stage' = IF /\ told = Unreachable
                      /\ \A i \in DOMAIN known_repositories \ told :
                           known_repositories[i].verified /\ ~Corrupt(known_repositories[i].index)
                      /\ \A i \in told : known_repositories[i].optional
                   THEN "aggregate" ELSE "failed"
  /\ content' = [i \in DOMAIN known_repositories |->
                   IF i \in Unreachable \/ stage' = "failed" THEN {}
                   ELSE repo_parse(known_repositories[i].index)]
  /\ left' = Candidate'
  /\ deps' = [c \in Candidate' |-> Nothing]
  /\ UNCHANGED <<notes, available_packages>>

\* Of a group that gets a candidate.
Extended(g, c) == [g EXCEPT !.candidates = Append(@, c)]

(* pkg_aggregate, first loop: one repository after the other.              *)
Aggregate(c) ==
  /\ stage = "aggregate" /\ c \in left
  /\ \A d \in left : d[1] # c[1] => \A e \in Candidate : e[1] = d[1] => e \in left
  /\ left' = left \ {c}
  /\ available_packages' = [n \in Names |->
       IF n = c[2] \/ n \in Info(c).provides THEN Extended(available_packages[n], c)
       ELSE available_packages[n]]
  /\ UNCHANGED <<notes, stage, content, deps>>

AggregateDone == /\ stage = "aggregate" /\ left = {}
                 /\ stage' = "merge"
                 /\ left' = {<<0, n>> : n \in Names}
                 /\ UNCHANGED <<notes, content, available_packages, deps>>

-----------------------------------------------------------------------------
RECURSIVE deps_canon(_)

\* dep_size_check
Sized(d) == IF d.sub = <<>> THEN Nothing
            ELSE IF Len(d.sub) = 1 /\ d.tp # "not" THEN d.sub[1] ELSE d

\* Lists within lists are flattened.  No argument of or and not is empty.
deps_canon(d) ==
  LET sub == [i \in DOMAIN d.sub |-> deps_canon(d.sub[i])]
  IN CASE d.tp = "word" -> d
       [] d.tp \in {"or", "not"} -> Sized(Dep(d.tp, sub))
       [] OTHER -> Sized(Dep("list", FlattenSeq([i \in DOMAIN sub |->
                     IF sub[i].tp = "list" THEN sub[i].sub ELSE <<sub[i]>>])))

\* A conflict is with packages of that name in any version, not with those
\* that provide it.
Conflict(w) == IF w.version = <<>> THEN Limited(w.name, AnyVersion) ELSE w

\* Fault: the conflict is with all of the list at once.
ConflictsAll(list) ==
  LET sub == [i \in DOMAIN list |-> Conflict(list[i])]
  IN IF list = <<>> THEN Nothing ELSE Dep("not", <<Sized(List(sub))>>)

conflicts_canon(list) ==
  LET sub == [i \in DOMAIN list |-> Conflict(list[i])]
  IN IF list = <<>> THEN Nothing ELSE Dep("not", <<Sized(Dep("or", sub))>>)

\* Fault: serials before versions.
CompareSerial(pkgname, a, b) ==
  LET ra == known_repositories[a[1]]
      rb == known_repositories[b[1]]
  IN IF ra.priority # rb.priority THEN ra.priority > rb.priority ELSE a[1] < b[1]

\* The function compare in sort_candidates.
Before(pkgname, a, b) ==
  LET ra == known_repositories[a[1]]
      rb == known_repositories[b[1]]
      cmp == version_cmp(Info(a).version, Info(b).version)
      Place(n) == CHOOSE i \in DOMAIN Alphabet : Alphabet[i] = n
  IN CASE ra.priority # rb.priority -> ra.priority > rb.priority
       [] a[2] = b[2] /\ cmp # 0 -> cmp = 1
       [] a[2] # b[2] /\ pkgname \in {a[2], b[2]} -> a[2] = pkgname
       [] a[1] # b[1] -> a[1] < b[1]
       [] OTHER -> a[2] # b[2] /\ Place(a[2]) < Place(b[2])

sort_candidates(pkgname, candidates) ==
  Sort(candidates, LAMBDA a, b : Before(pkgname, a, b))

-----------------------------------------------------------------------------
\* flag_merge: the highest of what was said.
Highest(values, said) ==
  values[CHOOSE i \in DOMAIN values : /\ i = 1 \/ values[i] \in said
                                     /\ \A j \in DOMAIN values : values[j] \in said => j <= i]

(* pkg_aggregate, last loop: what was said of a package is put together. A *)
(* candidate in several groups has its dependencies made several times.    *)
Merge(n) ==
  LET promises == SelectSeq(known_packages, LAMBDA p : p.name = n)
      virtual == \E i \in DOMAIN promises : promises[i].virtual
      found == IF virtual THEN <<>> ELSE available_packages[n].candidates
  IN /\ stage = "merge" /\ <<0, n>> \in left
     /\ left' = left \ {<<0, n>>}
     /\ available_packages' = [available_packages EXCEPT ![n] =
          [candidates |-> sort_candidates(n, found),
           virtual |-> virtual,
           deps |-> deps_canon(List([i \in DOMAIN promises |-> promises[i].deps])),
           reboot |-> Highest(<<"no", "delayed", "finished", "immediate">>,
                              {promises[i].reboot : i \in DOMAIN promises}),
           replan |-> Highest(<<"no", "finished", "immediate">>,
                              {promises[i].replan : i \in DOMAIN promises})]]
     /\ deps' = [c \in DOMAIN deps |->
          IF c \in Range(found)
          THEN deps_canon(List(<<deps[c], Info(c).depends, conflicts_canon(Info(c).conflicts)>>))
          ELSE deps[c]]
     /\ UNCHANGED <<notes, stage, content>>

canon_requests ==
  /\ stage = "merge" /\ left = {}
  /\ stage' = "ready"
  /\ content_requests' = [i \in DOMAIN content_requests |->
       [content_requests[i] EXCEPT !.condition = deps_canon(@)]]
  /\ UNCHANGED <<script_vars, known_packages, known_repositories, world>>

Next == \/ RunScripts \/ package \/ repository \/ content_request \/ ConfigDone \/ get_repos
        \/ \E c \in left : Aggregate(c)
        \/ AggregateDone
        \/ \E n \in Names : Merge(n)
        \/ canon_requests
=============================================================================
