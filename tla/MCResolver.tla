----------------------------- MODULE MCResolver -----------------------------
(***************************************************************************)
(* Configurations for Resolver: up to three repositories with versions and *)
(* providers of up to four packages.                                       *)
(***************************************************************************)
EXTENDS Resolver

V(k) == <<<<k, 0>>>>

Pkg(n, v, provides, depends, conflicts) ==
  [name |-> n, version |-> v, provides |-> provides, depends |-> depends, conflicts |-> conflicts]
Simple(n) == Pkg(n, V(1), {}, Nothing, <<>>)
Needs(n, v, words) == Pkg(n, v, {}, List(words), <<>>)

\* The text of an index: no line for what a package does not have, a second one for a second
\* dependency.
Lines(field, words) == IF words = <<>> THEN <<>> ELSE <<Text!Field(field, words)>>
Split(field, words) == IF words = <<>> THEN <<>>
                       ELSE <<Text!Field(field, <<words[1]>>)>>
                              \o [i \in 1..(Len(words) - 1) |-> Text!More(<<words[i + 1]>>)]
Block(p) == Lines("Package", <<p.name>>) \o Lines("Version", <<p.version>>)
              \o Lines("Provides", SetToSeq(p.provides)) \o Split("Depends", p.depends.sub)
              \o Lines("Conflicts", p.conflicts)
Page(blocks) == FlattenSeq([n \in DOMAIN blocks |-> Append(blocks[n], Text!Empty)])
Printed(packages) == LET p == SetToSeq(packages) IN Page([n \in DOMAIN p |-> Block(p[n])])

Remote(dir) == Ref("https", "repo", TRUE, <<dir>>)
Beside(file) == Ref("", "", FALSE, <<file>>)

\* Keys, of which one is of another kind, and signatures.
MCKeys == [k \in {"k1", "k2", "k3", "k5", "rsa"} |-> [pkalg |-> IF k = "rsa" THEN "RW" ELSE "Ed", fingerprint |-> k]]
By(k) == Signature("Ed", k, k)

\* packages: history, what the index was printed from.
Repo(name, priority, packages) ==
  [cmd |-> "repository", name |-> name, priority |-> priority, reachable |-> TRUE,
   signature |-> By("k1"), extra |-> <<>>, uri |-> Remote(name), index |-> Printed(packages), packages |-> packages]
Request(cmd, n) == [cmd |-> cmd, name |-> n, var |-> "", version |-> <<>>, repository |-> {}, priority |-> 50,
                    critical |-> FALSE, condition |-> Nothing, extra |-> <<>>]
Install(n) == Request("install", n)
Uninstall(n) == Request("uninstall", n)

MCNames == {"a", "b", "c", "p"}
MCAlphabet == <<"a", "b", "c", "p">>

Or(x, y) == Dep("or", <<Word(x), Word(y)>>)
Not(x) == Dep("not", <<Word(x)>>)

\* Two versions of a, in the order of the repositories or against it; b and
\* c may both provide p, and may not go together with a or with each other.
Alternatives ==
  {<<Repo("r1", 50, {Needs("a", V(v), d[1]), Pkg("b", V(1), y, Nothing, <<>>),
                     Pkg("c", V(1), y, Nothing, <<>>)}),
     Repo("r2", w, {Pkg("a", V(2), {}, List(<<Word("b")>>), k), Pkg("c", V(2), y, Nothing, f)}),
     [Promise("a") EXCEPT !.deps = d[2]]>> \o r :
     v \in {1, 3}, w \in {50, 60}, y \in {{}, {"p"}},
     d \in {<<<<>>, Or("b", "c")>>, <<<<Word("b"), Word("p")>>, Nothing>>},
     k \in {<<>>, <<Word("c"), Word("p")>>}, f \in {<<>>, <<Word("b")>>},
     r \in {<<Install("a"), Install("c")>>, <<Uninstall("b"), Install("a")>>}}

\* What the configuration says of packages, and other requests.
Repos == <<Repo("r1", 50, {Needs("a", V(1), <<Word("b")>>), Needs("b", V(1), <<Word("a")>>), Simple("c")}),
           Repo("r2", 50, {Needs("a", V(2), <<Word("c")>>)})>>

Declarations ==
  {Repos \o <<[Promise("a") EXCEPT !.deps = d, !.reboot = "delayed"],
              [Promise("a") EXCEPT !.reboot = "finished", !.replan = "immediate"],
              [Promise("p") EXCEPT !.virtual = t, !.deps = Word("c")]>> \o r :
     d \in {Nothing, Word("p"), List(<<Word("c"), Or("p", "b")>>)}, t \in BOOLEAN,
     r \in {<<Install("a")>>,
            <<[Install("a") EXCEPT !.version = <<{"<"}, V(2)>>, !.critical = TRUE]>>,
            <<[Install("a") EXCEPT !.version = <<{">"}, V(2)>>], Install("c")>>,
            <<[Install("a") EXCEPT !.repository = {<<"r1">>}], [Uninstall("b") EXCEPT !.priority = 60]>>,
            <<[Install("a") EXCEPT !.condition = Word("c")], [Uninstall("b") EXCEPT !.condition = Not("c")]>>,
            <<Uninstall("a"), [Install("a") EXCEPT !.critical = TRUE],
              [Uninstall("a") EXCEPT !.critical = TRUE]>>}}

\* Three candidates for a, of which one comes from a preferred repository
\* or has another version, and packages that provide it.
Plain(v) == Pkg("a", V(v), {}, Nothing, <<>>)
Provider == Pkg("b", V(9), {"a"}, Nothing, <<>>)
Rivals ==
  {<<Repo("r1", 50, {Plain(u)}),
     Repo("r2", 50, {Needs("a", V(v), <<Word("c")>>), Provider} \ x),
     Repo("r3", w, {Plain(2), Simple("c")} \ x), Install("a"), i>> :
     u \in {1, 2}, v \in {2, 3}, w \in {50, 60}, x \in {{Plain(2)}, {Provider}},
     i \in {Install("c"), Uninstall("c")}}

\* Failures of repositories, and a name that is used twice.
Ignoring == "ignore" :> Table(<<Str("missing")>>)
BadIndexes == {<<Text!Junk>>, <<Text!More(<<Word("b")>>)>> \o Block(Simple("a")), Lines("Version", <<V(1)>>)}
Failures ==
  {<<[Repo("r1", 50, {Simple("a")}) EXCEPT !.reachable = s, !.extra = o],
     [Repo(n, 50, {Simple("a")}) EXCEPT !.reachable = t, !.index = x], Install("a")>> :
     s \in BOOLEAN, o \in {<<>>, Ignoring, "optional" :> Flag(FALSE)}, n \in {"r1", "r2"}, t \in BOOLEAN,
     x \in {Printed({Simple("a")})} \cup BadIndexes}

\* Indexes with an older block for a package, with lines that count for nothing, or in another order.
Latest == Needs("a", V(2), <<Word("b"), Limited("c", <<{">"}, V(1)>>)>>)
Older == Needs("a", V(3), <<Word("p")>>)
Rest == {Simple("b"), Needs("c", V(2), <<Word("b")>>)}
Layouts ==
  {<<[Repo("r1", 50, {Latest} \cup Rest) EXCEPT !.index = x], Install("a")>> :
     x \in {Printed(Rest) \o Block(Older) \o <<Text!Empty>> \o Block(Latest),
            <<Text!Empty>> \o Block(Latest) \o <<Text!Empty, Text!Empty>> \o Printed(Rest) \o <<Text!Empty>>,
            Printed(Rest) \o Lines("Version", <<V(1)>>) \o Block(Latest),
            Printed(Rest) \o Reverse(Lines("Version", <<V(2)>>) \o Lines("Package", <<"a">>))
              \o Split("Depends", Latest.depends.sub) \o <<Text!Field("Section", <<>>)>>}}

\* Packages that provide the same from three repositories, and requests of
\* which the last one is the first to be tried.
Order ==
  {<<Repo("r1", 50, {Pkg("a", V(1), {"p"}, Nothing, <<>>)}),
     Repo("r2", 50, {Pkg("b", V(1), {"p"}, Nothing, <<>>), Pkg("c", V(1), {}, Nothing, <<Word("b")>>)}),
     Repo("r3", 50, {Pkg("a", V(2), {"p"}, Nothing, <<>>)}),
     Install("b"), [Install("c") EXCEPT !.condition = d], [Install("a") EXCEPT !.priority = 60]>> :
     d \in {Nothing, Word("a")}}

\* Scripts that run scripts, with variables, levels and errors.
Run(body) == [cmd |-> "script", content |-> body, fetched |-> TRUE, security |-> "", caught |-> FALSE, signature |-> By("k1"),
              uri |-> Beside("sub.lua"), extra |-> <<>>]
SetTo(v, n) == [cmd |-> "set", var |-> v, value |-> n]
Copy(v, w) == [cmd |-> "assign", var |-> v, value |-> w]
Use(v) == [cmd |-> "call", var |-> v]
Share(v) == [cmd |-> "export", var |-> v]
Hide(v) == [cmd |-> "unexport", var |-> v]
Fail == [cmd |-> "error"]
InstallVar(v) == [Install("") EXCEPT !.var = v]

Inner == {<<SetTo("x", "b"), Hide("x"), InstallVar("x")>>,
          <<Install("c"), Fail>>,
          <<SetTo("x", "c"), Run(<<InstallVar("x"), InstallVar("y")>>), Install("b")>>,
          <<Copy("x", "w"), InstallVar("x"), Copy("y", "z"), InstallVar("y")>>,
          <<[Run(<<Install("c")>>) EXCEPT !.security = "Local", !.caught = TRUE], Install("b")>>,
          <<[Run(<<Install("c")>>) EXCEPT !.security = "Full"], Install("b")>>,
          <<[Run(<<Install("c"), [Run(<<Fail>>) EXCEPT !.caught = TRUE], Install("b")>>)
              EXCEPT !.security = "Restricted"], InstallVar("x")>>,
          <<Repo("r1", 50, {})>>,
          <<Use("table"), Use("io"), Install("b")>>,
          <<Copy("io", "table"), Use("io"), Share("io"), Install("b")>>}

Around == {"optional" :> Flag(TRUE), Ignoring, "security" :> Str("Remote")}
Nested ==
  {Repos \o <<SetTo("x", "a"), SetTo("y", "p"), Share("x"), Share("w")>> \o
     <<[Run(body) EXCEPT !.security = l, !.fetched = f, !.caught = c, !.extra = e],
       InstallVar("x"), InstallVar("z")>> :
     body \in Inner, l \in {"", "Remote"}, f \in BOOLEAN, c \in BOOLEAN, e \in Around}

\* Options of the wrong type or value.
Things(type) == [Nil EXCEPT !.type = type]
SomeTable == Table(<<Str("a"), [Table(<<>>) EXCEPT !.tp = "package"]>>)
Mistakes ==
  {<<Promise("a"), f :> v>> :
     f \in {"deps", "order_after", "abi_change", "pre_inst", "reboot"},
     v \in {Str("finished"), Str(""), Flag(TRUE), Things("number"), SomeTable,
            Table(<<Flag(TRUE), Table(<<Str("b"), Str("")>>)>>), Table(<<Things("function")>>)}}
  \cup {<<[Install("a") EXCEPT !.priority = 60], f :> v>> :
     f \in {"condition", "repository", "critical", "unknown"},
     v \in {Str("a"), SomeTable, Table(<<Str("a"), Table(<<Str("b")>>)>>), Table(<<[SomeTable EXCEPT !.tp = "dep-xor"]>>)}}
  \cup {<<s, x>> : s \in {Run(<<Install("p")>>), [Run(<<>>) EXCEPT !.caught = TRUE], Repo("r3", 50, {}),
            Uninstall("b")},
     x \in {"sig" :> Flag(TRUE), "ocsp" :> Str("no"), "verification" :> Str("none"), "verification" :> Str("all"),
            ("verification" :> Str("both")) @@ ("pubkey" :> Table(<<Things("number")>>)),
            "priority" :> Str("high"), "ignore" :> Table(<<>>)}}
Mistaken ==
  {Repos \o <<[Run(<<Install("b"), [m[1] EXCEPT !.extra = m[2]], Install("c")>>) EXCEPT !.caught = TRUE]>> :
     m \in Mistakes}

\* What is relative to what, and how it is verified.
Key(name) == Link(Beside(name))
Verified ==
  {"pubkey" :> Key("k1"), "pubkey" :> Table(<<Key("k2"), Key("k3")>>), "pubkey" :> Link(Remote("k4")),
   "ca" :> Key("ca"), ("ca" :> Table(<<Key("ca"), Key("cb")>>)) @@ ("crl" :> Key("crl")),
   "ca" :> Flag(FALSE), ("ca" :> Table(<<>>)) @@ ("ocsp" :> Flag(FALSE)), "crl" :> Key("crl"),
   ("pubkey" :> Key("k5")) @@ ("sig" :> Key("other.sig"))}
PlacesOf == {Beside("sub.lua"), Ref("", "", FALSE, <<"..", "conf", ".", "sub.lua">>), Remote("sub.lua"),
             Ref("", "", TRUE, <<"sub.lua">>), Ref("gopher", "", FALSE, <<"sub.lua">>)}
Subdirs == "subdirs" :> Table(<<Str("base"), Str("core"), Str("base")>>)

Signer(o) == IF "pubkey" \in DOMAIN o THEN By(Last(Append(wrap(o["pubkey"]), Nil)[1].ref.path)) ELSE By("k1")

Verification ==
  {<<[Run(<<[Repo("r1", 50, {Simple("a")}) EXCEPT !.extra = i @@ x, !.uri = Beside("packages")],
            [Run(<<>>) EXCEPT !.uri = p, !.signature = Signer(o), !.caught = TRUE]>>)
        EXCEPT !.uri = Remote("main.lua"), !.signature = Signer(o), !.extra = o],
     Run(<<[Repo("r2", 50, {}) EXCEPT !.uri = p, !.extra = i]>>)>> :
     o \in Verified, i \in Verified, p \in PlacesOf, x \in {<<>>, Subdirs, "index" :> Key("Index")}}

\* Signatures, with keys that are named here or by the script around.
Signatures == {By("k1"), By("k3"), By("k9"), Signature("Ed", "k1", ""), Signature("", "", ""), Signature("RW", "rsa", "rsa")}
Pubkeys == {<<>>} \cup {"pubkey" :> Table([i \in DOMAIN keys |-> Key(keys[i])]) :
              keys \in {<<"k1">>, <<"k3", "k2">>, <<"k1", "rsa", "k3">>, <<"k8">>, <<"rsa">>, <<>>}}
Signed ==
  {<<[Run(<<[Repo("r1", 50, {Simple("a")}) EXCEPT !.extra = i @@ x, !.signature = s],
            [Run(<<Install("a")>>) EXCEPT !.extra = i, !.signature = s, !.caught = TRUE]>>)
        EXCEPT !.extra = o, !.caught = TRUE, !.signature = t], Install("c")>> :
     o \in Pubkeys, i \in Pubkeys, s \in Signatures, t \in {By("k1"), By("k2")},
     x \in {<<>>, "optional" :> Flag(TRUE)}}

MCConfigs == Nested \cup Mistaken \cup Verification \cup Signed \cup Alternatives \cup Declarations \cup Rivals
               \cup Failures \cup Layouts \cup Order
=============================================================================
