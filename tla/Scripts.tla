------------------------------ MODULE Scripts ------------------------------
(***************************************************************************)
(* The scripts of the configuration: src/lib/lua/sandbox.lua and the       *)
(* command Script of requests.lua, with the checks of options that all     *)
(* commands have.                                                          *)
(*                                                                         *)
(* A script is a sequence of commands, run in a context of its own: with a *)
(* level that is not above the one of the script that runs it, an          *)
(* environment that has a copy of those of its variables that are          *)
(* exported, and its URI, which others are relative to.  An error ends all *)
(* scripts up to the one that called Script with pcall; what they noted    *)
(* before stays.                                                           *)
(***************************************************************************)
EXTENDS Integers, Uris

CONSTANT Configs  \* the scripts the updater may be started with

VARIABLES
  configuration,  \* the one it was started with
  contexts,       \* those of the scripts being run, the innermost first
  stage,          \* "config" as long as scripts are run
  asked           \* history: what was asked for, and how it is verified

script_vars == <<configuration, contexts, asked>>

Levels == <<"Restricted", "Remote", "Local", "Full">>
Rank(level) == CHOOSE i \in DOMAIN Levels : Levels[i] = level

\* Of the functions of a level, some that are not in the one below it.
Provided == <<{"Package", "Install", "table"}, {}, {"io"}, {"run_command"}>>
funcs(level) == UNION {Provided[i] : i \in 1..Rank(level)}

(* The value of a variable that is not set is nil: it is not in env.       *)
Context(body, level, exported, inherited, parent_script_uri, caught) ==
  [rest |-> body, level |-> level, exported |-> exported, env |-> [f \in funcs(level) |-> f] @@ inherited,
   uri |-> parent_script_uri, caught |-> caught]

\* Fault: all variables are inherited.
InheritedAll(parent, s, u) ==
  Context(s.content, IF s.security = "" THEN parent.level ELSE s.security, parent.exported,
          parent.env, u, s.caught)

\* sandbox.new: what a context gets from its parent.
Inherited(parent, s, u) ==
  Context(s.content, IF s.security = "" THEN parent.level ELSE s.security, parent.exported,
          [v \in DOMAIN parent.env \cap parent.exported |-> parent.env[v]], u, s.caught)

\* updater.required_pkgs: the script from the command line.
Entry == uri(Ref("file", "", TRUE, <<"etc", "updater", "conf.lua">>), NoUri)

SInit == /\ configuration \in Configs
         /\ contexts = <<Context(configuration, "Full", {}, <<>>, Entry, FALSE)>>
         /\ stage = "config"
         /\ asked = <<Requested(Entry)>>

Current == Head(contexts)
Statement == Head(Current.rest)
Advanced == [contexts EXCEPT ![1].rest = Tail(@)]
At(cmd) == stage = "config" /\ Current.rest # <<>> /\ Statement.cmd = cmd

-----------------------------------------------------------------------------
(* The options of commands, and the types they may have.                   *)
OneOrMore == {"string", "table"}
Hook == {"table", "function"}
allowed_extras_verification ==
  [sig |-> {"string"}, pubkey |-> OneOrMore, ca |-> OneOrMore \cup {"boolean"},
   crl |-> OneOrMore \cup {"boolean"}, ocsp |-> {"boolean"}, verification |-> {"string"}]

allowed_extras ==
  [package |-> allowed_extras_verification @@
     [virtual |-> {"boolean"}, deps |-> OneOrMore, order_after |-> OneOrMore, order_before |-> OneOrMore,
      pre_inst |-> Hook, post_inst |-> Hook, pre_rm |-> Hook, post_rm |-> Hook, reboot |-> {"string"},
      replan |-> {"boolean", "string"}, abi_change |-> {"table", "boolean"},
      abi_change_deep |-> {"table", "boolean"}, priority |-> {"number"}, ignore |-> {"table"}],
   repository |-> allowed_extras_verification @@
     [index |-> {"string"}, priority |-> {"number"}, optional |-> {"boolean"},
      pkg_hash_required |-> {"boolean"}, subdirs |-> {"table"}, ignore |-> {"table"}],
   script |-> allowed_extras_verification @@
     [security |-> {"string"}, optional |-> {"boolean"}, restrict |-> {"string"}, ignore |-> {"table"}],
   install |->
     [priority |-> {"number"}, repository |-> OneOrMore, reinstall |-> {"boolean"}, critical |-> {"boolean"},
      optional |-> {"boolean"}, condition |-> OneOrMore, version |-> {"string"}, ignore |-> {"table"}],
   uninstall |-> [priority |-> {"number"}, condition |-> OneOrMore]]

\* extra_check_package_type
NoPackage(v) == v.type # "string" /\ ~(v.type = "table" /\ v.tp = "package")

RECURSIVE extra_check_deps(_)
\* The arguments of an operator are not looked at.
extra_check_deps(d) ==
  CASE d.type = "table" /\ d.tp # "" -> d.tp \in {"dep-and", "dep-or", "dep-not", "package"}
    [] d.type = "table" /\ d.tp = "" -> \A i \in DOMAIN d.items : extra_check_deps(d.items[i])
    [] OTHER -> d.type = "string" /\ d.text # ""

\* Entries of tables, for the options that look at them.  Keys and certificates are looked at
\* here with the obsolete option verification only.
WrongEntry(s, f, v) ==
  CASE f \in {"order_after", "order_before"} -> NoPackage(v)
    [] f \in {"pre_inst", "post_inst", "pre_rm", "post_rm"} -> v.type # "function"
    [] f = "abi_change" -> v.type # "boolean" /\ NoPackage(v)
    [] f = "repository" -> v.type # "string"
    [] f \in {"pubkey", "ca", "crl"} -> "verification" \in DOMAIN s.extra /\ v.type # "string"
    [] OTHER -> FALSE

WrongValue(f, v) ==
  CASE f = "verification" -> v.text \notin {"none", "cert", "sig", "both"}
    [] f = "reboot" -> v.text \notin {"immediate", "delayed", "finished"}
    [] f \in {"deps", "condition"} -> ~extra_check_deps(v)
    [] OTHER -> FALSE

\* Unknown options are dropped.
Rejected(s) ==
  \E f \in DOMAIN s.extra \cap DOMAIN allowed_extras[s.cmd] :
    LET v == s.extra[f]
    IN \/ v.type \notin allowed_extras[s.cmd][f]
       \/ WrongValue(f, v)
       \/ \E i \in DOMAIN v.items : WrongEntry(s, f, v.items[i])

\* extra_annul_ignore: "ignore" makes optional what does not say whether it is.
Optional(s) == IF "optional" \in DOMAIN s.extra THEN s.extra["optional"].on
               ELSE "ignore" \in DOMAIN s.extra /\ s.extra["ignore"].items # <<>>

-----------------------------------------------------------------------------
Proceed(cs, requested) == /\ contexts' = cs
                          /\ asked' = asked \o requested
                          /\ UNCHANGED <<configuration, stage>>
Continue(cs) == Proceed(cs, <<>>)

\* An error ends scripts up to one that was called with pcall.
RaiseAfter(cs, requested) ==
  LET caught == {i \in DOMAIN cs : cs[i].caught}
  IN /\ contexts' = IF caught = {} THEN <<>>
                    ELSE SubSeq(cs, 1 + (CHOOSE i \in caught : \A k \in caught : i <= k), Len(cs))
     /\ stage' = IF caught = {} THEN "failed" ELSE stage
     /\ asked' = asked \o requested
     /\ UNCHANGED configuration
Raise(cs) == RaiseAfter(cs, <<>>)

\* An error of Script itself: pcall catches it in the script that calls.
ScriptRaise(requested) == IF Statement.caught THEN Proceed(Advanced, requested)
                          ELSE RaiseAfter(Advanced, requested)

\* requests.script.  The level is looked at when the script is there.
MayRun(s) == s.security \in {""} \cup {Levels[i] : i \in 1..Rank(Current.level)}

Fits(s) == ~Rejected(s) /\ ~Unusable(s.uri, Current.uri, s.extra)
Fetched(s) == uri_config(uri(s.uri, Current.uri), s.extra)
Content(s) == s.fetched /\ verify_signature(Fetched(s), s.signature)

Script == /\ At("script") /\ Fits(Statement) /\ Content(Statement) /\ MayRun(Statement)
          /\ Proceed(<<Inherited(Current, Statement, Fetched(Statement))>> \o Advanced,
                     <<Requested(Fetched(Statement))>>)

ScriptRejected == /\ At("script") /\ Rejected(Statement)
                  /\ ScriptRaise(<<>>)

ScriptRefused == /\ At("script") /\ Fits(Statement) /\ Content(Statement) /\ ~MayRun(Statement)
                 /\ ScriptRaise(<<Requested(Fetched(Statement))>>)

\* Errors of utils.uri_content, of the signature too.
ScriptFetch == /\ At("script") /\ ~Rejected(Statement)
               /\ Fits(Statement) => ~Content(Statement)
               /\ LET requested == IF Fits(Statement) THEN <<Requested(Fetched(Statement))>> ELSE <<>>
                  IN IF Optional(Statement) THEN Proceed(Advanced, requested) ELSE ScriptRaise(requested)

ScriptEnd == /\ stage = "config" /\ Current.rest = <<>> /\ Len(contexts) > 1
             /\ Continue(Tail(contexts))

Set == /\ At("set")
       /\ Continue([Advanced EXCEPT ![1].env = (Statement.var :> Statement.value) @@ @])

\* A variable gets the value of another one, which may be nil.
Assign == /\ At("assign")
          /\ Continue([Advanced EXCEPT ![1].env =
               IF Statement.value \in DOMAIN @ THEN (Statement.var :> @[Statement.value]) @@ @
               ELSE [v \in DOMAIN @ \ {Statement.var} |-> @[v]]])

Call == /\ At("call")
        /\ IF Statement.var \in DOMAIN Current.env /\ Current.env[Statement.var] \in funcs("Full")
           THEN Continue(Advanced) ELSE Raise(Advanced)

Export == /\ At("export")
          /\ IF Statement.var \in funcs("Full") THEN Raise(Advanced)
             ELSE Continue([Advanced EXCEPT ![1].exported = @ \cup {Statement.var}])

Unexport == /\ At("unexport")
            /\ Continue([Advanced EXCEPT ![1].exported = @ \ {Statement.var}])

Error == At("error") /\ Raise(Advanced)

ConfigEnded == stage = "config" /\ Len(contexts) = 1 /\ Current.rest = <<>>

SNext == \/ Script \/ ScriptRejected \/ ScriptRefused \/ ScriptFetch \/ ScriptEnd
         \/ Set \/ Assign \/ Call \/ Export \/ Unexport \/ Error
=============================================================================
