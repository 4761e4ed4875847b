------------------------------ MODULE MCDriver ------------------------------
(***************************************************************************)
(* base, the updater itself, an application and a tool that depend on      *)
(* them; three packages that nobody asks for any more: one that the old    *)
(* version of the application used, and two that need each other, one of   *)
(* them the application as well.                                           *)
(***************************************************************************)
EXTENDS Driver, TLC

CONSTANTS base, self, app, tool, gone, lib, ext

MCPkgs == {base, self, app, tool, gone, lib, ext}
MCWanted == <<base, self, app, tool>>
MCDepends == (base :> {}) @@ (self :> {base}) @@ (app :> {self}) @@ (tool :> {base})
               @@ (gone :> {app, ext}) @@ (lib :> {}) @@ (ext :> {gone, lib})
MCOldDepends == [MCDepends EXCEPT ![app] = {self, lib}]

MCTouched == {app, gone}

All(x) == [p \in MCPkgs |-> x]

Initials == {All("old"), [All("old") EXCEPT ![app] = "new"],
             [All("new") EXCEPT ![base] = "old", ![gone] = "none"],
             [All("none") EXCEPT ![gone] = "old"]}
TwoOld == [All("new") EXCEPT ![base] = "old", ![self] = "old"]
Reboots == {All("none"), [All("none") EXCEPT ![base] = "finished", ![app] = "delayed"],
            [All("delayed") EXCEPT ![self] = "finished"]}
Replans == {All("none"), [All("none") EXCEPT ![self] = "immediate"],
            [All("finished") EXCEPT ![base] = "immediate"]}
Abi(change, deep) == [change |-> change, deep |-> deep]
Set(p, names) == [All({}) EXCEPT ![p] = names]
Whole == {"dependents"}
NoAbi == Abi(All({}), All({}))
Abis == {NoAbi, Abi([All(Whole) EXCEPT ![self] = {}], All({})), Abi(All({}), Set(base, Whole))}

\* Named packages, two changes at once, and a change that comes back to itself.
NamedAbis == {Abi(Set(tool, {app}), Set(base, {self})),
              Abi([Set(base, {tool, lib}) EXCEPT ![self] = Whole], All({})),
              Abi(Set(app, {base}), Set(base, Whole))}

\* At the terminal; in batch mode with --no-replan; with approvals; with approvals and a
\* configuration that forbids removals; with --reinstall-all.
MCModes == {[batch |-> FALSE, approval |-> FALSE, no_replan |-> FALSE, options |-> {}, mode |-> {}],
            [batch |-> TRUE, approval |-> FALSE, no_replan |-> TRUE, options |-> {}, mode |-> {}],
            [batch |-> TRUE, approval |-> TRUE, no_replan |-> FALSE, options |-> {}, mode |-> {}]}
Special == {[batch |-> TRUE, approval |-> TRUE, no_replan |-> FALSE, options |-> {},
             mode |-> {"no_removal"}],
            [batch |-> TRUE, approval |-> FALSE, no_replan |-> FALSE, options |-> {"reinstall_all"},
             mode |-> {}]}

Configured(m, i, p, r, a, again) ==
  [initial |-> i, replan |-> p, reboot |-> r, abi_change |-> a.change,
   abi_change_deep |-> a.deep, reinstall |-> again,
   batch |-> m.batch, approval |-> m.approval, no_replan |-> m.no_replan,
   options |-> m.options, mode |-> m.mode, long |-> FALSE]

\* In batch mode, with approvals of a report that is written in pieces.
Asked == {[Configured([batch |-> TRUE, approval |-> TRUE, no_replan |-> FALSE, options |-> {},
                       mode |-> {}], All("old"), All("none"), All("none"), NoAbi, {})
             EXCEPT !.long = TRUE]}

MCConfs ==
  {Configured(m, i, p, r, NoAbi, {}) :
     m \in MCModes, i \in Initials, p \in Replans, r \in Reboots}
    \cup {Configured(m, i, p, All("none"), a, {}) :
            m \in MCModes, i \in Initials, p \in Replans, a \in Abis}
    \cup {Configured(m, i, p, All("none"), NoAbi, {}) :
            m \in Special, i \in Initials, p \in Replans}
    \cup {Configured(m, i, p, All("none"), a, {}) :
            m \in MCModes, i \in {All("old"), TwoOld},
            p \in {All("none"), [All("none") EXCEPT ![self] = "immediate"]}, a \in NamedAbis}
    \cup Asked

\* Install("self", { reinstall = true }), with the modifier replan.
Reinstalled == {Configured([batch |-> TRUE, approval |-> FALSE, no_replan |-> FALSE,
                            options |-> {}, mode |-> {}], All("old"),
                           [All("none") EXCEPT ![self] = "finished"], All("none"), NoAbi, {self})}

WithReinstalled == MCConfs \cup Reinstalled
=============================================================================
