--------------------------- MODULE MCTransaction ---------------------------
(***************************************************************************)
(* Small systems for Transaction: a and b are installed, c is not.  An     *)
(* upgrade of a keeps the configuration k and the file x, drops y and adds *)
(* z, which needs b's file w out of the way.  The version of b that could  *)
(* be installed collides with a in x and drops w.  The one of c has y,     *)
(* too, which it takes over if it comes before a in the plan.  w and v are *)
(* configuration files of b and c.  All have alternatives for one path, a  *)
(* and c for another one too.                                              *)
(***************************************************************************)
EXTENDS TransactionProps, TLC

CONSTANTS a, b, c, k, x, y, z, w, v, l, m, none, norec

Install(p) == [op |-> "install", pkg |-> p, files |-> {}]
Uninstall(p) == [op |-> "remove", pkg |-> p, files |-> {}]

MCPkgs == {a, b, c}
MCFiles == {k, x, y, z, w, v}
MCConfs == {k, v, w}
MCInstalled == {a, b}
MCOldFiles == a :> {k, x, y} @@ b :> {w} @@ c :> {}
MCNewFiles == a :> {k, x, z} @@ b :> {x} @@ c :> {v, y}
MCBlocks == {<<w, z>>}

Alt(path, priority) == [path |-> path, priority |-> priority]
MCOldAlternatives == a :> {Alt(l, 1), Alt(m, 1)} @@ b :> {Alt(l, 2)} @@ c :> {}
MCNewAlternatives == a :> {Alt(l, 1), Alt(m, 1)} @@ b :> {} @@ c :> {Alt(l, 2), Alt(m, 3)}
MCFewAlternatives == [p \in {a, b, c} |-> {}]
MCLinkPaths == {l, m}
MCLibArchive == {"warn", "failed", "fatal"}
MCNone == {}

UpgradeRemove == <<Install(a), Uninstall(b)>>
RemoveInstall == <<Uninstall(a), Install(c)>>
CollidingPlan == <<Install(a), Install(b)>>
Reinstall == <<Uninstall(b), Install(a), Uninstall(c)>>
Overtake == <<Install(c), Install(a), Uninstall(b)>>
Swap == <<Uninstall(a), Install(b)>>

MCPlans == {UpgradeRemove, RemoveInstall, CollidingPlan, Reinstall, Overtake, Swap}
MCOnePlan == {UpgradeRemove}
MCTwoPlans == {UpgradeRemove, RemoveInstall}
MCUserFiles == {{}, {k, v}, {k, w, x, y}}
MCUserConf == {{k, v}}
MCUserDropped == {{y}}
MCNoUser == {{}}
MCFewFail == {<<a, "preinst">>, <<c, "postinst">>}
MCFail == {<<a, "preinst">>, <<b, "postrm">>, <<c, "postinst">>}
MCNoFail == {}

\* A smaller system: b is replaced by c.
MCSmallPkgs == {b, c}
MCSmallFiles == {v, w, y}
MCSmallInstalled == {b}
MCSmallNew == b :> {} @@ c :> {v, y}
MCSmallPlan == {<<Uninstall(b), Install(c)>>}
MCSmallUser == {{v}, {w}}
MCSmallFail == {<<c, "postinst">>}
=============================================================================
