-------------------------- MODULE TransactionProps --------------------------
(***************************************************************************)
(* What a transaction promises, over the states of Transaction.            *)
(***************************************************************************)
EXTENDS Transaction

Stages == {"down", "unpack", "check", "open_changelog", "changelog_start", "move", "moving",
           "control", "preinst", "early", "merge", "gone", "scripts", "changelog_end",
           "close_changelog", "cleanup", "dump", "dumped", "finish", "wipe", "abort",
           "failed", "done", "stuck"}

(* Every variable has its type.                                            *)
TypeOK == /\ JTypeOK
          /\ plan \in Seq(Operation)
          /\ pc \in Stages
          /\ mem \in Memory
          /\ fs \in FileSystem /\ disk \in FileSystem
          /\ clog \in Changelogs
          /\ crashes \in 0..MaxCrashes
          /\ user \subseteq Files /\ ahead \in BOOLEAN
          /\ ran \subseteq Pkgs \X Scripts
          /\ failing \subseteq Pkgs \X Scripts

-----------------------------------------------------------------------------
\* The types of the records stored whole in the journal.
Journaled == {acked[k].type : k \in DOMAIN acked}

\* The files of p's new version, as they are in its package, are in place,
\* configurations the user has modified being kept with the new version beside them.
InPlace(p) == \A f \in NewFiles[p] :
                \/ fs.root[f] = "new"
                \/ f \in Confs /\ f \in user /\ f \in fs.opkg

\* Configurations with a hash, in the status file or in the package to be
\* installed.
Guarded == InstalledConfs \cup UNION {Confs \cap NewFiles[p] : p \in ToInstall \ Installed}

\* A configuration of packages that are upgraded, to versions without it.
Dropped(f) == /\ \A p \in Installed : f \in OldFiles[p] => p \in ToInstall
              /\ \A p \in ToInstall : f \notin NewFiles[p]

(* A package the status file lists in its new version has all its files in *)
(* place, whenever the updater was interrupted: status_dump comes after    *)
(* the merge, and the merge was synced before it was journaled.  When the  *)
(* transaction is done, the file, written and read again, tells what was   *)
(* installed and removed, and has the hashes of modified configurations    *)
(* that stay, without which a later installation would overwrite them; the *)
(* hash of one that an upgrade drops goes with the old version, although   *)
(* the file stays (transaction.lua 207).                                   *)
StatusTruth ==
  /\ \A p \in Pkgs : fs.db[p] = "new" => InPlace(p)
  /\ pc = "done" =>
       /\ \A p \in Pkgs : CASE p \in ToInstall -> fs.db[p] = "new"
                          [] p \in ToRemove \ ToInstall -> fs.db[p] \in {"none", "config"}
                          [] OTHER -> fs.db[p] = IF p \in Installed THEN "old" ELSE "none"
       /\ \A f \in user \cap Guarded : fs.root[f] = "user" => f \in fs.hashes \/ Dropped(f)

(* While the status file still tells the old state and root is not in it   *)
(* any more, a journal is there for the next start to finish the work.     *)
OldInPlace == \A p \in Pkgs : fs.db[p] = "old" =>
                \A f \in OldFiles[p] : fs.root[f] \in {"old", "user"}
JournalCovers == pc # "failed" /\ ~exists => OldInPlace

\* A file of a package to be removed, in the way of one that stands before it
\* in the plan.
Exposed(f) == \E n, m \in DOMAIN plan :
                /\ n < m /\ plan[m].op = "remove" /\ f \in OldFiles[plan[m].pkg]
                /\ \E g \in NewOf(plan[n].pkg) : <<f, g>> \in Blocks

(* A configuration file the user has modified is never lost if its hash is *)
(* known: it stays, or it is in opkg_collided_dir because something had to *)
(* be put in its way.  The exception is what early removal deletes before  *)
(* all_configs has the configurations of the package it belongs to.        *)
UserConfigKept == \A f \in user \cap Guarded :
                    fs.root[f] = "user" \/ f \in fs.backup \/ Exposed(f)

(* The status file is rewritten only when the merge and the scripts are in *)
(* the journal: nobody sees a package as installed before that.            *)
StatusAfterScripts == [][fs'.db # fs.db /\ crashes' = crashes
                           => {"MOVED", "SCRIPTS"} \subseteq Journaled]_vars

\* The changelog tells of the start, every operation, every failed script once, and the end.
Told == SubSeq(clog.lines, 2, Len(clog.lines) - 1)
Failures == LET failed == SelectSeq(Told, LAMBDA l : l[1] = "SCRIPT")
            IN [n \in DOMAIN failed |-> <<failed[n][2], failed[n][3]>>]
Performed == SelectSeq(plan, LAMBDA o : o.op = "install" \/ o.pkg \in Installed)
TellsAll == /\ Head(clog.lines) = <<"START">> /\ Last(clog.lines) = <<"END">>
            /\ SelectSeq(Told, LAMBDA l : l[1] # "SCRIPT")
                 = [n \in DOMAIN Performed |-> <<"PKG", Performed[n].pkg>>]
            /\ IsInjective(Failures) /\ ToSet(Failures) = failing
            /\ clog.synced = Len(clog.lines)

(* The changelog of a transaction that did not go on from a journal with   *)
(* CHANGELOG_START in it tells all of it, and nothing of an attempt before *)
(* a crash, unless the file could not be opened (changelog_open).          *)
ChangelogTold == pc = "done" /\ ~Have("CHANGELOG_START") /\ clog.lines # <<>> => TellsAll

(* The same for all transactions.                                          *)
ChangelogAlwaysTold == pc = "done" /\ clog.lines # <<>> => TellsAll

(* The links of alternatives lead to the best of what is installed, and    *)
(* there is none where nobody offers anything, over installations and      *)
(* removals in any order and over crashes (choose_alternative, backend.lua *)
(* 935-956).  Left out are links of a package upgraded to a version that   *)
(* offers less: nobody looks at what the old version offered.              *)
Demoted(l) == \E p \in ToInstall \cap Installed :
                \E alt \in Offers(OldAlternatives, p, l) :
                  \A new \in Offers(NewAlternatives, p, l) : new.priority < alt.priority
LinksBest(l) == fs.links[l] \in choose_alternative(Offered(fs.db, fs.info), l, {})
AlternativesBest == pc = "done" => \A l \in LinkPaths : LinksBest(l) \/ Demoted(l)

(* The same for all links.                                                 *)
AlternativesAlwaysBest == pc = "done" => \A l \in LinkPaths : LinksBest(l)

(* A post-install or post-remove script runs with the files of all the     *)
(* packages to be installed in place and all others of the plan gone.      *)
Settled == /\ \A p \in ToInstall : InPlace(p)
           /\ \A f \in Files : fs.root[f] = "old" =>
                \E p \in Pkgs : fs.db[p] = "old" /\ p \notin ToRemove /\ f \in OldFiles[p]
PostScriptsSettled == [][\A p \in Pkgs, s \in {"postinst", "postrm"} :
                           <<p, s>> \in ran' \ ran => Settled]_vars

(* When the transaction is over every script was run that has to be, and   *)
(* the failures of their last runs, and only those, are reported, though   *)
(* crashes come between the runs and the report.                           *)
ScriptsReported ==
  pc = "done" => /\ \A p \in ToInstall : {<<p, "preinst">>, <<p, "postinst">>} \subseteq ran
                 /\ \A p \in (ToRemove \ ToInstall) \cap Installed :
                      {<<p, "prerm">>, <<p, "postrm">>} \subseteq ran
                 /\ mem.errs = failing

(* No unpacked directory is left when the transaction is done, however     *)
(* often it was interrupted.                                               *)
NoLeftovers == pc = "done" => fs.sub = {}

\* Two packages own a file, or a file and a directory at one path, once the plan is carried out.
OwnersAfter(f) == {p \in ToInstall : f \in NewFiles[p]}
                  \cup {p \in Installed \ ToRemove : f \in OldFiles[p]}
Colliding == \E f, g \in Files :
               \/ f = g /\ Cardinality(OwnersAfter(f)) > 1
               \/ <<f, g>> \in Blocks /\ OwnersAfter(f) # {} /\ OwnersAfter(g) # {}

\* Root, control files, links and the status file are those the transaction began with.
AsBefore(F) ==
  /\ \A f \in Files : F.root[f] = IF f \in user THEN "user"
                                  ELSE IF \E p \in Installed : f \in OldFiles[p] THEN "old" ELSE "none"
  /\ \A p \in Pkgs : {F.info[p], F.db[p]} = {IF p \in Installed THEN "old" ELSE "none"}
  /\ \A l \in LinkPaths : F.links[l] \in choose_alternative(Offered(F.db, F.info), l, {})
  /\ F.opkg = {} /\ F.backup = {} /\ F.hashes = InstalledConfs

(* A plan whose packages collide leaves "the system as it was"             *)
(* (transaction.lua 321): however often a crash comes between the unpacked *)
(* packages, the check and the removal of directories and journal, the     *)
(* transaction that is resumed is refused again, with what is left of      *)
(* them, and nothing is left when it is over.  An error while packages are *)
(* unpacked does leave directories: dir_cleanups is a result of the step.  *)
RefusedUntouched ==
  Colliding => /\ AsBefore(fs) /\ pc # "done"
               /\ pc = "failed" /\ mem.dirs # {} => fs.sub = {} /\ ~exists

(* pkg_merge_files takes a missing data directory for a package that has   *)
(* been merged already: it has been.                                       *)
SkippedIsMerged ==
  pc = "merge" /\ mem.todo = {} /\ <<Oper.pkg, "data">> \notin fs.sub => InPlace(Oper.pkg)

(* The assertion of recover holds: no record type is in the journal twice. *)
RecoverAssertion == pc # "stuck"

(* What the user has changed in the files of a package being upgraded is   *)
(* kept, whether or not the file is in the new version.                    *)
UserChangesKept == \A f \in user, p \in ToInstall \cap Installed :
                     f \in OldFiles[p] => fs.root[f] = "user" \/ f \in fs.backup

\* A file of p is in the way of a package before p in the plan, or of p itself:
\* early removal and the merge come to it before p's changed files are copied.
Overtaken(f, p) == \E n, m \in DOMAIN plan :
                     /\ plan[m].op = "install" /\ plan[m].pkg = p
                     /\ \/ n < m /\ f \in NewOf(plan[n].pkg)
                        \/ n <= m /\ \E g \in NewOf(plan[n].pkg) : <<f, g>> \in Blocks

(* They are kept over crashes too, as long as no crash leaves control      *)
(* files that are newer than the status file: the list of what has changed *)
(* is made by every process anew (status_parse, backend.lua 377).  Lost is *)
(* only what is overtaken: pkg_move goes from package to package, and each *)
(* copies its own changed files (transaction.lua 204).                     *)
ChangesKept == ~ahead => \A f \in user, p \in ToInstall \cap Installed :
                 f \in OldFiles[p] => fs.root[f] = "user" \/ f \in fs.backup \/ Overtaken(f, p)

\* The record FINISH is in the journal twice: a crash came between it and the removal of the
\* journal, the transaction was resumed and finished, and another crash came at the same place.
FinishedTwice == \E n, m \in DOMAIN file : n # m /\ {file[n].rec, file[m].rec} = {Finish}

(* When crashes stop the transaction ends, done or given up, whichever     *)
(* steps were interrupted and run again.  It does not if the last of       *)
(* several crashes leave FINISH in the journal twice: each start of the    *)
(* updater then fails in recover (transaction.lua 382).                    *)
TransactionEnds == <>(pc \in {"done", "failed"}) \/ <>[]FinishedTwice
=============================================================================
