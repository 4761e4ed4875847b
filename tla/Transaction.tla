---------------------------- MODULE Transaction ----------------------------
(***************************************************************************)
(* A transaction: src/lib/lua/transaction.lua on top of the journal, with  *)
(* what src/lib/lua/backend.lua does to the file system in its steps.      *)
(*                                                                         *)
(* The transaction is a fixed series of steps.  Each runs, is synced if    *)
(* its results must be on the disk first, and is then written to the       *)
(* journal with its results.  After a crash the steps in the journal are   *)
(* not run again, their results are taken from it; the first step that is  *)
(* not there is run from its beginning, whatever it did before the crash.  *)
(***************************************************************************)
EXTENDS Integers, Sequences, FiniteSets

CONSTANTS
  Pkgs, Files,
  Confs,        \* the configuration files among Files
  Installed,    \* packages installed before the transaction
  OldFiles,     \* [Pkgs -> SUBSET Files]: of the installed version
  NewFiles,     \* [Pkgs -> SUBSET Files]: in the package to be installed
  Blocks,       \* <<f, g>>: f must go before g can be created (one is a
                \* directory on the path of the other)
  Plans,        \* the sequences of operations to be considered
  UserFiles,    \* the sets of files the user may have modified
  FailScripts,  \* the maintainer scripts <<package, script>> that may fail
  OldAlternatives, NewAlternatives, LinkPaths, NoLink,  \* see Alternatives
  UnpackMayFail, ChangelogMayFail, MoveMayError, MvMayFail,  \* which failures happen
  LibArchive,   \* see Archive
  MaxCrashes,   \* bound of the number of crashes
  NoParams, NoRecord, RecordSize, MaxFrames  \* see Journal

VARIABLES
  exists, file, fd, op, rec, written, acked,  \* the journal
  plan,     \* the operations; in the journal once unpacked
  pc,       \* the stage perform_internal is in
  mem,      \* its local variables, see Memory
  fs,       \* the file system, see FileSystem
  disk,     \* what of it survives a loss of power: its state at the last sync
  clog,     \* the changelog, see Changelog
  crashes,
  ahead,    \* history: a crash left control files newer than the status file
  user,     \* history: the files modified by the user
  ran,      \* history: <<package, script>> that have run
  failing   \* history: those whose last run failed

journal == <<exists, file, fd, op, rec, written, acked>>
env == <<plan, crashes, user, ahead>>
hist == <<ran, failing>>
vars == <<journal, plan, pc, mem, fs, disk, clog, crashes, user, ahead, ran, failing>>

PkgState == {"none", "old", "new", "config"}  \* config: not-installed, modified configs kept
Scripts == {"preinst", "postinst", "prerm", "postrm"}
\* files: what is in the unpacked package.
Operation == [op : {"install", "remove"}, pkg : Pkgs, files : SUBSET Files]

ASSUME PlansAssumption == \A p \in Plans : p \in Seq(Operation)
ASSUME ScriptsAssumption == FailScripts \subseteq Pkgs \X Scripts
ASSUME SetsAssumption == /\ IsFiniteSet(Pkgs) /\ Installed \subseteq Pkgs
                         /\ \A p \in Installed : OldFiles[p] \subseteq Files
                         /\ \A p \in Pkgs : NewFiles[p] \subseteq Files
                         /\ \A files \in UserFiles : files \subseteq Files
\* All that is installed is on one disk.
ASSUME BlocksAssumption == \A p, q \in Installed : \A f \in OldFiles[p], g \in OldFiles[q] :
                             <<f, g>> \notin Blocks

Removal == [early : [Pkgs -> SUBSET Files], gone : SUBSET Files]
Outcome == [status : [Pkgs -> PkgState], errs : SUBSET (Pkgs \X Scripts)]

INSTANCE Journal WITH Params <- {NoParams} \cup Removal \cup Outcome

ASSUME JournalAssumption ==
  RecordSize \in Nat \ {0} /\ MaxFrames \in Nat /\ NoRecord \notin Records

INSTANCE Changelog
INSTANCE Archive
INSTANCE Alternatives
Text == INSTANCE ControlText

\* Control files are finite, and no package is called like a link that is not there.
ASSUME AlternativesAssumption ==
  /\ NoLink \notin Pkgs
  /\ \A p \in Pkgs : OldAlternatives[p] \cup NewAlternatives[p] \subseteq Alternative
  /\ IsFiniteSet(UNION {OldAlternatives[p] \cup NewAlternatives[p] : p \in Pkgs})

FileSystem ==
  [root   : [Files -> {"none", "old", "user", "new", "torn"}],  \* what is at the path
   opkg   : SUBSET Files,      \* new version put aside as <path>-opkg
   backup : SUBSET Files,      \* user's version is in opkg_collided_dir
   info   : [Pkgs -> {"none", "old", "new"}],  \* control files in info_dir
   sub    : SUBSET (Pkgs \X {"data", "control"}),  \* unpacked directories
   data   : [Pkgs -> SUBSET Files],  \* files left in the data directory
   torn   : [Pkgs -> SUBSET Files],  \* those of them that are not whole
   links  : Links,             \* of alternatives
   db     : [Pkgs -> PkgState],      \* the status file
   hashes : SUBSET Files]            \* configuration files with a hash in it

Memory ==
  [i       : Nat \ {0},               \* the operation a loop over the plan is at
   todo    : SUBSET Files,            \* files a loop has still to visit
   status  : [Pkgs -> PkgState],      \* run_state.status
   control : [Pkgs -> {"none", "old", "new"}],  \* control files status_parse has read
   changed : [Pkgs -> SUBSET Files],  \* ChangedFiles of status_parse
   removal : Removal,                 \* early_remove
   configs : SUBSET Files,            \* all_configs
   errs    : SUBSET (Pkgs \X Scripts),  \* errors_collected
   dirs    : SUBSET Pkgs,             \* dir_cleanups
   replay  : SUBSET Records]          \* journal_status, as recover has read it

ToInstall == {plan[n].pkg : n \in {m \in DOMAIN plan : plan[m].op = "install"}}
ToRemove == {plan[n].pkg : n \in DOMAIN plan}

\* op.files
NewOf(p) == UNION {plan[n].files : n \in {m \in DOMAIN plan : plan[m].pkg = p}}

-----------------------------------------------------------------------------
\* The files a package owns according to its .list in info_dir.
Listed(p) == IF fs.info[p] = "old" THEN OldFiles[p]
             ELSE IF fs.info[p] = "new" THEN NewOf(p) ELSE {}

\* get_changed_files: not as in the files-md5sum that is in info_dir now.
ChangedFilesOf(p) == {f \in Listed(p) \ Confs : fs.root[f] \notin {"none", fs.info[p]}}

\* run_state: the status file and, for the changed files, the file system.
FreshMemory == [i |-> 1, todo |-> {},
                status |-> fs.db,
                control |-> fs.info,
                changed |-> [p \in Pkgs |-> ChangedFilesOf(p)],
                removal |-> [early |-> [p \in Pkgs |-> {}], gone |-> {}],
                configs |-> {}, errs |-> {}, dirs |-> {}, replay |-> {}]

\* installed_confs: the configuration files with a hash in the status file.
InstalledConfs == {f \in Confs : \E p \in Installed : f \in OldFiles[p]}

\* old_configs of the operation on p, with those stolen from others.  A
\* package that is not installed counts with its own configuration.
OldConfigs(p) == (Confs \cap OldFiles[p]) \cup (InstalledConfs \cap NewOf(p))
                 \cup (IF p \in Installed THEN {} ELSE Confs \cap NewOf(p))

\* config_modified: the hash is of the installed version, if there is one.
Modified(f) == fs.root[f] \notin {"none"} \cup (IF f \in InstalledConfs THEN {"old"}
                                               ELSE {"new", "torn"})

\* collision_check: who owns f now, and who does after the transaction.
OldOwners(f) == {p \in Pkgs : mem.status[p] = "old" /\ f \in Listed(p)}
NewOwners(f) == {p \in ToInstall : f \in NewOf(p)} \cup (OldOwners(f) \ ToRemove)

\* Two owners of a file, or a file and a directory at one path.
Collision == \/ \E f \in Files : Cardinality(NewOwners(f)) > 1
             \/ \E f, g \in Files : /\ <<f, g>> \in Blocks
                                    /\ NewOwners(f) # {} /\ NewOwners(g) # {}

\* What must go before a package is merged, and what at the end.
Disappearing == {f \in Files : OldOwners(f) # {} /\ NewOwners(f) = {}}
BlockedBy(f) == {g \in Files : <<f, g>> \in Blocks /\ NewOwners(g) # {}}
CheckResult == [early |-> [p \in Pkgs |-> {f \in Disappearing :
                                             \E g \in BlockedBy(f) : p \in NewOwners(g)}],
                gone |-> {f \in Disappearing : BlockedBy(f) = {}}]

\* The field Alternatives of the packages in the status, which is in the control files only.
Offered(status, control) ==
  [p \in Pkgs |-> LET read == IF status[p] = "old" THEN control[p] ELSE status[p]
                  IN CASE read = "old" -> OldAlternatives[p]
                       [] read = "new" -> NewAlternatives[p]
                       [] OTHER -> {}]

-----------------------------------------------------------------------------
Init == /\ JInit
        /\ plan \in Plans
        /\ user \in UserFiles
        /\ \E links \in Links :
           /\ \A l \in LinkPaths :
                links[l] \in choose_alternative([p \in Pkgs |-> IF p \in Installed
                                                              THEN OldAlternatives[p] ELSE {}], l, {})
           /\ fs =
                [root |-> [f \in Files |-> IF f \in user THEN "user"
                                           ELSE IF \E p \in Installed : f \in OldFiles[p]
                                                THEN "old" ELSE "none"],
                 opkg |-> {}, backup |-> {},
                 info |-> [p \in Pkgs |-> IF p \in Installed THEN "old" ELSE "none"],
                 sub |-> {},
                 data |-> [p \in Pkgs |-> {}], torn |-> [p \in Pkgs |-> {}],
                 links |-> links,
                 db |-> [p \in Pkgs |-> IF p \in Installed THEN "old" ELSE "none"],
                 hashes |-> InstalledConfs]
        /\ disk = fs
        /\ pc = "down"
        /\ mem = FreshMemory
        /\ clog = NoChangelog /\ crashes = 0 /\ ahead = FALSE /\ ran = {} /\ failing = {}

\* perform: there is no journal, a new transaction starts.  Directories of an
\* attempt before it have names of their own (mkdtemp); nobody knows them.
Perform == /\ pc = "down" /\ Fresh
           /\ pc' = "unpack"
           /\ mem' = FreshMemory
           /\ fs' = [fs EXCEPT !.sub = {}, !.data = [p \in Pkgs |-> {}],
                               !.torn = [p \in Pkgs |-> {}]]
           /\ plan' = [n \in DOMAIN plan |-> [plan[n] EXCEPT !.files = {}]]
           /\ UNCHANGED <<crashes, user, ahead, hist, disk, clog>>

Recorded == {file'[n].rec : n \in DOMAIN file'}
DistinctTypes == \A n, m \in DOMAIN file' : file'[n].rec.type = file'[m].rec.type => n = m

\* Fault: a journal in which nothing was unpacked yet is fatal.
RecoverOrDie ==
  /\ pc = "down" /\ Recover
  /\ mem' = [FreshMemory EXCEPT !.replay = Recorded]
  /\ pc' = IF DistinctTypes /\ \E r \in Recorded : r.type = "UNPACKED"
           THEN "unpack" ELSE "stuck"
  /\ UNCHANGED <<env, hist, fs, disk, clog>>

\* recover: there is a journal.  A record type found twice fails the
\* assertion; without UNPACKED the journal is wiped.
RecoverTransaction ==
  /\ pc = "down" /\ Recover
  /\ mem' = [FreshMemory EXCEPT !.replay = Recorded]
  /\ pc' = IF ~DistinctTypes THEN "stuck"
           ELSE IF \E r \in Recorded : r.type = "UNPACKED" THEN "unpack" ELSE "wipe"
  /\ UNCHANGED <<env, hist, fs, disk, clog>>

-----------------------------------------------------------------------------
\* The machinery of step in perform_internal.

\* The process is at a stage, and not inside journal.c.
At(stage) == pc = stage /\ op = "idle"
Have(t) == \E r \in mem.replay : r.type = t
ResultOf(t) == (CHOOSE r \in mem.replay : r.type = t).params

\* Fault: the status file is not written at the end.
AfterStepNoCleanup ==
  [UNPACKED |-> "check", CHECKED |-> "open_changelog",
   CHANGELOG_START |-> "move", MOVED |-> "scripts", SCRIPTS |-> "changelog_end",
   CHANGELOG_END |-> "finish", CLEANED |-> "finish"]

AfterStep == [UNPACKED |-> "check", CHECKED |-> "open_changelog",
              CHANGELOG_START |-> "move", MOVED |-> "scripts", SCRIPTS |-> "changelog_end",
              CHANGELOG_END |-> "close_changelog", CLEANED |-> "finish"]

\* A step found in the journal gives its results without being run.
Replay(t, result) == /\ Have(t)
                     /\ pc' = AfterStep[t]
                     /\ mem' = result
                     /\ UNCHANGED <<journal, env, hist, fs, disk, clog>>

\* The end of a step that was run: sync if it asks for it, then journal.write.
Commit(t, params, flush) == /\ Write([type |-> t, params |-> params])
                            /\ disk' = IF flush THEN fs ELSE disk
                            /\ UNCHANGED <<env, hist, fs, pc>>

\* The loop of journal_write, and its return into the transaction.
JournalUnits == /\ \E n \in 1..RecordSize : WriteUnits(n)
                /\ UNCHANGED <<env, hist, fs, disk, clog, pc, mem>>

StepRecorded == /\ WriteDone
                /\ IF op = "write"
                   THEN pc' = AfterStep[rec.type] /\ mem' = [mem EXCEPT !.i = 1]
                   ELSE UNCHANGED <<pc, mem>>
                /\ UNCHANGED <<env, hist, fs, disk, clog>>

\* A turn of a stage's loop that runs neither the journal nor the stage's end.
Turn(fs2, mem2) == /\ fs' = fs2
                   /\ mem' = mem2
                   /\ UNCHANGED <<journal, env, hist, disk, clog, pc>>

\* Go on at another stage of the same step.
Goto(stage, fs2, mem2) == /\ pc' = stage
                          /\ fs' = fs2
                          /\ mem' = mem2
                          /\ UNCHANGED <<journal, env, disk>>

\* The pcall in perform_internal catches an error.
Raise == Goto("abort", fs, mem) /\ UNCHANGED <<hist, clog>>

Oper == plan[mem.i]
More == mem.i <= Len(plan)
NextOper == [mem EXCEPT !.i = @ + 1]

-----------------------------------------------------------------------------
\* Fault: dir_cleanups is not among the results of the step.
ReplayUnpackNoDirs == At("unpack") /\ Replay("UNPACKED", mem)

\* UNPACKED: pkg_unpack
ReplayUnpack == At("unpack") /\ Replay("UNPACKED", [mem EXCEPT !.dirs = ToInstall])

SkipRemoval == /\ At("unpack") /\ ~Have("UNPACKED") /\ More
               /\ Oper.op = "remove"
               /\ Turn(fs, NextOper)

\* backend.pkg_unpack, which does not look at the result of archive.unpack_package, and
\* pkg_examine, which takes what it finds, but wants all configuration files.
UnpackOp == /\ At("unpack") /\ ~Have("UNPACKED") /\ More
            /\ Oper.op = "install"
            /\ \E out \in unpack_package(NewFiles[Oper.pkg]) :
                 LET found == out.whole \cup out.torn
                     examined == Confs \cap NewFiles[Oper.pkg] \subseteq found
                 IN /\ fs' = [fs EXCEPT !.sub = @ \cup ({Oper.pkg} \X {"data", "control"}),
                                        !.data[Oper.pkg] = found, !.torn[Oper.pkg] = out.torn]
                    /\ plan' = IF examined THEN [plan EXCEPT ![mem.i].files = found] ELSE plan
                    /\ mem' = IF examined THEN NextOper ELSE mem
                    /\ pc' = IF examined THEN pc ELSE "abort"
            /\ UNCHANGED <<journal, crashes, user, ahead, hist, disk, clog>>

UnpackError == /\ At("unpack") /\ ~Have("UNPACKED") /\ More
               /\ UnpackMayFail
               /\ Raise

\* perform_internal knows the directories once the step has returned.
UnpackDone == /\ At("unpack") /\ ~Have("UNPACKED") /\ ~More
              /\ Commit("UNPACKED", NoParams, TRUE)
              /\ mem' = [mem EXCEPT !.dirs = ToInstall]
              /\ UNCHANGED clog

\* CHECKED: pkg_collision_check
ReplayCheck == /\ At("check")
               /\ Replay("CHECKED", [mem EXCEPT !.removal = ResultOf("CHECKED")])

CheckError == /\ At("check") /\ ~Have("CHECKED")
              /\ Collision
              /\ Raise

\* Fault: what was unpacked before a crash is taken for checked.
CheckOnce == /\ At("check") /\ ~Have("CHECKED")
             /\ ~Collision \/ Have("UNPACKED")
             /\ Commit("CHECKED", CheckResult, FALSE)
             /\ mem' = [mem EXCEPT !.removal = CheckResult]
             /\ UNCHANGED clog

Check == /\ At("check") /\ ~Have("CHECKED")
         /\ ~Collision
         /\ Commit("CHECKED", CheckResult, FALSE)
         /\ mem' = [mem EXCEPT !.removal = CheckResult]
         /\ UNCHANGED clog

\* changelog.open
OpenChangelog == /\ At("open_changelog")
                 /\ clog' \in {changelog_open(clog)}
                               \cup (IF ChangelogMayFail THEN {Unopened(clog)} ELSE {})
                 /\ Goto("changelog_start", fs, mem)
                 /\ UNCHANGED hist

\* CHANGELOG_START: changelog_start.  Removals of packages that are not known
\* are not in the plan.
Planned(o) == o.op = "install" \/ fs.db[o.pkg] # "none"

ReplayChangelogStart == At("changelog_start") /\ Replay("CHANGELOG_START", mem)

ChangelogStart == /\ At("changelog_start") /\ ~Have("CHANGELOG_START")
                  /\ clog' = changelog_sync(FoldLeft(LAMBDA cl, o : changelog_package(cl, o.pkg),
                                                     changelog_transaction_start(clog),
                                                     SelectSeq(plan, Planned)))
                  /\ Commit("CHANGELOG_START", NoParams, FALSE)
                  /\ UNCHANGED mem

-----------------------------------------------------------------------------
\* script: run a maintainer script, if it is in info_dir, and collect its
\* failure.  mem2 is the memory after the caller's own changes.
RunScript(p, s, mem2) ==
  IF fs.info[p] = "none"
  THEN mem' = mem2 /\ UNCHANGED <<hist, clog>>
  ELSE /\ ran' = ran \cup {<<p, s>>}
       /\ \/ /\ failing' = failing \ {<<p, s>>}
             /\ mem' = mem2
             /\ UNCHANGED clog
          \/ /\ <<p, s>> \in FailScripts
             /\ failing' = failing \cup {<<p, s>>}
             /\ mem' = [mem2 EXCEPT !.errs = @ \cup {<<p, s>>}]
             /\ clog' = changelog_scriptfail(clog, p, s)

\* Fault: configurations are removed like other files.
CleanedAny(f) == [fs EXCEPT !.root[f] = "none"]

\* pkg_cleanup_files, one file: a modified configuration stays.
Cleaned(f) == IF f \in mem.configs /\ Modified(f) THEN fs ELSE [fs EXCEPT !.root[f] = "none"]

Visited(f) == [mem EXCEPT !.todo = @ \ {f}]

\* MOVED: pkg_move
ReplayMove == /\ At("move")
              /\ Replay("MOVED", [mem EXCEPT !.status = ResultOf("MOVED").status,
                                             !.errs = ResultOf("MOVED").errs])

\* The first loop, over the operations that install.
StartMove == /\ At("move") /\ ~Have("MOVED")
             /\ Goto("moving", fs, [mem EXCEPT !.configs = UNION {OldConfigs(p) : p \in ToInstall}])
             /\ UNCHANGED <<hist, clog>>

\* The second loop.
MoveInstall == /\ At("moving") /\ More /\ Oper.op = "install"
               /\ Goto("control", fs, mem)
               /\ UNCHANGED <<hist, clog>>

\* pkg_merge_control: the old control files go, then the new ones are copied.
DropControl == /\ At("control")
               /\ fs.info[Oper.pkg] # "none"
               /\ Turn([fs EXCEPT !.info[Oper.pkg] = "none"], mem)

CopyControl == /\ At("control")
               /\ fs.info[Oper.pkg] = "none"
               /\ <<Oper.pkg, "control">> \in fs.sub
               /\ Goto("preinst", [fs EXCEPT !.info[Oper.pkg] = "new"], mem)
               /\ UNCHANGED <<hist, clog>>

\* ls of a directory that is not there raises; the file system may refuse too.
MoveError == /\ \/ /\ At("control")
                   /\ fs.info[Oper.pkg] = "none"
                   /\ <<Oper.pkg, "control">> \notin fs.sub
                \/ At("control") /\ MoveMayError
                \/ At("merge") /\ mem.todo # {} /\ MoveMayError
             /\ Raise

Preinst == /\ At("preinst")
           /\ RunScript(Oper.pkg, "preinst",
                        [mem EXCEPT !.todo = mem.removal.early[Oper.pkg]])
           /\ pc' = "early"
           /\ UNCHANGED <<journal, env, fs, disk>>

\* The files in the way of the package's own.
EarlyRemove(f) == /\ At("early") /\ f \in mem.todo
                  /\ Turn(Cleaned(f), Visited(f))

\* Fault: a changed file that the new version does not have is not copied.
CopyChangedNew ==
  /\ At("early") /\ mem.todo = {}
  /\ Goto("merge",
          [fs EXCEPT !.backup = @ \cup {f \in mem.changed[Oper.pkg] \cap Oper.files :
                                          fs.root[f] = "user"}],
          [mem EXCEPT !.todo = IF <<Oper.pkg, "data">> \in fs.sub
                               THEN Oper.files ELSE {}])
  /\ UNCHANGED <<hist, clog>>

\* user_path_move(path, true) of the package's changed files, then the test of
\* pkg_merge_files: a missing data directory has been merged already.
CopyChanged == /\ At("early") /\ mem.todo = {}
               /\ Goto("merge",
                       [fs EXCEPT !.backup = @ \cup {f \in mem.changed[Oper.pkg] :
                                                       fs.root[f] = "user"}],
                       [mem EXCEPT !.todo = IF <<Oper.pkg, "data">> \in fs.sub
                                            THEN Oper.files ELSE {}])
               /\ UNCHANGED <<hist, clog>>

\* user_path_move of what is in the way of f.
InTheWay(f) == {g \in Files : <<g, f>> \in Blocks /\ fs.root[g] # "none"}
WayCleared(f) == [fs EXCEPT !.root = [g \in Files |-> IF g \in InTheWay(f) THEN "none" ELSE @[g]],
                            !.backup = @ \cup {g \in InTheWay(f) : fs.root[g] = "user"}]

\* The file of the unpacked package moves to its place, or beside it.
Placed(f) == [WayCleared(f) EXCEPT
                !.data[Oper.pkg] = @ \ {f},
                !.opkg = IF f \in OldConfigs(Oper.pkg) /\ Modified(f) THEN @ \cup {f} ELSE @,
                !.root[f] = IF f \in OldConfigs(Oper.pkg) /\ Modified(f) THEN @
                            ELSE IF f \in fs.torn[Oper.pkg] THEN "torn" ELSE "new"]

\* Merge one file, unless that was done before a crash.
MergeFile(f) == /\ At("merge") /\ f \in mem.todo
                /\ \/ Turn(IF f \in fs.data[Oper.pkg] THEN Placed(f) ELSE fs, Visited(f))
                   \/ MvMayFail /\ Turn(fs, Visited(f))  \* mv exits with an error: not noticed

\* The status file has the package, and its alternatives are updated.
Merged(links) == [fs EXCEPT !.sub = @ \ {<<Oper.pkg, "data">>}, !.data[Oper.pkg] = {},
                            !.links = links]
InstalledStatus == [mem.status EXCEPT ![Oper.pkg] = "new"]
Updated == pkg_update_alternatives(Offered(InstalledStatus, mem.control), fs.links, Oper.pkg)

\* Fault: the status file is written for each package.
MergeDoneDumps ==
  /\ At("merge") /\ mem.todo = {}
  /\ \E links \in Updated :
       Goto("moving", [Merged(links) EXCEPT !.db[Oper.pkg] = "new"],
            [NextOper EXCEPT !.status = InstalledStatus])
  /\ UNCHANGED <<hist, clog>>

\* The data directory goes, the package is installed in the status.
MergeDone ==
  /\ At("merge") /\ mem.todo = {}
  /\ \E links \in Updated :
       Goto("moving", Merged(links), [NextOper EXCEPT !.status = InstalledStatus])
  /\ UNCHANGED <<hist, clog>>

\* Conffiles of the package that goes, without those steal_configs took from it
\* and those that are not modified.
Stolen == InstalledConfs \cap UNION {NewOf(p) : p \in ToInstall}
KeptConfigs(p) == {f \in (Confs \cap OldFiles[p]) \ Stolen : Modified(f)}

MoveRemove ==
  LET p == Oper.pkg
  IN /\ At("moving") /\ More /\ Oper.op = "remove"
     /\ IF mem.status[p] \in {"old", "new"}
        THEN RunScript(p, "prerm",
                       [NextOper EXCEPT !.configs = @ \cup (Confs \cap OldFiles[p]),
                                        !.status[p] = IF KeptConfigs(p) = {} THEN "none"
                                                      ELSE "config"])
             /\ \E links \in pkg_remove_alternatives(Offered(mem.status, mem.control), fs.links, p) :
                  fs' = [fs EXCEPT !.links = links]
        ELSE mem' = NextOper /\ UNCHANGED <<fs, hist, clog>>
     /\ UNCHANGED <<journal, env, disk, pc>>

\* Fault: the files go only after the scripts have run.
MoveRestLater == /\ At("moving") /\ ~More
                 /\ Goto("gone", fs, [mem EXCEPT !.todo = {}])
                 /\ UNCHANGED <<hist, clog>>

\* What no package owns any more.
MoveRest == /\ At("moving") /\ ~More
            /\ Goto("gone", fs, [mem EXCEPT !.todo = mem.removal.gone])
            /\ UNCHANGED <<hist, clog>>

RemoveGone(f) == /\ At("gone") /\ f \in mem.todo
                 /\ Turn(Cleaned(f), Visited(f))

\* Fault: the step is not synced before it is journaled.
MoveDoneUnsynced == /\ At("gone") /\ mem.todo = {}
                    /\ Commit("MOVED", [status |-> mem.status, errs |-> mem.errs], FALSE)
                    /\ UNCHANGED <<mem, clog>>

\* Fault: errors_collected is not among the results of the step.
MoveDoneNoErrors == /\ At("gone") /\ mem.todo = {}
                    /\ Commit("MOVED", [status |-> mem.status, errs |-> {}], TRUE)
                    /\ UNCHANGED <<mem, clog>>

MoveDone == /\ At("gone") /\ mem.todo = {}
            /\ Commit("MOVED", [status |-> mem.status, errs |-> mem.errs], TRUE)
            /\ UNCHANGED <<mem, clog>>

-----------------------------------------------------------------------------
\* SCRIPTS: pkg_scripts
ReplayScripts == /\ At("scripts")
                 /\ Replay("SCRIPTS", [mem EXCEPT !.status = ResultOf("SCRIPTS").status,
                                                  !.errs = ResultOf("SCRIPTS").errs])

PostScript == /\ At("scripts") /\ ~Have("SCRIPTS") /\ More
              /\ IF Oper.op = "install" THEN RunScript(Oper.pkg, "postinst", NextOper)
                 ELSE IF Oper.pkg \notin ToInstall THEN RunScript(Oper.pkg, "postrm", NextOper)
                 ELSE mem' = NextOper /\ UNCHANGED <<hist, clog>>
              /\ UNCHANGED <<journal, env, fs, disk, pc>>

ScriptsDone == /\ At("scripts") /\ ~Have("SCRIPTS") /\ ~More
               /\ Commit("SCRIPTS", [status |-> mem.status, errs |-> mem.errs], TRUE)
               /\ UNCHANGED <<mem, clog>>

\* CHANGELOG_END: changelog_end
ReplayChangelogEnd == At("changelog_end") /\ Replay("CHANGELOG_END", mem)

ChangelogEnd == /\ At("changelog_end") /\ ~Have("CHANGELOG_END")
                /\ clog' = changelog_sync(changelog_transaction_end(clog))
                /\ Commit("CHANGELOG_END", NoParams, FALSE)
                /\ UNCHANGED mem

CloseChangelog == /\ At("close_changelog")
                  /\ clog' = changelog_close(clog)
                  /\ Goto("cleanup", fs, mem)
                  /\ UNCHANGED hist

\* cleanup_dirs(dir_cleanups), on success and on error: remove_recursive takes files, then
\* the directories they were in.
LeftDirs == fs.sub \cap (mem.dirs \X {"data", "control"})
RemoveFile == /\ At("cleanup") \/ At("abort")
              /\ \E p \in Pkgs, f \in Files :
                   /\ <<p, "data">> \in LeftDirs /\ f \in fs.data[p]
                   /\ Turn([fs EXCEPT !.data[p] = @ \ {f}], mem)

RemoveDir == /\ At("cleanup") \/ At("abort")
             /\ \E d \in LeftDirs :
                  /\ d[2] = "data" => fs.data[d[1]] = {}
                  /\ Turn([fs EXCEPT !.sub = @ \ {d}], mem)

\* CLEANED: control_cleanup, then status_dump by way of a temporary file.
ReplayCleaned == At("cleanup") /\ LeftDirs = {} /\ Replay("CLEANED", mem)

ControlCleanup ==
  /\ At("cleanup") /\ LeftDirs = {} /\ ~Have("CLEANED")
  /\ Goto("dump", [fs EXCEPT !.info = [p \in Pkgs |-> IF mem.status[p] \in {"old", "new"}
                                                      THEN @[p] ELSE "none"]], mem)
  /\ UNCHANGED <<hist, clog>>

\* The field Conffiles of a package in the status.
HashedConfs(p) == CASE mem.status[p] = "new" -> Confs \cap NewOf(p)
                    [] mem.status[p] = "old" -> (Confs \cap OldFiles[p]) \ Stolen
                    [] OTHER -> KeptConfigs(p)

pkg_status_dump(p) ==
  LET state == mem.status[p]
      confs == SetToSeq(HashedConfs(p))
      Of(header, value) == [header |-> header, value |-> value]
      head == <<Of("Package", <<<<p>>>>), Of("Version", <<<<state>>>>),
                Of("Status", <<<<"install", "user", IF state = "config" THEN "not-installed"
                                                   ELSE "installed">>>>)>>
  IN Text!block_dump_ordered(
       IF confs = <<>> THEN head
       ELSE Append(head, Of("Conffiles", <<<<>>>> \o [n \in DOMAIN confs |-> <<confs[n], "hash">>])))

\* Fault: nothing is written after a block.
DumpTogether(pkgs) == FlattenSeq([n \in DOMAIN pkgs |-> pkg_status_dump(pkgs[n])])

\* The text of the status file, for packages in the order pairs has them.
status_text(pkgs) == FlattenSeq([n \in DOMAIN pkgs |-> Append(pkg_status_dump(pkgs[n]), Text!Empty)])

\* What status_parse gets from a text.
Parsed(text) == {Text!block_parse(block) : block \in ToSet(Text!block_split(text))}
Named(pkg) == pkg["Package"][1][1]
StateOf(pkg) == IF Text!Status(pkg)[3] = "installed" THEN pkg["Version"][1][1] ELSE "config"
Recalled(pkgs) == [p \in Pkgs |-> LET own == {pkg \in pkgs : Named(pkg) = p}
                                  IN IF own = {} THEN "none" ELSE StateOf(CHOOSE pkg \in own : TRUE)]

StatusDump ==
  /\ At("dump")
  /\ \E order \in SetToSeqs({p \in Pkgs : mem.status[p] # "none"}) :
     \E text \in {status_text(order)} : \E pkgs \in {Parsed(text)} :
       Goto("dumped", [fs EXCEPT !.db = Recalled(pkgs),
                                 !.hashes = UNION {Text!Conffiles(pkg) : pkg \in pkgs}], mem)
  /\ UNCHANGED <<hist, clog>>

CleanedDone == /\ At("dumped")
               /\ Commit("CLEANED", NoParams, TRUE)
               /\ UNCHANGED <<mem, clog>>

\* Fault: the directories are removed only when all went well.
FinishUnswept == /\ At("finish") \/ At("wipe") \/ At("abort")
                 /\ StartFinish(FALSE)
                 /\ UNCHANGED <<env, hist, fs, disk, clog, pc, mem>>

\* journal.finish at the three places it is called from.
FinishJournal == /\ At("finish") \/ At("wipe") \/ (At("abort") /\ LeftDirs = {})
                 /\ StartFinish(FALSE)
                 /\ UNCHANGED <<env, hist, fs, disk, clog, pc, mem>>

\* An aborted transaction's error ends the process; a wiped one makes room for
\* another.
JournalRemoved == /\ Unlink
                  /\ pc' = CASE pc = "finish" -> "done"
                             [] pc = "abort" -> "failed"
                             [] pc = "wipe" -> "down"
                  /\ IF pc = "abort" THEN clog' \in Killed(clog) ELSE UNCHANGED clog
                  /\ UNCHANGED <<env, hist, fs, disk, mem>>

-----------------------------------------------------------------------------
Running == pc \notin {"down", "done", "failed", "stuck"}

\* The process is killed, or the power fails and what was not synced is lost.
Crash == /\ Running
         /\ crashes < MaxCrashes
         /\ crashes' = crashes + 1
         /\ JCrash
         /\ pc' = "down"
         /\ \/ fs' = fs /\ clog' \in Killed(clog)
            \/ fs' = disk /\ clog' \in PowerLost(clog)
         /\ disk' = fs'
         /\ ahead' = (ahead \/ \E p \in Pkgs : fs'.info[p] # fs'.db[p])
         /\ UNCHANGED <<plan, user, hist, mem>>

\* The failed assertion in recover ends the process.
Die == /\ pc = "stuck"
       /\ JCrash
       /\ pc' = "down"
       /\ UNCHANGED <<env, hist, fs, disk, clog, mem>>

Moving == \/ StartMove \/ MoveInstall \/ DropControl \/ CopyControl \/ MoveError \/ Preinst
          \/ CopyChanged \/ MergeDone \/ MoveRemove \/ MoveRest \/ MoveDone
          \/ \E f \in Files : EarlyRemove(f) \/ MergeFile(f) \/ RemoveGone(f)

Step == \/ Perform \/ RecoverTransaction
        \/ JournalUnits \/ StepRecorded \/ JournalRemoved
        \/ ReplayUnpack \/ SkipRemoval \/ UnpackOp \/ UnpackDone
        \/ ReplayCheck \/ CheckError \/ Check
        \/ OpenChangelog \/ ReplayChangelogStart \/ ChangelogStart
        \/ ReplayMove \/ Moving
        \/ ReplayScripts \/ PostScript \/ ScriptsDone
        \/ ReplayChangelogEnd \/ ChangelogEnd
        \/ CloseChangelog \/ RemoveFile \/ RemoveDir
        \/ ReplayCleaned \/ ControlCleanup \/ StatusDump \/ CleanedDone
        \/ FinishJournal \/ Die

Next == Step \/ UnpackError \/ Crash

Spec == Init /\ [][Next]_vars

\* A process that runs goes on, and the updater is started again after a crash.
FairSpec == Spec /\ WF_vars(Step)
=============================================================================
