------------------------------- MODULE Driver -------------------------------
(***************************************************************************)
(* pkgupdate (src/pkgupdate/main.c, with src/lib/lua/updater.lua and       *)
(* filter_required of planner.lua): recovery, planning, approval, the      *)
(* transaction, a new run of the updater by exec where a package asks for  *)
(* it, hooks and reboot; and what pkgtransaction does between its runs.    *)
(*                                                                         *)
(* A package is old, new or not there; a transaction is one step once its  *)
(* journal has its UNPACKED record, see Transaction.  The configuration,   *)
(* the repositories and the order of the plan stay the same.               *)
(***************************************************************************)
EXTENDS Naturals, FiniteSets, Sequences, SequencesExt

CONSTANTS
  Pkgs,
  Wanted,      \* sequence of the packages requested, as planned
  Depends,     \* [Pkgs -> SUBSET Pkgs], of the new version
  OldDepends,  \* of the old version
  Confs,       \* configurations and options of pkgupdate
  Touched,     \* packages somebody may add or remove with pkgtransaction
  MaxFaults

ASSUME WantedAssumption == Wanted \in Seq(Pkgs) /\ IsInjective(Wanted)
ASSUME DependsAssumption == {Depends, OldDepends} \subseteq [Pkgs -> SUBSET Pkgs]
ASSUME BoundAssumption == Touched \subseteq Pkgs /\ MaxFaults \in Nat

VARIABLES
  conf,                     \* one of Confs, see Conf
  pc,
  reexec, reboot_finished,  \* opts of the running process
  modes, allow_replan,      \* of opmode and of updater
  tasks,                    \* of updater
  cleanup_actions,          \* of transaction
  results,                  \* the result on the stack of Lua: a hash, a report, or none
  buffer,                   \* what stdio has of the report
  status,                   \* [Pkgs -> States], the status file
  journal,                  \* <<>>, or the tasks of an unfinished transaction
  report,                   \* the approval file, if there is one
  approvals,                \* hashes given with --approve
  seen,                     \* history: what the user has seen and approved
  due,                      \* history: reboots asked for, neither done nor announced
  abi_due,                  \* history: packages that are to be installed again, and whether
                            \* the walk over the plan may miss the one they depend on
  hooks,                    \* history: the preupdate hook ran, and no postupdate hook
  faults                    \* history: faults so far, bounded by MaxFaults

vars == <<conf, pc, reexec, reboot_finished, modes, allow_replan, tasks, cleanup_actions, results,
          buffer, status, journal, report, approvals, seen, due, abi_due, hooks, faults>>

opts == <<reexec, reboot_finished>>
lua == <<modes, allow_replan, tasks, cleanup_actions>>
process == <<opts, lua>>
asking == <<results, buffer>>
disk == <<conf, status, journal>>
user == <<report, approvals, seen>>
history == <<due, abi_due, hooks, faults>>

States == {"old", "new", "none"}
Stages == {"off", "main", "prepare", "filtered", "hashed", "opened", "reported", "approved",
           "queued", "hooked", "perform", "done", "postupdate", "cleanup"}
Modes == {"reinstall_all", "no_removal"}

\* initial: what is installed at first; reinstall: requested with reinstall = true; options:
\* modes set by options of pkgupdate; mode: set by the configuration, with Mode; long: the
\* approval report does not fit into a buffer of stdio; abi_change: the packages it names, and
\* "dependents" if it is boolean.
Conf == [initial : [Pkgs -> States], replan : [Pkgs -> {"none", "finished", "immediate"}],
         reboot : [Pkgs -> {"none", "delayed", "finished"}],
         abi_change : [Pkgs -> SUBSET (Pkgs \cup {"dependents"})],
         abi_change_deep : [Pkgs -> SUBSET (Pkgs \cup {"dependents"})], reinstall : SUBSET Pkgs,
         batch : BOOLEAN, approval : BOOLEAN, no_replan : BOOLEAN,
         options : SUBSET Modes, mode : SUBSET Modes, long : BOOLEAN]

NoTasks == [install |-> <<>>, remove |-> <<>>]
NoActions == [reexec |-> FALSE, reboot |-> "none"]

Requested == ToSet(Wanted)

Init == /\ conf \in Confs
        /\ pc = "off" /\ reexec = FALSE /\ reboot_finished = FALSE
        /\ modes = {} /\ allow_replan = TRUE
        /\ tasks = NoTasks /\ cleanup_actions = NoActions
        /\ results = "none" /\ buffer = <<>>
        /\ status = conf.initial /\ journal = <<>>
        /\ report = <<>> /\ approvals = {} /\ seen = {}
        /\ due = {} /\ abi_due = {} /\ hooks = FALSE /\ faults = 0

-----------------------------------------------------------------------------
(* filter_required.                                                        *)

\* mode: the configuration adds to the modes before its requests are planned.
Mode == modes \cup conf.mode

\* check_install_version, for the plan of required_pkgs
ToInstall == {p \in Requested : status[p] # "new" \/ p \in conf.reinstall
                                \/ "reinstall_all" \in Mode}

Unused == {p \in Pkgs \ Requested : status[p] # "none"}

\* What the status file says an installed package depends on.
Needs(p) == CASE status[p] = "none" -> {}
              [] status[p] = "old" -> OldDepends[p]
              [] status[p] = "new" -> Depends[p]

\* Fault: the order in which packages are found is kept.
RemovalAsFound(order) == order

\* check_removal: packages are visited in some order, their dependencies first, through those
\* that stay as well; what is sorted last goes first.
Removal(order) ==
  LET Sort[buff \in (SUBSET Pkgs) \X Seq(Pkgs), todo \in Seq(Pkgs)] ==
        IF todo = <<>> THEN buff
        ELSE IF Head(todo) \in buff[1] THEN Sort[buff, Tail(todo)]
        ELSE LET p == Head(todo)
                 deps == Sort[<<buff[1] \cup {p}, buff[2]>>, SetToSeq(Needs(p))]
                 own == IF p \in Unused THEN <<p>> ELSE <<>>
             IN Sort[[deps EXCEPT ![2] = @ \o own], Tail(todo)]
  IN Reverse(Sort[<<{}, <<>>>>, order][2])

\* invert_dependencies
Dependents(p) == {q \in Requested : p \in Depends[q]}

\* What abi_changed calls itself with, for the packages named and for those that depend on it.
AbiChanged(call) ==
  LET change == conf.abi_change[call.name]
      deep == conf.abi_change_deep[call.name]
      abi == IF call.abi = "none" THEN "shallow" ELSE call.abi
      dep_abi == IF call.abi = "deep" \/ "dependents" \in deep THEN {"deep"}
                 ELSE IF "dependents" \in change THEN {abi} ELSE {}
  IN [name : change \cap Requested, abi : {abi}] \cup [name : deep \cap Requested, abi : {"deep"}]
       \cup [name : Dependents(call.name), abi : dep_abi]

\* All calls that these lead to.
Calls(made) ==
  LET Closed[calls \in SUBSET [name : Requested, abi : {"none", "shallow", "deep"}]] ==
        LET more == calls \cup UNION {AbiChanged(c) : c \in calls}
        IN IF more = calls THEN calls ELSE Closed[more]
  IN Closed[made]

FirstCalls(visited) == [name : visited, abi : {"none"}]

\* The plan, after the walk has visited some of it.
WithAbi(visited) == ToInstall \cup {c.name : c \in Calls(FirstCalls(visited))}

\* A call that comes back to itself goes on until the stack of Lua is full.
Endless(visited) == \E c \in Calls(FirstCalls(visited)) : c \in Calls(AbiChanged(c))

\* check_abi_change walks with pairs over the table it adds to: from then on some may be missed.
Walks == {ToInstall}
           \cup {visited \in SUBSET ToInstall : visited # {} /\ WithAbi(visited) # ToInstall}

Cuts(p) == allow_replan /\ conf.replan[p] = "immediate"

Filtered(install, order) ==
  LET plan == SelectSeq(Wanted, LAMBDA p : p \in install)
      cut == SelectInSeq(plan, Cuts)
  IN [install |-> IF cut = 0 THEN plan ELSE SubSeq(plan, 1, cut),
      remove |-> IF cut = 0 /\ "no_removal" \notin Mode THEN Removal(order) ELSE <<>>]

\* Fault: changes of the ABI are not followed.
FilterPlain(visited, order) == Filtered(ToInstall, order)

\* Fault: a package that is there already cuts the plan too.
FilterCutsAgain(visited, order) ==
  LET install == WithAbi(visited)
      cut == SelectInSeq(Wanted, Cuts)
  IN [install |-> SelectSeq(IF cut = 0 THEN Wanted ELSE SubSeq(Wanted, 1, cut),
                            LAMBDA p : p \in install),
      remove |-> IF cut = 0 THEN Removal(order) ELSE <<>>]

filter_required(visited, order) == Filtered(WithAbi(visited), order)

-----------------------------------------------------------------------------
(* The transaction, as far as main is concerned.                           *)

\* pkg_unpack, for a list of operations
CleanupActions(t) ==
  LET asked == {conf.reboot[p] : p \in ToSet(t.install)}
  IN [reexec |-> \E p \in ToSet(t.install) : conf.replan[p] # "none",
      reboot |-> IF "finished" \in asked THEN "finished"
                 ELSE IF "delayed" \in asked THEN "delayed" ELSE "none"]

\* Packages to be installed again with p, as the documentation says it.
Affected(p) ==
  LET Listed(abi) == (abi \cap Requested) \cup IF "dependents" \in abi THEN Dependents(p) ELSE {}
      Above[known \in SUBSET Pkgs] ==
        LET more == known \cup UNION {Dependents(q) : q \in known}
        IN IF more = known THEN known ELSE Above[more]
  IN Listed(conf.abi_change[p]) \cup Above[Listed(conf.abi_change_deep[p])]

\* The rest of the plan makes the table grow before the walk has come to p.
MayBeMissed(p) == p \in ToInstall /\ WithAbi(ToInstall \ {p}) # ToInstall

Apply(t) ==
  LET new == ToSet(t.install)
  IN /\ status' = [p \in Pkgs |-> IF p \in new THEN "new"
                                  ELSE IF p \in ToSet(t.remove) THEN "none" ELSE status[p]]
     /\ journal' = <<>>
     /\ due' = due \cup ({conf.reboot[p] : p \in new} \cap {"delayed", "finished"})
     /\ abi_due' = (abi_due \cup UNION {Affected(p) \X {MayBeMissed(p)} : p \in new})
                     \ (new \X BOOLEAN)

-----------------------------------------------------------------------------
(* main.                                                                   *)

\* interpreter_call pops all that is left on the stack of Lua, then there is the result.
Call(result) == results' = result

\* parse_opt for the command line and the options added by exec, then main up to the journal.
Main(again, reboot) ==
  /\ pc' = "main" /\ reexec' = again /\ reboot_finished' = reboot
  /\ modes' = conf.options
  /\ allow_replan' = ~(conf.no_replan \/ "reinstall_all" \in conf.options)
  /\ tasks' = NoTasks /\ cleanup_actions' = NoActions
  /\ Call("none") /\ buffer' = <<>>
  /\ UNCHANGED <<disk, user, history>>

Start == pc = "off" /\ Main(FALSE, FALSE)

NoJournal == /\ pc = "main" /\ journal = <<>>
             /\ pc' = "prepare"
             /\ UNCHANGED <<process, asking, disk, user, history>>

\* Errors of the recovered scripts end the run, hooks or not.
Recover == /\ pc = "main" /\ journal # <<>>
           /\ Apply(journal[1])
           /\ cleanup_actions' = CleanupActions(journal[1])
           /\ pc' \in {"prepare", "cleanup"}
           /\ UNCHANGED <<conf, opts, modes, allow_replan, tasks, asking, user, hooks, faults>>

\* Fault: no hook for a run that ends early.
CleanupPlain == pc' = "cleanup"

\* GOTO_CLEANUP
GotoCleanup == pc' = IF reexec THEN "postupdate" ELSE "cleanup"

\* The configuration is run, which may set modes; the tasks are found.
Prepare == /\ pc = "prepare"
           /\ modes' = Mode
           /\ \E visited \in Walks :
                ~Endless(visited) /\ tasks' \in {filter_required(visited, order) :
                                                  order \in SetToSeqs(Unused)}
           /\ pc' = "filtered"
           /\ UNCHANGED <<opts, allow_replan, cleanup_actions, asking, disk, user, history>>

\* "stack overflow" is an error as any other.
PrepareOverflows == /\ pc = "prepare" /\ Endless(ToInstall)
                    /\ modes' = Mode
                    /\ GotoCleanup
                    /\ UNCHANGED <<opts, allow_replan, tasks, cleanup_actions, asking, disk, user,
                                   history>>

\* A repository or the configuration is not there.
PrepareFails == /\ pc = "prepare" /\ faults < MaxFaults
                /\ faults' = faults + 1
                /\ GotoCleanup
                /\ UNCHANGED <<process, asking, disk, user, due, abi_due, hooks>>

approval_clean == report' = <<>>

NothingToDo == /\ pc = "filtered" /\ tasks = NoTasks
               /\ approval_clean
               /\ GotoCleanup
               /\ UNCHANGED <<process, asking, disk, approvals, seen, history>>

\* Return at the terminal.
Confirmed == /\ pc = "filtered" /\ tasks # NoTasks /\ ~conf.batch
             /\ pc' = "approved"
             /\ approval_clean
             /\ seen' = seen \cup {tasks}
             /\ UNCHANGED <<process, asking, disk, approvals, history>>

\* End of file at the terminal.
NotConfirmed == /\ pc = "filtered" /\ tasks # NoTasks /\ ~conf.batch
                /\ faults < MaxFaults
                /\ faults' = faults + 1
                /\ GotoCleanup
                /\ UNCHANGED <<process, asking, disk, user, due, abi_due, hooks>>

NotAsked == /\ pc = "filtered" /\ tasks # NoTasks /\ conf.batch /\ ~conf.approval
            /\ pc' = "approved"
            /\ UNCHANGED <<process, asking, disk, user, history>>

-----------------------------------------------------------------------------
(* approved.                                                               *)

\* queued_tasks: what the lines of a report tell of the tasks.  The hash is that of all lines,
\* in any order.
Lines(t) == {<<"install", p, conf.reboot[p]>> : p \in ToSet(t.install)}
              \cup {<<"remove", p, "none">> : p \in ToSet(t.remove)}

ApprovalHash == /\ pc = "filtered" /\ tasks # NoTasks /\ conf.batch /\ conf.approval
                /\ Call("hash")
                /\ pc' = "hashed"
                /\ UNCHANGED <<process, buffer, disk, user, history>>

\* The string that interpreter_collect_results gave belongs to Lua, as long as it is on the stack.
hash == IF results = "hash" THEN Lines(tasks) ELSE {}

\* Fault: a run after an exec is not asked again.
ApprovedOnce == /\ pc = "hashed" /\ (hash \in approvals \/ reexec)
                /\ report' = <<>>
                /\ pc' = "approved"
                /\ UNCHANGED <<process, asking, disk, approvals, seen, history>>

Approved == /\ pc = "hashed" /\ hash \in approvals
            /\ report' = <<>>
            /\ pc' = "approved"
            /\ UNCHANGED <<process, asking, disk, approvals, seen, history>>

\* fopen makes the file empty; the hash goes to the buffer of stdio.
OpenReport == /\ pc = "hashed" /\ hash \notin approvals
              /\ report' = <<[hash |-> {}, lines |-> {}]>>
              /\ buffer' = <<hash>>
              /\ pc' = "opened"
              /\ UNCHANGED <<process, results, disk, approvals, seen, history>>

TaskReport == /\ pc = "opened"
              /\ Call("report")
              /\ pc' = "reported"
              /\ UNCHANGED <<process, buffer, disk, user, history>>

\* The buffer is full before all is written.
WriteReport(lines) == /\ pc = "reported" /\ conf.long
                      /\ report' = <<[hash |-> buffer[1], lines |-> lines]>>
                      /\ UNCHANGED <<pc, process, asking, disk, approvals, seen, history>>

\* Fault: the hash is written with the report, after the call for it.
CloseReportHash == /\ pc = "reported"
                   /\ report' = <<[hash |-> hash, lines |-> Lines(tasks)]>>
                   /\ GotoCleanup
                   /\ UNCHANGED <<process, asking, disk, approvals, seen, history>>

CloseReport == /\ pc = "reported"
               /\ report' = <<[hash |-> buffer[1], lines |-> Lines(tasks)]>>
               /\ GotoCleanup
               /\ UNCHANGED <<process, asking, disk, approvals, seen, history>>

\* The user answers the report he finds, by the hash at its head.
Approve == /\ pc = "off" /\ report # <<>>
           /\ report[1].hash # {} /\ report[1].lines # {}
           /\ approvals' = approvals \cup {report[1].hash}
           /\ seen' = seen \cup {report[1].lines}
           /\ UNCHANGED <<pc, process, asking, disk, report, history>>

-----------------------------------------------------------------------------
(* main, from the download to the end.                                     *)

\* tasks_to_transaction: all is downloaded, verified, and in the queue of the transaction.
TasksToTransaction == /\ pc = "approved"
                      /\ pc' = "queued"
                      /\ Call("none")
                      /\ UNCHANGED <<process, buffer, disk, user, history>>

PreUpdate == /\ pc = "queued"
             /\ pc' = "hooked"
             /\ hooks' = IF reexec THEN hooks ELSE TRUE
             /\ UNCHANGED <<process, asking, disk, user, due, abi_due, faults>>

\* ASSERT_MSG and DIE: a download fails, the report cannot be written, packages collide, the
\* program is not there any more.
Abort == /\ pc \in {"hashed", "approved", "hooked", "done"} /\ faults < MaxFaults
         /\ pc' = "off"
         /\ faults' = faults + 1 /\ hooks' = FALSE
         /\ UNCHANGED <<process, asking, disk, user, due, abi_due>>

\* perform_queue, up to the record that it is unpacked.
Begin == /\ pc = "hooked"
         /\ journal' = <<tasks>>
         /\ pc' = "perform"
         /\ UNCHANGED <<conf, process, asking, status, user, history>>

Perform == /\ pc = "perform"
           /\ Apply(tasks)
           /\ cleanup_actions' = CleanupActions(tasks)
           /\ pc' = "done"
           /\ UNCHANGED <<conf, opts, modes, allow_replan, tasks, asking, user, hooks, faults>>

\* pre_cleanup, and the hook that tells of a delayed reboot
Announced == IF cleanup_actions.reboot = "delayed" THEN due \ {"delayed"} ELSE due

\* Fault: the flag is for the process that found it.
RebootForgets == cleanup_actions.reboot = "finished"

RebootFinished == reboot_finished \/ cleanup_actions.reboot = "finished"

\* updater.cleanup goes on ...
PreCleanup == /\ pc = "done"
              /\ ~(cleanup_actions.reexec /\ allow_replan)
              /\ due' = Announced
              /\ reboot_finished' = RebootFinished
              /\ pc' = "postupdate"
              /\ UNCHANGED <<reexec, lua, asking, disk, user, abi_due, hooks, faults>>

\* ... or the program is started again, with its first arguments and what reexec adds to them.
Reexec == /\ pc = "done"
          /\ cleanup_actions.reexec /\ allow_replan
          /\ pc' = "main" /\ reexec' = TRUE /\ reboot_finished' = RebootFinished
          /\ due' = Announced
          /\ modes' = conf.options /\ tasks' = NoTasks /\ cleanup_actions' = NoActions
          /\ UNCHANGED <<allow_replan, asking, disk, user, abi_due, hooks, faults>>

\* REPLAN_CLEANUP
PostUpdate == /\ pc = "postupdate"
              /\ hooks' = FALSE
              /\ pc' = "cleanup"
              /\ UNCHANGED <<process, asking, disk, user, due, abi_due, faults>>

\* CLEANUP, system_reboot
Exit == /\ pc = "cleanup"
        /\ pc' = "off"
        /\ due' = IF reboot_finished THEN {} ELSE due
        /\ UNCHANGED <<process, asking, disk, user, abi_due, hooks, faults>>

\* The process is killed, with the power or without.
Killed(power) == /\ pc # "off" /\ faults < MaxFaults
                 /\ pc' = "off"
                 /\ faults' = faults + 1 /\ hooks' = FALSE
                 /\ due' = IF power THEN due ELSE {}
                 /\ UNCHANGED <<process, asking, disk, user, abi_due>>

-----------------------------------------------------------------------------
(* pkgtransaction, between two runs: it refuses to begin a transaction     *)
(* while there is a journal.                                               *)

Offline == pc = "off" /\ faults < MaxFaults /\ faults' = faults + 1

Resume == /\ Offline
          /\ journal # <<>>
          /\ Apply(journal[1])
          /\ UNCHANGED <<conf, pc, process, asking, user, hooks>>

AddPackage(p) == /\ Offline
          /\ journal = <<>>
          /\ status' = [status EXCEPT ![p] = "new"]
          /\ abi_due' = abi_due \ ({p} \X BOOLEAN)
          /\ UNCHANGED <<conf, pc, process, asking, journal, user, due, hooks>>

RemovePackage(p) == /\ Offline
             /\ journal = <<>>
             /\ status' = [status EXCEPT ![p] = "none"]
             /\ UNCHANGED <<conf, pc, process, asking, journal, user, due, abi_due, hooks>>

PkgTransaction == Resume \/ \E p \in Touched : AddPackage(p) \/ RemovePackage(p)

-----------------------------------------------------------------------------
Run == \/ NoJournal \/ Recover \/ Prepare \/ PrepareOverflows \/ NothingToDo \/ Confirmed
       \/ NotAsked \/ ApprovalHash \/ Approved \/ OpenReport \/ TaskReport \/ CloseReport
       \/ TasksToTransaction \/ PreUpdate \/ Begin \/ Perform \/ PreCleanup \/ Reexec
       \/ PostUpdate \/ Exit

Next == \/ Start \/ Run \/ Approve
        \/ PrepareFails \/ NotConfirmed \/ Abort \/ PkgTransaction
        \/ \E lines \in SUBSET Lines(tasks) : WriteReport(lines)
        \/ \E power \in BOOLEAN : Killed(power)

Spec == Init /\ [][Next]_vars

(* A run goes on until it ends, the updater is started again and again,    *)
(* and reports are answered.                                               *)
FairSpec == Spec /\ WF_vars(Run) /\ WF_vars(Start) /\ SF_vars(Approve)

-----------------------------------------------------------------------------
(* Properties.                                                             *)

\* The stages, the plan and the disk have their types.
TypeOK ==
  /\ conf \in Conf
  /\ pc \in Stages
  /\ {reexec, reboot_finished, allow_replan, hooks} \subseteq BOOLEAN
  /\ modes \subseteq Modes /\ due \subseteq {"delayed", "finished"}
  /\ tasks.install \in Seq(Requested) /\ tasks.remove \in Seq(Pkgs \ Requested)
  /\ cleanup_actions \in [reexec : BOOLEAN, reboot : {"none", "delayed", "finished"}]
  /\ status \in [Pkgs -> States]
  /\ Len(journal) <= 1 /\ Len(report) <= 1 /\ Len(buffer) <= 1
  /\ abi_due \subseteq Requested \X BOOLEAN
  /\ faults \in 0..MaxFaults

\* A run that ends has run the postupdate hook if it, or a process it replaced by exec, ran the
\* preupdate hook, and the postupdate hook never runs alone (GOTO_CLEANUP, main.c 103, 176, 197).
\* A process that is killed or stopped by an assertion (main.c 182, 186) does not get there: for
\* these the history of hooks begins anew.
HooksPaired == (pc = "off" => ~hooks) /\ (pc = "postupdate" => hooks)

\* A reboot that a package asks for with "finished" is not lost over the runs after an exec, and
\* one with "delayed" is announced by its hook, if it is not done: without a fault the updater
\* does not end before (--reboot-finished, updater.lua 191-214; main.c 187-194).
RebootKept == pc = "off" /\ due # {} => faults > 0

\* A transaction, recovered ones too, does what the user has seen and approved, also the rest of
\* a plan that was cut, made by a new process with the arguments of the first one
\* (main.c 164-173), and the hash in the report is the hash of the lines below it
\* ("write the hash out before we start manipulating interpreter again", main.c 74).
SeenBefore ==
  journal # <<>> /\ (conf.approval \/ ~conf.batch) =>
    IF conf.batch THEN Lines(journal[1]) \in seen ELSE journal[1] \in seen

\* The same, but for a report that is written in pieces by a process that is killed meanwhile.
NothingUnapproved == (conf.long /\ faults > 0) \/ SeenBefore

\* The plan may be cut.
MayBeCut == ~conf.no_replan /\ \E p \in Requested : conf.replan[p] = "immediate"

\* What a package with a changed ABI names, and what depends on it, is installed with it,
\* indirectly too where the change is deep, unless the plan may be cut, or others make the plan
\* grow while it is walked over (planner.lua 684-731, language.txt 447-457).
AbiFollowed == MayBeCut \/ \A q \in Requested : <<q, FALSE>> \notin abi_due

\* "All packages that depend on it are reinstalled" (language.txt 449), in any plan that is not
\* cut.  The walk adds to the table it goes through (planner.lua 696, 727).
AbiAlwaysFollowed == MayBeCut \/ abi_due = {}

\* All that these packages need, where only those in "through" are looked at.
Below(first, through) ==
  LET Known[known \in SUBSET Pkgs] ==
        LET more == known \cup UNION {Needs(q) : q \in known \cap through}
        IN IF more = known THEN known ELSE Known[more]
  IN Known[first]

DependsOn(p, q) == q \in Below(Needs(p), Pkgs)

\* Packages nobody needs any more go before what they depend on, even if only by way of a
\* package that stays (planner.lua 741-743), unless the way is through a package that depends
\* on them in turn.
RemovedFirst ==
  pc = "filtered" =>
    \A m, n \in DOMAIN tasks.remove :
      LET p == tasks.remove[m]
          q == tasks.remove[n]
          outside == {r \in Pkgs : ~DependsOn(r, p)}
      IN q \in outside \cap Below(Needs(p), outside) => m < n

\* The same over any way: two packages of a cycle may be in each other's.
RemovedAlwaysFirst ==
  pc = "filtered" =>
    \A m, n \in DOMAIN tasks.remove :
      LET p == tasks.remove[m]  q == tasks.remove[n]
      IN DependsOn(p, q) /\ ~DependsOn(q, p) => m < n

\* In the end the system is and stays what the configuration asks for, over plans that are cut,
\* approvals, runs that fail or are killed, and recoveries, unless each run stops at a change of
\* an ABI that comes back to itself.
Converges ==
  \/ []<>(pc = "prepare" /\ Endless(ToInstall))
  \/ <>[](/\ \A p \in Requested : status[p] = "new"
          /\ "no_removal" \in conf.mode \/ \A p \in Pkgs \ Requested : status[p] = "none")

\* Every run ends: it is replaced by exec only finitely often (updater.lua 206-214; with
\* --reinstall-all no replan is allowed, main.c 135, "to break reinstall-replan loop").
RunsEnd == pc # "off" ~> pc = "off"

\* "The reboot needs to be done once the update is finished" (language.txt 432).
RebootDone == due # {} ~> due = {}
=============================================================================
