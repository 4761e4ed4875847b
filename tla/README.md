# Verification of turris-updater

TLA+ modules about the updater of Turris routers (`src/`), the configurations
with which TLC checks them on small instances, and proofs for TLAPS. The
reference is always the code; line numbers are those of this commit.

The updater installs, upgrades and removes packages on a router that may lose
its power at any moment. What makes it hard is not one algorithm. It is the
journal that is replayed after a crash, the order in which steps are executed,
synced, journaled and cleaned up, the lock between processes, the child
processes and transfers that run meanwhile; and, before all that, how nested
scripts, indexes, priorities and dependencies become one plan.

## Inventory

| Component | State | Operations | What is hard, what makes it correct |
|---|---|---|---|
| Journal, `lib/journal.c` | the journal file, `fd` | fresh, write, finish, recover | a record is written by several `write(2)`; a crash tears it. Every record acknowledged is recovered, in order, once |
| Transaction, `lib/lua/transaction.lua` | plan, current step, collected errors, unpacked directories | perform, recover, the steps unpack, check, changelog, move, scripts, cleanup | a step that ran but is not journaled runs again; a step that is journaled must not. The status file tells the truth, the user's configurations survive |
| Packages on disk, `lib/lua/backend.lua` | root file system, `info_dir`, status file, collided configurations, links of alternatives | unpack, collision check, merge, remove, scripts, alternatives, status parse and dump | files of one package become those of another; directories replace files; the best alternative changes hands |
| Lock and state object, `lib/locks.c`, `run_state` in `backend.lua` | the record lock, the cached status | acquire, release, collection by Lua | a POSIX lock belongs to a process, not to a descriptor; closing any descriptor drops it |
| `pkgupdate`, `pkgtransaction` | stage of the run, options, modes | recover, plan, approve, perform, hooks, reboot, run again | looks for the journal before it has the lock; what is approved is planned anew by later processes |
| Subprocess, `lib/subprocess.c` | pipes, signalfd, limits | subprocloc | end of the process, its output and its limit race |
| Events, `lib/events.c` | children, commands, pending callbacks, self socket | run_command, watch_child, events_wait | SIGCHLD, reaping and outputs in any order |
| Interpreter bindings, `lib/interpreter.c` | callbacks in the registry of Lua, frames of `move` and `copy` | run_command, run_util, move, copy, calls and their results | a callback outlives the frame it writes to; results live until the next call |
| Changelog, `lib/changelog.c` | the file, the buffer of stdio | open, log, sync, close | replayed after a crash |
| Requests, sandbox, `requests.lua`, `sandbox.lua` | contexts of scripts, promises, repositories, requests | Script, Package, Repository, Install, Uninstall, Export, Unexport | levels, inherited variables, errors half-way, what is relative to what and verified with what |
| Uri, download, `uri.c`, `uri_lua.c`, `download.c`, `signature.c` | downloader and its instances, registry of a master, uris with settings and signatures, shared lists of certificates | register, run, finish, free, collection by Lua | callbacks of curl and libevent break the loop, transfers fail in any number, objects die in any order. Nothing is used that did not arrive whole, and no pointer outlives its target |
| Postprocess, `postprocess.lua`, `version_*` and `repo_parse` in `backend.lua` | groups of candidates, merged modifiers | get_repos, pkg_aggregate, deps_canon, sort_candidates | repositories come in any order; the order of candidates must not |
| Planner, `planner.lua`, `lib/picosat.c` | formula, plan, stack of packages worked on | sat_build, required_pkgs, build_plan, filter_required, check_abi_change | requests compete; recursion over cyclic dependencies, virtual packages and packages others provide. A plan is complete and ordered, and what is cut off comes later |
| Archives, paths, `archive.c`, `path_utils.c` | unpacked directories | unpack_package, remove_recursive | entries fail one by one |
| Cleanup stack, `util.c`, `cleanup.lua` | a stack of functions | register, run, unregister | the stack changes while it is run |
| Configuration, arguments, logging | constants of a run | - | formats |

How they interact: `pkgupdate` takes the state object (lock and status),
interprets the configuration in sandboxes, downloads indexes through uri, plans,
downloads packages and gives the queue to the transaction. Each step of the
transaction calls the backend, which runs `mv` and `cp` in the event loop and
maintainer scripts as subprocesses, and writes a journal record. The journal is
the only thing a process leaves to the next one, apart from the file system
itself and the arguments of an `exec`: after packages that ask for it,
`pkgupdate` replaces itself by a new run, which plans anew.

The hazards this gives are listed in `PROJECT.json`, each with its line and the
properties that would notice it.

## Modules

| Module | Models | State and actions |
|---|---|---|
| `DurableLog` | abstract: what a log promises over crashes | `Append1`, `Return`, `Crash`, `Reopen` (the interrupted entry is all there or not at all), `Remove` |
| `Journal` | `journal.c` | the file as frames, each with the number of its units on disk. `Fresh`, `Write`, `StartFinish` begin a `journal_write`, `WriteUnits` is one `write(2)`, `WriteDone` its return, `Recover` cuts off what is not whole, `Unlink` ends, `JCrash` at any point |
| `Transaction` | `transaction.lua` with what `backend.lua` does in its steps, on INSTANCEs of `Journal`, `Changelog`, `Alternatives`, `Archive` and `ControlText` | `pc` is the stage of `perform_internal`, `mem` its locals, `fs` the file system, `disk` what of it survives a loss of power. One action for each part of a step that a crash can separate from the next: `UnpackOp`, `Check`, `MoveInstall`, `DropControl`, `MergeFile`, `Remove`, `PostScript`, `RemoveDir`, `StatusDump`, ...; `Replay...` takes a step from the journal |
| `TransactionProps` | - | properties of `Transaction` |
| `Changelog` | `changelog.c` | operators over the lines in the file, those on the disk and the buffer |
| `Alternatives` | `user_path_symlink` to `pkg_remove_alternatives` in `backend.lua` | operators over the links and what packages in the status offer |
| `Archive` | `archive.c` | all that may become of the files of a package, entry by entry |
| `ControlText` | `block_split`, `block_parse`, `block_dump` and their callers in `backend.lua` | texts as sequences of lines, blocks as functions from fields to values |
| `RunState` | `locks.c`, `run_state`, the order of the programs | any number of processes; `Acquire`, `Release`, `Collect` (garbage collector), `Recover`, `LoadStateVars`, `Prepare`, `Perform`, ... `Quit` is also a kill |
| `Subprocess` | `subprocloc` | the poll loop against a command that may write, close, fork and end between any two looks of `poll` and any two `read(2)`; `Read` is one of them, `ReadDone` the one that finds nothing and ends the inner loop |
| `Events` | `events.c` | fork and registration apart, a turn of libevent, `Recv`, `Reap`, `CommandEvent`, `SignalSend`, the queue of postponed callbacks |
| `Bindings` | `interpreter.c` over `Events` | `Run`, `Move` and `Terminated`; callbacks in the registry, the frame that `move` and `copy` write to |
| `Fetch` | abstract: what a caller of uris can rely on | one step from `open` to `success`, with each resource used or, if the caller allows it, left out, or to `failure` |
| `Downloader` | `download.c` | instances and their transfers, the loop, the timer of curl; `Download`, `DownloadFree`, `DispatchBegin`, `EventCb`, `TimerCb` (both with `CheckInfo`), `DispatchEnd` |
| `Transfer` | `uri.c`, `uri_lua.c` and their callers, on `Downloader` | a master with its uris: `NewUri`, `Register`, `Run`, `ReturnUri`, `ReturnNil`, `Finish`, `FreeUris`, `FreeMaster`; of the callers `Tolerate`, `GiveUp`, `Collected` (`get_repos`) |
| `TrustLists` | the reference counted lists of `uri.c` | `New` (inheritance), `AddItem`, `DropItems`, `Load`, `RegisterUri`, `Verify`, `Free` |
| `Uris` | `uri.c` and `uri_config` of `utils.lua`, `signature.c` | operators: `canonize_uri`, inherited `Settings`, `uri_config`, `ensure_default_signature`, what a transfer is asked for and verified with (`Requested`), `sign_verify` |
| `Scripts` | `sandbox.lua` and the command Script, checks of options | the stack of contexts; `Script`, `ScriptRejected`, `ScriptRefused`, `ScriptFetch`, `ScriptEnd`, `Set`, `Assign`, `Call`, `Export`, `Unexport`, `Error` |
| `Candidates` | `requests.lua`, `postprocess.lua`, versions and `repo_parse` of `backend.lua`, over `Scripts` | `package`, `repository`, `content_request` note down; then `get_repos`, `Aggregate`, `Merge`, `canon_requests` |
| `Resolver` | the first half of `planner.lua` and `picosat.c`, over `Candidates` | `Build` (`sat_build`), `Accept` and `Reject` of requests, `DenyMissing`, `PenalizeCandidates`, `PenalizeOr`, `Minimize`, `Select`; the solver is the set of models of its clauses |
| `Plan` | `build_plan` of `planner.lua` | the recursion of `pkg_plan` as a stack of calls, `wstack`, `inwstack`; an action for each way a call ends (`NotSelected`, `AlreadyPlanned`, `Cycle`, ...) and for the main loops |
| `Driver` | `pkgupdate/main.c`, `updater.lua`, `filter_required`; `pkgtransaction/main.c` | one process at a time with its options, the tasks, approvals, journal and status it leaves; `Prepare`, `Confirmed`, `ApprovalHash`, `OpenReport`, `WriteReport`, `TasksToTransaction`, `Perform`, `RebootFinished`, `PostUpdate`, `Recover`, ... and what `pkgtransaction` does in between |
| `...Proofs` | - | theorems about `Journal`, `Transaction`, `RunState`, `Subprocess`, `Events` with `Bindings`, `TrustLists` and `Transfer` (`UriProofs`), `Plan`, `Driver` |
| `MC...` | - | constants for TLC |

`Transaction` composes with `Journal`: its actions conjoin the journal's, so
that the state of both changes in one step. `RunState` has transactions as a
whole, since what matters there is who is in one; so has `Driver`, whose subject
is the order of processes, plans and transactions. `Transfer` composes with
`Downloader` in the same way as `Transaction` with `Journal`; `TrustLists` takes
the order of transfers from it (`AllOver` is what `NilWhenOver` says).
`Scripts`, `Candidates` and `Resolver` extend each other: a run goes from the
first command of the configuration to the set of packages selected. `Plan`
begins where `Resolver` ends, but with any selection and not only those the
solver makes; `Driver` begins with a plan.

### Choices of the models

- **Crash.** `Crash` of `Transaction` is a kill, or a loss of power that takes
  the file system back to the last `sync()`. What was written since then is
  lost as a whole; a partial loss would be between the two. The journal is
  `O_DSYNC`, so its units stay. The removal of the journal is taken to be
  durable.
- **Files** are names with an owner's version: `old`, `user` (the old one,
  modified), `new`. Two files may exclude each other (`Blocks`), which stands
  for a directory in the place of a file.
- **Control files** of a package are copied as a whole; while they are not all
  there, they count as missing.
- A file is moved within a file system, in one step. The list of changed files
  (`ChangedFiles`) is copied in one step.
- Not in `Transaction`: empty directories, packages known to the status file but
  never installed, the queue of `pkgtransaction`.
- Directories that a failed or wiped attempt leaves are forgotten with it (the
  code has a TODO about them, `transaction.lua:387`), so that `NoLeftovers` is
  about the directories of the transaction itself.
- In `Subprocess` the clock only goes forward, and the call has a limit. A pipe
  takes `Writes` pieces of output, and the command may write again whenever
  some of it was read.
- In `Events` the commands get no input, `watch_cancel` is not called, and
  `events_wait` is not called from callbacks, as in the program.
- In `Downloader` several transfers may end in one callback, in any combination
  of success and failure; the one whose result is read last is any of them.
- In `Transfer` signatures are good or bad, whatever the keys are (`Uris` has
  the keys); a resource without verification has none. A uri has one signature.
- In `Uris` keys have fingerprints that tell them apart, and a signature is its
  algorithm, its fingerprint and the key that made it for this content, if any.
- In `Scripts` a script is a sequence of commands; of the functions of a level
  there are one or two that the level below does not have. Variables hold names
  of packages or functions. An option has a type and what the code looks at.
- In `Candidates` an index is a text of `ControlText`; whether it is reachable
  and by whom it is signed is chosen. Versions are sequences of parts with a rank,
  so that "1" and "01" are the same rank but differ. `pairs` goes in any order.
  `table.sort` is that of Lua 5.1, which does not keep the order of equals, for up
  to four elements; no configuration has more requests or candidates to sort.
- In `Resolver` the solver may return any model of its clauses, and any maximal
  satisfiable set of assumptions.
- In `Plan` the input is what the solver and the groups of candidates are, as
  far as `build_plan` looks at them: any choice that keeps to the clauses
  `build_plan` relies on (`Solved`: a package that is planned by its own candidate
  is selected, and who provides what a chosen candidate needs has a candidate
  that fits). `in.calls` are the dependencies of the chosen candidates in order.
- In `Driver` the configuration, the repositories and the order of the plan stay
  the same over the runs of an update. The fields `abi_change` and
  `abi_change_deep` are sets of names, with `"dependents"` for the boolean form;
  `false` counts like `true`, since `postprocess.lua` makes the merged field a set
  of whatever was given. `check_abi_change` walks with `pairs` over the table it
  adds to, so `Walks` has every set of packages it may visit: all of them, or, if
  the plan grows, any that makes it grow. A call of `abi_changed` that comes
  back to itself never ends (`Endless`), and the run stops with the error "stack
  overflow" (`PrepareOverflows`). A way from one package to another follows the
  dependencies by name; that a package provides another is left out, as it is in
  `invert_dependencies`. A fault is a failed preparation, an abort, a
  refusal at the terminal or a kill; `MaxFaults` bounds them.

## What the runs check

| Run | Bounds | Shows |
|---|---|---|
| `journal` | 3 records, 2 units each, two values of parameters | the file implements `DurableLog` |
| `transaction` | 3 packages, 6 files, 6 plans, 2 links, failing scripts, 3 crashes | see below |
| `transaction_faults` | one plan of 2 packages and 3 files, 2 crashes, packages not unpacked whole, errors in the merge, moves that fail, no changelog | `StatusAfterScripts` holds even so; `TransactionEnds` |
| `runstate` | 2 pkgupdate, 1 pkgtransaction, 2 versions of the status | a process never refused the lock has it from planning to the end (`CleanHolder`); without refusals transactions exclude each other and have their journal (`StatusCurrent`); no deadlock |
| `subprocess` | limit 2, 2 more after SIGTERM, clock to 5, 2 pieces of output in a pipe, any number in turn | `OutputForwarded`; the call `Returns`, unless it reads from one pipe for ever |
| `events` | a `cp` run from Lua with limits and a postfork function, an `mv` without | `NoZombieLost`, `CallbackDataKept`, `CalledWhenComplete`, `WaitReturns` |
| `transfer` | 4 resources: 3 remote, 2 optional, 2 signed, 1 local and signed; 2 connections; 3 kinds of caller | `Lifetimes`, `TransfersEnd`; uris over the downloader implement `Fetch` |
| `trustlists` | 3 uris, 2 items | `RefsExact` |
| `plan` | 3 names, 1,560 inputs (see `MCPlan`): all graphs of dependencies, virtual, provided, missing packages, one or two requests | `DependenciesFirst`, `Complete`, `PlanEnds` |
| `driver` | 7 packages, 241 configurations of modifiers, modes and options, 2 faults | `HooksPaired`, `RebootKept`, `NothingUnapproved`, `RemovedFirst`, `AbiFollowed`, `Converges` |
| `resolve` | 4 names, up to 3 repositories, 3,008 configurations (see `MCResolver`) | see below |

`transaction` checks, over all interleavings of steps with crashes:

- `StatusTruth`: a package the status file has in its new version is in place,
  and at the end the file tells what was installed and removed, and has the
  hashes of modified configurations, unless an upgrade drops them;
- `JournalCovers`: a root that is neither old nor recorded as new has a journal;
- `UserConfigKept`: a modified configuration with a known hash is not lost, unless
  it belongs to a package to be removed and is in the way of an earlier one;
- `ScriptsReported`: scripts ran, and exactly their failures are reported, though
  a crash comes between the run and the report;
- `ChangelogTold`: the changelog has every operation and every failed script
  once, and nothing of an attempt before a crash;
- `AlternativesBest`: every link leads to the best alternative at the end;
- `ChangesKept`: what the user has changed in other files is copied, also by the
  process that resumes, unless a crash left new control files or the file is
  overtaken: a package takes it, or has it in its way, before its owner's turn;
- `RefusedUntouched`: a plan whose packages collide is refused by every process
  that resumes it, root, control files, links and status stay as they were, and
  whoever is refused leaves no directory and no journal. It says nothing of an
  error while packages are unpacked: the list of directories is a result of that
  step, so an error leaves them (`transaction.lua:319`);
- `NoLeftovers`, `PostScriptsSettled`: see their comments.

`transaction_faults` has a second crash because the end of a transaction is only
difficult with two: `TransactionEnds` says that, when crashes stop, the transaction
is done or given up, unless FINISH is in the journal twice. The run reaches this
exception (Divergences, `RecoverAssertion`).

`resolve` compares what the code does in many steps with what the configuration
means, said without steps:

- `DepthFirst`: what scripts note down and ask for, with which settings, is what
  reading them as nested texts gives. `Meaning` is a fold over the commands,
  `InForce` looks for the last script around that says something of a setting;
  scripts and indexes are accepted if and only if a key in force vouches for
  them. The families `Nested` (levels, variables, copies, errors caught and not),
  `Mistaken` (every type of wrong option), `Verification` (relative URIs,
  certificates, keys, obsolete subdirs) and `Signed` are for this.
- `BestFirst`: the order of candidates follows the priority of the repository,
  the version, and the order in which repositories are introduced, as the
  comment of `sort_candidates` has it; `docs/language.txt` leaves the version out
  (`IntroducedFirst`, Divergences).
- `Sound`: what is selected has its dependencies and no conflicts, by the words
  of indexes and configuration (`Consistent`), not by clauses.
- `InTurn`: a request is given up only if no selection meets it together with
  the requests before it.
- `BestCandidates`, `NothingNeedless`: no other selection would have better
  candidates, or less.

Why the bounds are enough to be interesting. *Journal*: with two units a record
can be torn in one way only, which is as good as any, since the code looks at
the whole only; three frames give a torn record after an acknowledged one and a
recovery that appends again. *Transaction*: in `transaction`, the packages and files are chosen
so that every branch occurs: an upgrade that keeps, drops and adds files, a file
in the way of a directory, a collision, a package installed for the first time,
one removed that is not there, modified configurations of each kind, a link
whose best package goes and one that gets a better one. Three crashes allow one
in a step, one in its replay and one in the clean-up. In `transaction_faults` a
package with a configuration is replaced by one with a configuration, a file and a
script that fails, and the user has changed the one configuration or has the other
already, which is the least that has every step; two crashes may come at the same
place.
*RunState*: the third process is there for the case that one writes the status
while two others want it. *Events*: with two commands the end of one falls into
the reaping of the other, and the callback of `cp` into the wait of `mv`.
*Transfer*: three remote resources over two
connections let a failure find one transfer that ends in the same callback and
one that waits; two of them optional let two tolerated failures meet.
*TrustLists*: a uri may inherit from one that inherited. *Plan*: with three
packages there are cycles beside the path, through a package others provide, and
a stack with something above and below the cycle. *Driver*: one package may cut
the plan, one depends on it, one is to be removed and depends on another by way
of one that stays, and one more on it in turn, so that removals have a cycle with
an end outside; packages are named by a change of the ABI, two changes make the
plan grow together, and one comes back to itself; two faults allow a kill in the
recovery of a killed run.
*Resolver*: three repositories let the best candidate come from any of them and
the comparison of three candidates meet its cases; four requests that are equal
are sorted as Lua does; three scripts deep, a setting
is inherited, replaced and dropped.

The passing runs fire every action. Deadlock is checked in `journal`, `runstate`
and `driver`. The others come to an end: a transaction that is done, a command
that has returned, commands that were all run, uris that were all freed, a plan
that is finished, a selection or an error.

### Fairness

- `Transaction`: weak fairness of `Step`. A running process goes on, and after a
  crash the updater is started again and recovers first (`pkgupdate/main.c:139`).
  Crashes are bounded, which stands for "if crashes stop".
- `Subprocess`: the updater runs, time passes, and SIGKILL kills. There is none
  for the command itself.
- `Events`, `Bindings`: inside `events_wait` the updater goes on, which includes
  that limits come to their end; a command without limits (`mv`) ends by itself,
  one that got SIGKILL ends. There is none for processes in the background.
- `Transfer`: curl ends every transfer that runs, at its time limits at the
  latest (`download.c:214`, `CURLOPT_TIMEOUT` and `CONNECTTIMEOUT`), timers fire,
  and the updater goes on.
- `Plan`: the planner goes on.
- `Driver`: a run goes on until it ends, `pkgupdate` is started again and again
  (by cron in practice), and a report that comes again and again is answered
  once (strong fairness, since a run without tasks withdraws the report).

## What is proved

TLAPS checks these for every value of the constants. Invariants that are proved
and follow from the ones a run checks are not checked by the run a second time.

- `JournalProofs`, for all sets of parameters, record sizes and bounds.
  `IInv` is the inductive invariant. Acknowledged records are the whole frames
  of the file in their order, with at most one frame behind them, and that one
  belongs to the `journal_write` under way or to one that was interrupted. What
  one wants to know alone is not inductive: that a torn frame is only at the end
  says nothing of whose frame it is, and `WriteDone` needs that to acknowledge
  it. From `IInv` follow `TypeCorrect` (JTypeOK), `Durable` (AckedReadable),
  `TornAtEnd` (OnlyLastTorn) and `NothingForgotten` (RecoverKeepsAcked); with it
  every step maps to a step of `DurableLog` or to none (`Refinement`). Assumed:
  `NoRecord` is not a record, a record has at least one unit, and `NoParams` is
  among the parameters.
- `RunStateProofs`, for any number of processes of both programs.
  `TypeCorrect`; `CleanProcessesHoldLock` (CleanHolder), by the invariant
  `Clean`: who is in a transaction has the state object, and a lock object
  waiting for the collector is the remainder of a refusal, so that a collection
  cannot hit a process that was never refused; `TransactionsExclude`
  (StatusCurrent), by `Unwarned`: as long as nobody
  went on after a refusal nothing waits for the collector at all, so the lock
  changes hands at its release or at an end only.
- `SubprocessProofs`, for all limits and sizes of pipes. `TypeCorrect`;
  `SignalsInTime` (Grace: SIGTERM at its limit, SIGKILL not before SIGTERM and
  its own); `AllForwarded` (OutputForwarded), by the invariant
  `Forwarding`: from the look of `poll` at a pipe to the end of the turn, what is
  in the pipe and not reported came after that look;
  `EndsNoticed` (EndNoticed: an end after SIGCHLD was blocked is pending until it
  is read).
- `EventsProofs`, for any number of commands. `TypeCorrect`; `ZombiesNoticed`
  (NoZombieLost), by `Awake`: in addition, no child is registered without the
  handler of SIGCHLD, and no event of a turn is left over when the next begins.
  `CalledOnceComplete` (CalledWhenComplete) and `QueueRegistered`
  (PendingRegistered), by `Orderly`: how far a command is (`Progress`) goes with
  what of it is registered and queued, and nothing is queued twice. For the
  bindings: `LuaRunsLoop`, every step under Lua is one of the loop, so that the
  theorems above hold there; and `CallbackDataFound` (CallbackDataKept), which
  needs that the frame of `move` or `copy` waits for its own command (`WaitKept`).
- `UriProofs`, the lists, for any number of uris, lists and items (the set of uris
  is finite). The invariant is the type, `RefsExact`, `FreedWhenUnused`,
  `HeldAlive` and `Borrowing`: a uri that is gone has no list, a count is zero if
  and only if its item is not in use, and a running transfer, whose uri is
  registered, uses only what is in the list of that uri; `ListsTypeCorrect`,
  `CountsExact`, `FreedInTime`, `TransfersSafe`, `LoadsOnce` follow. The counts
  are cardinalities, about which there is a lemma.
- `UriProofs`, the downloads, for any number of resources, signatures and
  connections. `TypeCorrect`; `LifetimesHold`, `NilMeansOver`, `AllAccounted`,
  `AssertionHolds` from one inductive invariant: to the four it adds what the
  loop is at (`Loops`: it has no failure to tell of while idle, runs only inside
  the call, and is broken if and only if a transfer failed) and how far the
  caller is with what is registered (`Registry`); `FailuresReportedOnce`;
  `KeepsPromise`, the refinement to `Fetch`, in which only the last step of a
  caller is more than a stutter.
- `PlanProofs`, for all graphs of dependencies, providers and requests for which
  `Solved` holds, cycles included. `IInv` says of the stack of calls that a
  package is on it once and not when it is planned (`OnStack`), of what has
  returned that it is planned or below on the stack (`AllCovered`), and that what
  is behind a package in spite of this is in a cycle that was noticed
  (`BehindInCycle`). From it: `TypeCorrect`, `PlanOrdered` (DependenciesFirst),
  `PlanClosed` (Complete), and `CriticalOrdered` (CriticalConsistent), which no run
  checks.
- `TransactionProofs`, for all packages, files, plans, failing scripts, faults,
  crashes and resumptions; assumed is that a plan is a sequence of operations,
  that scripts and files are those of the packages, that what is installed fits on
  one disk, that the alternatives in the control files are finitely many, and what
  `Journal` assumes.
  `PhaseCorrect`: the stage of the process, the `journal_write` under way and what
  a recovered process takes for done go with the records in the file (`Phase`).
  `StatusLast` (StatusAfterScripts) follows. `AllSwept` (NoLeftovers) adds
  `Kempt`: every unpacked directory, on the disk too, is of a package the plan
  installs, and from the write of UNPACKED on the process knows all of these,
  since a recovered one takes them from the record.
  `Books` says that every record is of the right type, with results that fit it.
  With it the theorems of `JournalProofs` hold inside the transaction
  (`JournalDurable`), and the status a process goes on with is the one of the process before it
  (`StatusHandedOver`), the status file being the first one until SCRIPTS is
  written.
  `ConfigurationKept` (UserConfigKept), by `Configured`: before CHECKED is written,
  also the disk is as it was found (`Untouched`); from then on, the removals in the
  process or in the record are those `collision_check` allows (`PlanSettled`,
  `Moves`), and `all_configs` has the configurations of every package the loop has
  come to (`Configs`).
  `OthersUndisturbed`: the files of installed packages the plan does not touch
  stay, in root and on the disk, in every state.
  `UserChangesSaved` (ChangesKept), by `Cautious`: a process that is not ahead of the
  status has control files and status at one level (`Level`), so what it takes
  for changed is what the user has changed (`Noticed`), and is in the backup once
  the loop has come by (`Copied`).
  `ScriptsAllReported` (ScriptsReported), for plans with one operation for a
  package (`OnceEach`: the planner makes no others; `pkgtransaction` can be asked to
  install a package twice, and then reports what failed the first time though it
  did not the second), by `Tally`: at every stage, in the process and in the
  records, all scripts that were due by then have run, and the errors collected are
  the failures of exactly these.
  Six theorems assume `Reliable`: the archive leaves nothing out, `mv` does what it
  is asked to, and the file system refuses no move. What goes wrong without these
  `TransactionLosses.cfg` shows (`StatusTruth`, `SkippedIsMerged`). `MoveArrives`, by `Arriving`: once the
  loop is past a package (in the process, or by the record MOVED, on the disk too),
  its files are in place, whatever was lost with the power before. Of every file of
  a package that was unpacked it says that it is in root, in the data directory, or
  beside a configuration the user has modified (`Ready`), so a merge that starts
  anew leaves nothing behind, and that a transaction past UNPACKED is given up for
  a collision only.
  `ScriptsSettled` (PostScriptsSettled) follows.
  `RefusalsHarmless` (RefusedUntouched), by `Refused` and `Swept`: a plan that
  collides is never past the check, in no process and in no journal, since the
  check of a resumed process sees all packages again whatever was unpacked
  before; so nothing it does reaches root or the disk (`SameSystem`), and the
  directories are gone when FINISH is written.
  `StatusTold` (StatusTruth), by `Telling`: the status goes from the first to the
  last one package by package, in step with the move (`StatusMoves`); what MOVED
  and SCRIPTS hand over is the last one, with no modified configuration left behind
  by a package that is listed as gone (`StatusStored`); and so is the status file
  once it was written, in root and, when CLEANED is recorded, on the disk
  (`StatusDumped`). Its other hypothesis, `RoundTrip`, is that the text the dump
  writes is parsed to what was dumped. `RootAlwaysCovered` (JournalCovers) follows
  from it, `Books` and `OthersUndisturbed`.
  `LinksLead` (AlternativesBest), under the hypotheses of `StatusTold` and for
  finitely many alternatives, by `Leading`. A link is looked at when a package that
  offers something for it is installed or goes, and an update points it to that
  package or leaves it alone; a process that starts anew begins with the first
  package again, but reads the new control files of those that were merged, while
  their status is the old one. A path that some package leaves is put right by the last removal
  that does, whatever was there before (`Relinked`). For the others the link need
  not be the best on the way; `Linking` says what it is, that there is a
  package of the loop such that it is as good as all that is offered by the
  packages before that one, by those after it whose control files are new, and by
  the old versions whose control files are old. That holds in root and on the
  disk, each with a package of its own, and not before the one the loop is at.
- `DriverProofs`, for all packages, configurations and requests, any number of
  faults and uses of `pkgtransaction`. `HooksAlways` (HooksPaired), by
  `HookStages`: in the stages before the preupdate hook it has run if and only if
  the process came by `exec`. `RebootsKept` (RebootKept), by `RebootKnown`:
  without a fault, what is due is in `cleanup_actions` until the exec carries it
  over in `--reboot-finished`. `AllApproved` (NothingUnapproved), by `Informed`:
  an approval is a hash of lines that were in a report, the hash in the report is
  read while the tasks it was made of are in the interpreter, and the tasks of an
  approved run, also those in the journal, are among these lines.

What stays with TLC, and why:

- Liveness, which the prover does not do under fairness, and ENABLED.
- Of `Transaction`, `ChangelogTold`, which is about `SelectSeq` and folds. Of
  `StatusTruth` and `AlternativesBest` the hypothesis `RoundTrip` is left to TLC:
  `ControlText` computes it with folds over sequences that the prover knows nothing
  of, and `transaction` checks both with the text of the status file.
- Of `Driver`, `AbiFollowed` and `RemovedFirst`, which are about closures and
  orders computed by recursion.
- `Scripts`, `Candidates` and `Resolver`, where recursion over scripts and
  dependencies keeps the prover away.

Every proof is about the model, and the model's constants are assumed as the
ASSUMEs say; TLC evaluates these in the runs.

## Divergences

One run shows a bug by itself, `lock_lost`: the lock is dropped by the
collection of a lock object that was refused earlier in the same process
(`locks.c:60`).

The following are violated too, each with a configuration to run TLC by hand,
`tlc -config <file> <module>`:

| Configuration, module | Property | What |
|---|---|---|
| `TransactionLosses.cfg`, `MCTransaction` | `RecoverAssertion` | two crashes between FINISH and the unlink of the journal leave two FINISH records, and `recover` fails on its assertion (`transaction.lua:382`) at every start from then on |
| | `UserChangesKept` | the changed files are "put into the journal" (`backend.lua:375`) only in the comment; after a crash in the move the list is wrong and the user's version of a dropped file is deleted without a copy |
| | `SkippedIsMerged` | after an error in the merge the clean-up removes data directories; a crash there makes the resumed transaction take the packages for merged (`backend.lua:747`) |
| | `StatusTruth` | `mv_result` keeps the signal and not the exit code of `mv` (`interpreter.c:537`), so a failed move passes; and `pkg_unpack` ignores the error of `archive.unpack_package` (`backend.lua:437`), so a package that is not unpacked whole (a full disk) is installed as it is |
| | `AlternativesAlwaysBest` | an upgrade to a version that offers less leaves its link |
| | `ChangelogAlwaysTold` | `changelog_open` truncates (`changelog.c:32`), and a transaction resumed after CHANGELOG_START does not write what was in it again, while `docs/changelog.adoc:34` has interrupted transactions in the log |
| `ResolverOrder.cfg`, `MCResolver` | `OptionalTolerated` | an optional repository whose index has no valid signature, or cannot be parsed, ends the run (`postprocess.lua:45`, `:94`): "not fail if it is not possible to receive repository for any reason or to parse it" (`docs/language.txt:279`) |
| | `NewestFirst` | the comparison of candidates is not transitive when packages that provide the group are among them, so an older version may come first |
| | `IntroducedFirst` | of two candidates from repositories of one priority the newer version is put first (`postprocess.lua:242`), whichever repository was introduced first; "In case of equality, the one introduced first wins" (`docs/language.txt:274`) |
| | `EarlierPreferred` | requests that are equal otherwise are tried in the order `table.sort` leaves them in, which is not that of their definition (`docs/language.txt:36`) |
| `SubprocessLosses.cfg`, `MCSubprocess` | `TerminationDetected` | SIGCHLD is blocked after the fork (`subprocess.c:130`), so an early end with a process left in the background is noticed at the limit only |
| | `LimitKept` | the loop that reads a pipe goes on until `read` finds nothing (`subprocess.c:156`) and looks at no limit; a command that always has written again before the next `read` is never stopped, while `tests/c/subprocess.c:47` has the limit work with pipes that are not empty |
| `Unreachable.cfg`, `MCTransfer` | `UnreachableTolerated` | `downloader->failed` has room for one: of several failures in one callback one is told of, and the index of the other optional repository is an error when it is collected |
| `CycleUnnoticed.cfg`, `MCPlan` | `CriticalAcyclic` | a cycle of critical packages is not noticed if a dependency was planned before (`planner.lua:318`) |
| `DriverLosses.cfg`, `MCDriver` | `RunsEnd` | `Install` with `reinstall = true` of a package with `replan`, or `Mode("reinstall_all")` in the configuration, makes `pkgupdate` replace itself for ever (`main.c:135` looks at the mode before the configuration is run) |
| | `RebootDone` | the reboot a recovered transaction asks for is forgotten (`main.c:139`) |
| | `AbiAlwaysFollowed` | `check_abi_change` adds to the table it walks over (`planner.lua:696`, `:727`), so of two changes one may be missed, and what depends on that package is not installed again (`docs/language.txt:449`). `AbiFollowed` is about packages that no other change can make it miss |
| | `RemovedAlwaysFirst` | of packages to be removed that depend on each other, the first the removal comes to is worked on while one that depends on it waits (`planner.lua:741`), so a package outside of the cycle may be removed before one that needs it. `RemovedFirst` leaves out ways through the cycle |
| | `SeenBefore` | a report that is not written whole has the hash of all tasks: who answers it approves what he has not seen |

Others were met while modelling and have no configuration.

Transaction and packages on disk:

- An aborted transaction is resumed when the crash comes between its FINISH
  record and the unlink (`transaction.lua:333`). Two crashes there are what
  `TransactionEnds` excepts, for the reason of `RecoverAssertion`.
- A modified configuration of a package to be removed that is in the way of a
  new file is deleted by the early removal (`transaction.lua:204`), and a file
  that becomes a configuration in the new version has no hash to protect it
  (`transaction.lua:104`), while `docs/opkg.adoc:233` promises that changed
  configurations are kept.
- A modified configuration that the new version of its package no longer has
  stays in root, but its hash goes with the old `Conffiles`
  (`transaction.lua:207`), so nothing protects it when a later version has it
  again. `StatusTruth` leaves these files out (`Dropped`).
- `pkg_move` goes from package to package, and only at its own turn are a package's
  changed files copied (`transaction.lua:204`). One that another package takes over
  earlier in the plan, or that is in the way of an earlier one or of the package's
  own new version, is overwritten or removed without a copy. `ChangesKept` leaves
  these files out.
- `pkg_merge_control` tests the exit code of `cp` before `cp` has ended
  (`backend.lua:846`).
- An index with two blocks of one name keeps the last, whichever version it has
  (a TODO, `postprocess.lua:296`).
- A status file that is one empty line cannot be parsed.
- `ARCHIVE_FAILED` is not handled when an archive in an archive is unpacked.

Processes and events:

- `subprocloc`: a command that closes both outputs is waited for without limit;
  limits are whole seconds of `time(2)`, which a correction of the clock moves.
- `events.c`: a limit that passes in the turn that has reaped the command
  (`events.c:341`) still sends the signal. `events_wait` for an id that has fired
  before sleeps (`events.c:693`), while `events.h:156` says it waits until none
  of the ids is active. `watch_cancel` of a command leaves its child entry
  (`events.c:677`).
- `interpreter.c`: `lua_subprocess` leaks the registry's reference to its
  callback. An error between `run_util` and `events_wait` leaves commands
  running.
- `util.c:119` registers `cleanup_run` with `atexit` in place of
  `cleanup_run_all`; only tests register cleanups.

Uris and downloads:

- `download.c` expects `fwrite` to return -1 on an error, which it never does
  (`download.c:255`): a full disk means an endless loop.
- `ca` and `crl` share one list: setting `crl` drops the authorities, own and
  inherited, and setting `ca` drops inherited lists of revocations, while
  `docs/language.txt` has each of them inherited by itself. An empty `ca` means
  the authorities of the system and not that nothing is verified.
- A local uri with a signature of its own that is remote hits an assertion
  (`uri.c:479`).
- The option `index` of a repository is appended to its URI, while
  `docs/language.txt:268` says that it overrides it.

Scripts and the plan:

- A script inherits the level of its parent if it gives none, while
  `docs/language.txt` deduces it from the URI; the level is checked after the
  download. The requests of a script whose error is caught remain.
- The message about a repetition of a repository (`requests.lua:280` lacks a
  `..`) is an error itself. So is the message about a package without a hash
  (`updater.lua:123`, strings joined by `+`).
- Hooks may be given as `pre_inst` and merge as `pre_install`, so they have no
  effect. `reboot = "immediate"` is replaced by `"finished"` in the warning only
  (`requests.lua:214`); it then wins over `"finished"` of another command about
  the package, and the transaction ignores it.
- `version_cmp` of "01" and "1" says in both orders that the first is greater.
- A package made virtual keeps no candidates of its own (`postprocess.lua:399`);
  if one of them provides another package, it may be chosen there without the
  dependencies it has in the index (`planner.lua:137`).
- `sort_requests` skips its further criteria when one request has
  `critical = false` and the other nothing.
- `check_abi_change` recurses until the stack is full when packages with a changed
  ABI depend on each other, or name each other (`planner.lua:708`): every run of
  the updater then ends with that error. `Converges` excepts this.
- `abi_change = false` is the same as `abi_change = true`: the merged modifier is
  a set with the value as its key.
- A virtual package without a candidate stays on `wstack`, so that a later cycle
  is reported where there is none (`planner.lua:422`).

Programs:

- A recovery that fails ends with exit code 0 (`pkgupdate/main.c:145`); the exit
  code of a run is lost with its `exec`.
- A reinstallation because of a changed ABI is lost if an immediate replan cuts
  the plan.
- `pkgtransaction` ignores requests for a reboot, and dies where
  `pkgupdate` has `journal_abort` clean up.
- `--out-of-root` leaves the reboot of the system enabled, while its help says
  that it is disabled.

## Not modelled, and the plan

What comes next:

1. `Driver` implements the part of `RunState` that one process plays.
2. The collision check of `backend.lua` on a tree with real directories, against
   the relation `Blocks` that `Transaction` assumes.
3. `events_destroy` and the embedded busybox of `run_util`.

Parts of modelled components that are not in the models, with the reason:

- directories other than as obstacles, and hashes as numbers: no property of the
  models would see them;
- the input of commands, `watch_cancel`, and `events_wait` within a callback:
  the updater does not use them;
- options of curl, writing of files, data uris, decompression: they end well or
  not, and that is what the models have of them;
- of the interpreter bindings, the functions that pass values between C and Lua.

Left out for good: the vendored solver (the models have the set of models of its
clauses in its place), libevent and curl themselves, cryptography, the cleanup
stack (only tests register anything in it), configuration and arguments
(constants of a run), logging, and the formatting and wording of texts.
