------------------------------ MODULE RunState ------------------------------
(***************************************************************************)
(* Who may work on the packages: the lock file (src/lib/locks.c), the      *)
(* state object that holds it together with the contents of the status     *)
(* file (run_state of src/lib/lua/backend.lua), and the order in which the *)
(* programs pkgupdate and pkgtransaction ask for it.                       *)
(*                                                                         *)
(* The lock is a POSIX record lock.  It belongs to the process and not to  *)
(* the descriptor: when a process closes any descriptor of the file, its   *)
(* lock is gone.  A lock object whose acquisition failed keeps its         *)
(* descriptor open until the garbage collector finds it.                   *)
(***************************************************************************)
EXTENDS Integers, FiniteSets

CONSTANTS Procs,     \* processes that may run, again and again
          Updaters,  \* those of them that run pkgupdate; the others pkgtransaction
          Nobody,    \* the lock is free
          MaxDb      \* bound of the versions of the status file

ASSUME UpdatersAssumption == Updaters \subseteq Procs
ASSUME NobodyAssumption == Nobody \notin Procs
ASSUME MaxDbAssumption == MaxDb \in Nat

VARIABLES
  pc,       \* [Procs -> Stages]
  holder,   \* the process that has the record lock, as the kernel sees it
  lfile,    \* the processes whose run_state is initialized and has a locked object
  stray,    \* the processes with a failed lock object that is not collected yet
  seen,     \* [Procs -> version]: run_state.status
  db,       \* version of the status file
  journal,  \* a journal exists
  retried,  \* history: processes that failed to get the lock in this run, and went on
  warned    \* history: some process did so, in any run

vars == <<pc, holder, lfile, stray, seen, db, journal, retried, warned>>

Stages == {"off", "recover", "replay", "replayed", "config", "prepare", "planned",
           "perform", "transaction", "dumped"}

Init == /\ pc = [p \in Procs |-> "off"]
        /\ holder = Nobody
        /\ lfile = {} /\ stray = {} /\ retried = {}
        /\ seen = [p \in Procs |-> 0]
        /\ db = 0
        /\ journal = FALSE
        /\ warned = FALSE

-----------------------------------------------------------------------------
Enter(p, stage) == pc' = [pc EXCEPT ![p] = stage]

\* A descriptor of the lock file is closed by p, or p ends.
Dropped(p) == IF holder = p THEN Nobody ELSE holder

\* The process ends, and all it has open is closed: return of main, an error
\* that main does not survive, or a kill.
Exit(p) == /\ Enter(p, "off")
           /\ holder' = Dropped(p)
           /\ lfile' = lfile \ {p}
           /\ stray' = stray \ {p}
           /\ retried' = retried \ {p}

\* backend.run_state: what is cached is given out, else run_state_cache:init
\* takes the lock and reads the status file.
Reuse(p) == p \in lfile /\ UNCHANGED <<holder, lfile, seen>>

\* Fault: the status of an earlier time is used again.
AcquireStale(p) == /\ p \notin lfile
                   /\ holder \in {Nobody, p}
                   /\ holder' = p
                   /\ lfile' = lfile \cup {p}
                   /\ UNCHANGED seen

Acquire(p) == /\ p \notin lfile
              /\ holder \in {Nobody, p}
              /\ holder' = p
              /\ lfile' = lfile \cup {p}
              /\ seen' = [seen EXCEPT ![p] = db]

GetState(p) == (Reuse(p) \/ Acquire(p)) /\ UNCHANGED <<stray, retried, warned>>
Refused(p) == p \notin lfile /\ holder \notin {Nobody, p}

\* Fault: the state object stays initialized.
ReleaseHalf(p) == /\ holder' = Dropped(p)
                  /\ UNCHANGED lfile

\* run_state:release, with the unlock and the close of lua_lock_release.
Release(p) == /\ holder' = Dropped(p)
              /\ lfile' = lfile \ {p}

\* lua_lock_gc on the failed object; the collector may run at any time.
Collected(p) == IF p \in stray THEN Dropped(p) ELSE holder

Collect(p) == /\ p \in stray
              /\ holder' = Collected(p)
              /\ stray' = stray \ {p}
              /\ UNCHANGED <<pc, lfile, seen, db, journal, retried, warned>>

-----------------------------------------------------------------------------
\* pkgupdate looks for a journal before it has the lock.  pkgtransaction is
\* told what to do.
Start(p) == /\ pc[p] = "off"
            /\ IF p \in Updaters THEN Enter(p, IF journal THEN "recover" ELSE "config")
               ELSE Enter(p, "recover") \/ Enter(p, "perform")
            /\ UNCHANGED <<holder, lfile, stray, seen, db, journal, retried, warned>>

\* Fault: the journal that was seen before the lock is taken to be there still.
RecoverUnseen(p) == /\ pc[p] = "recover"
                    /\ GetState(p)
                    /\ Enter(p, "replay")
                    /\ UNCHANGED <<db, journal>>

\* transaction.recover; pkgupdate goes on when there is nothing to recover.
Recover(p) == /\ pc[p] = "recover"
              /\ GetState(p)
              /\ Enter(p, IF journal THEN "replay"
                          ELSE IF p \in Updaters THEN "config" ELSE "off")
              /\ UNCHANGED <<db, journal>>

\* sandbox.load_state_vars only warns when it gets no state.
LoadStateVars(p) ==
  /\ pc[p] = "config"
  /\ Enter(p, "prepare")
  /\ \/ GetState(p)
     \/ /\ Refused(p)
        /\ stray' = stray \cup {p}
        /\ retried' = retried \cup {p}
        /\ warned' = TRUE
        /\ UNCHANGED <<holder, lfile, seen>>
  /\ UNCHANGED <<db, journal>>

\* updater.prepare plans from run_state.status; downloads and the approval follow.
Prepare(p) == /\ pc[p] = "prepare"
              /\ GetState(p)
              /\ Enter(p, "planned")
              /\ UNCHANGED <<db, journal>>

\* transaction.perform_queue collects the garbage first.
PerformQueue(p) == /\ pc[p] = "planned"
                   /\ Enter(p, "perform")
                   /\ holder' = Collected(p)
                   /\ stray' = stray \ {p}
                   /\ UNCHANGED <<lfile, seen, db, journal, retried, warned>>

\* transaction.perform; journal.fresh fails when there is a journal.
Perform(p) == /\ pc[p] = "perform"
              /\ ~journal
              /\ GetState(p)
              /\ Enter(p, "transaction")
              /\ journal' = TRUE
              /\ UNCHANGED db

\* status_dump at the end of perform_internal: status_parse's table, changed.
StatusDump(p) == /\ pc[p] \in {"transaction", "replay"}
                 /\ db < MaxDb
                 /\ db' = db + 1
                 /\ seen' = [seen EXCEPT ![p] = db']
                 /\ Enter(p, IF pc[p] = "replay" THEN "replayed" ELSE "dumped")
                 /\ UNCHANGED <<holder, lfile, stray, journal, retried, warned>>

\* journal.finish and run_state:release, after which the program ends.
Finish(p) == /\ pc[p] \in {"dumped", "replayed"}
             /\ journal' = FALSE
             /\ Exit(p)
             /\ UNCHANGED <<seen, db, warned>>

\* After a recovery without failed scripts pkgupdate goes on to plan.
GoOn(p) == /\ pc[p] = "replayed" /\ p \in Updaters
           /\ journal' = FALSE
           /\ Release(p)
           /\ Enter(p, "config")
           /\ UNCHANGED <<stray, seen, db, retried, warned>>

\* The lock is refused, or there is a journal: the error ends the process.
Fail(p) == /\ \/ pc[p] \in {"recover", "prepare", "perform"} /\ Refused(p)
              \/ pc[p] = "perform" /\ journal
           /\ Exit(p)
           /\ UNCHANGED <<seen, db, journal, warned>>

InTransaction == {p \in Procs : pc[p] \in {"transaction", "dumped", "replay", "replayed"}}

\* Nothing to do or no approval; a kill at any time; an error in the
\* transaction, which removes the journal.
Quit(p) == /\ pc[p] # "off"
           /\ Exit(p)
           /\ journal' \in IF p \in InTransaction THEN {journal, FALSE} ELSE {journal}
           /\ UNCHANGED <<seen, db, warned>>

Next == \E p \in Procs : \/ Start(p) \/ Recover(p) \/ LoadStateVars(p) \/ Prepare(p)
                         \/ PerformQueue(p) \/ Perform(p) \/ StatusDump(p) \/ Finish(p)
                         \/ GoOn(p) \/ Fail(p) \/ Quit(p) \/ Collect(p)

Spec == Init /\ [][Next]_vars

-----------------------------------------------------------------------------
(* The variables have their types.                                         *)
TypeOK == /\ pc \in [Procs -> Stages]
          /\ holder \in Procs \cup {Nobody}
          /\ lfile \subseteq Procs
          /\ stray \subseteq Procs
          /\ seen \in [Procs -> 0..MaxDb]
          /\ db \in 0..MaxDb
          /\ journal \in BOOLEAN
          /\ retried \subseteq Procs
          /\ warned \in BOOLEAN

(* "The lock file is expected to be already acquired and is released at    *)
(* the end": a process in a transaction has the lock.                      *)
LockHeld == \A p \in InTransaction : holder = p

(* The same for every process that has not been refused the lock before:   *)
(* such a one has the lock from its planning to the end of its transaction. *)
CleanHolder == \A p \in (lfile \cup InTransaction) \ retried : holder = p

(* As long as nobody went on after a refusal, a transaction, the replay of *)
(* one left by a killed process included, works on the status file as it   *)
(* is: no other process wrote it since it was read for the planning.  And  *)
(* it has its journal: nobody removes another's, and a journal that        *)
(* pkgupdate saw before it had the lock, and that is gone, is not replayed. *)
StatusCurrent == ~warned => /\ \A p \in InTransaction : seen[p] = db
                            /\ InTransaction # {} => journal
=============================================================================
