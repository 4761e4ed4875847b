--------------------------- MODULE RunStateProofs ---------------------------
(***************************************************************************)
(* Proofs about the lock and the state object, for every set of processes. *)
(***************************************************************************)
EXTENDS RunState, TLAPS

USE DEF UpdatersAssumption, NobodyAssumption, MaxDbAssumption
USE UpdatersAssumption, NobodyAssumption, MaxDbAssumption

(* The variables have their types.                                         *)
THEOREM TypeCorrect == Spec => []TypeOK
<1>1. Init => TypeOK
  <2> SUFFICES ASSUME Init PROVE TypeOK
    OBVIOUS
  <2>1. pc \in [Procs -> Stages]
    BY DEF Init, Stages
  <2>2. seen \in [Procs -> 0..MaxDb] /\ db \in 0..MaxDb
    BY DEF Init
  <2>3. holder \in Procs \cup {Nobody} /\ journal \in BOOLEAN
    BY DEF Init
  <2>4. lfile \subseteq Procs /\ stray \subseteq Procs /\ retried \subseteq Procs /\ warned \in BOOLEAN
    BY DEF Init
  <2> QED BY <2>1, <2>2, <2>3, <2>4 DEF TypeOK
<1>2. TypeOK /\ [Next]_vars => TypeOK'
  <2> SUFFICES ASSUME TypeOK, [Next]_vars PROVE TypeOK'
    OBVIOUS
  <2> USE DEF TypeOK, Stages, Enter, GetState, Reuse, Acquire, Dropped, Collected, Exit, Release
  <2>1. ASSUME NEW p \in Procs, Start(p) PROVE TypeOK'
    BY <2>1 DEF Start
  <2>2. ASSUME NEW p \in Procs, Recover(p) PROVE TypeOK'
    BY <2>2 DEF Recover
  <2>3. ASSUME NEW p \in Procs, LoadStateVars(p) PROVE TypeOK'
    <3>1. CASE GetState(p)
      BY <2>3, <3>1 DEF LoadStateVars
    <3>2. CASE ~GetState(p)
      BY <2>3, <3>2 DEF LoadStateVars
    <3> QED BY <3>1, <3>2
  <2>4. ASSUME NEW p \in Procs, Prepare(p) PROVE TypeOK'
    BY <2>4 DEF Prepare
  <2>5. ASSUME NEW p \in Procs, PerformQueue(p) PROVE TypeOK'
    BY <2>5 DEF PerformQueue
  <2>6. ASSUME NEW p \in Procs, Perform(p) PROVE TypeOK'
    BY <2>6 DEF Perform
  <2>7. ASSUME NEW p \in Procs, StatusDump(p) PROVE TypeOK'
    BY <2>7 DEF StatusDump
  <2>8. ASSUME NEW p \in Procs, Finish(p) PROVE TypeOK'
    BY <2>8 DEF Finish
  <2>9. ASSUME NEW p \in Procs, GoOn(p) PROVE TypeOK'
    BY <2>9 DEF GoOn
  <2>10. ASSUME NEW p \in Procs, Fail(p) PROVE TypeOK'
    BY <2>10 DEF Fail
  <2>11. ASSUME NEW p \in Procs, Quit(p) PROVE TypeOK'
    BY <2>11 DEF Quit
  <2>12. ASSUME NEW p \in Procs, Collect(p) PROVE TypeOK'
    BY <2>12 DEF Collect
  <2>13. CASE UNCHANGED vars
    BY <2>13 DEF vars
  <2> QED BY <2>1, <2>2, <2>3, <2>4, <2>5, <2>6, <2>7, <2>8, <2>9, <2>10, <2>11, <2>12, <2>13
          DEF Next
<1> QED BY <1>1, <1>2, PTL DEF Spec

-----------------------------------------------------------------------------
\* Nobody gets into a transaction without the state object.  An object waiting
\* for the collector is the remainder of a refusal.
Clean == /\ InTransaction \subseteq lfile
         /\ stray \subseteq retried
         /\ CleanHolder

LEMMA CleanInductive == TypeOK /\ Clean /\ [Next]_vars => Clean'
<1> SUFFICES ASSUME TypeOK, Clean, [Next]_vars PROVE Clean'
  OBVIOUS
<1> USE DEF TypeOK, Clean, CleanHolder, InTransaction, Stages, Enter
<1>1. ASSUME NEW p \in Procs, Start(p) PROVE Clean'
  BY <1>1 DEF Start
<1>2. ASSUME NEW p \in Procs, Recover(p) PROVE Clean'
  BY <1>2 DEF Recover, GetState, Reuse, Acquire
<1>3. ASSUME NEW p \in Procs, LoadStateVars(p) PROVE Clean'
  BY <1>3 DEF LoadStateVars, GetState, Reuse, Acquire
<1>4. ASSUME NEW p \in Procs, Prepare(p) PROVE Clean'
  BY <1>4 DEF Prepare, GetState, Reuse, Acquire
<1>5. ASSUME NEW p \in Procs, PerformQueue(p) PROVE Clean'
  BY <1>5 DEF PerformQueue, Collected, Dropped
<1>6. ASSUME NEW p \in Procs, Perform(p) PROVE Clean'
  BY <1>6 DEF Perform, GetState, Reuse, Acquire
<1>7. ASSUME NEW p \in Procs, StatusDump(p) PROVE Clean'
  BY <1>7 DEF StatusDump
<1>8. ASSUME NEW p \in Procs, Exit(p) PROVE Clean'
  BY <1>8 DEF Exit, Dropped
<1>9. ASSUME NEW p \in Procs, GoOn(p) PROVE Clean'
  BY <1>9 DEF GoOn, Release, Dropped
<1>10. ASSUME NEW p \in Procs, Collect(p) PROVE Clean'
  BY <1>10 DEF Collect, Collected, Dropped
<1>11. CASE UNCHANGED vars
  BY <1>11 DEF vars
<1> QED BY <1>1, <1>2, <1>3, <1>4, <1>5, <1>6, <1>7, <1>8, <1>9, <1>10, <1>11
        DEF Next, Finish, Fail, Quit

(* A process that was not refused the lock in its run has it from its      *)
(* planning to the end of its transaction.                                 *)
THEOREM CleanProcessesHoldLock == Spec => []CleanHolder
<1>1. Init => Clean
  BY DEF Init, Clean, CleanHolder, InTransaction
<1>2. Clean => CleanHolder
  BY DEF Clean
<1> QED BY <1>1, <1>2, CleanInductive, TypeCorrect, PTL DEF Spec

-----------------------------------------------------------------------------
\* While nobody was refused and went on: no lock object is left behind, and
\* who has the state object has the status as it is in the file.
Unwarned == ~warned => /\ retried = {}
                       /\ \A p \in lfile : seen[p] = db
                       /\ InTransaction # {} => journal

LEMMA UnwarnedInductive == TypeOK /\ Clean /\ Unwarned /\ [Next]_vars => Unwarned'
<1> SUFFICES ASSUME TypeOK, Clean, Unwarned, [Next]_vars, ~warned'
             PROVE  /\ retried' = {}
                    /\ \A p \in lfile' : seen'[p] = db'
                    /\ InTransaction' # {} => journal'
  BY DEF Unwarned
<1>1. ~warned
  BY DEF Next, Start, Recover, LoadStateVars, Prepare, PerformQueue, Perform, StatusDump,
         Finish, GoOn, Fail, Quit, Collect, GetState, vars
<1>2. /\ retried = {} /\ stray = {}
      /\ \A p \in lfile : seen[p] = db /\ holder = p
      /\ InTransaction \subseteq lfile
      /\ InTransaction # {} => journal
  BY <1>1 DEF Unwarned, Clean, CleanHolder
<1> DEFINE Goal == /\ retried' = {}
                   /\ \A p \in lfile' : seen'[p] = db'
                   /\ InTransaction' # {} => journal'
<1> USE DEF TypeOK, InTransaction, Stages, Enter
<1>3. ASSUME NEW p \in Procs, Start(p) PROVE Goal
  BY <1>2, <1>3 DEF Start
<1>4. ASSUME NEW p \in Procs, Recover(p) PROVE Goal
  BY <1>2, <1>4 DEF Recover, GetState, Reuse, Acquire
<1>5. ASSUME NEW p \in Procs, LoadStateVars(p) PROVE Goal
  BY <1>2, <1>5 DEF LoadStateVars, GetState, Reuse, Acquire
<1>6. ASSUME NEW p \in Procs, Prepare(p) PROVE Goal
  BY <1>2, <1>6 DEF Prepare, GetState, Reuse, Acquire
<1>7. ASSUME NEW p \in Procs, PerformQueue(p) PROVE Goal
  BY <1>2, <1>7 DEF PerformQueue
<1>8. ASSUME NEW p \in Procs, Perform(p) PROVE Goal
  BY <1>2, <1>8 DEF Perform, GetState, Reuse, Acquire
<1>9. ASSUME NEW p \in Procs, StatusDump(p) PROVE Goal
  BY <1>2, <1>9 DEF StatusDump
<1>10. ASSUME NEW p \in Procs, Finish(p) PROVE Goal
  BY <1>2, <1>10 DEF Finish, Exit
<1>11. ASSUME NEW p \in Procs, GoOn(p) PROVE Goal
  BY <1>2, <1>11 DEF GoOn, Release
<1>12. ASSUME NEW p \in Procs, Fail(p) PROVE Goal
  BY <1>2, <1>12 DEF Fail, Exit
<1>13. ASSUME NEW p \in Procs, Quit(p) PROVE Goal
  BY <1>2, <1>13 DEF Quit, Exit
<1>14. ASSUME NEW p \in Procs, Collect(p) PROVE Goal
  BY <1>2, <1>14 DEF Collect
<1>15. CASE UNCHANGED vars
  BY <1>2, <1>15 DEF vars
<1> QED BY <1>3, <1>4, <1>5, <1>6, <1>7, <1>8, <1>9, <1>10, <1>11, <1>12, <1>13, <1>14, <1>15
        DEF Next

(* As long as no process went on after a refusal, any number of pkgupdate  *)
(* and pkgtransaction processes, killed and restarted at will, work on the *)
(* status file as it is, and never without a journal.                      *)
THEOREM TransactionsExclude == Spec => []StatusCurrent
<1>1. Init => Clean /\ Unwarned
  <2> SUFFICES ASSUME Init PROVE Clean /\ Unwarned
    OBVIOUS
  <2>1. InTransaction = {}
    BY DEF Init, InTransaction
  <2> QED BY <2>1 DEF Init, Clean, CleanHolder, Unwarned
<1>2. Clean /\ Unwarned => StatusCurrent
  BY DEF Clean, Unwarned, StatusCurrent
<1> QED BY <1>1, <1>2, CleanInductive, UnwarnedInductive, TypeCorrect, PTL DEF Spec
=============================================================================
