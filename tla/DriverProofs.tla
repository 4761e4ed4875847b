---------------------------- MODULE DriverProofs ----------------------------
(***************************************************************************)
(* Proofs about the runs of the updater, for all packages, configurations, *)
(* requests, faults and uses of pkgtransaction.                            *)
(***************************************************************************)
EXTENDS Driver, TLAPS

USE DEF opts, lua, process, asking, disk, user, history, Stages

Counted == MaxFaults \in Nat /\ faults \in Nat

\* The steps of main, grouped by where it goes on.
Ending == PrepareFails \/ PrepareOverflows \/ NothingToDo \/ NotConfirmed \/ CloseReport
Answering == Confirmed \/ NotAsked \/ Approved
Reporting == ApprovalHash \/ OpenReport \/ TaskReport
               \/ \E lines \in SUBSET Lines(tasks) : WriteReport(lines)
Dying == Abort \/ \E power \in BOOLEAN : Killed(power)

LEMMA Steps ==
  ASSUME Next
  PROVE  \/ Start \/ NoJournal \/ Recover \/ Prepare \/ Ending \/ Answering \/ Reporting \/ Approve
         \/ TasksToTransaction \/ PreUpdate \/ Begin \/ Perform \/ PreCleanup \/ Reexec
         \/ PostUpdate \/ Exit \/ Dying \/ PkgTransaction
  BY DEF Next, Run, Ending, Answering, Reporting, Dying

LEMMA CountedKept == ASSUME Counted, [Next]_vars PROVE Counted' /\ faults' >= faults
<1>1. CASE UNCHANGED faults
  BY <1>1 DEF Counted
<1>2. CASE faults' = faults + 1
  BY <1>2 DEF Counted
<1>3. Next => UNCHANGED faults \/ faults' = faults + 1
  BY Steps DEF Start, Main, NoJournal, Recover, Prepare, Ending, PrepareFails,
     PrepareOverflows, NothingToDo, NotConfirmed, CloseReport, Answering, Confirmed, NotAsked,
     Approved, Reporting, ApprovalHash, OpenReport, TaskReport, WriteReport, Approve,
     TasksToTransaction, PreUpdate, Begin, Perform, PreCleanup, Reexec, PostUpdate, Exit, Dying,
     Abort, Killed, PkgTransaction, Resume, AddPackage, RemovePackage, Offline
<1> QED BY <1>1, <1>2, <1>3 DEF vars

-----------------------------------------------------------------------------
(* The hooks.                                                              *)

\* Before the preupdate hook only a run after an exec has a hook behind it, and it finds no
\* journal: the transaction of the process before it is over.
HookStages == /\ pc \in Stages /\ reexec \in BOOLEAN /\ hooks \in BOOLEAN
              /\ pc \in {"off", "cleanup"} => ~hooks
              /\ pc \in {"main", "prepare", "filtered", "hashed", "opened", "reported", "approved",
                         "queued"} => (hooks <=> reexec)
              /\ pc \in {"hooked", "perform", "done", "postupdate"} => hooks
              /\ pc = "done" \/ (pc = "main" /\ reexec) => journal = <<>>

LEMMA HookStagesKept == ASSUME HookStages, [Next]_vars PROVE HookStages'
<1> USE DEF HookStages
<1>1. CASE Start
  BY <1>1 DEF Start, Main
<1>2. CASE NoJournal \/ Prepare
  BY <1>2 DEF NoJournal, Prepare
<1>3. CASE Recover
  BY <1>3 DEF Recover
<1>4. CASE Ending
  BY <1>4 DEF Ending, PrepareFails, PrepareOverflows,
     NothingToDo, NotConfirmed, CloseReport, GotoCleanup
<1>5. CASE Answering
  BY <1>5 DEF Answering, Confirmed, NotAsked, Approved
<1>6. CASE Reporting
  BY <1>6 DEF Reporting, ApprovalHash, OpenReport, TaskReport, WriteReport
<1>7. CASE Approve \/ TasksToTransaction \/ Begin
  BY <1>7 DEF Approve, TasksToTransaction, Begin
<1>8. CASE Perform
  BY <1>8 DEF Perform, Apply
<1>9. CASE PreUpdate
  <2>1. hooks'
    BY <1>9 DEF PreUpdate
  <2> QED BY <1>9, <2>1 DEF PreUpdate
<1>10. CASE PreCleanup
  BY <1>10 DEF PreCleanup
<1>11. CASE Reexec
  BY <1>11 DEF Reexec
<1>12. CASE PostUpdate \/ Exit
  <2>1. CASE PostUpdate
    <3>1. ~hooks' /\ hooks' \in BOOLEAN
      BY <2>1 DEF PostUpdate
    <3> QED BY <2>1, <3>1 DEF PostUpdate
  <2>2. CASE Exit
    BY <2>2 DEF Exit
  <2> QED BY <1>12, <2>1, <2>2
<1>13. CASE Dying
  BY <1>13 DEF Dying, Abort, Killed
<1>14. CASE PkgTransaction
  BY <1>14 DEF PkgTransaction, Resume, AddPackage, RemovePackage, Offline
<1>15. CASE UNCHANGED vars
  BY <1>15 DEF vars
<1> QED BY <1>1, <1>2, <1>3, <1>4, <1>5, <1>6, <1>7, <1>8, <1>9, <1>10, <1>11, <1>12, <1>13,
           <1>14, <1>15, Steps

(* Every run that ends has run the postupdate hook if it, or a process it  *)
(* replaced by exec, ran the preupdate hook, and the postupdate hook never *)
(* runs alone, whatever fails on the way (GOTO_CLEANUP, main.c).           *)
THEOREM HooksAlways == Spec => []HooksPaired
<1>1. Init => HookStages
  BY DEF Init, HookStages
<1>2. HookStages => HooksPaired
  BY DEF HookStages, HooksPaired
<1> QED BY <1>1, <1>2, HookStagesKept, PTL DEF Spec

-----------------------------------------------------------------------------
(* Reboots.                                                                *)

\* As long as nothing fails, what is due is known to the process: by the flag it hands over to
\* the next one, or by what the transaction it has just done asked for.
RebootKnown ==
  faults = 0 =>
    /\ journal # <<>> => pc = "perform"
    /\ pc = "off" => due = {}
    /\ pc # "done" => reboot_finished \/ due = {}
    /\ pc = "done" => \/ reboot_finished \/ due = {}
                      \/ cleanup_actions.reboot = "finished"
                      \/ cleanup_actions.reboot = "delayed" /\ due = {"delayed"}

LEMMA RebootKnownKept ==
  ASSUME Counted, HookStages, RebootKnown, [Next]_vars
  PROVE  RebootKnown'
<1> SUFFICES ASSUME faults' = 0 PROVE RebootKnown'
  BY DEF RebootKnown
<1>1. faults = 0
  BY CountedKept DEF Counted
<1> USE <1>1 DEF RebootKnown
<1>2. CASE Start
  BY <1>2 DEF Start, Main
<1>3. CASE NoJournal \/ Recover \/ Prepare
  BY <1>3 DEF NoJournal, Recover, Prepare
<1>4. CASE Ending
  BY <1>4 DEF Ending, PrepareFails, PrepareOverflows,
     NothingToDo, NotConfirmed, CloseReport, GotoCleanup
<1>5. CASE Answering
  BY <1>5 DEF Answering, Confirmed, NotAsked, Approved
<1>6. CASE Reporting
  BY <1>6 DEF Reporting, ApprovalHash, OpenReport, TaskReport, WriteReport
<1>7. CASE Approve \/ TasksToTransaction \/ PreUpdate \/ Begin
  BY <1>7 DEF Approve, TasksToTransaction, PreUpdate, Begin
<1>8. CASE Perform
  <2> DEFINE asked == {conf.reboot[p] : p \in ToSet(tasks.install)}
  <2>1. /\ pc = "perform" /\ pc' = "done" /\ reboot_finished' = reboot_finished /\ journal' = <<>>
        /\ due' = due \cup (asked \cap {"delayed", "finished"})
        /\ cleanup_actions'.reboot = IF "finished" \in asked THEN "finished"
                                     ELSE IF "delayed" \in asked THEN "delayed" ELSE "none"
    BY <1>8 DEF Perform, Apply, CleanupActions
  <2> HIDE DEF asked
  <2> QED BY <2>1
<1>9. CASE PreCleanup \/ Reexec
  <2>1. /\ pc = "done" /\ pc' \in {"postupdate", "main"} /\ due' = Announced /\ journal' = journal
        /\ reboot_finished' = RebootFinished
    BY <1>9 DEF PreCleanup, Reexec
  <2>2. journal = <<>>
    BY <2>1 DEF HookStages
  <2>3. reboot_finished' \/ due' = {}
    BY <2>1 DEF Announced, RebootFinished
  <2> QED BY <2>1, <2>2, <2>3
<1>10. CASE PostUpdate \/ Exit
  BY <1>10 DEF PostUpdate, Exit
<1>11. CASE Dying \/ PkgTransaction
  BY <1>11 DEF Dying, Abort, Killed, PkgTransaction, Resume, AddPackage, RemovePackage, Offline
<1>12. CASE UNCHANGED vars
  BY <1>12 DEF vars
<1> QED BY <1>2, <1>3, <1>4, <1>5, <1>6, <1>7, <1>8, <1>9, <1>10, <1>11, <1>12, Steps

(* A reboot a package asks for is not lost over the runs after an exec,    *)
(* and a delayed one is announced if it is not done: without a fault the   *)
(* updater does not end before.                                            *)
THEOREM RebootsKept == Spec => []RebootKept
<1>1. ASSUME Init PROVE Counted /\ HookStages /\ RebootKnown
  <2>1. Counted /\ HookStages
    BY <1>1, BoundAssumption DEF Init, Counted, HookStages
  <2>2. RebootKnown
    BY <1>1 DEF Init, RebootKnown
  <2> QED BY <2>1, <2>2
<1>2. Counted /\ RebootKnown => RebootKept
  BY DEF Counted, RebootKnown, RebootKept
<1> QED BY <1>1, <1>2, CountedKept, HookStagesKept, RebootKnownKept, PTL DEF Spec

-----------------------------------------------------------------------------
(* Approvals.                                                              *)

\* The user has seen what the tasks are.
Approval(t) == IF conf.batch THEN Lines(t) \in seen ELSE t \in seen
Asks == conf.approval \/ ~conf.batch

\* From where a hash goes into the report to the transaction: the hash is the one of the tasks,
\* the report has the hash of its lines, so that what is approved was seen.
Informed ==
  /\ approvals \subseteq seen
  /\ report # <<>> => \/ report[1].hash = {} \/ report[1].lines = {}
                      \/ report[1].hash = report[1].lines
                      \/ pc = "reported" /\ conf.long
  /\ pc \in {"hashed", "opened", "reported"} => conf.batch
  /\ pc = "hashed" => results = "hash"
  /\ pc \in {"opened", "reported"} => buffer = <<Lines(tasks)>>
  /\ Asks => /\ pc \in {"approved", "queued", "hooked", "perform"} => Approval(tasks)
             /\ journal # <<>> => Approval(journal[1])

\* Nothing is known of a report in pieces.
InPieces == conf.long /\ faults > 0

LEMMA SameConf == ASSUME [Next]_vars PROVE conf' = conf /\ seen \subseteq seen'
<1>1. ASSUME Next PROVE conf' = conf /\ seen \subseteq seen'
  BY <1>1, Steps DEF Start, Main, NoJournal, Recover, Prepare, Ending, PrepareFails,
     PrepareOverflows, NothingToDo, NotConfirmed, CloseReport, Answering, Confirmed, NotAsked,
     Approved, Reporting, ApprovalHash, OpenReport, TaskReport, WriteReport, Approve,
     TasksToTransaction, PreUpdate, Begin, Perform, PreCleanup, Reexec, PostUpdate, Exit, Dying,
     Abort, Killed, PkgTransaction, Resume, AddPackage, RemovePackage, Offline
<1> QED BY <1>1 DEF vars

LEMMA StillApproved ==
  ASSUME [Next]_vars
  PROVE  /\ \A t : Approval(t) => Approval(t)'
         /\ Asks' = Asks
<1>1. \A t : Lines(t)' = Lines(t)
  BY SameConf DEF Lines
<1> QED BY <1>1, SameConf DEF Approval, Asks

LEMMA InformedKept ==
  ASSUME Counted, Informed, [Next]_vars, ~InPieces'
  PROVE  Informed'
<1> DEFINE L == Lines(tasks)
<1>1. /\ conf' = conf /\ seen \subseteq seen' /\ Asks' = Asks /\ ~InPieces
      /\ \A t : Approval(t) => Approval(t)'
  BY SameConf, StillApproved, CountedKept DEF InPieces, Counted
<1>2. tasks' = tasks => Lines(tasks)' = Lines(tasks) /\ (Approval(tasks) => Approval(tasks)')
  BY <1>1 DEF Lines, Approval
<1>3. journal' = journal => (Approval(journal[1]) => Approval(journal[1])')
  BY <1>1 DEF Approval, Lines
<1> USE DEF Informed
<1>5. CASE Start \/ NoJournal \/ Prepare
  BY <1>1, <1>3, <1>5 DEF Start, Main, NoJournal, Prepare
<1>6. CASE Recover
  BY <1>1, <1>6 DEF Recover, Apply
<1>7. CASE Ending
  <2>1. CASE CloseReport
    <3>1. report' = <<[hash |-> L, lines |-> L]>>
      BY <2>1 DEF CloseReport
    <3>2. pc' \in {"postupdate", "cleanup"} /\ UNCHANGED <<journal, seen, approvals>>
      BY <2>1 DEF CloseReport, GotoCleanup
    <3> QED BY <1>1, <1>3, <3>1, <3>2
  <2>2. CASE ~CloseReport
    <3>1. pc' \in {"postupdate", "cleanup"} /\ UNCHANGED <<journal, seen, approvals>> /\ report' \in {report, <<>>}
          /\ pc # "reported"
      BY <1>7, <2>2 DEF Ending, PrepareFails, PrepareOverflows,
         NothingToDo, NotConfirmed, GotoCleanup, approval_clean
    <3> QED BY <1>1, <1>3, <3>1
  <2> QED BY <2>1, <2>2
<1>8. CASE Answering
  <2>1. /\ pc' = "approved" /\ UNCHANGED <<tasks, journal, approvals>>
        /\ report' = <<>> \/ (report' = report /\ pc # "reported")
    BY <1>8 DEF Answering, Confirmed, NotAsked, Approved, approval_clean
  <2>2. approvals' \subseteq seen'
    BY <1>1, <2>1
  <2>3. ASSUME Asks PROVE Approval(tasks)'
    <3>1. CASE Confirmed
      BY <1>1, <3>1 DEF Confirmed, Approval
    <3>2. CASE NotAsked
      BY <2>3, <3>2 DEF NotAsked, Asks
    <3>3. CASE Approved
      <4>1. L \in seen /\ conf.batch
        BY <3>3 DEF Approved, hash
      <4> QED BY <1>2, <2>1, <4>1 DEF Approval
    <3> QED BY <1>8, <3>1, <3>2, <3>3 DEF Answering
  <2> QED BY <1>1, <1>3, <2>1, <2>2, <2>3
<1>9. CASE Reporting
  <2>1. UNCHANGED <<tasks, journal, approvals, seen>> /\ pc' \in {"hashed", "opened", "reported"}
    BY <1>9 DEF Reporting, ApprovalHash, OpenReport, TaskReport, WriteReport
  <2>2. conf.batch /\ L' = L
    BY <1>1, <1>2, <1>9, <2>1 DEF Reporting, ApprovalHash, OpenReport, TaskReport, WriteReport
  <2>3. pc' = "hashed" => results' = "hash"
    BY <1>9 DEF Reporting, ApprovalHash, OpenReport, TaskReport, WriteReport, Call
  <2>4. pc' \in {"opened", "reported"} => buffer' = <<L>>
    <3>1. CASE OpenReport
      BY <3>1 DEF OpenReport, hash
    <3>2. CASE ~OpenReport
      BY <1>9, <3>2 DEF Reporting, ApprovalHash, TaskReport, WriteReport
    <3> QED BY <3>1, <3>2
  <2>5. report' # <<>> => \/ report'[1].hash = {} \/ report'[1].lines = {}
                          \/ report'[1].hash = report'[1].lines
                          \/ pc' = "reported" /\ conf.long
    <3>1. CASE OpenReport
      BY <3>1 DEF OpenReport
    <3>2. CASE \E lines \in SUBSET Lines(tasks) : WriteReport(lines)
      BY <3>2 DEF WriteReport
    <3>3. CASE ApprovalHash \/ TaskReport
      BY <3>3 DEF ApprovalHash, TaskReport
    <3> QED BY <1>9, <3>1, <3>2, <3>3 DEF Reporting
  <2> QED BY <1>1, <1>3, <2>1, <2>2, <2>3, <2>4, <2>5
<1>10. CASE Approve
  <2>1. /\ UNCHANGED <<pc, tasks, journal, report>> /\ pc = "off"
        /\ approvals' = approvals \cup {report[1].hash} /\ seen' = seen \cup {report[1].lines}
        /\ report # <<>> /\ report[1].hash # {} /\ report[1].lines # {}
    BY <1>10 DEF Approve
  <2>2. report[1].hash = report[1].lines
    BY <2>1
  <2> QED BY <1>1, <1>3, <2>1, <2>2
<1>11. CASE TasksToTransaction \/ PreUpdate
  BY <1>1, <1>2, <1>3, <1>11 DEF TasksToTransaction, PreUpdate
<1>12. CASE Begin
  <2>1. /\ UNCHANGED <<tasks, approvals, report, seen>> /\ pc = "hooked" /\ pc' = "perform"
        /\ journal' = <<tasks>>
    BY <1>12 DEF Begin
  <2>2. Asks => Approval(tasks)'
    BY <1>2, <2>1
  <2>3. Asks => Approval(journal[1])'
    BY <2>1, <2>2 DEF Approval, Lines
  <2> QED BY <1>1, <2>1, <2>2, <2>3
<1>13. CASE Perform
  BY <1>1, <1>13 DEF Perform, Apply
<1>14. CASE PreCleanup \/ Reexec \/ PostUpdate \/ Exit
  BY <1>1, <1>3, <1>14 DEF PreCleanup, Reexec, PostUpdate, Exit
<1>15. CASE Dying
  <2>1. /\ pc' = "off" /\ UNCHANGED <<journal, approvals, report, seen>> /\ faults' > 0
    <3>1. pc' = "off" /\ UNCHANGED <<journal, approvals, report, seen>> /\ faults' = faults + 1
      BY <1>15 DEF Dying, Abort, Killed
    <3> QED BY <3>1 DEF Counted
  <2>2. ~conf.long
    BY <1>1, <2>1 DEF InPieces
  <2> QED BY <1>1, <1>3, <2>1, <2>2
<1>16. CASE PkgTransaction
  <2>1. /\ UNCHANGED <<pc, approvals, report, seen>> /\ pc = "off" /\ journal' \in {journal, <<>>}
    BY <1>16 DEF PkgTransaction, Resume, AddPackage, RemovePackage, Offline, Apply
  <2> QED BY <1>1, <1>3, <2>1
<1>17. CASE UNCHANGED vars
  BY <1>1, <1>2, <1>3, <1>17 DEF vars
<1> QED BY <1>5, <1>6, <1>7, <1>8, <1>9, <1>10, <1>11, <1>12, <1>13, <1>14, <1>15, <1>16, <1>17, Steps

(* A transaction, recovered ones too, does what the user has seen and      *)
(* approved, over crashes, runs after an exec and uses of pkgtransaction:  *)
(* the hash that is approved is the one of the lines in the report.  Left  *)
(* out is a report written in pieces by a process that is killed.          *)
THEOREM AllApproved == Spec => []NothingUnapproved
<1>1. Init => Counted /\ (InPieces \/ Informed)
  BY BoundAssumption DEF Init, Counted, Informed
<1>2. Counted /\ (InPieces \/ Informed) /\ [Next]_vars => (InPieces \/ Informed)'
  <2>1. ASSUME Counted, InPieces, [Next]_vars PROVE InPieces'
    BY <2>1, SameConf, CountedKept DEF InPieces, Counted
  <2> QED BY <2>1, InformedKept
<1>3. InPieces \/ Informed => NothingUnapproved
  BY DEF InPieces, Informed, NothingUnapproved, SeenBefore, Asks, Approval
<1> QED BY <1>1, <1>2, <1>3, CountedKept, PTL DEF Spec
=============================================================================
