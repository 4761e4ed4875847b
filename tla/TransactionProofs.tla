-------------------------- MODULE TransactionProofs --------------------------
(***************************************************************************)
(* Proofs about the transaction, for all packages, files, plans, scripts   *)
(* that fail, failures and crashes.                                        *)
(***************************************************************************)
EXTENDS TransactionProps, SequenceTheorems, FiniteSetTheorems, TLAPS

-----------------------------------------------------------------------------
(* Sequences of whatever elements.                                         *)

IsSeq(s) == \E S : s \in Seq(S)

LEMMA SeqAppend ==
  ASSUME NEW s, IsSeq(s), NEW x
  PROVE  /\ IsSeq(Append(s, x)) /\ Len(s) \in Nat /\ Len(Append(s, x)) = Len(s) + 1
         /\ DOMAIN Append(s, x) = 1..(Len(s) + 1) /\ DOMAIN s = 1..Len(s)
         /\ \A i \in 1..Len(s) : Append(s, x)[i] = s[i]
         /\ Append(s, x)[Len(s) + 1] = x
<1>1. PICK S : s \in Seq(S)
  BY DEF IsSeq
<1>2. s \in Seq(S \cup {x})
  BY <1>1
<1>3. Append(s, x) \in Seq(S \cup {x})
  BY <1>2
<1> QED BY <1>2, <1>3 DEF IsSeq

LEMMA SeqPrefix ==
  ASSUME NEW s, IsSeq(s), NEW k \in 0..Len(s)
  PROVE  /\ IsSeq(SubSeq(s, 1, k)) /\ Len(SubSeq(s, 1, k)) = k /\ k \in Nat
         /\ \A i \in 1..k : SubSeq(s, 1, k)[i] = s[i]
<1>1. PICK S : s \in Seq(S)
  BY DEF IsSeq
<1>2. SubSeq(s, 1, k) \in Seq(S) /\ Len(SubSeq(s, 1, k)) = k /\ k \in Nat
      /\ \A i \in 1..k : SubSeq(s, 1, k)[i] = s[i]
  BY <1>1
<1> QED BY <1>2 DEF IsSeq

LEMMA SeqExcept ==
  ASSUME NEW s, IsSeq(s), NEW i, NEW x
  PROVE  IsSeq([s EXCEPT ![i] = x]) /\ Len([s EXCEPT ![i] = x]) = Len(s)
<1>1. PICK S : s \in Seq(S)
  BY DEF IsSeq
<1>2. s \in [1..Len(s) -> S] /\ Len(s) \in Nat
  BY <1>1
<1>3. [s EXCEPT ![i] = x] \in [1..Len(s) -> S \cup {x}]
  BY <1>2
<1>4. [s EXCEPT ![i] = x] \in Seq(S \cup {x}) /\ Len([s EXCEPT ![i] = x]) = Len(s)
  BY <1>2, <1>3
<1> QED BY <1>4 DEF IsSeq

LEMMA SeqRecords ==
  ASSUME NEW s, IsSeq(s)
  PROVE  /\ IsSeq(RecordsOf(s)) /\ Len(RecordsOf(s)) = Len(s) /\ DOMAIN RecordsOf(s) = 1..Len(s)
         /\ \A i \in 1..Len(s) : RecordsOf(s)[i] = s[i].rec
<1> DEFINE T == {s[i].rec : i \in 1..Len(s)}
<1>1. Len(s) \in Nat
  BY DEF IsSeq
<1>2. RecordsOf(s) \in [1..Len(s) -> T]
  BY DEF RecordsOf
<1> HIDE DEF T
<1>3. RecordsOf(s) \in Seq(T) /\ Len(RecordsOf(s)) = Len(s)
  BY <1>1, <1>2
<1> QED BY <1>3 DEF IsSeq, RecordsOf

-----------------------------------------------------------------------------
(* The stages of the process and what is in the journal by then.           *)

\* The local variables and the file system are records.
Variables == {"i", "todo", "status", "control", "changed", "removal", "configs", "errs", "dirs",
              "replay"}
Parts == {"root", "opkg", "backup", "info", "sub", "data", "torn", "links", "db", "hashes"}
Shape == /\ DOMAIN mem = Variables /\ DOMAIN fs = Parts /\ DOMAIN disk = Parts
         /\ IsSeq(file) /\ IsSeq(acked)
         /\ crashes \in Nat

\* The stages after each of the steps.
AfterCleaned == {"finish"}
AfterChangelog == AfterCleaned \cup {"close_changelog", "cleanup", "dump", "dumped"}
AfterScripts == AfterChangelog \cup {"changelog_end"}
AfterMoved == AfterScripts \cup {"scripts"}
MoveStages == {"move", "moving", "control", "preinst", "early", "merge", "gone"}
AfterStarted == AfterMoved \cup MoveStages
AfterChecked == AfterStarted \cup {"open_changelog", "changelog_start"}
AfterUnpacked == AfterChecked \cup {"check"}

Progress == /\ pc \in AfterUnpacked => "UNPACKED" \in Journaled
            /\ pc \in AfterChecked => "CHECKED" \in Journaled
            /\ pc \in AfterStarted => "CHANGELOG_START" \in Journaled
            /\ pc \in AfterMoved => "MOVED" \in Journaled
            /\ pc \in AfterScripts => "SCRIPTS" \in Journaled
            /\ pc \in AfterChangelog => "CHANGELOG_END" \in Journaled
            /\ pc \in AfterCleaned => "CLEANED" \in Journaled

\* Where a record of a step is written.
Recording == {<<"unpack", "UNPACKED">>, <<"check", "CHECKED">>,
              <<"changelog_start", "CHANGELOG_START">>, <<"gone", "MOVED">>, <<"scripts", "SCRIPTS">>,
              <<"changelog_end", "CHANGELOG_END">>, <<"dumped", "CLEANED">>}

\* The process is at work.
Busy == AfterUnpacked \cup {"unpack", "wipe", "abort"}

InJournal == /\ op \in {"idle", "fresh", "write", "finish", "unlink"}
             /\ op = "fresh" => pc = "unpack"
             /\ op = "write" => <<pc, rec.type>> \in Recording
             /\ op \in {"finish", "unlink"} => pc \in {"finish", "wipe", "abort"}

\* What is taken for done was read from the journal, or is in it now.
Known == pc \in Busy => \A r \in mem.replay : r.type \in Journaled

Phase == Shape /\ pc \in Stages /\ Progress /\ InJournal /\ Known

USE DEF AfterCleaned, AfterChangelog, AfterScripts, AfterMoved, MoveStages, AfterStarted,
        AfterChecked, AfterUnpacked, Busy, Stages

LEMMA PhaseFirst == ASSUME Init PROVE Phase
<1>1. Shape
  <2>1. IsSeq(<<>>)
    BY DEF IsSeq
  <2> QED BY <2>1 DEF Init, JInit, Shape, FreshMemory, Variables, Parts
<1>2. pc = "down" /\ op = "idle"
  BY DEF Init, JInit
<1> QED BY <1>1, <1>2 DEF Phase, Progress, InJournal, Known

\* A step at work that leaves the journal alone.
Works == /\ UNCHANGED journal /\ Shape' /\ mem'.replay = mem.replay
         /\ op = "idle"

LEMMA WorkKeeps ==
  ASSUME Phase, Works, pc \in Busy, pc' \in Busy,
         pc' \in AfterUnpacked => pc \in AfterUnpacked,
         pc' \in AfterChecked => pc \in AfterChecked,
         pc' \in AfterStarted => pc \in AfterStarted,
         pc' \in AfterMoved => pc \in AfterMoved,
         pc' \in AfterScripts => pc \in AfterScripts,
         pc' \in AfterChangelog => pc \in AfterChangelog,
         pc' \in AfterCleaned => pc \in AfterCleaned
  PROVE  Phase'
<1>1. Journaled' = Journaled
  BY DEF Works, journal, Journaled
<1>2. Progress'
  BY <1>1 DEF Phase, Progress
<1> QED BY <1>1, <1>2 DEF Phase, Works, journal, InJournal, Known

LEMMA ReplayKeeps ==
  ASSUME Phase, NEW t, NEW result, Replay(t, result), op = "idle",
         \/ <<pc, t>> \in Recording
         \/ pc = "cleanup" /\ t = "CLEANED"
         \/ pc = "move" /\ t = "MOVED",
         DOMAIN result = Variables, result.replay = mem.replay
  PROVE  Phase'
<1>1. Journaled' = Journaled
  BY DEF Replay, journal, Journaled
<1>2. t \in Journaled
  BY DEF Replay, Have, Phase, Known, Recording
<1>3. UNCHANGED <<exists, file, fd, op, rec, written, acked, fs, disk, crashes>> /\ mem' = result /\ pc' = AfterStep[t]
  BY DEF Replay, journal, env
<1>4. Shape'
  BY <1>3 DEF Phase, Shape
<1>5. Progress' /\ pc' \in Stages
  BY <1>1, <1>2, <1>3 DEF Phase, Progress, AfterStep, Recording
<1>6. InJournal' /\ Known'
  BY <1>1, <1>3 DEF Phase, InJournal, Known, Recording
<1> QED BY <1>4, <1>5, <1>6 DEF Phase

LEMMA CommitKeeps ==
  ASSUME Phase, NEW t, NEW params, NEW flush, Commit(t, params, flush), <<pc, t>> \in Recording,
         DOMAIN mem' = Variables, mem'.replay = mem.replay
  PROVE  Phase'
<1>1. /\ rec' = [type |-> t, params |-> params] /\ op' = "write"
      /\ UNCHANGED <<exists, file, fd, acked, fs, pc, crashes>> /\ (disk' = fs \/ disk' = disk)
  BY DEF Commit, Write, EnterWrite, env
<1>2. Journaled' = Journaled
  BY <1>1 DEF Journaled
<1>3. Shape'
  BY <1>1 DEF Phase, Shape
<1>4. Progress' /\ InJournal' /\ Known' /\ pc' \in Stages
  BY <1>1, <1>2 DEF Phase, Progress, InJournal, Known
<1> QED BY <1>3, <1>4 DEF Phase

LEMMA Grown ==
  ASSUME IsSeq(acked), acked' = Append(acked, rec)
  PROVE  IsSeq(acked') /\ Journaled' = Journaled \cup {rec.type}
<1>1. /\ IsSeq(Append(acked, rec)) /\ Len(acked) \in Nat
      /\ DOMAIN Append(acked, rec) = 1..(Len(acked) + 1) /\ DOMAIN acked = 1..Len(acked)
      /\ \A k \in 1..Len(acked) : Append(acked, rec)[k] = acked[k]
      /\ Append(acked, rec)[Len(acked) + 1] = rec
  BY SeqAppend
<1>2. 1..(Len(acked) + 1) = 1..Len(acked) \cup {Len(acked) + 1}
  BY <1>1
<1>3. Journaled' = {acked'[k].type : k \in 1..(Len(acked) + 1)}
  BY <1>1 DEF Journaled
<1>4. Journaled = {acked[k].type : k \in 1..Len(acked)}
  BY <1>1 DEF Journaled
<1> QED BY <1>1, <1>2, <1>3, <1>4

LEMMA JournalKeeps ==
  ASSUME Phase, JournalUnits \/ StepRecorded \/ FinishJournal \/ JournalRemoved
  PROVE  Phase'
<1>1. CASE JournalUnits
  <2>1. PICK n \in 1..RecordSize : file' = PutUnits(n)
    BY <1>1 DEF JournalUnits, WriteUnits
  <2>2. UNCHANGED <<exists, fd, op, rec, acked, fs, disk, pc, mem, crashes>>
    BY <1>1 DEF JournalUnits, WriteUnits, env
  <2>3. IsSeq(file')
    <3>1. IsSeq(file)
      BY DEF Phase, Shape
    <3>2. CASE written = 0
      BY <2>1, <3>1, <3>2, SeqAppend DEF PutUnits
    <3>3. CASE written # 0
      <4>1. file' = [file EXCEPT ![Len(file)] = [file[Len(file)] EXCEPT !.len = @ + n]]
        BY <2>1, <3>3 DEF PutUnits
      <4> QED BY <3>1, <4>1, SeqExcept
    <3> QED BY <3>2, <3>3
  <2>4. Journaled' = Journaled
    BY <2>2 DEF Journaled
  <2>5. Shape'
    BY <2>2, <2>3 DEF Phase, Shape
  <2> QED BY <2>2, <2>4, <2>5 DEF Phase, Progress, InJournal, Known
<1>2. CASE StepRecorded
  <2>1. /\ acked' = Append(acked, rec) /\ UNCHANGED <<exists, file, fs, disk, crashes>>
        /\ op' = IF op = "finish" THEN "unlink" ELSE "idle"
        /\ IF op = "write" THEN pc' = AfterStep[rec.type] /\ mem' = [mem EXCEPT !.i = 1]
           ELSE UNCHANGED <<pc, mem>>
        /\ op \in Writing
    BY <1>2 DEF StepRecorded, WriteDone, env
  <2>2. IsSeq(acked') /\ Journaled' = Journaled \cup {rec.type}
    BY <2>1, Grown DEF Phase, Shape
  <2>3. DOMAIN mem' = Variables /\ mem'.replay = mem.replay
    BY <2>1 DEF Phase, Shape, Variables
  <2>4. Shape'
    BY <2>1, <2>2, <2>3 DEF Phase, Shape
  <2>5. CASE op = "write"
    <3>1. <<pc, rec.type>> \in Recording
      BY <2>5 DEF Phase, InJournal
    <3>2. Progress' /\ pc' \in Stages /\ pc' \in Busy /\ pc \in Busy
      BY <2>1, <2>2, <2>5, <3>1 DEF Phase, Progress, Recording, AfterStep
    <3> QED BY <2>1, <2>2, <2>3, <2>4, <2>5, <3>2 DEF Phase, InJournal, Known
  <2>6. CASE op # "write"
    BY <2>1, <2>2, <2>3, <2>4, <2>6 DEF Phase, Progress, InJournal, Known, Writing
  <2> QED BY <2>5, <2>6
<1>3. CASE FinishJournal
  <2>1. /\ op' = "finish" /\ UNCHANGED <<exists, file, fd, acked, fs, disk, pc, mem, crashes>>
        /\ pc \in {"finish", "wipe", "abort"}
    BY <1>3 DEF FinishJournal, StartFinish, EnterWrite, At, env
  <2>2. Journaled' = Journaled
    BY <2>1 DEF Journaled
  <2>3. Shape'
    BY <2>1 DEF Phase, Shape
  <2> QED BY <2>1, <2>2, <2>3 DEF Phase, Progress, InJournal, Known
<1>4. CASE JournalRemoved
  <2>1. /\ op = "unlink" /\ op' = "idle" /\ file' = <<>> /\ acked' = <<>>
        /\ UNCHANGED <<fs, disk, mem, crashes>>
        /\ pc' = CASE pc = "finish" -> "done" [] pc = "abort" -> "failed" [] pc = "wipe" -> "down"
    BY <1>4 DEF JournalRemoved, Unlink, env
  <2>2. pc \in {"finish", "wipe", "abort"}
    BY <2>1 DEF Phase, InJournal
  <2>3. pc' \in {"done", "failed", "down"}
    BY <2>1, <2>2
  <2>4. IsSeq(<<>>)
    BY DEF IsSeq
  <2>5. Shape'
    BY <2>1, <2>4 DEF Phase, Shape
  <2> QED BY <2>1, <2>3, <2>5 DEF Phase, Progress, InJournal, Known
<1> QED BY <1>1, <1>2, <1>3, <1>4

LEMMA StartKeeps ==
  ASSUME Phase, Perform \/ RecoverTransaction \/ Crash \/ Die
  PROVE  Phase'
<1>1. CASE Perform
  <2>1. /\ op' = "fresh" /\ pc' = "unpack" /\ file' = <<>> /\ acked' = <<>> /\ mem' = FreshMemory
        /\ disk' = disk /\ crashes' = crashes
    BY <1>1 DEF Perform, Fresh, EnterWrite
  <2>2. DOMAIN mem' = Variables /\ mem'.replay = {}
    BY <2>1 DEF FreshMemory, Variables
  <2>3. DOMAIN fs' = Parts
    BY <1>1 DEF Perform, Phase, Shape
  <2>4. IsSeq(<<>>)
    BY DEF IsSeq
  <2>5. Shape'
    BY <2>1, <2>2, <2>3, <2>4 DEF Phase, Shape
  <2> QED BY <2>1, <2>2, <2>5 DEF Phase, Progress, InJournal, Known
<1>2. CASE RecoverTransaction
  <2>1. PICK k \in 0..Len(file) : file' = SubSeq(file, 1, k) /\ acked' = RecordsOf(SubSeq(file, 1, k))
    BY <1>2 DEF RecoverTransaction, Recover
  <2>2. /\ op = "idle" /\ op' = "idle" /\ UNCHANGED <<fs, disk, crashes>>
        /\ mem' = [FreshMemory EXCEPT !.replay = Recorded]
        /\ pc' \in {"stuck", "unpack", "wipe"}
    BY <1>2 DEF RecoverTransaction, Recover, env
  <2>3. IsSeq(file)
    BY DEF Phase, Shape
  <2>4. IsSeq(file') /\ Len(file') = k /\ k \in Nat
    BY <2>1, <2>3, SeqPrefix
  <2>5. /\ IsSeq(acked') /\ DOMAIN acked' = 1..k /\ DOMAIN file' = 1..k
        /\ \A n \in 1..k : acked'[n] = file'[n].rec
    <3>1. acked' = RecordsOf(file')
      BY <2>1
    <3>2. DOMAIN file' = 1..k
      BY <2>4 DEF IsSeq
    <3> QED BY <2>4, <3>1, <3>2, SeqRecords
  <2>6. DOMAIN mem' = Variables /\ mem'.replay = Recorded
    BY <2>2 DEF FreshMemory, Variables
  <2>7. Shape'
    BY <2>2, <2>4, <2>5, <2>6 DEF Phase, Shape
  <2>8. \A r \in mem'.replay : r.type \in Journaled'
    BY <2>5, <2>6 DEF Recorded, Journaled
  <2> QED BY <2>2, <2>7, <2>8 DEF Phase, Progress, InJournal, Known
<1>3. CASE Crash \/ Die
  <2>1. /\ op' = "idle" /\ pc' = "down" /\ UNCHANGED <<file, acked, mem>>
        /\ (fs' = fs \/ fs' = disk) /\ (disk' = fs' \/ disk' = disk) /\ (crashes' = crashes + 1 \/ crashes' = crashes)
    BY <1>3 DEF Crash, Die, JCrash, env
  <2>2. Shape'
    BY <2>1 DEF Phase, Shape
  <2> QED BY <2>1, <2>2 DEF Phase, Progress, InJournal, Known
<1> QED BY <1>1, <1>2, <1>3

\* The steps that leave the journal and the status file alone.
LEMMA MovingWorks ==
  ASSUME Shape, Moving, ~MoveDone
  PROVE  Works /\ fs'.db = fs.db /\ disk' = disk /\ pc \in MoveStages /\ pc' \in MoveStages \cup {"abort"}
<1> USE DEF Works, Shape, Variables, Parts, At
<1>1. ASSUME StartMove \/ MoveInstall PROVE Works /\ fs'.db = fs.db /\ disk' = disk /\ pc \in MoveStages /\ pc' \in MoveStages
  BY <1>1 DEF StartMove, MoveInstall, Goto, journal, env, hist
<1>2. ASSUME DropControl \/ CopyControl PROVE Works /\ fs'.db = fs.db /\ disk' = disk /\ pc \in MoveStages /\ pc' \in MoveStages
  BY <1>2 DEF DropControl, CopyControl, Goto, Turn, journal, env, hist
<1>3. ASSUME MoveError PROVE Works /\ fs'.db = fs.db /\ disk' = disk /\ pc \in MoveStages /\ pc' = "abort"
  BY <1>3 DEF MoveError, Raise, Goto, journal, env, hist
<1>4. ASSUME Preinst PROVE Works /\ fs'.db = fs.db /\ disk' = disk /\ pc \in MoveStages /\ pc' \in MoveStages
  BY <1>4 DEF Preinst, RunScript, journal, env, hist
<1>5. ASSUME CopyChanged \/ MergeDone \/ MoveRest
      PROVE  Works /\ fs'.db = fs.db /\ disk' = disk /\ pc \in MoveStages /\ pc' \in MoveStages
  BY <1>5 DEF CopyChanged, MergeDone, MoveRest, Merged, NextOper, Goto, journal, env, hist
<1>6. ASSUME MoveRemove PROVE Works /\ fs'.db = fs.db /\ disk' = disk /\ pc \in MoveStages /\ pc' \in MoveStages
  BY <1>6 DEF MoveRemove, RunScript, NextOper, journal, env, hist
<1>7. ASSUME NEW f, EarlyRemove(f) \/ RemoveGone(f)
      PROVE  Works /\ fs'.db = fs.db /\ disk' = disk /\ pc \in MoveStages /\ pc' \in MoveStages
  BY <1>7 DEF EarlyRemove, RemoveGone, Cleaned, Visited, Turn, journal, env, hist
<1>8. ASSUME NEW f, MergeFile(f)
      PROVE  Works /\ fs'.db = fs.db /\ disk' = disk /\ pc \in MoveStages /\ pc' \in MoveStages
  BY <1>8 DEF MergeFile, Placed, WayCleared, Visited, Turn, journal, env, hist
<1> QED BY <1>1, <1>2, <1>3, <1>4, <1>5, <1>6, <1>7, <1>8 DEF Moving

\* The stages of the other steps that do not write to the journal.
Working == SkipRemoval \/ UnpackOp \/ UnpackError \/ CheckError \/ OpenChangelog \/ PostScript
           \/ CloseChangelog \/ RemoveFile \/ RemoveDir \/ ControlCleanup

LEMMA OthersWork ==
  ASSUME Shape, Working
  PROVE  /\ Works /\ fs'.db = fs.db /\ disk' = disk /\ pc \in Busy \ MoveStages
         /\ pc' = pc \/ <<pc, pc'>> \in {<<"unpack", "abort">>, <<"check", "abort">>,
                                        <<"open_changelog", "changelog_start">>,
                                        <<"close_changelog", "cleanup">>, <<"cleanup", "dump">>}
<1> USE DEF Works, Shape, Variables, Parts, At
<1> DEFINE Goal == /\ Works /\ fs'.db = fs.db /\ disk' = disk /\ pc \in Busy \ MoveStages
                   /\ pc' = pc \/ <<pc, pc'>> \in {<<"unpack", "abort">>, <<"check", "abort">>,
                                        <<"open_changelog", "changelog_start">>,
                                        <<"close_changelog", "cleanup">>, <<"cleanup", "dump">>}
<1>1. ASSUME SkipRemoval \/ UnpackOp PROVE Goal
  BY <1>1 DEF SkipRemoval, UnpackOp, NextOper, Turn, journal, env, hist
<1>2. ASSUME UnpackError \/ CheckError PROVE Goal
  BY <1>2 DEF UnpackError, CheckError, Raise, Goto, journal, env, hist
<1>3. ASSUME OpenChangelog \/ CloseChangelog \/ ControlCleanup PROVE Goal
  BY <1>3 DEF OpenChangelog, CloseChangelog, ControlCleanup, Goto, journal, env, hist
<1>4. ASSUME PostScript PROVE Goal
  BY <1>4 DEF PostScript, RunScript, NextOper, journal, env, hist
<1>5. ASSUME RemoveFile \/ RemoveDir PROVE Goal
  BY <1>5 DEF RemoveFile, RemoveDir, Turn, journal, env, hist
<1> QED BY <1>1, <1>2, <1>3, <1>4, <1>5 DEF Working

LEMMA DumpWorks ==
  ASSUME Shape, StatusDump
  PROVE  Works /\ disk' = disk /\ pc = "dump" /\ pc' = "dumped"
  BY DEF StatusDump, Goto, Works, Shape, Variables, Parts, At, journal, env, hist

Replays == ReplayUnpack \/ ReplayCheck \/ ReplayChangelogStart \/ ReplayMove \/ ReplayScripts
           \/ ReplayChangelogEnd \/ ReplayCleaned
Commits == UnpackDone \/ Check \/ ChangelogStart \/ MoveDone \/ ScriptsDone \/ ChangelogEnd
           \/ CleanedDone

LEMMA ReplaysKeep == ASSUME Phase, Replays PROVE Phase'
<1> USE DEF At, Recording
<1>1. DOMAIN mem = Variables
  BY DEF Phase, Shape
<1>2. CASE ReplayUnpack
  BY <1>1, <1>2, ReplayKeeps DEF ReplayUnpack, Variables
<1>3. CASE ReplayCheck
  BY <1>1, <1>3, ReplayKeeps DEF ReplayCheck, Variables
<1>4. CASE ReplayChangelogStart
  BY <1>1, <1>4, ReplayKeeps DEF ReplayChangelogStart, Variables
<1>5. CASE ReplayMove
  BY <1>1, <1>5, ReplayKeeps DEF ReplayMove, Variables
<1>6. CASE ReplayScripts
  BY <1>1, <1>6, ReplayKeeps DEF ReplayScripts, Variables
<1>7. CASE ReplayChangelogEnd
  BY <1>1, <1>7, ReplayKeeps DEF ReplayChangelogEnd, Variables
<1>8. CASE ReplayCleaned
  BY <1>1, <1>8, ReplayKeeps DEF ReplayCleaned, Variables
<1> QED BY <1>2, <1>3, <1>4, <1>5, <1>6, <1>7, <1>8 DEF Replays

LEMMA CommitsKeep == ASSUME Phase, Commits PROVE Phase'
<1> USE DEF At, Recording
<1>1. DOMAIN mem = Variables
  BY DEF Phase, Shape
<1>2. CASE UnpackDone
  BY <1>1, <1>2, CommitKeeps DEF UnpackDone, Variables
<1>3. CASE Check
  BY <1>1, <1>3, CommitKeeps DEF Check, Variables
<1>4. CASE ChangelogStart
  BY <1>1, <1>4, CommitKeeps DEF ChangelogStart, Variables
<1>5. CASE MoveDone
  BY <1>1, <1>5, CommitKeeps DEF MoveDone, Variables
<1>6. CASE ScriptsDone
  BY <1>1, <1>6, CommitKeeps DEF ScriptsDone, Variables
<1>7. CASE ChangelogEnd
  BY <1>1, <1>7, CommitKeeps DEF ChangelogEnd, Variables
<1>8. CASE CleanedDone
  BY <1>1, <1>8, CommitKeeps DEF CleanedDone, Variables
<1> QED BY <1>2, <1>3, <1>4, <1>5, <1>6, <1>7, <1>8 DEF Commits

\* The steps, by what they have to do with the journal.
LEMMA Steps ==
  ASSUME Next
  PROVE  \/ Perform \/ RecoverTransaction \/ Crash \/ Die
         \/ JournalUnits \/ StepRecorded \/ FinishJournal \/ JournalRemoved
         \/ Replays \/ Commits \/ Working \/ StatusDump \/ (Moving /\ ~MoveDone)
  BY DEF Next, Step, Replays, Commits, Working

LEMMA PhaseKept == ASSUME Phase, [Next]_vars PROVE Phase'
<1>1. CASE UNCHANGED vars
  <2>1. UNCHANGED <<file, acked, op, rec, pc, mem, fs, disk, crashes>>
    BY <1>1 DEF vars, journal
  <2>2. Journaled' = Journaled
    BY <2>1 DEF Journaled
  <2> QED BY <2>1, <2>2 DEF Phase, Shape, Progress, InJournal, Known
<1>2. CASE Moving /\ ~MoveDone
  BY <1>2, MovingWorks, WorkKeeps DEF Phase
<1>3. CASE Working
  BY <1>3, OthersWork, WorkKeeps DEF Phase
<1>4. CASE StatusDump
  BY <1>4, DumpWorks, WorkKeeps DEF Phase
<1> QED BY <1>1, <1>2, <1>3, <1>4, Steps, StartKeeps, JournalKeeps, ReplaysKeep, CommitsKeep

THEOREM PhaseCorrect == Spec => []Phase
  BY PhaseFirst, PhaseKept, PTL DEF Spec

(* The status file is rewritten only when the merge and the scripts are in *)
(* the journal: nobody sees a package as installed before that, however    *)
(* often the updater was interrupted and went on from the journal.         *)
THEOREM StatusLast == Spec => StatusAfterScripts
<1> DEFINE Late == fs'.db # fs.db /\ crashes' = crashes => {"MOVED", "SCRIPTS"} \subseteq Journaled
<1>1. ASSUME Phase, Next PROVE Late
  <2>1. CASE Replays \/ Commits
    <3>1. fs' = fs
      BY <2>1 DEF Replays, ReplayUnpack, ReplayCheck, ReplayChangelogStart, ReplayMove, ReplayScripts,
             ReplayChangelogEnd, ReplayCleaned, Replay, Commits, UnpackDone, Check, ChangelogStart,
             MoveDone, ScriptsDone, ChangelogEnd, CleanedDone, Commit
    <3> QED BY <3>1
  <2>2. CASE JournalUnits \/ StepRecorded \/ FinishJournal \/ JournalRemoved \/ RecoverTransaction \/ Die
    <3>1. fs' = fs
      BY <2>2 DEF JournalUnits, StepRecorded, FinishJournal, JournalRemoved, RecoverTransaction, Die
    <3> QED BY <3>1
  <2>3. CASE Perform
    <3>1. fs'.db = fs.db
      BY <1>1, <2>3 DEF Perform, Phase, Shape, Parts
    <3> QED BY <3>1
  <2>4. CASE Crash
    <3>1. crashes' = crashes + 1 /\ crashes \in Nat
      BY <1>1, <2>4 DEF Crash, Phase, Shape
    <3>2. crashes' # crashes
      BY <3>1
    <3> QED BY <3>2
  <2>5. CASE Working
    <3>1. fs'.db = fs.db
      BY <1>1, <2>5, OthersWork DEF Phase
    <3> QED BY <3>1
  <2>6. CASE Moving /\ ~MoveDone
    <3>1. fs'.db = fs.db
      BY <1>1, <2>6, MovingWorks DEF Phase
    <3> QED BY <3>1
  <2>7. CASE StatusDump
    <3>1. pc = "dump"
      BY <2>7 DEF StatusDump, At
    <3>2. "MOVED" \in Journaled /\ "SCRIPTS" \in Journaled
      BY <1>1, <3>1 DEF Phase, Progress
    <3> QED BY <3>2
  <2> QED BY <2>1, <2>2, <2>3, <2>4, <2>5, <2>6, <2>7, <1>1, Steps
<1>2. ASSUME Phase, [Next]_vars PROVE [Late]_vars
  BY <1>1, <1>2
<1> QED BY <1>2, PhaseCorrect, PTL DEF Spec, StatusAfterScripts

-----------------------------------------------------------------------------
(* No unpacked directory is left.                                          *)

Fields == {"op", "pkg", "files"}
WellPlanned == /\ IsSeq(plan)
               /\ \A n \in DOMAIN plan : /\ DOMAIN plan[n] = Fields /\ plan[n].pkg \in Pkgs
                                         /\ plan[n].op \in {"install", "remove"}

\* What is unpacked belongs to a package that the plan installs, and is found by cleanup_dirs:
\* dir_cleanups is among the results of the step that made the directories.
DirsOf(S) == S \X {"data", "control"}
Kempt == /\ mem.i \in Nat \ {0}
         /\ pc \in AfterUnpacked \/ (pc = "unpack" /\ op = "write") => mem.dirs = ToInstall
         /\ fs.sub \subseteq DirsOf(ToInstall) /\ disk.sub \subseteq DirsOf(ToInstall)
         /\ pc \in {"dump", "dumped", "finish", "done"} => fs.sub = {}

LEMMA OperPlanned ==
  ASSUME WellPlanned, mem.i \in Nat \ {0}, More
  PROVE  mem.i \in DOMAIN plan /\ DOMAIN plan = 1..Len(plan) /\ Len(plan) \in Nat
<1>1. DOMAIN plan = 1..Len(plan) /\ Len(plan) \in Nat
  BY DEF WellPlanned, IsSeq
<1> QED BY <1>1 DEF More

\* No step changes what is installed and what is removed.
SamePlan == /\ WellPlanned' /\ ToInstall' = ToInstall /\ ToRemove' = ToRemove
            /\ DOMAIN plan' = DOMAIN plan
            /\ \A n \in DOMAIN plan : plan'[n].op = plan[n].op /\ plan'[n].pkg = plan[n].pkg

LEMMA SameOperations ==
  ASSUME WellPlanned, IsSeq(plan'), DOMAIN plan' = DOMAIN plan,
         \A n \in DOMAIN plan : /\ DOMAIN plan'[n] = Fields
                               /\ plan'[n].op = plan[n].op /\ plan'[n].pkg = plan[n].pkg
  PROVE  SamePlan
<1>1. ToInstall' = {plan'[n].pkg : n \in {m \in DOMAIN plan' : plan'[m].op = "install"}}
  BY DEF ToInstall
<1>2. {m \in DOMAIN plan' : plan'[m].op = "install"} = {m \in DOMAIN plan : plan[m].op = "install"}
  OBVIOUS
<1>3. ToInstall' = ToInstall
  BY <1>1, <1>2 DEF ToInstall
<1>4. ToRemove' = ToRemove
  BY DEF ToRemove
<1>5. WellPlanned'
  BY DEF WellPlanned
<1> QED BY <1>3, <1>4, <1>5 DEF SamePlan

LEMMA PlanKept == ASSUME WellPlanned, mem.i \in Nat \ {0}, [Next]_vars PROVE SamePlan
<1>1. CASE UNCHANGED plan
  BY <1>1 DEF SamePlan, WellPlanned, ToInstall, ToRemove
<1>2. CASE Perform
  <2>1. plan' = [n \in DOMAIN plan |-> [plan[n] EXCEPT !.files = {}]]
    BY <1>2 DEF Perform
  <2>2. IsSeq(plan')
    <3>1. PICK S : plan \in Seq(S)
      BY DEF WellPlanned, IsSeq
    <3>2. DOMAIN plan = 1..Len(plan) /\ Len(plan) \in Nat
      BY <3>1
    <3> DEFINE T == {[plan[n] EXCEPT !.files = {}] : n \in DOMAIN plan}
    <3>3. plan' \in [1..Len(plan) -> T]
      BY <2>1, <3>2
    <3> HIDE DEF T
    <3>4. plan' \in Seq(T)
      BY <3>2, <3>3
    <3> QED BY <3>4 DEF IsSeq
  <2>3. \A n \in DOMAIN plan : plan'[n] = [plan[n] EXCEPT !.files = {}] /\ DOMAIN plan[n] = Fields
    BY <2>1 DEF WellPlanned
  <2>4. \A n \in DOMAIN plan : /\ DOMAIN plan'[n] = Fields
                              /\ plan'[n].op = plan[n].op /\ plan'[n].pkg = plan[n].pkg
    BY <2>3 DEF Fields
  <2>5. DOMAIN plan' = DOMAIN plan
    BY <2>1
  <2> QED BY <2>2, <2>4, <2>5, SameOperations
<1>3. CASE UnpackOp
  <2>1. CASE UNCHANGED plan
    BY <1>1, <2>1
  <2>2. CASE plan' # plan
    <3>1. PICK found : plan' = [plan EXCEPT ![mem.i].files = found]
      BY <1>3, <2>2 DEF UnpackOp
    <3>2. mem.i \in DOMAIN plan
      BY <1>3, OperPlanned DEF UnpackOp
    <3>3. plan' = [plan EXCEPT ![mem.i] = [plan[mem.i] EXCEPT !.files = found]]
      BY <3>1
    <3>4. IsSeq(plan')
      BY <3>3, SeqExcept DEF WellPlanned
    <3>5. DOMAIN plan' = DOMAIN plan
      BY <3>3
    <3>6. \A n \in DOMAIN plan : DOMAIN plan[n] = Fields
      BY DEF WellPlanned
    <3>7. \A n \in DOMAIN plan : plan'[n] = IF n = mem.i THEN [plan[n] EXCEPT !.files = found] ELSE plan[n]
      BY <3>2, <3>3
    <3>8. \A n \in DOMAIN plan : /\ DOMAIN plan'[n] = Fields
                                /\ plan'[n].op = plan[n].op /\ plan'[n].pkg = plan[n].pkg
      BY <3>6, <3>7 DEF Fields
    <3> QED BY <3>4, <3>5, <3>8, SameOperations
  <2> QED BY <2>1, <2>2
<1>4. CASE Next /\ ~Perform /\ ~UnpackOp
  <2>1. UNCHANGED plan
    <3>1. CASE RecoverTransaction \/ Crash \/ Die \/ JournalUnits \/ StepRecorded \/ FinishJournal \/ JournalRemoved
      BY <3>1 DEF RecoverTransaction, Crash, Die, JournalUnits, StepRecorded, FinishJournal, JournalRemoved, env
    <3>2. CASE Replays
      BY <3>2 DEF Replays, ReplayUnpack, ReplayCheck, ReplayChangelogStart, ReplayMove, ReplayScripts,
             ReplayChangelogEnd, ReplayCleaned, Replay, env
    <3>3. CASE Commits
      BY <3>3 DEF Commits, UnpackDone, Check, ChangelogStart, MoveDone, ScriptsDone, ChangelogEnd, CleanedDone,
             Commit, env
    <3>4. CASE Working
      BY <1>4, <3>4 DEF Working, SkipRemoval, UnpackError, CheckError, OpenChangelog, PostScript, CloseChangelog,
             RemoveFile, RemoveDir, ControlCleanup, Turn, Goto, Raise, env
    <3>5. CASE StatusDump
      BY <3>5 DEF StatusDump, Goto, env
    <3>6. CASE Moving /\ ~MoveDone
      BY <3>6 DEF Moving, StartMove, MoveInstall, DropControl, CopyControl, MoveError, Preinst, CopyChanged,
             MergeDone, MoveRemove, MoveRest, EarlyRemove, MergeFile, RemoveGone, Turn, Goto, Raise, env
    <3> QED BY <1>4, <3>1, <3>2, <3>3, <3>4, <3>5, <3>6, Steps
  <2> QED BY <1>1, <2>1
<1>5. CASE UNCHANGED vars
  BY <1>1, <1>5 DEF vars
<1> QED BY <1>2, <1>3, <1>4, <1>5
\* What a step at work does to the directories.
Sweeps == /\ mem'.dirs = mem.dirs /\ mem'.i \in Nat \ {0}
          /\ fs'.sub \subseteq fs.sub /\ disk' = disk

LEMMA ScriptKeeps ==
  ASSUME NEW p, NEW s, NEW mem2, RunScript(p, s, mem2), DOMAIN mem2 = Variables
  PROVE  /\ DOMAIN mem' = Variables
         /\ \A v \in Variables \ {"errs"} : mem'[v] = mem2[v]
         /\ mem'.errs = mem2.errs
            \/ (<<p, s>> \in FailScripts /\ mem'.errs = mem2.errs \cup {<<p, s>>})
  BY DEF RunScript, Variables

LEMMA MovingSweeps ==
  ASSUME Shape, mem.i \in Nat \ {0}, Moving, ~MoveDone
  PROVE  Sweeps
<1> USE DEF Sweeps, Shape, Variables, Parts
<1>1. ASSUME StartMove \/ MoveInstall PROVE Sweeps
  BY <1>1 DEF StartMove, MoveInstall, Goto
<1>2. ASSUME DropControl \/ CopyControl \/ MoveError PROVE Sweeps
  BY <1>2 DEF DropControl, CopyControl, MoveError, Goto, Raise, Turn
<1>3. ASSUME Preinst PROVE Sweeps
  BY <1>3 DEF Preinst, RunScript
<1>4. ASSUME CopyChanged \/ MoveRest PROVE Sweeps
  BY <1>4 DEF CopyChanged, MoveRest, Goto
<1>5. ASSUME MergeDone PROVE Sweeps
  BY <1>5 DEF MergeDone, Merged, NextOper, Goto
<1>6. ASSUME MoveRemove PROVE Sweeps
  <2>1. fs'.sub = fs.sub /\ disk' = disk
    BY <1>6 DEF MoveRemove
  <2>2. CASE mem' = NextOper
    BY <2>1, <2>2 DEF NextOper
  <2>3. CASE mem' # NextOper
    <3> DEFINE next == [NextOper EXCEPT !.configs = @ \cup (Confs \cap OldFiles[Oper.pkg]),
                                        !.status[Oper.pkg] = IF KeptConfigs(Oper.pkg) = {} THEN "none"
                                                             ELSE "config"]
    <3>1. mem' = next \/ mem' = [next EXCEPT !.errs = @ \cup {<<Oper.pkg, "prerm">>}]
      BY <1>6, <2>3 DEF MoveRemove, RunScript
    <3>2. DOMAIN next = Variables /\ next.dirs = mem.dirs /\ next.i = mem.i + 1
      BY DEF NextOper
    <3> HIDE DEF next
    <3>3. mem'.dirs = next.dirs /\ mem'.i = next.i
      BY <3>1, <3>2
    <3> QED BY <2>1, <3>2, <3>3
  <2> QED BY <2>2, <2>3
<1>7. ASSUME NEW f, EarlyRemove(f) \/ RemoveGone(f) PROVE Sweeps
  BY <1>7 DEF EarlyRemove, RemoveGone, Cleaned, Visited, Turn
<1>8. ASSUME NEW f, MergeFile(f) PROVE Sweeps
  BY <1>8 DEF MergeFile, Placed, WayCleared, Visited, Turn
<1> QED BY <1>1, <1>2, <1>3, <1>4, <1>5, <1>6, <1>7, <1>8 DEF Moving

LEMMA OthersSweep ==
  ASSUME Shape, mem.i \in Nat \ {0}, Working, ~UnpackOp
  PROVE  Sweeps
<1> USE DEF Sweeps, Shape, Variables, Parts
<1>1. ASSUME SkipRemoval \/ UnpackError \/ CheckError PROVE Sweeps
  BY <1>1 DEF SkipRemoval, UnpackError, CheckError, Raise, Goto, NextOper, Turn
<1>2. ASSUME OpenChangelog \/ CloseChangelog \/ ControlCleanup PROVE Sweeps
  BY <1>2 DEF OpenChangelog, CloseChangelog, ControlCleanup, Goto
<1>3. ASSUME PostScript PROVE Sweeps
  <2>1. DOMAIN NextOper = Variables /\ NextOper.dirs = mem.dirs /\ NextOper.i = mem.i + 1
    BY DEF NextOper
  <2>2. fs' = fs /\ disk' = disk /\ (mem' = NextOper \/ \E p, s : RunScript(p, s, NextOper))
    BY <1>3 DEF PostScript
  <2>3. mem'.dirs = NextOper.dirs /\ mem'.i = NextOper.i
    <3>1. CASE mem' = NextOper
      BY <3>1
    <3>2. CASE \E p, s : RunScript(p, s, NextOper)
      <4>1. PICK p, s : RunScript(p, s, NextOper)
        BY <3>2
      <4>2. \A v \in Variables \ {"errs"} : mem'[v] = NextOper[v]
        BY <2>1, <4>1 DEF RunScript, Variables
      <4> QED BY <4>2
    <3> QED BY <2>2, <3>1, <3>2
  <2>4. mem'.dirs = mem.dirs /\ mem'.i \in Nat \ {0}
    BY <2>1, <2>3
  <2> QED BY <2>2, <2>4
<1>4. ASSUME RemoveFile PROVE Sweeps
  <2>1. PICK p \in Pkgs, f \in Files : Turn([fs EXCEPT !.data[p] = @ \ {f}], mem)
    BY <1>4 DEF RemoveFile
  <2> QED BY <2>1 DEF Turn
<1>5. ASSUME RemoveDir PROVE Sweeps
  <2>1. PICK d : Turn([fs EXCEPT !.sub = @ \ {d}], mem)
    BY <1>5 DEF RemoveDir
  <2> QED BY <2>1 DEF Turn
<1> QED BY <1>1, <1>2, <1>3, <1>4, <1>5 DEF Working

LEMMA UnpackStays ==
  ASSUME Shape, WellPlanned, Kempt, UnpackOp
  PROVE  /\ mem'.dirs = mem.dirs /\ mem'.i \in Nat \ {0} /\ disk' = disk
         /\ fs'.sub \subseteq DirsOf(ToInstall) /\ op = "idle" /\ op' = "idle"
         /\ pc = "unpack" /\ pc' \in {"unpack", "abort"}
<1>1. Oper.pkg \in ToInstall
  <2>1. mem.i \in DOMAIN plan /\ plan[mem.i].op = "install"
    BY OperPlanned DEF UnpackOp, Kempt, Oper
  <2> QED BY <2>1 DEF Oper, ToInstall
<1>2. fs'.sub = fs.sub \cup ({Oper.pkg} \X {"data", "control"})
  BY DEF UnpackOp, Shape, Parts
<1>3. fs'.sub \subseteq DirsOf(ToInstall)
  BY <1>1, <1>2 DEF Kempt, DirsOf
<1>4. mem'.dirs = mem.dirs /\ mem'.i \in Nat \ {0}
  BY DEF UnpackOp, NextOper, Shape, Variables, Kempt
<1> QED BY <1>3, <1>4 DEF UnpackOp, At, journal

LEMMA KemptFirst == ASSUME Init PROVE Kempt
<1>1. mem.i = 1 /\ fs.sub = {} /\ disk = fs /\ pc = "down"
  BY DEF Init, FreshMemory
<1> QED BY <1>1 DEF Kempt

LEMMA KemptKept == ASSUME Phase, WellPlanned, Kempt, [Next]_vars PROVE Kempt'
<1>1. SamePlan
  BY PlanKept DEF Kempt
<1>2. ToInstall' = ToInstall /\ DirsOf(ToInstall)' = DirsOf(ToInstall)
  BY <1>1 DEF SamePlan, DirsOf
<1>3. CASE UNCHANGED vars
  BY <1>2, <1>3 DEF vars, journal, Kempt
<1>4. CASE Perform
  <2>1. /\ op' = "fresh" /\ pc' = "unpack" /\ disk' = disk /\ mem'.i = 1 /\ fs'.sub = {}
    BY <1>4 DEF Perform, Fresh, EnterWrite, FreshMemory, Phase, Shape, Parts
  <2> QED BY <1>2, <2>1 DEF Kempt
<1>5. CASE RecoverTransaction
  <2>1. /\ op' = "idle" /\ pc' \in {"stuck", "unpack", "wipe"} /\ UNCHANGED <<fs, disk>> /\ mem'.i = 1
    BY <1>5 DEF RecoverTransaction, Recover, FreshMemory
  <2> QED BY <1>2, <2>1 DEF Kempt
<1>6. CASE Crash \/ Die
  <2>1. /\ pc' = "down" /\ mem' = mem /\ (fs' = fs \/ fs' = disk) /\ (disk' = fs' \/ disk' = disk)
    BY <1>6 DEF Crash, Die, env
  <2> QED BY <1>2, <2>1 DEF Kempt
<1>7. CASE JournalUnits
  <2>1. UNCHANGED <<fs, disk, pc, mem, op>>
    BY <1>7 DEF JournalUnits, WriteUnits
  <2> QED BY <1>2, <2>1 DEF Kempt
<1>8. CASE FinishJournal
  <2>1. UNCHANGED <<fs, disk, pc, mem>> /\ pc # "unpack"
    BY <1>8 DEF FinishJournal, At
  <2> QED BY <1>2, <2>1 DEF Kempt
<1>9. CASE StepRecorded
  <2>1. CASE op = "write"
    <3>1. /\ <<pc, rec.type>> \in Recording /\ pc' = AfterStep[rec.type] /\ mem' = [mem EXCEPT !.i = 1]
          /\ UNCHANGED <<fs, disk>>
      BY <1>9, <2>1 DEF StepRecorded, Phase, InJournal
    <3>2. mem'.i = 1 /\ mem'.dirs = mem.dirs
      BY <3>1 DEF Phase, Shape, Variables
    <3>3. mem.dirs = ToInstall
      BY <2>1, <3>1 DEF Kempt, Recording
    <3>4. pc' \in {"check", "open_changelog", "move", "scripts", "changelog_end", "close_changelog"}
             \/ (pc = "dumped" /\ pc' = "finish")
      BY <3>1 DEF Recording, AfterStep
    <3> QED BY <1>2, <3>1, <3>2, <3>3, <3>4 DEF Kempt
  <2>2. CASE op # "write"
    <3>1. UNCHANGED <<fs, disk, pc, mem>> /\ op' # "write"
      BY <1>9, <2>2 DEF StepRecorded, WriteDone
    <3> QED BY <1>2, <3>1 DEF Kempt
  <2> QED BY <2>1, <2>2
<1>10. CASE JournalRemoved
  <2>1. /\ UNCHANGED <<fs, disk, mem>> /\ op = "unlink"
        /\ pc' = CASE pc = "finish" -> "done" [] pc = "abort" -> "failed" [] pc = "wipe" -> "down"
    BY <1>10 DEF JournalRemoved, Unlink
  <2>2. pc \in {"finish", "wipe", "abort"}
    BY <2>1 DEF Phase, InJournal
  <2>3. pc' \in {"failed", "down"} \/ (pc' = "done" /\ pc = "finish")
    BY <2>1, <2>2
  <2> QED BY <1>2, <2>1, <2>3 DEF Kempt
<1>11. CASE Replays
  <2>1. UNCHANGED <<journal, fs, disk>>
    BY <1>11 DEF Replays, ReplayUnpack, ReplayCheck, ReplayChangelogStart, ReplayMove, ReplayScripts,
             ReplayChangelogEnd, ReplayCleaned, Replay
  <2>2. mem'.i = mem.i
    BY <1>11 DEF Replays, ReplayUnpack, ReplayCheck, ReplayChangelogStart, ReplayMove, ReplayScripts,
             ReplayChangelogEnd, ReplayCleaned, Replay, Phase, Shape, Variables
  <2>3. mem'.dirs = ToInstall
    <3>1. CASE ReplayUnpack
      BY <3>1 DEF ReplayUnpack, Replay, Phase, Shape, Variables
    <3>2. CASE ~ReplayUnpack
      <4>1. mem'.dirs = mem.dirs /\ pc \in AfterUnpacked
        BY <1>11, <3>2 DEF Replays, ReplayCheck, ReplayChangelogStart, ReplayMove, ReplayScripts,
             ReplayChangelogEnd, ReplayCleaned, Replay, Phase, Shape, Variables, At
      <4> QED BY <4>1 DEF Kempt
    <3> QED BY <3>1, <3>2
  <2>4. CASE ReplayCleaned
    <3>1. mem.dirs = ToInstall
      BY <2>4 DEF ReplayCleaned, At, Kempt
    <3>2. fs.sub = {}
      BY <2>4, <3>1 DEF ReplayCleaned, LeftDirs, Kempt, DirsOf
    <3> QED BY <1>2, <2>1, <2>2, <2>3, <3>2 DEF Kempt
  <2>5. CASE ~ReplayCleaned
    <3>1. pc' \notin {"dump", "dumped", "finish", "done"}
      BY <1>11, <2>5 DEF Replays, ReplayUnpack, ReplayCheck, ReplayChangelogStart, ReplayMove, ReplayScripts,
             ReplayChangelogEnd, Replay, AfterStep
    <3> QED BY <1>2, <2>1, <2>2, <2>3, <3>1 DEF Kempt
  <2> QED BY <2>4, <2>5
<1>12. CASE Commits
  <2>1. fs' = fs /\ pc' = pc /\ (disk' = fs \/ disk' = disk)
    BY <1>12 DEF Commits, UnpackDone, Check, ChangelogStart, MoveDone, ScriptsDone, ChangelogEnd, CleanedDone,
             Commit
  <2>2. mem'.i = mem.i
    BY <1>12 DEF Commits, UnpackDone, Check, ChangelogStart, MoveDone, ScriptsDone, ChangelogEnd, CleanedDone,
             Phase, Shape, Variables
  <2>3. mem'.dirs = ToInstall
    <3>1. CASE UnpackDone
      BY <3>1 DEF UnpackDone, Phase, Shape, Variables
    <3>2. CASE ~UnpackDone
      <4>1. mem'.dirs = mem.dirs /\ pc \in AfterUnpacked
        BY <1>12, <3>2 DEF Commits, Check, ChangelogStart, MoveDone, ScriptsDone, ChangelogEnd, CleanedDone,
             Phase, Shape, Variables, At
      <4> QED BY <4>1 DEF Kempt
    <3> QED BY <3>1, <3>2
  <2> QED BY <1>2, <2>1, <2>2, <2>3 DEF Kempt
<1>13. CASE StatusDump
  <2>1. fs'.sub = fs.sub /\ mem' = mem /\ disk' = disk /\ pc = "dump" /\ pc' = "dumped"
    BY <1>13 DEF StatusDump, Goto, At, Phase, Shape, Parts
  <2> QED BY <1>2, <2>1 DEF Kempt
<1>14. CASE Moving /\ ~MoveDone
  <2>1. Sweeps /\ pc \in MoveStages /\ pc' \in MoveStages \cup {"abort"}
    BY <1>14, MovingSweeps, MovingWorks DEF Phase, Kempt
  <2> QED BY <1>2, <2>1 DEF Kempt, Sweeps
<1>15. CASE Working /\ ~UnpackOp
  <2>1. Sweeps
    BY <1>15, OthersSweep DEF Phase, Kempt
  <2>2. /\ op = "idle" /\ op' = "idle"
        /\ pc' = pc \/ <<pc, pc'>> \in {<<"unpack", "abort">>, <<"check", "abort">>,
                                        <<"open_changelog", "changelog_start">>,
                                        <<"close_changelog", "cleanup">>, <<"cleanup", "dump">>}
    BY <1>15, OthersWork DEF Phase, Works, journal
  <2>3. CASE ControlCleanup
    <3>1. mem.dirs = ToInstall /\ LeftDirs = {}
      BY <2>3 DEF ControlCleanup, At, Kempt
    <3>2. fs.sub = {}
      BY <3>1 DEF LeftDirs, Kempt, DirsOf
    <3> QED BY <1>2, <2>1, <2>2, <3>1, <3>2 DEF Kempt, Sweeps
  <2>4. CASE ~ControlCleanup
    <3>1. pc' # "dump" \/ pc' = pc
      BY <1>15, <2>4 DEF Working, SkipRemoval, UnpackError, CheckError, OpenChangelog, PostScript, CloseChangelog,
             RemoveFile, RemoveDir, Turn, Goto, Raise
    <3> QED BY <1>2, <2>1, <2>2, <3>1 DEF Kempt, Sweeps
  <2> QED BY <2>3, <2>4
<1>16. CASE UnpackOp
  BY <1>2, <1>16, UnpackStays DEF Kempt, Phase
<1> QED BY <1>3, <1>4, <1>5, <1>6, <1>7, <1>8, <1>9, <1>10, <1>11, <1>12, <1>13, <1>14, <1>15, <1>16, Steps

LEMMA PlannedFirst == ASSUME Init PROVE WellPlanned
<1>1. plan \in Seq(Operation)
  BY PlansAssumption DEF Init
<1>2. DOMAIN plan = 1..Len(plan) /\ \A n \in 1..Len(plan) : plan[n] \in Operation
  BY <1>1
<1> QED BY <1>1, <1>2 DEF WellPlanned, IsSeq, Operation, Fields

(* The plan stays a series of operations, and what is unpacked belongs to  *)
(* packages it installs, whose directories cleanup_dirs is given.          *)
THEOREM KemptCorrect == Spec => [](WellPlanned /\ Kempt)
<1>1. Init => WellPlanned /\ Kempt
  BY KemptFirst, PlannedFirst
<1>2. Phase /\ WellPlanned /\ Kempt /\ [Next]_vars => (WellPlanned /\ Kempt)'
  BY KemptKept, PlanKept DEF SamePlan, Kempt
<1> QED BY <1>1, <1>2, PhaseCorrect, PTL DEF Spec

(* A transaction that is done leaves no unpacked directory behind, however *)
(* often it was interrupted: what a process before a crash has unpacked is *)
(* found again by the results of the step in the journal (dir_cleanups).   *)
THEOREM AllSwept == Spec => []NoLeftovers
<1>1. Kempt => NoLeftovers
  BY DEF Kempt, NoLeftovers
<1> QED BY <1>1, KemptCorrect, PTL

-----------------------------------------------------------------------------
(* The journal inside the transaction.                                     *)

J == INSTANCE JournalProofs WITH Params <- {NoParams} \cup Removal \cup Outcome

\* The results a process reads again are what one before it has stored.
Fit(r) == /\ r.type = "CHECKED" => r.params \in Removal
          /\ r.type \in {"MOVED", "SCRIPTS"} => r.params \in Outcome

\* A step has its results in the journal before those after it.
Later(t) == /\ t = "CHECKED" => "UNPACKED" \in Journaled
            /\ t = "MOVED" => "CHECKED" \in Journaled
            /\ t = "SCRIPTS" => "MOVED" \in Journaled

\* The records, and the one that may be in the file without its writer knowing.
Pending == op \in Writing \/ Len(file) # Len(acked)
Ledger == /\ J!IInv
          /\ \A k \in 1..Len(acked) : Fit(acked[k])
          /\ \A t \in Journaled : Later(t)
          /\ Pending => Fit(rec) /\ Later(rec.type)
          /\ op \in {"fresh", "finish"} => rec.type \in {"START", "FINISH"}

\* What is in the journal the process has read there, or has put there.
Past == [UNPACKED |-> AfterUnpacked, CHECKED |-> AfterChecked, MOVED |-> AfterMoved,
         SCRIPTS |-> AfterScripts]
Readings == /\ \A r \in mem.replay : Fit(r)
            /\ pc \in Busy \ {"abort", "wipe"} =>
                 \A t \in DOMAIN Past \cap Journaled : Have(t) \/ pc \in Past[t]
            /\ pc = "wipe" => "UNPACKED" \notin Journaled

\* The status file is what it was until the scripts are in the journal; the process knows the
\* status from it, from the journal, or because it has moved the files itself.
FirstDb == [p \in Pkgs |-> IF p \in Installed THEN "old" ELSE "none"]
BeforeMove == {"unpack", "check", "open_changelog", "changelog_start", "move"}
StatusKnown == /\ mem.errs \subseteq Pkgs \X Scripts
               /\ pc \notin {"done", "failed"} /\ "SCRIPTS" \notin Journaled =>
                    fs.db = FirstDb /\ disk.db = FirstDb
               /\ pc \in AfterMoved \cup (MoveStages \ {"move"}) =>
                    mem.status \in [Pkgs -> PkgState]
               /\ pc \in BeforeMove /\ "MOVED" \notin Journaled => mem.status = FirstDb

Books == Ledger /\ Readings /\ StatusKnown

LEMMA BookDefs ==
  /\ J!RecordTypes = RecordTypes /\ J!Records = Records /\ J!Start = Start /\ J!Finish = Finish
  /\ \A r, n : J!Frame(r, n) = Frame(r, n)
  /\ \A s : J!RecordsOf(s) = RecordsOf(s)
  /\ \A k : J!ReadableCount(k) = ReadableCount(k)
  /\ J!Writing = Writing
  BY DEF J!RecordTypes, RecordTypes, J!Records, Records, J!Start, Start, J!Finish, Finish, J!Frame, Frame,
         J!RecordsOf, RecordsOf, J!ReadableCount, ReadableCount, J!Whole, Whole, J!Writing, Writing

LEMMA BookConstants ==
  J!ParamsAssumption /\ J!SizeAssumption /\ J!BoundAssumption /\ J!NoRecordAssumption
  BY JournalAssumption, BookDefs
  DEF J!ParamsAssumption, J!SizeAssumption, J!BoundAssumption, J!NoRecordAssumption

\* The calls of the journal.
JournalCall == \/ Fresh
               \/ rec' \in Records /\ Write(rec')
               \/ \E keep \in BOOLEAN : StartFinish(keep)
               \/ \E n \in 1..RecordSize : WriteUnits(n)
               \/ WriteDone \/ Unlink \/ Recover \/ JCrash

LEMMA CallIsStep == ASSUME JournalCall PROVE J!JNext
<1>1. CASE Fresh
  BY <1>1, BookDefs DEF Fresh, EnterWrite, J!JNext, J!Fresh, J!EnterWrite
<1>2. CASE rec' \in Records /\ Write(rec')
  BY <1>2, BookDefs DEF Write, EnterWrite, J!JNext, J!Write, J!EnterWrite
<1>3. ASSUME NEW keep \in BOOLEAN, StartFinish(keep) PROVE J!JNext
  BY <1>3, BookDefs DEF StartFinish, EnterWrite, J!JNext, J!StartFinish, J!EnterWrite
<1>4. ASSUME NEW n \in 1..RecordSize, WriteUnits(n) PROVE J!JNext
  BY <1>4, BookDefs DEF WriteUnits, PutUnits, J!JNext, J!WriteUnits, J!PutUnits
<1>5. CASE WriteDone
  BY <1>5, BookDefs DEF WriteDone, J!JNext, J!WriteDone
<1>6. CASE Unlink
  BY <1>6 DEF Unlink, J!JNext, J!Unlink
<1>7. CASE Recover
  BY <1>7, BookDefs DEF Recover, J!JNext, J!Recover
<1>8. CASE JCrash
  BY <1>8 DEF JCrash, J!JNext, J!JCrash
<1> QED BY <1>1, <1>2, <1>3, <1>4, <1>5, <1>6, <1>7, <1>8 DEF JournalCall

LEMMA JournalOk == ASSUME J!IInv, JournalCall \/ UNCHANGED journal PROVE J!IInv'
<1>1. J!JNext \/ UNCHANGED journal
  BY CallIsStep
<1>2. [J!JNext]_(J!jvars)
  BY <1>1 DEF journal, J!jvars
<1> QED BY <1>2, J!NextIInv, BookConstants

\* Every result that goes into the journal is one that its reader expects.
LEMMA CommitFits ==
  ASSUME Phase, Books, Commits
  PROVE  /\ Write(rec') /\ rec' \in Records /\ Fit(rec') /\ <<pc, rec'.type>> \in Recording
         /\ fs' = fs /\ pc' = pc /\ (disk' = fs \/ disk' = disk)
<1> USE DEF Recording, At
<1> DEFINE Goal(t, params) == /\ rec' = [type |-> t, params |-> params]
                              /\ params \in {NoParams} \cup Removal \cup Outcome
                              /\ t \in RecordTypes
                              /\ t = "CHECKED" => params \in Removal
                              /\ t \in {"MOVED", "SCRIPTS"} => params \in Outcome
                              /\ <<pc, t>> \in Recording
<1>1. /\ Write(rec') /\ fs' = fs /\ pc' = pc /\ (disk' = fs \/ disk' = disk)
      /\ \E t, params : rec' = [type |-> t, params |-> params]
  BY DEF Commits, UnpackDone, Check, ChangelogStart, MoveDone, ScriptsDone, ChangelogEnd, CleanedDone,
         Commit, Write, EnterWrite
<1>2. CASE UnpackDone
  <2>1. Goal("UNPACKED", NoParams)
    BY <1>2 DEF UnpackDone, Commit, Write, EnterWrite, RecordTypes
  <2> QED BY <1>1, <2>1 DEF Records, Fit
<1>3. CASE Check
  <2>1. CheckResult \in Removal
    BY DEF CheckResult, Removal, Disappearing
  <2>2. Goal("CHECKED", CheckResult)
    BY <1>3, <2>1 DEF Check, Commit, Write, EnterWrite, RecordTypes
  <2> QED BY <1>1, <2>2 DEF Records, Fit
<1>4. CASE ChangelogStart
  <2>1. Goal("CHANGELOG_START", NoParams)
    BY <1>4 DEF ChangelogStart, Commit, Write, EnterWrite, RecordTypes
  <2> QED BY <1>1, <2>1 DEF Records, Fit
<1>5. CASE MoveDone \/ ScriptsDone
  <2>1. mem.status \in [Pkgs -> PkgState] /\ mem.errs \subseteq Pkgs \X Scripts
    BY <1>5 DEF MoveDone, ScriptsDone, Books, StatusKnown
  <2>2. [status |-> mem.status, errs |-> mem.errs] \in Outcome
    BY <2>1 DEF Outcome
  <2>3. \/ Goal("MOVED", [status |-> mem.status, errs |-> mem.errs])
        \/ Goal("SCRIPTS", [status |-> mem.status, errs |-> mem.errs])
    BY <1>5, <2>2 DEF MoveDone, ScriptsDone, Commit, Write, EnterWrite, RecordTypes
  <2> QED BY <1>1, <2>3 DEF Records, Fit
<1>6. CASE ChangelogEnd
  <2>1. Goal("CHANGELOG_END", NoParams)
    BY <1>6 DEF ChangelogEnd, Commit, Write, EnterWrite, RecordTypes
  <2> QED BY <1>1, <2>1 DEF Records, Fit
<1>7. CASE CleanedDone
  <2>1. Goal("CLEANED", NoParams)
    BY <1>7 DEF CleanedDone, Commit, Write, EnterWrite, RecordTypes
  <2> QED BY <1>1, <2>1 DEF Records, Fit
<1> QED BY <1>2, <1>3, <1>4, <1>5, <1>6, <1>7 DEF Commits

LEMMA ReplaysLeave ==
  ASSUME Replays
  PROVE  UNCHANGED journal /\ UNCHANGED <<fs, disk>> /\ op = "idle"
  BY DEF Replays, ReplayUnpack, ReplayCheck, ReplayChangelogStart, ReplayMove, ReplayScripts,
         ReplayChangelogEnd, ReplayCleaned, Replay, At

LEMMA CallsAllowed ==
  ASSUME Phase, Books, Next
  PROVE  JournalCall \/ UNCHANGED journal
<1>1. CASE Perform \/ RecoverTransaction \/ Crash \/ Die
  BY <1>1 DEF Perform, RecoverTransaction, Crash, Die, JournalCall
<1>2. CASE JournalUnits \/ StepRecorded \/ JournalRemoved
  BY <1>2 DEF JournalUnits, StepRecorded, JournalRemoved, JournalCall
<1>3. CASE FinishJournal
  BY <1>3 DEF FinishJournal, JournalCall
<1>4. CASE Replays
  BY <1>4, ReplaysLeave
<1>5. CASE Commits
  BY <1>5, CommitFits DEF JournalCall
<1>6. CASE Working \/ StatusDump \/ (Moving /\ ~MoveDone)
  BY <1>6, OthersWork, DumpWorks, MovingWorks DEF Phase, Works
<1> QED BY <1>1, <1>2, <1>3, <1>4, <1>5, <1>6, Steps

\* Recovery takes what its writer knew to be written, or also what was on its way.
LEMMA RecoverReads ==
  ASSUME J!IInv, Recover
  PROVE  acked' = acked \/ (acked' = Append(acked, rec) /\ Len(file) # Len(acked))
<1>1. J!Recover
  BY BookDefs DEF Recover, J!Recover
<1>2. PICK k \in 0..Len(file) :
        /\ acked' \in Seq(J!Records) /\ Len(acked') = k
        /\ k = Len(acked) \/ (k = Len(acked) + 1 /\ k = Len(file))
        /\ \A i \in 1..k : acked'[i] = file[i].rec
  BY <1>1, J!RecoverGives, BookConstants
<1>3. acked \in Seq(Records) /\ file \in Seq(J!Frames) /\ Len(acked) \in Nat /\ Len(file) \in Nat
  BY BookDefs DEF J!IInv, J!JTypeOK
<1>4. \A i \in 1..Len(acked) : file[i].rec = acked[i]
  BY BookDefs DEF J!IInv, J!Contents, J!AckedReadable, Frame
<1>5. CASE k = Len(acked)
  BY <1>2, <1>3, <1>4, <1>5, BookDefs, SeqEqual
<1>6. CASE k = Len(acked) + 1
  <2>1. rec \in Records /\ file[k].rec = rec /\ Len(file) # Len(acked)
    BY <1>2, <1>3, <1>6, BookDefs DEF J!IInv, J!Contents
  <2>2. /\ Append(acked, rec) \in Seq(Records) /\ Len(Append(acked, rec)) = k
        /\ \A i \in 1..k : Append(acked, rec)[i] = acked'[i]
    BY <1>2, <1>3, <1>4, <1>6, <2>1
  <2>3. acked' = Append(acked, rec)
    BY <1>2, <2>2, BookDefs, SeqEqual
  <2> QED BY <2>1, <2>3
<1> QED BY <1>2, <1>5, <1>6

\* What a step does to the records.
LEMMA JournalFlow ==
  ASSUME Phase, Ledger, [Next]_vars
  PROVE  /\ \/ UNCHANGED <<acked, rec>> /\ (Pending' => Pending)
            \/ acked' = acked /\ ~Pending'
            \/ acked' = <<>> /\ (Pending' => rec' = Start) /\ (Perform \/ JournalRemoved)
            \/ acked' = acked /\ rec' = Finish
            \/ acked' = Append(acked, rec) /\ Pending /\ ~Pending'
            \/ acked' = acked /\ Commits
         /\ op' \in {"fresh", "finish"} => rec' \in {Start, Finish} \/ UNCHANGED <<op, rec>>
<1> DEFINE Goal == /\ \/ UNCHANGED <<acked, rec>> /\ (Pending' => Pending)
                      \/ acked' = acked /\ ~Pending'
                      \/ acked' = <<>> /\ (Pending' => rec' = Start) /\ (Perform \/ JournalRemoved)
                      \/ acked' = acked /\ rec' = Finish
                      \/ acked' = Append(acked, rec) /\ Pending /\ ~Pending'
                      \/ acked' = acked /\ Commits
                   /\ op' \in {"fresh", "finish"} => rec' \in {Start, Finish} \/ UNCHANGED <<op, rec>>
<1>1. IsSeq(acked) /\ IsSeq(file)
  BY DEF Phase, Shape
<1>2. CASE UNCHANGED journal
  BY <1>2 DEF journal, Pending
<1>3. CASE UNCHANGED vars
  BY <1>2, <1>3 DEF vars
<1>4. CASE Replays \/ Working \/ StatusDump \/ (Moving /\ ~MoveDone)
  <2>1. UNCHANGED journal
    BY <1>4, ReplaysLeave, OthersWork, DumpWorks, MovingWorks DEF Phase, Works
  <2> QED BY <1>2, <2>1
<1>5. CASE Perform
  BY <1>5 DEF Perform, Fresh, EnterWrite
<1>6. CASE JournalUnits
  BY <1>6 DEF JournalUnits, WriteUnits, Pending
<1>7. CASE Crash \/ Die
  BY <1>7 DEF Crash, Die, JCrash, Pending, Writing
<1>8. CASE FinishJournal
  BY <1>8 DEF FinishJournal, StartFinish, EnterWrite
<1>9. CASE JournalRemoved
  <2>1. acked' = <<>> /\ file' = <<>> /\ op' = "idle"
    BY <1>9 DEF JournalRemoved, Unlink
  <2> QED BY <1>9, <2>1 DEF Pending, Writing
<1>10. CASE StepRecorded
  <2>1. /\ acked' = Append(acked, rec) /\ op \in Writing /\ file' = file /\ op' \in {"idle", "unlink"}
        /\ written = RecordSize
    BY <1>10 DEF StepRecorded, WriteDone
  <2>2. Len(file) = Len(acked) + 1 /\ Len(acked) \in Nat
    BY <1>1, <2>1, BookDefs, JournalAssumption, SeqAppend DEF Ledger, J!IInv, J!Contents
  <2>3. Len(acked') = Len(acked) + 1
    BY <1>1, <2>1, SeqAppend
  <2>4. Pending /\ ~Pending'
    BY <2>1, <2>2, <2>3 DEF Pending, Writing
  <2> QED BY <2>1, <2>4
<1>11. CASE RecoverTransaction
  <2>1. PICK k \in 0..Len(file) : file' = SubSeq(file, 1, k) /\ acked' = RecordsOf(SubSeq(file, 1, k))
    BY <1>11 DEF RecoverTransaction, Recover
  <2>2. Len(file') = Len(acked') /\ op' = "idle" /\ Recover
    BY <1>1, <1>11, <2>1, SeqPrefix, SeqRecords DEF RecoverTransaction, Recover
  <2>3. ~Pending'
    BY <2>2 DEF Pending, Writing
  <2>4. acked' = acked \/ (acked' = Append(acked, rec) /\ Pending)
    BY <2>2, RecoverReads DEF Ledger, Pending
  <2> QED BY <2>2, <2>3, <2>4
<1>12. CASE Commits
  BY <1>12 DEF Commits, UnpackDone, Check, ChangelogStart, MoveDone, ScriptsDone, ChangelogEnd, CleanedDone,
         Commit, Write, EnterWrite
<1> QED BY <1>3, <1>4, <1>5, <1>6, <1>7, <1>8, <1>9, <1>10, <1>11, <1>12, Steps

LEMMA LedgerKept == ASSUME Phase, Books, [Next]_vars PROVE Ledger'
<1>1. J!IInv'
  BY CallsAllowed, JournalOk DEF Books, Ledger, vars
<1>2. /\ IsSeq(acked)
      /\ \A k \in 1..Len(acked) : Fit(acked[k])
      /\ Pending => Fit(rec) /\ Later(rec.type)
      /\ \A t \in Journaled : Later(t)
      /\ op \in {"fresh", "finish"} => rec.type \in {"START", "FINISH"}
  BY DEF Books, Ledger, Phase, Shape
<1>3. Fit(Start) /\ Start.type = "START" /\ Fit(Finish) /\ Finish.type = "FINISH"
  BY DEF Fit, Start, Finish
<1>4. op' \in {"fresh", "finish"} => rec'.type \in {"START", "FINISH"}
  BY <1>2, <1>3, JournalFlow DEF Books
<1>5. CASE acked' = acked /\ \/ rec' = rec /\ (Pending' => Pending)
                             \/ ~Pending'
                             \/ rec' = Finish
  <2>1. Journaled' = Journaled
    BY <1>5 DEF Journaled
  <2> QED BY <1>1, <1>2, <1>3, <1>4, <1>5, <2>1 DEF Ledger, Later
<1>6. CASE acked' = <<>> /\ (Pending' => rec' = Start)
  <2>1. Journaled' = {} /\ Len(acked') = 0
    BY <1>6 DEF Journaled
  <2> QED BY <1>1, <1>3, <1>4, <1>6, <2>1 DEF Ledger, Later
<1>7. CASE acked' = Append(acked, rec) /\ Pending /\ ~Pending'
  <2>1. Journaled' = Journaled \cup {rec.type}
    BY <1>2, <1>7, Grown
  <2>2. \A k \in 1..Len(acked') : Fit(acked'[k])
    BY <1>2, <1>7, SeqAppend
  <2>3. \A t \in Journaled' : /\ t = "CHECKED" => "UNPACKED" \in Journaled'
                              /\ t = "MOVED" => "CHECKED" \in Journaled'
                              /\ t = "SCRIPTS" => "MOVED" \in Journaled'
    BY <1>2, <1>7, <2>1 DEF Later
  <2> QED BY <1>1, <1>4, <1>7, <2>2, <2>3 DEF Ledger, Later
<1>8. CASE acked' = acked /\ Commits
  <2>1. Fit(rec') /\ <<pc, rec'.type>> \in Recording
    BY <1>8, CommitFits
  <2>2. Journaled' = Journaled
    BY <1>8 DEF Journaled
  <2>3. /\ rec'.type = "CHECKED" => "UNPACKED" \in Journaled
        /\ rec'.type = "MOVED" => "CHECKED" \in Journaled
        /\ rec'.type = "SCRIPTS" => "MOVED" \in Journaled
    BY <2>1 DEF Recording, Phase, Progress
  <2> QED BY <1>1, <1>2, <1>4, <1>8, <2>1, <2>2, <2>3 DEF Ledger, Later
<1> QED BY <1>5, <1>6, <1>7, <1>8, JournalFlow DEF Books

LEMMA RecordedIsAcked ==
  ASSUME Phase, Recover
  PROVE  Recorded = {acked'[k] : k \in 1..Len(acked')} /\ DOMAIN acked' = 1..Len(acked')
<1>1. PICK k \in 0..Len(file) : file' = SubSeq(file, 1, k) /\ acked' = RecordsOf(SubSeq(file, 1, k))
  BY DEF Recover
<1>2. IsSeq(file') /\ Len(file') = k
  BY <1>1, SeqPrefix DEF Phase, Shape
<1>3. /\ Len(acked') = k /\ DOMAIN acked' = 1..k
      /\ \A i \in 1..k : acked'[i] = file'[i].rec
  BY <1>1, <1>2, SeqRecords
<1>4. DOMAIN file' = 1..k
  BY <1>2 DEF IsSeq
<1> QED BY <1>3, <1>4 DEF Recorded

LEMMA ReplayStays == ASSUME Shape, Replays \/ Commits PROVE mem'.replay = mem.replay
<1>1. CASE Replays
  BY <1>1 DEF Replays, ReplayUnpack, ReplayCheck, ReplayChangelogStart, ReplayMove, ReplayScripts,
         ReplayChangelogEnd, ReplayCleaned, Replay, Shape, Variables
<1>2. CASE Commits
  BY <1>2 DEF Commits, UnpackDone, Check, ChangelogStart, MoveDone, ScriptsDone, ChangelogEnd, CleanedDone,
         Shape, Variables
<1> QED BY <1>1, <1>2

LEMMA ReadingsKept == ASSUME Phase, Books, [Next]_vars, Ledger' PROVE Readings'
<1>1. ASSUME Journaled' = Journaled, mem'.replay = mem.replay,
             pc' \in Busy \ {"abort", "wipe"} => /\ pc \in Busy \ {"abort", "wipe"}
                                                 /\ pc \in AfterUnpacked => pc' \in AfterUnpacked
                                                 /\ pc \in AfterChecked => pc' \in AfterChecked
                                                 /\ pc \in AfterMoved => pc' \in AfterMoved
                                                 /\ pc \in AfterScripts => pc' \in AfterScripts,
             pc' = "wipe" => pc = "wipe"
      PROVE  Readings'
  BY <1>1 DEF Books, Readings, Have, Past
<1>2. CASE UNCHANGED vars
  BY <1>1, <1>2 DEF vars, journal, Journaled
<1>3. CASE Moving /\ ~MoveDone
  BY <1>1, <1>3, MovingWorks DEF Phase, Works, journal, Journaled
<1>4. CASE Working
  BY <1>1, <1>4, OthersWork DEF Phase, Works, journal, Journaled
<1>5. CASE StatusDump
  BY <1>1, <1>5, DumpWorks DEF Phase, Works, journal, Journaled
<1>6. CASE Replays
  <2>1. mem'.replay = mem.replay
    BY <1>6, ReplayStays DEF Phase
  <2>2. \/ <<pc, pc'>> \in {<<"unpack", "check">>, <<"check", "open_changelog">>,
                            <<"changelog_start", "move">>, <<"move", "scripts">>,
                            <<"scripts", "changelog_end">>}
        \/ pc \in AfterScripts /\ pc' \in AfterScripts
    BY <1>6 DEF Replays, ReplayUnpack, ReplayCheck, ReplayChangelogStart, ReplayMove, ReplayScripts,
           ReplayChangelogEnd, ReplayCleaned, Replay, AfterStep, At
  <2>3. Journaled' = Journaled
    BY <1>6, ReplaysLeave DEF journal, Journaled
  <2> QED BY <1>1, <2>1, <2>2, <2>3
<1>7. CASE Commits
  <2>1. mem'.replay = mem.replay
    BY <1>7, ReplayStays DEF Phase
  <2>2. acked' = acked /\ pc' = pc
    BY <1>7, CommitFits DEF Write
  <2> QED BY <1>1, <2>1, <2>2 DEF Journaled
<1>8. CASE Perform
  <2>1. acked' = <<>> /\ mem'.replay = {} /\ pc' = "unpack"
    BY <1>8 DEF Perform, Fresh, FreshMemory
  <2>2. Journaled' = {}
    BY <2>1 DEF Journaled
  <2> QED BY <2>1, <2>2 DEF Readings
<1>9. CASE JournalUnits
  BY <1>1, <1>9 DEF JournalUnits, WriteUnits, Journaled
<1>10. CASE FinishJournal
  BY <1>1, <1>10 DEF FinishJournal, StartFinish, Journaled
<1>11. CASE Crash \/ Die
  BY <1>1, <1>11 DEF Crash, Die, JCrash, Journaled
<1>12. CASE JournalRemoved
  <2>1. pc \in {"finish", "wipe", "abort"}
    BY <1>12 DEF JournalRemoved, Unlink, Phase, InJournal
  <2>2. pc' \in {"done", "down", "failed"} /\ mem' = mem
    BY <1>12, <2>1 DEF JournalRemoved
  <2> QED BY <2>2 DEF Books, Readings
<1>13. CASE StepRecorded
  <2>1. /\ acked' = Append(acked, rec) /\ op \in Writing
        /\ IF op = "write" THEN pc' = AfterStep[rec.type] /\ mem' = [mem EXCEPT !.i = 1]
           ELSE UNCHANGED <<pc, mem>>
    BY <1>13 DEF StepRecorded, WriteDone
  <2>2. Journaled' = Journaled \cup {rec.type} /\ mem'.replay = mem.replay
    BY <2>1, Grown DEF Phase, Shape, Variables
  <2>3. CASE op = "write"
    <3>1. <<pc, rec.type>> \in Recording /\ pc' = AfterStep[rec.type]
      BY <2>1, <2>3 DEF Phase, InJournal
    <3>2. /\ pc \in Busy \ {"abort", "wipe"} /\ pc' # "wipe"
          /\ \A t \in DOMAIN Past : pc \in Past[t] \/ rec.type = t => pc' \in Past[t]
      BY <3>1 DEF Recording, AfterStep, Past
    <3> QED BY <2>2, <3>2 DEF Books, Readings, Have
  <2>4. CASE op # "write"
    <3>1. rec.type \in {"START", "FINISH"} /\ UNCHANGED <<pc, mem>>
      BY <2>1, <2>4 DEF Books, Ledger, Phase, InJournal, Writing
    <3> QED BY <2>2, <3>1 DEF Books, Readings, Have, Past
  <2> QED BY <2>3, <2>4
<1>14. CASE RecoverTransaction
  <2>1. /\ Recover /\ mem' = [FreshMemory EXCEPT !.replay = Recorded] /\ pc' \in {"stuck", "unpack", "wipe"}
        /\ pc' = "wipe" => ~\E r \in Recorded : r.type = "UNPACKED"
    BY <1>14 DEF RecoverTransaction
  <2>2. mem'.replay = Recorded
    BY <2>1 DEF FreshMemory
  <2>3. Recorded = {acked'[k] : k \in 1..Len(acked')} /\ Journaled' = {r.type : r \in Recorded}
    BY <2>1, RecordedIsAcked DEF Journaled
  <2>4. \A r \in Recorded : Fit(r)
    BY <2>3 DEF Ledger
  <2>5. \A t \in Journaled' : \E r \in mem'.replay : r.type = t
    BY <2>2, <2>3
  <2>6. pc' = "wipe" => "UNPACKED" \notin Journaled'
    BY <2>1, <2>3
  <2> QED BY <2>1, <2>2, <2>4, <2>5, <2>6 DEF Readings, Have
<1> QED BY <1>2, <1>3, <1>4, <1>5, <1>6, <1>7, <1>8, <1>9, <1>10, <1>11, <1>12, <1>13, <1>14, Steps

\* The moves and the scripts keep account of the status and of the errors.
MemoryTyped == mem.errs \subseteq Pkgs \X Scripts /\ mem.status \in [Pkgs -> PkgState]

LEMMA ScriptErrors ==
  ASSUME NEW p, NEW s, NEW mem2, RunScript(p, s, mem2), DOMAIN mem2 = Variables,
         mem2.errs \subseteq Pkgs \X Scripts
  PROVE  mem'.errs \subseteq Pkgs \X Scripts /\ mem'.status = mem2.status
<1>1. mem'.status = mem2.status
  BY ScriptKeeps DEF Variables
<1>2. mem'.errs = mem2.errs
      \/ (<<p, s>> \in FailScripts /\ mem'.errs = mem2.errs \cup {<<p, s>>})
  BY ScriptKeeps
<1> QED BY <1>1, <1>2, ScriptsAssumption

LEMMA MovingTyped == ASSUME Shape, MemoryTyped, Moving, ~MoveDone PROVE MemoryTyped'
<1> USE DEF Shape, Variables, MemoryTyped
<1>1. CASE StartMove \/ MoveInstall
  BY <1>1 DEF StartMove, MoveInstall, Goto
<1>2. CASE DropControl \/ CopyControl \/ MoveError
  BY <1>2 DEF DropControl, CopyControl, MoveError, Goto, Raise, Turn
<1>3. CASE Preinst
  <2> DEFINE next == [mem EXCEPT !.todo = mem.removal.early[Oper.pkg]]
  <2>1. RunScript(Oper.pkg, "preinst", next)
    BY <1>3 DEF Preinst
  <2>2. DOMAIN next = Variables /\ next.errs = mem.errs /\ next.status = mem.status
    OBVIOUS
  <2> HIDE DEF next
  <2> QED BY <2>1, <2>2, ScriptErrors
<1>4. CASE CopyChanged \/ MoveRest
  BY <1>4 DEF CopyChanged, MoveRest, Goto
<1>5. CASE MergeDone
  <2>1. mem' = [NextOper EXCEPT !.status = InstalledStatus]
    BY <1>5 DEF MergeDone, Goto
  <2>2. mem'.errs = mem.errs /\ mem'.status = InstalledStatus
    BY <2>1 DEF NextOper
  <2> QED BY <2>2 DEF InstalledStatus, PkgState
<1>6. CASE MoveRemove
  <2> DEFINE next == [NextOper EXCEPT !.configs = @ \cup (Confs \cap OldFiles[Oper.pkg]),
                                      !.status[Oper.pkg] = IF KeptConfigs(Oper.pkg) = {} THEN "none"
                                                           ELSE "config"]
  <2>1. mem' = NextOper \/ RunScript(Oper.pkg, "prerm", next)
    BY <1>6 DEF MoveRemove
  <2>2. NextOper.errs = mem.errs /\ NextOper.status = mem.status
    BY DEF NextOper
  <2>3. /\ DOMAIN next = Variables /\ next.errs = mem.errs
        /\ next.status = [mem.status EXCEPT ![Oper.pkg] = IF KeptConfigs(Oper.pkg) = {} THEN "none"
                                                          ELSE "config"]
    BY DEF NextOper
  <2>4. next.status \in [Pkgs -> PkgState]
    <3>1. PICK state \in PkgState : next.status = [mem.status EXCEPT ![Oper.pkg] = state]
      BY <2>3 DEF PkgState
    <3> HIDE DEF next
    <3> QED BY <3>1
  <2> HIDE DEF next
  <2>5. CASE mem' = NextOper
    BY <2>2, <2>5
  <2>6. CASE RunScript(Oper.pkg, "prerm", next)
    <3>1. mem'.errs \subseteq Pkgs \X Scripts /\ mem'.status = next.status
      BY <2>3, <2>6, ScriptErrors
    <3> QED BY <2>4, <3>1
  <2> QED BY <2>1, <2>5, <2>6
<1>7. ASSUME NEW f, EarlyRemove(f) \/ RemoveGone(f) PROVE MemoryTyped'
  BY <1>7 DEF EarlyRemove, RemoveGone, Visited, Turn
<1>8. ASSUME NEW f, MergeFile(f) PROVE MemoryTyped'
  BY <1>8 DEF MergeFile, Visited, Turn
<1> QED BY <1>1, <1>2, <1>3, <1>4, <1>5, <1>6, <1>7, <1>8 DEF Moving

LEMMA OthersTyped ==
  ASSUME Shape, mem.errs \subseteq Pkgs \X Scripts, Working
  PROVE  mem'.errs \subseteq Pkgs \X Scripts /\ mem'.status = mem.status
<1> USE DEF Shape, Variables
<1>1. CASE PostScript
  <2>1. mem' = NextOper \/ \E p, s : RunScript(p, s, NextOper)
    BY <1>1 DEF PostScript
  <2>2. DOMAIN NextOper = Variables /\ NextOper.errs = mem.errs /\ NextOper.status = mem.status
    BY DEF NextOper
  <2>3. CASE mem' = NextOper
    BY <2>2, <2>3
  <2>4. CASE \E p, s : RunScript(p, s, NextOper)
    <3>1. PICK p, s : RunScript(p, s, NextOper)
      BY <2>4
    <3> QED BY <2>2, <3>1, ScriptErrors
  <2> QED BY <2>1, <2>3, <2>4
<1>2. CASE ~PostScript
  <2>1. mem' = mem \/ mem' = NextOper
    BY <1>2 DEF Working, SkipRemoval, UnpackOp, UnpackError, CheckError, OpenChangelog, CloseChangelog,
           RemoveFile, RemoveDir, ControlCleanup, Turn, Goto, Raise
  <2> QED BY <2>1 DEF NextOper
<1> QED BY <1>1, <1>2

LEMMA ReadingFits ==
  ASSUME Readings, NEW t \in {"MOVED", "SCRIPTS"}, Have(t)
  PROVE  ResultOf(t) \in Outcome
  BY DEF Readings, Have, ResultOf, Fit

LEMMA StatusKept == ASSUME Phase, Books, [Next]_vars PROVE StatusKnown'
<1>1. /\ Ledger /\ Readings /\ Shape /\ Progress
      /\ mem.errs \subseteq Pkgs \X Scripts
      /\ pc \notin {"done", "failed"} /\ "SCRIPTS" \notin Journaled =>
           fs.db = FirstDb /\ disk.db = FirstDb
      /\ pc \in AfterMoved \cup (MoveStages \ {"move"}) => mem.status \in [Pkgs -> PkgState]
      /\ pc \in BeforeMove /\ "MOVED" \notin Journaled => mem.status = FirstDb
  BY DEF Books, StatusKnown, Phase
<1>2. FirstDb \in [Pkgs -> PkgState]
  BY DEF FirstDb, PkgState
<1>3. ASSUME Journaled \subseteq Journaled',
             fs'.db \in {fs.db, disk.db}, disk'.db \in {fs.db, disk.db},
             mem'.errs = mem.errs, mem'.status = mem.status, pc \notin {"done", "failed"},
             pc' \in AfterMoved => pc \in AfterMoved,
             pc' \in MoveStages \ {"move"} => pc \in MoveStages \ {"move"},
             pc' \in BeforeMove => pc \in BeforeMove
      PROVE  StatusKnown'
  BY <1>1, <1>3 DEF StatusKnown
<1>4. ASSUME Journaled \subseteq Journaled', pc \notin {"done", "failed"}, pc' \notin BeforeMove,
             fs'.db = fs.db, disk'.db = disk.db, MemoryTyped'
      PROVE  StatusKnown'
  BY <1>1, <1>4 DEF StatusKnown, MemoryTyped
<1>5. CASE UNCHANGED vars
  <2>1. UNCHANGED <<pc, mem, fs, disk>> /\ Journaled' = Journaled
    BY <1>5 DEF vars, journal, Journaled
  <2> QED BY <1>1, <2>1 DEF StatusKnown
<1>6. CASE Moving /\ ~MoveDone
  <2>1. /\ Journaled' = Journaled /\ fs'.db = fs.db /\ disk' = disk /\ pc \in MoveStages
    BY <1>1, <1>6, MovingWorks DEF Works, journal, Journaled
  <2>2. pc' \notin BeforeMove /\ (pc = "move" => ~Have("MOVED"))
    BY <1>6 DEF BeforeMove, Moving, StartMove, MoveInstall, DropControl, CopyControl, MoveError, Preinst,
           CopyChanged, MergeDone, MoveRemove, MoveRest, EarlyRemove, MergeFile, RemoveGone, At, Goto, Turn, Raise
  <2>3. pc = "move" => "MOVED" \notin Journaled /\ pc \in BeforeMove
    BY <1>1, <2>2 DEF Readings, Past, BeforeMove
  <2>4. MemoryTyped
    BY <1>1, <1>2, <2>1, <2>3 DEF MemoryTyped
  <2>5. MemoryTyped'
    BY <1>1, <1>6, <2>4, MovingTyped
  <2> QED BY <1>4, <2>1, <2>2, <2>5
<1>7. CASE Working
  <2>1. /\ Journaled' = Journaled /\ fs'.db = fs.db /\ disk' = disk /\ pc \in Busy \ MoveStages
        /\ pc' = pc \/ <<pc, pc'>> \in {<<"unpack", "abort">>, <<"check", "abort">>,
                                        <<"open_changelog", "changelog_start">>,
                                        <<"close_changelog", "cleanup">>, <<"cleanup", "dump">>}
    BY <1>1, <1>7, OthersWork DEF Works, journal, Journaled
  <2>2. mem'.errs \subseteq Pkgs \X Scripts /\ mem'.status = mem.status
    BY <1>1, <1>7, OthersTyped
  <2>3. pc' \in AfterMoved => pc \in AfterMoved
    BY <2>1
  <2>4. pc' \in MoveStages \ {"move"} => pc \in MoveStages \ {"move"}
    BY <2>1
  <2>5. pc' \in BeforeMove => pc \in BeforeMove
    BY <2>1 DEF BeforeMove
  <2>6. pc \notin {"done", "failed"}
    BY <2>1
  <2> QED BY <1>1, <2>1, <2>2, <2>3, <2>4, <2>5, <2>6 DEF StatusKnown
<1>8. CASE StatusDump
  <2>1. /\ Journaled' = Journaled /\ pc = "dump" /\ pc' = "dumped"
    BY <1>1, <1>8, DumpWorks DEF Works, journal, Journaled
  <2>2. mem' = mem
    BY <1>8 DEF StatusDump, Goto
  <2>3. "MOVED" \in Journaled' /\ "SCRIPTS" \in Journaled'
    BY <1>1, <2>1 DEF Progress
  <2> QED BY <1>1, <2>1, <2>2, <2>3 DEF StatusKnown
<1>9. CASE Replays
  <2>1. Journaled' = Journaled /\ UNCHANGED <<fs, disk>>
    BY <1>9, ReplaysLeave DEF journal, Journaled
  <2>2. CASE ReplayMove
    <3>1. ResultOf("MOVED") \in Outcome /\ pc = "move"
      BY <1>1, <2>2, ReadingFits DEF ReplayMove, Replay, At
    <3>2. mem'.status = ResultOf("MOVED").status /\ mem'.errs = ResultOf("MOVED").errs
      BY <1>1, <2>2 DEF ReplayMove, Replay, Shape, Variables
    <3>3. pc' \notin BeforeMove
      BY <2>2 DEF ReplayMove, Replay, AfterStep, BeforeMove
    <3> QED BY <1>4, <2>1, <3>1, <3>2, <3>3 DEF MemoryTyped, Outcome
  <2>3. CASE ReplayScripts
    <3>1. ResultOf("SCRIPTS") \in Outcome /\ pc = "scripts"
      BY <1>1, <2>3, ReadingFits DEF ReplayScripts, Replay, At
    <3>2. mem'.status = ResultOf("SCRIPTS").status /\ mem'.errs = ResultOf("SCRIPTS").errs
      BY <1>1, <2>3 DEF ReplayScripts, Replay, Shape, Variables
    <3>3. pc' \notin BeforeMove
      BY <2>3 DEF ReplayScripts, Replay, AfterStep, BeforeMove
    <3> QED BY <1>4, <2>1, <3>1, <3>2, <3>3 DEF MemoryTyped, Outcome
  <2>4. CASE ReplayUnpack \/ ReplayCheck \/ ReplayChangelogStart \/ ReplayChangelogEnd \/ ReplayCleaned
    <3>1. mem'.errs = mem.errs /\ mem'.status = mem.status
      BY <1>1, <2>4 DEF ReplayUnpack, ReplayCheck, ReplayChangelogStart, ReplayChangelogEnd, ReplayCleaned,
             Replay, Shape, Variables
    <3>2. \/ <<pc, pc'>> \in {<<"unpack", "check">>, <<"check", "open_changelog">>,
                              <<"changelog_start", "move">>}
          \/ pc \in AfterMoved /\ pc' \in AfterMoved
      BY <2>4 DEF ReplayUnpack, ReplayCheck, ReplayChangelogStart, ReplayChangelogEnd, ReplayCleaned,
             Replay, AfterStep, At
    <3> QED BY <1>3, <2>1, <3>1, <3>2 DEF BeforeMove
  <2> QED BY <1>9, <2>2, <2>3, <2>4 DEF Replays
<1>10. CASE Commits
  <2>1. mem'.errs = mem.errs /\ mem'.status = mem.status
    BY <1>1, <1>10 DEF Commits, UnpackDone, Check, ChangelogStart, MoveDone, ScriptsDone, ChangelogEnd,
           CleanedDone, Shape, Variables
  <2>2. acked' = acked /\ pc' = pc /\ fs' = fs /\ (disk' = fs \/ disk' = disk) /\ <<pc, rec'.type>> \in Recording
    BY <1>10, CommitFits DEF Write
  <2>3. pc \notin {"done", "failed"}
    BY <2>2 DEF Recording
  <2> QED BY <1>3, <2>1, <2>2, <2>3 DEF Journaled
<1>11. CASE Perform
  <2>1. /\ acked' = <<>> /\ ~exists /\ pc = "down" /\ fs'.db = fs.db /\ disk' = disk
        /\ mem'.errs = {} /\ mem'.status = fs.db
    BY <1>1, <1>11 DEF Perform, Fresh, FreshMemory, Shape, Parts
  <2>2. acked = <<>>
    BY <1>1, <2>1 DEF Ledger, J!IInv, J!Control
  <2>3. Journaled = {} /\ Journaled' = {}
    BY <2>1, <2>2 DEF Journaled
  <2>4. fs.db = FirstDb /\ disk.db = FirstDb
    BY <1>1, <2>1, <2>3
  <2>5. pc' = "unpack"
    BY <1>11 DEF Perform
  <2> QED BY <2>1, <2>4, <2>5 DEF StatusKnown
<1>12. CASE RecoverTransaction
  <2>1. /\ Recover /\ pc = "down" /\ pc' \in {"stuck", "unpack", "wipe"} /\ UNCHANGED <<fs, disk>>
        /\ mem'.errs = {} /\ mem'.status = fs.db
    BY <1>12 DEF RecoverTransaction, FreshMemory
  <2>2. Journaled \subseteq Journaled'
    <3>1. CASE acked' = acked
      BY <3>1 DEF Journaled
    <3>2. CASE acked' = Append(acked, rec)
      BY <1>1, <3>2, Grown DEF Shape
    <3> QED BY <1>1, <2>1, <3>1, <3>2, RecoverReads DEF Ledger
  <2>3. "SCRIPTS" \notin Journaled' => fs.db = FirstDb /\ disk.db = FirstDb
    BY <1>1, <2>1, <2>2
  <2>4. "MOVED" \notin Journaled' => "SCRIPTS" \notin Journaled
    BY <1>1, <2>2 DEF Ledger, Later
  <2> QED BY <1>1, <2>1, <2>2, <2>3, <2>4 DEF StatusKnown
<1>13. CASE Crash \/ Die
  <2>1. /\ acked' = acked /\ mem' = mem /\ pc' = "down" /\ pc \notin {"done", "failed"}
        /\ (fs' = fs \/ fs' = disk) /\ (disk' = fs' \/ disk' = disk)
    BY <1>13 DEF Crash, Die, JCrash, Running, env
  <2> QED BY <1>3, <2>1 DEF Journaled, BeforeMove
<1>14. CASE JournalUnits \/ FinishJournal
  <2>1. /\ acked' = acked /\ UNCHANGED <<pc, mem, fs, disk>>
    BY <1>14 DEF JournalUnits, WriteUnits, FinishJournal, StartFinish
  <2>2. Journaled' = Journaled
    BY <2>1 DEF Journaled
  <2> QED BY <1>1, <2>1, <2>2 DEF StatusKnown
<1>15. CASE JournalRemoved
  <2>1. /\ pc \in {"finish", "wipe", "abort"} /\ UNCHANGED <<mem, fs, disk>>
        /\ pc' = CASE pc = "finish" -> "done" [] pc = "abort" -> "failed" [] pc = "wipe" -> "down"
    BY <1>15 DEF JournalRemoved, Unlink, Phase, InJournal
  <2>2. pc' \in {"done", "failed"} \/ (pc' = "down" /\ pc = "wipe")
    BY <2>1
  <2>3. pc = "wipe" => "MOVED" \notin Journaled /\ "SCRIPTS" \notin Journaled
    BY <1>1 DEF Readings, Ledger, Later
  <2> QED BY <1>1, <2>1, <2>2, <2>3 DEF StatusKnown, BeforeMove
<1>16. CASE StepRecorded
  <2>1. /\ acked' = Append(acked, rec) /\ UNCHANGED <<fs, disk>> /\ op \in Writing
        /\ IF op = "write" THEN pc' = AfterStep[rec.type] /\ mem' = [mem EXCEPT !.i = 1]
           ELSE UNCHANGED <<pc, mem>>
    BY <1>16 DEF StepRecorded, WriteDone
  <2>2. Journaled' = Journaled \cup {rec.type} /\ mem'.errs = mem.errs /\ mem'.status = mem.status
    BY <1>1, <2>1, Grown DEF Shape, Variables
  <2>3. CASE op = "write"
    <3>1. <<pc, rec.type>> \in Recording /\ pc' = AfterStep[rec.type]
      BY <2>1, <2>3 DEF Phase, InJournal
    <3>2. /\ pc \in Busy /\ pc' \notin MoveStages \ {"move"}
          /\ pc' \in AfterMoved => pc \in AfterMoved \cup (MoveStages \ {"move"})
          /\ pc' \in BeforeMove => pc \in BeforeMove
      BY <3>1 DEF Recording, AfterStep, BeforeMove
    <3> QED BY <1>1, <2>1, <2>2, <3>2 DEF StatusKnown
  <2>4. CASE op # "write"
    <3>1. UNCHANGED <<pc, mem>> /\ pc \notin {"done", "failed"}
      BY <2>1, <2>4 DEF Phase, InJournal, Writing
    <3> QED BY <1>3, <2>1, <2>2, <3>1
  <2> QED BY <2>3, <2>4
<1> QED BY <1>5, <1>6, <1>7, <1>8, <1>9, <1>10, <1>11, <1>12, <1>13, <1>14, <1>15, <1>16, Steps

LEMMA BooksFirst == ASSUME Init PROVE Books
<1>1. /\ JInit /\ pc = "down" /\ fs.db = FirstDb /\ disk.db = FirstDb /\ mem.errs = {} /\ mem.replay = {}
  BY DEF Init, FreshMemory, FirstDb
<1>2. J!IInv
  BY <1>1, J!InitIInv, BookConstants DEF JInit, J!JInit
<1>3. Journaled = {} /\ Len(acked) = 0 /\ Len(file) = 0 /\ op = "idle"
  BY <1>1 DEF JInit, Journaled
<1>4. Ledger
  BY <1>2, <1>3 DEF Ledger, Pending, Writing
<1>5. Readings
  BY <1>1 DEF Readings
<1>6. StatusKnown
  BY <1>1 DEF StatusKnown, BeforeMove
<1> QED BY <1>4, <1>5, <1>6 DEF Books

LEMMA BooksKept == ASSUME Phase, Books, [Next]_vars PROVE Books'
  BY LedgerKept, ReadingsKept, StatusKept DEF Books

THEOREM BooksCorrect == Spec => []Books
  BY BooksFirst, BooksKept, PhaseCorrect, PTL DEF Spec

(* Every record the transaction was told is written is whole in the file,  *)
(* at its place, with at most one more behind it, whatever step was        *)
(* interrupted: a journaled step is never executed again.                  *)
THEOREM JournalDurable == Spec => []AckedReadable
<1>1. Books => AckedReadable
  BY BookDefs DEF Books, Ledger, J!IInv, J!Contents, J!AckedReadable, AckedReadable
<1> QED BY <1>1, BooksCorrect, PTL

(* Until the move is in the journal the status file tells the state before *)
(* the transaction, on the disk and for the process, over any number of    *)
(* crashes; from there on the status and the errors that the process works *)
(* with are those of the record or its own.                                *)
THEOREM StatusHandedOver == Spec => []StatusKnown
<1>1. Books => StatusKnown
  BY DEF Books
<1> QED BY <1>1, BooksCorrect, PTL

-----------------------------------------------------------------------------
(* What the user has configured is kept.                                   *)

\* What is in the journal, and what may yet turn out to be there.
Stored == {acked[k] : k \in 1..Len(acked)} \cup {r \in {rec} : Pending}
StoredTypes == {r.type : r \in Stored}

\* The process holds the journal open, and has read in it what it replays.
Opened == pc \in Busy => /\ op # "unlink" => fd = "open"
                         /\ mem.replay \subseteq {acked[k] : k \in 1..Len(acked)}

\* Nothing was moved before the check of collisions is in the journal.
Pristine(F) == /\ F.info = FirstDb
               /\ \A f \in user : F.root[f] = "user"
               /\ \A p \in Installed : \A f \in OldFiles[p] : F.root[f] \in {"old", "user"}
Untouched == pc \notin {"done", "failed"} /\ "CHECKED" \notin Journaled => Pristine(fs) /\ Pristine(disk)

\* What the operations will do is settled when they are unpacked and checked.
FirstOwners(f) == {p \in Installed : f \in OldFiles[p]}
LastOwners(f) == {p \in ToInstall : f \in NewOf(p)} \cup (FirstOwners(f) \ ToRemove)
Collides == \/ \E f \in Files : Cardinality(LastOwners(f)) > 1
            \/ \E f, g \in Files : <<f, g>> \in Blocks /\ LastOwners(f) # {} /\ LastOwners(g) # {}
Lost(f) == f \in Files /\ FirstOwners(f) # {} /\ LastOwners(f) = {}
RemovalSound(r) == /\ \A f \in r.gone : Lost(f)
                   /\ \A p \in ToInstall : \A f \in r.early[p] :
                        Lost(f) /\ \E g \in NewOf(p) : <<f, g>> \in Blocks
                   /\ \A f : Lost(f) => f \in r.gone \/ \E p \in ToInstall : f \in r.early[p]
ConfsIn(o) == o.op = "install" => Confs \cap NewFiles[o.pkg] \subseteq o.files
Apart == /\ ~Collides
         /\ \A f \in Files : \A p, q \in ToInstall : f \in NewOf(p) \cap NewOf(q) => p = q
         /\ \A p \in Installed \ ToRemove, q \in ToInstall : \A f \in OldFiles[p] :
              f \notin NewOf(q) /\ \A g \in NewOf(q) \cap Files : <<f, g>> \notin Blocks
PlanSettled ==
  /\ \A n \in DOMAIN plan :
       (pc = "unpack" /\ n < mem.i) \/ "UNPACKED" \in StoredTypes => ConfsIn(plan[n])
  /\ "CHECKED" \in StoredTypes => Apart
  /\ \A r \in Stored : r.type = "CHECKED" => RemovalSound(r.params)

\* What the move goes by: the operations up to mem.i are done.
AtMove == {"moving", "control", "preinst", "early", "merge", "gone"}
Moves == /\ (pc \in BeforeMove \ {"unpack"}) \/ (pc = "unpack" /\ Have("UNPACKED")) => mem.i = 1
         /\ pc \in AfterChecked \/ (pc = "check" /\ op = "write") => RemovalSound(mem.removal)
         /\ pc \in {"control", "preinst", "early", "merge"} => More /\ Oper.op = "install"
         /\ pc = "early" => mem.todo \subseteq mem.removal.early[Oper.pkg]
         /\ pc = "merge" => mem.todo \subseteq Oper.files
         /\ pc = "gone" => ~More /\ mem.todo \subseteq mem.removal.gone
Configs == pc \in AtMove =>
             /\ \A p \in ToInstall : OldConfigs(p) \subseteq mem.configs
             /\ \A p \in Installed : IF \E n \in DOMAIN plan : n < mem.i /\ plan[n].pkg = p
                                     THEN Confs \cap OldFiles[p] \subseteq mem.configs
                                     ELSE mem.status[p] = "old"

\* What UserConfigKept says of a file system, the one that survives a loss of power included.
Kept(F) == /\ DOMAIN F.root = Files
           /\ \A f \in user \cap Guarded : F.root[f] = "user" \/ f \in F.backup \/ Exposed(f)
Kepts == user \in UserFiles /\ Kept(fs) /\ Kept(disk)

LEMMA StoredFlow ==
  ASSUME Phase, Books, [Next]_vars, NEW r \in Stored'
  PROVE  r \in Stored \/ r.type \in {"START", "FINISH"} \/ (Commits /\ r = rec')
<1>1. r \in {acked'[k] : k \in 1..Len(acked')} \/ (Pending' /\ r = rec')
  BY DEF Stored
<1>2. Start.type = "START" /\ Finish.type = "FINISH"
  BY DEF Start, Finish
<1>3. CASE acked' = acked /\ \/ rec' = rec /\ (Pending' => Pending)
                             \/ ~Pending'
                             \/ rec' = Finish
                             \/ Commits
  BY <1>1, <1>2, <1>3 DEF Stored
<1>4. CASE acked' = <<>> /\ (Pending' => rec' = Start)
  BY <1>1, <1>2, <1>4
<1>5. CASE acked' = Append(acked, rec) /\ Pending /\ ~Pending'
  <2>1. PICK k \in 1..Len(acked') : r = acked'[k]
    BY <1>1, <1>5
  <2>2. IsSeq(acked)
    BY DEF Phase, Shape
  <2>3. Len(acked') = Len(acked) + 1 /\ Len(acked) \in Nat
    BY <1>5, <2>2, SeqAppend
  <2>4. r = rec \/ r \in {acked[i] : i \in 1..Len(acked)}
    BY <1>5, <2>1, <2>2, <2>3, SeqAppend
  <2> QED BY <1>5, <2>4 DEF Stored
<1> QED BY <1>3, <1>4, <1>5, JournalFlow DEF Books

LEMMA JournaledGrows ==
  ASSUME Phase, Books, [Next]_vars, ~Perform, ~JournalRemoved
  PROVE  Journaled \subseteq Journaled'
<1>1. acked' = acked \/ acked' = Append(acked, rec)
  BY JournalFlow DEF Books
<1>2. CASE acked' = acked
  BY <1>2 DEF Journaled
<1>3. CASE acked' = Append(acked, rec)
  BY <1>3, Grown DEF Phase, Shape
<1> QED BY <1>1, <1>2, <1>3

LEMMA JournaledIsStored == ASSUME Phase PROVE Journaled \subseteq StoredTypes
<1>1. DOMAIN acked = 1..Len(acked)
  BY DEF Phase, Shape, IsSeq
<1> QED BY <1>1 DEF Journaled, StoredTypes, Stored

LEMMA OpenedKept == ASSUME Phase, Opened, [Next]_vars PROVE Opened'
<1>1. ASSUME UNCHANGED <<fd, acked>>, mem'.replay = mem.replay, pc' \in Busy => pc \in Busy,
             op = "unlink" => op' = "unlink"
      PROVE  Opened'
  BY <1>1 DEF Opened
<1>2. CASE UNCHANGED vars
  BY <1>1, <1>2 DEF vars, journal
<1>3. CASE Working \/ StatusDump \/ (Moving /\ ~MoveDone)
  BY <1>1, <1>3, OthersWork, DumpWorks, MovingWorks DEF Phase, Works, journal
<1>4. CASE Replays
  <2>1. pc \in Busy
    BY <1>4 DEF Replays, ReplayUnpack, ReplayCheck, ReplayChangelogStart, ReplayMove, ReplayScripts,
           ReplayChangelogEnd, ReplayCleaned, At
  <2> QED BY <1>1, <1>4, <2>1, ReplayStays, ReplaysLeave DEF Phase, journal
<1>5. CASE Commits
  <2>1. UNCHANGED <<fd, acked, pc>> /\ op = "idle"
    BY <1>5 DEF Commits, UnpackDone, Check, ChangelogStart, MoveDone, ScriptsDone, ChangelogEnd, CleanedDone,
           Commit, Write
  <2> QED BY <1>1, <1>5, <2>1, ReplayStays DEF Phase
<1>6. CASE Perform
  BY <1>6 DEF Perform, Fresh, FreshMemory, Opened
<1>7. CASE RecoverTransaction
  <2>1. Recover /\ fd' = "open" /\ mem'.replay = Recorded
    BY <1>7 DEF RecoverTransaction, Recover, FreshMemory
  <2> QED BY <2>1, RecordedIsAcked DEF Opened
<1>8. CASE JournalUnits \/ FinishJournal
  BY <1>1, <1>8 DEF JournalUnits, WriteUnits, FinishJournal, StartFinish
<1>9. CASE StepRecorded
  <2>1. /\ acked' = Append(acked, rec) /\ op \in Writing
        /\ op' = IF op = "finish" THEN "unlink" ELSE "idle"
        /\ fd' = IF op \in {"finish", "finish_keep"} THEN "closed" ELSE "open"
        /\ mem'.replay = mem.replay
    BY <1>9 DEF StepRecorded, WriteDone, Phase, Shape, Variables
  <2>2. op # "finish_keep" /\ (pc' \in Busy => pc \in Busy)
    BY <1>9 DEF StepRecorded, WriteDone, Phase, InJournal, Recording
  <2>3. {acked[k] : k \in 1..Len(acked)} \subseteq {acked'[k] : k \in 1..Len(acked')}
    <3>1. IsSeq(acked)
      BY DEF Phase, Shape
    <3>2. /\ Len(acked) \in Nat /\ Len(acked') = Len(acked) + 1
          /\ \A k \in 1..Len(acked) : acked'[k] = acked[k]
      BY <2>1, <3>1, SeqAppend
    <3> QED BY <3>2
  <2> QED BY <2>1, <2>2, <2>3 DEF Opened
<1>10. CASE JournalRemoved
  <2>1. pc' \in {"done", "failed", "down"}
    BY <1>10 DEF JournalRemoved, Unlink, Phase, InJournal
  <2> QED BY <2>1 DEF Opened
<1>11. CASE Crash \/ Die
  BY <1>11 DEF Crash, Die, Opened
<1> QED BY <1>2, <1>3, <1>4, <1>5, <1>6, <1>7, <1>8, <1>9, <1>10, <1>11, Steps

LEMMA UserStays == ASSUME [Next]_vars PROVE user' = user /\ (ahead' = ahead \/ Crash)
<1>1. CASE Perform \/ RecoverTransaction \/ Crash \/ Die \/ JournalUnits \/ StepRecorded \/ FinishJournal \/ JournalRemoved
  BY <1>1 DEF Perform, RecoverTransaction, Crash, Die, JournalUnits, StepRecorded, FinishJournal, JournalRemoved, env
<1>2. CASE Replays \/ Commits \/ StatusDump
  BY <1>2 DEF Replays, ReplayUnpack, ReplayCheck, ReplayChangelogStart, ReplayMove, ReplayScripts,
         ReplayChangelogEnd, ReplayCleaned, Replay, Commits, UnpackDone, Check, ChangelogStart, MoveDone,
         ScriptsDone, ChangelogEnd, CleanedDone, Commit, StatusDump, Goto, env
<1>3. CASE Working
  BY <1>3 DEF Working, SkipRemoval, UnpackOp, UnpackError, CheckError, OpenChangelog, PostScript, CloseChangelog,
         RemoveFile, RemoveDir, ControlCleanup, Turn, Goto, Raise, env
<1>4. CASE Moving /\ ~MoveDone
  BY <1>4 DEF Moving, StartMove, MoveInstall, DropControl, CopyControl, MoveError, Preinst, CopyChanged,
         MergeDone, MoveRemove, MoveRest, EarlyRemove, MergeFile, RemoveGone, Turn, Goto, Raise, env
<1>5. CASE UNCHANGED vars
  BY <1>5 DEF vars
<1> QED BY <1>1, <1>2, <1>3, <1>4, <1>5, Steps

LEMMA PlanStays == ASSUME [Next]_vars, ~Perform, ~UnpackOp PROVE plan' = plan
<1>1. CASE RecoverTransaction \/ Crash \/ Die \/ JournalUnits \/ StepRecorded \/ FinishJournal \/ JournalRemoved
  BY <1>1 DEF RecoverTransaction, Crash, Die, JournalUnits, StepRecorded, FinishJournal, JournalRemoved, env
<1>2. CASE Replays \/ Commits \/ StatusDump
  BY <1>2 DEF Replays, ReplayUnpack, ReplayCheck, ReplayChangelogStart, ReplayMove, ReplayScripts,
         ReplayChangelogEnd, ReplayCleaned, Replay, Commits, UnpackDone, Check, ChangelogStart, MoveDone,
         ScriptsDone, ChangelogEnd, CleanedDone, Commit, StatusDump, Goto, env
<1>3. CASE Working
  BY <1>3 DEF Working, SkipRemoval, UnpackError, CheckError, OpenChangelog, PostScript, CloseChangelog,
         RemoveFile, RemoveDir, ControlCleanup, Turn, Goto, Raise, env
<1>4. CASE Moving /\ ~MoveDone
  BY <1>4 DEF Moving, StartMove, MoveInstall, DropControl, CopyControl, MoveError, Preinst, CopyChanged,
         MergeDone, MoveRemove, MoveRest, EarlyRemove, MergeFile, RemoveGone, Turn, Goto, Raise, env
<1>5. CASE UNCHANGED vars
  BY <1>5 DEF vars
<1> QED BY <1>1, <1>2, <1>3, <1>4, <1>5, Steps

LEMMA PristineStays ==
  ASSUME user' = user, NEW F, NEW G, Pristine(F), G.info = F.info, G.root = F.root
  PROVE  Pristine(G)
  BY DEF Pristine

LEMMA UntouchedKept == ASSUME Phase, Books, Untouched, [Next]_vars PROVE Untouched'
<1>1. /\ Progress /\ Shape /\ user' = user
      /\ pc \notin {"done", "failed"} /\ "CHECKED" \notin Journaled => Pristine(fs) /\ Pristine(disk)
  BY UserStays DEF Untouched, Phase
<1>2. ASSUME Journaled \subseteq Journaled', pc \notin {"done", "failed"},
             fs' \in {fs, disk} \/ (fs'.info = fs.info /\ fs'.root = fs.root),
             disk' \in {fs, disk} \/ disk' = fs'
      PROVE  Untouched'
  <2>1. CASE "CHECKED" \in Journaled'
    BY <2>1 DEF Untouched
  <2>2. CASE "CHECKED" \notin Journaled'
    <3>1. Pristine(fs) /\ Pristine(disk)
      BY <1>1, <1>2, <2>2
    <3>2. Pristine(fs') /\ Pristine(disk')
      BY <1>2, <3>1, PristineStays, <1>1
    <3>3. Pristine(fs)' /\ Pristine(disk)'
      BY <1>1, <3>2 DEF Pristine
    <3> QED BY <3>3 DEF Untouched
  <2> QED BY <2>1, <2>2
<1>3. CASE UNCHANGED vars
  BY <1>3 DEF vars, journal, Untouched, Pristine, Journaled
<1>4. CASE (Moving /\ ~MoveDone) \/ StatusDump \/ ControlCleanup
  <2>1. "CHECKED" \in Journaled
    BY <1>1, <1>4, MovingWorks DEF StatusDump, ControlCleanup, At, Progress
  <2>2. "CHECKED" \in Journaled'
    BY <1>4, <2>1, JournaledGrows DEF StatusDump, ControlCleanup, Moving, Perform, JournalRemoved, At,
           StartMove, MoveInstall, DropControl, CopyControl, MoveError, Preinst, CopyChanged,
           MergeDone, MoveRemove, MoveRest, EarlyRemove, MergeFile, RemoveGone, Unlink
  <2> QED BY <2>2 DEF Untouched
<1>5. CASE Working /\ ~ControlCleanup
  <2>1. Journaled' = Journaled /\ pc \in Busy /\ disk' = disk
    BY <1>1, <1>5, OthersWork DEF Works, journal, Journaled
  <2>2. fs'.info = fs.info /\ fs'.root = fs.root
    BY <1>1, <1>5 DEF Working, SkipRemoval, UnpackOp, UnpackError, CheckError, OpenChangelog, PostScript,
           CloseChangelog, RemoveFile, RemoveDir, Turn, Goto, Raise, Shape, Parts
  <2> QED BY <1>2, <2>1, <2>2
<1>6. CASE Replays \/ Commits
  <2>1. Journaled' = Journaled
    BY <1>6, ReplaysLeave, CommitFits DEF journal, Journaled, Write
  <2>2. fs' = fs /\ disk' \in {fs, disk} /\ pc \notin {"done", "failed"}
    BY <1>6, ReplaysLeave, CommitFits DEF Replays, ReplayUnpack, ReplayCheck, ReplayChangelogStart, ReplayMove,
         ReplayScripts, ReplayChangelogEnd, ReplayCleaned, At, Recording
  <2> QED BY <1>2, <2>1, <2>2
<1>7. CASE Perform
  <2>1. ~exists /\ pc = "down" /\ disk' = disk /\ fs'.info = fs.info /\ fs'.root = fs.root
    BY <1>1, <1>7 DEF Perform, Fresh, Shape, Parts
  <2>2. acked = <<>>
    BY <2>1 DEF Books, Ledger, J!IInv, J!Control
  <2>3. Journaled = {}
    BY <2>2 DEF Journaled
  <2> QED BY <1>2, <2>1, <2>3
<1>8. CASE JournalRemoved
  <2>1. /\ pc \in {"finish", "wipe", "abort"} /\ UNCHANGED <<fs, disk>>
        /\ pc' = CASE pc = "finish" -> "done" [] pc = "abort" -> "failed" [] pc = "wipe" -> "down"
    BY <1>8 DEF JournalRemoved, Unlink, Phase, InJournal
  <2>2. pc' \in {"done", "failed"} \/ (pc' = "down" /\ pc = "wipe")
    BY <2>1
  <2>3. pc = "wipe" => "CHECKED" \notin Journaled
    BY DEF Books, Readings, Ledger, Later
  <2>4. pc' = "down" => Pristine(fs) /\ Pristine(disk)
    BY <1>1, <2>1, <2>2, <2>3
  <2>5. pc' = "down" => Pristine(fs)' /\ Pristine(disk)'
    BY <1>1, <2>1, <2>4 DEF Pristine
  <2> QED BY <2>2, <2>5 DEF Untouched
<1>9. CASE RecoverTransaction \/ JournalUnits \/ StepRecorded \/ FinishJournal
  <2>1. UNCHANGED <<fs, disk>> /\ pc \notin {"done", "failed"}
    BY <1>9 DEF RecoverTransaction, JournalUnits, WriteUnits, StepRecorded, WriteDone, FinishJournal, At,
           Phase, InJournal, Writing, Recording
  <2>2. Journaled \subseteq Journaled'
    BY <1>9, JournaledGrows DEF RecoverTransaction, JournalUnits, StepRecorded, FinishJournal, Perform,
           JournalRemoved, Recover, WriteUnits, WriteDone, StartFinish, Fresh, Unlink, Writing
  <2> QED BY <1>2, <2>1, <2>2
<1>10. CASE Crash \/ Die
  <2>1. /\ acked' = acked /\ pc \notin {"done", "failed"} /\ fs' \in {fs, disk}
        /\ disk' = fs' \/ disk' = disk
    BY <1>10 DEF Crash, Die, JCrash, Running
  <2> QED BY <1>2, <2>1 DEF Journaled
<1> QED BY <1>3, <1>4, <1>5, <1>6, <1>7, <1>8, <1>9, <1>10, Steps DEF Working

LEMMA TwoOwners == ASSUME NEW S, IsFiniteSet(S), NEW x \in S, NEW y \in S, Cardinality(S) <= 1 PROVE x = y
<1>1. {x} \subseteq S /\ Cardinality({x}) = 1
  BY FS_Singleton
<1>2. /\ Cardinality({x}) <= Cardinality(S) /\ Cardinality(S) \in Nat
      /\ Cardinality(S) = Cardinality({x}) => S = {x}
  BY <1>1, FS_Subset, FS_CardinalityType
<1>3. S = {x}
  BY <1>1, <1>2
<1> QED BY <1>3

\* What collision_check returns is true of the operations.
LEMMA CheckSound ==
  ASSUME Phase, Books, WellPlanned, Untouched, Check
  PROVE  Apart /\ RemovalSound(CheckResult)
<1>1. pc = "check" /\ "CHECKED" \notin Journaled /\ "MOVED" \notin Journaled
  BY DEF Check, At, Books, Readings, Past, Ledger, Later
<1>2. mem.status = FirstDb /\ fs.info = FirstDb
  BY <1>1 DEF Books, StatusKnown, BeforeMove, Untouched, Pristine
<1>3. \A f : OldOwners(f) = {p \in Installed : f \in OldFiles[p]}
  BY <1>2, SetsAssumption DEF OldOwners, Listed, FirstDb
<1>9. \A f : NewOwners(f) = LastOwners(f)
  BY <1>3 DEF NewOwners, LastOwners, FirstOwners
<1>4. Apart
  <2>1. ASSUME NEW f \in Files, NEW p \in NewOwners(f), NEW q \in NewOwners(f) PROVE p = q
    <3>1. NewOwners(f) \subseteq Pkgs
      BY SetsAssumption, <1>3 DEF NewOwners, ToInstall, WellPlanned
    <3>2. IsFiniteSet(NewOwners(f)) /\ Cardinality(NewOwners(f)) \in Nat
      BY <3>1, SetsAssumption, FS_Subset, FS_CardinalityType
    <3>3. Cardinality(NewOwners(f)) <= 1
      BY <3>2 DEF Check, Collision
    <3> QED BY <3>2, <3>3, TwoOwners
  <2>2. \A f : \A p \in ToInstall : f \in NewOf(p) => p \in NewOwners(f)
    BY DEF NewOwners
  <2>3. \A f : \A p \in Installed \ ToRemove : f \in OldFiles[p] => p \in NewOwners(f) /\ f \in Files
    BY <1>3, SetsAssumption DEF NewOwners
  <2>4. ToInstall \subseteq ToRemove
    BY DEF ToInstall, ToRemove
  <2>5. \A f, g \in Files : <<f, g>> \in Blocks => NewOwners(f) = {} \/ NewOwners(g) = {}
    BY DEF Check, Collision
  <2>6. ASSUME NEW p \in Installed \ ToRemove, NEW q \in ToInstall, NEW f \in OldFiles[p]
        PROVE  f \notin NewOf(q) /\ \A g \in NewOf(q) \cap Files : <<f, g>> \notin Blocks
    <3>1. p # q /\ p \in NewOwners(f) /\ f \in Files
      BY <2>3, <2>4
    <3>2. f \notin NewOf(q)
      BY <2>1, <2>2, <3>1
    <3>3. \A g \in NewOf(q) \cap Files : <<f, g>> \notin Blocks
      BY <2>2, <2>5, <3>1
    <3> QED BY <3>2, <3>3
  <2>7. \A f \in Files : \A p, q \in ToInstall : f \in NewOf(p) \cap NewOf(q) => p = q
    BY <2>1, <2>2
  <2>8. ~Collides
    BY <1>9 DEF Check, Collision, Collides
  <2> QED BY <2>6, <2>7, <2>8 DEF Apart
<1>5. ASSUME NEW f PROVE f \in Disappearing <=> Lost(f)
  BY <1>3, <1>9 DEF Disappearing, Lost, FirstOwners
<1>6. ASSUME NEW p \in ToInstall, NEW g \in Files, p \in NewOwners(g) PROVE g \in NewOf(p)
  BY <1>6 DEF NewOwners, ToInstall, ToRemove
<1>7. ASSUME NEW p \in ToInstall, NEW f \in CheckResult.early[p]
      PROVE  Lost(f) /\ \E g \in NewOf(p) : <<f, g>> \in Blocks
  <2>1. p \in Pkgs
    BY DEF ToInstall, WellPlanned
  <2>2. CheckResult.early[p] = {d \in Disappearing : \E g \in BlockedBy(d) : p \in NewOwners(g)}
    BY <2>1 DEF CheckResult
  <2>3. f \in Disappearing
    BY <1>7, <2>2
  <2>4. PICK g \in BlockedBy(f) : p \in NewOwners(g)
    BY <1>7, <2>2
  <2>5. g \in Files /\ <<f, g>> \in Blocks
    BY DEF BlockedBy
  <2> QED BY <1>5, <1>6, <2>3, <2>4, <2>5
<1>8. ASSUME NEW f \in CheckResult.gone PROVE Lost(f)
  BY <1>5, <1>8 DEF CheckResult
<1>10. ASSUME NEW f, Lost(f) PROVE f \in CheckResult.gone \/ \E p \in ToInstall : f \in CheckResult.early[p]
  <2>1. f \in Disappearing
    BY <1>5, <1>10
  <2>2. CASE BlockedBy(f) = {}
    BY <2>1, <2>2 DEF CheckResult
  <2>3. ASSUME NEW g \in BlockedBy(f) PROVE \E p \in ToInstall : f \in CheckResult.early[p]
    <3>1. g \in Files /\ <<f, g>> \in Blocks
      BY DEF BlockedBy
    <3>2. PICK p \in NewOwners(g) : TRUE
      BY DEF BlockedBy
    <3>3. p \notin Installed \/ g \notin OldFiles[p]
      BY <1>10, <3>1, BlocksAssumption DEF Lost, FirstOwners
    <3>4. p \in ToInstall
      BY <1>9, <3>2, <3>3 DEF LastOwners, FirstOwners
    <3>5. p \in Pkgs
      BY <3>4 DEF ToInstall, WellPlanned
    <3> QED BY <2>1, <3>2, <3>4, <3>5 DEF CheckResult
  <2> QED BY <2>2, <2>3
<1> QED BY <1>4, <1>7, <1>8, <1>10 DEF RemovalSound

\* Between the calls of journal.c the process knows all that is stored.
LEMMA IdleStored ==
  ASSUME Phase, Books, Opened, pc \in Busy, op = "idle"
  PROVE  StoredTypes \subseteq Journaled
<1>1. fd = "open"
  BY DEF Opened
<1>2. rec = NoRecord
  BY <1>1 DEF Books, Ledger, J!IInv, J!Control
<1>3. ~Pending
  BY <1>2, JournalAssumption, BookDefs DEF Books, Ledger, J!IInv, J!Contents, Pending, Writing
<1>4. DOMAIN acked = 1..Len(acked)
  BY DEF Phase, Shape, IsSeq
<1> QED BY <1>3, <1>4 DEF StoredTypes, Stored, Journaled

\* A step of the plan that has not been journaled is not on its way there either.
LEMMA NothingStored ==
  ASSUME Phase, Books, Opened, pc = "unpack", op = "idle", ~Have("UNPACKED")
  PROVE  "UNPACKED" \notin StoredTypes /\ "CHECKED" \notin StoredTypes
<1>1. "UNPACKED" \notin Journaled
  BY DEF Books, Readings, Past
<1>2. "CHECKED" \notin Journaled
  BY <1>1 DEF Books, Ledger, Later
<1> QED BY <1>1, <1>2, IdleStored

LEMMA UnpackGoesOn ==
  ASSUME Phase, [Next]_vars, ~Perform, ~UnpackOp, pc' = "unpack"
  PROVE  mem'.i = 1 \/ (pc = "unpack" /\ mem'.i = mem.i) \/ SkipRemoval
<1>1. Shape /\ "i" \in DOMAIN mem
  BY DEF Phase, Shape, Variables
<1>2. CASE UNCHANGED vars
  BY <1>2 DEF vars
<1>3. CASE RecoverTransaction
  BY <1>3 DEF RecoverTransaction, FreshMemory
<1>4. CASE Crash \/ Die \/ JournalRemoved
  BY <1>4 DEF Crash, Die, JournalRemoved, Unlink, Phase, InJournal
<1>5. CASE JournalUnits \/ FinishJournal
  BY <1>5 DEF JournalUnits, FinishJournal
<1>6. CASE StepRecorded
  <2>1. mem' = [mem EXCEPT !.i = 1] \/ (pc' = pc /\ mem' = mem)
    BY <1>6 DEF StepRecorded
  <2> QED BY <1>1, <2>1
<1>7. CASE Replays
  BY <1>7 DEF Replays, ReplayUnpack, ReplayCheck, ReplayChangelogStart, ReplayMove, ReplayScripts,
         ReplayChangelogEnd, ReplayCleaned, Replay, AfterStep
<1>8. CASE Commits
  BY <1>1, <1>8 DEF Commits, UnpackDone, Check, ChangelogStart, MoveDone, ScriptsDone, ChangelogEnd, CleanedDone,
         Commit, At
<1>9. CASE StatusDump \/ (Moving /\ ~MoveDone)
  BY <1>1, <1>9, MovingWorks DEF StatusDump, Goto
<1>10. CASE Working
  BY <1>1, <1>10 DEF Working, SkipRemoval, UnpackError, CheckError, OpenChangelog, PostScript, CloseChangelog,
         RemoveFile, RemoveDir, ControlCleanup, Turn, Goto, Raise, At
<1> QED BY <1>2, <1>3, <1>4, <1>5, <1>6, <1>7, <1>8, <1>9, <1>10, Steps

LEMMA SameSettled ==
  ASSUME plan' = plan, Apart, NEW r, RemovalSound(r)
  PROVE  Apart' /\ RemovalSound(r)'
<1>1. ToInstall' = ToInstall /\ ToRemove' = ToRemove /\ \A p : NewOf(p)' = NewOf(p)
  BY DEF ToInstall, ToRemove, NewOf
<1>2. \A f : LastOwners(f)' = LastOwners(f)
  BY <1>1 DEF LastOwners, FirstOwners
<1>5. \A f : Lost(f)' = Lost(f)
  BY <1>2 DEF Lost, FirstOwners
<1>3. Apart'
  BY <1>1, <1>2 DEF Apart, Collides
<1>4. RemovalSound(r)'
  BY <1>1, <1>5 DEF RemovalSound
<1> QED BY <1>3, <1>4

LEMMA PlanSettledKept ==
  ASSUME Phase, Books, WellPlanned, mem.i \in Nat \ {0}, Opened, Untouched, PlanSettled, [Next]_vars
  PROVE  PlanSettled'
<1>1. DOMAIN plan = 1..Len(plan) /\ Len(plan) \in Nat
  BY DEF WellPlanned, IsSeq
<1>2. \A o : o.op = "remove" => ConfsIn(o)
  BY DEF ConfsIn
<1>3. CASE Perform
  <2>1. acked' = <<>> /\ rec' = Start /\ mem'.i = 1 /\ DOMAIN plan' = DOMAIN plan
    BY <1>3 DEF Perform, Fresh, EnterWrite, FreshMemory
  <2>2. \A r \in Stored' : r.type = "START"
    BY <2>1 DEF Stored, Start
  <2>3. "UNPACKED" \notin StoredTypes' /\ "CHECKED" \notin StoredTypes'
    BY <2>2 DEF StoredTypes
  <2> QED BY <1>1, <2>1, <2>2, <2>3 DEF PlanSettled
<1>4. CASE UnpackOp
  <2>1. UNCHANGED journal /\ pc = "unpack" /\ op = "idle" /\ ~Have("UNPACKED") /\ Oper.op = "install"
    BY <1>4 DEF UnpackOp, At
  <2>2. Stored' = Stored /\ StoredTypes' = StoredTypes
    BY <2>1 DEF journal, Stored, StoredTypes, Pending
  <2>3. "UNPACKED" \notin StoredTypes' /\ "CHECKED" \notin StoredTypes'
    BY <2>1, <2>2, NothingStored
  <2>4. \A r \in Stored' : r.type # "CHECKED"
    BY <2>3 DEF StoredTypes
  <2>5. ASSUME NEW n \in DOMAIN plan', pc' = "unpack", n < mem'.i PROVE ConfsIn(plan'[n])
    <3>1. PICK out \in unpack_package(NewFiles[Oper.pkg]) :
            LET found == out.whole \cup out.torn
                examined == Confs \cap NewFiles[Oper.pkg] \subseteq found
            IN /\ plan' = IF examined THEN [plan EXCEPT ![mem.i].files = found] ELSE plan
               /\ mem' = IF examined THEN NextOper ELSE mem
               /\ pc' = IF examined THEN pc ELSE "abort"
      BY <1>4 DEF UnpackOp
    <3> DEFINE found == out.whole \cup out.torn
    <3>2. Confs \cap NewFiles[Oper.pkg] \subseteq found /\ plan' = [plan EXCEPT ![mem.i].files = found]
          /\ mem' = NextOper
      BY <3>1, <2>5
    <3> HIDE DEF found
    <3>3. mem'.i = mem.i + 1 /\ DOMAIN plan' = DOMAIN plan
      BY <3>2 DEF NextOper, Phase, Shape, Variables
    <3>4. CASE n < mem.i
      <4>1. plan'[n] = plan[n]
        BY <3>2, <3>3, <3>4
      <4> QED BY <2>1, <3>3, <3>4, <4>1 DEF PlanSettled
    <3>5. CASE n = mem.i
      <4>1. plan'[n] = [plan[n] EXCEPT !.files = found] /\ DOMAIN plan[n] = Fields
        BY <3>2, <3>3, <3>5 DEF WellPlanned
      <4>2. plan'[n].files = found /\ plan'[n].pkg = Oper.pkg
        BY <3>5, <4>1 DEF Fields, Oper
      <4> QED BY <3>2, <4>2 DEF ConfsIn
    <3> QED BY <1>1, <2>5, <3>3, <3>4, <3>5
  <2> QED BY <2>3, <2>4, <2>5 DEF PlanSettled
<1>5. CASE ~Perform /\ ~UnpackOp
  <2>1. plan' = plan
    BY <1>5, PlanStays
  <2>2. ASSUME pc' = "unpack", NEW n \in DOMAIN plan, n < mem'.i PROVE ConfsIn(plan[n])
    <3>1. CASE mem'.i = 1
      BY <1>1, <2>2, <3>1
    <3>2. CASE pc = "unpack" /\ mem'.i = mem.i
      BY <2>2, <3>2 DEF PlanSettled
    <3>3. CASE SkipRemoval
      <4>1. pc = "unpack" /\ mem'.i = mem.i + 1 /\ Oper.op = "remove"
        BY <3>3 DEF SkipRemoval, Turn, At, NextOper, Phase, Shape, Variables
      <4>2. n < mem.i \/ n = mem.i
        BY <1>1, <2>2, <4>1
      <4> QED BY <1>2, <4>1, <4>2 DEF PlanSettled, Oper
    <3> QED BY <1>5, <2>2, <3>1, <3>2, <3>3, UnpackGoesOn
  <2>3. ASSUME Commits, rec'.type = "UNPACKED", NEW n \in DOMAIN plan PROVE ConfsIn(plan[n])
    <3>1. pc = "unpack"
      BY <2>3, CommitFits DEF Recording
    <3>2. ~More
      BY <2>3, <3>1 DEF Commits, UnpackDone, Check, ChangelogStart, MoveDone, ScriptsDone, ChangelogEnd,
             CleanedDone, At
    <3>3. n < mem.i
      BY <1>1, <3>2 DEF More
    <3> QED BY <3>1, <3>3 DEF PlanSettled
  <2>4. ASSUME Commits, rec'.type = "CHECKED" PROVE Apart /\ RemovalSound(rec'.params)
    <3>1. pc = "check"
      BY <2>4, CommitFits DEF Recording
    <3>2. Check
      BY <2>4, <3>1 DEF Commits, UnpackDone, ChangelogStart, MoveDone, ScriptsDone, ChangelogEnd,
             CleanedDone, At
    <3>3. rec'.params = CheckResult
      BY <3>2 DEF Check, Commit, Write, EnterWrite
    <3> QED BY <3>2, <3>3, CheckSound
  <2>5. ASSUME NEW r \in Stored'
        PROVE  r \in Stored \/ r.type \in {"START", "FINISH"} \/ (Commits /\ r = rec')
    BY <2>5, StoredFlow
  <2>6. ASSUME NEW n \in DOMAIN plan', (pc' = "unpack" /\ n < mem'.i) \/ "UNPACKED" \in StoredTypes'
        PROVE  ConfsIn(plan'[n])
    <3>1. CASE "UNPACKED" \in StoredTypes'
      <4>1. PICK r \in Stored' : r.type = "UNPACKED"
        BY <3>1 DEF StoredTypes
      <4>2. CASE r \in Stored
        BY <2>1, <4>1, <4>2 DEF PlanSettled, StoredTypes
      <4> QED BY <2>1, <2>3, <2>5, <4>1, <4>2
    <3> QED BY <2>1, <2>2, <2>6, <3>1
  <2>7. ASSUME NEW r \in Stored', r.type = "CHECKED" PROVE Apart /\ RemovalSound(r.params)
    <3>1. CASE r \in Stored
      BY <2>7, <3>1 DEF PlanSettled, StoredTypes
    <3> QED BY <2>4, <2>5, <2>7, <3>1
  <2>8. ASSUME NEW r \in Stored', r.type = "CHECKED" PROVE Apart' /\ RemovalSound(r.params)'
    <3>1. PICK q : q = r.params
      OBVIOUS
    <3>2. Apart /\ RemovalSound(q)
      BY <2>7, <2>8, <3>1
    <3> QED BY <2>1, <3>1, <3>2, SameSettled
  <2> QED BY <2>6, <2>8 DEF PlanSettled, StoredTypes
<1> QED BY <1>3, <1>4, <1>5

LEMMA RemovalStays ==
  ASSUME plan' = plan, RemovalSound(mem'.removal)
  PROVE  RemovalSound(mem.removal)'
<1>1. ToInstall' = ToInstall /\ ToRemove' = ToRemove /\ \A p : NewOf(p)' = NewOf(p)
  BY DEF ToInstall, ToRemove, NewOf
<1>2. \A f : Lost(f)' = Lost(f)
  BY <1>1 DEF Lost, LastOwners, FirstOwners
<1> QED BY <1>1, <1>2 DEF RemovalSound

LEMMA StageStays ==
  ASSUME Moves, plan' = plan, pc' = pc, op' = "write" /\ pc = "check" => op = "write",
         mem'.i = mem.i, mem'.todo \subseteq mem.todo, mem'.removal = mem.removal, mem'.replay = mem.replay
  PROVE  Moves'
<1>1. pc' \in AfterChecked \/ (pc' = "check" /\ op' = "write") => RemovalSound(mem.removal)'
  BY RemovalStays DEF Moves
<1> QED BY <1>1 DEF Moves, Have, More, Oper, BeforeMove

LEMMA StageEnds ==
  ASSUME plan' = plan, pc' # "unpack", pc' \in BeforeMove => mem'.i = 1,
         pc' \notin {"control", "preinst", "early", "merge", "gone"},
         pc' \in AfterChecked \/ (pc' = "check" /\ op' = "write") => RemovalSound(mem'.removal)
  PROVE  Moves'
<1>1. pc' \in AfterChecked \/ (pc' = "check" /\ op' = "write") => RemovalSound(mem.removal)'
  BY RemovalStays
<1> QED BY <1>1 DEF Moves, BeforeMove

\* What the steps that run a script do besides.
LEMMA PreinstDoes ==
  ASSUME Shape, Preinst
  PROVE  /\ pc = "preinst" /\ pc' = "early" /\ UNCHANGED <<fs, disk, plan, user>>
         /\ mem'.todo = mem.removal.early[Oper.pkg]
         /\ \A v \in Variables \ {"errs", "todo"} : mem'[v] = mem[v]
<1> DEFINE next == [mem EXCEPT !.todo = mem.removal.early[Oper.pkg]]
<1>1. RunScript(Oper.pkg, "preinst", next)
  BY DEF Preinst
<1>2. DOMAIN next = Variables /\ next.todo = mem.removal.early[Oper.pkg]
  BY DEF Shape, Variables
<1>3. \A v \in Variables \ {"todo"} : next[v] = mem[v]
  BY DEF Shape
<1> HIDE DEF next
<1>4. \A v \in Variables \ {"errs"} : mem'[v] = next[v]
  BY <1>1, <1>2 DEF RunScript, Variables
<1>5. mem'.todo = next.todo
  BY <1>4 DEF Variables
<1> QED BY <1>2, <1>3, <1>4, <1>5 DEF Preinst, At, env

LEMMA MoveRemoveDoes ==
  ASSUME Shape, MoveRemove
  PROVE  /\ pc = "moving" /\ More /\ Oper.op = "remove" /\ UNCHANGED <<pc, disk, plan, user>>
         /\ fs'.root = fs.root /\ fs'.backup = fs.backup
         /\ mem'.i = mem.i + 1
         /\ \A v \in Variables \ {"errs", "i", "configs", "status"} : mem'[v] = mem[v]
         /\ \/ /\ mem'.configs = mem.configs \cup (Confs \cap OldFiles[Oper.pkg])
               /\ \E state : mem'.status = [mem.status EXCEPT ![Oper.pkg] = state]
            \/ /\ mem.status[Oper.pkg] \notin {"old", "new"}
               /\ mem'.configs = mem.configs /\ mem'.status = mem.status
<1> DEFINE next == [NextOper EXCEPT !.configs = @ \cup (Confs \cap OldFiles[Oper.pkg]),
                                    !.status[Oper.pkg] = IF KeptConfigs(Oper.pkg) = {} THEN "none"
                                                         ELSE "config"]
<1>1. \/ RunScript(Oper.pkg, "prerm", next)
      \/ mem.status[Oper.pkg] \notin {"old", "new"} /\ mem' = NextOper
  BY DEF MoveRemove
<1>2. /\ NextOper.i = mem.i + 1 /\ \A v \in Variables \ {"i"} : NextOper[v] = mem[v]
      /\ DOMAIN NextOper = Variables
  BY DEF NextOper, Shape, Variables
<1>3. NextOper.configs = mem.configs /\ NextOper.status = mem.status
  BY DEF NextOper, Shape, Variables
<1>4. /\ DOMAIN next = Variables /\ next.i = mem.i + 1
      /\ next.configs = mem.configs \cup (Confs \cap OldFiles[Oper.pkg])
      /\ next.status = [mem.status EXCEPT ![Oper.pkg] = IF KeptConfigs(Oper.pkg) = {} THEN "none" ELSE "config"]
  BY <1>2, <1>3 DEF Variables
<1>5. \A v \in Variables \ {"i", "configs", "status"} : next[v] = mem[v]
  BY <1>2
<1> HIDE DEF next
<1>6. CASE RunScript(Oper.pkg, "prerm", next)
  <2>1. \A v \in Variables \ {"errs"} : mem'[v] = next[v]
    BY <1>4, <1>6 DEF RunScript, Variables
  <2>2. mem'.i = next.i /\ mem'.configs = next.configs /\ mem'.status = next.status
    BY <2>1 DEF Variables
  <2>3. \E state : mem'.status = [mem.status EXCEPT ![Oper.pkg] = state]
    BY <1>4, <2>2
  <2> QED BY <1>4, <1>5, <2>1, <2>2, <2>3 DEF MoveRemove, At, env, Shape, Parts
<1>7. CASE mem.status[Oper.pkg] \notin {"old", "new"} /\ mem' = NextOper
  BY <1>2, <1>3, <1>7 DEF MoveRemove, At, env, Shape, Parts
<1> QED BY <1>1, <1>6, <1>7

LEMMA PostScriptDoes ==
  ASSUME Shape, PostScript
  PROVE  \A v \in Variables \ {"errs", "i"} : mem'[v] = mem[v]
<1>1. \/ RunScript(Oper.pkg, "postinst", NextOper) \/ RunScript(Oper.pkg, "postrm", NextOper)
      \/ mem' = NextOper
  BY DEF PostScript
<1>2. DOMAIN NextOper = Variables /\ \A v \in Variables \ {"i"} : NextOper[v] = mem[v]
  BY DEF NextOper, Shape, Variables
<1>3. ASSUME NEW p, NEW s, RunScript(p, s, NextOper) PROVE \A v \in Variables \ {"errs"} : mem'[v] = NextOper[v]
  BY <1>2, <1>3 DEF RunScript, Variables
<1> QED BY <1>1, <1>2, <1>3

LEMMA MovingMoves ==
  ASSUME Shape, Moves, Moving, ~MoveDone, plan' = plan
  PROVE  Moves'
<1> USE DEF Shape, Variables, At
<1>1. mem'.removal = mem.removal /\ pc' \in AfterChecked \cup {"abort"} /\ pc \in AfterChecked
  <2>1. CASE Preinst \/ MoveRemove
    BY <2>1, PreinstDoes, MoveRemoveDoes
  <2> QED BY <2>1 DEF Moving, StartMove, MoveInstall, DropControl, CopyControl, MoveError, CopyChanged,
             MergeDone, MoveRest, EarlyRemove, MergeFile, RemoveGone, Turn, Goto, Raise, NextOper, Visited
<1>2. pc' \in AfterChecked => RemovalSound(mem'.removal)
  BY <1>1 DEF Moves
<1>3. CASE StartMove \/ MoveError \/ MergeDone \/ MoveRemove
  <2>1. pc' \in {"moving", "abort"}
    BY <1>3, MoveRemoveDoes DEF StartMove, MoveError, MergeDone, Goto, Raise
  <2> QED BY <1>2, <2>1, StageEnds DEF BeforeMove
<1>4. CASE DropControl \/ \E f \in Files : EarlyRemove(f) \/ MergeFile(f) \/ RemoveGone(f)
  <2>1. /\ pc' = pc /\ pc # "check" /\ mem'.i = mem.i /\ mem'.todo \subseteq mem.todo
        /\ mem'.replay = mem.replay
    BY <1>4 DEF DropControl, EarlyRemove, MergeFile, RemoveGone, Turn, Visited
  <2> QED BY <1>1, <2>1, StageStays
<1>5. RemovalSound(mem.removal)' \/ pc' \notin AfterChecked
  BY <1>2, RemovalStays
<1>6. CASE MoveInstall \/ CopyControl
  <2>1. /\ mem' = mem /\ pc' \in {"control", "preinst"} /\ (pc = "control" \/ (More /\ Oper.op = "install"))
    BY <1>6 DEF MoveInstall, CopyControl, Goto
  <2>2. More' /\ Oper'.op = "install"
    BY <2>1 DEF Moves, More, Oper
  <2> QED BY <1>5, <2>1, <2>2 DEF Moves, BeforeMove
<1>7. CASE Preinst
  <2>1. /\ pc = "preinst" /\ pc' = "early" /\ mem'.i = mem.i /\ mem'.todo = mem.removal.early[Oper.pkg]
    BY <1>7, PreinstDoes
  <2>2. More' /\ Oper'.op = "install" /\ Oper' = Oper
    BY <2>1 DEF Moves, More, Oper
  <2> QED BY <1>1, <1>5, <2>1, <2>2 DEF Moves, BeforeMove
<1>8. CASE CopyChanged
  <2>1. /\ pc = "early" /\ pc' = "merge" /\ mem'.i = mem.i /\ mem'.todo \subseteq Oper.files
    BY <1>8 DEF CopyChanged, Goto
  <2>2. More' /\ Oper'.op = "install" /\ Oper' = Oper
    BY <2>1 DEF Moves, More, Oper
  <2> QED BY <1>1, <1>5, <2>1, <2>2 DEF Moves, BeforeMove
<1>9. CASE MoveRest
  <2>1. /\ ~More /\ pc' = "gone" /\ mem'.i = mem.i /\ mem'.todo = mem.removal.gone
    BY <1>9 DEF MoveRest, Goto
  <2>2. ~More'
    BY <2>1 DEF More
  <2> QED BY <1>1, <1>5, <2>1, <2>2 DEF Moves, BeforeMove
<1> QED BY <1>3, <1>4, <1>6, <1>7, <1>8, <1>9 DEF Moving

LEMMA MovesKept ==
  ASSUME Phase, Books, WellPlanned, Opened, Untouched, PlanSettled, Moves, [Next]_vars
  PROVE  Moves'
<1>1. Shape /\ "i" \in DOMAIN mem /\ "dirs" \in DOMAIN mem /\ "removal" \in DOMAIN mem
  BY DEF Phase, Shape, Variables
<1>2. CASE Perform \/ UnpackOp
  <2>1. CASE Perform
    BY <2>1 DEF Perform, Have, FreshMemory, Moves, BeforeMove
  <2>2. CASE UnpackOp
    <3>1. pc' \in {"unpack", "abort"} /\ ~Have("UNPACKED") /\ mem'.replay = mem.replay
      BY <1>1, <2>2 DEF UnpackOp, NextOper, At
    <3> QED BY <3>1 DEF Moves, BeforeMove, Have
  <2> QED BY <1>2, <2>1, <2>2
<1>3. CASE RecoverTransaction
  <2>1. pc' \in {"unpack", "wipe", "stuck"} /\ mem'.i = 1
    BY <1>3 DEF RecoverTransaction, FreshMemory
  <2> QED BY <2>1 DEF Moves, BeforeMove
<1>4. CASE Crash \/ Die \/ JournalRemoved
  <2>1. pc' \in {"down", "done", "failed"}
    BY <1>4 DEF Crash, Die, JournalRemoved, Unlink, Phase, InJournal
  <2> QED BY <2>1 DEF Moves, BeforeMove
<1>5. plan' = plan \/ Perform \/ UnpackOp
  BY PlanStays
<1>6. CASE UNCHANGED vars \/ JournalUnits \/ FinishJournal
  <2>1. UNCHANGED <<plan, pc, mem>> /\ (op' = "write" => op = "write")
    BY <1>6 DEF vars, journal, JournalUnits, FinishJournal, WriteUnits, StartFinish, EnterWrite, env
  <2> QED BY <2>1, StageStays
<1>7. CASE StepRecorded
  <2>1. plan' = plan /\ op \in Writing /\ op' \in {"idle", "unlink"}
    BY <1>7 DEF StepRecorded, WriteDone, env
  <2>2. CASE op = "write"
    <3>1. /\ pc' = AfterStep[rec.type] /\ <<pc, rec.type>> \in Recording /\ mem' = [mem EXCEPT !.i = 1]
      BY <1>7, <2>2 DEF StepRecorded, Phase, InJournal
    <3>2. /\ pc' \in {"check", "open_changelog", "move", "scripts", "changelog_end", "close_changelog", "finish"}
          /\ pc' = "check" \/ pc = "check" \/ pc \in AfterChecked
          /\ mem'.i = 1 /\ mem'.removal = mem.removal
      BY <1>1, <3>1 DEF Recording, AfterStep
    <3>3. pc' \in AfterChecked => RemovalSound(mem'.removal)
      BY <2>2, <3>2 DEF Moves
    <3> QED BY <2>1, <3>2, <3>3, StageEnds
  <2>3. CASE op # "write"
    <3>1. pc' = pc /\ mem' = mem
      BY <1>7, <2>3 DEF StepRecorded
    <3> QED BY <2>1, <3>1, StageStays
  <2> QED BY <2>2, <2>3
<1>8. CASE Replays
  <2>1. plan' = plan /\ op' = "idle"
    BY <1>8, ReplaysLeave DEF journal, Replays, ReplayUnpack, ReplayCheck, ReplayChangelogStart, ReplayMove,
           ReplayScripts, ReplayChangelogEnd, ReplayCleaned, Replay, env
  <2>2. CASE ReplayUnpack
    <3>1. pc' = "check" /\ mem'.i = 1
      BY <1>1, <2>2 DEF ReplayUnpack, Replay, AfterStep, At, Moves
    <3> QED BY <2>1, <3>1, StageEnds
  <2>3. CASE ReplayCheck
    <3>1. pc' = "open_changelog" /\ mem'.i = 1 /\ mem'.removal = ResultOf("CHECKED") /\ pc = "check" /\ Have("CHECKED")
          /\ op = "idle"
      BY <1>1, <2>3 DEF ReplayCheck, Replay, AfterStep, At, Moves, BeforeMove
    <3>2. PICK r \in mem.replay : r.type = "CHECKED" /\ mem'.removal = r.params
      BY <3>1 DEF Have, ResultOf
    <3>3. r \in Stored
      BY <3>1, <3>2 DEF Opened, Stored
    <3>4. RemovalSound(mem'.removal)
      BY <3>2, <3>3 DEF PlanSettled
    <3> QED BY <2>1, <3>1, <3>4, StageEnds
  <2>4. CASE ReplayChangelogStart
    <3>1. pc' = "move" /\ pc = "changelog_start" /\ mem' = mem
      BY <2>4 DEF ReplayChangelogStart, Replay, AfterStep, At
    <3>2. mem'.i = 1 /\ RemovalSound(mem'.removal)
      BY <3>1 DEF Moves, BeforeMove
    <3> QED BY <2>1, <3>1, <3>2, StageEnds
  <2>5. CASE ReplayMove \/ ReplayScripts \/ ReplayChangelogEnd \/ ReplayCleaned
    <3>1. /\ pc' \in {"scripts", "changelog_end", "close_changelog", "finish"} /\ pc \in AfterChecked
          /\ mem'.removal = mem.removal
      BY <1>1, <2>5 DEF ReplayMove, ReplayScripts, ReplayChangelogEnd, ReplayCleaned, Replay, AfterStep, At
    <3>2. RemovalSound(mem'.removal)
      BY <3>1 DEF Moves
    <3> QED BY <2>1, <3>1, <3>2, StageEnds DEF BeforeMove
  <2> QED BY <1>8, <2>2, <2>3, <2>4, <2>5 DEF Replays
<1>9. CASE Commits
  <2>1. plan' = plan /\ pc' = pc
    BY <1>9 DEF Commits, UnpackDone, Check, ChangelogStart, MoveDone, ScriptsDone, ChangelogEnd, CleanedDone,
         Commit, env
  <2>2. CASE UnpackDone
    <3>1. pc = "unpack" /\ ~Have("UNPACKED") /\ mem'.replay = mem.replay
      BY <1>1, <2>2 DEF UnpackDone, At
    <3> QED BY <2>1, <3>1 DEF Moves, BeforeMove, Have
  <2>3. CASE Check
    <3>1. pc = "check" /\ mem'.i = mem.i /\ mem'.removal = CheckResult
      BY <1>1, <2>3 DEF Check, At
    <3>2. RemovalSound(mem'.removal) /\ mem.i = 1
      BY <2>3, <3>1, CheckSound DEF Moves, BeforeMove
    <3> QED BY <2>1, <3>1, <3>2, StageEnds
  <2>4. CASE Commits /\ ~UnpackDone /\ ~Check
    <3>1. mem' = mem /\ pc # "check"
      BY <2>4 DEF Commits, ChangelogStart, MoveDone, ScriptsDone, ChangelogEnd, CleanedDone, At
    <3> QED BY <2>1, <3>1, StageStays
  <2> QED BY <1>9, <2>2, <2>3, <2>4
<1>10. CASE StatusDump
  <2>1. pc = "dump" /\ pc' = "dumped" /\ mem' = mem
    BY <1>10 DEF StatusDump, At, Goto
  <2>2. RemovalSound(mem'.removal) /\ plan' = plan
    BY <1>10, <2>1 DEF Moves, StatusDump, Goto, env
  <2> QED BY <2>1, <2>2, StageEnds DEF BeforeMove
<1>11. CASE Working /\ ~UnpackOp /\ plan' = plan
  <2>1. CASE SkipRemoval
    <3>1. pc' = "unpack" /\ ~Have("UNPACKED")'
      BY <1>1, <2>1 DEF SkipRemoval, Turn, At, Have, NextOper
    <3> QED BY <3>1 DEF Moves, BeforeMove
  <2>2. CASE UnpackError \/ CheckError
    <3>1. pc' = "abort"
      BY <2>2 DEF UnpackError, CheckError, Raise, Goto
    <3> QED BY <3>1 DEF Moves, BeforeMove
  <2>3. CASE OpenChangelog
    <3>1. pc = "open_changelog" /\ pc' = "changelog_start" /\ mem' = mem
      BY <2>3 DEF OpenChangelog, Goto, At
    <3>2. RemovalSound(mem'.removal) /\ mem'.i = 1
      BY <3>1 DEF Moves, BeforeMove
    <3> QED BY <1>11, <3>1, <3>2, StageEnds
  <2>4. CASE PostScript \/ CloseChangelog \/ RemoveFile \/ RemoveDir \/ ControlCleanup
    <3>1. mem'.removal = mem.removal
      BY <1>1, <2>4, PostScriptDoes DEF CloseChangelog, RemoveFile, RemoveDir, ControlCleanup, Turn, Goto, Variables
    <3>2. /\ pc \in AfterMoved \cup {"abort"} /\ pc' \in AfterMoved \cup {"abort"}
          /\ pc' = "abort" <=> pc = "abort"
      BY <2>4 DEF PostScript, CloseChangelog, RemoveFile, RemoveDir, ControlCleanup, Turn, Goto, At
    <3>3. pc' \in AfterChecked => RemovalSound(mem'.removal)
      BY <3>1, <3>2 DEF Moves
    <3> QED BY <1>11, <3>2, <3>3, StageEnds DEF BeforeMove
  <2> QED BY <1>11, <2>1, <2>2, <2>3, <2>4 DEF Working
<1>12. CASE Moving /\ ~MoveDone /\ plan' = plan
  BY <1>1, <1>12, MovingMoves
<1> QED BY <1>2, <1>3, <1>4, <1>5, <1>6, <1>7, <1>8, <1>9, <1>10, <1>11, <1>12, Steps

LEMMA ConfigsStay ==
  ASSUME plan' = plan, Configs, pc \in AtMove \/ pc' \notin AtMove, mem'.i = mem.i,
         mem'.configs = mem.configs, mem'.status = mem.status
  PROVE  Configs'
<1>1. ToInstall' = ToInstall /\ \A p : NewOf(p)' = NewOf(p)
  BY DEF ToInstall, NewOf
<1>2. \A p : OldConfigs(p)' = OldConfigs(p)
  BY <1>1 DEF OldConfigs
<1> QED BY <1>1, <1>2 DEF Configs

\* An operation is done.
LEMMA ConfigsGrow ==
  ASSUME plan' = plan, Configs, pc = "moving" \/ pc = "merge", WellPlanned, mem.i \in Nat \ {0}, More,
         mem'.i = mem.i + 1, mem.configs \subseteq mem'.configs,
         \A p \in Pkgs \ {Oper.pkg} : mem'.status[p] = mem.status[p],
         Oper.pkg \in Installed => Confs \cap OldFiles[Oper.pkg] \subseteq mem'.configs
  PROVE  Configs'
<1>1. ToInstall' = ToInstall /\ \A p : NewOf(p)' = NewOf(p)
  BY DEF ToInstall, NewOf
<1>2. \A p : OldConfigs(p)' = OldConfigs(p)
  BY <1>1 DEF OldConfigs
<1>3. pc \in AtMove
  BY DEF AtMove
<1>4. \A p \in ToInstall' : OldConfigs(p)' \subseteq mem'.configs
  BY <1>1, <1>2, <1>3 DEF Configs
<1>5. DOMAIN plan = 1..Len(plan) /\ Len(plan) \in Nat /\ mem.i \in DOMAIN plan
  BY OperPlanned
<1>6. ASSUME NEW p \in Installed
      PROVE  IF \E n \in DOMAIN plan : n < mem'.i /\ plan[n].pkg = p
             THEN Confs \cap OldFiles[p] \subseteq mem'.configs
             ELSE mem'.status[p] = "old"
  <2>1. CASE p = Oper.pkg
    <3>1. mem.i < mem'.i /\ plan[mem.i].pkg = p
      BY <2>1 DEF Oper
    <3> QED BY <1>5, <2>1, <3>1
  <2>2. CASE p # Oper.pkg
    <3>1. \A n \in DOMAIN plan : n < mem'.i /\ plan[n].pkg = p => n < mem.i
      BY <1>5, <2>2 DEF Oper
    <3>2. \A n \in DOMAIN plan : n < mem.i => n < mem'.i
      BY <1>5
    <3>3. mem'.status[p] = mem.status[p]
      BY <2>2, SetsAssumption
    <3> QED BY <1>3, <3>1, <3>2, <3>3 DEF Configs
  <2> QED BY <2>1, <2>2
<1> QED BY <1>4, <1>6 DEF Configs

LEMMA ConfigsKept ==
  ASSUME Phase, Books, WellPlanned, mem.i \in Nat \ {0}, Moves, Configs, [Next]_vars
  PROVE  Configs'
<1>1. Shape /\ DOMAIN mem = Variables
  BY DEF Phase, Shape
<1>2. pc \in AtMove => mem.status \in [Pkgs -> PkgState]
  BY DEF Books, StatusKnown, AtMove
<1>3. plan' = plan \/ Perform \/ UnpackOp
  BY PlanStays
<1>4. ASSUME pc' \notin AtMove PROVE Configs'
  BY <1>4 DEF Configs
<1>5. CASE Perform \/ UnpackOp \/ RecoverTransaction \/ Crash \/ Die \/ JournalRemoved
  <2>1. pc' \notin AtMove
    BY <1>5 DEF Perform, UnpackOp, RecoverTransaction, Crash, Die, JournalRemoved, Unlink, Phase, InJournal, AtMove,
       At
  <2> QED BY <1>4, <2>1
<1>6. CASE UNCHANGED vars \/ JournalUnits \/ FinishJournal
  <2>1. UNCHANGED <<plan, pc, mem>>
    BY <1>6 DEF vars, JournalUnits, FinishJournal, env
  <2> QED BY <2>1, ConfigsStay
<1>7. CASE StepRecorded
  <2>1. \/ pc' = AfterStep[rec.type] /\ <<pc, rec.type>> \in Recording
        \/ pc' = pc /\ mem' = mem /\ plan' = plan
    BY <1>7 DEF StepRecorded, Phase, InJournal, env
  <2>2. CASE pc' = AfterStep[rec.type] /\ <<pc, rec.type>> \in Recording
    <3>1. pc' \notin AtMove
      BY <2>2 DEF Recording, AfterStep, AtMove
    <3> QED BY <1>4, <3>1
  <2> QED BY <2>1, <2>2, ConfigsStay
<1>8. CASE Replays
  <2>1. pc' \notin AtMove
    BY <1>8 DEF Replays, ReplayUnpack, ReplayCheck, ReplayChangelogStart, ReplayMove,
           ReplayScripts, ReplayChangelogEnd, ReplayCleaned, Replay, AfterStep, AtMove
  <2> QED BY <1>4, <2>1
<1>9. CASE Commits
  <2>1. \/ pc' \notin AtMove
        \/ UNCHANGED <<plan, pc, mem>>
    BY <1>9 DEF Commits, UnpackDone, Check, ChangelogStart, MoveDone, ScriptsDone, ChangelogEnd, CleanedDone,
         Commit, env, At, AtMove
  <2> QED BY <1>4, <2>1, ConfigsStay
<1>10. CASE Working \/ StatusDump
  <2>1. pc' \notin AtMove
    <3>1. CASE Working
      BY <1>1, <3>1, OthersWork DEF AtMove
    <3>2. CASE StatusDump
      BY <3>2 DEF StatusDump, Goto, AtMove
    <3> QED BY <1>10, <3>1, <3>2
  <2> QED BY <1>4, <2>1
<1>11. CASE StartMove
  <2>1. /\ pc = "move" /\ ~Have("MOVED") /\ mem'.i = mem.i /\ mem'.status = mem.status /\ plan' = plan
        /\ mem'.configs = UNION {OldConfigs(p) : p \in ToInstall}
    BY <1>1, <1>11 DEF StartMove, At, Goto, Variables, env
  <2>2. mem.i = 1
    BY <2>1 DEF Moves, BeforeMove
  <2>3. "MOVED" \notin Journaled
    BY <2>1 DEF Books, Readings, Past
  <2>4. mem.status = FirstDb
    BY <2>1, <2>3 DEF Books, StatusKnown, BeforeMove
  <2>5. \A p \in Installed : mem'.status[p] = "old"
    BY <2>1, <2>4, SetsAssumption DEF FirstDb
  <2>6. \A n \in DOMAIN plan : ~(n < mem'.i)
    BY <2>1, <2>2 DEF WellPlanned, IsSeq
  <2>7. ToInstall' = ToInstall /\ \A p : NewOf(p)' = NewOf(p)
    BY <2>1 DEF ToInstall, NewOf
  <2>8. \A p : OldConfigs(p)' = OldConfigs(p)
    BY <2>7 DEF OldConfigs
  <2> QED BY <2>1, <2>5, <2>6, <2>7, <2>8 DEF Configs
<1>12. CASE /\ plan' = plan
            /\ \/ MoveInstall \/ DropControl \/ CopyControl \/ MoveError \/ Preinst \/ CopyChanged \/ MoveRest
               \/ \E f \in Files : EarlyRemove(f) \/ MergeFile(f) \/ RemoveGone(f)
  <2>1. mem'.i = mem.i /\ mem'.configs = mem.configs /\ mem'.status = mem.status /\ pc \in AtMove
    <3>1. CASE Preinst
      BY <1>1, <3>1, PreinstDoes DEF Variables, AtMove
    <3> QED BY <1>1, <1>12, <3>1 DEF MoveInstall, DropControl, CopyControl, MoveError, CopyChanged, MoveRest, EarlyRemove,
              MergeFile, RemoveGone, Visited, Turn, Goto, Raise, Variables, At, AtMove
  <2> QED BY <1>12, <2>1, ConfigsStay
<1>13. CASE MergeDone
  <2>1. /\ pc = "merge" /\ mem' = [NextOper EXCEPT !.status = InstalledStatus] /\ plan' = plan
    BY <1>13 DEF MergeDone, At, Goto, env
  <2>2. /\ mem'.i = mem.i + 1 /\ mem'.configs = mem.configs /\ mem'.status = InstalledStatus
    BY <1>1, <2>1 DEF NextOper, Variables
  <2>3. More /\ Oper.op = "install"
    BY <2>1 DEF Moves
  <2>4. Oper.pkg \in ToInstall
    BY <2>3, OperPlanned DEF Oper, ToInstall
  <2>5. Confs \cap OldFiles[Oper.pkg] \subseteq mem'.configs
    BY <2>1, <2>2, <2>4 DEF Configs, AtMove, OldConfigs
  <2>6. \A p \in Pkgs \ {Oper.pkg} : mem'.status[p] = mem.status[p]
    BY <1>2, <2>1, <2>2 DEF InstalledStatus, AtMove
  <2> QED BY <2>1, <2>2, <2>3, <2>5, <2>6, ConfigsGrow
<1>14. CASE MoveRemove
  <2>1. pc = "moving" /\ More /\ plan' = plan /\ mem'.i = mem.i + 1
    BY <1>1, <1>14, MoveRemoveDoes
  <2>2. mem.status \in [Pkgs -> PkgState] /\ pc \in AtMove
    BY <1>2, <2>1 DEF AtMove
  <2>3. CASE /\ mem'.configs = mem.configs \cup (Confs \cap OldFiles[Oper.pkg])
             /\ \E state : mem'.status = [mem.status EXCEPT ![Oper.pkg] = state]
    <3>1. \A p \in Pkgs \ {Oper.pkg} : mem'.status[p] = mem.status[p]
      BY <2>2, <2>3
    <3> QED BY <2>1, <2>3, <3>1, ConfigsGrow
  <2>4. CASE /\ mem.status[Oper.pkg] \notin {"old", "new"}
             /\ mem'.configs = mem.configs /\ mem'.status = mem.status
    <3>1. Oper.pkg \in Installed => Confs \cap OldFiles[Oper.pkg] \subseteq mem.configs
      BY <2>2, <2>4 DEF Configs
    <3> QED BY <2>1, <2>4, <3>1, ConfigsGrow
  <2> QED BY <1>1, <1>14, <2>3, <2>4, MoveRemoveDoes
<1>15. CASE Moving /\ ~MoveDone /\ plan' = plan
  BY <1>11, <1>12, <1>13, <1>14, <1>15 DEF Moving
<1> QED BY <1>3, <1>5, <1>6, <1>7, <1>8, <1>9, <1>10, <1>15, Steps

\* The steps that change what is in root.
LEMMA RootSteps ==
  ASSUME Phase, Books, [Next]_vars
  PROVE  \/ fs'.root = fs.root /\ fs.backup \subseteq fs'.backup /\ disk' \in {disk, fs}
         \/ Crash /\ fs' \in {fs, disk} /\ disk' = fs'
         \/ \E f \in Files : (EarlyRemove(f) \/ RemoveGone(f)) /\ fs' = Cleaned(f) /\ disk' = disk
         \/ \E f \in Files : MergeFile(f) /\ fs' = Placed(f) /\ disk' = disk
<1>1. Shape /\ DOMAIN fs = Parts
  BY DEF Phase, Shape
<1>2. CASE Crash
  BY <1>2 DEF Crash
<1>3. CASE \/ UNCHANGED vars \/ RecoverTransaction \/ Die \/ JournalUnits \/ StepRecorded
           \/ FinishJournal \/ JournalRemoved
  BY <1>3 DEF vars, RecoverTransaction, Die, JournalUnits, StepRecorded, FinishJournal, JournalRemoved
<1>4. CASE Replays \/ Commits
  <2>1. fs' = fs /\ disk' \in {disk, fs}
    BY <1>4, ReplaysLeave, CommitFits
  <2> QED BY <2>1
<1>5. CASE Perform \/ StatusDump
  BY <1>1, <1>5 DEF Perform, StatusDump, Goto, Parts
<1>6. CASE Working
  <2>1. fs'.root = fs.root /\ fs'.backup = fs.backup
    BY <1>1, <1>6 DEF Working, SkipRemoval, UnpackOp, UnpackError, CheckError, OpenChangelog, PostScript,
           CloseChangelog, RemoveFile, RemoveDir, ControlCleanup, Turn, Goto, Raise, Parts
  <2> QED BY <1>1, <1>6, <2>1, OthersWork
<1>7. CASE StartMove \/ MoveInstall \/ DropControl \/ CopyControl \/ MoveError \/ MoveRest
  BY <1>1, <1>7 DEF StartMove, MoveInstall, DropControl, CopyControl, MoveError, MoveRest, Turn, Goto, Raise, Parts
<1>8. CASE Preinst \/ MoveRemove
  BY <1>1, <1>8, PreinstDoes, MoveRemoveDoes
<1>9. CASE CopyChanged
  BY <1>1, <1>9 DEF CopyChanged, Goto, Parts
<1>10. CASE MergeDone
  BY <1>1, <1>10 DEF MergeDone, Merged, Goto, Parts
<1>11. CASE \E f \in Files : EarlyRemove(f) \/ MergeFile(f) \/ RemoveGone(f)
  BY <1>11 DEF EarlyRemove, MergeFile, RemoveGone, Turn
<1> QED BY <1>2, <1>3, <1>4, <1>5, <1>6, <1>7, <1>8, <1>9, <1>10, <1>11, Steps DEF Moving

LEMMA CleanedDoes ==
  ASSUME DOMAIN fs = Parts, DOMAIN fs.root = Files, NEW f \in Files
  PROVE  /\ DOMAIN Cleaned(f).root = Files /\ Cleaned(f).backup = fs.backup
         /\ \A h \in Files : \/ Cleaned(f).root[h] = fs.root[h]
                             \/ h = f /\ Cleaned(f).root[h] = "none" /\ ~(f \in mem.configs /\ Modified(f))
<1> DEFINE F == Cleaned(f)
           free == f \in mem.configs /\ Modified(f)
<1>1. F = IF free THEN fs ELSE [fs EXCEPT !.root[f] = "none"]
  BY DEF Cleaned
<1> HIDE DEF F
<1>2. F.backup = fs.backup /\ F.root = IF free THEN fs.root ELSE [fs.root EXCEPT ![f] = "none"]
  BY <1>1 DEF Parts
<1>3. F.backup = fs.backup /\ DOMAIN F.root = Files
  BY <1>2
<1>4. \A h \in Files : \/ F.root[h] = fs.root[h]
                       \/ h = f /\ F.root[h] = "none" /\ ~free
  BY <1>2
<1> QED BY <1>3, <1>4 DEF F

LEMMA PlacedDoes ==
  ASSUME DOMAIN fs = Parts, DOMAIN fs.root = Files, NEW f \in Files
  PROVE  /\ DOMAIN Placed(f).root = Files /\ fs.backup \subseteq Placed(f).backup
         /\ \A h \in Files :
              \/ Placed(f).root[h] = fs.root[h]
              \/ /\ Placed(f).root[h] # "user"
                 /\ \/ <<h, f>> \in Blocks /\ (fs.root[h] = "user" => h \in Placed(f).backup)
                    \/ h = f /\ ~(f \in OldConfigs(Oper.pkg) /\ Modified(f))
<1> DEFINE F == Placed(f)
           W == WayCleared(f)
           free == f \in OldConfigs(Oper.pkg) /\ Modified(f)
<1>1. /\ DOMAIN W = Parts
      /\ W.root = [g \in Files |-> IF g \in InTheWay(f) THEN "none" ELSE fs.root[g]]
      /\ W.backup = fs.backup \cup {g \in InTheWay(f) : fs.root[g] = "user"}
  BY DEF WayCleared, Parts
<1>2. /\ F.root = [W.root EXCEPT ![f] = IF free THEN @
                                        ELSE IF f \in fs.torn[Oper.pkg] THEN "torn" ELSE "new"]
      /\ F.backup = W.backup
  <2> HIDE DEF W
  <2>1. F = [W EXCEPT !.data[Oper.pkg] = @ \ {f}, !.opkg = IF free THEN @ \cup {f} ELSE @,
                      !.root[f] = IF free THEN @ ELSE IF f \in fs.torn[Oper.pkg] THEN "torn" ELSE "new"]
    BY DEF Placed, W
  <2> HIDE DEF F
  <2> QED BY <1>1, <2>1 DEF Parts
<1> HIDE DEF F, W
<1>3. DOMAIN F.root = Files /\ fs.backup \subseteq F.backup
  BY <1>1, <1>2
<1>4. \A h \in Files : h # f \/ free => F.root[h] = W.root[h]
  BY <1>1, <1>2
<1>5. ~free => F.root[f] # "user"
  BY <1>1, <1>2
<1>6. \A h \in Files : \/ W.root[h] = fs.root[h]
                       \/ /\ W.root[h] = "none" /\ <<h, f>> \in Blocks
                          /\ fs.root[h] = "user" => h \in W.backup
  BY <1>1 DEF InTheWay
<1>7. ASSUME NEW h \in Files
      PROVE  \/ F.root[h] = fs.root[h]
             \/ /\ F.root[h] # "user"
                /\ \/ <<h, f>> \in Blocks /\ (fs.root[h] = "user" => h \in F.backup)
                   \/ h = f /\ ~free
  <2>1. CASE h # f \/ free
    BY <1>2, <1>4, <1>6, <2>1
  <2>2. CASE h = f /\ ~free
    BY <1>5, <2>2
  <2> QED BY <2>1, <2>2
<1> QED BY <1>3, <1>7 DEF F

LEMMA KeptMoves ==
  ASSUME user \in UserFiles, user' = user, plan' = plan, Kept(fs'), Kept(disk')
  PROVE  Kepts'
<1>1. ToInstall' = ToInstall /\ \A p : NewOf(p)' = NewOf(p)
  BY DEF ToInstall, NewOf
<1>2. Guarded' = Guarded
  BY <1>1 DEF Guarded
<1>3. \A f : Exposed(f)' = Exposed(f)
  BY <1>1 DEF Exposed
<1>4. /\ DOMAIN fs'.root = Files
      /\ \A f \in user' \cap Guarded' : fs'.root[f] = "user" \/ f \in fs'.backup \/ Exposed(f)'
  BY <1>2, <1>3 DEF Kept
<1>5. /\ DOMAIN disk'.root = Files
      /\ \A f \in user' \cap Guarded' : disk'.root[f] = "user" \/ f \in disk'.backup \/ Exposed(f)'
  BY <1>2, <1>3 DEF Kept
<1> QED BY <1>4, <1>5 DEF Kepts, Kept

LEMMA KeptStays ==
  ASSUME Kepts, user' = user, plan' = plan, fs'.root = fs.root, fs.backup \subseteq fs'.backup,
         disk' \in {disk, fs}
  PROVE  Kepts'
<1>1. Kept(fs') /\ Kept(disk')
  BY DEF Kepts, Kept
<1> QED BY <1>1, KeptMoves DEF Kepts

LEMMA CleanedKeeps ==
  ASSUME Kepts, DOMAIN fs = Parts, NEW f \in Files,
         f \in user \cap Guarded /\ fs.root[f] = "user" => f \in mem.configs \/ Exposed(f)
  PROVE  Kept(Cleaned(f))
<1> DEFINE F == Cleaned(f)
<1>1. DOMAIN fs.root = Files /\ user \subseteq Files
  BY SetsAssumption DEF Kepts, Kept
<1>2. /\ DOMAIN F.root = Files /\ F.backup = fs.backup
      /\ \A h \in Files : \/ F.root[h] = fs.root[h]
                          \/ h = f /\ ~(f \in mem.configs /\ Modified(f))
  BY <1>1, CleanedDoes
<1>3. fs.root[f] = "user" => Modified(f)
  BY DEF Modified
<1> HIDE DEF F
<1>4. ASSUME NEW h \in user \cap Guarded PROVE F.root[h] = "user" \/ h \in F.backup \/ Exposed(h)
  BY <1>1, <1>2, <1>3, <1>4 DEF Kepts, Kept
<1> QED BY <1>2, <1>4 DEF Kept, F

LEMMA PlacedKeeps ==
  ASSUME Kepts, DOMAIN fs = Parts, NEW f \in Files,
         f \in user \cap Guarded /\ fs.root[f] = "user" => f \in OldConfigs(Oper.pkg)
  PROVE  Kept(Placed(f))
<1> DEFINE F == Placed(f)
<1>1. DOMAIN fs.root = Files /\ user \subseteq Files
  BY SetsAssumption DEF Kepts, Kept
<1>2. /\ DOMAIN F.root = Files /\ fs.backup \subseteq F.backup
      /\ \A h \in Files : \/ F.root[h] = fs.root[h]
                          \/ /\ F.root[h] # "user"
                             /\ \/ <<h, f>> \in Blocks /\ (fs.root[h] = "user" => h \in F.backup)
                                \/ h = f /\ ~(f \in OldConfigs(Oper.pkg) /\ Modified(f))
  BY <1>1, PlacedDoes
<1>3. fs.root[f] = "user" => Modified(f)
  BY DEF Modified
<1> HIDE DEF F
<1>4. ASSUME NEW h \in user \cap Guarded PROVE F.root[h] = "user" \/ h \in F.backup \/ Exposed(h)
  BY <1>1, <1>2, <1>3, <1>4 DEF Kepts, Kept
<1> QED BY <1>2, <1>4 DEF Kept, F

\* A file that goes is among the configurations the move knows of, or it is exposed.
LEMMA LostIsKnown ==
  ASSUME Configs, pc \in AtMove, WellPlanned, mem.i \in Nat \ {0}, NEW f \in Confs, Lost(f)
  PROVE  \/ f \in mem.configs
         \/ \E m \in DOMAIN plan : m >= mem.i /\ plan[m].op = "remove" /\ f \in OldFiles[plan[m].pkg]
<1>1. PICK p \in Installed : f \in OldFiles[p] /\ p \in ToRemove
  BY DEF Lost, LastOwners, FirstOwners
<1>2. DOMAIN plan = 1..Len(plan) /\ Len(plan) \in Nat
  BY DEF WellPlanned, IsSeq
<1>3. PICK m \in DOMAIN plan : plan[m].pkg = p
  BY <1>1 DEF ToRemove
<1>4. CASE p \in ToInstall
  BY <1>1, <1>4 DEF Configs, OldConfigs
<1>5. CASE p \notin ToInstall /\ m < mem.i
  BY <1>1, <1>3, <1>5 DEF Configs
<1>6. CASE p \notin ToInstall /\ ~(m < mem.i)
  <2>1. plan[m].op = "remove"
    BY <1>3, <1>6 DEF WellPlanned, ToInstall
  <2>2. m >= mem.i
    BY <1>2, <1>6
  <2> QED BY <1>1, <1>3, <2>1, <2>2
<1> QED BY <1>4, <1>5, <1>6

\* A guarded file of the package being merged is among its old configurations.
LEMMA MergedIsOld ==
  ASSUME Phase, PlanSettled, Moves, WellPlanned, mem.i \in Nat \ {0}, pc = "merge",
         NEW f \in Files, f \in mem.todo, f \in Guarded
  PROVE  f \in OldConfigs(Oper.pkg)
<1>1. "UNPACKED" \in StoredTypes /\ "CHECKED" \in StoredTypes
  BY JournaledIsStored DEF Phase, Progress
<1>2. More /\ Oper.op = "install" /\ f \in Oper.files
  BY DEF Moves
<1>3. mem.i \in DOMAIN plan
  BY <1>2, OperPlanned
<1>4. f \in NewOf(Oper.pkg) /\ Oper.pkg \in ToInstall
  BY <1>2, <1>3 DEF NewOf, ToInstall, Oper
<1>5. CASE f \in InstalledConfs
  BY <1>4, <1>5 DEF OldConfigs
<1>6. CASE f \notin InstalledConfs
  <2>1. PICK p \in ToInstall \ Installed : f \in Confs \cap NewFiles[p]
    BY <1>6 DEF Guarded
  <2>2. PICK n \in DOMAIN plan : plan[n].op = "install" /\ plan[n].pkg = p
    BY <2>1 DEF ToInstall
  <2>3. f \in plan[n].files
    BY <1>1, <2>1, <2>2 DEF PlanSettled, ConfsIn
  <2>4. f \in NewOf(p)
    BY <2>2, <2>3 DEF NewOf
  <2>5. p = Oper.pkg
    BY <1>1, <1>4, <2>1, <2>4 DEF PlanSettled, Apart
  <2> QED BY <1>4, <2>1, <2>5 DEF OldConfigs
<1> QED BY <1>5, <1>6

LEMMA RemovalKeeps ==
  ASSUME Phase, WellPlanned, mem.i \in Nat \ {0}, Moves, Configs, Kepts, NEW f \in Files,
         EarlyRemove(f) \/ RemoveGone(f)
  PROVE  Kept(Cleaned(f))
<1>1. pc \in {"early", "gone"} /\ pc \in AtMove /\ f \in mem.todo /\ RemovalSound(mem.removal)
  BY DEF EarlyRemove, RemoveGone, At, AtMove, Moves
<1>2. InstalledConfs \subseteq Confs /\ Guarded \subseteq Confs
  BY DEF InstalledConfs, Guarded
<1>3. ASSUME f \in Guarded PROVE f \in mem.configs \/ Exposed(f)
  <2>1. DOMAIN plan = 1..Len(plan) /\ Len(plan) \in Nat
    BY DEF WellPlanned, IsSeq
  <2>2. CASE pc = "early"
    <3>1. More /\ Oper.op = "install" /\ f \in mem.removal.early[Oper.pkg]
      BY <1>1, <2>2 DEF Moves
    <3>2. mem.i \in DOMAIN plan
      BY <3>1, OperPlanned
    <3>3. Oper.pkg \in ToInstall
      BY <3>1, <3>2 DEF ToInstall, Oper
    <3>4. Lost(f) /\ \E g \in NewOf(Oper.pkg) : <<f, g>> \in Blocks
      BY <1>1, <3>1, <3>3 DEF RemovalSound
    <3>5. CASE f \notin mem.configs
      <4>1. PICK m \in DOMAIN plan : m >= mem.i /\ plan[m].op = "remove" /\ f \in OldFiles[plan[m].pkg]
        BY <1>1, <1>2, <1>3, <3>4, <3>5, LostIsKnown
      <4>2. m # mem.i
        BY <3>1, <4>1 DEF Oper
      <4>3. mem.i < m
        BY <2>1, <4>1, <4>2
      <4> QED BY <3>2, <3>4, <4>1, <4>3 DEF Exposed, Oper
    <3> QED BY <3>5
  <2>3. CASE pc = "gone"
    <3>1. ~More /\ f \in mem.removal.gone
      BY <1>1, <2>3 DEF Moves
    <3>2. Lost(f)
      BY <1>1, <3>1 DEF RemovalSound
    <3>3. \A m \in DOMAIN plan : ~(m >= mem.i)
      BY <2>1, <3>1 DEF More
    <3> QED BY <1>1, <1>2, <1>3, <3>2, <3>3, LostIsKnown
  <2> QED BY <1>1, <2>2, <2>3
<1> QED BY <1>3, CleanedKeeps DEF Phase, Shape

LEMMA KeptsKept ==
  ASSUME Phase, Books, WellPlanned, mem.i \in Nat \ {0}, Opened, Untouched, PlanSettled, Moves, Configs, Kepts,
         [Next]_vars
  PROVE  Kepts'
<1>1. Shape /\ DOMAIN fs = Parts /\ user' = user
  BY UserStays DEF Phase, Shape
<1>2. plan' = plan \/ Perform \/ UnpackOp
  BY PlanStays
<1>3. CASE Perform \/ UnpackOp
  <2>1. /\ fs'.root = fs.root /\ disk' = disk /\ pc \notin {"done", "failed"}
        /\ fs'.backup = fs.backup
    BY <1>1, <1>3 DEF Perform, UnpackOp, At, Parts
  <2>2. "CHECKED" \notin Journaled
    <3>1. CASE Perform
      <4>1. acked = <<>>
        BY <3>1 DEF Perform, Fresh, Books, Ledger, J!IInv, J!Control
      <4> QED BY <4>1 DEF Journaled
    <3>2. CASE UnpackOp
      <4>1. pc = "unpack" /\ op = "idle" /\ ~Have("UNPACKED")
        BY <3>2 DEF UnpackOp, At
      <4> QED BY <4>1, NothingStored, JournaledIsStored
    <3> QED BY <1>3, <3>1, <3>2
  <2>3. \A f \in user : fs.root[f] = "user" /\ disk.root[f] = "user"
    BY <2>1, <2>2 DEF Untouched, Pristine
  <2>4. Kept(fs)' /\ Kept(disk)'
    BY <1>1, <2>1, <2>3 DEF Kepts, Kept
  <2> QED BY <1>1, <2>4 DEF Kepts
<1>4. CASE plan' = plan /\ fs'.root = fs.root /\ fs.backup \subseteq fs'.backup /\ disk' \in {disk, fs}
  BY <1>1, <1>4, KeptStays
<1>5. CASE plan' = plan /\ fs' \in {fs, disk} /\ disk' = fs'
  <2>1. Kept(fs') /\ Kept(disk')
    BY <1>5 DEF Kepts
  <2> QED BY <1>1, <1>5, <2>1, KeptMoves DEF Kepts
<1>6. ASSUME plan' = plan, NEW f \in Files, EarlyRemove(f) \/ RemoveGone(f), fs' = Cleaned(f), disk' = disk
      PROVE  Kepts'
  <2>1. Kept(Cleaned(f))
    BY <1>6, RemovalKeeps
  <2>2. Kept(fs') /\ Kept(disk')
    BY <1>6, <2>1 DEF Kepts
  <2> QED BY <1>1, <1>6, <2>2, KeptMoves DEF Kepts
<1>7. ASSUME plan' = plan, NEW f \in Files, MergeFile(f), fs' = Placed(f), disk' = disk PROVE Kepts'
  <2>1. pc = "merge" /\ f \in mem.todo
    BY <1>7 DEF MergeFile, At
  <2>2. f \in Guarded => f \in OldConfigs(Oper.pkg)
    BY <2>1, MergedIsOld
  <2>3. Kept(Placed(f))
    BY <1>1, <2>2, PlacedKeeps
  <2>4. Kept(fs') /\ Kept(disk')
    BY <1>7, <2>3 DEF Kepts
  <2> QED BY <1>1, <1>7, <2>4, KeptMoves DEF Kepts
<1> QED BY <1>2, <1>3, <1>4, <1>5, <1>6, <1>7, RootSteps

\* What the theorem goes by.
Configured == Opened /\ Untouched /\ PlanSettled /\ Moves /\ Configs /\ Kepts

LEMMA ConfiguredFirst == ASSUME Init PROVE Configured
<1>1. pc = "down" /\ acked = <<>> /\ op = "idle" /\ file = <<>> /\ disk = fs /\ user \in UserFiles
  BY DEF Init, JInit
<1>2. Stored = {} /\ StoredTypes = {}
  BY <1>1 DEF Stored, StoredTypes, Pending, Writing
<1>3. user \subseteq Files
  BY <1>1, SetsAssumption
<1>4. /\ fs.root = [f \in Files |-> IF f \in user THEN "user"
                                   ELSE IF \E p \in Installed : f \in OldFiles[p] THEN "old" ELSE "none"]
      /\ fs.info = FirstDb
  BY DEF Init, FirstDb
<1>5. Kept(fs)
  BY <1>3, <1>4 DEF Kept
<1>6. Pristine(fs) /\ Untouched
  <2>1. \A f \in Files : /\ f \in user => fs.root[f] = "user"
                         /\ \A p \in Installed : f \in OldFiles[p] => fs.root[f] \in {"old", "user"}
    BY <1>4
  <2>2. \A p \in Installed : OldFiles[p] \subseteq Files
    BY SetsAssumption
  <2>3. Pristine(fs)
    BY <1>3, <1>4, <2>1, <2>2 DEF Pristine
  <2> QED BY <1>1, <2>3 DEF Untouched
<1> QED BY <1>1, <1>2, <1>5, <1>6 DEF Configured, Opened, PlanSettled, Moves, Configs, Kepts, BeforeMove, AtMove

LEMMA ConfiguredKept ==
  ASSUME Phase, Books, WellPlanned, Kempt, Configured, [Next]_vars
  PROVE  Configured'
  BY OpenedKept, UntouchedKept, PlanSettledKept, MovesKept, ConfigsKept, KeptsKept DEF Configured, Kempt

LEMMA ConfiguredCorrect == Spec => []Configured
<1>1. Init => Configured
  BY ConfiguredFirst
<1>2. Phase /\ Books /\ WellPlanned /\ Kempt /\ Configured /\ [Next]_vars => Configured'
  BY ConfiguredKept
<1> QED BY <1>1, <1>2, PhaseCorrect, BooksCorrect, KemptCorrect, PTL DEF Spec

(* A configuration file the user has modified is never lost if its hash is *)
(* known (config_modified, pkg_cleanup_files and pkg_merge_files).         *)
THEOREM ConfigurationKept == Spec => []UserConfigKept
<1>1. Configured => UserConfigKept
  BY DEF Configured, Kepts, Kept, UserConfigKept
<1> QED BY <1>1, ConfiguredCorrect, PTL

-----------------------------------------------------------------------------
(* What the plan does not touch stays, and what is unfinished has a journal. *)

\* The files of the packages that are neither installed nor removed.
Undisturbed(F) == /\ DOMAIN F.root = Files
                  /\ \A p \in Installed \ ToRemove : \A f \in OldFiles[p] : F.root[f] \in {"old", "user"}
Others == Undisturbed(fs) /\ Undisturbed(disk)

LEMMA OthersFirst == ASSUME Init PROVE Others
<1>1. /\ fs.root = [f \in Files |-> IF f \in user THEN "user"
                                   ELSE IF \E p \in Installed : f \in OldFiles[p] THEN "old" ELSE "none"]
      /\ disk = fs
  BY DEF Init
<1>2. \A p \in Installed : OldFiles[p] \subseteq Files
  BY SetsAssumption
<1>3. Undisturbed(fs)
  BY <1>1, <1>2 DEF Undisturbed
<1> QED BY <1>1, <1>3 DEF Others

LEMMA OthersKept ==
  ASSUME Phase, Books, WellPlanned, mem.i \in Nat \ {0}, PlanSettled, Moves, Others, [Next]_vars
  PROVE  Others'
<1>1. DOMAIN fs = Parts /\ DOMAIN fs.root = Files
  BY DEF Phase, Shape, Others, Undisturbed
<1>2. ASSUME Undisturbed(fs'), Undisturbed(disk') PROVE Others'
  <2>1. ToRemove' = ToRemove
    BY PlanKept DEF SamePlan
  <2> QED BY <1>2, <2>1 DEF Others, Undisturbed
<1>3. CASE fs'.root = fs.root /\ disk' \in {disk, fs}
  BY <1>2, <1>3 DEF Others, Undisturbed
<1>4. CASE fs' \in {fs, disk} /\ disk' = fs'
  BY <1>2, <1>4 DEF Others
<1>5. ASSUME NEW f \in Files, EarlyRemove(f) \/ RemoveGone(f), fs' = Cleaned(f), disk' = disk
      PROVE  Others'
  <2>1. Lost(f)
    <3>1. RemovalSound(mem.removal) /\ f \in mem.todo /\ pc \in {"early", "gone"}
      BY <1>5 DEF EarlyRemove, RemoveGone, At, Moves
    <3>2. CASE pc = "early"
      <4>1. More /\ Oper.op = "install" /\ f \in mem.removal.early[Oper.pkg]
        BY <3>1, <3>2 DEF Moves
      <4>2. Oper.pkg \in ToInstall
        BY <4>1, OperPlanned DEF ToInstall, Oper
      <4> QED BY <3>1, <4>1, <4>2 DEF RemovalSound
    <3>3. CASE pc = "gone"
      BY <3>1, <3>3 DEF Moves, RemovalSound
    <3> QED BY <3>1, <3>2, <3>3
  <2>2. \A p \in Installed \ ToRemove : f \notin OldFiles[p]
    BY <2>1 DEF Lost, LastOwners, FirstOwners
  <2>3. DOMAIN fs'.root = Files /\ \A h \in Files \ {f} : fs'.root[h] = fs.root[h]
    BY <1>1, <1>5, CleanedDoes
  <2>4. \A p \in Installed : OldFiles[p] \subseteq Files
    BY SetsAssumption
  <2>5. Undisturbed(fs')
    BY <2>2, <2>3, <2>4 DEF Others, Undisturbed
  <2> QED BY <1>2, <1>5, <2>5 DEF Others
<1>6. ASSUME NEW f \in Files, MergeFile(f), fs' = Placed(f), disk' = disk PROVE Others'
  <2>1. pc = "merge" /\ f \in mem.todo
    BY <1>6 DEF MergeFile, At
  <2>2. More /\ Oper.op = "install" /\ f \in Oper.files
    BY <2>1 DEF Moves
  <2>3. f \in NewOf(Oper.pkg) /\ Oper.pkg \in ToInstall
    BY <2>2, OperPlanned DEF NewOf, ToInstall, Oper
  <2>4. "CHECKED" \in StoredTypes
    BY <2>1, JournaledIsStored DEF Phase, Progress
  <2>5. \A p \in Installed \ ToRemove : \A h \in OldFiles[p] : h # f /\ <<h, f>> \notin Blocks
    BY <2>3, <2>4 DEF PlanSettled, Apart
  <2>6. DOMAIN fs'.root = Files /\ \A h \in Files : h # f /\ <<h, f>> \notin Blocks => fs'.root[h] = fs.root[h]
    BY <1>1, <1>6, PlacedDoes
  <2>7. \A p \in Installed : OldFiles[p] \subseteq Files
    BY SetsAssumption
  <2>8. Undisturbed(fs')
    BY <2>5, <2>6, <2>7 DEF Others, Undisturbed
  <2> QED BY <1>2, <1>6, <2>8 DEF Others
<1> QED BY <1>3, <1>4, <1>5, <1>6, RootSteps

(* The files of an installed package that is not in the plan are where and *)
(* as they were, in every state and over every crash: collision_check lets *)
(* no package take them or stand in their way, and only files that no      *)
(* package has any more are removed.                                       *)
THEOREM OthersUndisturbed == Spec => []Others
<1>1. Init => Others
  BY OthersFirst
<1>2. Phase /\ Books /\ WellPlanned /\ Kempt /\ Configured /\ Others /\ [Next]_vars => Others'
  BY OthersKept DEF Configured, Kempt
<1> QED BY <1>1, <1>2, ConfiguredCorrect, PhaseCorrect, BooksCorrect, KemptCorrect, PTL DEF Spec

LEMMA CoveredByJournal ==
  ASSUME Books, Configured, Others, StatusTruth
  PROVE  JournalCovers
<1> SUFFICES ASSUME pc # "failed", ~exists, NEW p \in Pkgs, fs.db[p] = "old", NEW f \in OldFiles[p]
             PROVE  fs.root[f] \in {"old", "user"}
  BY DEF JournalCovers, OldInPlace
<1>1. Journaled = {}
  BY DEF Books, Ledger, J!IInv, J!Control, Journaled
<1>2. CASE pc = "done"
  <2>1. p \notin ToRemove /\ p \in Installed
    <3>1. CASE p \in ToInstall
      BY <1>2, <3>1 DEF StatusTruth
    <3>2. CASE p \in ToRemove \ ToInstall
      BY <1>2, <3>2 DEF StatusTruth
    <3>3. CASE p \notin ToInstall /\ p \notin ToRemove
      BY <1>2, <3>3 DEF StatusTruth
    <3> QED BY <3>1, <3>2, <3>3
  <2> QED BY <2>1 DEF Others, Undisturbed
<1>3. CASE pc # "done"
  <2>1. fs.db = FirstDb
    BY <1>1, <1>3 DEF Books, StatusKnown
  <2>2. p \in Installed
    BY <2>1 DEF FirstDb
  <2> QED BY <1>1, <1>3, <2>2 DEF Configured, Untouched, Pristine
<1> QED BY <1>2, <1>3

-----------------------------------------------------------------------------
(* What the user has changed in other files is kept.                       *)

\* The control files are those the status file tells of when a process starts.
Level == pc \in {"down", "stuck", "wipe"} /\ ~ahead => \A p \in Pkgs : fs.info[p] = fs.db[p]

\* The process has noticed what is changed in the files of the packages it may replace.
Changeable(p) == (user \cap OldFiles[p]) \ Confs
Watching == pc \in AtMove \/ (pc \in BeforeMove /\ "MOVED" \notin Journaled)
Noticed == ~ahead /\ Watching =>
             \A p \in Installed : \A f \in Changeable(p) : fs.root[f] = "user" => f \in mem.changed[p]

\* It is copied before the package's new files come, and when the loop has been there.
Passed(n) == plan[n].op = "install" /\ (n < mem.i \/ (n = mem.i /\ pc = "merge"))
Copied == ~ahead /\ pc \in AtMove =>
            \A n \in DOMAIN plan : Passed(n) /\ plan[n].pkg \in Installed =>
              \A f \in Changeable(plan[n].pkg) : fs.root[f] = "user" => f \in fs.backup

\* What ChangesKept says of a file system.
Saved(F) == \A p \in ToInstall \cap Installed : \A f \in user \cap OldFiles[p] :
              F.root[f] = "user" \/ f \in F.backup \/ Overtaken(f, p)
Saves == ~ahead => Saved(fs) /\ Saved(disk)

LEMMA LevelKept == ASSUME Phase, Level, [Next]_vars PROVE Level'
<1> SUFFICES ASSUME pc' \in {"down", "stuck", "wipe"}, ~ahead' PROVE \A p \in Pkgs : fs'.info[p] = fs'.db[p]
  BY DEF Level
<1>1. CASE Crash
  BY <1>1 DEF Crash
<1>2. CASE pc \in {"down", "stuck", "wipe"} /\ fs' = fs
  BY <1>2, UserStays, <1>1 DEF Level
<1>3. CASE RecoverTransaction \/ Die \/ JournalUnits \/ FinishJournal \/ UNCHANGED vars
  BY <1>2, <1>3 DEF RecoverTransaction, Die, JournalUnits, FinishJournal, vars
<1>4. CASE JournalRemoved
  BY <1>2, <1>4 DEF JournalRemoved, Unlink, Phase, InJournal
<1>5. CASE StepRecorded
  <2>1. \/ pc' = AfterStep[rec.type] /\ <<pc, rec.type>> \in Recording
        \/ pc' = pc
    BY <1>5 DEF StepRecorded, Phase, InJournal
  <2>2. pc' = pc /\ fs' = fs
    BY <1>5, <2>1 DEF StepRecorded, Recording, AfterStep
  <2> QED BY <1>2, <2>2
<1>6. CASE Perform \/ StatusDump \/ Replays
  BY <1>6 DEF Perform, StatusDump, Goto, Replays, ReplayUnpack, ReplayCheck, ReplayChangelogStart, ReplayMove,
         ReplayScripts, ReplayChangelogEnd, ReplayCleaned, Replay, AfterStep
<1>7. CASE Commits
  BY <1>7 DEF Commits, UnpackDone, Check, ChangelogStart, MoveDone, ScriptsDone, ChangelogEnd, CleanedDone,
         Commit, At
<1>8. CASE Working
  <2>1. pc' \notin {"down", "stuck"} /\ (pc' = "wipe" => pc = "wipe")
    BY <1>8, OthersWork DEF Phase, Busy
  <2>2. pc # "wipe"
    BY <1>8 DEF Working, SkipRemoval, UnpackOp, UnpackError, CheckError, OpenChangelog, PostScript, CloseChangelog,
           RemoveFile, RemoveDir, ControlCleanup, At
  <2> QED BY <2>1, <2>2
<1>9. CASE Moving /\ ~MoveDone
  BY <1>9, MovingWorks DEF Phase
<1> QED BY <1>1, <1>3, <1>4, <1>5, <1>6, <1>7, <1>8, <1>9, Steps

\* No step of the updater makes a version of the user's, or forgets one it has copied.
LEMMA RootShrinks ==
  ASSUME Phase, Books, DOMAIN fs.root = Files, [Next]_vars, ~Crash
  PROVE  fs.backup \subseteq fs'.backup /\ \A f \in Files : fs'.root[f] = "user" => fs.root[f] = "user"
<1>1. DOMAIN fs = Parts
  BY DEF Phase, Shape
<1>2. CASE fs'.root = fs.root /\ fs.backup \subseteq fs'.backup
  BY <1>2
<1>3. ASSUME NEW f \in Files, fs' = Cleaned(f)
      PROVE  fs.backup \subseteq fs'.backup /\ \A h \in Files : fs'.root[h] = "user" => fs.root[h] = "user"
  <2>1. /\ fs'.backup = fs.backup
        /\ \A h \in Files : fs'.root[h] = fs.root[h] \/ fs'.root[h] = "none"
    BY <1>1, <1>3, CleanedDoes
  <2> QED BY <2>1
<1>4. ASSUME NEW f \in Files, fs' = Placed(f)
      PROVE  fs.backup \subseteq fs'.backup /\ \A h \in Files : fs'.root[h] = "user" => fs.root[h] = "user"
  <2>1. /\ fs.backup \subseteq fs'.backup
        /\ \A h \in Files : fs'.root[h] = fs.root[h] \/ fs'.root[h] # "user"
    BY <1>1, <1>4, PlacedDoes
  <2> QED BY <2>1
<1> QED BY <1>2, <1>3, <1>4, RootSteps

LEMMA WatchGoesOn ==
  ASSUME Phase, Books, [Next]_vars, ~Perform, ~RecoverTransaction, Watching'
  PROVE  Watching /\ mem'.changed = mem.changed
<1>1. Shape /\ "changed" \in DOMAIN mem /\ Progress
  BY DEF Phase, Shape, Variables
<1>2. "MOVED" \notin Journaled' => "MOVED" \notin Journaled \/ JournalRemoved
  BY JournaledGrows
<1>3. ASSUME pc' = pc, ~JournalRemoved PROVE Watching
  BY <1>2, <1>3 DEF Watching
<1>4. CASE Crash \/ Die \/ JournalRemoved
  <2>1. pc' \in {"down", "done", "failed"}
    BY <1>4 DEF Crash, Die, JournalRemoved, Unlink, Phase, InJournal
  <2> QED BY <2>1 DEF Watching, AtMove, BeforeMove
<1>5. CASE ~JournalRemoved /\ (UNCHANGED vars \/ JournalUnits \/ FinishJournal)
  <2>1. pc' = pc /\ mem' = mem
    BY <1>5 DEF vars, JournalUnits, FinishJournal
  <2> QED BY <1>3, <1>5, <2>1
<1>6. CASE StepRecorded /\ ~JournalRemoved
  <2>1. CASE pc' = AfterStep[rec.type] /\ <<pc, rec.type>> \in Recording /\ mem' = [mem EXCEPT !.i = 1]
    <3>1. pc' \in {"check", "open_changelog", "move"} => pc \in BeforeMove
      BY <2>1 DEF Recording, AfterStep, BeforeMove
    <3>2. pc' \in {"check", "open_changelog", "move", "scripts", "changelog_end", "close_changelog", "finish"}
      BY <2>1 DEF Recording, AfterStep
    <3>3. pc \in BeforeMove /\ "MOVED" \notin Journaled'
      BY <3>1, <3>2 DEF Watching, AtMove, BeforeMove
    <3> QED BY <1>1, <1>2, <1>6, <2>1, <3>3 DEF Watching
  <2>2. CASE pc' = pc /\ mem' = mem
    BY <1>3, <1>6, <2>2
  <2> QED BY <1>6, <2>1, <2>2 DEF StepRecorded, Phase, InJournal
<1>7. CASE Replays /\ ~JournalRemoved
  <2>1. /\ <<pc, pc'>> \in {<<"unpack", "check">>, <<"check", "open_changelog">>, <<"changelog_start", "move">>,
                            <<"move", "scripts">>, <<"scripts", "changelog_end">>,
                            <<"changelog_end", "close_changelog">>, <<"cleanup", "finish">>}
        /\ mem'.changed = mem.changed
    BY <1>1, <1>7 DEF Replays, ReplayUnpack, ReplayCheck, ReplayChangelogStart, ReplayMove, ReplayScripts,
           ReplayChangelogEnd, ReplayCleaned, Replay, AfterStep, At
  <2> QED BY <1>2, <1>7, <2>1 DEF Watching, AtMove, BeforeMove
<1>8. CASE Commits /\ ~JournalRemoved
  <2>1. pc' = pc
    BY <1>8 DEF Commits, UnpackDone, Check, ChangelogStart, MoveDone, ScriptsDone, ChangelogEnd, CleanedDone,
           Commit
  <2>2. mem'.changed = mem.changed
    BY <1>1, <1>8 DEF Commits, UnpackDone, Check, ChangelogStart, MoveDone, ScriptsDone, ChangelogEnd, CleanedDone
  <2> QED BY <1>3, <1>8, <2>1, <2>2
<1>9. CASE Working /\ ~JournalRemoved
  <2>1. pc' \in BeforeMove \cup AtMove => pc \in BeforeMove
    BY <1>1, <1>9, OthersWork DEF BeforeMove, AtMove
  <2>2. mem'.changed = mem.changed
    BY <1>1, <1>9, PostScriptDoes DEF Working, SkipRemoval, UnpackOp, UnpackError, CheckError, OpenChangelog,
           CloseChangelog, RemoveFile, RemoveDir, ControlCleanup, Turn, Goto, Raise, NextOper, Variables
  <2>3. pc' \notin AtMove
    BY <1>1, <1>9, OthersWork DEF AtMove
  <2> QED BY <1>2, <1>9, <2>1, <2>2, <2>3 DEF Watching
<1>10. CASE StatusDump
  BY <1>10 DEF StatusDump, Goto, Watching, AtMove, BeforeMove
<1>11. CASE Moving /\ ~MoveDone
  <2>1. mem'.changed = mem.changed
    <3>1. CASE Preinst \/ MoveRemove
      BY <1>1, <3>1, PreinstDoes, MoveRemoveDoes DEF Variables
    <3> QED BY <1>1, <1>11, <3>1 DEF Moving, StartMove, MoveInstall, DropControl, CopyControl, MoveError,
              CopyChanged, MergeDone, MoveRest, EarlyRemove, MergeFile, RemoveGone, Turn, Goto, Raise, NextOper, Visited
  <2>2. pc \in AtMove \/ StartMove
    BY <1>11, PreinstDoes, MoveRemoveDoes, <1>1 DEF Moving, MoveInstall, DropControl, CopyControl, MoveError,
           CopyChanged, MergeDone, MoveRest, EarlyRemove, MergeFile, RemoveGone, At, AtMove
  <2>3. StartMove => pc \in BeforeMove /\ "MOVED" \notin Journaled
    BY DEF StartMove, At, BeforeMove, Books, Readings, Past
  <2> QED BY <2>1, <2>2, <2>3 DEF Watching
<1> QED BY <1>4, <1>5, <1>6, <1>7, <1>8, <1>9, <1>10, <1>11, Steps

LEMMA NoticedKept ==
  ASSUME Phase, Books, Untouched, Level, Noticed, DOMAIN fs.root = Files, [Next]_vars
  PROVE  Noticed'
<1> SUFFICES ASSUME ~ahead', Watching', NEW p \in Installed, NEW f \in Changeable(p), fs'.root[f] = "user"
             PROVE  f \in mem'.changed[p]
  BY UserStays DEF Noticed, Changeable
<1>1. p \in Pkgs /\ f \in Files /\ f \in OldFiles[p] \ Confs
  BY SetsAssumption DEF Changeable
<1>2. ASSUME fs.info[p] = "old", fs'.root = fs.root, mem'.changed = FreshMemory.changed
      PROVE  f \in mem'.changed[p]
  <2>1. f \in ChangedFilesOf(p)
    BY <1>1, <1>2 DEF ChangedFilesOf, Listed
  <2> QED BY <1>1, <1>2, <2>1 DEF FreshMemory
<1>3. CASE Perform
  <2>1. ~exists /\ pc = "down" /\ mem' = FreshMemory /\ fs'.root = fs.root
    BY <1>3 DEF Perform, Fresh, Phase, Shape, Parts
  <2>2. Journaled = {}
    BY <2>1 DEF Books, Ledger, J!IInv, J!Control, Journaled
  <2>3. fs.info[p] = "old"
    BY <1>1, <2>1, <2>2 DEF Untouched, Pristine, FirstDb
  <2> QED BY <1>2, <2>1, <2>3
<1>4. CASE RecoverTransaction
  <2>1. /\ pc = "down" /\ fs' = fs /\ ahead' = ahead /\ mem'.changed = FreshMemory.changed
        /\ pc' \in {"unpack", "wipe", "stuck"}
    BY <1>4 DEF RecoverTransaction, env, FreshMemory
  <2>2. "MOVED" \notin Journaled'
    BY <2>1 DEF Watching, AtMove, BeforeMove
  <2>3. Journaled \subseteq Journaled' \/ Perform \/ JournalRemoved
    BY JournaledGrows
  <2>4. ~Perform /\ ~JournalRemoved
    BY <1>4, <2>1 DEF RecoverTransaction, Recover, Perform, Fresh, JournalRemoved, Unlink, Phase, InJournal
  <2>5. fs.db = FirstDb
    BY <2>1, <2>2, <2>3, <2>4 DEF Books, StatusKnown, Ledger, Later
  <2>6. fs.info[p] = "old"
    BY <1>1, <2>1, <2>5 DEF Level, FirstDb
  <2> QED BY <1>2, <2>1, <2>6
<1>5. CASE ~Perform /\ ~RecoverTransaction
  <2>1. Watching /\ mem'.changed = mem.changed
    BY <1>5, WatchGoesOn
  <2>2. ~Crash
    BY DEF Crash, Watching, AtMove, BeforeMove
  <2>3. ~ahead /\ fs.root[f] = "user"
    BY <1>1, <2>2, UserStays, RootShrinks
  <2> QED BY <2>1, <2>3 DEF Noticed
<1> QED BY <1>3, <1>4, <1>5

LEMMA CopiedStays ==
  ASSUME plan' = plan, Copied, user' = user, ahead' = ahead, mem'.i = mem.i,
         pc \in AtMove \/ pc' \notin AtMove, pc' = "merge" => pc = "merge", fs.backup \subseteq fs'.backup,
         \A f \in user : fs'.root[f] = "user" => fs.root[f] = "user"
  PROVE  Copied'
<1>1. \A n : Passed(n)' => Passed(n)
  BY DEF Passed
<1>2. \A p : Changeable(p)' = Changeable(p) /\ Changeable(p) \subseteq user
  BY DEF Changeable
<1> QED BY <1>1, <1>2 DEF Copied

LEMMA CopiedKept ==
  ASSUME Phase, Books, WellPlanned, Kempt, Configured, Noticed, Copied, [Next]_vars
  PROVE  Copied'
<1>1. /\ Shape /\ DOMAIN fs = Parts /\ DOMAIN mem = Variables /\ DOMAIN fs.root = Files /\ user \subseteq Files
      /\ Moves /\ mem.i \in Nat \ {0} /\ user' = user /\ (ahead' = ahead \/ Crash)
  BY UserStays, SetsAssumption DEF Phase, Shape, Configured, Kepts, Kept, Kempt
<1>2. ASSUME pc' \notin AtMove PROVE Copied'
  BY <1>2 DEF Copied
<1>3. ~Crash => /\ fs.backup \subseteq fs'.backup
                /\ \A f \in user : fs'.root[f] = "user" => fs.root[f] = "user"
  BY <1>1, RootShrinks
<1>4. ASSUME plan' = plan, ~Crash, pc \in AtMove, mem'.i = mem.i, pc' = "merge" => pc = "merge" PROVE Copied'
  BY <1>1, <1>3, <1>4, CopiedStays
<1>5. plan' = plan \/ Perform \/ UnpackOp
  BY PlanStays
<1>6. CASE Perform \/ UnpackOp \/ RecoverTransaction \/ Crash \/ Die \/ JournalRemoved
  <2>1. pc' \notin AtMove
    BY <1>6 DEF Perform, UnpackOp, RecoverTransaction, Crash, Die, JournalRemoved, Unlink, Phase, InJournal, AtMove,
       At
  <2> QED BY <1>2, <2>1
<1>7. CASE plan' = plan /\ pc' = pc /\ mem' = mem
  <2>1. ~Crash \/ pc' \notin AtMove
    BY DEF Crash, AtMove
  <2> QED BY <1>2, <1>4, <1>7, <2>1
<1>8. CASE UNCHANGED vars \/ JournalUnits \/ FinishJournal
  BY <1>7, <1>8 DEF vars, JournalUnits, FinishJournal, env
<1>9. CASE StepRecorded
  <2>1. \/ pc' = AfterStep[rec.type] /\ <<pc, rec.type>> \in Recording
        \/ pc' = pc /\ mem' = mem /\ plan' = plan
    BY <1>9 DEF StepRecorded, Phase, InJournal, env
  <2>2. CASE pc' = AfterStep[rec.type] /\ <<pc, rec.type>> \in Recording
    <3>1. pc' \notin AtMove
      BY <2>2 DEF Recording, AfterStep, AtMove
    <3> QED BY <1>2, <3>1
  <2> QED BY <1>7, <2>1, <2>2
<1>10. CASE Replays
  <2>1. pc' \notin AtMove
    BY <1>10 DEF Replays, ReplayUnpack, ReplayCheck, ReplayChangelogStart, ReplayMove,
           ReplayScripts, ReplayChangelogEnd, ReplayCleaned, Replay, AfterStep, AtMove
  <2> QED BY <1>2, <2>1
<1>11. CASE Commits
  <2>1. \/ pc' \notin AtMove
        \/ UNCHANGED <<plan, pc, mem>>
    BY <1>11 DEF Commits, UnpackDone, Check, ChangelogStart, MoveDone, ScriptsDone, ChangelogEnd, CleanedDone,
         Commit, env, At, AtMove
  <2> QED BY <1>2, <1>7, <2>1
<1>12. CASE Working \/ StatusDump
  <2>1. pc' \notin AtMove
    <3>1. CASE Working
      BY <1>1, <3>1, OthersWork DEF AtMove
    <3>2. CASE StatusDump
      BY <3>2 DEF StatusDump, Goto, AtMove
    <3> QED BY <1>12, <3>1, <3>2
  <2> QED BY <1>2, <2>1
<1>13. CASE StartMove /\ plan' = plan
  <2>1. pc = "move" /\ pc' = "moving" /\ mem'.i = mem.i
    BY <1>1, <1>13 DEF StartMove, At, Goto, Variables
  <2>2. mem'.i = 1
    BY <1>1, <2>1 DEF Moves, BeforeMove
  <2>3. \A n \in DOMAIN plan : ~(n < mem'.i)
    BY <2>2 DEF WellPlanned, IsSeq
  <2> QED BY <1>13, <2>1, <2>3 DEF Copied, Passed
<1>14. CASE /\ plan' = plan
            /\ \/ MoveInstall \/ DropControl \/ CopyControl \/ MoveError \/ Preinst \/ MoveRest
               \/ \E f \in Files : EarlyRemove(f) \/ MergeFile(f) \/ RemoveGone(f)
  <2>1. mem'.i = mem.i /\ pc \in AtMove /\ (pc' = "merge" => pc = "merge")
    <3>1. CASE Preinst
      BY <1>1, <3>1, PreinstDoes DEF Variables, AtMove
    <3> QED BY <1>1, <1>14, <3>1 DEF MoveInstall, DropControl, CopyControl, MoveError, MoveRest, EarlyRemove,
              MergeFile, RemoveGone, Visited, Turn, Goto, Raise, Variables, At, AtMove
  <2>2. ~Crash \/ pc' \notin AtMove
    BY DEF Crash, AtMove
  <2> QED BY <1>2, <1>4, <1>14, <2>1, <2>2
<1>15. ASSUME plan' = plan, ~Crash, pc \in AtMove, mem.i \in DOMAIN plan,
              \A n \in DOMAIN plan : Passed(n)' => Passed(n) \/ (n = mem.i /\ Oper.op = "install"),
              Oper.op = "install" /\ Oper.pkg \in Installed /\ ~ahead /\ ~Passed(mem.i) =>
                \A f \in Changeable(Oper.pkg) : fs'.root[f] = "user" => f \in fs'.backup
       PROVE  Copied'
  <2>1. \A p : Changeable(p)' = Changeable(p) /\ Changeable(p) \subseteq user
    BY <1>1 DEF Changeable
  <2>2. ASSUME ~ahead, NEW n \in DOMAIN plan, Passed(n), plan[n].pkg \in Installed,
               NEW f \in Changeable(plan[n].pkg), fs'.root[f] = "user"
        PROVE  f \in fs'.backup
    BY <1>3, <1>15, <2>1, <2>2 DEF Copied
  <2>3. ASSUME ~ahead, NEW n \in DOMAIN plan, Passed(n)', plan[n].pkg \in Installed,
               NEW f \in Changeable(plan[n].pkg), fs'.root[f] = "user"
        PROVE  f \in fs'.backup
    BY <1>15, <2>2, <2>3 DEF Oper
  <2> QED BY <1>1, <1>15, <2>1, <2>3 DEF Copied
<1>16. CASE CopyChanged /\ plan' = plan
  <2>1. /\ pc = "early" /\ pc' = "merge" /\ mem'.i = mem.i /\ fs'.root = fs.root
        /\ fs'.backup = fs.backup \cup {f \in mem.changed[Oper.pkg] : fs.root[f] = "user"}
    BY <1>1, <1>16 DEF CopyChanged, At, Goto, Parts, Variables
  <2>2. More /\ Oper.op = "install" /\ mem.i \in DOMAIN plan
    BY <1>1, <2>1, OperPlanned DEF Moves
  <2>3. ~ahead /\ Oper.pkg \in Installed =>
          \A f \in Changeable(Oper.pkg) : fs'.root[f] = "user" => f \in fs'.backup
    BY <2>1 DEF Noticed, Watching, AtMove
  <2>4. \A n \in DOMAIN plan : Passed(n)' => Passed(n) \/ n = mem.i
    BY <1>16, <2>1 DEF Passed
  <2>5. ~Crash
    BY <2>1 DEF Crash
  <2> QED BY <1>15, <1>16, <2>1, <2>2, <2>3, <2>4, <2>5 DEF AtMove
<1>17. CASE (MergeDone \/ MoveRemove) /\ plan' = plan
  <2>1. /\ pc' = "moving" /\ mem'.i = mem.i + 1 /\ More
        /\ (pc = "merge" \/ (pc = "moving" /\ Oper.op = "remove"))
    <3>1. CASE MergeDone
      BY <1>1, <3>1 DEF MergeDone, At, Goto, NextOper, Variables, Moves
    <3>2. CASE MoveRemove
      BY <1>1, <3>2, MoveRemoveDoes
    <3> QED BY <1>17, <3>1, <3>2
  <2>2. mem.i \in DOMAIN plan /\ DOMAIN plan = 1..Len(plan) /\ Len(plan) \in Nat
    BY <1>1, <2>1, OperPlanned
  <2>3. \A n \in DOMAIN plan : n < mem'.i => n < mem.i \/ n = mem.i
    BY <1>1, <2>1, <2>2
  <2>4. \A n \in DOMAIN plan : Passed(n)' => Passed(n)
    BY <1>17, <2>1, <2>3 DEF Passed, Oper
  <2>5. ~Crash
    BY <2>1 DEF Crash
  <2>6. \A p : Changeable(p)' = Changeable(p) /\ Changeable(p) \subseteq user
    BY <1>1 DEF Changeable
  <2>7. pc \in AtMove
    BY <2>1 DEF AtMove
  <2> QED BY <1>1, <1>3, <1>17, <2>4, <2>5, <2>6, <2>7 DEF Copied
<1>18. CASE Moving /\ ~MoveDone /\ plan' = plan
  BY <1>13, <1>14, <1>16, <1>17, <1>18 DEF Moving
<1> QED BY <1>5, <1>6, <1>8, <1>9, <1>10, <1>11, <1>12, <1>18, Steps

LEMMA SavedMoves == ASSUME plan' = plan, user' = user, Saved(fs'), Saved(disk') PROVE Saves'
<1>1. ToInstall' = ToInstall /\ \A p : NewOf(p)' = NewOf(p)
  BY DEF ToInstall, NewOf
<1>2. \A f, p : Overtaken(f, p)' = Overtaken(f, p)
  BY <1>1 DEF Overtaken
<1>3. /\ \A p \in ToInstall' \cap Installed : \A f \in user' \cap OldFiles[p] :
           fs'.root[f] = "user" \/ f \in fs'.backup \/ Overtaken(f, p)'
      /\ \A p \in ToInstall' \cap Installed : \A f \in user' \cap OldFiles[p] :
           disk'.root[f] = "user" \/ f \in disk'.backup \/ Overtaken(f, p)'
  BY <1>1, <1>2 DEF Saved
<1> QED BY <1>3 DEF Saves, Saved

\* What is not copied yet belongs to a package the loop has still to come to.
LEMMA NotPassed ==
  ASSUME Copied, ~ahead, pc \in AtMove, NEW p \in ToInstall \cap Installed, NEW f \in Changeable(p),
         fs.root[f] = "user", f \notin fs.backup
  PROVE  \E m \in DOMAIN plan : plan[m].op = "install" /\ plan[m].pkg = p /\ ~Passed(m)
<1>1. PICK m \in DOMAIN plan : plan[m].op = "install" /\ plan[m].pkg = p
  BY DEF ToInstall
<1> QED BY <1>1 DEF Copied

LEMMA RemovalSaves ==
  ASSUME Phase, WellPlanned, Kempt, Configured, Copied, Saved(fs), ~ahead, NEW f \in Files,
         EarlyRemove(f) \/ RemoveGone(f)
  PROVE  Saved(Cleaned(f))
<1> DEFINE F == Cleaned(f)
<1>1. DOMAIN fs = Parts /\ DOMAIN fs.root = Files /\ user \subseteq Files /\ mem.i \in Nat \ {0}
  BY SetsAssumption DEF Phase, Shape, Configured, Kepts, Kept, Kempt
<1>2. pc \in {"early", "gone"} /\ pc \in AtMove /\ f \in mem.todo /\ RemovalSound(mem.removal)
  BY DEF EarlyRemove, RemoveGone, At, AtMove, Configured, Moves
<1>3. /\ F.backup = fs.backup
      /\ \A h \in Files : F.root[h] = fs.root[h] \/ (h = f /\ ~(f \in mem.configs /\ Modified(f)))
  BY <1>1, CleanedDoes
<1> HIDE DEF F
<1>4. ASSUME NEW p \in ToInstall \cap Installed, f \in user \cap OldFiles[p], f \notin fs.backup,
             fs.root[f] = "user", ~(f \in mem.configs /\ Modified(f))
      PROVE  Overtaken(f, p)
  <2>1. Modified(f)
    BY <1>4 DEF Modified
  <2>2. OldConfigs(p) \subseteq mem.configs
    BY <1>2 DEF Configured, Configs
  <2>3. f \in Changeable(p)
    BY <1>4, <2>1, <2>2 DEF OldConfigs, Changeable
  <2>4. PICK m \in DOMAIN plan : plan[m].op = "install" /\ plan[m].pkg = p /\ ~Passed(m)
    BY <1>2, <1>4, <2>3, NotPassed
  <2>5. DOMAIN plan = 1..Len(plan) /\ Len(plan) \in Nat /\ mem.i <= m
    BY <1>1, <2>4 DEF WellPlanned, IsSeq, Passed
  <2>6. More
    BY <1>1, <2>5 DEF More
  <2>7. pc = "early" /\ Oper.op = "install" /\ f \in mem.removal.early[Oper.pkg]
    BY <1>2, <2>6 DEF Configured, Moves
  <2>8. mem.i \in DOMAIN plan /\ Oper.pkg \in ToInstall
    BY <1>1, <2>6, <2>7, OperPlanned DEF ToInstall, Oper
  <2>9. \E g \in NewOf(plan[mem.i].pkg) : <<f, g>> \in Blocks
    BY <1>2, <2>7, <2>8 DEF RemovalSound, Oper
  <2> QED BY <2>4, <2>5, <2>8, <2>9 DEF Overtaken
<1>5. ASSUME NEW p \in ToInstall \cap Installed, NEW h \in user \cap OldFiles[p]
      PROVE  F.root[h] = "user" \/ h \in F.backup \/ Overtaken(h, p)
  BY <1>1, <1>3, <1>4, <1>5 DEF Saved
<1> QED BY <1>5 DEF Saved, F

LEMMA MergeSaves ==
  ASSUME Phase, WellPlanned, Kempt, Configured, Copied, Saved(fs), ~ahead, NEW f \in Files, MergeFile(f)
  PROVE  Saved(Placed(f))
<1> DEFINE F == Placed(f)
<1>1. DOMAIN fs = Parts /\ DOMAIN fs.root = Files /\ user \subseteq Files /\ mem.i \in Nat \ {0}
  BY SetsAssumption DEF Phase, Shape, Configured, Kepts, Kept, Kempt
<1>2. pc = "merge" /\ pc \in AtMove /\ f \in mem.todo
  BY DEF MergeFile, At, AtMove
<1>3. More /\ Oper.op = "install" /\ f \in Oper.files
  BY <1>2 DEF Configured, Moves
<1>4. mem.i \in DOMAIN plan /\ f \in NewOf(plan[mem.i].pkg)
  BY <1>1, <1>3, OperPlanned DEF NewOf, Oper
<1>5. /\ fs.backup \subseteq F.backup
      /\ \A h \in Files : \/ F.root[h] = fs.root[h]
                          \/ /\ F.root[h] # "user"
                             /\ \/ <<h, f>> \in Blocks /\ (fs.root[h] = "user" => h \in F.backup)
                                \/ h = f /\ ~(f \in OldConfigs(Oper.pkg) /\ Modified(f))
  BY <1>1, PlacedDoes
<1> HIDE DEF F
<1>6. ASSUME NEW p \in ToInstall \cap Installed, f \in user \cap OldFiles[p], f \notin fs.backup,
             fs.root[f] = "user", ~(f \in OldConfigs(Oper.pkg) /\ Modified(f))
      PROVE  Overtaken(f, p)
  <2>1. Modified(f)
    BY <1>6 DEF Modified
  <2>2. f \in Confs => f \in InstalledConfs /\ f \in NewOf(Oper.pkg)
    BY <1>4, <1>6 DEF InstalledConfs, Oper
  <2>3. f \in Changeable(p)
    BY <1>6, <2>1, <2>2 DEF OldConfigs, Changeable
  <2>4. PICK m \in DOMAIN plan : plan[m].op = "install" /\ plan[m].pkg = p /\ ~Passed(m)
    BY <1>2, <1>6, <2>3, NotPassed
  <2>5. mem.i < m
    <3>1. m \in Nat
      BY <2>4 DEF WellPlanned, IsSeq
    <3> QED BY <1>1, <1>2, <2>4, <3>1 DEF Passed
  <2> QED BY <1>4, <2>4, <2>5 DEF Overtaken
<1>7. ASSUME NEW p \in ToInstall \cap Installed, NEW h \in user \cap OldFiles[p]
      PROVE  F.root[h] = "user" \/ h \in F.backup \/ Overtaken(h, p)
  <2>1. h \in Files /\ (fs.root[h] = "user" \/ h \in fs.backup \/ Overtaken(h, p))
    BY <1>1, <1>7 DEF Saved
  <2>2. CASE fs.root[h] = "user" /\ F.root[h] # "user" /\ h \notin F.backup
    <3>1. h = f /\ ~(f \in OldConfigs(Oper.pkg) /\ Modified(f)) /\ f \notin fs.backup
      BY <1>5, <2>1, <2>2
    <3> QED BY <1>6, <1>7, <2>2, <3>1
  <2> QED BY <1>5, <2>1, <2>2
<1> QED BY <1>7 DEF Saved, F

LEMMA SavesKept ==
  ASSUME Phase, Books, WellPlanned, Kempt, Configured, Copied, Saves, [Next]_vars
  PROVE  Saves'
<1> SUFFICES ASSUME ~ahead' PROVE Saves'
  BY DEF Saves
<1>1. user' = user /\ ~ahead
  <2>1. CASE Crash
    <3>1. ahead' = (ahead \/ \E p \in Pkgs : fs'.info[p] # fs'.db[p])
      BY <2>1 DEF Crash
    <3> QED BY <3>1, UserStays, Zenon
  <2> QED BY <2>1, UserStays
<1>2. Saved(fs) /\ Saved(disk)
  BY <1>1 DEF Saves
<1>3. plan' = plan \/ Perform \/ UnpackOp
  BY PlanStays
<1>4. CASE Perform \/ UnpackOp
  <2>1. /\ fs'.root = fs.root /\ disk' = disk /\ pc \notin {"done", "failed"}
    BY <1>4 DEF Perform, UnpackOp, At, Phase, Shape, Parts
  <2>2. "CHECKED" \notin Journaled
    <3>1. CASE Perform
      <4>1. acked = <<>>
        BY <3>1 DEF Perform, Fresh, Books, Ledger, J!IInv, J!Control
      <4> QED BY <4>1 DEF Journaled
    <3>2. CASE UnpackOp
      <4>1. pc = "unpack" /\ op = "idle" /\ ~Have("UNPACKED") /\ Opened
        BY <3>2 DEF UnpackOp, At, Configured
      <4> QED BY <4>1, NothingStored, JournaledIsStored
    <3> QED BY <1>4, <3>1, <3>2
  <2>3. \A f \in user : fs.root[f] = "user" /\ disk.root[f] = "user"
    BY <2>1, <2>2 DEF Configured, Untouched, Pristine
  <2> QED BY <1>1, <2>1, <2>3 DEF Saves, Saved
<1>5. CASE plan' = plan /\ fs'.root = fs.root /\ fs.backup \subseteq fs'.backup /\ disk' \in {disk, fs}
  <2>1. Saved(fs') /\ Saved(disk')
    BY <1>2, <1>5 DEF Saved
  <2> QED BY <1>1, <1>5, <2>1, SavedMoves
<1>6. CASE plan' = plan /\ fs' \in {fs, disk} /\ disk' = fs'
  BY <1>1, <1>2, <1>6, SavedMoves
<1>7. ASSUME plan' = plan, NEW f \in Files, EarlyRemove(f) \/ RemoveGone(f), fs' = Cleaned(f), disk' = disk
      PROVE  Saves'
  BY <1>1, <1>2, <1>7, RemovalSaves, SavedMoves
<1>8. ASSUME plan' = plan, NEW f \in Files, MergeFile(f), fs' = Placed(f), disk' = disk PROVE Saves'
  BY <1>1, <1>2, <1>8, MergeSaves, SavedMoves
<1> QED BY <1>3, <1>4, <1>5, <1>6, <1>7, <1>8, RootSteps

\* What the theorem goes by.
Cautious == Level /\ Noticed /\ Copied /\ Saves

LEMMA CautiousFirst == ASSUME Init PROVE Cautious
<1>1. pc = "down" /\ disk = fs /\ user \subseteq Files
  BY SetsAssumption DEF Init
<1>2. /\ fs.root = [f \in Files |-> IF f \in user THEN "user"
                                   ELSE IF \E p \in Installed : f \in OldFiles[p] THEN "old" ELSE "none"]
      /\ fs.info = fs.db
  BY DEF Init
<1>3. Saved(fs)
  BY <1>1, <1>2 DEF Saved
<1> QED BY <1>1, <1>2, <1>3 DEF Cautious, Level, Noticed, Watching, Copied, Saves, AtMove, BeforeMove

(* What the user has changed in the files of a package being upgraded is   *)
(* kept, over every crash that leaves no control files newer than the      *)
(* status file, unless the file is overtaken (user_path_move in pkg_move). *)
THEOREM UserChangesSaved == Spec => []ChangesKept
<1>1. Init => Cautious
  BY CautiousFirst
<1>2. Phase /\ Books /\ WellPlanned /\ Kempt /\ Configured /\ Cautious /\ [Next]_vars => Cautious'
  <2> SUFFICES ASSUME Phase, Books, WellPlanned, Kempt, Configured, Cautious, [Next]_vars PROVE Cautious'
    OBVIOUS
  <2>1. DOMAIN fs.root = Files /\ Untouched /\ Level /\ Noticed /\ Copied /\ Saves
    BY DEF Configured, Kepts, Kept, Cautious
  <2>2. Level' /\ Noticed'
    BY <2>1, LevelKept, NoticedKept
  <2>3. Copied' /\ Saves'
    BY <2>1, CopiedKept, SavesKept
  <2> QED BY <2>2, <2>3 DEF Cautious
<1>3. Cautious => ChangesKept
  BY DEF Cautious, Saves, Saved, ChangesKept
<1> QED BY <1>1, <1>2, <1>3, PhaseCorrect, BooksCorrect, KemptCorrect, ConfiguredCorrect, PTL DEF Spec

-----------------------------------------------------------------------------
(* The scripts were run, and the process knows which of them failed.       *)

\* A plan has one operation for a package, as the planner makes it.  Of two installations the
\* scripts would run twice, and what failed the first time be reported though it did not the second.
OnceEach == \A n, q \in DOMAIN plan : plan[n].pkg = plan[q].pkg => n = q

\* The script of an operation that has to run before its files are moved, or after all are.
DueOf(n, inst, rm) == IF plan[n].op = "install" THEN {<<plan[n].pkg, inst>>}
                      ELSE IF plan[n].pkg \in Installed THEN {<<plan[n].pkg, rm>>} ELSE {}
Due(N, inst, rm) == UNION {DueOf(n, inst, rm) : n \in N}
Before(i) == {n \in DOMAIN plan : n < i}
PreOf(N) == Due(N, "preinst", "prerm")
PostOf(N) == Due(N, "postinst", "postrm")
AllPre == PreOf(DOMAIN plan)
AllDue == AllPre \cup PostOf(DOMAIN plan)

\* The operations whose first script has been run, and those whose second one.
Moved == Before(mem.i) \cup (IF pc \in {"early", "merge"} THEN {mem.i} ELSE {})

\* What failed is known to have run, and to whoever goes on: a process that moves, or runs the
\* scripts after the move, has run all of them anew up to now; one that comes later has the
\* record of one that did.
Failing == /\ failing \subseteq ran /\ failing \subseteq AllDue
           /\ pc \notin {"done", "failed"} /\ "MOVED" \notin Journaled => failing \subseteq AllPre
Collected == /\ pc \in BeforeMove => mem.errs = {}
             /\ pc \in AtMove => /\ ~Have("MOVED")
                                 /\ PreOf(Moved) \subseteq ran /\ mem.errs = failing \cap PreOf(Moved)
             /\ pc = "scripts" /\ ~Have("SCRIPTS") =>
                  LET now == AllPre \cup PostOf(Before(mem.i))
                  IN now \subseteq ran /\ mem.errs = failing \cap now
             /\ pc \in AfterScripts \cup {"done"} \/ (pc = "scripts" /\ op = "write") =>
                  AllDue \subseteq ran /\ mem.errs = failing
Reports == \A r \in Stored : /\ r.type = "MOVED" => AllPre \subseteq ran /\ r.params.errs = failing \cap AllPre
                             /\ r.type = "SCRIPTS" => AllDue \subseteq ran /\ r.params.errs = failing

\* The control files the scripts are in: those of a package that is not installed are as they
\* were until the clean-up, and those of the others are in place from their move on.
Equipped(F) == \A p \in ToInstall : F.info[p] # "none"
Infos == /\ DOMAIN fs.info = Pkgs /\ DOMAIN disk.info = Pkgs
         /\ pc \notin {"done", "failed"} /\ "SCRIPTS" \notin Journaled =>
              \A p \in Pkgs \ ToInstall : fs.info[p] = FirstDb[p] /\ disk.info[p] = FirstDb[p]
         /\ "MOVED" \in StoredTypes /\ "SCRIPTS" \notin Journaled => Equipped(fs) /\ Equipped(disk)
         /\ pc \in AtMove => \A n \in Before(mem.i) : plan[n].op = "install" => fs.info[plan[n].pkg] # "none"
         /\ pc \in {"preinst", "early", "merge"} => fs.info[Oper.pkg] # "none"

LEMMA DueDoes ==
  ASSUME NEW N, NEW M, NEW inst, NEW rm
  PROVE  /\ Due(N \cup M, inst, rm) = Due(N, inst, rm) \cup Due(M, inst, rm)
         /\ Due({}, inst, rm) = {}
         /\ N \subseteq M => Due(N, inst, rm) \subseteq Due(M, inst, rm)
  BY DEF Due

LEMMA DueOne == ASSUME NEW n, NEW inst, NEW rm PROVE Due({n}, inst, rm) = DueOf(n, inst, rm)
  BY DEF Due

\* The first scripts and the others have names of their own, and packages one of each.
LEMMA DueApart ==
  ASSUME NEW N \in SUBSET DOMAIN plan
  PROVE  /\ PreOf(N) \cap PostOf(DOMAIN plan) = {}
         /\ OnceEach => \A n \in DOMAIN plan \ N : /\ PreOf({n}) \cap PreOf(N) = {}
                                                   /\ PostOf({n}) \cap PostOf(N) = {}
<1>1. \A n : \A x \in DueOf(n, "preinst", "prerm") : x[1] = plan[n].pkg /\ x[2] \in {"preinst", "prerm"}
  BY DEF DueOf
<1>2. \A n : \A x \in DueOf(n, "postinst", "postrm") : x[1] = plan[n].pkg /\ x[2] \in {"postinst", "postrm"}
  BY DEF DueOf
<1>3. PreOf(N) \cap PostOf(DOMAIN plan) = {}
  BY <1>1, <1>2 DEF PreOf, PostOf, Due
<1>4. ASSUME OnceEach, NEW n \in DOMAIN plan \ N PROVE PreOf({n}) \cap PreOf(N) = {}
  <2>1. \A q \in N : plan[q].pkg # plan[n].pkg
    BY <1>4 DEF OnceEach
  <2> QED BY <1>1, <2>1 DEF PreOf, Due
<1>5. ASSUME OnceEach, NEW n \in DOMAIN plan \ N PROVE PostOf({n}) \cap PostOf(N) = {}
  <2>1. \A q \in N : plan[q].pkg # plan[n].pkg
    BY <1>5 DEF OnceEach
  <2> QED BY <1>2, <2>1 DEF PostOf, Due
<1> QED BY <1>3, <1>4, <1>5

LEMMA BeforeNext ==
  ASSUME WellPlanned, mem.i \in Nat \ {0}
  PROVE  /\ Before(1) = {}
         /\ mem.i \notin Before(mem.i) /\ Before(mem.i) \subseteq DOMAIN plan
         /\ More => mem.i \in DOMAIN plan /\ Before(mem.i + 1) = Before(mem.i) \cup {mem.i}
         /\ ~More => Before(mem.i) = DOMAIN plan
<1>1. DOMAIN plan = 1..Len(plan) /\ Len(plan) \in Nat
  BY DEF WellPlanned, IsSeq
<1> QED BY <1>1 DEF Before, More

\* No step changes what is due.
LEMMA SameDue ==
  ASSUME SamePlan
  PROVE  /\ AllPre' = AllPre /\ AllDue' = AllDue /\ (OnceEach => OnceEach')
         /\ \A i : Before(i)' = Before(i)
         /\ \A N \in SUBSET DOMAIN plan : PreOf(N)' = PreOf(N) /\ PostOf(N)' = PostOf(N)
<1>1. DOMAIN plan' = DOMAIN plan /\ \A n \in DOMAIN plan : plan'[n].op = plan[n].op /\ plan'[n].pkg = plan[n].pkg
  BY DEF SamePlan
<1>2. \A n \in DOMAIN plan : \A inst, rm : DueOf(n, inst, rm)' = DueOf(n, inst, rm)
  BY <1>1 DEF DueOf
<1>3. ASSUME NEW N \in SUBSET DOMAIN plan PROVE PreOf(N)' = PreOf(N) /\ PostOf(N)' = PostOf(N)
  BY <1>2 DEF PreOf, PostOf, Due
<1>4. AllPre' = AllPre /\ AllDue' = AllDue
  BY <1>1, <1>2 DEF AllPre, AllDue, PreOf, PostOf, Due
<1>5. OnceEach => OnceEach'
  BY <1>1 DEF OnceEach
<1>6. \A i : Before(i)' = Before(i)
  BY <1>1 DEF Before
<1> QED BY <1>3, <1>4, <1>5, <1>6

LEMMA HistSteps == ASSUME [Next]_vars PROVE UNCHANGED hist \/ Preinst \/ MoveRemove \/ PostScript
<1>1. CASE Perform \/ RecoverTransaction \/ Crash \/ Die \/ JournalUnits \/ StepRecorded \/ FinishJournal \/ JournalRemoved
  BY <1>1 DEF Perform, RecoverTransaction, Crash, Die, JournalUnits, StepRecorded, FinishJournal, JournalRemoved, hist
<1>2. CASE Replays \/ Commits \/ StatusDump
  BY <1>2 DEF Replays, ReplayUnpack, ReplayCheck, ReplayChangelogStart, ReplayMove, ReplayScripts,
         ReplayChangelogEnd, ReplayCleaned, Replay, Commits, UnpackDone, Check, ChangelogStart, MoveDone,
         ScriptsDone, ChangelogEnd, CleanedDone, Commit, StatusDump, Goto
<1>3. CASE Working
  BY <1>3 DEF Working, SkipRemoval, UnpackOp, UnpackError, CheckError, OpenChangelog, CloseChangelog,
         RemoveFile, RemoveDir, ControlCleanup, Turn, Goto, Raise, hist
<1>4. CASE Moving /\ ~MoveDone
  <2> DEFINE Silent == ran' = ran /\ failing' = failing
  <2>1. ASSUME NEW f, EarlyRemove(f) \/ MergeFile(f) \/ RemoveGone(f) PROVE Silent
    BY <2>1 DEF EarlyRemove, MergeFile, RemoveGone, Turn, hist
  <2>2. ASSUME StartMove \/ MoveInstall \/ DropControl \/ CopyControl \/ MoveError PROVE Silent
    BY <2>2 DEF StartMove, MoveInstall, DropControl, CopyControl, MoveError, Turn, Goto, Raise, hist
  <2>3. ASSUME CopyChanged \/ MergeDone \/ MoveRest PROVE Silent
    BY <2>3 DEF CopyChanged, MergeDone, MoveRest, Goto, hist
  <2> HIDE DEF Silent
  <2>4. Silent \/ Preinst \/ MoveRemove
    BY <1>4, <2>1, <2>2, <2>3 DEF Moving
  <2> QED BY <2>4 DEF Silent, hist
<1>5. CASE UNCHANGED vars
  BY <1>5 DEF vars, hist
<1> QED BY <1>1, <1>2, <1>3, <1>4, <1>5, Steps

\* What a script does to the accounts: if it is there it runs, and fails or not.
Ran(x) == /\ ran' = ran \cup {x}
          /\ \/ failing' = failing \ {x} /\ mem'.errs = mem.errs
             \/ failing' = failing \cup {x} /\ mem'.errs = mem.errs \cup {x}
LEMMA ScriptRuns ==
  ASSUME NEW p, NEW s, NEW mem2, RunScript(p, s, mem2), DOMAIN mem2 = Variables, mem2.errs = mem.errs
  PROVE  /\ fs.info[p] # "none" => Ran(<<p, s>>)
         /\ fs.info[p] = "none" => UNCHANGED hist /\ mem'.errs = mem.errs
  BY DEF RunScript, Ran, Variables, hist

LEMMA PreinstRuns ==
  ASSUME Shape, WellPlanned, mem.i \in Nat \ {0}, Moves, Infos, Preinst
  PROVE  /\ Ran(<<Oper.pkg, "preinst">>) /\ PreOf({mem.i}) = {<<Oper.pkg, "preinst">>}
         /\ mem.i \in DOMAIN plan /\ More
<1> DEFINE next == [mem EXCEPT !.todo = mem.removal.early[Oper.pkg]]
<1>1. RunScript(Oper.pkg, "preinst", next) /\ pc = "preinst"
  BY DEF Preinst, At
<1>2. DOMAIN next = Variables /\ next.errs = mem.errs
  BY DEF Shape, Variables
<1> HIDE DEF next
<1>3. fs.info[Oper.pkg] # "none" /\ More /\ Oper.op = "install"
  BY <1>1 DEF Infos, Moves
<1>4. Ran(<<Oper.pkg, "preinst">>)
  BY <1>1, <1>2, <1>3, ScriptRuns
<1> QED BY <1>3, <1>4, OperPlanned, DueOne DEF PreOf, DueOf, Oper

LEMMA MoveRemoveRuns ==
  ASSUME Phase, WellPlanned, OnceEach, mem.i \in Nat \ {0}, Configs, Infos, "SCRIPTS" \notin Journaled, MoveRemove
  PROVE  /\ mem.i \in DOMAIN plan
         /\ \/ \E x : PreOf({mem.i}) = {x} /\ Ran(x)
            \/ PreOf({mem.i}) = {} /\ UNCHANGED hist /\ mem'.errs = mem.errs
<1> DEFINE p == Oper.pkg
           next == [NextOper EXCEPT !.configs = @ \cup (Confs \cap OldFiles[Oper.pkg]),
                                    !.status[Oper.pkg] = IF KeptConfigs(Oper.pkg) = {} THEN "none"
                                                         ELSE "config"]
<1>1. /\ pc = "moving" /\ More /\ Oper.op = "remove"
      /\ IF mem.status[p] \in {"old", "new"} THEN RunScript(p, "prerm", next)
         ELSE mem' = NextOper /\ UNCHANGED hist
  BY DEF MoveRemove, At
<1>2. DOMAIN NextOper = Variables /\ NextOper.errs = mem.errs
  BY DEF NextOper, Phase, Shape, Variables
<1>3. DOMAIN next = Variables /\ next.errs = mem.errs
  BY <1>2 DEF Variables
<1> HIDE DEF next
<1>4. mem.i \in DOMAIN plan /\ p \in Pkgs /\ pc \in AtMove
  BY <1>1, OperPlanned DEF WellPlanned, Oper, AtMove
<1>5. p \notin ToInstall
  BY <1>1, <1>4 DEF OnceEach, ToInstall, Oper
<1>6. fs.info[p] = FirstDb[p]
  BY <1>1, <1>4, <1>5 DEF Infos
<1>7. CASE p \in Installed
  <2>1. mem.status[p] = "old"
    <3>1. DOMAIN plan = 1..Len(plan) /\ Len(plan) \in Nat
      BY DEF WellPlanned, IsSeq
    <3>2. ~\E n \in DOMAIN plan : n < mem.i /\ plan[n].pkg = p
      BY <1>4, <3>1 DEF OnceEach, Oper
    <3> QED BY <1>4, <1>7, <3>2 DEF Configs
  <2>2. fs.info[p] # "none"
    BY <1>4, <1>6, <1>7 DEF FirstDb
  <2>3. Ran(<<p, "prerm">>)
    BY <1>1, <1>3, <2>1, <2>2, ScriptRuns
  <2>4. PreOf({mem.i}) = {<<p, "prerm">>}
    BY <1>1, <1>7, DueOne DEF PreOf, DueOf, Oper
  <2> QED BY <1>4, <2>3, <2>4
<1>8. CASE p \notin Installed
  <2>1. PreOf({mem.i}) = {}
    BY <1>1, <1>8, DueOne DEF PreOf, DueOf, Oper
  <2>2. fs.info[p] = "none"
    BY <1>4, <1>6, <1>8 DEF FirstDb
  <2>3. UNCHANGED hist /\ mem'.errs = mem.errs
    BY <1>1, <1>2, <1>3, <2>2, ScriptRuns
  <2> QED BY <1>4, <2>1, <2>3
<1> QED BY <1>7, <1>8

LEMMA PostScriptRuns ==
  ASSUME Phase, WellPlanned, OnceEach, mem.i \in Nat \ {0}, Infos, "SCRIPTS" \notin Journaled,
         "MOVED" \in StoredTypes, PostScript
  PROVE  /\ mem.i \in DOMAIN plan /\ mem'.i = mem.i + 1
         /\ \/ \E x : PostOf({mem.i}) = {x} /\ Ran(x)
            \/ PostOf({mem.i}) = {} /\ UNCHANGED hist /\ mem'.errs = mem.errs
<1> DEFINE p == Oper.pkg
<1>1. pc = "scripts" /\ More
  BY DEF PostScript, At
<1>2. DOMAIN NextOper = Variables /\ NextOper.errs = mem.errs /\ NextOper.i = mem.i + 1
  BY DEF NextOper, Phase, Shape, Variables
<1>3. mem.i \in DOMAIN plan /\ p \in Pkgs
  BY <1>1, OperPlanned DEF WellPlanned, Oper
<1>4. mem'.i = mem.i + 1
  <2>1. CASE mem' = NextOper
    BY <1>2, <2>1
  <2>2. ASSUME NEW q, NEW s, RunScript(q, s, NextOper) PROVE mem'.i = mem.i + 1
    <3>1. mem' = NextOper \/ mem' = [NextOper EXCEPT !.errs = @ \cup {<<q, s>>}]
      BY <2>2 DEF RunScript
    <3> QED BY <1>2, <3>1 DEF Variables
  <2> QED BY <2>1, <2>2 DEF PostScript
<1>5. CASE Oper.op = "install"
  <2>1. p \in ToInstall
    BY <1>3, <1>5 DEF ToInstall, Oper
  <2>2. fs.info[p] # "none"
    BY <2>1 DEF Infos, Equipped
  <2>3. Ran(<<p, "postinst">>)
    BY <1>2, <1>5, <2>2, ScriptRuns DEF PostScript
  <2>4. PostOf({mem.i}) = {<<p, "postinst">>}
    BY <1>5, DueOne DEF PostOf, DueOf, Oper
  <2> QED BY <1>3, <1>4, <2>3, <2>4
<1>6. CASE Oper.op # "install"
  <2>1. p \notin ToInstall
    BY <1>3, <1>6 DEF OnceEach, ToInstall, Oper
  <2>2. RunScript(p, "postrm", NextOper)
    BY <1>6, <2>1 DEF PostScript
  <2>3. fs.info[p] = FirstDb[p]
    BY <1>1, <1>3, <2>1 DEF Infos
  <2>4. CASE p \in Installed
    <3>1. Ran(<<p, "postrm">>)
      BY <1>2, <1>3, <2>2, <2>3, <2>4, ScriptRuns DEF FirstDb
    <3>2. PostOf({mem.i}) = {<<p, "postrm">>}
      BY <1>6, <2>4, DueOne DEF PostOf, DueOf, Oper
    <3> QED BY <1>3, <1>4, <3>1, <3>2
  <2>5. CASE p \notin Installed
    <3>1. UNCHANGED hist /\ mem'.errs = mem.errs
      BY <1>2, <1>3, <2>2, <2>3, <2>5, ScriptRuns DEF FirstDb
    <3>2. PostOf({mem.i}) = {}
      BY <1>6, <2>5, DueOne DEF PostOf, DueOf, Oper
    <3> QED BY <1>3, <1>4, <3>1, <3>2
  <2> QED BY <2>4, <2>5
<1> QED BY <1>5, <1>6

LEMMA Over == ASSUME Phase, Next PROVE pc \notin {"done", "failed"}
<1>1. CASE Perform \/ RecoverTransaction \/ Crash \/ Die
  BY <1>1 DEF Perform, RecoverTransaction, Crash, Die, Running
<1>2. CASE JournalUnits \/ StepRecorded \/ FinishJournal \/ JournalRemoved
  BY <1>2 DEF JournalUnits, WriteUnits, StepRecorded, WriteDone, FinishJournal, JournalRemoved, Unlink, At,
         Phase, InJournal, Writing, Recording
<1>3. CASE Replays \/ Commits \/ StatusDump
  BY <1>3 DEF Replays, ReplayUnpack, ReplayCheck, ReplayChangelogStart, ReplayMove, ReplayScripts,
         ReplayChangelogEnd, ReplayCleaned, Commits, UnpackDone, Check, ChangelogStart, MoveDone, ScriptsDone,
         ChangelogEnd, CleanedDone, StatusDump, At
<1>4. CASE Working \/ (Moving /\ ~MoveDone)
  BY <1>4, OthersWork, MovingWorks DEF Phase
<1> QED BY <1>1, <1>2, <1>3, <1>4, Steps

\* What is in the journal stays there until the transaction is over.
LEMMA JournaledStays ==
  ASSUME Phase, Books, [Next]_vars, NEW t \in Journaled, t \in {"CHECKED", "MOVED", "SCRIPTS"},
         pc' \notin {"done", "failed"}
  PROVE  t \in Journaled'
<1>1. "UNPACKED" \in Journaled
  BY DEF Books, Ledger, Later
<1>2. CASE Perform
  <2>1. ~exists
    BY <1>2 DEF Perform, Fresh
  <2> QED BY <1>1, <2>1 DEF Books, Ledger, J!IInv, J!Control, Journaled
<1>3. CASE JournalRemoved
  <2>1. pc \in {"finish", "wipe", "abort"}
        /\ pc' = CASE pc = "finish" -> "done" [] pc = "abort" -> "failed" [] pc = "wipe" -> "down"
    BY <1>3 DEF JournalRemoved, Unlink, Phase, InJournal
  <2>2. pc = "wipe"
    BY <2>1
  <2> QED BY <1>1, <2>2 DEF Books, Readings
<1> QED BY <1>2, <1>3, JournaledGrows

\* The steps, by what they do to the accounts.
LEMMA TallySteps ==
  ASSUME Phase, [Next]_vars
  PROVE  \/ Perform \/ RecoverTransaction \/ ReplayMove \/ ReplayScripts
         \/ Preinst \/ MoveRemove \/ PostScript
         \/ UNCHANGED hist /\ mem'.errs = mem.errs
<1>1. DOMAIN mem = Variables /\ "errs" \in Variables
  BY DEF Phase, Shape, Variables
<1>2. UNCHANGED hist \/ Preinst \/ MoveRemove \/ PostScript
  BY HistSteps
<1>3. CASE UNCHANGED vars \/ Crash \/ Die \/ JournalUnits \/ FinishJournal \/ JournalRemoved
  BY <1>2, <1>3 DEF vars, Crash, Die, JournalUnits, FinishJournal, JournalRemoved
<1>4. CASE StepRecorded
  BY <1>1, <1>2, <1>4 DEF StepRecorded
<1>5. CASE Replays
  BY <1>1, <1>2, <1>5 DEF Replays, ReplayUnpack, ReplayCheck, ReplayChangelogStart, ReplayChangelogEnd,
         ReplayCleaned, Replay
<1>6. CASE Commits
  BY <1>1, <1>2, <1>6 DEF Commits, UnpackDone, Check, ChangelogStart, MoveDone, ScriptsDone, ChangelogEnd, CleanedDone
<1>7. CASE StatusDump
  BY <1>2, <1>7 DEF StatusDump, Goto
<1>8. CASE Working
  BY <1>1, <1>2, <1>8 DEF Working, SkipRemoval, UnpackOp, UnpackError, CheckError, OpenChangelog, CloseChangelog,
         RemoveFile, RemoveDir, ControlCleanup, Turn, Goto, Raise, NextOper
<1>9. CASE Moving /\ ~MoveDone
  BY <1>1, <1>2, <1>9 DEF Moving, StartMove, MoveInstall, DropControl, CopyControl, MoveError, CopyChanged,
         MergeDone, MoveRest, EarlyRemove, MergeFile, RemoveGone, Turn, Goto, Raise, NextOper, Visited
<1> QED BY <1>3, <1>4, <1>5, <1>6, <1>7, <1>8, <1>9, Steps

\* How the stages are come to.
Came == /\ pc' \in BeforeMove => pc \in BeforeMove \/ Perform \/ RecoverTransaction
        /\ pc' \in AtMove => (Moving /\ ~MoveDone) \/ UNCHANGED <<pc, mem, fs, plan>>
        /\ pc' = "scripts" => \/ PostScript \/ ReplayMove
                              \/ pc = "gone" /\ op = "write" /\ mem' = [mem EXCEPT !.i = 1]
                              \/ UNCHANGED <<pc, mem, plan>> /\ (op' = "write" => op = "write" \/ ScriptsDone)
        /\ pc' \in AfterScripts \cup {"done"} => \/ pc \in AfterScripts \cup {"done"} \/ ReplayScripts
                                                 \/ (pc = "scripts" /\ op = "write")
LEMMA StageFlow ==
  ASSUME Phase, [Next]_vars
  PROVE  Came /\ (mem'.replay = mem.replay \/ Perform \/ RecoverTransaction)
<1> USE DEF Came, BeforeMove, AtMove
<1>1. DOMAIN mem = Variables /\ "replay" \in Variables
  BY DEF Phase, Shape, Variables
<1>2. CASE Perform \/ RecoverTransaction
  BY <1>2 DEF Perform, RecoverTransaction
<1>3. CASE Crash \/ Die \/ JournalRemoved
  BY <1>3 DEF Crash, Die, JournalRemoved, Unlink, Phase, InJournal
<1>4. CASE UNCHANGED vars \/ JournalUnits \/ FinishJournal
  <2>1. UNCHANGED <<pc, mem, fs, plan>> /\ (op' = "write" => op = "write")
    BY <1>4 DEF vars, journal, JournalUnits, FinishJournal, WriteUnits, StartFinish, EnterWrite, env
  <2> QED BY <2>1
<1>5. CASE StepRecorded
  <2>1. CASE op = "write"
    <3>1. <<pc, rec.type>> \in Recording /\ pc' = AfterStep[rec.type] /\ mem' = [mem EXCEPT !.i = 1]
      BY <1>5, <2>1 DEF StepRecorded, Phase, InJournal
    <3> QED BY <1>1, <2>1, <3>1 DEF Recording, AfterStep
  <2>2. CASE op # "write"
    <3>1. UNCHANGED <<pc, mem, fs, plan>> /\ op' # "write"
      BY <1>5, <2>2 DEF StepRecorded, WriteDone, env
    <3> QED BY <3>1
  <2> QED BY <2>1, <2>2
<1>6. CASE Replays
  <2>1. Came
    BY <1>6 DEF Replays, ReplayUnpack, ReplayCheck, ReplayChangelogStart, ReplayMove, ReplayScripts,
           ReplayChangelogEnd, ReplayCleaned, Replay, AfterStep, At
  <2> QED BY <1>6, <2>1, ReplayStays DEF Phase
<1>7. CASE Commits
  <2>1. pc' = pc /\ fs' = fs /\ plan' = plan
    BY <1>7 DEF Commits, UnpackDone, Check, ChangelogStart, MoveDone, ScriptsDone, ChangelogEnd, CleanedDone,
           Commit, env
  <2>2. pc \in AtMove \cup {"scripts"} => mem' = mem /\ (ScriptsDone \/ pc # "scripts")
    BY <1>7 DEF Commits, UnpackDone, Check, ChangelogStart, MoveDone, ScriptsDone, ChangelogEnd, CleanedDone, At
  <2> QED BY <1>7, <2>1, <2>2, ReplayStays DEF Phase
<1>8. CASE Working
  <2>1. pc = "scripts" => PostScript
    BY <1>8 DEF Working, SkipRemoval, UnpackOp, UnpackError, CheckError, OpenChangelog, CloseChangelog,
           RemoveFile, RemoveDir, ControlCleanup, At
  <2> QED BY <1>8, <2>1, OthersWork DEF Phase, Works
<1>9. CASE StatusDump
  BY <1>9, DumpWorks DEF Phase, Works
<1>10. CASE Moving /\ ~MoveDone
  <2>1. pc' # "move"
    BY <1>10 DEF Moving, StartMove, MoveInstall, DropControl, CopyControl, MoveError, Preinst, CopyChanged,
           MergeDone, MoveRemove, MoveRest, EarlyRemove, MergeFile, RemoveGone, Turn, Goto, Raise, At
  <2> QED BY <1>10, <2>1, MovingWorks DEF Phase, Works
<1> QED BY <1>2, <1>3, <1>4, <1>5, <1>6, <1>7, <1>8, <1>9, <1>10, Steps

\* The steps, by what they do to the control files.
LEMMA InfoSteps ==
  ASSUME Phase, Books, [Next]_vars
  PROVE  \/ fs'.info = fs.info /\ disk' \in {disk, fs}
         \/ Crash /\ fs' \in {fs, disk} /\ disk' = fs'
         \/ /\ DropControl \/ CopyControl
            /\ \E x : fs'.info = [fs.info EXCEPT ![Oper.pkg] = x]
            /\ disk' = disk
         \/ ControlCleanup /\ disk' = disk
<1>1. Shape /\ DOMAIN fs = Parts
  BY DEF Phase, Shape
<1>2. CASE Crash
  BY <1>2 DEF Crash
<1>3. CASE \/ UNCHANGED vars \/ RecoverTransaction \/ Die \/ JournalUnits \/ StepRecorded
           \/ FinishJournal \/ JournalRemoved
  BY <1>3 DEF vars, RecoverTransaction, Die, JournalUnits, StepRecorded, FinishJournal, JournalRemoved
<1>4. CASE Replays \/ Commits
  <2>1. fs' = fs /\ disk' \in {disk, fs}
    BY <1>4, ReplaysLeave, CommitFits
  <2> QED BY <2>1
<1>5. CASE Perform \/ StatusDump
  BY <1>1, <1>5 DEF Perform, StatusDump, Goto, Parts
<1>6. CASE Working /\ ~ControlCleanup
  <2>1. fs'.info = fs.info
    BY <1>1, <1>6 DEF Working, SkipRemoval, UnpackOp, UnpackError, CheckError, OpenChangelog, PostScript,
           CloseChangelog, RemoveFile, RemoveDir, Turn, Goto, Raise, Parts
  <2> QED BY <1>1, <1>6, <2>1, OthersWork
<1>7. CASE DropControl \/ CopyControl
  BY <1>1, <1>7 DEF DropControl, CopyControl, Turn, Goto, Parts
<1>8. CASE StartMove \/ MoveInstall \/ MoveError \/ MoveRest
  BY <1>8 DEF StartMove, MoveInstall, MoveError, MoveRest, Goto, Raise
<1>9. CASE Preinst \/ MoveRemove
  BY <1>1, <1>9 DEF Preinst, MoveRemove, Parts
<1>10. CASE CopyChanged \/ MergeDone
  BY <1>1, <1>10 DEF CopyChanged, MergeDone, Merged, Goto, Parts
<1>11. ASSUME NEW f, EarlyRemove(f) \/ RemoveGone(f) PROVE fs'.info = fs.info /\ disk' = disk
  BY <1>1, <1>11 DEF EarlyRemove, RemoveGone, Cleaned, Turn, Parts
<1>12. ASSUME NEW f, MergeFile(f) PROVE fs'.info = fs.info /\ disk' = disk
  BY <1>1, <1>12 DEF MergeFile, Placed, WayCleared, Turn, Parts
<1>13. CASE Moving /\ ~MoveDone
  BY <1>7, <1>8, <1>9, <1>10, <1>11, <1>12, <1>13 DEF Moving
<1>14. CASE ControlCleanup
  BY <1>14 DEF ControlCleanup, Goto
<1> QED BY <1>2, <1>3, <1>4, <1>5, <1>6, <1>13, <1>14, Steps

\* While files are moved, the move is not in the journal, nor are the scripts while they run.
LEMMA NotYet ==
  ASSUME Phase, Books, Opened
  PROVE  /\ pc \in AtMove \cup {"move"} /\ ~Have("MOVED") => {"MOVED", "SCRIPTS"} \cap Journaled = {}
         /\ pc \in AtMove \cup {"move"} /\ ~Have("MOVED") /\ op = "idle" => {"MOVED", "SCRIPTS"} \cap StoredTypes = {}
         /\ pc = "scripts" /\ ~Have("SCRIPTS") => "SCRIPTS" \notin Journaled
         /\ pc = "scripts" /\ ~Have("SCRIPTS") /\ op = "idle" => "SCRIPTS" \notin StoredTypes
<1>1. pc \in AtMove \cup {"move"} /\ ~Have("MOVED") => {"MOVED", "SCRIPTS"} \cap Journaled = {}
  <2>1. pc \in AtMove \cup {"move"} /\ ~Have("MOVED") => "MOVED" \notin Journaled
    BY DEF AtMove, Books, Readings, Past
  <2> QED BY <2>1 DEF Books, Ledger, Later
<1>2. pc = "scripts" /\ ~Have("SCRIPTS") => "SCRIPTS" \notin Journaled
  BY DEF Books, Readings, Past
<1> QED BY <1>1, <1>2, IdleStored DEF AtMove

\* What one more script does to the count of those that ran and failed.
LEMMA Counts ==
  ASSUME NEW P, NEW x, x \notin P, P \subseteq ran, mem.errs = failing \cap P, Ran(x)
  PROVE  P \cup {x} \subseteq ran' /\ mem'.errs = failing' \cap (P \cup {x})
  BY DEF Ran

LEMMA PreDue ==
  ASSUME WellPlanned, OnceEach, mem.i \in DOMAIN plan
  PROVE  /\ PreOf(Before(mem.i) \cup {mem.i}) = PreOf(Before(mem.i)) \cup PreOf({mem.i})
         /\ PreOf({mem.i}) \cap PreOf(Before(mem.i)) = {} /\ PreOf({mem.i}) \subseteq AllPre
         /\ PostOf(Before(mem.i) \cup {mem.i}) = PostOf(Before(mem.i)) \cup PostOf({mem.i})
         /\ PostOf({mem.i}) \cap (AllPre \cup PostOf(Before(mem.i))) = {} /\ PostOf({mem.i}) \subseteq AllDue
<1>1. Before(mem.i) \subseteq DOMAIN plan /\ mem.i \in DOMAIN plan \ Before(mem.i)
  <2>1. DOMAIN plan = 1..Len(plan) /\ Len(plan) \in Nat
    BY DEF WellPlanned, IsSeq
  <2> QED BY <2>1 DEF Before
<1>2. \A N, M : /\ PreOf(N \cup M) = PreOf(N) \cup PreOf(M) /\ PostOf(N \cup M) = PostOf(N) \cup PostOf(M)
                /\ N \subseteq M => PreOf(N) \subseteq PreOf(M) /\ PostOf(N) \subseteq PostOf(M)
  BY DueDoes DEF PreOf, PostOf
<1>3. /\ PreOf({mem.i}) \cap PreOf(Before(mem.i)) = {} /\ PostOf({mem.i}) \cap PostOf(Before(mem.i)) = {}
      /\ AllPre \cap PostOf(DOMAIN plan) = {}
  BY <1>1, DueApart DEF AllPre
<1>4. PreOf({mem.i}) \subseteq AllPre /\ PostOf({mem.i}) \subseteq PostOf(DOMAIN plan)
  BY <1>1, <1>2 DEF AllPre
<1> QED BY <1>2, <1>3, <1>4 DEF AllDue

\* What is known of the step that runs a script.
LEMMA RunsOne ==
  ASSUME Phase, Books, WellPlanned, OnceEach, mem.i \in Nat \ {0}, Opened, Moves, Configs, Infos, Collected,
         Preinst \/ MoveRemove \/ PostScript
  PROVE  /\ mem.i \in DOMAIN plan /\ op = "idle" /\ UNCHANGED journal /\ plan' = plan
         /\ \/ /\ Preinst \/ MoveRemove
               /\ {"MOVED", "SCRIPTS"} \cap StoredTypes = {} /\ pc \in AtMove
               /\ \/ \E x : PreOf({mem.i}) = {x} /\ Ran(x)
                  \/ PreOf({mem.i}) = {} /\ UNCHANGED hist /\ mem'.errs = mem.errs
            \/ /\ PostScript /\ pc = "scripts" /\ ~Have("SCRIPTS") /\ mem'.i = mem.i + 1
               /\ "SCRIPTS" \notin StoredTypes
               /\ \/ \E x : PostOf({mem.i}) = {x} /\ Ran(x)
                  \/ PostOf({mem.i}) = {} /\ UNCHANGED hist /\ mem'.errs = mem.errs
<1>1. op = "idle" /\ UNCHANGED journal /\ plan' = plan
  BY DEF Preinst, MoveRemove, PostScript, At, env
<1>2. CASE Preinst
  <2>1. pc \in AtMove /\ ~Have("MOVED")
    BY <1>2 DEF Preinst, At, AtMove, Collected
  <2>2. {"MOVED", "SCRIPTS"} \cap StoredTypes = {}
    BY <1>1, <2>1, NotYet
  <2> QED BY <1>1, <1>2, <2>1, <2>2, PreinstRuns DEF Phase
<1>3. CASE MoveRemove
  <2>1. pc \in AtMove /\ ~Have("MOVED")
    BY <1>3 DEF MoveRemove, At, AtMove, Collected
  <2>2. {"MOVED", "SCRIPTS"} \cap StoredTypes = {} /\ "SCRIPTS" \notin Journaled
    BY <1>1, <2>1, NotYet
  <2> QED BY <1>1, <1>3, <2>1, <2>2, MoveRemoveRuns
<1>4. CASE PostScript
  <2>1. pc = "scripts" /\ ~Have("SCRIPTS")
    BY <1>4 DEF PostScript, At
  <2>2. "SCRIPTS" \notin StoredTypes /\ "SCRIPTS" \notin Journaled
    BY <1>1, <2>1, NotYet
  <2>3. "MOVED" \in StoredTypes
    BY <2>1, JournaledIsStored DEF Phase, Progress
  <2> QED BY <1>1, <1>4, <2>1, <2>2, <2>3, PostScriptRuns
<1> QED BY <1>2, <1>3, <1>4

LEMMA FailingKept ==
  ASSUME Phase, Books, WellPlanned, OnceEach, mem.i \in Nat \ {0}, Opened, Moves, Configs, Infos, Collected,
         Failing, [Next]_vars
  PROVE  Failing'
<1>1. AllPre' = AllPre /\ AllDue' = AllDue
  BY PlanKept, SameDue
<1>2. pc \in {"done", "failed"} => pc' \in {"done", "failed"}
  BY Over DEF vars
<1>3. CASE UNCHANGED hist
  <2>1. failing' = failing /\ ran' = ran
    BY <1>3 DEF hist
  <2>2. pc' \notin {"done", "failed"} /\ "MOVED" \notin Journaled' =>
          pc \notin {"done", "failed"} /\ "MOVED" \notin Journaled
    BY <1>2, JournaledStays
  <2> QED BY <1>1, <2>1, <2>2 DEF Failing
<1>4. CASE ~UNCHANGED hist
  <2>1. Preinst \/ MoveRemove \/ PostScript
    BY <1>4, HistSteps
  <2>2. mem.i \in DOMAIN plan /\ UNCHANGED journal
    BY <2>1, RunsOne
  <2>3. Journaled' = Journaled
    BY <2>2 DEF journal, Journaled
  <2>4. CASE Preinst \/ MoveRemove
    <3>1. PICK x : PreOf({mem.i}) = {x} /\ Ran(x)
      BY <1>4, <2>1, <2>4, RunsOne DEF Preinst, MoveRemove, PostScript, At
    <3>2. x \in AllPre /\ x \in AllDue
      BY <2>2, <3>1, PreDue DEF AllDue
    <3>3. pc \notin {"done", "failed"}
      BY <2>4 DEF Preinst, MoveRemove, At
    <3> QED BY <1>1, <2>3, <3>1, <3>2, <3>3 DEF Failing, Ran
  <2>5. CASE PostScript
    <3>1. PICK x : PostOf({mem.i}) = {x} /\ Ran(x)
      BY <1>4, <2>1, <2>5, RunsOne DEF Preinst, MoveRemove, PostScript, At, AtMove
    <3>2. x \in AllDue
      BY <2>2, <3>1, PreDue
    <3>3. "MOVED" \in Journaled
      BY <2>5 DEF PostScript, At, Phase, Progress
    <3> QED BY <1>1, <2>3, <3>1, <3>2, <3>3 DEF Failing, Ran
  <2> QED BY <2>1, <2>4, <2>5
<1> QED BY <1>3, <1>4

LEMMA ReportsKept ==
  ASSUME Phase, Books, WellPlanned, OnceEach, mem.i \in Nat \ {0}, Opened, Moves, Configs, Infos, Collected,
         Failing, Reports, [Next]_vars
  PROVE  Reports'
<1>1. AllPre' = AllPre /\ AllDue' = AllDue
  BY PlanKept, SameDue
<1> DEFINE Right(r) == /\ r.type = "MOVED" => AllPre \subseteq ran /\ r.params.errs = failing \cap AllPre
                       /\ r.type = "SCRIPTS" => AllDue \subseteq ran /\ r.params.errs = failing
<1> SUFFICES ASSUME NEW r \in Stored' PROVE Right(r)'
  BY DEF Reports
<1>2. r \in Stored \/ r.type \in {"START", "FINISH"} \/ (Commits /\ r = rec')
  BY StoredFlow
<1>3. CASE r \in Stored
  <2>1. Right(r)
    BY <1>3 DEF Reports
  <2>2. CASE UNCHANGED hist
    BY <1>1, <2>1, <2>2 DEF hist
  <2>3. CASE ~UNCHANGED hist
    <3>1. Preinst \/ MoveRemove \/ PostScript
      BY <2>3, HistSteps
    <3>2. CASE Preinst \/ MoveRemove
      <4>1. {"MOVED", "SCRIPTS"} \cap StoredTypes = {}
        BY <3>1, <3>2, RunsOne DEF Preinst, MoveRemove, PostScript, At
      <4> QED BY <1>3, <4>1 DEF StoredTypes
    <3>3. CASE PostScript
      <4>1. "SCRIPTS" \notin StoredTypes
        BY <3>1, <3>3, RunsOne DEF Preinst, MoveRemove, PostScript, At, AtMove
      <4>2. PICK x : PostOf({mem.i}) = {x} /\ Ran(x)
        BY <2>3, <3>1, <3>3, RunsOne DEF Preinst, MoveRemove, PostScript, At, AtMove
      <4>3. mem.i \in DOMAIN plan
        BY <3>1, RunsOne
      <4>4. x \notin AllPre
        BY <4>2, <4>3, PreDue
      <4>5. r.type # "SCRIPTS"
        BY <1>3, <4>1 DEF StoredTypes
      <4> QED BY <1>1, <2>1, <4>2, <4>4, <4>5 DEF Ran
    <3> QED BY <3>1, <3>2, <3>3
  <2> QED BY <2>2, <2>3
<1>4. CASE r.type \in {"START", "FINISH"}
  BY <1>4
<1>5. CASE Commits /\ r = rec'
  <2>1. UNCHANGED hist
    BY <1>5 DEF Commits, UnpackDone, Check, ChangelogStart, MoveDone, ScriptsDone, ChangelogEnd, CleanedDone, Commit
  <2>2. CASE MoveDone
    <3>1. pc = "gone" /\ r = [type |-> "MOVED", params |-> [status |-> mem.status, errs |-> mem.errs]]
      BY <1>5, <2>2 DEF MoveDone, Commit, Write, EnterWrite, At
    <3>2. Before(mem.i) = DOMAIN plan
      BY <3>1, BeforeNext DEF Moves
    <3>3. PreOf(Moved) = AllPre
      BY <3>1, <3>2 DEF Moved, AllPre
    <3>4. AllPre \subseteq ran /\ mem.errs = failing \cap AllPre
      BY <3>1, <3>3 DEF Collected, AtMove
    <3> QED BY <1>1, <2>1, <3>1, <3>4 DEF hist
  <2>3. CASE ScriptsDone
    <3>1. /\ pc = "scripts" /\ ~Have("SCRIPTS") /\ ~More
          /\ r = [type |-> "SCRIPTS", params |-> [status |-> mem.status, errs |-> mem.errs]]
      BY <1>5, <2>3 DEF ScriptsDone, Commit, Write, EnterWrite, At
    <3>2. Before(mem.i) = DOMAIN plan
      BY <3>1, BeforeNext
    <3>3. AllDue \subseteq ran /\ mem.errs = failing
      BY <3>1, <3>2 DEF Collected, AllDue, Failing
    <3> QED BY <1>1, <2>1, <3>1, <3>3 DEF hist
  <2>4. CASE ~MoveDone /\ ~ScriptsDone
    <3>1. pc \notin {"gone", "scripts"}
      BY <1>5, <2>4 DEF Commits, UnpackDone, Check, ChangelogStart, ChangelogEnd, CleanedDone, At
    <3>2. r.type \notin {"MOVED", "SCRIPTS"}
      BY <1>5, <3>1, CommitFits DEF Recording
    <3> QED BY <3>2
  <2> QED BY <2>2, <2>3, <2>4
<1> QED BY <1>2, <1>3, <1>4, <1>5

\* The count while the files are moved.
LEMMA CollectedMoving ==
  ASSUME Phase, Books, WellPlanned, OnceEach, mem.i \in Nat \ {0}, Opened, Moves, Configs, Infos, Collected,
         SamePlan, Moving, ~MoveDone, pc' \in AtMove
  PROVE  Collected'
<1>1. Shape /\ DOMAIN mem = Variables
  BY DEF Phase, Shape
<1> DEFINE Counted == PreOf(Moved) \subseteq ran /\ mem.errs = failing \cap PreOf(Moved)
<1> HIDE DEF Counted
<1>2. PreOf({}) = {}
  BY DueDoes DEF PreOf
<1>3. [Next]_vars /\ mem'.replay = mem.replay /\ pc \in AtMove \cup {"move"}
  BY MovingWorks, <1>1 DEF Works, AtMove, Next, Step
<1>4. ~Have("MOVED")
  BY <1>3 DEF Collected, Moving, StartMove, MoveInstall, DropControl, CopyControl, MoveError, Preinst, CopyChanged,
         MergeDone, MoveRemove, MoveRest, EarlyRemove, MergeFile, RemoveGone, At
<1>5. ~Have("MOVED")'
  BY <1>3, <1>4 DEF Have
<1>6. \A i : Before(i)' = Before(i)
  BY SameDue
<1>7. Before(mem.i) \subseteq DOMAIN plan
  BY BeforeNext
<1>8. ASSUME NEW N \in SUBSET DOMAIN plan, Moved' = N,
             PreOf(N) \subseteq ran', mem'.errs = failing' \cap PreOf(N)
      PROVE  Counted'
  <2>1. PreOf(N)' = PreOf(N)
    BY SameDue
  <2>2. PreOf(Moved)' = PreOf(N)
    BY <1>8, <2>1
  <2> QED BY <1>8, <2>2 DEF Counted
<1>9. Counted \/ pc = "move"
  BY <1>3 DEF Collected, Counted
<1>10. ASSUME StartMove PROVE Counted'
  <2>1. pc = "move" /\ pc' = "moving" /\ mem'.i = mem.i /\ mem'.errs = mem.errs /\ UNCHANGED hist
    BY <1>1, <1>10 DEF StartMove, At, Goto, Variables
  <2>2. mem.i = 1 /\ mem.errs = {}
    BY <2>1 DEF Moves, Collected, BeforeMove
  <2>3. Moved' = {}
    BY <1>6, <2>1, <2>2, BeforeNext DEF Moved
  <2> QED BY <1>2, <1>8, <2>1, <2>2, <2>3
<1>11. ASSUME \/ MoveInstall \/ DropControl \/ CopyControl \/ MoveError \/ CopyChanged \/ MoveRest
              \/ \E f \in Files : EarlyRemove(f) \/ MergeFile(f) \/ RemoveGone(f)
       PROVE  Counted'
  <2>1. /\ pc \in AtMove /\ mem'.i = mem.i /\ mem'.errs = mem.errs
        /\ pc \in {"early", "merge"} <=> pc' \in {"early", "merge"}
    BY <1>1, <1>11 DEF AtMove, MoveInstall, DropControl, CopyControl, MoveError, CopyChanged, MoveRest, EarlyRemove,
           MergeFile, RemoveGone, At, Turn, Goto, Raise, Visited, Variables
  <2>2. UNCHANGED hist
    BY <1>11 DEF MoveInstall, DropControl, CopyControl, MoveError, CopyChanged, MoveRest, EarlyRemove,
           MergeFile, RemoveGone, Turn, Goto, Raise
  <2>3. Moved' = Moved
    BY <1>6, <2>1 DEF Moved
  <2>4. Moved \subseteq DOMAIN plan
    <3>1. pc \in {"early", "merge"} => mem.i \in DOMAIN plan
      BY OperPlanned DEF Moves
    <3> QED BY <1>7, <3>1 DEF Moved
  <2> QED BY <1>8, <1>9, <2>1, <2>2, <2>3, <2>4 DEF hist, AtMove, Counted
<1>12. ASSUME MergeDone PROVE Counted'
  <2>1. pc = "merge" /\ pc' = "moving" /\ mem'.i = mem.i + 1 /\ mem'.errs = mem.errs /\ UNCHANGED hist
    BY <1>1, <1>12 DEF MergeDone, At, Goto, NextOper, Variables
  <2>2. More
    BY <2>1 DEF Moves
  <2>3. Moved' = Moved /\ Moved \subseteq DOMAIN plan
    BY <1>6, <1>7, <2>1, <2>2, BeforeNext DEF Moved
  <2> QED BY <1>8, <1>9, <2>1, <2>3 DEF hist, Counted
<1>13. ASSUME Preinst \/ MoveRemove PROVE Counted'
  <2>1. /\ mem.i \in DOMAIN plan
        /\ \/ \E x : PreOf({mem.i}) = {x} /\ Ran(x)
           \/ PreOf({mem.i}) = {} /\ UNCHANGED hist /\ mem'.errs = mem.errs
    BY <1>13, RunsOne DEF Preinst, MoveRemove, PostScript, At
  <2>2. Moved = Before(mem.i) /\ Moved' = Before(mem.i) \cup {mem.i} /\ Counted
    <3>1. CASE Preinst
      BY <1>1, <1>6, <1>9, <3>1, PreinstDoes DEF Moved, Variables
    <3>2. CASE MoveRemove
      BY <1>1, <1>6, <1>9, <3>2, MoveRemoveDoes, BeforeNext DEF Moved
    <3> QED BY <1>13, <3>1, <3>2
  <2>3. PreOf(Moved \cup {mem.i}) = PreOf(Moved) \cup PreOf({mem.i}) /\ PreOf({mem.i}) \cap PreOf(Moved) = {}
    BY <2>1, <2>2, PreDue
  <2>4. CASE \E x : PreOf({mem.i}) = {x} /\ Ran(x)
    <3>1. PICK x : PreOf({mem.i}) = {x} /\ Ran(x)
      BY <2>4
    <3>2. PreOf(Moved) \cup {x} \subseteq ran' /\ mem'.errs = failing' \cap (PreOf(Moved) \cup {x})
      BY <2>2, <2>3, <3>1, Counts DEF Counted
    <3>3. Before(mem.i) \cup {mem.i} \in SUBSET DOMAIN plan
      BY <1>7, <2>1
    <3> QED BY <1>8, <2>2, <2>3, <3>1, <3>2, <3>3
  <2>5. CASE PreOf({mem.i}) = {} /\ UNCHANGED hist /\ mem'.errs = mem.errs
    BY <1>7, <1>8, <2>1, <2>2, <2>3, <2>5 DEF hist, Counted
  <2> QED BY <2>1, <2>4, <2>5
<1>14. Counted'
  BY <1>10, <1>11, <1>12, <1>13 DEF Moving
<1> QED BY <1>5, <1>14 DEF Collected, AtMove, BeforeMove, Counted

\* The count while the scripts run after the move.
LEMMA CollectedScripts ==
  ASSUME Phase, Books, WellPlanned, OnceEach, mem.i \in Nat \ {0}, Opened, Moves, Configs, Infos, Collected,
         Reports, Failing, SamePlan, [Next]_vars, pc' = "scripts", ~Have("SCRIPTS")'
  PROVE  LET now == AllPre \cup PostOf(Before(mem.i))
         IN (now \subseteq ran /\ mem.errs = failing \cap now)'
<1>1. DOMAIN mem = Variables
  BY DEF Phase, Shape
<1>2. AllPre' = AllPre /\ AllDue' = AllDue /\ \A i : Before(i)' = Before(i)
  BY SameDue
<1>3. mem'.replay = mem.replay /\ Came
  BY StageFlow DEF Perform, RecoverTransaction
<1>4. ~Have("SCRIPTS")
  BY <1>3 DEF Have
<1>5. PostOf({}) = {} /\ Before(1) = {} /\ Before(mem.i) \subseteq DOMAIN plan
  BY DueDoes, BeforeNext DEF PostOf
<1>6. ASSUME NEW N \in SUBSET DOMAIN plan, Before(mem'.i) = N,
             AllPre \cup PostOf(N) \subseteq ran', mem'.errs = failing' \cap (AllPre \cup PostOf(N))
      PROVE  LET now == AllPre \cup PostOf(Before(mem.i))
             IN (now \subseteq ran /\ mem.errs = failing \cap now)'
  <2>1. PostOf(N)' = PostOf(N)
    BY SameDue
  <2>2. PostOf(Before(mem.i))' = PostOf(N)
    BY <1>2, <1>6, <2>1
  <2> QED BY <1>2, <1>6, <2>2 DEF AllDue
<1>7. CASE PostScript
  <2>1. /\ mem.i \in DOMAIN plan /\ op' = "idle" /\ mem'.i = mem.i + 1 /\ pc = "scripts"
        /\ \/ \E x : PostOf({mem.i}) = {x} /\ Ran(x)
           \/ PostOf({mem.i}) = {} /\ UNCHANGED hist /\ mem'.errs = mem.errs
    BY <1>7, RunsOne DEF Preinst, MoveRemove, PostScript, At, AtMove, journal
  <2>2. Before(mem'.i) = Before(mem.i) \cup {mem.i}
    BY <1>7, <2>1, BeforeNext DEF PostScript
  <2> DEFINE now == AllPre \cup PostOf(Before(mem.i))
  <2>3. now \subseteq ran /\ mem.errs = failing \cap now
    BY <1>4, <2>1 DEF Collected
  <2>4. /\ AllPre \cup PostOf(Before(mem.i) \cup {mem.i}) = now \cup PostOf({mem.i})
        /\ PostOf({mem.i}) \cap now = {}
    BY <2>1, PreDue
  <2> HIDE DEF now
  <2>5. Before(mem.i) \cup {mem.i} \in SUBSET DOMAIN plan
    BY <1>5, <2>1
  <2>6. CASE \E x : PostOf({mem.i}) = {x} /\ Ran(x)
    <3>1. PICK x : PostOf({mem.i}) = {x} /\ Ran(x)
      BY <2>6
    <3>2. now \cup {x} \subseteq ran' /\ mem'.errs = failing' \cap (now \cup {x})
      BY <2>3, <2>4, <3>1, Counts
    <3> QED BY <1>6, <2>1, <2>2, <2>4, <2>5, <3>1, <3>2
  <2>7. CASE PostOf({mem.i}) = {} /\ UNCHANGED hist /\ mem'.errs = mem.errs
    BY <1>6, <2>1, <2>2, <2>3, <2>4, <2>5, <2>7 DEF hist
  <2> QED BY <2>1, <2>6, <2>7
<1>8. ASSUME UNCHANGED hist, mem'.i = 1, AllPre \subseteq ran, mem'.errs = failing \cap AllPre
      PROVE  LET now == AllPre \cup PostOf(Before(mem.i))
             IN (now \subseteq ran /\ mem.errs = failing \cap now)'
  BY <1>5, <1>6, <1>8 DEF hist
<1>9. CASE ReplayMove
  <2>1. /\ pc = "move" /\ Have("MOVED") /\ mem'.errs = ResultOf("MOVED").errs /\ mem'.i = mem.i
        /\ op' = "idle" /\ UNCHANGED hist
    BY <1>1, <1>9 DEF ReplayMove, Replay, At, Variables, journal
  <2>2. mem.i = 1
    BY <2>1 DEF Moves, BeforeMove
  <2>3. PICK r \in mem.replay : r.type = "MOVED" /\ mem'.errs = r.params.errs
    BY <2>1 DEF Have, ResultOf
  <2>4. r \in Stored
    BY <1>9, <2>1, <2>3 DEF Opened, Stored, ReplayMove, At
  <2> QED BY <1>8, <2>1, <2>2, <2>3, <2>4 DEF Reports
<1>10. CASE pc = "gone" /\ op = "write" /\ mem' = [mem EXCEPT !.i = 1]
  <2>1. mem'.i = 1 /\ mem'.errs = mem.errs
    BY <1>1, <1>10 DEF Variables
  <2>2. Before(mem.i) = DOMAIN plan
    BY <1>10, BeforeNext DEF Moves
  <2>3. PreOf(Moved) = AllPre
    BY <1>10, <2>2 DEF Moved, AllPre
  <2>4. AllPre \subseteq ran /\ mem.errs = failing \cap AllPre
    BY <1>10, <2>3 DEF Collected, AtMove
  <2>5. UNCHANGED hist
    BY <1>10, HistSteps DEF Preinst, MoveRemove, PostScript, At
  <2> QED BY <1>8, <2>1, <2>4, <2>5
<1>11. CASE UNCHANGED <<pc, mem, plan>> /\ ~PostScript
  <2>1. UNCHANGED hist /\ pc = "scripts"
    BY <1>11, HistSteps DEF Preinst, MoveRemove, At
  <2> DEFINE now == AllPre \cup PostOf(Before(mem.i))
  <2>2. now \subseteq ran /\ mem.errs = failing \cap now
    BY <1>4, <2>1 DEF Collected
  <2> QED BY <1>5, <1>6, <1>11, <2>1, <2>2 DEF hist
<1> QED BY <1>3, <1>7, <1>9, <1>10, <1>11 DEF Came

LEMMA CollectedKept ==
  ASSUME Phase, Books, WellPlanned, OnceEach, mem.i \in Nat \ {0}, Opened, Moves, Configs, Infos, Collected,
         Reports, Failing, [Next]_vars
  PROVE  Collected'
<1> DEFINE all == AllDue \subseteq ran /\ mem.errs = failing
<1>1. SamePlan /\ AllDue' = AllDue /\ DOMAIN mem = Variables
  BY PlanKept, SameDue DEF Phase, Shape
<1>2. Came
  BY StageFlow
<1>3. pc' \in BeforeMove => mem'.errs = {}
  <2>1. CASE Perform \/ RecoverTransaction
    <3>1. CASE Perform
      BY <3>1 DEF Perform, FreshMemory
    <3>2. CASE RecoverTransaction
      <4>1. mem' = [FreshMemory EXCEPT !.replay = Recorded] /\ FreshMemory.errs = {}
        BY <3>2 DEF RecoverTransaction, FreshMemory
      <4>2. "errs" \in DOMAIN FreshMemory
        BY DEF FreshMemory
      <4> QED BY <4>1, <4>2
    <3> QED BY <2>1, <3>1, <3>2
  <2>2. CASE ~Perform /\ ~RecoverTransaction /\ pc' \in BeforeMove
    <3>1. pc \in BeforeMove /\ mem.errs = {}
      BY <1>2, <2>2 DEF Came, Collected
    <3>2. mem'.errs = mem.errs
      BY <2>2, <3>1, TallySteps DEF ReplayMove, ReplayScripts, Preinst, MoveRemove, PostScript, At, BeforeMove,
             Replay, AfterStep
    <3> QED BY <3>1, <3>2
  <2> QED BY <2>1, <2>2
<1>4. pc' \in AtMove => (~Have("MOVED") /\ PreOf(Moved) \subseteq ran /\ mem.errs = failing \cap PreOf(Moved))'
  <2>1. CASE Moving /\ ~MoveDone /\ pc' \in AtMove
    <3>1. Collected'
      BY <1>1, <2>1, CollectedMoving
    <3> QED BY <2>1, <3>1 DEF Collected
  <2>2. CASE UNCHANGED <<pc, mem, fs, plan>> /\ ~(Moving /\ ~MoveDone) /\ pc' \in AtMove
    <3>1. UNCHANGED hist
      BY <2>2, HistSteps DEF Preinst, MoveRemove, PostScript, At, AtMove, Moving, MoveDone
    <3> QED BY <2>2, <3>1 DEF hist, Collected, Have, Moved, Before, PreOf, Due, DueOf
  <2> QED BY <1>2, <2>1, <2>2 DEF Came
<1>5. pc' = "scripts" /\ ~Have("SCRIPTS")' =>
        (LET now == AllPre \cup PostOf(Before(mem.i)) IN now \subseteq ran /\ mem.errs = failing \cap now)'
  BY <1>1, CollectedScripts
<1>6. ASSUME UNCHANGED hist, mem'.errs = mem.errs, all PROVE all'
  BY <1>1, <1>6 DEF hist
<1>7. pc' = "scripts" /\ op' = "write" => all'
  <2> SUFFICES ASSUME pc' = "scripts", op' = "write" PROVE all'
    OBVIOUS
  <2>1. ~PostScript /\ ~ReplayMove
    BY DEF PostScript, ReplayMove, Replay, At, journal
  <2>2. CASE pc = "gone"
    <3>1. op = "write"
      BY <1>2, <2>1, <2>2 DEF Came
    <3>2. StepRecorded
      BY <2>2, <3>1, Steps, OthersWork, DumpWorks, MovingWorks, ReplaysLeave
      DEF Phase, Works, Perform, RecoverTransaction, Crash, Die, JournalUnits, FinishJournal, JournalRemoved, Unlink,
          Commits, UnpackDone, Check, ChangelogStart, MoveDone, ScriptsDone, ChangelogEnd, CleanedDone, At, vars
    <3> QED BY <3>1, <3>2 DEF StepRecorded, WriteDone
  <2>3. CASE pc # "gone"
    <3>1. UNCHANGED <<pc, mem>> /\ (op = "write" \/ ScriptsDone)
      BY <1>2, <2>1, <2>3 DEF Came
    <3>2. UNCHANGED hist
      BY <2>1, <3>1, HistSteps DEF Preinst, MoveRemove, At
    <3>3. all
      <4>1. CASE op = "write"
        BY <3>1, <4>1 DEF Collected
      <4>2. CASE ScriptsDone
        <5>1. Before(mem.i) = DOMAIN plan /\ pc = "scripts" /\ ~Have("SCRIPTS")
          BY <4>2, BeforeNext DEF ScriptsDone, At
        <5> QED BY <5>1 DEF Collected, AllDue, Failing
      <4> QED BY <3>1, <4>1, <4>2
    <3> QED BY <1>6, <3>1, <3>2, <3>3
  <2> QED BY <2>2, <2>3
<1>8. pc' \in AfterScripts \cup {"done"} => all'
  <2> SUFFICES ASSUME pc' \in AfterScripts \cup {"done"} PROVE all'
    OBVIOUS
  <2>1. CASE ReplayScripts
    <3>1. Have("SCRIPTS") /\ mem'.errs = ResultOf("SCRIPTS").errs /\ pc \in Busy /\ op = "idle" /\ UNCHANGED hist
      BY <1>1, <2>1 DEF ReplayScripts, Replay, At, Variables
    <3>2. PICK r \in mem.replay : r.type = "SCRIPTS" /\ mem'.errs = r.params.errs
      BY <3>1 DEF Have, ResultOf
    <3>3. r \in Stored
      BY <3>1, <3>2 DEF Opened, Stored
    <3> QED BY <1>1, <3>1, <3>2, <3>3 DEF Reports, hist
  <2>2. CASE ~ReplayScripts
    <3>1. all /\ pc \in AfterScripts \cup {"done", "scripts"} /\ (pc = "scripts" => op = "write")
      BY <1>2, <2>2 DEF Came, Collected
    <3>2. UNCHANGED hist /\ mem'.errs = mem.errs
      BY <2>2, <3>1, TallySteps DEF Perform, RecoverTransaction, ReplayMove, Preinst, MoveRemove, PostScript, At
    <3> QED BY <1>6, <3>1, <3>2
  <2> QED BY <2>1, <2>2
<1> QED BY <1>3, <1>4, <1>5, <1>7, <1>8 DEF Collected

LEMMA InfosKept ==
  ASSUME Phase, Books, WellPlanned, OnceEach, mem.i \in Nat \ {0}, Opened, Moves, Infos, Collected, [Next]_vars
  PROVE  Infos'
<1> DEFINE First == \A p \in Pkgs \ ToInstall : fs.info[p] = FirstDb[p] /\ disk.info[p] = FirstDb[p]
           Placing == pc \in AtMove => \A n \in Before(mem.i) : plan[n].op = "install" => fs.info[plan[n].pkg] # "none"
           Running1 == pc \in {"preinst", "early", "merge"} => fs.info[Oper.pkg] # "none"
<1>1. SamePlan /\ ToInstall' = ToInstall /\ DOMAIN mem = Variables /\ \A i : Before(i)' = Before(i)
  BY PlanKept, SameDue DEF Phase, Shape, SamePlan
<1>2. /\ DOMAIN fs.info = Pkgs /\ DOMAIN disk.info = Pkgs
      /\ \A n \in DOMAIN plan : plan[n].pkg \in Pkgs
  BY DEF Infos, WellPlanned
<1>3. ControlCleanup => "SCRIPTS" \in Journaled'
  <2>1. ControlCleanup => pc = "cleanup" /\ pc' = "dump"
    BY DEF ControlCleanup, At, Goto
  <2>2. ControlCleanup => "SCRIPTS" \in Journaled
    BY <2>1 DEF Phase, Progress
  <2> QED BY <2>1, <2>2, JournaledStays
<1>4. DropControl \/ CopyControl =>
        pc = "control" /\ More /\ mem.i \in DOMAIN plan /\ Oper.pkg \in ToInstall /\ UNCHANGED journal
  <2>1. DropControl \/ CopyControl => pc = "control" /\ UNCHANGED journal
    BY DEF DropControl, CopyControl, At, Turn, Goto
  <2>2. pc = "control" => More /\ Oper.op = "install"
    BY DEF Moves
  <2>3. More => mem.i \in DOMAIN plan
    BY OperPlanned
  <2> QED BY <2>1, <2>2, <2>3 DEF ToInstall, Oper
<1>5. DOMAIN fs'.info = Pkgs /\ DOMAIN disk'.info = Pkgs
  <2>1. CASE ControlCleanup /\ disk' = disk
    BY <1>2, <2>1 DEF ControlCleanup, Goto, Phase, Shape, Parts
  <2> QED BY <1>2, <2>1, InfoSteps
<1>6. pc' \notin {"done", "failed"} /\ "SCRIPTS" \notin Journaled' => First'
  <2> SUFFICES ASSUME pc' \notin {"done", "failed"}, "SCRIPTS" \notin Journaled' PROVE First'
    OBVIOUS
  <2>1. pc \notin {"done", "failed"} /\ "SCRIPTS" \notin Journaled
    BY Over, JournaledStays DEF vars
  <2>2. First
    BY <2>1 DEF Infos
  <2>3. ASSUME DropControl \/ CopyControl, disk' = disk, NEW x, fs'.info = [fs.info EXCEPT ![Oper.pkg] = x]
        PROVE  \A p \in Pkgs \ ToInstall : fs'.info[p] = fs.info[p] /\ disk'.info[p] = disk.info[p]
    BY <1>2, <1>4, <2>3
  <2>4. \A p \in Pkgs \ ToInstall : fs'.info[p] \in {fs.info[p], disk.info[p]} /\ disk'.info[p] \in {fs.info[p], disk.info[p]}
    BY <1>3, <2>3, InfoSteps
  <2> QED BY <1>1, <2>2, <2>4
<1>7. "MOVED" \in StoredTypes' /\ "SCRIPTS" \notin Journaled' => Equipped(fs') /\ Equipped(disk')
  <2> SUFFICES ASSUME "MOVED" \in StoredTypes', "SCRIPTS" \notin Journaled' PROVE Equipped(fs') /\ Equipped(disk')
    OBVIOUS
  <2>1. PICK r \in Stored' : r.type = "MOVED"
    BY DEF StoredTypes
  <2>2. r \in Stored \/ (Commits /\ r = rec')
    BY <2>1, StoredFlow
  <2>3. CASE Commits /\ r = rec'
    <3>1. <<pc, "MOVED">> \in Recording /\ fs' = fs
      BY <2>1, <2>3, CommitFits
    <3>2. pc = "gone"
      BY <3>1 DEF Recording
    <3>3. MoveDone
      BY <2>3, <3>2 DEF Commits, UnpackDone, Check, ChangelogStart, ScriptsDone, ChangelogEnd, CleanedDone, At
    <3>4. disk' = fs
      BY <3>3 DEF MoveDone, Commit
    <3>5. Before(mem.i) = DOMAIN plan
      BY <3>2, BeforeNext DEF Moves
    <3>6. \A n \in DOMAIN plan : plan[n].op = "install" => fs.info[plan[n].pkg] # "none"
      BY <3>2, <3>5 DEF Infos, AtMove
    <3>7. Equipped(fs)
      BY <3>6 DEF Equipped, ToInstall
    <3> QED BY <1>1, <3>1, <3>4, <3>7 DEF Equipped
  <2>4. CASE r \in Stored
    <3>1. "MOVED" \in StoredTypes
      BY <2>1, <2>4 DEF StoredTypes
    <3>2. CASE "SCRIPTS" \in Journaled
      <4>1. Perform \/ JournalRemoved
        BY <3>2, JournaledGrows
      <4>2. CASE Perform
        <5>1. acked' = <<>> /\ rec' = Start
          BY <4>2 DEF Perform, Fresh, EnterWrite
        <5> QED BY <2>1, <5>1 DEF Stored, Start
      <4>3. CASE JournalRemoved
        <5>1. acked' = <<>> /\ file' = <<>> /\ op' = "idle"
          BY <4>3 DEF JournalRemoved, Unlink
        <5> QED BY <2>1, <5>1 DEF Stored, Pending, Writing
      <4> QED BY <4>1, <4>2, <4>3
    <3>3. CASE "SCRIPTS" \notin Journaled
      <4>1. Equipped(fs) /\ Equipped(disk)
        BY <3>1, <3>3 DEF Infos
      <4>2. ~DropControl /\ ~CopyControl
        <5>1. pc = "control" => ~Have("MOVED")
          BY DEF Collected, AtMove
        <5>2. DropControl \/ CopyControl => {"MOVED", "SCRIPTS"} \cap StoredTypes = {}
          BY <1>4, <5>1, NotYet DEF AtMove, DropControl, CopyControl, At
        <5> QED BY <3>1, <5>2
      <4>3. fs'.info \in {fs.info, disk.info} /\ disk'.info \in {fs.info, disk.info}
        BY <1>3, <4>2, InfoSteps
      <4> QED BY <1>1, <4>1, <4>3 DEF Equipped
    <3> QED BY <3>2, <3>3
  <2> QED BY <2>2, <2>3, <2>4
<1>8. Came
  BY StageFlow
<1> SUFFICES ASSUME pc' \in AtMove PROVE Placing' /\ Running1'
  BY <1>1, <1>5, <1>6, <1>7 DEF Infos, AtMove, Equipped
<1>9. CASE UNCHANGED <<pc, mem, fs, plan>>
  BY <1>9 DEF Infos, Before, Oper
<1>10. CASE Moving /\ ~MoveDone
  <2>1. plan' = plan
    BY <1>10, PlanStays, MovingWorks DEF Phase, Perform, UnpackOp, At
  <2>2. pc \in AtMove \/ mem.i = 1
    BY <1>10, MovingWorks DEF Phase, Moves, AtMove, BeforeMove
  <2>3. Before(mem.i) \subseteq DOMAIN plan /\ Before(1) = {}
    BY BeforeNext
  <2>4. \A n \in Before(mem.i) : plan[n].op = "install" => fs.info[plan[n].pkg] # "none"
    BY <2>2, <2>3 DEF Infos
  <2>5. ASSUME fs'.info = fs.info, mem'.i = mem.i,
               pc' \in {"preinst", "early", "merge"} => pc \in {"preinst", "early", "merge"}
        PROVE  Placing' /\ Running1'
    BY <1>1, <2>1, <2>4, <2>5 DEF Infos, Oper
  <2>6. CASE StartMove \/ MoveInstall \/ MoveError \/ CopyChanged \/ MoveRest
    <3>1. fs'.info = fs.info /\ mem'.i = mem.i
      BY <1>1, <2>6 DEF StartMove, MoveInstall, MoveError, CopyChanged, MoveRest, Goto, Raise, Variables, Phase, Shape, Parts
    <3>2. pc' \in {"preinst", "early", "merge"} => pc \in {"preinst", "early", "merge"}
      BY <2>6 DEF StartMove, MoveInstall, MoveError, CopyChanged, MoveRest, Goto, Raise, At
    <3> QED BY <2>5, <3>1, <3>2
  <2>7. CASE Preinst
    BY <2>5, <2>7, PreinstDoes DEF Phase, Variables
  <2>8. ASSUME NEW f, EarlyRemove(f) \/ MergeFile(f) \/ RemoveGone(f) PROVE Placing' /\ Running1'
    <3>1. mem'.i = mem.i /\ pc' = pc
      BY <1>1, <2>8 DEF EarlyRemove, MergeFile, RemoveGone, Turn, Visited, Variables
    <3>2. fs'.info = fs.info
      BY <2>8 DEF EarlyRemove, MergeFile, RemoveGone, Turn, Cleaned, Placed, WayCleared, Phase, Shape, Parts
    <3> QED BY <2>5, <3>1, <3>2
  <2>9. CASE DropControl \/ CopyControl
    <3>1. /\ mem' = mem /\ pc = "control" /\ pc' \in {"control", "preinst"}
          /\ \E x : fs'.info = [fs.info EXCEPT ![Oper.pkg] = x] /\ (CopyControl => x = "new")
          /\ CopyControl \/ pc' = "control"
      BY <2>9 DEF DropControl, CopyControl, Turn, Goto, At, Phase, Shape, Parts
    <3>2. PICK x : fs'.info = [fs.info EXCEPT ![Oper.pkg] = x] /\ (CopyControl => x = "new")
      BY <3>1
    <3>3. mem.i \in DOMAIN plan /\ mem.i \notin Before(mem.i) /\ Oper.pkg \in Pkgs
      BY <1>2, <1>4, <2>9, BeforeNext DEF Oper
    <3>4. \A n \in Before(mem.i) : plan[n].pkg # Oper.pkg
      BY <2>3, <3>3 DEF OnceEach, Oper
    <3>5. Placing'
      BY <1>1, <1>2, <2>1, <2>3, <2>4, <3>1, <3>2, <3>4
    <3>6. Running1'
      BY <1>2, <2>1, <3>1, <3>2, <3>3 DEF Oper
    <3> QED BY <3>5, <3>6
  <2>10. CASE MoveRemove \/ MergeDone
    <3>1. /\ More /\ mem'.i = mem.i + 1 /\ pc' = "moving"
          /\ Oper.op = "install" => fs.info[Oper.pkg] # "none"
      <4>1. CASE MoveRemove
        BY <4>1, MoveRemoveDoes DEF Phase
      <4>2. CASE MergeDone
        BY <1>1, <4>2 DEF MergeDone, At, Goto, NextOper, Moves, Infos, Variables
      <4> QED BY <2>10, <4>1, <4>2
    <3>2. fs'.info = fs.info
      <4>1. CASE MoveRemove
        BY <4>1 DEF MoveRemove, Phase, Shape, Parts
      <4>2. CASE MergeDone
        BY <4>2 DEF MergeDone, Merged, Goto, Phase, Shape, Parts
      <4> QED BY <2>10, <4>1, <4>2
    <3>3. Before(mem'.i) = Before(mem.i) \cup {mem.i}
      BY <3>1, BeforeNext
    <3>4. \A n \in Before(mem'.i) : plan[n].op = "install" => fs.info[plan[n].pkg] # "none"
      BY <2>4, <3>1, <3>3 DEF Oper
    <3> QED BY <1>1, <2>1, <3>1, <3>2, <3>4
  <2> QED BY <1>10, <2>6, <2>7, <2>8, <2>9, <2>10 DEF Moving
<1> QED BY <1>8, <1>9, <1>10 DEF Came

Tally == Failing /\ Collected /\ Reports /\ Infos

LEMMA TallyFirst == ASSUME Init PROVE Tally
<1>1. pc = "down" /\ acked = <<>> /\ op = "idle" /\ file = <<>> /\ disk = fs /\ ran = {} /\ failing = {}
  BY DEF Init, JInit
<1>2. fs.info = FirstDb /\ Stored = {} /\ StoredTypes = {}
  BY <1>1 DEF Init, FirstDb, Stored, StoredTypes, Pending, Writing
<1> QED BY <1>1, <1>2 DEF Tally, Failing, Collected, Reports, Infos, BeforeMove, AtMove, FirstDb

LEMMA TallyCorrect == Spec /\ OnceEach => [](OnceEach /\ Tally)
<1>1. Init => Tally
  BY TallyFirst
<1>2. /\ Phase /\ Books /\ WellPlanned /\ Kempt /\ Configured /\ OnceEach /\ Tally /\ [Next]_vars
      => OnceEach' /\ Tally'
  <2> SUFFICES ASSUME Phase, Books, WellPlanned, Kempt, Configured, OnceEach, Tally, [Next]_vars
               PROVE  OnceEach' /\ Tally'
    OBVIOUS
  <2>1. OnceEach'
    BY PlanKept, SameDue DEF Kempt
  <2> QED BY <2>1, FailingKept, CollectedKept, ReportsKept, InfosKept DEF Tally, Kempt, Configured
<1> QED BY <1>1, <1>2, PhaseCorrect, BooksCorrect, KemptCorrect, ConfiguredCorrect, PTL DEF Spec

(* When the transaction is over, every script of it was run that has to    *)
(* be, and the process knows of each that failed in its last run, and of   *)
(* no other: from its own runs, or from the journal it has read them in,   *)
(* over any crashes (errors_collected in perform_internal).                *)
THEOREM ScriptsAllReported == Spec /\ OnceEach => []ScriptsReported
<1>1. Tally /\ WellPlanned => ScriptsReported
  <2> SUFFICES ASSUME Tally, WellPlanned, pc = "done"
               PROVE  /\ \A p \in ToInstall : {<<p, "preinst">>, <<p, "postinst">>} \subseteq ran
                      /\ \A p \in (ToRemove \ ToInstall) \cap Installed :
                           {<<p, "prerm">>, <<p, "postrm">>} \subseteq ran
                      /\ mem.errs = failing
    BY DEF ScriptsReported
  <2>1. AllDue \subseteq ran /\ mem.errs = failing
    BY DEF Tally, Collected
  <2>2. \A p \in ToInstall : {<<p, "preinst">>, <<p, "postinst">>} \subseteq AllDue
    BY DEF ToInstall, AllDue, AllPre, PreOf, PostOf, Due, DueOf
  <2>3. \A p \in (ToRemove \ ToInstall) \cap Installed : {<<p, "prerm">>, <<p, "postrm">>} \subseteq AllDue
    <3> SUFFICES ASSUME NEW p \in ToRemove \ ToInstall, p \in Installed
                 PROVE  {<<p, "prerm">>, <<p, "postrm">>} \subseteq AllDue
      OBVIOUS
    <3>1. PICK n \in DOMAIN plan : plan[n].pkg = p /\ plan[n].op # "install"
      BY DEF ToRemove, ToInstall
    <3>2. <<p, "prerm">> \in DueOf(n, "preinst", "prerm") /\ <<p, "postrm">> \in DueOf(n, "postinst", "postrm")
      BY <3>1 DEF DueOf
    <3> QED BY <3>2 DEF AllDue, AllPre, PreOf, PostOf, Due
  <2> QED BY <2>1, <2>2, <2>3
<1> QED BY <1>1, TallyCorrect, KemptCorrect, PTL

-----------------------------------------------------------------------------
(* What is in the packages arrives.                                        *)

\* The failures that the code does not look at or does not survive do not happen: archive.unpack_package
\* leaves nothing out and mv succeeds (backend.lua 437, interpreter.c 537), and no error of the file
\* system ends the move.
Reliable == /\ \A p \in Pkgs : \A out \in unpack_package(NewFiles[p]) : out.whole = NewFiles[p] /\ out.torn = {}
            /\ ~MvMayFail /\ ~MoveMayError

\* Every file in root is whole, and whose it is.
Intact(F) == /\ DOMAIN F.root = Files /\ DOMAIN F.data = Pkgs /\ DOMAIN F.torn = Pkgs
             /\ \A p \in Pkgs : F.torn[p] = {}
             /\ \A f \in Files : /\ F.root[f] = "user" => f \in user
                                 /\ F.root[f] = "old" => f \notin user /\ \E p \in Installed : f \in OldFiles[p]
                                 /\ F.root[f] \in {"none", "old", "user", "new"}
Intacts == Intact(fs) /\ Intact(disk)

\* A file of a new version is there, or in the directory it was unpacked to.
There(F, f) == F.root[f] = "new" \/ (f \in Confs /\ f \in user /\ f \in F.opkg)
Ready(F, p) == \A f \in NewFiles[p] : There(F, f) \/ (<<p, "data">> \in F.sub /\ f \in F.data[p])
Boxed(F, p) == <<p, "control">> \in F.sub

SameFiles(F, G) == /\ F.root = G.root /\ F.opkg = G.opkg /\ F.sub = G.sub
                   /\ F.data = G.data /\ F.torn = G.torn

\* The steps, by what they do to the files of packages.
LEMMA FileSteps ==
  ASSUME Phase, Books, Intacts, [Next]_vars, ~MvMayFail
  PROVE  \/ SameFiles(fs', fs) /\ disk' \in {disk, fs}
         \/ Crash /\ fs' \in {fs, disk} /\ disk' = fs'
         \/ /\ Perform \/ UnpackOp \/ RemoveFile \/ RemoveDir
            /\ fs'.root = fs.root /\ fs'.opkg = fs.opkg /\ disk' = disk
         \/ \E f \in Files : (EarlyRemove(f) \/ RemoveGone(f)) /\ fs' = Cleaned(f) /\ disk' = disk
         \/ \E f \in Files : MergeFile(f) /\ f \in fs.data[Oper.pkg] /\ fs' = Placed(f) /\ disk' = disk
         \/ /\ MergeDone /\ disk' = disk
            /\ fs'.root = fs.root /\ fs'.opkg = fs.opkg /\ fs'.torn = fs.torn
            /\ fs'.sub = fs.sub \ {<<Oper.pkg, "data">>}
            /\ fs'.data = [fs.data EXCEPT ![Oper.pkg] = {}]
<1>1. Shape /\ DOMAIN fs = Parts
  BY DEF Phase, Shape
<1>2. CASE Crash
  BY <1>2 DEF Crash
<1>3. CASE \/ UNCHANGED vars \/ RecoverTransaction \/ Die \/ JournalUnits \/ StepRecorded
           \/ FinishJournal \/ JournalRemoved
  BY <1>3 DEF vars, RecoverTransaction, Die, JournalUnits, StepRecorded, FinishJournal, JournalRemoved, SameFiles
<1>4. CASE Replays \/ Commits
  <2>1. fs' = fs /\ disk' \in {disk, fs}
    BY <1>4, ReplaysLeave, CommitFits
  <2> QED BY <2>1 DEF SameFiles
<1>5. CASE Perform \/ UnpackOp
  <2>1. fs'.root = fs.root /\ fs'.opkg = fs.opkg /\ disk' = disk
    BY <1>1, <1>5 DEF Perform, UnpackOp, Parts
  <2> QED BY <1>5, <2>1
<1>6. CASE RemoveFile \/ RemoveDir
  <2>1. fs'.root = fs.root /\ fs'.opkg = fs.opkg /\ disk' = disk
    BY <1>1, <1>6 DEF RemoveFile, RemoveDir, Turn, Parts
  <2> QED BY <1>6, <2>1
<1>7. CASE StatusDump
  <2>1. SameFiles(fs', fs) /\ disk' = disk
    BY <1>1, <1>7 DEF StatusDump, Goto, Parts, SameFiles
  <2> QED BY <2>1
<1>8. CASE \/ SkipRemoval \/ UnpackError \/ CheckError \/ OpenChangelog \/ PostScript
           \/ CloseChangelog \/ ControlCleanup
  <2>1. SameFiles(fs', fs) /\ disk' = disk
    BY <1>1, <1>8 DEF SkipRemoval, UnpackError, CheckError, OpenChangelog, PostScript,
           CloseChangelog, ControlCleanup, Turn, Goto, Raise, Parts, SameFiles
  <2> QED BY <2>1
<1>9. CASE \/ StartMove \/ MoveInstall \/ DropControl \/ CopyControl \/ MoveError \/ MoveRest \/ CopyChanged
           \/ Preinst \/ MoveRemove
  <2>1. SameFiles(fs', fs) /\ disk' = disk
    BY <1>1, <1>9 DEF StartMove, MoveInstall, DropControl, CopyControl, MoveError, MoveRest, CopyChanged,
           Preinst, MoveRemove, Turn, Goto, Raise, Parts, SameFiles
  <2> QED BY <2>1
<1>10. CASE MergeDone
  BY <1>1, <1>10 DEF MergeDone, Merged, Goto, Parts
<1>11. CASE \E f \in Files : EarlyRemove(f) \/ MergeFile(f) \/ RemoveGone(f)
  <2>1. PICK f \in Files : EarlyRemove(f) \/ MergeFile(f) \/ RemoveGone(f)
    BY <1>11
  <2>2. CASE EarlyRemove(f) \/ RemoveGone(f)
    BY <2>2 DEF EarlyRemove, RemoveGone, Turn
  <2>3. CASE MergeFile(f)
    BY <2>3 DEF MergeFile, Turn, SameFiles
  <2> QED BY <2>1, <2>2, <2>3
<1> QED BY <1>2, <1>3, <1>4, <1>5, <1>6, <1>7, <1>8, <1>9, <1>10, <1>11, Steps DEF Moving, Working

\* All that the merge of one file changes.
LEMMA PlacedIs ==
  ASSUME DOMAIN fs = Parts, DOMAIN fs.root = Files, DOMAIN fs.data = Pkgs, NEW f \in Files, Oper.pkg \in Pkgs
  PROVE  LET free == f \in OldConfigs(Oper.pkg) /\ Modified(f)
         IN /\ DOMAIN Placed(f).root = Files
            /\ \A h \in Files \ {f} : Placed(f).root[h] = IF h \in InTheWay(f) THEN "none" ELSE fs.root[h]
            /\ f \notin InTheWay(f) \/ ~free =>
                 Placed(f).root[f] = IF free THEN fs.root[f]
                                     ELSE IF f \in fs.torn[Oper.pkg] THEN "torn" ELSE "new"
            /\ free /\ f \in InTheWay(f) => Placed(f).root[f] = "none"
            /\ Placed(f).opkg = IF free THEN fs.opkg \cup {f} ELSE fs.opkg
            /\ Placed(f).sub = fs.sub /\ Placed(f).torn = fs.torn
            /\ Placed(f).data = [fs.data EXCEPT ![Oper.pkg] = @ \ {f}]
<1> DEFINE F == Placed(f)
           W == WayCleared(f)
           free == f \in OldConfigs(Oper.pkg) /\ Modified(f)
<1>1. /\ DOMAIN W = Parts
      /\ W.root = [g \in Files |-> IF g \in InTheWay(f) THEN "none" ELSE fs.root[g]]
      /\ W.opkg = fs.opkg /\ W.sub = fs.sub /\ W.torn = fs.torn /\ W.data = fs.data
  BY DEF WayCleared, Parts
<1>2. /\ F.root = [W.root EXCEPT ![f] = IF free THEN @
                                        ELSE IF f \in fs.torn[Oper.pkg] THEN "torn" ELSE "new"]
      /\ F.opkg = IF free THEN W.opkg \cup {f} ELSE W.opkg
      /\ F.sub = W.sub /\ F.torn = W.torn
      /\ F.data = [W.data EXCEPT ![Oper.pkg] = @ \ {f}]
  <2> HIDE DEF W
  <2>1. F = [W EXCEPT !.data[Oper.pkg] = @ \ {f}, !.opkg = IF free THEN @ \cup {f} ELSE @,
                      !.root[f] = IF free THEN @ ELSE IF f \in fs.torn[Oper.pkg] THEN "torn" ELSE "new"]
    BY DEF Placed, W
  <2> HIDE DEF F, free
  <2> QED BY <1>1, <2>1 DEF Parts
<1> HIDE DEF F, W, free
<1>3. DOMAIN F.root = Files
  BY <1>1, <1>2
<1>4. \A h \in Files \ {f} : F.root[h] = IF h \in InTheWay(f) THEN "none" ELSE fs.root[h]
  BY <1>1, <1>2
<1>5. f \notin InTheWay(f) \/ ~free =>
        F.root[f] = IF free THEN fs.root[f] ELSE IF f \in fs.torn[Oper.pkg] THEN "torn" ELSE "new"
  BY <1>1, <1>2
<1>6. free /\ f \in InTheWay(f) => F.root[f] = "none"
  BY <1>1, <1>2
<1> QED BY <1>1, <1>2, <1>3, <1>4, <1>5, <1>6 DEF F, free

LEMMA CleanedIs ==
  ASSUME DOMAIN fs = Parts, DOMAIN fs.root = Files, NEW f \in Files
  PROVE  LET free == f \in mem.configs /\ Modified(f)
         IN /\ DOMAIN Cleaned(f).root = Files
            /\ \A h \in Files : Cleaned(f).root[h] = IF h = f /\ ~free THEN "none" ELSE fs.root[h]
            /\ Cleaned(f).opkg = fs.opkg /\ Cleaned(f).sub = fs.sub
            /\ Cleaned(f).data = fs.data /\ Cleaned(f).torn = fs.torn
<1> DEFINE F == Cleaned(f)
           free == f \in mem.configs /\ Modified(f)
<1>1. F = IF free THEN fs ELSE [fs EXCEPT !.root[f] = "none"]
  BY DEF Cleaned
<1> HIDE DEF F, free
<1>2. /\ F.root = IF free THEN fs.root ELSE [fs.root EXCEPT ![f] = "none"]
      /\ F.opkg = fs.opkg /\ F.sub = fs.sub /\ F.data = fs.data /\ F.torn = fs.torn
  BY <1>1 DEF Parts
<1>3. DOMAIN F.root = Files
  BY <1>2
<1>4. \A h \in Files : F.root[h] = IF h = f /\ ~free THEN "none" ELSE fs.root[h]
  BY <1>2
<1> QED BY <1>2, <1>3, <1>4 DEF F, free

\* The operation a stage of the move is at.
LEMMA OperInstalls ==
  ASSUME WellPlanned, mem.i \in Nat \ {0}, Moves, pc \in {"control", "preinst", "early", "merge"}
  PROVE  mem.i \in DOMAIN plan /\ Oper.op = "install" /\ Oper.pkg \in ToInstall /\ Oper.pkg \in Pkgs
<1>1. More /\ Oper.op = "install"
  BY DEF Moves
<1>2. mem.i \in DOMAIN plan
  BY <1>1, OperPlanned
<1> QED BY <1>1, <1>2 DEF Oper, ToInstall, WellPlanned

LEMMA IntactAlike ==
  ASSUME NEW F, NEW G, Intact(F), SameFiles(G, F), user' = user
  PROVE  Intact(G)'
  BY DEF Intact, SameFiles

LEMMA IntactsFirst == ASSUME Init PROVE Intacts
<1>1. /\ fs.root = [f \in Files |-> IF f \in user THEN "user"
                                    ELSE IF \E p \in Installed : f \in OldFiles[p] THEN "old" ELSE "none"]
      /\ fs.data = [p \in Pkgs |-> {}] /\ fs.torn = [p \in Pkgs |-> {}]
      /\ disk = fs
  BY DEF Init
<1> QED BY <1>1 DEF Intacts, Intact

LEMMA IntactsKept ==
  ASSUME Reliable, Phase, Books, WellPlanned, mem.i \in Nat \ {0}, Moves, Intacts, [Next]_vars
  PROVE  Intacts'
<1>1. Shape /\ DOMAIN fs = Parts /\ user' = user /\ Intact(fs) /\ Intact(disk) /\ ~MvMayFail
  BY UserStays DEF Phase, Shape, Intacts, Reliable
<1>2. CASE SameFiles(fs', fs) /\ disk' \in {disk, fs}
  BY <1>1, <1>2 DEF Intacts, Intact, SameFiles
<1>3. CASE Crash /\ fs' \in {fs, disk} /\ disk' = fs'
  BY <1>1, <1>3 DEF Intacts, Intact
<1>4. CASE Perform /\ fs'.root = fs.root /\ disk' = disk
  <2>1. fs'.data = [p \in Pkgs |-> {}] /\ fs'.torn = [p \in Pkgs |-> {}]
    BY <1>1, <1>4 DEF Perform, Parts
  <2> QED BY <1>1, <1>4, <2>1 DEF Intacts, Intact
<1>5. CASE UnpackOp /\ fs'.root = fs.root /\ disk' = disk
  <2>1. Oper.pkg \in Pkgs
    BY <1>5, OperPlanned DEF UnpackOp, WellPlanned, Oper
  <2>2. PICK out \in unpack_package(NewFiles[Oper.pkg]) :
          fs' = [fs EXCEPT !.sub = @ \cup ({Oper.pkg} \X {"data", "control"}),
                           !.data[Oper.pkg] = out.whole \cup out.torn, !.torn[Oper.pkg] = out.torn]
    BY <1>5 DEF UnpackOp
  <2>3. out.torn = {}
    BY <2>1 DEF Reliable
  <2>4. /\ fs'.data = [fs.data EXCEPT ![Oper.pkg] = out.whole \cup out.torn]
        /\ fs'.torn = [fs.torn EXCEPT ![Oper.pkg] = {}]
    BY <1>1, <2>2, <2>3 DEF Parts
  <2>5. DOMAIN fs'.data = Pkgs /\ DOMAIN fs'.torn = Pkgs /\ \A p \in Pkgs : fs'.torn[p] = {}
    BY <1>1, <2>4 DEF Intact
  <2> QED BY <1>1, <1>5, <2>5 DEF Intacts, Intact
<1>6. CASE (RemoveFile \/ RemoveDir) /\ fs'.root = fs.root /\ disk' = disk
  <2>1. fs'.torn = fs.torn /\ DOMAIN fs'.data = DOMAIN fs.data
    BY <1>1, <1>6 DEF RemoveFile, RemoveDir, Turn, Parts
  <2> QED BY <1>1, <1>6, <2>1 DEF Intacts, Intact
<1>7. ASSUME NEW f \in Files, fs' = Cleaned(f), disk' = disk PROVE Intacts'
  BY <1>1, <1>7, CleanedIs DEF Intacts, Intact
<1>8. ASSUME NEW f \in Files, MergeFile(f), fs' = Placed(f), disk' = disk PROVE Intacts'
  <2>1. pc = "merge"
    BY <1>8 DEF MergeFile, At
  <2>2. Oper.pkg \in Pkgs
    BY <2>1, OperInstalls
  <2>3. DOMAIN fs.root = Files /\ DOMAIN fs.data = Pkgs /\ fs.torn[Oper.pkg] = {}
    BY <1>1, <2>2 DEF Intact
  <2>4. /\ DOMAIN fs'.root = Files /\ fs'.torn = fs.torn /\ DOMAIN fs'.data = Pkgs
        /\ \A h \in Files : fs'.root[h] \in {fs.root[h], "none", "new"}
    BY <1>1, <1>8, <2>2, <2>3, PlacedIs
  <2> QED BY <1>1, <1>8, <2>4 DEF Intacts, Intact
<1>9. CASE MergeDone /\ fs'.root = fs.root /\ fs'.torn = fs.torn /\ fs'.data = [fs.data EXCEPT ![Oper.pkg] = {}]
           /\ disk' = disk
  BY <1>1, <1>9 DEF Intacts, Intact
<1> QED BY <1>1, <1>2, <1>3, <1>4, <1>5, <1>6, <1>7, <1>8, <1>9, FileSteps

\* The operations have the files of their packages.
Shipped(o) == o.files = IF o.op = "install" THEN NewFiles[o.pkg] ELSE {}
Delivery(F, p) == Ready(F, p) /\ ("MOVED" \in Journaled \/ Boxed(F, p))

\* What is unpacked by now, and what has been when the step is in the journal.
Unpacking == pc = "unpack" /\ ~Have("UNPACKED") =>
               \A n \in DOMAIN plan :
                 /\ plan[n].op # "install" \/ n < mem.i => Shipped(plan[n])
                 /\ plan[n].op = "install" /\ n < mem.i => Ready(fs, plan[n].pkg) /\ Boxed(fs, plan[n].pkg)
Delivered == "UNPACKED" \in StoredTypes =>
               /\ \A n \in DOMAIN plan : Shipped(plan[n])
               /\ Collides \/ \A p \in ToInstall : Delivery(fs, p) /\ Delivery(disk, p)

\* A transaction whose packages are unpacked is given up for a collision only.
GivenUp == pc = "abort" => "UNPACKED" \notin StoredTypes \/ Collides

\* What is merged, and what is out of the way, while the files are moved.
Settling(p) == /\ \A f \in NewFiles[p] : There(fs, f)
               /\ \A f \in mem.removal.early[p] : fs.root[f] # "old"
Merging == pc \in AtMove =>
             /\ ~Have("MOVED") /\ mem.configs \subseteq Confs
             /\ \A n \in DOMAIN plan : n < mem.i /\ plan[n].op = "install" => Settling(plan[n].pkg)
             /\ pc = "early" => \A f \in mem.removal.early[Oper.pkg] : f \in mem.todo \/ fs.root[f] # "old"
             /\ pc = "merge" => /\ \A f \in mem.removal.early[Oper.pkg] : fs.root[f] # "old"
                                /\ \A f \in NewFiles[Oper.pkg] : f \in mem.todo \/ There(fs, f)
             /\ pc = "gone" => \A f \in mem.removal.gone : f \in mem.todo \/ fs.root[f] # "old"

\* The move is over.
Finished(F) == /\ \A p \in ToInstall : \A f \in NewFiles[p] : There(F, f)
               /\ \A f \in Files : F.root[f] = "old" => \E p \in Installed \ ToRemove : f \in OldFiles[p]
Finishes == "MOVED" \in StoredTypes \/ pc = "done" => Finished(fs) /\ Finished(disk)

LEMMA ShippedOf ==
  ASSUME WellPlanned, \A n \in DOMAIN plan : Shipped(plan[n])
  PROVE  \A p \in ToInstall : NewOf(p) = NewFiles[p] /\ p \in Pkgs /\ NewFiles[p] \subseteq Files
<1> SUFFICES ASSUME NEW p \in ToInstall
             PROVE  NewOf(p) = NewFiles[p] /\ p \in Pkgs /\ NewFiles[p] \subseteq Files
  OBVIOUS
<1>1. PICK n \in DOMAIN plan : plan[n].op = "install" /\ plan[n].pkg = p
  BY DEF ToInstall
<1>2. plan[n].files = NewFiles[p] /\ p \in Pkgs
  BY <1>1 DEF Shipped, WellPlanned
<1>3. \A m \in DOMAIN plan : plan[m].pkg = p => plan[m].files \subseteq NewFiles[p]
  BY DEF Shipped
<1>4. NewOf(p) = NewFiles[p]
  BY <1>1, <1>2, <1>3 DEF NewOf
<1> QED BY <1>2, <1>4, SetsAssumption

\* What is known while files are moved.
LEMMA AtMoveKnown ==
  ASSUME Phase, WellPlanned, PlanSettled, Delivered, pc \in AtMove
  PROVE  /\ Apart /\ "UNPACKED" \in StoredTypes
         /\ \A n \in DOMAIN plan : Shipped(plan[n])
         /\ \A p \in ToInstall : /\ NewOf(p) = NewFiles[p] /\ p \in Pkgs /\ NewFiles[p] \subseteq Files
                                 /\ Delivery(fs, p) /\ Delivery(disk, p)
<1>1. "CHECKED" \in StoredTypes /\ "UNPACKED" \in StoredTypes
  BY JournaledIsStored DEF AtMove, Phase, Progress
<1>2. Apart
  BY <1>1 DEF PlanSettled
<1>3. ~Collides
  BY <1>2 DEF Apart
<1> QED BY <1>1, <1>2, <1>3, ShippedOf DEF Delivered

\* A file nobody owns in the end is removed, a modified configuration apart.
LEMMA CleanedTakes ==
  ASSUME DOMAIN fs = Parts, Intact(fs), NEW f \in Files, mem.configs \subseteq Confs
  PROVE  /\ Cleaned(f).root[f] # "old"
         /\ \A h \in Files : Cleaned(f).root[h] = "old" => fs.root[h] = "old"
         /\ \A h \in Files \ {f} : There(fs, h) => There(Cleaned(f), h)
<1>1. DOMAIN fs.root = Files
  BY DEF Intact
<1>2. f \in Confs /\ Modified(f) => fs.root[f] # "old"
  BY DEF Modified, Intact, InstalledConfs
<1> QED BY <1>1, <1>2, CleanedIs DEF There

\* A file of the new version comes to its place, or beside what the user has there, and takes
\* none of the others away.
LEMMA PlacedBrings ==
  ASSUME DOMAIN fs = Parts, Intact(fs), Apart, Oper.pkg \in ToInstall,
         \A p \in ToInstall : NewOf(p) = NewFiles[p] /\ p \in Pkgs /\ NewFiles[p] \subseteq Files,
         NEW f \in NewFiles[Oper.pkg]
  PROVE  /\ There(Placed(f), f)
         /\ \A h \in Files : Placed(f).root[h] = "old" => fs.root[h] = "old"
         /\ \A p \in ToInstall : \A h \in NewFiles[p] : There(fs, h) => There(Placed(f), h)
<1> DEFINE free == f \in OldConfigs(Oper.pkg) /\ Modified(f)
<1>1. /\ DOMAIN fs.root = Files /\ DOMAIN fs.data = Pkgs /\ f \in Files /\ Oper.pkg \in Pkgs
      /\ fs.torn[Oper.pkg] = {}
  BY DEF Intact
<1>2. \A p \in ToInstall : \A h \in NewFiles[p] : LastOwners(h) # {} /\ h \in Files
  BY DEF LastOwners
<1>3. \A p \in ToInstall : \A h \in NewFiles[p] : h \notin InTheWay(f)
  BY <1>1, <1>2 DEF InTheWay, Apart, Collides
<1>4. f \notin InTheWay(f)
  BY <1>3
<1>5. /\ \A h \in Files \ {f} : Placed(f).root[h] = IF h \in InTheWay(f) THEN "none" ELSE fs.root[h]
      /\ Placed(f).root[f] = IF free THEN fs.root[f] ELSE "new"
      /\ Placed(f).opkg = IF free THEN fs.opkg \cup {f} ELSE fs.opkg
  BY <1>1, <1>4, PlacedIs
<1>6. free => f \in Confs /\ (fs.root[f] = "new" \/ (fs.root[f] = "user" /\ f \in user))
  <2>1. free => f \in Confs /\ fs.root[f] # "none"
    BY DEF OldConfigs, InstalledConfs, Modified
  <2>2. free => fs.root[f] # "old"
    BY <1>1, <2>1 DEF Modified, Intact, InstalledConfs
  <2> QED BY <1>1, <2>1, <2>2 DEF Intact
<1> HIDE DEF free
<1>8. There(Placed(f), f)
  BY <1>5, <1>6 DEF There
<1>9. \A h \in Files : Placed(f).root[h] = "old" => fs.root[h] = "old"
  BY <1>5
<1>10. ASSUME NEW p \in ToInstall, NEW h \in NewFiles[p], There(fs, h) PROVE There(Placed(f), h)
  <2>1. CASE h = f
    BY <1>8, <2>1
  <2>2. CASE h # f
    <3>1. Placed(f).root[h] = fs.root[h]
      BY <1>2, <1>3, <1>5, <2>2
    <3> QED BY <1>5, <1>10, <3>1 DEF There
  <2> QED BY <2>1, <2>2
<1> QED BY <1>8, <1>9, <1>10

LEMMA UnpackFlow ==
  ASSUME Phase, Books, [Next]_vars, pc' = "unpack", ~Have("UNPACKED")'
  PROVE  \/ Perform \/ UnpackOp \/ SkipRemoval
         \/ pc = "unpack" /\ fs' = fs /\ plan' = plan /\ mem'.i = mem.i /\ mem'.replay = mem.replay
<1>1. Shape /\ "i" \in DOMAIN mem /\ "replay" \in DOMAIN mem
  BY DEF Phase, Shape, Variables
<1>2. CASE UNCHANGED vars
  BY <1>2 DEF vars
<1>3. CASE RecoverTransaction
  <2>1. mem'.replay = Recorded /\ \E r \in Recorded : r.type = "UNPACKED"
    BY <1>3 DEF RecoverTransaction, FreshMemory
  <2> QED BY <2>1 DEF Have
<1>4. CASE Crash \/ Die \/ JournalRemoved
  BY <1>4 DEF Crash, Die, JournalRemoved, Unlink, Phase, InJournal
<1>5. CASE JournalUnits \/ FinishJournal
  BY <1>5 DEF JournalUnits, FinishJournal, env
<1>6. CASE StepRecorded
  <2>1. op = "write" => pc' = AfterStep[rec.type] /\ <<pc, rec.type>> \in Recording
    BY <1>6 DEF StepRecorded, Phase, InJournal
  <2>2. op # "write"
    BY <2>1 DEF AfterStep, Recording
  <2> QED BY <1>6, <2>2 DEF StepRecorded, env
<1>7. CASE Replays
  BY <1>7 DEF Replays, ReplayUnpack, ReplayCheck, ReplayChangelogStart, ReplayMove, ReplayScripts,
         ReplayChangelogEnd, ReplayCleaned, Replay, AfterStep
<1>8. CASE Commits
  BY <1>1, <1>8 DEF Commits, UnpackDone, Check, ChangelogStart, MoveDone, ScriptsDone, ChangelogEnd, CleanedDone,
         Commit, At, env
<1>9. CASE StatusDump \/ (Moving /\ ~MoveDone)
  BY <1>1, <1>9, MovingWorks DEF StatusDump, Goto
<1>10. CASE Working
  BY <1>1, <1>10 DEF Working, UnpackError, CheckError, OpenChangelog, PostScript, CloseChangelog,
         RemoveFile, RemoveDir, ControlCleanup, Turn, Goto, Raise, At
<1> QED BY <1>2, <1>3, <1>4, <1>5, <1>6, <1>7, <1>8, <1>9, <1>10, Steps

\* One package is unpacked.
LEMMA UnpackOpDoes ==
  ASSUME Reliable, Shape, WellPlanned, mem.i \in Nat \ {0}, Intacts, UnpackOp
  PROVE  /\ mem.i \in DOMAIN plan /\ Oper.op = "install" /\ Oper.pkg \in Pkgs
         /\ pc = "unpack" /\ pc' = "unpack" /\ ~Have("UNPACKED") /\ op = "idle" /\ UNCHANGED journal
         /\ plan' = [plan EXCEPT ![mem.i].files = NewFiles[Oper.pkg]]
         /\ mem'.i = mem.i + 1 /\ mem'.replay = mem.replay
         /\ fs'.root = fs.root /\ fs'.opkg = fs.opkg
         /\ fs'.sub = fs.sub \cup ({Oper.pkg} \X {"data", "control"})
         /\ fs'.data = [fs.data EXCEPT ![Oper.pkg] = NewFiles[Oper.pkg]]
<1>1. mem.i \in DOMAIN plan /\ Oper.op = "install" /\ Oper.pkg \in Pkgs
  BY OperPlanned DEF UnpackOp, WellPlanned, Oper
<1>2. PICK out \in unpack_package(NewFiles[Oper.pkg]) :
        LET found == out.whole \cup out.torn
            examined == Confs \cap NewFiles[Oper.pkg] \subseteq found
        IN /\ fs' = [fs EXCEPT !.sub = @ \cup ({Oper.pkg} \X {"data", "control"}),
                               !.data[Oper.pkg] = found, !.torn[Oper.pkg] = out.torn]
           /\ plan' = IF examined THEN [plan EXCEPT ![mem.i].files = found] ELSE plan
           /\ mem' = IF examined THEN NextOper ELSE mem
           /\ pc' = IF examined THEN pc ELSE "abort"
  BY DEF UnpackOp
<1>3. out.whole = NewFiles[Oper.pkg] /\ out.torn = {}
  BY <1>1 DEF Reliable
<1>4. /\ fs' = [fs EXCEPT !.sub = @ \cup ({Oper.pkg} \X {"data", "control"}),
                          !.data[Oper.pkg] = NewFiles[Oper.pkg], !.torn[Oper.pkg] = {}]
      /\ plan' = [plan EXCEPT ![mem.i].files = NewFiles[Oper.pkg]]
      /\ mem' = NextOper /\ pc' = pc
  BY <1>2, <1>3
<1>5. DOMAIN mem = Variables /\ DOMAIN fs = Parts
  BY DEF Shape
<1>6. mem'.i = mem.i + 1 /\ mem'.replay = mem.replay
  BY <1>4, <1>5 DEF NextOper, Variables
<1>7. /\ fs'.root = fs.root /\ fs'.opkg = fs.opkg
      /\ fs'.sub = fs.sub \cup ({Oper.pkg} \X {"data", "control"})
      /\ fs'.data = [fs.data EXCEPT ![Oper.pkg] = NewFiles[Oper.pkg]]
  BY <1>4, <1>5 DEF Parts
<1> QED BY <1>1, <1>4, <1>6, <1>7 DEF UnpackOp, At

LEMMA UnpackingKept ==
  ASSUME Reliable, Phase, Books, WellPlanned, mem.i \in Nat \ {0}, Intacts, Unpacking, [Next]_vars
  PROVE  Unpacking'
<1> SUFFICES ASSUME pc' = "unpack", ~Have("UNPACKED")', NEW n \in DOMAIN plan'
             PROVE  /\ plan'[n].op # "install" \/ n < mem'.i => Shipped(plan'[n])
                    /\ plan'[n].op = "install" /\ n < mem'.i => Ready(fs', plan'[n].pkg) /\ Boxed(fs', plan'[n].pkg)
  BY UserStays DEF Unpacking, Shipped, Ready, Boxed, There
<1>1. Shape /\ DOMAIN plan = 1..Len(plan) /\ Len(plan) \in Nat /\ user' = user
  BY UserStays DEF Phase, WellPlanned, IsSeq
<1>2. CASE Perform
  <2>1. mem'.i = 1 /\ plan' = [m \in DOMAIN plan |-> [plan[m] EXCEPT !.files = {}]]
    BY <1>2 DEF Perform, FreshMemory
  <2>2. DOMAIN plan[n] = Fields /\ n \in Nat /\ ~(n < 1) /\ plan'[n] = [plan[n] EXCEPT !.files = {}]
    BY <1>1, <2>1 DEF WellPlanned
  <2>3. plan'[n].files = {} /\ plan'[n].op = plan[n].op
    BY <2>2 DEF Fields
  <2> QED BY <2>1, <2>2, <2>3 DEF Shipped
<1>3. CASE UnpackOp
  <2>1. /\ mem.i \in DOMAIN plan /\ Oper.op = "install" /\ Oper.pkg \in Pkgs
        /\ pc = "unpack" /\ ~Have("UNPACKED")
        /\ plan' = [plan EXCEPT ![mem.i].files = NewFiles[Oper.pkg]]
        /\ mem'.i = mem.i + 1
        /\ fs'.root = fs.root /\ fs'.opkg = fs.opkg
        /\ fs'.sub = fs.sub \cup ({Oper.pkg} \X {"data", "control"})
        /\ fs'.data = [fs.data EXCEPT ![Oper.pkg] = NewFiles[Oper.pkg]]
    BY <1>1, <1>3, UnpackOpDoes
  <2>2. DOMAIN fs.data = Pkgs /\ n \in DOMAIN plan /\ plan[n].pkg \in Pkgs
    BY <2>1 DEF Intacts, Intact, WellPlanned
  <2>3. Ready(fs', Oper.pkg) /\ Boxed(fs', Oper.pkg)
    BY <2>1, <2>2 DEF Ready, Boxed
  <2>4. ASSUME NEW p \in Pkgs, Ready(fs, p), Boxed(fs, p) PROVE Ready(fs', p) /\ Boxed(fs', p)
    <3>1. CASE p = Oper.pkg
      BY <2>3, <3>1
    <3>2. CASE p # Oper.pkg
      <4>1. fs'.data[p] = fs.data[p]
        BY <2>1, <2>2, <3>2
      <4> QED BY <2>1, <2>4, <4>1 DEF Ready, Boxed, There
    <3> QED BY <3>1, <3>2
  <2>5. CASE n = mem.i
    <3>1. plan'[n] = [plan[n] EXCEPT !.files = NewFiles[Oper.pkg]] /\ DOMAIN plan[n] = Fields
      BY <2>1, <2>5 DEF WellPlanned
    <3>2. plan'[n].files = NewFiles[Oper.pkg] /\ plan'[n].pkg = Oper.pkg /\ plan'[n].op = "install"
      BY <2>1, <2>5, <3>1 DEF Fields, Oper
    <3> QED BY <2>3, <3>2 DEF Shipped
  <2>6. CASE n # mem.i
    <3>1. plan'[n] = plan[n] /\ (n < mem'.i => n < mem.i)
      BY <1>1, <2>1, <2>2, <2>6
    <3> QED BY <2>1, <2>2, <2>4, <3>1 DEF Unpacking
  <2> QED BY <2>5, <2>6
<1>4. CASE SkipRemoval
  <2>1. pc = "unpack" /\ ~Have("UNPACKED") /\ mem'.i = mem.i + 1 /\ Oper.op = "remove" /\ plan' = plan /\ fs' = fs
    BY <1>4 DEF SkipRemoval, Turn, At, NextOper, Phase, Shape, Variables, env
  <2>2. n < mem'.i => n < mem.i \/ n = mem.i
    BY <1>1, <2>1
  <2> QED BY <1>1, <2>1, <2>2 DEF Unpacking, Oper
<1>5. CASE pc = "unpack" /\ fs' = fs /\ plan' = plan /\ mem'.i = mem.i /\ mem'.replay = mem.replay
  BY <1>5 DEF Unpacking, Have
<1> QED BY <1>2, <1>3, <1>4, <1>5, UnpackFlow

LEMMA TypeFlow ==
  ASSUME Phase, Books, [Next]_vars, NEW t \in StoredTypes', t \notin {"START", "FINISH"}
  PROVE  (t \in StoredTypes \/ (Commits /\ t = rec'.type)) /\ ~Perform /\ ~JournalRemoved
<1>1. PICK r \in Stored' : r.type = t
  BY DEF StoredTypes
<1>2. t \in StoredTypes \/ (Commits /\ t = rec'.type)
  BY <1>1, StoredFlow DEF StoredTypes
<1>3. ASSUME Perform PROVE FALSE
  <2>1. acked' = <<>> /\ rec' = Start
    BY <1>3 DEF Perform, Fresh, EnterWrite
  <2> QED BY <1>1, <2>1 DEF Stored, Start
<1>4. ASSUME JournalRemoved PROVE FALSE
  <2>1. acked' = <<>> /\ file' = <<>> /\ op' = "idle"
    BY <1>4 DEF JournalRemoved, Unlink
  <2> QED BY <1>1, <2>1 DEF Stored, Pending, Writing
<1> QED BY <1>2, <1>3, <1>4

\* The commits, by the record they write.
LEMMA CommitOf ==
  ASSUME Phase, Books, Commits
  PROVE  /\ rec'.type = "UNPACKED" => UnpackDone
         /\ rec'.type = "MOVED" => MoveDone
         /\ rec'.type = "SCRIPTS" => ScriptsDone
         /\ rec'.type = "CLEANED" => CleanedDone
         /\ plan' = plan /\ fs' = fs /\ pc' = pc /\ op = "idle"
<1>1. <<pc, rec'.type>> \in Recording /\ fs' = fs /\ pc' = pc
  BY CommitFits
<1>2. plan' = plan /\ op = "idle"
  BY DEF Commits, UnpackDone, Check, ChangelogStart, MoveDone, ScriptsDone, ChangelogEnd, CleanedDone, Commit, env, At
<1> QED BY <1>1, <1>2 DEF Recording, Commits, UnpackDone, Check, ChangelogStart, MoveDone, ScriptsDone, ChangelogEnd,
           CleanedDone, At

\* What has been unpacked is not lost on its way.
LEMMA DeliveryKept ==
  ASSUME Reliable, Phase, Books, WellPlanned, mem.i \in Nat \ {0}, Opened, PlanSettled, Moves,
         Intacts, Delivered, GivenUp, Merging, Finishes, [Next]_vars,
         "UNPACKED" \in StoredTypes, ~Collides, ~Perform, ~UnpackOp,
         "MOVED" \in Journaled => "MOVED" \in Journaled',
         NEW p \in ToInstall
  PROVE  Delivery(fs, p)' /\ Delivery(disk, p)'
<1>1. /\ Shape /\ DOMAIN fs = Parts /\ user' = user /\ Intact(fs) /\ Intact(disk) /\ ~MvMayFail
      /\ \A n \in DOMAIN plan : Shipped(plan[n])
      /\ Delivery(fs, p) /\ Delivery(disk, p)
      /\ NewOf(p) = NewFiles[p] /\ p \in Pkgs /\ NewFiles[p] \subseteq Files
  BY UserStays, ShippedOf DEF Phase, Shape, Intacts, Reliable, Delivered
<1>2. ASSUME NEW F, NEW G, Delivery(F, p), G.root = F.root, G.opkg = F.opkg, G.sub = F.sub, G.data = F.data
      PROVE  Ready(G, p) /\ ("MOVED" \in Journaled' \/ Boxed(G, p))
  BY <1>1, <1>2 DEF Delivery, Ready, Boxed, There
<1>3. SUFFICES \A F \in {fs', disk'} : Ready(F, p) /\ ("MOVED" \in Journaled' \/ Boxed(F, p))
  BY <1>1 DEF Delivery, Ready, Boxed, There
<1>4. ASSUME disk' = disk, Ready(fs', p), "MOVED" \in Journaled' \/ Boxed(fs', p)
      PROVE  \A F \in {fs', disk'} : Ready(F, p) /\ ("MOVED" \in Journaled' \/ Boxed(F, p))
  BY <1>1, <1>2, <1>4
<1>5. CASE SameFiles(fs', fs) /\ disk' \in {disk, fs}
  BY <1>1, <1>2, <1>5 DEF SameFiles
<1>6. CASE Crash /\ fs' \in {fs, disk} /\ disk' = fs'
  BY <1>1, <1>2, <1>6
<1>7. CASE (RemoveFile \/ RemoveDir) /\ fs'.root = fs.root /\ fs'.opkg = fs.opkg /\ disk' = disk
  <2>1. pc = "cleanup" \/ pc = "abort"
    BY <1>7 DEF RemoveFile, RemoveDir, At
  <2>2. pc = "cleanup"
    BY <2>1 DEF GivenUp
  <2>3. "MOVED" \in Journaled /\ "MOVED" \in StoredTypes
    BY <2>2, JournaledIsStored DEF Phase, Progress
  <2>4. \A f \in NewFiles[p] : There(fs', f)
    BY <1>7, <2>3 DEF Finishes, Finished, There
  <2> QED BY <1>4, <1>7, <2>3, <2>4 DEF Ready
<1>8. ASSUME pc \in {"early", "merge", "gone"}
      PROVE  /\ Apart /\ mem.configs \subseteq Confs
             /\ \A q \in ToInstall : NewOf(q) = NewFiles[q] /\ q \in Pkgs /\ NewFiles[q] \subseteq Files
  BY <1>8, AtMoveKnown DEF AtMove, Merging
<1>9. ASSUME NEW f \in Files, EarlyRemove(f) \/ RemoveGone(f), fs' = Cleaned(f), disk' = disk
      PROVE  Ready(fs', p) /\ ("MOVED" \in Journaled' \/ Boxed(fs', p))
  <2>1. pc \in {"early", "merge", "gone"} /\ f \in mem.todo
    BY <1>9 DEF EarlyRemove, RemoveGone, At
  <2>2. Lost(f)
    BY <1>9, <2>1, OperInstalls DEF EarlyRemove, RemoveGone, At, Moves, RemovalSound
  <2>3. f \notin NewFiles[p]
    BY <1>1, <2>2 DEF Lost, LastOwners
  <2>4. /\ \A h \in Files \ {f} : There(fs, h) => There(fs', h)
        /\ fs'.sub = fs.sub /\ fs'.data = fs.data
    BY <1>1, <1>8, <1>9, <2>1, CleanedTakes, CleanedIs DEF Intact
  <2> QED BY <1>1, <2>3, <2>4 DEF Delivery, Ready, Boxed
<1>10. ASSUME NEW f \in Files, MergeFile(f), fs' = Placed(f), disk' = disk
       PROVE  Ready(fs', p) /\ ("MOVED" \in Journaled' \/ Boxed(fs', p))
  <2>1. pc = "merge" /\ f \in Oper.files
    BY <1>10 DEF MergeFile, At, Moves
  <2>2. mem.i \in DOMAIN plan /\ Oper.op = "install" /\ Oper.pkg \in ToInstall /\ Oper.pkg \in Pkgs
    BY <2>1, OperInstalls
  <2>3. f \in NewFiles[Oper.pkg]
    BY <1>1, <2>1, <2>2 DEF Shipped, Oper
  <2>4. There(fs', f) /\ \A h \in NewFiles[p] : There(fs, h) => There(fs', h)
    BY <1>1, <1>8, <1>10, <2>1, <2>2, <2>3, PlacedBrings
  <2>5. fs'.sub = fs.sub /\ fs'.data = [fs.data EXCEPT ![Oper.pkg] = @ \ {f}] /\ DOMAIN fs.data = Pkgs
    BY <1>1, <1>10, <2>2, PlacedIs DEF Intact
  <2>6. \A h \in fs.data[p] : h \in fs'.data[p] \/ h = f
    BY <1>1, <2>5
  <2> QED BY <1>1, <2>4, <2>5, <2>6 DEF Delivery, Ready, Boxed
<1>11. CASE /\ MergeDone /\ disk' = disk
            /\ fs'.root = fs.root /\ fs'.opkg = fs.opkg
            /\ fs'.sub = fs.sub \ {<<Oper.pkg, "data">>}
            /\ fs'.data = [fs.data EXCEPT ![Oper.pkg] = {}]
  <2>1. pc = "merge" /\ mem.todo = {}
    BY <1>11 DEF MergeDone, At
  <2>2. DOMAIN fs.data = Pkgs /\ \A f : There(fs, f) => There(fs', f)
    BY <1>1, <1>11 DEF Intact, There
  <2>3. Ready(fs', p)
    <3>1. CASE p = Oper.pkg
      BY <2>1, <2>2, <3>1 DEF Merging, AtMove, Ready
    <3>2. CASE p # Oper.pkg
      <4>1. fs'.data[p] = fs.data[p] /\ (<<p, "data">> \in fs.sub => <<p, "data">> \in fs'.sub)
        BY <1>1, <1>11, <2>2, <3>2
      <4> QED BY <1>1, <2>2, <4>1 DEF Delivery, Ready
    <3> QED BY <3>1, <3>2
  <2>4. "MOVED" \in Journaled' \/ Boxed(fs', p)
    BY <1>1, <1>11 DEF Delivery, Boxed
  <2> QED BY <1>4, <1>11, <2>3, <2>4
<1> QED BY <1>1, <1>4, <1>5, <1>6, <1>7, <1>9, <1>10, <1>11, FileSteps

LEMMA SameOwners ==
  ASSUME plan' = plan
  PROVE  /\ Collides' = Collides /\ ToInstall' = ToInstall /\ ToRemove' = ToRemove
         /\ \A f : LastOwners(f)' = LastOwners(f)
         /\ \A p : NewOf(p)' = NewOf(p)
<1>1. ToInstall' = ToInstall /\ ToRemove' = ToRemove /\ \A p : NewOf(p)' = NewOf(p)
  BY DEF ToInstall, ToRemove, NewOf
<1>2. \A f : LastOwners(f)' = LastOwners(f)
  BY <1>1 DEF LastOwners, FirstOwners
<1> QED BY <1>1, <1>2 DEF Collides

LEMMA DeliveredKept ==
  ASSUME Reliable, Phase, Books, WellPlanned, mem.i \in Nat \ {0}, Opened, PlanSettled, Moves,
         Intacts, Unpacking, Delivered, GivenUp, Merging, Finishes, [Next]_vars
  PROVE  Delivered'
<1> SUFFICES ASSUME "UNPACKED" \in StoredTypes'
             PROVE  /\ \A n \in DOMAIN plan' : Shipped(plan'[n])
                    /\ ~Collides' => \A p \in ToInstall' : Delivery(fs, p)' /\ Delivery(disk, p)'
  BY DEF Delivered, Shipped
<1>1. ~Perform /\ ~JournalRemoved /\ ("UNPACKED" \in StoredTypes \/ (Commits /\ "UNPACKED" = rec'.type))
  BY TypeFlow
<1>2. CASE "UNPACKED" \in StoredTypes
  <2>1. ~UnpackOp
    BY <1>2, NothingStored DEF UnpackOp, At
  <2>2. plan' = plan
    BY <1>1, <2>1, PlanStays
  <2>3. "MOVED" \in Journaled => "MOVED" \in Journaled'
    BY <1>1, JournaledGrows
  <2> QED BY <1>1, <1>2, <2>1, <2>2, <2>3, SameOwners, DeliveryKept DEF Delivered
<1>3. CASE Commits /\ "UNPACKED" = rec'.type
  <2>1. UnpackDone /\ plan' = plan /\ fs' = fs
    BY <1>3, CommitOf
  <2>2. pc = "unpack" /\ ~Have("UNPACKED") /\ ~More /\ disk' = fs
    BY <2>1 DEF UnpackDone, Commit, At
  <2>3. \A n \in DOMAIN plan : n < mem.i
    BY <2>2 DEF More, WellPlanned, IsSeq
  <2>4. /\ \A n \in DOMAIN plan : Shipped(plan[n])
        /\ \A n \in DOMAIN plan : plan[n].op = "install" => Ready(fs, plan[n].pkg) /\ Boxed(fs, plan[n].pkg)
    BY <2>2, <2>3 DEF Unpacking
  <2>5. \A p \in ToInstall : Ready(fs, p) /\ Boxed(fs, p)
    BY <2>4 DEF ToInstall
  <2> QED BY <2>1, <2>2, <2>4, <2>5, UserStays, SameOwners DEF Delivery, Ready, Boxed, There
<1> QED BY <1>1, <1>2, <1>3

\* Who owns a file is not changed before the check.
LEMMA OwnersSeen ==
  ASSUME Phase, Books, Untouched, pc = "check", ~Have("CHECKED")
  PROVE  \A f : NewOwners(f) = LastOwners(f)
<1>1. "CHECKED" \notin Journaled /\ "MOVED" \notin Journaled
  BY DEF Books, Readings, Past, Ledger, Later
<1>2. mem.status = FirstDb /\ fs.info = FirstDb
  BY <1>1 DEF Books, StatusKnown, BeforeMove, Untouched, Pristine
<1>3. \A f : OldOwners(f) = {p \in Installed : f \in OldFiles[p]}
  BY <1>2, SetsAssumption DEF OldOwners, Listed, FirstDb
<1> QED BY <1>3 DEF NewOwners, LastOwners, FirstOwners

\* How a transaction comes to be given up.
LEMMA AbortFlow ==
  ASSUME Phase, Books, [Next]_vars, pc' = "abort"
  PROVE  pc = "abort" \/ UnpackOp \/ UnpackError \/ CheckError \/ MoveError
<1>1. Shape
  BY DEF Phase
<1>2. CASE UNCHANGED vars
  BY <1>2 DEF vars
<1>3. CASE Perform \/ RecoverTransaction \/ Crash \/ Die \/ JournalRemoved
  BY <1>3 DEF Perform, RecoverTransaction, Crash, Die, JournalRemoved, Unlink, Phase, InJournal
<1>4. CASE JournalUnits \/ FinishJournal
  BY <1>4 DEF JournalUnits, FinishJournal
<1>5. CASE StepRecorded
  BY <1>5 DEF StepRecorded, Phase, InJournal, Recording, AfterStep
<1>6. CASE Replays
  BY <1>6 DEF Replays, ReplayUnpack, ReplayCheck, ReplayChangelogStart, ReplayMove, ReplayScripts,
         ReplayChangelogEnd, ReplayCleaned, Replay, AfterStep
<1>7. CASE Commits
  BY <1>7, CommitFits
<1>8. CASE StatusDump
  BY <1>1, <1>8, DumpWorks
<1>9. CASE Working
  BY <1>9 DEF Working, SkipRemoval, OpenChangelog, PostScript, CloseChangelog, RemoveFile, RemoveDir, ControlCleanup,
         Turn, Goto, At
<1>10. CASE Moving /\ ~MoveDone /\ ~MoveError
  BY <1>10 DEF Moving, StartMove, MoveInstall, DropControl, CopyControl, Preinst, CopyChanged, MergeDone, MoveRemove,
         MoveRest, EarlyRemove, MergeFile, RemoveGone, Turn, Goto, At
<1> QED BY <1>2, <1>3, <1>4, <1>5, <1>6, <1>7, <1>8, <1>9, <1>10, Steps

LEMMA GivenUpKept ==
  ASSUME Reliable, Phase, Books, WellPlanned, mem.i \in Nat \ {0}, Opened, Untouched, PlanSettled, Moves,
         Intacts, Delivered, GivenUp, Merging, [Next]_vars
  PROVE  GivenUp'
<1> SUFFICES ASSUME pc' = "abort" PROVE "UNPACKED" \notin StoredTypes' \/ Collides'
  BY DEF GivenUp
<1>1. Shape
  BY DEF Phase
<1>2. CASE pc = "abort"
  <2>1. ~Commits /\ ~Perform /\ ~UnpackOp
    BY <1>2 DEF Commits, UnpackDone, Check, ChangelogStart, MoveDone, ScriptsDone, ChangelogEnd, CleanedDone, At,
           Perform, UnpackOp
  <2> QED BY <1>2, <2>1, TypeFlow, PlanStays, SameOwners DEF GivenUp
<1>3. CASE UnpackOp
  BY <1>1, <1>3, UnpackOpDoes
<1>4. CASE UnpackError
  <2>1. "UNPACKED" \notin StoredTypes /\ ~Commits
    BY <1>4, NothingStored DEF UnpackError, At, Raise, Goto, Commits, UnpackDone, Check, ChangelogStart, MoveDone,
           ScriptsDone, ChangelogEnd, CleanedDone
  <2> QED BY <2>1, TypeFlow
<1>5. CASE CheckError
  <2>1. Collides
    BY <1>5, OwnersSeen DEF CheckError, At, Collision, Collides
  <2>2. plan' = plan
    BY <1>5 DEF CheckError, Raise, Goto, env
  <2> QED BY <2>1, <2>2, SameOwners
<1>6. CASE MoveError
  <2>1. pc = "control" /\ <<Oper.pkg, "control">> \notin fs.sub /\ op = "idle"
    BY <1>6 DEF MoveError, Reliable, At
  <2>2. Delivery(fs, Oper.pkg)
    BY <2>1, OperInstalls, AtMoveKnown DEF AtMove
  <2>3. "MOVED" \notin Journaled
    BY <2>1, NotYet DEF Merging, AtMove
  <2> QED BY <2>1, <2>2, <2>3 DEF Delivery, Boxed
<1> QED BY <1>2, <1>3, <1>4, <1>5, <1>6, AbortFlow

\* One step of the move, by what it does to the files: none that is there goes.
LEMMA MovingBrings ==
  ASSUME Reliable, Phase, Books, WellPlanned, mem.i \in Nat \ {0}, PlanSettled, Moves,
         Intacts, Delivered, Merging, Moving, ~MoveDone, pc \in AtMove
  PROVE  /\ \A p \in ToInstall : \A f \in NewFiles[p] : There(fs, f) => There(fs', f)
         /\ \A f \in Files : fs'.root[f] = "old" => fs.root[f] = "old"
         /\ \A f \in Files : (EarlyRemove(f) \/ RemoveGone(f)) /\ fs' = Cleaned(f) => fs'.root[f] # "old"
         /\ \A f \in Files : MergeFile(f) /\ f \in NewFiles[Oper.pkg] => There(fs', f)
<1>1. /\ DOMAIN fs = Parts /\ Intact(fs) /\ ~MvMayFail
      /\ Apart /\ mem.configs \subseteq Confs
      /\ \A n \in DOMAIN plan : Shipped(plan[n])
      /\ \A q \in ToInstall : NewOf(q) = NewFiles[q] /\ q \in Pkgs /\ NewFiles[q] \subseteq Files /\ Ready(fs, q)
  BY AtMoveKnown DEF Phase, Shape, Intacts, Reliable, Merging, Delivery
<1>2. ASSUME NEW f \in Files, MergeFile(f)
      PROVE  /\ Oper.pkg \in ToInstall /\ f \in NewFiles[Oper.pkg]
             /\ fs' = IF f \in fs.data[Oper.pkg] THEN Placed(f) ELSE fs
  <2>1. pc = "merge" /\ f \in Oper.files
    BY <1>2 DEF MergeFile, At, Moves
  <2>2. mem.i \in DOMAIN plan /\ Oper.op = "install" /\ Oper.pkg \in ToInstall
    BY <2>1, OperInstalls
  <2> QED BY <1>1, <1>2, <2>1, <2>2 DEF Shipped, Oper, MergeFile, Turn
<1>3. ASSUME NEW f \in Files, EarlyRemove(f) \/ RemoveGone(f)
      PROVE  fs' = Cleaned(f) /\ Lost(f)
  BY <1>3, OperInstalls DEF EarlyRemove, RemoveGone, At, Turn, Moves, RemovalSound
<1>4. ASSUME NEW f \in Files, EarlyRemove(f) \/ RemoveGone(f), NEW p \in ToInstall, NEW g \in NewFiles[p]
      PROVE  g # f
  BY <1>1, <1>3, <1>4 DEF Lost, LastOwners
<1>5. ASSUME NEW f \in Files, MergeFile(f) PROVE There(fs', f)
  <2>1. CASE f \in fs.data[Oper.pkg]
    BY <1>1, <1>2, <1>5, <2>1, PlacedBrings
  <2>2. CASE f \notin fs.data[Oper.pkg]
    BY <1>1, <1>2, <1>5, <2>2 DEF Ready
  <2> QED BY <2>1, <2>2
<1>6. CASE \E f \in Files : EarlyRemove(f) \/ RemoveGone(f)
  <2>1. PICK f \in Files : EarlyRemove(f) \/ RemoveGone(f)
    BY <1>6
  <2>2. /\ fs'.root[f] # "old"
        /\ \A h \in Files : fs'.root[h] = "old" => fs.root[h] = "old"
        /\ \A h \in Files \ {f} : There(fs, h) => There(fs', h)
    BY <1>1, <1>3, <2>1, CleanedTakes
  <2>3. \A p \in ToInstall : \A h \in NewFiles[p] : There(fs, h) => There(fs', h)
    BY <1>1, <1>4, <2>1, <2>2
  <2>4. \A h \in Files : (EarlyRemove(h) \/ RemoveGone(h)) /\ fs' = Cleaned(h) => fs'.root[h] # "old"
    BY <1>1, CleanedTakes
  <2> QED BY <1>5, <2>2, <2>3, <2>4
<1>7. CASE \E f \in Files : MergeFile(f)
  <2>1. PICK f \in Files : MergeFile(f)
    BY <1>7
  <2>2. /\ \A h \in Files : fs'.root[h] = "old" => fs.root[h] = "old"
        /\ \A p \in ToInstall : \A h \in NewFiles[p] : There(fs, h) => There(fs', h)
    BY <1>1, <1>2, <2>1, PlacedBrings
  <2>3. \A h \in Files : (EarlyRemove(h) \/ RemoveGone(h)) /\ fs' = Cleaned(h) => fs'.root[h] # "old"
    BY <1>1, CleanedTakes
  <2> QED BY <1>5, <2>2, <2>3
<1>8. CASE ~(\E f \in Files : EarlyRemove(f) \/ RemoveGone(f) \/ MergeFile(f))
  <2>1. fs'.root = fs.root /\ fs'.opkg = fs.opkg
    BY <1>1, <1>8, PreinstDoes, MoveRemoveDoes DEF Moving, StartMove, MoveInstall, DropControl, CopyControl, MoveError,
           MoveRest, CopyChanged, MergeDone, Merged, MoveRemove, Turn, Goto, Raise, Parts, Phase
  <2> QED BY <1>8, <2>1 DEF There
<1> QED BY <1>6, <1>7, <1>8

\* What no step of the move changes.
LEMMA MovingLeaves ==
  ASSUME Shape, Moving, ~MoveDone, ~StartMove
  PROVE  /\ pc \in AtMove /\ mem'.removal = mem.removal /\ mem'.replay = mem.replay
         /\ mem.configs \subseteq Confs => mem'.configs \subseteq Confs
<1> USE DEF Shape, Variables, At, AtMove
<1>1. CASE MoveInstall \/ DropControl \/ CopyControl \/ MoveError \/ MoveRest
  BY <1>1 DEF MoveInstall, DropControl, CopyControl, MoveError, MoveRest, Turn, Goto, Raise
<1>2. CASE Preinst
  BY <1>2, PreinstDoes
<1>3. CASE CopyChanged \/ MergeDone
  BY <1>3 DEF CopyChanged, MergeDone, Goto, NextOper
<1>4. CASE MoveRemove
  BY <1>4, MoveRemoveDoes
<1>5. CASE \E f \in Files : EarlyRemove(f) \/ MergeFile(f) \/ RemoveGone(f)
  BY <1>5 DEF EarlyRemove, MergeFile, RemoveGone, Turn, Visited
<1> QED BY <1>1, <1>2, <1>3, <1>4, <1>5 DEF Moving

LEMMA MergingKept ==
  ASSUME Reliable, Phase, Books, WellPlanned, mem.i \in Nat \ {0}, Opened, PlanSettled, Moves,
         Intacts, Delivered, Merging, [Next]_vars
  PROVE  Merging'
<1>1. Shape /\ DOMAIN mem = Variables /\ user' = user
  BY UserStays DEF Phase, Shape
<1>2. CASE UNCHANGED <<pc, mem, fs, plan>>
  BY <1>1, <1>2 DEF Merging, Settling, There, Oper, Have, AtMove
<1>3. CASE StartMove
  <2>1. pc = "move" /\ pc' = "moving" /\ ~Have("MOVED") /\ mem'.replay = mem.replay
        /\ mem'.configs = UNION {OldConfigs(p) : p \in ToInstall} /\ mem'.i = 1 /\ plan' = plan
    BY <1>1, <1>3 DEF StartMove, Goto, At, Variables, Moves, BeforeMove, env
  <2>2. mem'.configs \subseteq Confs
    BY <2>1 DEF OldConfigs, InstalledConfs
  <2>3. \A n \in DOMAIN plan : ~(n < 1)
    BY DEF WellPlanned, IsSeq
  <2> QED BY <2>1, <2>2, <2>3 DEF Merging, Have
<1>4. CASE Moving /\ ~MoveDone /\ ~StartMove
  <2>1. /\ pc \in AtMove /\ mem'.removal = mem.removal /\ mem'.replay = mem.replay /\ mem'.configs \subseteq Confs
        /\ ~Have("MOVED")
    BY <1>1, <1>4, MovingLeaves DEF Merging
  <2>2. plan' = plan
    BY <1>4, PlanStays DEF Moving, Perform, UnpackOp, StartMove, MoveInstall, DropControl, CopyControl, MoveError,
         Preinst, CopyChanged, MergeDone, MoveRemove, MoveRest, EarlyRemove, MergeFile, RemoveGone, At
  <2>3. /\ \A p \in ToInstall : \A f \in NewFiles[p] : There(fs, f) => There(fs', f)
        /\ \A f \in Files : fs'.root[f] = "old" => fs.root[f] = "old"
        /\ \A f \in Files : (EarlyRemove(f) \/ RemoveGone(f)) /\ fs' = Cleaned(f) => fs'.root[f] # "old"
        /\ \A f \in Files : MergeFile(f) /\ f \in NewFiles[Oper.pkg] => There(fs', f)
    BY <1>4, <2>1, MovingBrings
  <2>4. /\ \A p \in ToInstall : mem.removal.early[p] \subseteq Files
        /\ mem.removal.gone \subseteq Files
    BY <2>1 DEF Moves, RemovalSound, AtMove, Lost
  <2>5. /\ \A n \in DOMAIN plan : Shipped(plan[n]) /\ n \in Nat
        /\ \A p \in ToInstall : Ready(fs, p) /\ NewFiles[p] \subseteq Files
    BY <2>1, AtMoveKnown DEF Delivery, WellPlanned, IsSeq
  <2>6. \A n \in DOMAIN plan : plan[n].op = "install" => plan[n].pkg \in ToInstall
    BY DEF ToInstall
  <2>7. pc \in {"control", "preinst", "early", "merge"} =>
          /\ mem.i \in DOMAIN plan /\ Oper.op = "install" /\ Oper.pkg \in ToInstall
          /\ Oper.files = NewFiles[Oper.pkg] /\ NewFiles[Oper.pkg] \subseteq Files
    BY <2>5, OperInstalls DEF Shipped, Oper
  <2> DEFINE Settles(p) == /\ \A f \in NewFiles[p] : There(fs', f)
                           /\ \A f \in mem.removal.early[p] : fs'.root[f] # "old"
  <2>8. \A p \in ToInstall : Settling(p) => Settles(p)
    BY <2>3, <2>4 DEF Settling
  <2>9. \A n \in DOMAIN plan : n < mem.i /\ plan[n].op = "install" => Settles(plan[n].pkg)
    BY <2>1, <2>6, <2>8 DEF Merging
  <2>10. ASSUME \A n \in DOMAIN plan : n < mem'.i /\ plan[n].op = "install" => Settles(plan[n].pkg),
                pc' = "early" => \A f \in mem.removal.early[plan[mem'.i].pkg] : f \in mem'.todo \/ fs'.root[f] # "old",
                pc' = "merge" =>
                  /\ \A f \in mem.removal.early[plan[mem'.i].pkg] : fs'.root[f] # "old"
                  /\ \A f \in NewFiles[plan[mem'.i].pkg] : f \in mem'.todo \/ There(fs', f),
                pc' = "gone" => \A f \in mem.removal.gone : f \in mem'.todo \/ fs'.root[f] # "old"
         PROVE  Merging'
    BY <1>1, <2>1, <2>2, <2>10 DEF Merging, Settling, There, Oper, Have
  <2> HIDE DEF Settles
  <2>11. CASE MoveInstall \/ DropControl \/ CopyControl \/ MoveError
    <3>1. pc' \in {"control", "preinst", "abort"} /\ mem'.i = mem.i
      BY <2>11 DEF MoveInstall, DropControl, CopyControl, MoveError, Turn, Goto, Raise, At
    <3> QED BY <2>9, <2>10, <3>1
  <2>12. CASE Preinst
    <3>1. pc' = "early" /\ mem'.i = mem.i /\ mem'.todo = mem.removal.early[Oper.pkg]
      BY <1>1, <2>12, PreinstDoes DEF Variables
    <3> QED BY <2>9, <2>10, <3>1 DEF Oper
  <2>13. CASE CopyChanged
    <3>1. /\ pc = "early" /\ pc' = "merge" /\ mem'.i = mem.i /\ mem.todo = {}
          /\ mem'.todo = IF <<Oper.pkg, "data">> \in fs.sub THEN Oper.files ELSE {}
      BY <1>1, <2>13 DEF CopyChanged, Goto, At, Variables
    <3>2. \A f \in mem.removal.early[Oper.pkg] : fs'.root[f] # "old"
      BY <2>1, <2>3, <2>4, <2>7, <3>1 DEF Merging
    <3>3. \A f \in NewFiles[Oper.pkg] : f \in mem'.todo \/ There(fs', f)
      BY <2>3, <2>5, <2>7, <3>1 DEF Ready
    <3> QED BY <2>9, <2>10, <3>1, <3>2, <3>3 DEF Oper
  <2>14. CASE \E f \in Files : MergeFile(f)
    <3>1. PICK f \in Files : MergeFile(f)
      BY <2>14
    <3>2. /\ pc = "merge" /\ pc' = "merge" /\ mem'.i = mem.i
          /\ f \in mem.todo /\ mem'.todo = mem.todo \ {f}
      BY <1>1, <3>1 DEF MergeFile, Turn, Visited, At, Variables
    <3>3. f \in NewFiles[Oper.pkg]
      BY <2>7, <3>2 DEF Moves
    <3>4. There(fs', f)
      BY <2>3, <3>1, <3>3
    <3>5. /\ \A h \in mem.removal.early[Oper.pkg] : fs'.root[h] # "old"
          /\ \A h \in NewFiles[Oper.pkg] : h \in mem'.todo \/ There(fs', h)
      BY <2>1, <2>3, <2>4, <2>7, <3>2, <3>4 DEF Merging
    <3> QED BY <2>9, <2>10, <3>2, <3>5 DEF Oper
  <2>15. CASE \E f \in Files : EarlyRemove(f) \/ RemoveGone(f)
    <3>1. PICK f \in Files : EarlyRemove(f) \/ RemoveGone(f)
      BY <2>15
    <3>2. /\ pc' = pc /\ mem'.i = mem.i /\ mem'.todo = mem.todo \ {f} /\ pc \in {"early", "gone"}
          /\ fs'.root[f] # "old"
      BY <1>1, <2>3, <3>1 DEF EarlyRemove, RemoveGone, Turn, Visited, At, Variables
    <3>3. pc = "early" => \A h \in mem.removal.early[Oper.pkg] : h \in mem'.todo \/ fs'.root[h] # "old"
      BY <2>1, <2>3, <2>4, <2>7, <3>2 DEF Merging
    <3>4. pc = "gone" => \A h \in mem.removal.gone : h \in mem'.todo \/ fs'.root[h] # "old"
      BY <2>1, <2>3, <2>4, <3>2 DEF Merging
    <3> QED BY <2>9, <2>10, <3>2, <3>3, <3>4 DEF Oper
  <2>16. CASE MergeDone
    <3>1. pc = "merge" /\ pc' = "moving" /\ mem'.i = mem.i + 1 /\ mem.todo = {}
      BY <1>1, <2>16 DEF MergeDone, Goto, NextOper, At, Variables
    <3>2. Settles(Oper.pkg)
      BY <2>1, <2>3, <2>4, <2>7, <3>1 DEF Merging, Settles
    <3>3. \A n \in DOMAIN plan : n < mem'.i => n < mem.i \/ n = mem.i
      BY <2>5, <3>1
    <3> QED BY <2>9, <2>10, <3>1, <3>2, <3>3 DEF Oper
  <2>17. CASE MoveRemove
    <3>1. pc' = "moving" /\ mem'.i = mem.i + 1 /\ Oper.op = "remove"
      BY <1>1, <2>17, MoveRemoveDoes
    <3>2. \A n \in DOMAIN plan : n < mem'.i => n < mem.i \/ n = mem.i
      BY <2>5, <3>1
    <3> QED BY <2>9, <2>10, <3>1, <3>2 DEF Oper
  <2>18. CASE MoveRest
    <3>1. pc' = "gone" /\ mem'.i = mem.i /\ mem'.todo = mem.removal.gone
      BY <1>1, <2>18 DEF MoveRest, Goto, Variables
    <3> QED BY <2>9, <2>10, <3>1
  <2> QED BY <1>4, <2>11, <2>12, <2>13, <2>14, <2>15, <2>16, <2>17, <2>18 DEF Moving
<1>5. pc' \in AtMove => (Moving /\ ~MoveDone) \/ UNCHANGED <<pc, mem, fs, plan>>
  BY StageFlow DEF Came
<1> QED BY <1>2, <1>3, <1>4, <1>5 DEF Merging

\* The move leaves the files of the packages installed, and of those not in the plan.
LEMMA MoveFinishes ==
  ASSUME Phase, WellPlanned, mem.i \in Nat \ {0}, PlanSettled, Moves, Intacts, Delivered, Merging, MoveDone
  PROVE  Finished(fs)
<1>1. pc = "gone" /\ mem.todo = {} /\ ~More /\ RemovalSound(mem.removal) /\ pc \in AtMove
  BY DEF MoveDone, At, Moves, AtMove
<1>2. \A n \in DOMAIN plan : n < mem.i
  BY <1>1 DEF More, WellPlanned, IsSeq
<1>3. \A p \in ToInstall : Settling(p) /\ NewOf(p) = NewFiles[p] /\ NewFiles[p] \subseteq Files
  BY <1>1, <1>2, AtMoveKnown DEF Merging, ToInstall
<1>4. \A f \in mem.removal.gone : fs.root[f] # "old"
  BY <1>1 DEF Merging
<1>5. ASSUME NEW f \in Files, fs.root[f] = "old" PROVE \E p \in Installed \ ToRemove : f \in OldFiles[p]
  <2>1. f \notin user /\ FirstOwners(f) # {}
    BY <1>5 DEF Intacts, Intact, FirstOwners
  <2>2. ~Lost(f)
    BY <1>1, <1>3, <1>4, <1>5 DEF RemovalSound, Settling
  <2>3. PICK p \in LastOwners(f) : TRUE
    BY <2>1, <2>2 DEF Lost
  <2>4. ~(p \in ToInstall /\ f \in NewOf(p))
    BY <1>3, <1>5, <2>1 DEF Settling, There
  <2> QED BY <2>3, <2>4 DEF LastOwners, FirstOwners
<1> QED BY <1>3, <1>5 DEF Finished, Settling

\* How a transaction comes to its end.
LEMMA EndFlow ==
  ASSUME Phase, Books, [Next]_vars, pc' = "done"
  PROVE  UNCHANGED vars \/ (JournalRemoved /\ pc = "finish")
<1>1. Shape /\ (Next => pc # "done")
  BY Over DEF Phase
<1>2. CASE JournalRemoved
  BY <1>2 DEF JournalRemoved, Unlink, Phase, InJournal
<1>3. CASE Perform \/ RecoverTransaction \/ Crash \/ Die
  BY <1>3 DEF Perform, RecoverTransaction, Crash, Die
<1>4. CASE JournalUnits \/ FinishJournal
  BY <1>1, <1>4 DEF JournalUnits, FinishJournal, Next, Step
<1>5. CASE StepRecorded
  BY <1>1, <1>5 DEF StepRecorded, Next, Step, Phase, InJournal, Recording, AfterStep
<1>6. CASE Replays
  BY <1>6 DEF Replays, ReplayUnpack, ReplayCheck, ReplayChangelogStart, ReplayMove, ReplayScripts,
         ReplayChangelogEnd, ReplayCleaned, Replay, AfterStep
<1>7. CASE Commits
  BY <1>7, CommitFits DEF Recording
<1>8. CASE Working \/ StatusDump \/ (Moving /\ ~MoveDone)
  BY <1>1, <1>8, OthersWork, DumpWorks, MovingWorks
<1> QED BY <1>2, <1>3, <1>4, <1>5, <1>6, <1>7, <1>8, Steps

\* Whoever has the move in the journal has the check there, and what was unpacked.
LEMMA MovedIsLast ==
  ASSUME Phase, Books, Opened, pc \in Busy, op = "idle", "MOVED" \in StoredTypes
  PROVE  {"MOVED", "CHECKED", "UNPACKED"} \subseteq Journaled
  BY IdleStored DEF Books, Ledger, Later

LEMMA FinishesKept ==
  ASSUME Reliable, Phase, Books, WellPlanned, mem.i \in Nat \ {0}, Opened, PlanSettled, Moves,
         Intacts, Delivered, Merging, Finishes, [Next]_vars
  PROVE  Finishes'
<1>1. user' = user /\ ~MvMayFail
  BY UserStays DEF Reliable
<1>2. ASSUME "MOVED" \in StoredTypes \/ pc = "done", plan' = plan,
             \/ fs'.root = fs.root /\ fs'.opkg = fs.opkg /\ disk' \in {disk, fs}
             \/ fs' \in {fs, disk} /\ disk' \in {fs, disk}
      PROVE  Finishes'
  <2>1. Finished(fs) /\ Finished(disk)
    BY <1>2 DEF Finishes
  <2>2. ToInstall' = ToInstall /\ ToRemove' = ToRemove
    BY <1>2, SameOwners
  <2>3. Finished(fs)' /\ Finished(disk)'
    BY <1>1, <1>2, <2>1, <2>2 DEF Finished, There
  <2> QED BY <2>3 DEF Finishes
<1>3. CASE pc' = "done"
  <2>1. CASE UNCHANGED vars
    BY <1>2, <1>3, <2>1 DEF vars
  <2>2. CASE JournalRemoved /\ pc = "finish"
    <3>1. "MOVED" \in StoredTypes
      BY <2>2, JournaledIsStored DEF Phase, Progress
    <3> QED BY <1>2, <2>2, <3>1 DEF JournalRemoved, env
  <2> QED BY <1>3, <2>1, <2>2, EndFlow
<1>4. CASE "MOVED" \in StoredTypes'
  <2>1. ~Perform /\ ("MOVED" \in StoredTypes \/ (Commits /\ "MOVED" = rec'.type))
    BY <1>4, TypeFlow
  <2>2. CASE Commits /\ "MOVED" = rec'.type
    <3>1. MoveDone /\ plan' = plan /\ fs' = fs
      BY <2>2, CommitOf
    <3>2. disk' = fs /\ Finished(fs)
      BY <3>1, MoveFinishes DEF MoveDone, Commit
    <3> QED BY <1>1, <3>1, <3>2, SameOwners DEF Finishes, Finished, There
  <2>3. CASE "MOVED" \in StoredTypes
    <3>1. ~UnpackOp
      BY <2>3, MovedIsLast, NothingStored, JournaledIsStored DEF UnpackOp, At
    <3>2. plan' = plan
      BY <2>1, <3>1, PlanStays
    <3>3. ~(pc \in AtMove /\ op = "idle")
      BY <2>3, NotYet DEF Merging
    <3>4. \/ fs'.root = fs.root /\ fs'.opkg = fs.opkg /\ disk' \in {disk, fs}
          \/ fs' \in {fs, disk} /\ disk' \in {fs, disk}
      BY <1>1, <3>3, FileSteps DEF EarlyRemove, RemoveGone, MergeFile, At, AtMove, SameFiles
    <3> QED BY <1>2, <2>3, <3>2, <3>4
  <2> QED BY <2>1, <2>2, <2>3
<1> QED BY <1>3, <1>4 DEF Finishes

\* What the theorems about the files of packages go by.
Arriving == Intacts /\ Unpacking /\ Delivered /\ GivenUp /\ Merging /\ Finishes

LEMMA ArrivingFirst == ASSUME Init PROVE Arriving
<1>1. pc = "down" /\ acked = <<>> /\ op = "idle" /\ file = <<>>
  BY DEF Init, JInit
<1>2. StoredTypes = {}
  BY <1>1 DEF Stored, StoredTypes, Pending, Writing
<1> QED BY <1>1, <1>2, IntactsFirst DEF Arriving, Unpacking, Delivered, GivenUp, Merging, Finishes, AtMove

LEMMA ArrivingKept ==
  ASSUME Reliable, Phase, Books, WellPlanned, Kempt, Configured, Arriving, [Next]_vars
  PROVE  Arriving'
  BY IntactsKept, UnpackingKept, DeliveredKept, GivenUpKept, MergingKept, FinishesKept
  DEF Kempt, Configured, Arriving

LEMMA ArrivingCorrect == ASSUME Reliable PROVE Spec => []Arriving
<1>1. Init => Arriving
  BY ArrivingFirst
<1>2. Phase /\ Books /\ WellPlanned /\ Kempt /\ Configured /\ Arriving /\ [Next]_vars => Arriving'
  BY ArrivingKept
<1> QED BY <1>1, <1>2, PhaseCorrect, BooksCorrect, KemptCorrect, ConfiguredCorrect, PTL DEF Spec

(* What is in the packages arrives: when the transaction has moved its     *)
(* files, and over any crashes, those of all packages to be installed are  *)
(* in place, and of the files of others only those are left that the plan  *)
(* does not touch.                                                         *)
THEOREM MoveArrives == ASSUME Reliable PROVE Spec => []Finishes
<1>1. Arriving => Finishes
  BY DEF Arriving
<1> QED BY <1>1, ArrivingCorrect, PTL

(* A post-install or post-remove script runs with the files of all the     *)
(* packages to be installed in place and all others of the plan gone, if   *)
(* nothing fails that the code does not look at (pkg_scripts after         *)
(* pkg_move, over any crashes).                                            *)
THEOREM ScriptsSettled == ASSUME Reliable PROVE Spec => PostScriptsSettled
<1>1. ASSUME Phase, Books, WellPlanned, Kempt, Configured, Arriving, [Next]_vars,
             NEW p \in Pkgs, NEW s \in {"postinst", "postrm"}, <<p, s>> \in ran' \ ran
      PROVE  Settled
  <2>1. PostScript
    <3>1. ran' # ran
      BY <1>1
    <3>2. CASE Preinst
      <4>1. ran' \subseteq ran \cup {<<Oper.pkg, "preinst">>}
        BY <3>2 DEF Preinst, RunScript, hist
      <4> QED BY <1>1, <4>1
    <3>3. CASE MoveRemove
      <4>1. ran' \subseteq ran \cup {<<Oper.pkg, "prerm">>}
        BY <3>3 DEF MoveRemove, RunScript, hist
      <4> QED BY <1>1, <4>1
    <3> QED BY <1>1, <3>1, <3>2, <3>3, HistSteps DEF hist
  <2>2. pc = "scripts" /\ ~Have("SCRIPTS")
    BY <2>1 DEF PostScript, At
  <2>3. "MOVED" \in StoredTypes
    BY <1>1, <2>2, JournaledIsStored DEF Phase, Progress
  <2>4. Finished(fs)
    BY <1>1, <2>3 DEF Arriving, Finishes
  <2>5. fs.db = FirstDb
    BY <1>1, <2>2, NotYet DEF Configured, Books, StatusKnown
  <2>6. \A q \in ToInstall : InPlace(q)
    BY <2>4 DEF Finished, InPlace, There
  <2>7. ASSUME NEW f \in Files, fs.root[f] = "old"
        PROVE  \E q \in Pkgs : fs.db[q] = "old" /\ q \notin ToRemove /\ f \in OldFiles[q]
    <3>1. PICK q \in Installed \ ToRemove : f \in OldFiles[q]
      BY <2>4, <2>7 DEF Finished
    <3>2. q \in Pkgs /\ FirstDb[q] = "old"
      BY SetsAssumption DEF FirstDb
    <3> QED BY <2>5, <3>1, <3>2
  <2> QED BY <2>6, <2>7 DEF Settled
<1>2. Phase /\ Books /\ WellPlanned /\ Kempt /\ Configured /\ Arriving /\ [Next]_vars
      => [\A p \in Pkgs, s \in {"postinst", "postrm"} : <<p, s>> \in ran' \ ran => Settled]_vars
  BY <1>1
<1> QED BY <1>2, ArrivingCorrect, PhaseCorrect, BooksCorrect, KemptCorrect, ConfiguredCorrect, PTL
        DEF Spec, PostScriptsSettled

-----------------------------------------------------------------------------
(* A plan that is refused leaves the system as it was.                     *)

\* What unpacking and the removal of unpacked directories leave alone.
SameSystem(F, G) == /\ F.root = G.root /\ F.opkg = G.opkg /\ F.backup = G.backup /\ F.info = G.info
                    /\ F.links = G.links /\ F.db = G.db /\ F.hashes = G.hashes

\* The directories a process knows, before it removes its journal after an error and when it is over.
Swept == /\ mem.dirs \in {{}, ToInstall}
         /\ pc = "abort" /\ op \in {"finish", "unlink"} => LeftDirs = {}
         /\ pc = "failed" => LeftDirs = {} /\ ~exists

Refused == Colliding => AsBefore(fs) /\ AsBefore(disk) /\ pc # "done"

LEMMA UncheckedSteps ==
  ASSUME Phase, Books, [Next]_vars, pc \notin AfterChecked
  PROVE  \/ SameSystem(fs', fs) /\ disk' \in {disk, fs}
         \/ Crash /\ fs' \in {fs, disk} /\ disk' = fs'
<1>1. Shape /\ DOMAIN fs = Parts
  BY DEF Phase, Shape
<1>2. CASE Crash
  BY <1>2 DEF Crash
<1>3. CASE \/ UNCHANGED vars \/ RecoverTransaction \/ Die \/ JournalUnits \/ StepRecorded
           \/ FinishJournal \/ JournalRemoved
  BY <1>3 DEF vars, RecoverTransaction, Die, JournalUnits, StepRecorded, FinishJournal, JournalRemoved, SameSystem
<1>4. CASE Replays \/ Commits
  <2>1. fs' = fs /\ disk' \in {disk, fs}
    BY <1>4, ReplaysLeave, CommitFits
  <2> QED BY <2>1 DEF SameSystem
<1>5. CASE Perform
  BY <1>1, <1>5 DEF Perform, Parts, SameSystem
<1>6. CASE Working
  <2>1. ~ControlCleanup
    BY DEF ControlCleanup, At
  <2>2. CASE SkipRemoval \/ UnpackError \/ CheckError \/ OpenChangelog \/ PostScript \/ CloseChangelog
    BY <2>2 DEF SkipRemoval, UnpackError, CheckError, OpenChangelog, PostScript, CloseChangelog, Turn, Goto, Raise,
           SameSystem
  <2>3. CASE UnpackOp
    BY <1>1, <2>3 DEF UnpackOp, Parts, SameSystem
  <2>4. CASE RemoveFile \/ RemoveDir
    BY <1>1, <2>4 DEF RemoveFile, RemoveDir, Turn, Parts, SameSystem
  <2> QED BY <1>1, <1>6, <2>1, <2>2, <2>3, <2>4, OthersWork DEF Working
<1>7. ~StatusDump /\ ~(Moving /\ ~MoveDone)
  BY <1>1, DumpWorks, MovingWorks
<1> QED BY <1>2, <1>3, <1>4, <1>5, <1>6, <1>7, Steps

\* The operations with the files of their packages collide if they do by what is in the packages.
LEMMA CollidingSeen ==
  ASSUME WellPlanned, \A n \in DOMAIN plan : Shipped(plan[n]), Colliding
  PROVE  Collides
<1>1. \A f : LastOwners(f) = OwnersAfter(f)
  BY ShippedOf DEF LastOwners, FirstOwners, OwnersAfter
<1> QED BY <1>1 DEF Colliding, Collides

LEMMA NeverChecked ==
  ASSUME Phase, Books, WellPlanned, PlanSettled, Delivered, Colliding
  PROVE  "CHECKED" \notin StoredTypes /\ pc \notin AfterChecked
<1>1. SUFFICES ASSUME "CHECKED" \in StoredTypes PROVE FALSE
  BY JournaledIsStored DEF Phase, Progress
<1>2. "UNPACKED" \in StoredTypes
  <2>1. PICK r \in Stored : r.type = "CHECKED"
    BY <1>1 DEF StoredTypes
  <2>2. DOMAIN acked = 1..Len(acked)
    BY DEF Phase, Shape, IsSeq
  <2>3. "CHECKED" \in Journaled \/ (Pending /\ rec.type = "CHECKED")
    BY <2>1, <2>2 DEF Stored, Journaled
  <2> QED BY <2>3, JournaledIsStored DEF Books, Ledger, Later
<1>3. ~Collides
  BY <1>1 DEF PlanSettled, Apart
<1> QED BY <1>2, <1>3, CollidingSeen DEF Delivered

LEMMA SameColliding == ASSUME SamePlan PROVE Colliding' = Colliding
<1>1. ToInstall' = ToInstall /\ ToRemove' = ToRemove
  BY DEF SamePlan
<1>2. \A f : OwnersAfter(f)' = OwnersAfter(f)
  BY <1>1 DEF OwnersAfter
<1> QED BY <1>2 DEF Colliding

LEMMA RefusedFirst == ASSUME Init PROVE Refused /\ Swept
<1> DEFINE first == [p \in Pkgs |-> IF p \in Installed THEN "old" ELSE "none"]
           offered == [p \in Pkgs |-> IF p \in Installed THEN OldAlternatives[p] ELSE {}]
<1>1. pc = "down" /\ disk = fs /\ mem.dirs = {} /\ fs.db = first /\ fs.info = first
  BY DEF Init, FreshMemory
<1>2. Offered(fs.db, fs.info) = offered
  BY <1>1 DEF Offered
<1>3. \A l \in LinkPaths : fs.links[l] \in choose_alternative(offered, l, {})
  BY DEF Init
<1>4. \A f \in Files : fs.root[f] = IF f \in user THEN "user"
                                    ELSE IF \E p \in Installed : f \in OldFiles[p] THEN "old" ELSE "none"
  BY DEF Init
<1>5. fs.opkg = {} /\ fs.backup = {} /\ fs.hashes = InstalledConfs
  BY DEF Init
<1>6. \A p \in Pkgs : {fs.info[p], fs.db[p]} = {IF p \in Installed THEN "old" ELSE "none"}
  BY <1>1
<1>7. AsBefore(fs)
  BY <1>2, <1>3, <1>4, <1>5, <1>6 DEF AsBefore
<1> QED BY <1>1, <1>7 DEF Refused, Swept

LEMMA RefusedKept ==
  ASSUME Phase, Books, WellPlanned, mem.i \in Nat \ {0}, PlanSettled, Delivered, Refused, [Next]_vars
  PROVE  Refused'
<1> SUFFICES ASSUME Colliding' PROVE AsBefore(fs)' /\ AsBefore(disk)' /\ pc' # "done"
  BY DEF Refused
<1>1. Colliding
  BY PlanKept, SameColliding
<1>2. AsBefore(fs) /\ AsBefore(disk) /\ pc # "done" /\ pc \notin AfterChecked
  BY <1>1, NeverChecked DEF Refused
<1>3. user' = user
  BY UserStays
<1>4. ASSUME NEW F, NEW G, AsBefore(G), F = G \/ SameSystem(F, G) PROVE AsBefore(F)
  BY <1>4 DEF AsBefore, SameSystem
<1>5. AsBefore(fs') /\ AsBefore(disk')
  BY <1>2, <1>4, UncheckedSteps
<1>6. AsBefore(fs)' /\ AsBefore(disk)'
  BY <1>3, <1>5 DEF AsBefore, InstalledConfs
<1>7. pc' # "done"
  BY <1>2, EndFlow DEF vars
<1> QED BY <1>6, <1>7

\* How a transaction comes to be given up for good.
LEMMA FailFlow == ASSUME Phase, Books, Next, pc # "failed", pc' = "failed" PROVE JournalRemoved
<1>1. Shape
  BY DEF Phase
<1>2. CASE Perform \/ RecoverTransaction \/ Crash \/ Die
  BY <1>2 DEF Perform, RecoverTransaction, Crash, Die
<1>3. CASE JournalUnits \/ FinishJournal
  BY <1>3 DEF JournalUnits, FinishJournal
<1>4. CASE StepRecorded
  BY <1>4 DEF StepRecorded, Phase, InJournal, Recording, AfterStep
<1>5. CASE Replays
  BY <1>5 DEF Replays, ReplayUnpack, ReplayCheck, ReplayChangelogStart, ReplayMove, ReplayScripts,
         ReplayChangelogEnd, ReplayCleaned, Replay, AfterStep
<1>6. CASE Commits
  BY <1>6, CommitFits DEF Recording
<1>7. CASE Working \/ StatusDump \/ (Moving /\ ~MoveDone)
  BY <1>1, <1>7, OthersWork, DumpWorks, MovingWorks
<1> QED BY <1>2, <1>3, <1>4, <1>5, <1>6, <1>7, Steps

LEMMA OthersRemember == ASSUME Shape, Commits, ~UnpackDone PROVE mem'.dirs = mem.dirs
  BY DEF Commits, Check, ChangelogStart, MoveDone, ScriptsDone, ChangelogEnd, CleanedDone, Shape, Variables

LEMMA SweptKept == ASSUME Phase, Books, WellPlanned, Kempt, Swept, [Next]_vars PROVE Swept'
<1>1. ToInstall' = ToInstall
  BY PlanKept DEF Kempt, SamePlan
<1>2. Shape
  BY DEF Phase
<1>3. mem'.dirs \in {{}, ToInstall}
  <2>1. CASE UNCHANGED mem
    BY <2>1 DEF Swept
  <2>2. CASE Perform \/ RecoverTransaction
    <3>1. FreshMemory.dirs = {} /\ DOMAIN FreshMemory = Variables
      BY DEF FreshMemory, Variables
    <3>2. mem' = FreshMemory \/ \E R : mem' = [FreshMemory EXCEPT !.replay = R]
      BY <2>2 DEF Perform, RecoverTransaction
    <3> QED BY <3>1, <3>2 DEF Variables
  <2>3. CASE StepRecorded
    BY <1>2, <2>3 DEF StepRecorded, Swept, Shape, Variables
  <2>4. CASE Replays
    BY <1>2, <2>4 DEF Replays, ReplayUnpack, ReplayCheck, ReplayChangelogStart, ReplayMove, ReplayScripts,
           ReplayChangelogEnd, ReplayCleaned, Replay, Swept, Shape, Variables
  <2>5. CASE Commits
    <3>1. CASE UnpackDone
      BY <1>2, <3>1 DEF UnpackDone, Shape, Variables
    <3>2. CASE ~UnpackDone
      BY <1>2, <2>5, <3>2, OthersRemember DEF Swept
    <3> QED BY <3>1, <3>2
  <2>6. CASE (Working /\ ~UnpackOp) \/ (Moving /\ ~MoveDone)
    BY <1>2, <2>6, OthersSweep, MovingSweeps DEF Sweeps, Swept, Kempt
  <2>7. CASE UnpackOp
    BY <1>2, <2>7, UnpackStays DEF Swept
  <2>8. CASE Crash \/ Die \/ JournalUnits \/ FinishJournal \/ JournalRemoved \/ StatusDump \/ UNCHANGED vars
    <3>1. CASE Crash \/ Die
      BY <2>1, <3>1 DEF Crash, Die
    <3>2. CASE JournalUnits \/ FinishJournal \/ JournalRemoved
      BY <2>1, <3>2 DEF JournalUnits, FinishJournal, JournalRemoved
    <3>3. CASE StatusDump
      <4>1. mem' = mem
        BY <3>3 DEF StatusDump, Goto
      <4> QED BY <2>1, <4>1
    <3>4. CASE UNCHANGED vars
      BY <2>1, <3>4 DEF vars
    <3> QED BY <2>8, <3>1, <3>2, <3>3, <3>4
  <2> QED BY <2>2, <2>3, <2>4, <2>5, <2>6, <2>7, <2>8, Steps
<1>4. ASSUME UNCHANGED <<fs, mem>> PROVE LeftDirs' = LeftDirs
  BY <1>4 DEF LeftDirs
<1>5. ASSUME pc' = "abort", op' \in {"finish", "unlink"} PROVE LeftDirs' = {}
  <2>1. CASE UNCHANGED vars
    BY <1>4, <1>5, <2>1 DEF vars, journal, Swept
  <2>2. CASE Perform \/ RecoverTransaction \/ Crash \/ Die \/ JournalRemoved
    BY <1>5, <2>2 DEF Perform, RecoverTransaction, Recover, Crash, Die, JournalRemoved, Unlink, Phase, InJournal
  <2>3. CASE JournalUnits
    BY <1>4, <1>5, <2>3 DEF JournalUnits, WriteUnits, Swept
  <2>4. CASE StepRecorded
    <3>1. op # "write"
      BY <1>5, <2>4 DEF StepRecorded, WriteDone
    <3>2. UNCHANGED <<fs, mem, pc>> /\ op \in {"finish", "unlink"}
      BY <1>5, <2>4, <3>1 DEF StepRecorded, WriteDone, Phase, InJournal
    <3> QED BY <1>4, <1>5, <3>2 DEF Swept
  <2>5. CASE FinishJournal
    BY <1>4, <1>5, <2>5 DEF FinishJournal, At
  <2>6. CASE Replays \/ Working \/ StatusDump \/ (Moving /\ ~MoveDone)
    BY <1>2, <1>5, <2>6, ReplaysLeave, OthersWork, DumpWorks, MovingWorks DEF Works, journal
  <2>7. CASE Commits
    BY <1>5, <2>7, CommitFits DEF Write, EnterWrite
  <2> QED BY <1>5, <2>1, <2>2, <2>3, <2>4, <2>5, <2>6, <2>7, Steps DEF Swept
<1>6. ASSUME pc' = "failed" PROVE LeftDirs' = {} /\ ~exists'
  <2>1. CASE UNCHANGED vars
    BY <1>4, <1>6, <2>1 DEF vars, journal, Swept
  <2>2. CASE Next
    <3>1. pc # "failed" /\ pc # "done"
      BY <2>2, Over
    <3>2. JournalRemoved
      BY <1>6, <2>2, <3>1, FailFlow
    <3>3. pc = "abort" /\ op = "unlink" /\ ~exists' /\ UNCHANGED <<fs, mem>>
      BY <1>6, <3>2 DEF JournalRemoved, Unlink, Phase, InJournal
    <3> QED BY <1>4, <1>6, <3>3 DEF Swept
  <2> QED BY <2>1, <2>2
<1> QED BY <1>1, <1>3, <1>5, <1>6 DEF Swept

(* The error that a collision of packages ends in is harmless, as          *)
(* perform_internal hopes: root, control files, links and status are what  *)
(* they were, over any crashes before and after the check, and a process   *)
(* that is refused has removed what it or a process before it unpacked.    *)
THEOREM RefusalsHarmless == ASSUME Reliable PROVE Spec => []RefusedUntouched
<1>1. Init => Refused /\ Swept
  BY RefusedFirst
<1>2. Phase /\ Books /\ WellPlanned /\ Kempt /\ Configured /\ Arriving /\ Refused /\ Swept /\ [Next]_vars
      => (Refused /\ Swept)'
  BY RefusedKept, SweptKept DEF Kempt, Configured, Arriving
<1>3. Kempt /\ Refused /\ Swept => RefusedUntouched
  BY DEF Kempt, Refused, Swept, RefusedUntouched, LeftDirs, DirsOf
<1> QED BY <1>1, <1>2, <1>3, PhaseCorrect, BooksCorrect, KemptCorrect, ConfiguredCorrect, ArrivingCorrect, PTL DEF Spec

-----------------------------------------------------------------------------
(* The status file tells what was done.                                    *)

\* What is written to the status file is read again: a property of block_dump_ordered, block_split
\* and block_parse.
RoundTrip == pc = "dump" =>
               \A order \in SetToSeqs({p \in Pkgs : mem.status[p] # "none"}) :
                 LET pkgs == Parsed(status_text(order))
                 IN /\ Recalled(pkgs) = mem.status
                    /\ UNION {Text!Conffiles(pkg) : pkg \in pkgs}
                         = UNION {HashedConfs(p) : p \in {q \in Pkgs : mem.status[q] # "none"}}

\* What the plan makes of a package, and of the configurations it may leave.
Final(p, state) == IF p \in ToInstall THEN state = "new"
                   ELSE IF p \in ToRemove THEN state \in {"none", "config"}
                   ELSE state = FirstDb[p]
Left(F, p, state) == p \in Installed /\ p \in ToRemove \ ToInstall /\ state # "config" =>
                       \A f \in (Confs \cap OldFiles[p]) \ Stolen : F.root[f] # "user"
Made(F, st) == \A p \in Pkgs : Final(p, st[p]) /\ Left(F, p, st[p])

\* The status while the operations are done one by one, and when all are.
StatusMoves == /\ pc \in AtMove =>
                    \A p \in Pkgs : IF \E n \in DOMAIN plan : n < mem.i /\ plan[n].pkg = p
                                    THEN Final(p, mem.status[p]) /\ Left(fs, p, mem.status[p])
                                    ELSE mem.status[p] = FirstDb[p]
               /\ pc \in AfterMoved => Made(fs, mem.status)
StatusStored == \A r \in Stored : r.type \in {"MOVED", "SCRIPTS"} =>
                  Made(fs, r.params.status) /\ Made(disk, r.params.status)

\* The status file that has been written.
Hashed(F) == \A f \in user \cap Guarded : F.root[f] = "user" => f \in F.hashes \/ Dropped(f)
Written(F) == (\A p \in Pkgs : Final(p, F.db[p])) /\ Hashed(F)
StatusDumped == /\ pc \in {"dumped", "done"} => Written(fs)
                /\ "CLEANED" \in StoredTypes => Written(fs) /\ Written(disk) /\ "SCRIPTS" \in Journaled
                /\ \A p \in Pkgs : fs.db[p] = "new" \/ disk.db[p] = "new" => p \in ToInstall
                /\ pc = "failed" => fs.db = FirstDb

\* The steps, by what they do to the status in memory.
LEMMA StatusSteps ==
  ASSUME Phase, [Next]_vars
  PROVE  \/ Perform \/ RecoverTransaction \/ ReplayMove \/ ReplayScripts \/ MergeDone \/ MoveRemove
         \/ mem'.status = mem.status
<1>1. DOMAIN mem = Variables /\ "status" \in Variables
  BY DEF Phase, Shape, Variables
<1>2. CASE UNCHANGED vars \/ Crash \/ Die \/ JournalUnits \/ FinishJournal \/ JournalRemoved
  BY <1>2 DEF vars, Crash, Die, JournalUnits, FinishJournal, JournalRemoved
<1>3. CASE StepRecorded
  BY <1>1, <1>3 DEF StepRecorded
<1>4. CASE Replays
  BY <1>1, <1>4 DEF Replays, ReplayUnpack, ReplayCheck, ReplayChangelogStart, ReplayChangelogEnd,
         ReplayCleaned, Replay
<1>5. CASE Commits
  BY <1>1, <1>5 DEF Commits, UnpackDone, Check, ChangelogStart, MoveDone, ScriptsDone, ChangelogEnd, CleanedDone
<1>6. CASE StatusDump
  BY <1>6 DEF StatusDump, Goto
<1>7. CASE PostScript
  BY <1>1, <1>7, PostScriptDoes DEF Phase, Variables
<1>8. CASE Working /\ ~PostScript
  BY <1>1, <1>8 DEF Working, SkipRemoval, UnpackOp, UnpackError, CheckError, OpenChangelog, CloseChangelog,
         RemoveFile, RemoveDir, ControlCleanup, Turn, Goto, Raise, NextOper
<1>9. CASE Preinst
  BY <1>1, <1>9, PreinstDoes DEF Phase, Variables
<1>10. CASE Moving /\ ~MoveDone /\ ~Preinst
  BY <1>1, <1>10 DEF Moving, StartMove, MoveInstall, DropControl, CopyControl, MoveError, CopyChanged,
         MoveRest, EarlyRemove, MergeFile, RemoveGone, Turn, Goto, Raise, Visited
<1> QED BY <1>2, <1>3, <1>4, <1>5, <1>6, <1>7, <1>8, <1>9, <1>10, Steps

\* And by what they do to the status file.
LEMMA DbSteps ==
  ASSUME Phase, Books, [Next]_vars
  PROVE  \/ fs'.db = fs.db /\ fs'.hashes = fs.hashes /\ disk' \in {disk, fs}
         \/ Crash /\ fs' \in {fs, disk} /\ disk' = fs'
         \/ StatusDump /\ disk' = disk
<1>1. Shape /\ DOMAIN fs = Parts
  BY DEF Phase, Shape
<1>2. CASE Crash
  BY <1>2 DEF Crash
<1>3. CASE \/ UNCHANGED vars \/ RecoverTransaction \/ Die \/ JournalUnits \/ StepRecorded
           \/ FinishJournal \/ JournalRemoved
  BY <1>3 DEF vars, RecoverTransaction, Die, JournalUnits, StepRecorded, FinishJournal, JournalRemoved
<1>4. CASE Replays \/ Commits
  <2>1. fs' = fs /\ disk' \in {disk, fs}
    BY <1>4, ReplaysLeave, CommitFits
  <2> QED BY <2>1
<1>5. CASE Perform
  BY <1>1, <1>5 DEF Perform, Parts
<1>6. CASE StatusDump
  BY <1>1, <1>6, DumpWorks
<1>7. CASE Working
  <2>1. fs'.hashes = fs.hashes
    BY <1>1, <1>7 DEF Working, SkipRemoval, UnpackOp, UnpackError, CheckError, OpenChangelog, PostScript,
           CloseChangelog, RemoveFile, RemoveDir, ControlCleanup, Turn, Goto, Raise, Parts
  <2> QED BY <1>1, <1>7, <2>1, OthersWork
<1>8. CASE StartMove \/ MoveInstall \/ DropControl \/ CopyControl \/ MoveError \/ MoveRest
  BY <1>1, <1>8 DEF StartMove, MoveInstall, DropControl, CopyControl, MoveError, MoveRest, Turn, Goto, Raise, Parts
<1>9. CASE Preinst \/ MoveRemove
  BY <1>1, <1>9 DEF Preinst, MoveRemove, Parts
<1>10. CASE CopyChanged \/ MergeDone
  BY <1>1, <1>10 DEF CopyChanged, MergeDone, Merged, Goto, Parts
<1>11. ASSUME NEW f, EarlyRemove(f) \/ RemoveGone(f) PROVE fs'.hashes = fs.hashes
  BY <1>1, <1>11 DEF EarlyRemove, RemoveGone, Cleaned, Turn, Parts
<1>12. ASSUME NEW f, MergeFile(f) PROVE fs'.hashes = fs.hashes
  BY <1>1, <1>12 DEF MergeFile, Placed, WayCleared, Turn, Parts
<1>13. CASE Moving /\ ~MoveDone
  <2>1. fs'.db = fs.db /\ disk' = disk
    BY <1>1, <1>13, MovingWorks
  <2> QED BY <1>8, <1>9, <1>10, <1>11, <1>12, <1>13, <2>1 DEF Moving
<1> QED BY <1>2, <1>3, <1>4, <1>5, <1>6, <1>7, <1>13, Steps

\* Nothing the user has made comes to a path by itself.
Fewer(G, F) == \A f \in Files : G.root[f] = "user" => F.root[f] = "user"
LEMMA FewerSteps ==
  ASSUME Phase, Books, Intacts, [Next]_vars
  PROVE  \/ Fewer(fs', fs) /\ disk' \in {disk, fs}
         \/ Crash /\ fs' \in {fs, disk} /\ disk' = fs'
<1>1. DOMAIN fs.root = Files
  BY DEF Intacts, Intact
<1>2. CASE Crash
  BY <1>2 DEF Crash
<1>3. CASE ~Crash
  <2>1. Fewer(fs', fs)
    BY <1>1, <1>3, RootShrinks DEF Fewer
  <2> QED BY <1>3, <2>1, RootSteps
<1> QED BY <1>2, <1>3

\* What the removal of a package makes of its status.
LEMMA RemovalTells ==
  ASSUME Shape, MoveRemove
  PROVE  LET p == Oper.pkg
         IN mem'.status = IF mem.status[p] \in {"old", "new"}
                          THEN [mem.status EXCEPT ![p] = IF KeptConfigs(p) = {} THEN "none" ELSE "config"]
                          ELSE mem.status
<1> DEFINE left == IF KeptConfigs(Oper.pkg) = {} THEN "none" ELSE "config"
           next == [NextOper EXCEPT !.configs = @ \cup (Confs \cap OldFiles[Oper.pkg]), !.status[Oper.pkg] = left]
<1>1. /\ DOMAIN NextOper = Variables /\ NextOper.status = mem.status
      /\ "status" \in Variables /\ "configs" \in Variables
  BY DEF NextOper, Shape, Variables
<1>2. DOMAIN next = Variables /\ next.status = [mem.status EXCEPT ![Oper.pkg] = left]
  <2> HIDE DEF left
  <2> QED BY <1>1 DEF Variables
<1>3. IF mem.status[Oper.pkg] \in {"old", "new"} THEN RunScript(Oper.pkg, "prerm", next) ELSE mem' = NextOper
  BY DEF MoveRemove
<1> HIDE DEF next, left
<1>4. ASSUME RunScript(Oper.pkg, "prerm", next) PROVE mem'.status = next.status
  <2>1. \A v \in Variables \ {"errs"} : mem'[v] = next[v]
    BY <1>2, <1>4 DEF RunScript, Variables
  <2> QED BY <2>1 DEF Variables
<1> QED BY <1>1, <1>2, <1>3, <1>4 DEF left

\* The operations that are done.
DoneBy(p, i) == \E n \in DOMAIN plan : n < i /\ plan[n].pkg = p

LEMMA RemovalMakes ==
  ASSUME Shape, WellPlanned, mem.i \in Nat \ {0}, OnceEach, MoveRemove, plan' = plan, fs'.root = fs.root,
         mem.status \in [Pkgs -> PkgState], mem.status[Oper.pkg] = FirstDb[Oper.pkg]
  PROVE  /\ Final(Oper.pkg, mem'.status[Oper.pkg]) /\ Left(fs', Oper.pkg, mem'.status[Oper.pkg])
         /\ \A p \in Pkgs \ {Oper.pkg} : mem'.status[p] = mem.status[p]
<1> DEFINE p == Oper.pkg
<1>1. More /\ Oper.op = "remove" /\ mem.i \in DOMAIN plan
  BY MoveRemoveDoes, OperPlanned
<1>2. p \in Pkgs /\ p \in ToRemove /\ p \notin ToInstall
  BY <1>1 DEF WellPlanned, Oper, ToRemove, ToInstall, OnceEach
<1>3. mem'.status = IF mem.status[p] \in {"old", "new"}
                    THEN [mem.status EXCEPT ![p] = IF KeptConfigs(p) = {} THEN "none" ELSE "config"]
                    ELSE mem.status
  BY RemovalTells
<1> HIDE DEF p
<1>4. \A q \in Pkgs \ {p} : mem'.status[q] = mem.status[q]
  BY <1>3
<1>5. CASE p \notin Installed
  <2>1. mem'.status[p] = "none"
    BY <1>2, <1>3, <1>5 DEF FirstDb, p
  <2> QED BY <1>2, <1>4, <1>5, <2>1 DEF Final, Left, p
<1>6. CASE p \in Installed
  <2>1. mem'.status[p] = IF KeptConfigs(p) = {} THEN "none" ELSE "config"
    BY <1>2, <1>3, <1>6 DEF FirstDb, p
  <2>2. ASSUME KeptConfigs(p) = {}, NEW f \in (Confs \cap OldFiles[p]) \ Stolen PROVE fs'.root[f] # "user"
    <3>1. f \in InstalledConfs
      BY <1>6, <2>2 DEF InstalledConfs
    <3>2. ~Modified(f)
      BY <2>2 DEF KeptConfigs
    <3> QED BY <3>1, <3>2 DEF Modified
  <2>3. Left(fs', p, mem'.status[p])
    BY <2>1, <2>2 DEF Left
  <2> QED BY <1>2, <1>4, <2>1, <2>3 DEF Final, p
<1> QED BY <1>5, <1>6

LEMMA PlanGoesOn ==
  ASSUME Phase, [Next]_vars, pc' \in AtMove \cup AfterMoved \cup {"move"}
  PROVE  plan' = plan /\ ToInstall' = ToInstall /\ ToRemove' = ToRemove /\ Stolen' = Stolen
<1>1. ~Perform /\ ~UnpackOp
  BY DEF Perform, UnpackOp, AtMove, At
<1>2. plan' = plan
  BY <1>1, PlanStays
<1> QED BY <1>2, SameOwners DEF Stolen, InstalledConfs

\* When all the operations are done, the status is made.
LEMMA AllMade ==
  ASSUME WellPlanned, mem.i \in Nat \ {0}, Moves, StatusMoves, pc = "gone"
  PROVE  Made(fs, mem.status)
<1>1. ~More
  BY DEF Moves
<1>2. \A n \in DOMAIN plan : n < mem.i
  BY <1>1 DEF More, WellPlanned, IsSeq
<1>3. ASSUME NEW p \in Pkgs PROVE Final(p, mem.status[p]) /\ Left(fs, p, mem.status[p])
  <2>1. CASE p \in ToRemove
    <3>1. \E n \in DOMAIN plan : n < mem.i /\ plan[n].pkg = p
      BY <1>2, <2>1 DEF ToRemove
    <3> QED BY <3>1 DEF StatusMoves, AtMove
  <2>2. CASE p \notin ToRemove
    <3>1. p \notin ToInstall /\ ~\E n \in DOMAIN plan : n < mem.i /\ plan[n].pkg = p
      BY <2>2 DEF ToRemove, ToInstall
    <3>2. mem.status[p] = FirstDb[p]
      BY <3>1 DEF StatusMoves, AtMove
    <3> QED BY <2>2, <3>1, <3>2 DEF Final, Left
  <2> QED BY <2>1, <2>2
<1> QED BY <1>3 DEF Made

LEMMA StatusMovesKept ==
  ASSUME Phase, Books, WellPlanned, mem.i \in Nat \ {0}, OnceEach, Opened, Moves, Intacts,
         Merging, StatusMoves, StatusStored, [Next]_vars
  PROVE  StatusMoves'
<1>1. Shape /\ DOMAIN mem = Variables /\ (Crash => pc' = "down")
  BY DEF Phase, Shape, Crash
<1> SUFFICES ASSUME pc' \in AtMove \cup AfterMoved PROVE StatusMoves'
  BY DEF StatusMoves
<1>2. plan' = plan /\ ToInstall' = ToInstall /\ ToRemove' = ToRemove /\ Stolen' = Stolen
  BY PlanGoesOn
<1>3. Fewer(fs', fs)
  BY <1>1, FewerSteps DEF AtMove
<1>4. \A p \in Installed : OldFiles[p] \subseteq Files
  BY SetsAssumption
<1>5. ASSUME NEW p \in Pkgs, NEW state, Left(fs, p, state) PROVE Left(fs', p, state)
  BY <1>3, <1>4, <1>5 DEF Left, Fewer
<1>6. CASE pc' \in AtMove
  <2>1. ASSUME \A p \in Pkgs : IF \E n \in DOMAIN plan : n < mem'.i /\ plan[n].pkg = p
                               THEN Final(p, mem'.status[p]) /\ Left(fs', p, mem'.status[p])
                               ELSE mem'.status[p] = FirstDb[p]
        PROVE  StatusMoves'
    BY <1>2, <1>6, <2>1 DEF StatusMoves, Final, Left, AtMove
  <2>2. CASE UNCHANGED <<pc, mem, fs, plan>>
    BY <1>6, <2>1, <2>2 DEF StatusMoves
  <2>3. CASE StartMove
    <3>1. pc = "move" /\ ~Have("MOVED") /\ mem'.status = mem.status /\ mem'.i = mem.i
      BY <1>1, <2>3 DEF StartMove, Goto, At, Variables
    <3>2. mem.i = 1 /\ mem.status = FirstDb
      BY <3>1, NotYet DEF Moves, BeforeMove, Books, StatusKnown
    <3>3. \A n \in DOMAIN plan : ~(n < 1)
      BY DEF WellPlanned, IsSeq
    <3> QED BY <2>1, <3>1, <3>2, <3>3
  <2>4. CASE Moving /\ ~MoveDone /\ ~StartMove /\ ~MergeDone /\ ~MoveRemove
    <3>1. pc \in AtMove /\ pc # "move"
      BY <1>1, <2>4, MovingLeaves DEF AtMove
    <3>2. mem'.i = mem.i
      BY <1>1, <2>4, PreinstDoes DEF Moving, MoveInstall, DropControl, CopyControl, MoveError, CopyChanged,
             MoveRest, EarlyRemove, MergeFile, RemoveGone, Turn, Goto, Raise, Visited, Variables
    <3>3. mem'.status = mem.status
      BY <3>1, StatusSteps, <2>4 DEF Perform, RecoverTransaction, ReplayMove, ReplayScripts, At, AtMove
    <3> QED BY <1>5, <2>1, <3>1, <3>2, <3>3 DEF StatusMoves
  <2>5. CASE (MergeDone \/ MoveRemove) /\ Moving
    <3>1. pc \in AtMove /\ mem.i \in DOMAIN plan /\ mem'.i = mem.i + 1 /\ DOMAIN plan \subseteq Nat
      <4>1. ASSUME MergeDone PROVE pc \in AtMove /\ More /\ mem'.i = mem.i + 1
        BY <1>1, <4>1 DEF MergeDone, Goto, NextOper, Moves, At, AtMove, Variables
      <4>2. ASSUME MoveRemove PROVE pc \in AtMove /\ More /\ mem'.i = mem.i + 1
        BY <1>1, <4>2, MoveRemoveDoes DEF AtMove
      <4>3. DOMAIN plan \subseteq Nat
        BY DEF WellPlanned, IsSeq
      <4> QED BY <2>5, <4>1, <4>2, <4>3, OperPlanned
    <3>2. \A n \in DOMAIN plan : n < mem'.i <=> n < mem.i \/ n = mem.i
      BY <3>1
    <3>3. Oper.pkg \in Pkgs /\ plan[mem.i].pkg = Oper.pkg
      BY <3>1 DEF Oper, WellPlanned
    <3>4. /\ Final(Oper.pkg, mem'.status[Oper.pkg]) /\ Left(fs', Oper.pkg, mem'.status[Oper.pkg])
          /\ \A p \in Pkgs \ {Oper.pkg} : mem'.status[p] = mem.status[p]
      <4>1. mem.status \in [Pkgs -> PkgState]
        BY <3>1 DEF Books, StatusKnown, AtMove
      <4>2. CASE MergeDone
        <5>1. mem'.status = [mem.status EXCEPT ![Oper.pkg] = "new"]
          BY <1>1, <4>2 DEF MergeDone, Goto, InstalledStatus, NextOper, Variables
        <5>2. Oper.pkg \in ToInstall
          BY <4>2, OperInstalls DEF MergeDone, At
        <5> QED BY <3>3, <4>1, <5>1, <5>2 DEF Final, Left
      <4>3. CASE MoveRemove
        <5>1. mem.status[Oper.pkg] = FirstDb[Oper.pkg]
          <6>1. ~\E n \in DOMAIN plan : n < mem.i /\ plan[n].pkg = Oper.pkg
            BY <3>1, <3>3 DEF OnceEach
          <6> QED BY <3>1, <3>3, <6>1 DEF StatusMoves
        <5>2. fs'.root = fs.root
          BY <1>1, <4>3, MoveRemoveDoes
        <5> QED BY <1>1, <1>2, <4>1, <4>3, <5>1, <5>2, RemovalMakes
      <4> QED BY <2>5, <4>2, <4>3
    <3>5. ASSUME NEW p \in Pkgs \ {Oper.pkg}
          PROVE  IF \E n \in DOMAIN plan : n < mem'.i /\ plan[n].pkg = p
                 THEN Final(p, mem'.status[p]) /\ Left(fs', p, mem'.status[p])
                 ELSE mem'.status[p] = FirstDb[p]
      <4>1. (\E n \in DOMAIN plan : n < mem'.i /\ plan[n].pkg = p)
              <=> \E n \in DOMAIN plan : n < mem.i /\ plan[n].pkg = p
        BY <3>2, <3>3
      <4> QED BY <1>5, <3>1, <3>4, <4>1 DEF StatusMoves
    <3>6. \E n \in DOMAIN plan : n < mem'.i /\ plan[n].pkg = Oper.pkg
      BY <3>1, <3>2, <3>3
    <3> QED BY <2>1, <3>4, <3>5, <3>6
  <2> QED BY <1>6, <2>2, <2>3, <2>4, <2>5, StageFlow DEF Came, Moving
<1>7. CASE pc' \in AfterMoved
  <2>1. ASSUME Made(fs, mem'.status) PROVE StatusMoves'
    <3>1. \A p \in Pkgs : Final(p, mem'.status[p]) /\ Left(fs', p, mem'.status[p])
      BY <1>5, <2>1 DEF Made
    <3>2. Made(fs, mem.status)'
      BY <1>2, <3>1 DEF Made, Final, Left
    <3> QED BY <1>7, <3>2 DEF StatusMoves, AtMove
  <2>2. ASSUME NEW t \in {"MOVED", "SCRIPTS"}, Have(t), pc \in Busy, op = "idle" PROVE Made(fs, ResultOf(t).status)
    <3>1. PICK r \in mem.replay : r.type = t /\ ResultOf(t) = r.params
      BY <2>2 DEF Have, ResultOf
    <3>2. r \in Stored
      BY <2>2, <3>1 DEF Opened, Stored
    <3> QED BY <3>1, <3>2 DEF StatusStored
  <2>3. CASE ReplayMove
    BY <1>1, <2>1, <2>2, <2>3 DEF ReplayMove, Replay, At, Variables
  <2>4. CASE ReplayScripts
    BY <1>1, <2>1, <2>2, <2>4 DEF ReplayScripts, Replay, At, Variables
  <2>5. CASE pc = "gone" /\ mem' = [mem EXCEPT !.i = 1]
    BY <1>1, <2>1, <2>5, AllMade DEF Variables
  <2>6. CASE pc \in AfterMoved /\ ~ReplayMove /\ ~ReplayScripts
    <3>1. mem'.status = mem.status
      BY <2>6, StatusSteps DEF Perform, RecoverTransaction, MergeDone, MoveRemove, At
    <3> QED BY <2>1, <2>6, <3>1 DEF StatusMoves
  <2>7. pc # "done"
    BY <1>7, Over DEF vars
  <2> QED BY <1>7, <2>3, <2>4, <2>5, <2>6, <2>7, StageFlow DEF Came, PostScript, At
<1> QED BY <1>6, <1>7

\* What is stored in the journal is as true as what the process knows.
LEMMA NoUnpacking ==
  ASSUME Phase, Books, Opened, NEW t \in {"CHECKED", "MOVED", "SCRIPTS"}, t \in StoredTypes
  PROVE  ~UnpackOp
<1> SUFFICES ASSUME UnpackOp PROVE FALSE
  OBVIOUS
<1>1. pc = "unpack" /\ op = "idle" /\ ~Have("UNPACKED")
  BY DEF UnpackOp, At
<1>2. t \in Journaled
  BY <1>1, IdleStored
<1>3. "UNPACKED" \in Journaled
  BY <1>2 DEF Books, Ledger, Later
<1> QED BY <1>1, <1>3, NothingStored, JournaledIsStored

LEMMA StatusStoredKept ==
  ASSUME Phase, Books, WellPlanned, mem.i \in Nat \ {0}, Opened, Moves, Intacts,
         StatusMoves, StatusStored, [Next]_vars
  PROVE  StatusStored'
<1> SUFFICES ASSUME NEW r \in Stored', r.type \in {"MOVED", "SCRIPTS"}
             PROVE  Made(fs, r.params.status)' /\ Made(disk, r.params.status)'
  BY DEF StatusStored
<1>1. r.type \in StoredTypes' /\ ~Perform /\ (r \in Stored \/ (Commits /\ r = rec'))
  <2>1. r.type \in StoredTypes'
    BY DEF StoredTypes
  <2> QED BY <2>1, TypeFlow, StoredFlow
<1>2. ~UnpackOp
  <2>1. CASE r \in Stored
    BY <2>1, NoUnpacking DEF StoredTypes
  <2>2. CASE Commits /\ r = rec'
    BY <2>2, CommitOf DEF MoveDone, ScriptsDone, UnpackOp, At
  <2> QED BY <1>1, <2>1, <2>2
<1>3. plan' = plan /\ ToInstall' = ToInstall /\ ToRemove' = ToRemove /\ Stolen' = Stolen
  BY <1>1, <1>2, PlanStays, SameOwners DEF Stolen, InstalledConfs
<1>4. ASSUME Made(fs', r.params.status), Made(disk', r.params.status)
      PROVE  Made(fs, r.params.status)' /\ Made(disk, r.params.status)'
  BY <1>3, <1>4 DEF Made, Final, Left
<1>5. CASE Commits /\ r = rec'
  <2>1. MoveDone \/ ScriptsDone
    BY <1>5, CommitOf
  <2>2. r.params.status = mem.status /\ fs' = fs /\ disk' = fs /\ (pc = "gone" \/ pc \in AfterMoved)
    BY <1>5, <2>1 DEF MoveDone, ScriptsDone, Commit, Write, EnterWrite, At
  <2>3. Made(fs, mem.status)
    BY <2>2, AllMade DEF StatusMoves
  <2> QED BY <1>4, <2>2, <2>3
<1>6. CASE r \in Stored
  <2>1. Made(fs, r.params.status) /\ Made(disk, r.params.status)
    BY <1>6 DEF StatusStored
  <2>2. \A p \in Installed : OldFiles[p] \subseteq Files
    BY SetsAssumption
  <2>3. CASE Fewer(fs', fs) /\ disk' \in {disk, fs}
    <3>1. Made(fs', r.params.status)
      BY <2>1, <2>2, <2>3 DEF Made, Left, Fewer
    <3> QED BY <1>4, <2>1, <2>3, <3>1
  <2>4. CASE Crash /\ fs' \in {fs, disk} /\ disk' = fs'
    BY <1>4, <2>1, <2>4
  <2> QED BY <2>3, <2>4, FewerSteps
<1> QED BY <1>1, <1>5, <1>6

\* How the status file comes to be written.
LEMMA DumpFlow ==
  ASSUME Phase, Books, [Next]_vars, pc' \in {"dumped", "failed"}
  PROVE  \/ pc' = "dumped" /\ StatusDump
         \/ pc' = "failed" /\ JournalRemoved /\ pc = "abort"
         \/ pc = pc' /\ ~StatusDump /\ ~Crash /\ ~Perform
<1>1. Shape
  BY DEF Phase
<1>2. CASE UNCHANGED vars
  <2>1. pc' = pc
    BY <1>2 DEF vars
  <2> QED BY <2>1 DEF StatusDump, Crash, Perform, At, Running
<1>3. CASE Perform \/ RecoverTransaction \/ Crash \/ Die
  BY <1>3 DEF Perform, RecoverTransaction, Crash, Die
<1>4. CASE JournalRemoved
  BY <1>4 DEF JournalRemoved, Unlink, Phase, InJournal
<1>5. CASE JournalUnits \/ FinishJournal
  <2>1. pc' = pc
    BY <1>5 DEF JournalUnits, FinishJournal
  <2> QED BY <2>1 DEF StatusDump, Crash, Perform, At, Running
<1>6. CASE StepRecorded
  <2>1. pc' = pc
    BY <1>6 DEF StepRecorded, Phase, InJournal, Recording, AfterStep
  <2> QED BY <2>1 DEF StatusDump, Crash, Perform, At
<1>7. CASE Replays
  BY <1>7 DEF Replays, ReplayUnpack, ReplayCheck, ReplayChangelogStart, ReplayMove, ReplayScripts,
         ReplayChangelogEnd, ReplayCleaned, Replay, AfterStep
<1>8. CASE Commits
  <2>1. pc' = pc
    BY <1>8, CommitFits
  <2> QED BY <2>1 DEF StatusDump, Crash, Perform, At
<1>9. CASE StatusDump
  BY <1>1, <1>9, DumpWorks
<1>10. CASE Working
  <2>1. pc' = pc
    BY <1>1, <1>10, OthersWork
  <2> QED BY <2>1 DEF StatusDump, Crash, Perform, At
<1>11. CASE Moving /\ ~MoveDone
  BY <1>1, <1>11, MovingWorks
<1> QED BY <1>2, <1>3, <1>4, <1>5, <1>6, <1>7, <1>8, <1>9, <1>10, <1>11, Steps

\* What is written is what was made, with the hashes of all that the user may have there.
LEMMA DumpTells ==
  ASSUME Phase, Books, WellPlanned, Delivered, StatusMoves, RoundTrip, StatusDump
  PROVE  Written(fs') /\ \A p \in Pkgs : fs'.db[p] = "new" => p \in ToInstall
<1>1. Shape /\ DOMAIN fs = Parts /\ pc = "dump" /\ pc \in AfterUnpacked
  BY DEF Phase, Shape, StatusDump, At
<1>2. /\ fs'.db = mem.status /\ fs'.root = fs.root
      /\ fs'.hashes = UNION {HashedConfs(p) : p \in {q \in Pkgs : mem.status[q] # "none"}}
  <2>1. PICK order \in SetToSeqs({p \in Pkgs : mem.status[p] # "none"}) :
           \E text \in {status_text(order)} : \E pkgs \in {Parsed(text)} :
             Goto("dumped", [fs EXCEPT !.db = Recalled(pkgs),
                                       !.hashes = UNION {Text!Conffiles(pkg) : pkg \in pkgs}], mem)
    BY DEF StatusDump
  <2> DEFINE read == Parsed(status_text(order))
             hashed == UNION {Text!Conffiles(pkg) : pkg \in read}
  <2>2. fs' = [fs EXCEPT !.db = Recalled(read), !.hashes = hashed]
    BY <2>1 DEF Goto
  <2>3. /\ Recalled(read) = mem.status
        /\ hashed = UNION {HashedConfs(p) : p \in {q \in Pkgs : mem.status[q] # "none"}}
    BY <1>1, <2>1 DEF RoundTrip
  <2> HIDE DEF read, hashed
  <2>4. fs'.db = Recalled(read) /\ fs'.hashes = hashed /\ fs'.root = fs.root
    BY <1>1, <2>2 DEF Parts
  <2> QED BY <2>3, <2>4
<1>3. Made(fs, mem.status)
  BY <1>1 DEF StatusMoves
<1>4. \A p \in ToInstall : NewOf(p) = NewFiles[p] /\ p \in Pkgs
  BY <1>1, JournaledIsStored, ShippedOf DEF Phase, Progress, Delivered
<1>5. \A p \in Pkgs : Final(p, fs'.db[p])
  BY <1>2, <1>3 DEF Made
<1>6. ASSUME NEW f \in user \cap Guarded, fs'.root[f] = "user" PROVE f \in fs'.hashes \/ Dropped(f)
  <2>1. f \in Confs /\ fs.root[f] = "user"
    BY <1>2, <1>6 DEF Guarded, InstalledConfs
  <2>2. ASSUME NEW p \in Pkgs, mem.status[p] # "none", f \in HashedConfs(p) PROVE f \in fs'.hashes
    BY <1>2, <2>2
  <2>3. CASE \E p \in ToInstall : f \in NewFiles[p]
    <3>1. PICK p \in ToInstall : f \in NewFiles[p]
      BY <2>3
    <3>2. mem.status[p] = "new" /\ p \in Pkgs
      BY <1>3, <1>4 DEF Made, Final
    <3>3. f \in HashedConfs(p)
      BY <1>4, <2>1, <3>1, <3>2 DEF HashedConfs
    <3> QED BY <2>2, <3>2, <3>3
  <2>4. CASE \A p \in ToInstall : f \notin NewFiles[p]
    <3>1. f \in InstalledConfs /\ f \notin Stolen
      BY <1>4, <1>6, <2>4 DEF Guarded, Stolen
    <3>2. CASE \A p \in Installed : f \in OldFiles[p] => p \in ToInstall
      BY <2>4, <3>2 DEF Dropped
    <3>3. ASSUME NEW p \in Installed \ ToInstall, f \in OldFiles[p] PROVE f \in fs'.hashes
      <4>1. p \in Pkgs /\ Final(p, mem.status[p]) /\ Left(fs, p, mem.status[p])
        BY <1>3, SetsAssumption DEF Made
      <4>2. CASE p \in ToRemove
        <5>1. mem.status[p] = "config"
          BY <2>1, <3>1, <3>3, <4>1, <4>2 DEF Final, Left
        <5>2. f \in KeptConfigs(p)
          BY <2>1, <3>1, <3>3 DEF KeptConfigs, Modified
        <5> QED BY <2>2, <4>1, <5>1, <5>2 DEF HashedConfs
      <4>3. CASE p \notin ToRemove
        <5>1. mem.status[p] = "old"
          BY <4>1, <4>3 DEF Final, FirstDb
        <5> QED BY <2>1, <2>2, <3>1, <3>3, <4>1, <5>1 DEF HashedConfs
      <4> QED BY <4>2, <4>3
    <3> QED BY <3>2, <3>3
  <2> QED BY <2>3, <2>4
<1>7. \A p \in Pkgs : fs'.db[p] = "new" => p \in ToInstall
  BY <1>5 DEF Final, FirstDb
<1> QED BY <1>5, <1>6, <1>7 DEF Written, Hashed

\* A transaction that fails has not come to its scripts.
LEMMA NoScriptsGivenUp ==
  ASSUME Phase, Books, PlanSettled, GivenUp, pc = "abort"
  PROVE  fs.db = FirstDb
<1>1. ASSUME "SCRIPTS" \in Journaled PROVE FALSE
  <2>1. {"UNPACKED", "CHECKED"} \subseteq Journaled
    BY <1>1 DEF Books, Ledger, Later
  <2>2. "UNPACKED" \in StoredTypes /\ "CHECKED" \in StoredTypes
    BY <2>1, JournaledIsStored
  <2> QED BY <2>2 DEF GivenUp, PlanSettled, Apart
<1> QED BY <1>1 DEF Books, StatusKnown

LEMMA StatusDumpedKept ==
  ASSUME Phase, Books, WellPlanned, mem.i \in Nat \ {0}, Opened, PlanSettled, Intacts, Delivered, GivenUp,
         StatusMoves, StatusDumped, RoundTrip, [Next]_vars
  PROVE  StatusDumped'
<1>1. ToInstall' = ToInstall /\ ToRemove' = ToRemove /\ user' = user
  BY PlanKept, UserStays DEF SamePlan
<1>2. Guarded' = Guarded /\ \A f : Dropped(f)' = Dropped(f)
  BY <1>1 DEF Guarded, Dropped, InstalledConfs
<1>3. user \cap Guarded \subseteq Files
  <2>1. InstalledConfs \subseteq Files
    BY SetsAssumption DEF InstalledConfs
  <2>2. \A p \in ToInstall : p \in Pkgs
    BY DEF ToInstall, WellPlanned
  <2> QED BY <2>1, <2>2, SetsAssumption DEF Guarded
<1>5. Written(fs') => Written(fs)'
  BY <1>1, <1>2 DEF Written, Hashed, Final
<1>6. Written(disk') => Written(disk)'
  BY <1>1, <1>2 DEF Written, Hashed, Final
<1>7. /\ ~Crash /\ ~StatusDump => /\ Fewer(fs', fs) /\ fs'.db = fs.db /\ fs'.hashes = fs.hashes
                                  /\ disk' \in {disk, fs}
      /\ StatusDump => disk' = disk
      /\ Crash => fs' \in {fs, disk} /\ disk' = fs'
  <2>1. StatusDump => disk' = disk
    BY DumpWorks DEF Phase
  <2>2. Crash => fs' \in {fs, disk} /\ disk' = fs'
    BY DEF Crash
  <2> QED BY <2>1, <2>2, FewerSteps, DbSteps
<1>8. ~Crash /\ ~StatusDump /\ Written(fs) => Written(fs')
  BY <1>3, <1>7 DEF Written, Hashed, Fewer
<1>9. StatusDump => Written(fs') /\ \A p \in Pkgs : fs'.db[p] = "new" => p \in ToInstall
  BY DumpTells
<1>10. ASSUME pc' \in {"dumped", "done"} PROVE Written(fs)'
  <2>1. CASE pc' = "dumped"
    BY <1>5, <1>8, <1>9, <2>1, DumpFlow DEF StatusDumped
  <2>2. CASE pc' = "done" /\ UNCHANGED vars
    <3>1. fs' = fs /\ pc = "done"
      BY <2>2 DEF vars
    <3> QED BY <1>5, <3>1 DEF StatusDumped
  <2>3. CASE JournalRemoved /\ pc = "finish"
    <3>1. "CLEANED" \in StoredTypes /\ fs' = fs
      BY <2>3, JournaledIsStored DEF Phase, Progress, JournalRemoved
    <3> QED BY <1>5, <3>1 DEF StatusDumped
  <2> QED BY <1>10, <2>1, <2>2, <2>3, EndFlow
<1>11. ASSUME "CLEANED" \in StoredTypes' PROVE Written(fs)' /\ Written(disk)' /\ ("SCRIPTS" \in Journaled)'
  <2>1. /\ "CLEANED" \in StoredTypes \/ (Commits /\ "CLEANED" = rec'.type)
        /\ ~Perform /\ ~JournalRemoved
    BY <1>11, TypeFlow
  <2>2. CASE "CLEANED" \in StoredTypes
    <3>1. Written(fs) /\ Written(disk) /\ "SCRIPTS" \in Journaled
      BY <2>2 DEF StatusDumped
    <3>2. ("SCRIPTS" \in Journaled)'
      BY <2>1, <3>1, JournaledGrows
    <3>3. Written(fs') /\ Written(disk')
      BY <1>7, <1>8, <1>9, <3>1
    <3> QED BY <1>5, <1>6, <3>2, <3>3
  <2>3. CASE Commits /\ "CLEANED" = rec'.type
    <3>1. CleanedDone
      BY <2>3, CommitOf
    <3>2. pc = "dumped" /\ fs' = fs /\ disk' = fs
      BY <3>1 DEF CleanedDone, Commit, At
    <3>3. "SCRIPTS" \in Journaled
      BY <3>2 DEF Phase, Progress
    <3>4. ("SCRIPTS" \in Journaled)'
      BY <2>1, <3>3, JournaledGrows
    <3> QED BY <1>5, <1>6, <3>2, <3>4 DEF StatusDumped
  <2> QED BY <2>1, <2>2, <2>3
<1>12. ASSUME NEW p \in Pkgs, fs'.db[p] = "new" \/ disk'.db[p] = "new" PROVE p \in ToInstall
  BY <1>7, <1>9, <1>12 DEF StatusDumped
<1>13. ASSUME pc' = "failed" PROVE fs'.db = FirstDb
  <2>1. CASE JournalRemoved /\ pc = "abort"
    BY <2>1, NoScriptsGivenUp DEF JournalRemoved
  <2>2. CASE pc = "failed" /\ ~StatusDump /\ ~Crash
    BY <1>7, <2>2 DEF StatusDumped
  <2> QED BY <1>13, <2>1, <2>2, DumpFlow
<1> QED BY <1>1, <1>10, <1>11, <1>12, <1>13 DEF StatusDumped, FirstDb

\* What the status file is right by.
Telling == OnceEach /\ StatusMoves /\ StatusStored /\ StatusDumped

LEMMA TellingFirst == ASSUME Init, OnceEach PROVE Telling
<1>1. pc = "down" /\ acked = <<>> /\ op = "idle" /\ file = <<>> /\ disk = fs /\ fs.db = FirstDb
  BY DEF Init, JInit, FirstDb
<1>2. StoredTypes = {} /\ Stored = {}
  BY <1>1 DEF Stored, StoredTypes, Pending, Writing
<1> QED BY <1>1, <1>2 DEF Telling, StatusMoves, StatusStored, StatusDumped, AtMove, FirstDb

LEMMA TellingKept ==
  ASSUME Phase, Books, WellPlanned, Kempt, Configured, Arriving, RoundTrip, Telling, [Next]_vars
  PROVE  Telling'
<1>1. OnceEach'
  BY PlanKept, SameDue DEF Telling, Kempt
<1> QED BY <1>1, StatusMovesKept, StatusStoredKept, StatusDumpedKept DEF Telling, Kempt, Configured, Arriving

\* From what is known of the status to what it promises.
LEMMA TellingTruth ==
  ASSUME Phase, Books, Arriving, Telling
  PROVE  StatusTruth
<1>1. ASSUME NEW p \in Pkgs, fs.db[p] = "new" PROVE InPlace(p)
  <2>1. p \in ToInstall
    BY <1>1 DEF Telling, StatusDumped
  <2>2. fs.db # FirstDb
    BY <1>1 DEF FirstDb
  <2>3. pc = "done" \/ "SCRIPTS" \in Journaled
    BY <2>2 DEF Telling, StatusDumped, Books, StatusKnown
  <2>4. pc = "done" \/ "MOVED" \in StoredTypes
    BY <2>3, JournaledIsStored DEF Books, Ledger, Later
  <2> QED BY <2>1, <2>4 DEF Arriving, Finishes, Finished, There, InPlace
<1>2. ASSUME pc = "done"
      PROVE  /\ \A p \in Pkgs : CASE p \in ToInstall -> fs.db[p] = "new"
                                  [] p \in ToRemove \ ToInstall -> fs.db[p] \in {"none", "config"}
                                  [] OTHER -> fs.db[p] = IF p \in Installed THEN "old" ELSE "none"
             /\ \A f \in user \cap Guarded : fs.root[f] = "user" => f \in fs.hashes \/ Dropped(f)
  <2>1. Written(fs)
    BY <1>2 DEF Telling, StatusDumped
  <2>2. \A p \in Pkgs : Final(p, fs.db[p])
    BY <2>1 DEF Written
  <2>3. ASSUME NEW p \in Pkgs
        PROVE  CASE p \in ToInstall -> fs.db[p] = "new"
                 [] p \in ToRemove \ ToInstall -> fs.db[p] \in {"none", "config"}
                 [] OTHER -> fs.db[p] = IF p \in Installed THEN "old" ELSE "none"
    BY <2>2 DEF Final, FirstDb
  <2> QED BY <2>1, <2>3 DEF Written, Hashed
<1> QED BY <1>1, <1>2 DEF StatusTruth

LEMMA TellingCorrect == ASSUME Reliable PROVE Spec /\ OnceEach /\ []RoundTrip => []Telling
<1>1. Init /\ OnceEach => Telling
  BY TellingFirst
<1>2. Phase /\ Books /\ WellPlanned /\ Kempt /\ Configured /\ Arriving /\ RoundTrip /\ Telling /\ [Next]_vars
      => Telling'
  BY TellingKept
<1> QED BY <1>1, <1>2, PhaseCorrect, BooksCorrect, KemptCorrect, ConfiguredCorrect, ArrivingCorrect, PTL DEF Spec

(* The status file, if what is written to it is read again as it was       *)
(* written, tells in the end what the plan asked for, has the hashes of    *)
(* the modified configurations that stay, and lists no package in its new  *)
(* version whose files are not in place: over any crashes, whether the     *)
(* process that writes it has moved the packages itself or has the status  *)
(* from the journal.  The plan has one operation for a package, as that of *)
(* the planner has.                                                        *)
THEOREM StatusTold == ASSUME Reliable PROVE Spec /\ OnceEach /\ []RoundTrip => []StatusTruth
<1>1. Phase /\ Books /\ Arriving /\ Telling => StatusTruth
  BY TellingTruth
<1> QED BY <1>1, PhaseCorrect, BooksCorrect, ArrivingCorrect, TellingCorrect, PTL

(* Whenever no journal is there, root is as the status file says, or as it *)
(* was when nothing had been done: no failed start and no crash leaves     *)
(* half of a transaction that nobody would finish.                         *)
THEOREM RootAlwaysCovered == ASSUME Reliable PROVE Spec /\ OnceEach /\ []RoundTrip => []JournalCovers
<1>1. Books /\ Configured /\ Others /\ StatusTruth => JournalCovers
  BY CoveredByJournal
<1> QED BY <1>1, StatusTold, BooksCorrect, ConfiguredCorrect, OthersUndisturbed, PTL

-----------------------------------------------------------------------------
(* The links lead to the best alternatives.                                *)

\* Of finitely many alternatives, one has the highest priority.
LEMMA HighestPriority ==
  ASSUME NEW S, IsFiniteSet(S), S # {}, \A x \in S : x.priority \in Nat
  PROVE  \E best \in S : \A x \in S : best.priority >= x.priority
<1> DEFINE From(x) == {y \in S : y.priority >= x.priority}
           T == {From(x) : x \in S}
           R == StrictSubsetOrdering(S)
<1>1. IsWellFoundedOn(R, SUBSET S)
  BY FS_FiniteSubsetsOfFinite, FS_StrictSubsetOrderingWellFounded
<1>2. T \subseteq SUBSET S /\ T # {}
  OBVIOUS
<1>3. \E U \in T : \A W \in T : <<W, U>> \notin R
  <2> HIDE DEF T, R
  <2> QED BY <1>1, <1>2, WFMin
<1>4. PICK best \in S : \A x \in S : <<From(x), From(best)>> \notin R
  BY <1>3
<1>5. ASSUME NEW x \in S, ~(best.priority >= x.priority) PROVE FALSE
  <2>1. x.priority > best.priority /\ x.priority \in Nat /\ best.priority \in Nat
    BY <1>5
  <2>2. From(x) \subseteq From(best) /\ best \notin From(x) /\ best \in From(best)
    BY <2>1
  <2>3. <<From(x), From(best)>> \in R
    <3>1. From(x) \in SUBSET S /\ From(best) \in SUBSET S /\ From(x) # From(best)
      BY <2>2
    <3> HIDE DEF From
    <3> QED BY <2>2, <3>1 DEF StrictSubsetOrdering
  <2> QED BY <1>4, <2>3
<1> QED BY <1>5

\* The alternatives are those of control files.
AllAlternatives == UNION {OldAlternatives[p] \cup NewAlternatives[p] : p \in Pkgs}
FromFiles(alternatives) == \A p \in Pkgs : alternatives[p] \subseteq AllAlternatives

\* What choose_alternative is to find: a package that offers as much as any of those looked at.
Leads(alternatives, path, skip, q) ==
  IF q = NoLink THEN \A p \in Pkgs \ skip : Offers(alternatives, p, path) = {}
  ELSE /\ q \in Pkgs \ skip
       /\ \E best \in Offers(alternatives, q, path) :
            \A p \in Pkgs \ skip : \A alt \in Offers(alternatives, p, path) : best.priority >= alt.priority

LEMMA PrioritiesNatural ==
  ASSUME NEW alternatives, FromFiles(alternatives), NEW path, NEW p \in Pkgs
  PROVE  \A alt \in Offers(alternatives, p, path) : alt.priority \in Nat /\ alt \in AllAlternatives
  BY AlternativesAssumption DEF FromFiles, Offers, AllAlternatives, Alternative

LEMMA ChosenLeads ==
  ASSUME NEW alternatives, FromFiles(alternatives), NEW path, NEW skip, NEW q
  PROVE  q \in choose_alternative(alternatives, path, skip) <=> Leads(alternatives, path, skip, q)
<1> DEFINE offered == UNION {Offers(alternatives, p, path) : p \in Pkgs \ skip}
           bests == Best(alternatives, path, skip)
<1>1. offered \subseteq AllAlternatives /\ \A alt \in offered : alt.priority \in Nat
  BY PrioritiesNatural
<1>2. bests = {p \in Pkgs \ skip : \E alt \in Offers(alternatives, p, path) :
                                     \A other \in offered : alt.priority >= other.priority}
  BY DEF Best
<1>3. offered # {} => bests # {}
  <2> SUFFICES ASSUME offered # {} PROVE bests # {}
    OBVIOUS
  <2>1. IsFiniteSet(offered)
    BY <1>1, AlternativesAssumption, FS_Subset DEF AllAlternatives
  <2>2. PICK best \in offered : \A x \in offered : best.priority >= x.priority
    <3> HIDE DEF offered
    <3> QED BY <1>1, <2>1, HighestPriority
  <2> QED BY <1>2, <2>2
<1>4. NoLink \notin Pkgs
  BY AlternativesAssumption
<1>5. q \in choose_alternative(alternatives, path, skip) <=> IF bests = {} THEN q = NoLink ELSE q \in bests
  BY DEF choose_alternative
<1>6. offered = {} <=> \A p \in Pkgs \ skip : Offers(alternatives, p, path) = {}
  OBVIOUS
<1>7. q # NoLink => (q \in bests <=> Leads(alternatives, path, skip, q))
  BY <1>2 DEF Leads
<1>8. offered = {} => bests = {}
  BY <1>2
<1> HIDE DEF offered, bests
<1>9. CASE q = NoLink
  <2>1. q \notin bests
    BY <1>2, <1>4, <1>9
  <2>2. Leads(alternatives, path, skip, q) <=> offered = {}
    BY <1>6, <1>9 DEF Leads
  <2> QED BY <1>3, <1>5, <1>8, <1>9, <2>1, <2>2
<1>10. CASE q # NoLink
  BY <1>5, <1>7, <1>10
<1> QED BY <1>9, <1>10

\* A link that is updated for p leads to the best, if it did before p changed to offer no less.
LEMMA LinkUpdated ==
  ASSUME NEW before, NEW after, FromFiles(before), FromFiles(after), NEW path, NEW p \in Pkgs, NEW r, NEW q,
         \A s \in Pkgs \ {p} : Offers(after, s, path) = Offers(before, s, path),
         \A old \in Offers(before, p, path) : \E new \in Offers(after, p, path) : new.priority >= old.priority,
         Leads(before, path, {}, r), Leads(after, path, {}, q)
  PROVE  Leads(after, path, {}, IF q = p THEN p ELSE r)
<1>1. NoLink \notin Pkgs
  BY AlternativesAssumption
<1>2. \A s \in Pkgs : /\ \A alt \in Offers(before, s, path) : alt.priority \in Nat
                      /\ \A alt \in Offers(after, s, path) : alt.priority \in Nat
  BY PrioritiesNatural
<1>3. CASE q = NoLink
  <2>1. \A s \in Pkgs : Offers(after, s, path) = {}
    BY <1>3 DEF Leads
  <2>2. \A s \in Pkgs : Offers(before, s, path) = {}
    BY <2>1
  <2>3. r = NoLink
    BY <2>2 DEF Leads
  <2> QED BY <1>1, <1>3, <2>1, <2>3 DEF Leads
<1>4. CASE q # NoLink /\ q # p
  <2>1. q \in Pkgs \ {p}
    BY <1>4 DEF Leads
  <2>2. PICK best \in Offers(after, q, path) :
          \A s \in Pkgs : \A alt \in Offers(after, s, path) : best.priority >= alt.priority
    BY <1>4 DEF Leads
  <2>3. best \in Offers(before, q, path) /\ best.priority \in Nat
    BY <1>2, <2>1, <2>2
  <2>4. r # NoLink /\ r \in Pkgs
    BY <2>1, <2>3 DEF Leads
  <2>5. PICK own \in Offers(before, r, path) :
          \A s \in Pkgs : \A alt \in Offers(before, s, path) : own.priority >= alt.priority
    BY <2>4 DEF Leads
  <2>6. PICK new \in Offers(after, r, path) : new.priority >= own.priority
    BY <1>2, <2>4, <2>5
  <2>7. own.priority >= best.priority
    BY <2>1, <2>3, <2>5
  <2>8. ASSUME NEW s \in Pkgs, NEW alt \in Offers(after, s, path) PROVE new.priority >= alt.priority
    <3>1. best.priority >= alt.priority /\ alt.priority \in Nat /\ new.priority \in Nat /\ own.priority \in Nat
      BY <1>2, <2>2, <2>4, <2>5, <2>6, <2>8
    <3> QED BY <2>3, <2>6, <2>7, <3>1
  <2> QED BY <1>4, <2>4, <2>6, <2>8 DEF Leads
<1> QED BY <1>3, <1>4

\* A link to r leads to as much as there is in seen, by what r offers in alternatives.
Covers(alternatives, path, r, seen) ==
  IF r = NoLink THEN seen = {}
  ELSE r \in Pkgs /\ \E best \in Offers(alternatives, r, path) : \A alt \in seen : best.priority >= alt.priority

\* What is offered now, of which a part is seen later.
Offering(alternatives, path, seen) ==
  \A alt \in seen : /\ alt.priority \in Nat
                    /\ \E s \in Pkgs : \E now \in Offers(alternatives, s, path) : now.priority >= alt.priority

LEMMA CoversTaken ==
  ASSUME NEW current, NEW last, FromFiles(current), NEW path, NEW p \in Pkgs, NEW seen,
         Offers(current, p, path) = Offers(last, p, path),
         Leads(current, path, {}, p), Offering(current, path, seen)
  PROVE  Covers(last, path, p, seen)
<1>1. p # NoLink
  BY AlternativesAssumption
<1>2. \A s \in Pkgs : \A alt \in Offers(current, s, path) : alt.priority \in Nat
  BY PrioritiesNatural
<1>3. PICK best \in Offers(current, p, path) :
        \A s \in Pkgs : \A alt \in Offers(current, s, path) : best.priority >= alt.priority
  BY <1>1 DEF Leads
<1>4. ASSUME NEW alt \in seen PROVE best.priority >= alt.priority
  <2>1. PICK s \in Pkgs : \E now \in Offers(current, s, path) : now.priority >= alt.priority
    BY DEF Offering
  <2>2. PICK now \in Offers(current, s, path) : now.priority >= alt.priority
    BY <2>1
  <2>3. best.priority >= now.priority /\ now.priority \in Nat /\ best.priority \in Nat /\ alt.priority \in Nat
    BY <1>2, <1>3 DEF Offering
  <2> QED BY <2>2, <2>3
<1> QED BY <1>1, <1>3, <1>4 DEF Covers

LEMMA CoversStays ==
  ASSUME NEW current, NEW last, FromFiles(current), FromFiles(last), NEW path, NEW q, NEW r, NEW seen, NEW next,
         Leads(current, path, {}, q), q \in Pkgs => Offers(current, q, path) \subseteq seen,
         Covers(last, path, r, seen), Offering(current, path, next)
  PROVE  Covers(last, path, r, next)
<1>1. NoLink \notin Pkgs
  BY AlternativesAssumption
<1>2. \A s \in Pkgs : /\ \A alt \in Offers(current, s, path) : alt.priority \in Nat
                      /\ \A alt \in Offers(last, s, path) : alt.priority \in Nat
  BY PrioritiesNatural
<1>3. CASE q = NoLink
  <2>1. next = {}
    BY <1>3 DEF Leads, Offering
  <2> QED BY <2>1 DEF Covers
<1>4. CASE q # NoLink
  <2>1. PICK best \in Offers(current, q, path) :
          \A s \in Pkgs : \A alt \in Offers(current, s, path) : best.priority >= alt.priority
    BY <1>4 DEF Leads
  <2>2. q \in Pkgs /\ best \in seen
    BY <1>4, <2>1 DEF Leads
  <2>3. PICK own \in Offers(last, r, path) : own.priority >= best.priority
    BY <2>2 DEF Covers
  <2>4. r \in Pkgs /\ r # NoLink
    BY <1>1, <2>2 DEF Covers
  <2>5. ASSUME NEW alt \in next PROVE own.priority >= alt.priority
    <3>1. PICK s \in Pkgs : \E now \in Offers(current, s, path) : now.priority >= alt.priority
      BY DEF Offering
    <3>2. PICK now \in Offers(current, s, path) : now.priority >= alt.priority
      BY <3>1
    <3>3. best.priority >= now.priority
      BY <2>1, <3>2
    <3>4. now.priority \in Nat /\ best.priority \in Nat /\ alt.priority \in Nat /\ own.priority \in Nat
      BY <1>2, <2>1, <2>2, <2>3, <2>4, <3>2 DEF Offering
    <3> QED BY <2>3, <3>2, <3>3, <3>4
  <2> QED BY <2>3, <2>4, <2>5 DEF Covers
<1> QED BY <1>3, <1>4

\* What the packages offer that will be there in the end.
LastAlternatives == [p \in Pkgs |-> IF p \in ToInstall THEN NewAlternatives[p]
                                    ELSE IF p \in Installed \ ToRemove THEN OldAlternatives[p] ELSE {}]

\* The status after the operations before i.
Standing(status, i) == \A p \in Pkgs : IF DoneBy(p, i) THEN Final(p, status[p]) ELSE status[p] = FirstDb[p]

\* What they offer on the way: a package not yet come to, by the control files that were read.
LEMMA OffersOf ==
  ASSUME NEW status, NEW i, NEW control, Standing(status, i), NEW p \in Pkgs
  PROVE  Offered(status, control)[p] =
           IF DoneBy(p, i) THEN LastAlternatives[p]
           ELSE IF p \notin Installed THEN {}
           ELSE CASE control[p] = "old" -> OldAlternatives[p]
                  [] control[p] = "new" -> NewAlternatives[p]
                  [] OTHER -> {}
<1> DEFINE read == IF status[p] = "old" THEN control[p] ELSE status[p]
<1>1. Offered(status, control)[p] = CASE read = "old" -> OldAlternatives[p]
                                      [] read = "new" -> NewAlternatives[p]
                                      [] OTHER -> {}
  BY DEF Offered
<1>2. CASE DoneBy(p, i)
  <2>1. Final(p, status[p]) /\ p \in ToRemove
    BY <1>2 DEF Standing, DoneBy, ToRemove
  <2>2. CASE p \in ToInstall
    BY <1>1, <1>2, <2>1, <2>2 DEF Final, LastAlternatives
  <2>3. CASE p \notin ToInstall
    BY <1>1, <1>2, <2>1, <2>3 DEF Final, LastAlternatives
  <2> QED BY <2>2, <2>3
<1>3. CASE ~DoneBy(p, i)
  <2>1. status[p] = IF p \in Installed THEN "old" ELSE "none"
    BY <1>3 DEF Standing, FirstDb
  <2> QED BY <1>1, <1>3, <2>1
<1> QED BY <1>2, <1>3

LEMMA OfferedFromFiles == ASSUME NEW status, NEW control PROVE FromFiles(Offered(status, control)) /\ FromFiles(LastAlternatives)
  BY SetsAssumption DEF FromFiles, Offered, LastAlternatives, AllAlternatives

\* The steps, by what they do to the links.
LEMMA LinkSteps ==
  ASSUME Phase, Books, [Next]_vars
  PROVE  \/ fs'.links = fs.links /\ disk' \in {disk, fs} /\ ~MergeDone /\ ~MoveRemove
         \/ Crash /\ fs' \in {fs, disk} /\ disk' = fs'
         \/ MergeDone /\ fs'.links \in Updated /\ fs'.info = fs.info /\ disk' = disk
         \/ /\ MoveRemove /\ fs'.info = fs.info /\ disk' = disk
            /\ IF mem.status[Oper.pkg] \in {"old", "new"}
               THEN fs'.links \in pkg_remove_alternatives(Offered(mem.status, mem.control), fs.links, Oper.pkg)
               ELSE fs'.links = fs.links
<1>1. Shape /\ DOMAIN fs = Parts
  BY DEF Phase, Shape
<1>2. CASE Crash
  BY <1>2 DEF Crash
<1>3. CASE MergeDone
  BY <1>1, <1>3 DEF MergeDone, Merged, Goto, Parts
<1>4. CASE MoveRemove
  BY <1>1, <1>4 DEF MoveRemove, env, Parts
<1> SUFFICES ASSUME ~MergeDone, ~MoveRemove, ~Crash PROVE fs'.links = fs.links /\ disk' \in {disk, fs}
  BY <1>2, <1>3, <1>4
<1>5. CASE \/ UNCHANGED vars \/ RecoverTransaction \/ Die \/ JournalUnits \/ StepRecorded
           \/ FinishJournal \/ JournalRemoved
  BY <1>5 DEF vars, RecoverTransaction, Die, JournalUnits, StepRecorded, FinishJournal, JournalRemoved
<1>6. CASE Replays \/ Commits
  <2>1. fs' = fs /\ disk' \in {disk, fs}
    BY <1>6, ReplaysLeave, CommitFits
  <2> QED BY <2>1
<1>7. CASE Perform
  BY <1>1, <1>7 DEF Perform, Parts
<1>8. CASE StatusDump
  BY <1>1, <1>8 DEF StatusDump, Goto, Parts
<1>9. CASE Working
  BY <1>1, <1>9 DEF Working, SkipRemoval, UnpackOp, UnpackError, CheckError, OpenChangelog, PostScript,
         CloseChangelog, RemoveFile, RemoveDir, ControlCleanup, Turn, Goto, Raise, Parts
<1>10. CASE \/ StartMove \/ MoveInstall \/ DropControl \/ CopyControl \/ MoveError \/ MoveRest
            \/ Preinst \/ CopyChanged
  BY <1>1, <1>10 DEF StartMove, MoveInstall, DropControl, CopyControl, MoveError, MoveRest, Preinst, CopyChanged,
         Turn, Goto, Raise, Parts
<1>11. ASSUME NEW f, EarlyRemove(f) \/ RemoveGone(f) PROVE fs'.links = fs.links /\ disk' = disk
  BY <1>1, <1>11 DEF EarlyRemove, RemoveGone, Cleaned, Turn, Parts
<1>12. ASSUME NEW f, MergeFile(f) PROVE fs'.links = fs.links /\ disk' = disk
  BY <1>1, <1>12 DEF MergeFile, Placed, WayCleared, Turn, Parts
<1>13. CASE Moving /\ ~MoveDone
  BY <1>10, <1>11, <1>12, <1>13 DEF Moving
<1> QED BY <1>5, <1>6, <1>7, <1>8, <1>9, <1>13, Steps

\* Links that are updated and those that a package leaves, path by path.
LEMMA UpdatedIs ==
  ASSUME NEW links \in Updated, NEW path \in LinkPaths
  PROVE  LET p == Oper.pkg
             after == Offered(InstalledStatus, mem.control)
         IN IF Offers(after, p, path) = {} THEN links[path] = fs.links[path]
            ELSE \E q \in choose_alternative(after, path, {}) :
                   links[path] = IF q = p THEN p ELSE fs.links[path]
<1> DEFINE p == Oper.pkg
           after == Offered(InstalledStatus, mem.control)
<1>1. IF Offers(after, p, path) = {} THEN links[path] = fs.links[path]
      ELSE links[path] \in {IF q = p THEN p ELSE fs.links[path] : q \in choose_alternative(after, path, {})}
  BY DEF Updated, pkg_update_alternatives, Visit
<1> QED BY <1>1

LEMMA RemovedIs ==
  ASSUME NEW current, NEW old, NEW p, NEW links \in pkg_remove_alternatives(current, old, p), NEW path \in LinkPaths
  PROVE  IF Offers(current, p, path) = {} THEN links[path] = old[path]
         ELSE links[path] \in choose_alternative(current, path, {p})
  BY DEF pkg_remove_alternatives, Visit

\* The steps, by what they do to the control files that were read.
LEMMA ControlSteps ==
  ASSUME Phase, [Next]_vars
  PROVE  \/ mem'.control = mem.control /\ ~Perform /\ ~RecoverTransaction
         \/ (Perform \/ RecoverTransaction) /\ mem'.control = fs.info /\ fs'.info = fs.info
<1>1. DOMAIN mem = Variables /\ "control" \in Variables /\ DOMAIN fs = Parts
  BY DEF Phase, Shape, Variables
<1>12. ASSUME Perform \/ RecoverTransaction PROVE mem'.control = fs.info /\ fs'.info = fs.info
  <2>1. DOMAIN FreshMemory = Variables /\ FreshMemory.control = fs.info
    BY DEF FreshMemory, Variables
  <2>2. CASE Perform
    BY <1>1, <2>1, <2>2 DEF Perform, Parts
  <2>3. CASE RecoverTransaction
    <3>1. mem' = [FreshMemory EXCEPT !.replay = Recorded] /\ fs' = fs
      BY <2>3 DEF RecoverTransaction
    <3> QED BY <1>1, <2>1, <2>3, <3>1
  <2> QED BY <1>12, <2>2, <2>3
<1> SUFFICES ASSUME ~Perform, ~RecoverTransaction PROVE mem'.control = mem.control
  BY <1>12
<1>2. CASE UNCHANGED vars \/ Crash \/ Die \/ JournalUnits \/ FinishJournal \/ JournalRemoved
  BY <1>2 DEF vars, Crash, Die, JournalUnits, FinishJournal, JournalRemoved
<1>3. CASE StepRecorded
  BY <1>1, <1>3 DEF StepRecorded
<1>4. CASE Replays
  BY <1>1, <1>4 DEF Replays, ReplayUnpack, ReplayCheck, ReplayChangelogStart, ReplayMove, ReplayScripts,
         ReplayChangelogEnd, ReplayCleaned, Replay
<1>5. CASE Commits
  BY <1>1, <1>5 DEF Commits, UnpackDone, Check, ChangelogStart, MoveDone, ScriptsDone, ChangelogEnd, CleanedDone
<1>6. CASE StatusDump
  BY <1>6 DEF StatusDump, Goto
<1>7. CASE PostScript
  BY <1>1, <1>7, PostScriptDoes DEF Phase, Variables
<1>8. CASE Working /\ ~PostScript
  BY <1>1, <1>8 DEF Working, SkipRemoval, UnpackOp, UnpackError, CheckError, OpenChangelog, CloseChangelog,
         RemoveFile, RemoveDir, ControlCleanup, Turn, Goto, Raise, NextOper
<1>9. CASE Preinst
  BY <1>1, <1>9, PreinstDoes DEF Phase, Variables
<1>10. CASE MoveRemove
  BY <1>1, <1>10, MoveRemoveDoes DEF Phase, Variables
<1>11. CASE Moving /\ ~MoveDone /\ ~Preinst /\ ~MoveRemove
  BY <1>1, <1>11 DEF Moving, StartMove, MoveInstall, DropControl, CopyControl, MoveError, CopyChanged, MergeDone,
         MoveRest, EarlyRemove, MergeFile, RemoveGone, Turn, Goto, Raise, Visited, NextOper
<1> QED BY <1>2, <1>3, <1>4, <1>5, <1>6, <1>7, <1>8, <1>9, <1>10, <1>11, Steps

\* What status_parse has read is what is there, but for packages whose control files were replaced since.
ControlRead == /\ pc \in BeforeMove => mem.control = fs.info
               /\ pc \in AtMove => \A p \in Pkgs :
                    \/ mem.control[p] = fs.info[p]
                    \/ \E n \in DOMAIN plan : n <= mem.i /\ plan[n].op = "install" /\ plan[n].pkg = p

\* The loop over the operations goes on by one.
LEMMA CountSteps ==
  ASSUME Shape, Moves, Moving, ~MoveDone
  PROVE  \/ (MergeDone \/ MoveRemove) /\ mem'.i = mem.i + 1 /\ More
         \/ ~MergeDone /\ ~MoveRemove /\ mem'.i = mem.i
<1>1. DOMAIN mem = Variables /\ "i" \in Variables
  BY DEF Shape, Variables
<1>2. ASSUME MergeDone PROVE mem'.i = mem.i + 1 /\ More
  BY <1>1, <1>2 DEF MergeDone, Goto, NextOper, Moves, At
<1>3. ASSUME MoveRemove PROVE mem'.i = mem.i + 1 /\ More
  BY <1>3, MoveRemoveDoes
<1>4. ASSUME ~MergeDone, ~MoveRemove PROVE mem'.i = mem.i
  BY <1>1, <1>4, PreinstDoes DEF Moving, StartMove, MoveInstall, DropControl, CopyControl, MoveError, CopyChanged,
         MoveRest, EarlyRemove, MergeFile, RemoveGone, Turn, Goto, Raise, Visited, Variables
<1> QED BY <1>2, <1>3, <1>4

LEMMA ControlReadKept ==
  ASSUME Phase, Books, WellPlanned, mem.i \in Nat \ {0}, Moves, Infos, ControlRead, [Next]_vars
  PROVE  ControlRead'
<1>1. CASE pc' \in BeforeMove
  <2>1. CASE Perform \/ RecoverTransaction
    BY <1>1, <2>1, ControlSteps DEF ControlRead, BeforeMove, AtMove
  <2>2. CASE ~Perform /\ ~RecoverTransaction
    <3>1. pc \in BeforeMove /\ mem'.control = mem.control /\ mem.control = fs.info
      BY <1>1, <2>2, StageFlow, ControlSteps DEF Came, ControlRead
    <3>2. fs'.info = fs.info
      BY <1>1, <3>1, InfoSteps DEF Crash, DropControl, CopyControl, ControlCleanup, At, BeforeMove
    <3> QED BY <1>1, <3>1, <3>2 DEF ControlRead, BeforeMove, AtMove
  <2> QED BY <2>1, <2>2
<1>2. CASE pc' \in AtMove
  <2>1. plan' = plan /\ DOMAIN plan \subseteq Nat
    BY <1>2, PlanGoesOn DEF WellPlanned, IsSeq
  <2>2. CASE UNCHANGED <<pc, mem, fs, plan>>
    BY <2>2 DEF ControlRead
  <2>3. CASE StartMove
    <3>1. pc = "move" /\ fs' = fs /\ mem'.control = mem.control
      BY <2>3, ControlSteps DEF StartMove, Goto, At, Perform, RecoverTransaction
    <3> QED BY <1>2, <3>1 DEF ControlRead, BeforeMove, AtMove
  <2>4. CASE Moving /\ ~MoveDone /\ ~StartMove
    <3>1. pc \in AtMove /\ mem'.i \in {mem.i, mem.i + 1} /\ mem'.control = mem.control
      BY <2>4, CountSteps, MovingLeaves, ControlSteps DEF Phase, Perform, RecoverTransaction, AtMove
    <3>2. ASSUME NEW p \in Pkgs
          PROVE  \/ mem'.control[p] = fs'.info[p]
                 \/ \E n \in DOMAIN plan : n <= mem'.i /\ plan[n].op = "install" /\ plan[n].pkg = p
      <4>1. \A n \in DOMAIN plan : n <= mem.i => n <= mem'.i
        BY <2>1, <3>1
      <4>2. CASE \E n \in DOMAIN plan : n <= mem.i /\ plan[n].op = "install" /\ plan[n].pkg = p
        BY <4>1, <4>2
      <4>3. CASE mem.control[p] = fs.info[p] /\ fs'.info = fs.info
        BY <3>1, <4>3
      <4>4. CASE mem.control[p] = fs.info[p] /\ (DropControl \/ CopyControl)
                 /\ \E x : fs'.info = [fs.info EXCEPT ![Oper.pkg] = x]
        <5>1. mem.i \in DOMAIN plan /\ Oper.op = "install" /\ DOMAIN fs.info = Pkgs
          BY <4>4, OperInstalls DEF DropControl, CopyControl, At, Infos
        <5>2. CASE p = Oper.pkg
          BY <2>1, <4>1, <5>1, <5>2 DEF Oper
        <5>3. CASE p # Oper.pkg
          BY <3>1, <4>4, <5>1, <5>3
        <5> QED BY <5>2, <5>3
      <4> QED BY <1>2, <3>1, <4>2, <4>3, <4>4, InfoSteps DEF ControlRead, Crash, ControlCleanup, At, AtMove
    <3> QED BY <1>2, <2>1, <3>2 DEF ControlRead, BeforeMove, AtMove
  <2> QED BY <1>2, <2>2, <2>3, <2>4, StageFlow DEF Came
<1> QED BY <1>1, <1>2 DEF ControlRead

\* The control files of packages the plan has nothing to do with are as they were.
InfoKept == \A p \in Pkgs \ ToRemove : fs.info[p] = FirstDb[p] /\ disk.info[p] = FirstDb[p]

LEMMA InfoKeptKept ==
  ASSUME Phase, Books, WellPlanned, mem.i \in Nat \ {0}, Moves, Infos, StatusMoves, InfoKept, [Next]_vars
  PROVE  InfoKept'
<1>1. ToRemove' = ToRemove /\ DOMAIN fs.info = Pkgs /\ DOMAIN fs = Parts
  BY PlanKept DEF SamePlan, Infos, Phase, Shape
<1> SUFFICES ASSUME NEW p \in Pkgs \ ToRemove PROVE fs'.info[p] = FirstDb[p] /\ disk'.info[p] = FirstDb[p]
  BY <1>1 DEF InfoKept, FirstDb
<1>2. fs.info[p] = FirstDb[p] /\ disk.info[p] = FirstDb[p]
  BY DEF InfoKept
<1>3. CASE DropControl \/ CopyControl
  <2>1. Oper.pkg # p
    BY <1>3, OperInstalls DEF DropControl, CopyControl, At, ToRemove, ToInstall
  <2> QED BY <1>1, <1>2, <1>3, <2>1, InfoSteps DEF DropControl, CopyControl, Crash, ControlCleanup, At, Goto, Turn
<1>4. CASE ControlCleanup /\ disk' = disk
  <2>1. fs'.info[p] = IF mem.status[p] \in {"old", "new"} THEN fs.info[p] ELSE "none"
    BY <1>1, <1>4 DEF ControlCleanup, Goto, Parts
  <2>2. pc \in AfterMoved
    BY <1>4 DEF ControlCleanup, At
  <2>3. Final(p, mem.status[p])
    BY <2>2 DEF StatusMoves, Made
  <2>4. mem.status[p] = FirstDb[p]
    BY <2>3 DEF Final, ToInstall, ToRemove
  <2> QED BY <1>2, <1>4, <2>1, <2>4 DEF FirstDb
<1> QED BY <1>2, <1>3, <1>4, InfoSteps

\* The packages of the operations.
Names == [n \in DOMAIN plan |-> plan[n].pkg]

\* Operations that remove a package with an alternative for path.
Leaves(n, path) == /\ plan[n].op = "remove" /\ plan[n].pkg \in Installed
                   /\ Offers(OldAlternatives, plan[n].pkg, path) # {}
Withdrawn(path) == \E n \in DOMAIN plan : Leaves(n, path)
Awaited(path, i) == \E n \in DOMAIN plan : n >= i /\ Leaves(n, path)

\* A path nobody leaves: what its link was chosen from.  The control files tell what the installed
\* packages offer; of those the plan installs, the m-th was not come to the end with, and those
\* before it were.
SeenOld(F, path) ==
  UNION {Offers(OldAlternatives, p, path) : p \in {q \in Installed : F.info[q] = "old"}}
Counted(F, n, m) == n < m \/ (n > m /\ Names[n] \in Installed /\ F.info[Names[n]] = "new")
SeenNew(F, path, m) ==
  UNION {Offers(LastAlternatives, Names[n], path) : n \in {j \in DOMAIN Names : Counted(F, j, m)}}
Seen(F, path, m) == SeenOld(F, path) \cup SeenNew(F, path, m)
Led(F, path, m) == Covers(LastAlternatives, path, F.links[path], Seen(F, path, m))
Linking == \A path \in LinkPaths :
             \/ Demoted(path) \/ Withdrawn(path)
             \/ /\ \E m \in Nat \ {0} : (pc \in AtMove => m >= mem.i) /\ Led(fs, path, m)
                /\ \E m \in Nat \ {0} : Led(disk, path, m)

\* A path a package leaves: its link is chosen anew by the last removal that does.
Relinked == pc \in AtMove => \A path \in LinkPaths :
              \/ Demoted(path) \/ ~Withdrawn(path) \/ Awaited(path, mem.i)
              \/ Leads(Offered(mem.status, mem.control), path, {}, fs.links[path])

LEMMA SameLeaves ==
  ASSUME SamePlan
  PROVE  /\ Names' = Names /\ LastAlternatives' = LastAlternatives
         /\ \A path : (Demoted(path)' <=> Demoted(path)) /\ (Withdrawn(path)' <=> Withdrawn(path))
         /\ \A path, i : Awaited(path, i)' <=> Awaited(path, i)
<1>1. /\ DOMAIN plan' = DOMAIN plan /\ ToInstall' = ToInstall /\ ToRemove' = ToRemove
      /\ \A n \in DOMAIN plan : plan'[n].op = plan[n].op /\ plan'[n].pkg = plan[n].pkg
  BY DEF SamePlan
<1>2. \A n \in DOMAIN plan : \A path : Leaves(n, path)' <=> Leaves(n, path)
  BY <1>1 DEF Leaves
<1>3. Names' = Names
  BY <1>1 DEF Names
<1>4. LastAlternatives' = LastAlternatives
  BY <1>1 DEF LastAlternatives
<1>5. ASSUME NEW path PROVE Demoted(path)' <=> Demoted(path)
  BY <1>1 DEF Demoted
<1>6. ASSUME NEW path PROVE Withdrawn(path)' <=> Withdrawn(path)
  BY <1>1, <1>2 DEF Withdrawn
<1>7. ASSUME NEW path, NEW i PROVE Awaited(path, i)' <=> Awaited(path, i)
  BY <1>1, <1>2 DEF Awaited
<1> QED BY <1>3, <1>4, <1>5, <1>6, <1>7

LEMMA SomeLeads ==
  ASSUME NEW alternatives, FromFiles(alternatives), NEW path, NEW skip
  PROVE  \E q : Leads(alternatives, path, skip, q)
<1>1. \E q : q \in choose_alternative(alternatives, path, skip)
  BY DEF choose_alternative
<1> QED BY <1>1, ChosenLeads

\* What is known in the loop of the packages it has not come to.
LEMMA NotDone ==
  ASSUME Phase, Books, WellPlanned, Opened, Infos, Merging, ControlRead, pc \in AtMove,
         mem.i \in Nat, NEW p \in Pkgs,
         ~DoneBy(p, mem.i), \A n \in DOMAIN plan : n = mem.i /\ plan[n].op = "install" => plan[n].pkg # p
  PROVE  /\ mem.control[p] = fs.info[p]
         /\ p \notin ToInstall => fs.info[p] = FirstDb[p]
<1>1. "SCRIPTS" \notin Journaled
  BY NotYet DEF Merging
<1>2. pc \notin {"done", "failed"}
  BY DEF AtMove
<1>3. ASSUME NEW n \in DOMAIN plan, n <= mem.i, plan[n].op = "install" PROVE plan[n].pkg # p
  <2>1. DOMAIN plan \subseteq Nat
    BY DEF WellPlanned, IsSeq
  <2>2. n < mem.i \/ n = mem.i
    BY <1>3, <2>1
  <2> QED BY <1>3, <2>2 DEF DoneBy
<1> QED BY <1>1, <1>2, <1>3 DEF Infos, ControlRead

LEMMA SeenIs ==
  ASSUME NEW F, NEW path, NEW m, NEW alt
  PROVE  alt \in Seen(F, path, m) <=>
           \/ \E p \in Installed : F.info[p] = "old" /\ alt \in Offers(OldAlternatives, p, path)
           \/ \E n \in DOMAIN Names : /\ n < m \/ (n > m /\ Names[n] \in Installed /\ F.info[Names[n]] = "new")
                                      /\ alt \in Offers(LastAlternatives, Names[n], path)
<1>1. alt \in SeenOld(F, path) <=> \E p \in Installed : F.info[p] = "old" /\ alt \in Offers(OldAlternatives, p, path)
  BY DEF SeenOld
<1>2. alt \in SeenNew(F, path, m) <=> \E n \in DOMAIN Names : /\ Counted(F, n, m)
                                                             /\ alt \in Offers(LastAlternatives, Names[n], path)
  BY DEF SeenNew
<1> QED BY <1>1, <1>2 DEF Seen, Counted

LEMMA DoneNext ==
  ASSUME WellPlanned, mem.i \in Nat \ {0}, More
  PROVE  \A p : DoneBy(p, mem.i + 1) <=> DoneBy(p, mem.i) \/ p = Oper.pkg
<1>1. mem.i \in DOMAIN plan /\ DOMAIN plan \subseteq Nat
  BY OperPlanned
<1> QED BY <1>1 DEF DoneBy, Oper

\* What the packages offer on the way, and what is seen of it.
Plain(F, control, i) ==
  \A p \in Pkgs : \/ DoneBy(p, i)
                  \/ control[p] = F.info[p] /\ (p \in ToInstall \/ F.info[p] = FirstDb[p])

LEMMA SeenOffered ==
  ASSUME WellPlanned, OnceEach, NEW F, NEW status, NEW control, NEW i \in Nat, NEW path,
         Standing(status, i), Plain(F, control, i), ~Demoted(path), ~Withdrawn(path)
  PROVE  Offering(Offered(status, control), path, Seen(F, path, i))
<1> DEFINE current == Offered(status, control)
<1>1. \A n \in DOMAIN plan : Names[n] = plan[n].pkg /\ Names[n] \in Pkgs /\ n \in Nat
  BY DEF Names, WellPlanned, IsSeq
<1>2. ASSUME NEW p \in Installed, p \in Pkgs, F.info[p] = "old", NEW alt \in Offers(OldAlternatives, p, path)
      PROVE  \E now \in Offers(current, p, path) : now.priority >= alt.priority
  <2>1. alt.priority \in Nat
    BY <1>2, AlternativesAssumption DEF Offers, Alternative
  <2>2. CASE ~DoneBy(p, i)
    <3>1. current[p] = OldAlternatives[p]
      BY <1>2, <2>2, OffersOf DEF Plain
    <3> QED BY <1>2, <2>1, <3>1 DEF Offers
  <2>3. CASE DoneBy(p, i) /\ p \in ToInstall
    <3>1. current[p] = NewAlternatives[p]
      BY <1>2, <2>3, OffersOf DEF LastAlternatives
    <3>2. PICK new \in Offers(NewAlternatives, p, path) : ~(new.priority < alt.priority)
      BY <1>2, <2>3 DEF Demoted
    <3>3. new.priority \in Nat
      BY <1>2, <3>2, AlternativesAssumption DEF Offers, Alternative
    <3> QED BY <2>1, <3>1, <3>2, <3>3 DEF Offers
  <2>4. CASE DoneBy(p, i) /\ p \notin ToInstall
    <3>1. PICK n \in DOMAIN plan : plan[n].pkg = p
      BY <2>4 DEF DoneBy
    <3>2. plan[n].op = "remove"
      BY <2>4, <3>1 DEF ToInstall, WellPlanned
    <3> QED BY <1>2, <3>1, <3>2 DEF Withdrawn, Leaves
  <2> QED BY <2>2, <2>3, <2>4
<1>3. ASSUME NEW n \in DOMAIN plan, n < i PROVE current[Names[n]] = LastAlternatives[Names[n]]
  BY <1>1, <1>3, OffersOf DEF DoneBy
<1>4. ASSUME NEW n \in DOMAIN plan, n > i, Names[n] \in Installed, F.info[Names[n]] = "new"
      PROVE  current[Names[n]] = LastAlternatives[Names[n]]
  <2>1. ~DoneBy(Names[n], i)
    BY <1>1, <1>4 DEF DoneBy, OnceEach
  <2>2. control[Names[n]] = "new" /\ Names[n] \in ToInstall
    BY <1>1, <1>4, <2>1 DEF Plain, FirstDb
  <2> QED BY <1>1, <1>4, <2>1, <2>2, OffersOf DEF LastAlternatives
<1>5. ASSUME NEW alt \in Seen(F, path, i)
      PROVE  /\ alt.priority \in Nat
             /\ \E s \in Pkgs : \E now \in Offers(current, s, path) : now.priority >= alt.priority
  <2>1. CASE \E p \in Installed : F.info[p] = "old" /\ alt \in Offers(OldAlternatives, p, path)
    <3>1. PICK p \in Installed : F.info[p] = "old" /\ alt \in Offers(OldAlternatives, p, path)
      BY <2>1
    <3>2. p \in Pkgs
      BY SetsAssumption
    <3>3. alt.priority \in Nat
      BY <3>1, <3>2, AlternativesAssumption DEF Offers, Alternative
    <3> QED BY <1>2, <3>1, <3>2, <3>3
  <2>2. CASE \E n \in DOMAIN Names : /\ \/ n < i
                                        \/ n > i /\ Names[n] \in Installed /\ F.info[Names[n]] = "new"
                                     /\ alt \in Offers(LastAlternatives, Names[n], path)
    <3>1. PICK n \in DOMAIN plan : /\ current[Names[n]] = LastAlternatives[Names[n]]
                                   /\ alt \in Offers(LastAlternatives, Names[n], path)
      BY <1>3, <1>4, <2>2 DEF Names
    <3>2. alt \in Offers(current, Names[n], path)
      BY <3>1 DEF Offers
    <3>3. alt.priority \in Nat
      BY <1>1, <3>2, PrioritiesNatural, OfferedFromFiles
    <3> QED BY <1>1, <3>2, <3>3
  <2> QED BY <1>5, <2>1, <2>2, SeenIs
<1> QED BY <1>5 DEF Offering

\* A package that is not the one just come to the end with was seen before.
LEMMA OfferedSeen ==
  ASSUME WellPlanned, NEW F, NEW status, NEW control, NEW i \in Nat, NEW path,
         Standing(status, i + 1), Plain(F, control, i + 1), NEW q \in Pkgs,
         \A n \in DOMAIN plan : n = i => plan[n].pkg # q
  PROVE  Offers(Offered(status, control), q, path) \subseteq Seen(F, path, i)
<1> DEFINE current == Offered(status, control)
<1>1. \A n \in DOMAIN plan : Names[n] = plan[n].pkg /\ n \in Nat
  BY DEF Names, WellPlanned, IsSeq
<1>2. CASE DoneBy(q, i + 1)
  <2>1. PICK n \in DOMAIN plan : n < i /\ plan[n].pkg = q
    BY <1>1, <1>2 DEF DoneBy
  <2>2. current[q] = LastAlternatives[q]
    BY <1>2, OffersOf
  <2>3. Offers(current, q, path) = Offers(LastAlternatives, Names[n], path)
    BY <1>1, <2>1, <2>2 DEF Offers
  <2>4. n \in DOMAIN Names /\ Names[n] = q
    BY <2>1 DEF Names
  <2> QED BY <2>1, <2>3, <2>4, SeenIs
<1>3. CASE ~DoneBy(q, i + 1) /\ q \in Installed /\ F.info[q] = "old"
  <2>1. current[q] = OldAlternatives[q]
    BY <1>3, OffersOf DEF Plain
  <2>2. Offers(current, q, path) = Offers(OldAlternatives, q, path)
    BY <2>1 DEF Offers
  <2> QED BY <1>3, <2>2 DEF Seen, SeenOld, SeenNew, Counted
<1>4. CASE ~DoneBy(q, i + 1) /\ q \in Installed /\ F.info[q] = "new"
  <2>1. control[q] = "new" /\ q \in ToInstall
    BY <1>4 DEF Plain, FirstDb
  <2>2. PICK n \in DOMAIN plan : plan[n].pkg = q
    BY <2>1 DEF ToInstall
  <2>3. n > i
    BY <1>1, <1>4, <2>2 DEF DoneBy
  <2>4. current[q] = LastAlternatives[q]
    BY <1>4, <2>1, OffersOf DEF LastAlternatives
  <2>5. Offers(current, q, path) = Offers(LastAlternatives, Names[n], path)
    BY <1>1, <2>2, <2>4 DEF Offers
  <2>6. n \in DOMAIN Names /\ Names[n] = q
    BY <2>2 DEF Names
  <2> QED BY <1>4, <2>3, <2>5, <2>6, SeenIs
<1>5. CASE ~DoneBy(q, i + 1) /\ ~(q \in Installed /\ F.info[q] \in {"old", "new"})
  <2>1. current[q] = {}
    BY <1>5, OffersOf DEF Plain
  <2> QED BY <2>1 DEF Offers
<1> QED BY <1>2, <1>3, <1>4, <1>5

LEMMA MergeStands ==
  ASSUME Phase, Books, WellPlanned, mem.i \in Nat \ {0}, Opened, Moves, Infos, Merging, StatusMoves,
         ControlRead, MergeDone
  PROVE  /\ Oper.pkg \in ToInstall /\ Oper.pkg \in Pkgs /\ mem.i \in DOMAIN plan
         /\ DoneBy(Oper.pkg, mem.i + 1)
         /\ Standing(InstalledStatus, mem.i + 1) /\ Plain(fs, mem.control, mem.i + 1)
<1>1. pc = "merge" /\ pc \in AtMove
  BY DEF MergeDone, At, AtMove
<1>2. Oper.pkg \in ToInstall /\ Oper.pkg \in Pkgs /\ mem.i \in DOMAIN plan /\ More
  BY <1>1, OperInstalls DEF Moves
<1>3. \A p : DoneBy(p, mem.i + 1) <=> DoneBy(p, mem.i) \/ p = Oper.pkg
  BY <1>2, DoneNext
<1>4. mem.status \in [Pkgs -> PkgState]
  BY <1>1 DEF Books, StatusKnown, AtMove, Busy, AfterUnpacked
<1>5. ASSUME NEW p \in Pkgs
      PROVE  IF DoneBy(p, mem.i + 1) THEN Final(p, InstalledStatus[p]) ELSE InstalledStatus[p] = FirstDb[p]
  <2>1. IF DoneBy(p, mem.i) THEN Final(p, mem.status[p]) ELSE mem.status[p] = FirstDb[p]
    BY <1>1 DEF StatusMoves, DoneBy
  <2>2. CASE p = Oper.pkg
    BY <1>2, <1>3, <1>4, <2>2 DEF InstalledStatus, Final
  <2>3. CASE p # Oper.pkg
    BY <1>3, <1>4, <2>1, <2>3 DEF InstalledStatus
  <2> QED BY <2>2, <2>3
<1>6. ASSUME NEW p \in Pkgs, ~DoneBy(p, mem.i + 1)
      PROVE  mem.control[p] = fs.info[p] /\ (p \notin ToInstall => fs.info[p] = FirstDb[p])
  <2>1. ~DoneBy(p, mem.i) /\ \A n \in DOMAIN plan : n = mem.i => plan[n].pkg # p
    BY <1>3, <1>6 DEF Oper
  <2> QED BY <1>1, <2>1, NotDone
<1> QED BY <1>2, <1>3, <1>5, <1>6 DEF Standing, Plain

\* A link after a package was merged.
LEMMA MergedLink ==
  ASSUME NEW path \in LinkPaths, fs'.links \in Updated, Oper.pkg \in Pkgs
  PROVE  \E q : /\ Leads(Offered(InstalledStatus, mem.control), path, {}, q)
                /\ fs'.links[path] = IF q = Oper.pkg THEN Oper.pkg ELSE fs.links[path]
<1> DEFINE after == Offered(InstalledStatus, mem.control)
<1>1. FromFiles(after)
  BY OfferedFromFiles
<1>2. CASE Offers(after, Oper.pkg, path) = {}
  <2>1. fs'.links[path] = fs.links[path]
    BY <1>2, UpdatedIs
  <2>2. PICK q : Leads(after, path, {}, q)
    BY <1>1, SomeLeads
  <2>3. q # Oper.pkg
    BY <1>2, <2>2, AlternativesAssumption DEF Leads
  <2> QED BY <2>1, <2>2, <2>3
<1>3. CASE Offers(after, Oper.pkg, path) # {}
  <2>1. PICK q \in choose_alternative(after, path, {}) :
          fs'.links[path] = IF q = Oper.pkg THEN Oper.pkg ELSE fs.links[path]
    BY <1>3, UpdatedIs
  <2>2. Leads(after, path, {}, q)
    BY <1>1, <2>1, ChosenLeads
  <2> QED BY <2>1, <2>2
<1> QED BY <1>2, <1>3

LEMMA MergeLeads ==
  ASSUME Phase, Books, WellPlanned, mem.i \in Nat \ {0}, OnceEach, Opened, Moves, Infos, Merging, StatusMoves,
         ControlRead, MergeDone, fs'.links \in Updated, fs'.info = fs.info,
         NEW path \in LinkPaths, ~Demoted(path), ~Withdrawn(path), NEW m \in Nat, m >= mem.i, Led(fs, path, m)
  PROVE  \E k \in Nat \ {0} : k >= mem.i + 1 /\ Led(fs', path, k)
<1> DEFINE s == Oper.pkg
           after == Offered(InstalledStatus, mem.control)
<1>1. /\ s \in ToInstall /\ s \in Pkgs /\ mem.i \in DOMAIN plan /\ DoneBy(s, mem.i + 1)
      /\ Standing(InstalledStatus, mem.i + 1) /\ Plain(fs, mem.control, mem.i + 1)
  BY MergeStands
<1>2. FromFiles(after) /\ FromFiles(LastAlternatives)
  BY OfferedFromFiles
<1>3. Offering(after, path, Seen(fs, path, mem.i + 1))
  BY <1>1, SeenOffered
<1>4. PICK q : Leads(after, path, {}, q) /\ fs'.links[path] = IF q = s THEN s ELSE fs.links[path]
  BY <1>1, MergedLink
<1>5. \A k : Seen(fs', path, k) = Seen(fs, path, k)
  BY DEF Seen, SeenOld, SeenNew, Counted
<1>6. mem.i + 1 \in Nat \ {0}
  OBVIOUS
<1>7. CASE q = s
  <2>1. Offers(after, s, path) = Offers(LastAlternatives, s, path)
    BY <1>1, OffersOf DEF Offers
  <2>2. Covers(LastAlternatives, path, s, Seen(fs, path, mem.i + 1))
    BY <1>1, <1>2, <1>3, <1>4, <1>7, <2>1, CoversTaken
  <2>3. Led(fs', path, mem.i + 1)
    BY <1>4, <1>5, <1>7, <2>2 DEF Led
  <2> QED BY <1>6, <2>3
<1>8. CASE q # s /\ m # mem.i
  <2>1. Led(fs', path, m)
    BY <1>4, <1>5, <1>8 DEF Led
  <2> QED BY <1>8, <2>1
<1>9. CASE q # s /\ m = mem.i
  <2>1. q \in Pkgs => Offers(after, q, path) \subseteq Seen(fs, path, mem.i)
    BY <1>1, <1>9, OfferedSeen DEF Oper
  <2>2. Covers(LastAlternatives, path, fs.links[path], Seen(fs, path, mem.i + 1))
    BY <1>2, <1>3, <1>4, <1>9, <2>1, CoversStays DEF Led
  <2>3. Led(fs', path, mem.i + 1)
    BY <1>4, <1>5, <1>9, <2>2 DEF Led
  <2> QED BY <1>6, <2>3
<1> QED BY <1>7, <1>8, <1>9

LEMMA LedStays ==
  ASSUME NEW F, NEW G, NEW path, NEW m, G.links[path] = F.links[path],
         \A p \in Installed : G.info[p] = "old" => F.info[p] = "old",
         \A n \in DOMAIN plan : n > m /\ G.info[plan[n].pkg] = "new" => F.info[plan[n].pkg] = "new",
         Led(F, path, m)
  PROVE  Led(G, path, m)
<1>1. Seen(G, path, m) \subseteq Seen(F, path, m)
  BY DEF Seen, SeenOld, SeenNew, Counted, Names
<1> QED BY <1>1 DEF Led, Covers

\* What is known when a package goes.
LEMMA RemovalStands ==
  ASSUME Phase, Books, WellPlanned, mem.i \in Nat \ {0}, OnceEach, Opened, Moves, Infos, Merging, StatusMoves,
         ControlRead, MoveRemove
  PROVE  /\ Oper.pkg \notin ToInstall /\ Oper.pkg \in Pkgs /\ mem.i \in DOMAIN plan /\ Oper.op = "remove"
         /\ mem.status[Oper.pkg] = FirstDb[Oper.pkg]
         /\ \A path : Offers(Offered(mem.status, mem.control), Oper.pkg, path)
                        = IF Oper.pkg \in Installed THEN Offers(OldAlternatives, Oper.pkg, path) ELSE {}
<1>1. pc \in AtMove /\ More /\ Oper.op = "remove" /\ mem.i \in DOMAIN plan
  BY MoveRemoveDoes, OperPlanned DEF Phase, AtMove
<1>2. Oper.pkg \in Pkgs /\ Oper.pkg \notin ToInstall
  BY <1>1 DEF Oper, WellPlanned, ToInstall, OnceEach
<1>3. ~DoneBy(Oper.pkg, mem.i)
  BY <1>1 DEF DoneBy, OnceEach, Oper
<1>4. mem.status[Oper.pkg] = FirstDb[Oper.pkg]
  BY <1>1, <1>2, <1>3 DEF StatusMoves, DoneBy
<1>5. mem.control[Oper.pkg] = FirstDb[Oper.pkg]
  <2>1. \A n \in DOMAIN plan : n = mem.i /\ plan[n].op = "install" => plan[n].pkg # Oper.pkg
    BY <1>1 DEF Oper
  <2> QED BY <1>1, <1>2, <1>3, <2>1, NotDone
<1>6. Offered(mem.status, mem.control)[Oper.pkg] = IF Oper.pkg \in Installed THEN OldAlternatives[Oper.pkg] ELSE {}
  BY <1>2, <1>4, <1>5 DEF Offered, FirstDb
<1> QED BY <1>1, <1>2, <1>4, <1>6 DEF Offers

\* A link when a package goes.
LEMMA RemovedLink ==
  ASSUME NEW path \in LinkPaths,
         IF mem.status[Oper.pkg] \in {"old", "new"}
         THEN fs'.links \in pkg_remove_alternatives(Offered(mem.status, mem.control), fs.links, Oper.pkg)
         ELSE fs'.links = fs.links /\ Offers(Offered(mem.status, mem.control), Oper.pkg, path) = {}
  PROVE  IF Offers(Offered(mem.status, mem.control), Oper.pkg, path) = {} THEN fs'.links[path] = fs.links[path]
         ELSE Leads(Offered(mem.status, mem.control), path, {Oper.pkg}, fs'.links[path])
<1> DEFINE current == Offered(mem.status, mem.control)
           p == Oper.pkg
<1>1. FromFiles(current)
  BY OfferedFromFiles
<1> HIDE DEF current, p
<1>2. CASE mem.status[Oper.pkg] \in {"old", "new"}
  <2>1. fs'.links \in pkg_remove_alternatives(current, fs.links, p)
    BY <1>2 DEF current, p
  <2>2. IF Offers(current, p, path) = {} THEN fs'.links[path] = fs.links[path]
        ELSE fs'.links[path] \in choose_alternative(current, path, {p})
    BY <2>1, RemovedIs
  <2> QED BY <1>1, <2>2, ChosenLeads DEF current, p
<1> QED BY <1>2

\* The loop is not ahead of the links.
LEMMA LoopFlow ==
  ASSUME Phase, WellPlanned, mem.i \in Nat \ {0}, Moves, [Next]_vars, ~MergeDone, ~MoveRemove, pc' \in AtMove
  PROVE  (pc \in AtMove /\ mem'.i = mem.i) \/ (StartMove /\ mem'.i = 1)
<1>1. CASE Moving /\ ~MoveDone
  <2>1. mem'.i = mem.i
    BY <1>1, CountSteps DEF Phase
  <2>2. StartMove => mem.i = 1
    BY DEF Moves, StartMove, At, BeforeMove
  <2> QED BY <1>1, <2>1, <2>2, MovingLeaves DEF Phase
<1> QED BY <1>1, StageFlow DEF Came

LEMMA LedMoves ==
  ASSUME Phase, Books, WellPlanned, mem.i \in Nat \ {0}, OnceEach, Opened, Moves, Infos, Merging, StatusMoves,
         ControlRead, [Next]_vars, ~Crash, NEW path \in LinkPaths, ~Demoted(path), ~Withdrawn(path),
         NEW m \in Nat \ {0}, pc \in AtMove => m >= mem.i, Led(fs, path, m)
  PROVE  \E k \in Nat \ {0} : (pc' \in AtMove => k >= mem'.i) /\ Led(fs', path, k)
<1>1. CASE MergeDone
  <2>1. fs'.links \in Updated /\ fs'.info = fs.info /\ mem'.i = mem.i + 1 /\ pc \in AtMove
    BY <1>1, LinkSteps, CountSteps DEF MergeDone, At, AtMove, Phase, Moving, MoveRemove, Crash, MoveDone
  <2>2. m \in Nat /\ m >= mem.i
    BY <2>1
  <2>3. \E k \in Nat \ {0} : k >= mem.i + 1 /\ Led(fs', path, k)
    BY <1>1, <2>1, <2>2, MergeLeads
  <2> QED BY <2>1, <2>3
<1>2. CASE MoveRemove
  <2> DEFINE p == Oper.pkg
  <2>1. /\ p \notin ToInstall /\ p \in Pkgs /\ mem.i \in DOMAIN plan /\ Oper.op = "remove"
        /\ mem.status[p] = FirstDb[p]
        /\ Offers(Offered(mem.status, mem.control), p, path)
             = IF p \in Installed THEN Offers(OldAlternatives, p, path) ELSE {}
    BY <1>2, RemovalStands
  <2>2. p \in Installed => Offers(OldAlternatives, p, path) = {}
    BY <2>1 DEF Withdrawn, Leaves, Oper
  <2>3. /\ fs'.info = fs.info /\ mem'.i = mem.i + 1 /\ pc \in AtMove
        /\ IF mem.status[p] \in {"old", "new"}
           THEN fs'.links \in pkg_remove_alternatives(Offered(mem.status, mem.control), fs.links, p)
           ELSE fs'.links = fs.links
    BY <1>2, LinkSteps, MoveRemoveDoes DEF Phase, AtMove, Crash, MergeDone, MoveRemove, At
  <2>4. fs'.links[path] = fs.links[path]
    BY <2>1, <2>2, <2>3, RemovedLink
  <2>5. CASE m # mem.i
    <3>1. Led(fs', path, m)
      BY <2>3, <2>4, LedStays
    <3> QED BY <2>3, <2>5, <3>1
  <2>6. CASE m = mem.i
    <3>1. Offers(LastAlternatives, p, path) = {}
      <4>1. p \in ToRemove
        BY <2>1 DEF ToRemove, Oper
      <4>2. LastAlternatives[p] = {}
        BY <2>1, <4>1 DEF LastAlternatives
      <4> QED BY <4>2 DEF Offers
    <3>2. Seen(fs', path, mem.i + 1) \subseteq Seen(fs, path, mem.i)
      <4>1. \A j \in DOMAIN Names : j < mem.i + 1 => j < mem.i \/ Names[j] = p
        BY DEF Names, Oper, WellPlanned, IsSeq
      <4>2. \A j \in DOMAIN Names : j > mem.i + 1 => j > mem.i
        BY DEF Names, WellPlanned, IsSeq
      <4> HIDE DEF p
      <4> QED BY <2>3, <3>1, <4>1, <4>2 DEF Seen, SeenOld, SeenNew, Counted
    <3>3. Led(fs', path, mem.i + 1)
      BY <2>4, <2>6, <3>2 DEF Led, Covers
    <3>4. mem.i + 1 \in Nat \ {0}
      OBVIOUS
    <3> QED BY <2>3, <3>3, <3>4
  <2> QED BY <2>5, <2>6
<1>3. CASE ~MergeDone /\ ~MoveRemove
  <2>1. fs'.links = fs.links
    BY <1>3, LinkSteps
  <2>2. pc' \in AtMove => m >= mem'.i
    BY <1>3, LoopFlow
  <2>3. CASE fs'.info = fs.info
    <3>1. Led(fs', path, m)
      BY <2>1, <2>3, LedStays
    <3> QED BY <2>2, <3>1
  <2>4. CASE DropControl \/ CopyControl
    <3>1. pc = "control" /\ pc \in AtMove /\ fs'.info = [fs.info EXCEPT ![Oper.pkg] = IF DropControl THEN "none" ELSE "new"]
      BY <2>4 DEF DropControl, CopyControl, At, AtMove, Turn, Goto, Phase, Shape, Parts
    <3>2. mem.i \in DOMAIN plan /\ DOMAIN plan \subseteq Nat
      BY <3>1, OperInstalls DEF WellPlanned, IsSeq
    <3>3. \A n \in DOMAIN plan : n > m => plan[n].pkg # Oper.pkg
      BY <3>1, <3>2 DEF OnceEach, Oper
    <3>4. \A p \in Installed : fs'.info[p] = "old" => fs.info[p] = "old"
      BY <3>1, SetsAssumption DEF Infos
    <3>5. \A n \in DOMAIN plan : n > m /\ fs'.info[plan[n].pkg] = "new" => fs.info[plan[n].pkg] = "new"
      BY <3>1, <3>3 DEF Infos, WellPlanned
    <3>6. Led(fs', path, m)
      BY <2>1, <3>4, <3>5, LedStays
    <3> QED BY <2>2, <3>6
  <2>5. CASE ControlCleanup
    <3>1. \A p \in Pkgs : fs'.info[p] \in {fs.info[p], "none"}
      BY <2>5 DEF ControlCleanup, Goto, Infos, Phase, Shape, Parts
    <3>2. \A n \in DOMAIN plan : plan[n].pkg \in Pkgs
      BY DEF WellPlanned
    <3>3. Led(fs', path, m)
      BY <2>1, <3>1, <3>2, SetsAssumption, LedStays
    <3> QED BY <2>2, <3>3
  <2> QED BY <2>3, <2>4, <2>5, InfoSteps
<1> QED BY <1>1, <1>2, <1>3

LEMMA LinkingKept ==
  ASSUME Phase, Books, WellPlanned, mem.i \in Nat \ {0}, OnceEach, Opened, Moves, Infos, Merging, StatusMoves,
         ControlRead, Linking, [Next]_vars
  PROVE  Linking'
<1>1. /\ Names' = Names /\ LastAlternatives' = LastAlternatives
      /\ \A path : (Demoted(path)' <=> Demoted(path)) /\ (Withdrawn(path)' <=> Withdrawn(path))
  BY PlanKept, SameLeaves
<1>2. ASSUME NEW path \in LinkPaths, ~Demoted(path), ~Withdrawn(path)
      PROVE  /\ \E k \in Nat \ {0} : (pc' \in AtMove => k >= mem'.i) /\ Led(fs', path, k)
             /\ \E k \in Nat \ {0} : Led(disk', path, k)
  <2>1. PICK m \in Nat \ {0} : (pc \in AtMove => m >= mem.i) /\ Led(fs, path, m)
    BY <1>2 DEF Linking
  <2>2. PICK d \in Nat \ {0} : Led(disk, path, d)
    BY <1>2 DEF Linking
  <2>3. CASE Crash
    <3>1. fs' \in {fs, disk} /\ disk' = fs' /\ pc' \notin AtMove
      BY <2>3 DEF Crash, AtMove
    <3> QED BY <2>1, <2>2, <3>1
  <2>4. CASE ~Crash
    <3>1. disk' \in {disk, fs}
      BY <2>4, LinkSteps
    <3>2. \E k \in Nat \ {0} : (pc' \in AtMove => k >= mem'.i) /\ Led(fs', path, k)
      BY <1>2, <2>1, <2>4, LedMoves
    <3> QED BY <2>1, <2>2, <3>1, <3>2
  <2> QED BY <2>3, <2>4
<1>3. ASSUME NEW path, NEW k PROVE (Led(fs', path, k) => Led(fs, path, k)') /\ (Led(disk', path, k) => Led(disk, path, k)')
  BY <1>1 DEF Led, Seen, SeenOld, SeenNew, Counted, Covers
<1>4. LinkPaths' = LinkPaths /\ AtMove' = AtMove
  BY DEF AtMove
<1> QED BY <1>1, <1>2, <1>3, <1>4 DEF Linking

LEMMA LeadsOn ==
  ASSUME NEW before, NEW after, NEW path, NEW p \in Pkgs, NEW r,
         \A s \in Pkgs \ {p} : Offers(after, s, path) = Offers(before, s, path),
         Offers(after, p, path) = {},
         \/ Leads(before, path, {p}, r)
         \/ Leads(before, path, {}, r) /\ Offers(before, p, path) = {}
  PROVE  Leads(after, path, {}, r)
<1>1. CASE r = NoLink
  BY <1>1 DEF Leads
<1>2. CASE r # NoLink
  <2>1. PICK best \in Offers(before, r, path) :
          \A s \in Pkgs \ {p} : \A alt \in Offers(before, s, path) : best.priority >= alt.priority
    BY <1>2 DEF Leads
  <2>2. r \in Pkgs \ {p}
    BY <1>2, <2>1 DEF Leads
  <2> QED BY <1>2, <2>1, <2>2 DEF Leads
<1> QED BY <1>1, <1>2

LEMMA RelinkedKept ==
  ASSUME Phase, Books, WellPlanned, mem.i \in Nat \ {0}, OnceEach, Opened, Moves, Infos, Merging, StatusMoves,
         ControlRead, Relinked, [Next]_vars
  PROVE  Relinked'
<1>1. \A path : /\ (Demoted(path)' <=> Demoted(path)) /\ (Withdrawn(path)' <=> Withdrawn(path))
                /\ \A i : Awaited(path, i)' <=> Awaited(path, i)
  BY PlanKept, SameLeaves
<1> DEFINE before == Offered(mem.status, mem.control)
           after == Offered(mem'.status, mem'.control)
<1>2. DOMAIN plan \subseteq Nat \ {0}
  BY DEF WellPlanned, IsSeq
<1>3. ASSUME pc' \in AtMove, NEW path \in LinkPaths, ~Demoted(path), Withdrawn(path)
      PROVE  Awaited(path, mem'.i) \/ Leads(after, path, {}, fs'.links[path])
  <2>1. CASE MergeDone
    <3> DEFINE s == Oper.pkg
    <3>1. /\ s \in ToInstall /\ s \in Pkgs /\ mem.i \in DOMAIN plan /\ pc = "merge" /\ pc \in AtMove
      BY <2>1, MergeStands DEF MergeDone, At, AtMove
    <3>2. /\ fs'.links \in Updated /\ mem'.i = mem.i + 1 /\ mem'.control = mem.control
          /\ mem'.status = InstalledStatus
      BY <2>1, LinkSteps, CountSteps, ControlSteps
         DEF MergeDone, At, Goto, NextOper, Phase, Shape, Variables, Moving, MoveRemove, Crash, MoveDone, Perform,
             RecoverTransaction
    <3>3. CASE Awaited(path, mem.i)
      <4>1. PICK n \in DOMAIN plan : n >= mem.i /\ Leaves(n, path)
        BY <3>3 DEF Awaited
      <4>2. Oper.op = "install"
        BY <3>1 DEF Moves
      <4>3. n # mem.i
        BY <4>1, <4>2 DEF Leaves, Oper
      <4>4. n >= mem.i + 1
        BY <1>2, <4>1, <4>3
      <4> QED BY <3>2, <4>1, <4>4 DEF Awaited
    <3>4. CASE Leads(before, path, {}, fs.links[path])
      <4>1. PICK q : Leads(after, path, {}, q) /\ fs'.links[path] = IF q = s THEN s ELSE fs.links[path]
        BY <3>1, <3>2, MergedLink
      <4>2. \A t \in Pkgs \ {s} : Offers(after, t, path) = Offers(before, t, path)
        <5>1. mem.status \in [Pkgs -> PkgState]
          BY <3>1 DEF Books, StatusKnown, AtMove, Busy, AfterUnpacked
        <5>2. \A t \in Pkgs \ {s} : after[t] = before[t]
          BY <3>2, <5>1 DEF Offered, InstalledStatus
        <5> QED BY <5>2 DEF Offers
      <4>3. after[s] = NewAlternatives[s]
        <5>1. mem.status \in [Pkgs -> PkgState]
          BY <3>1 DEF Books, StatusKnown, AtMove, Busy, AfterUnpacked
        <5> QED BY <3>1, <3>2, <5>1 DEF Offered, InstalledStatus
      <4>4. before[s] \in {NewAlternatives[s], {}} \/ (s \in Installed /\ before[s] = OldAlternatives[s])
        <5>1. ~DoneBy(s, mem.i)
          BY <3>1 DEF DoneBy, OnceEach, Oper
        <5>2. mem.status[s] = FirstDb[s]
          BY <3>1, <5>1 DEF StatusMoves, DoneBy
        <5> QED BY <3>1, <5>2 DEF Offered, FirstDb
      <4>5. ASSUME NEW old \in Offers(before, s, path)
            PROVE  \E new \in Offers(after, s, path) : new.priority >= old.priority
        <5>1. CASE before[s] = NewAlternatives[s]
          <6>1. old \in Offers(after, s, path) /\ old.priority \in Nat
            BY <3>1, <4>3, <5>1, AlternativesAssumption DEF Offers, Alternative
          <6> QED BY <6>1
        <5>2. CASE s \in Installed /\ before[s] = OldAlternatives[s]
          <6>1. old \in Offers(OldAlternatives, s, path) /\ old.priority \in Nat
            BY <3>1, <5>2, AlternativesAssumption DEF Offers, Alternative
          <6>2. PICK new \in Offers(NewAlternatives, s, path) : ~(new.priority < old.priority)
            BY <1>3, <3>1, <5>2, <6>1 DEF Demoted
          <6>3. new \in Offers(after, s, path) /\ new.priority \in Nat
            BY <3>1, <4>3, <6>2, AlternativesAssumption DEF Offers, Alternative
          <6> QED BY <6>1, <6>2, <6>3
        <5>3. before[s] # {}
          BY DEF Offers
        <5> HIDE DEF before, after, s
        <5> QED BY <4>4, <5>1, <5>2, <5>3
      <4>6. FromFiles(before) /\ FromFiles(after)
        BY OfferedFromFiles
      <4> HIDE DEF before, after, s
      <4> QED BY <3>1, <3>4, <4>1, <4>2, <4>5, <4>6, LinkUpdated
    <3> QED BY <1>3, <3>1, <3>3, <3>4 DEF Relinked
  <2>2. CASE MoveRemove
    <3> DEFINE p == Oper.pkg
    <3>1. /\ p \notin ToInstall /\ p \in Pkgs /\ mem.i \in DOMAIN plan /\ Oper.op = "remove"
          /\ mem.status[p] = FirstDb[p]
          /\ Offers(before, p, path) = IF p \in Installed THEN Offers(OldAlternatives, p, path) ELSE {}
      BY <2>2, RemovalStands
    <3>2. /\ mem'.i = mem.i + 1 /\ pc \in AtMove /\ mem'.control = mem.control
          /\ IF mem.status[p] \in {"old", "new"}
             THEN fs'.links \in pkg_remove_alternatives(before, fs.links, p)
             ELSE fs'.links = fs.links
      BY <2>2, LinkSteps, ControlSteps, MoveRemoveDoes
         DEF Phase, AtMove, Crash, MergeDone, MoveRemove, At, Perform, RecoverTransaction
    <3>3. mem.status \in [Pkgs -> PkgState]
      BY <3>2 DEF Books, StatusKnown, AtMove, Busy, AfterUnpacked
    <3>4. /\ \A t \in Pkgs \ {p} : mem'.status[t] = mem.status[t]
          /\ mem'.status[p] \in {"none", "config"}
      <4>1. mem'.status = IF mem.status[p] \in {"old", "new"}
                          THEN [mem.status EXCEPT ![p] = IF KeptConfigs(p) = {} THEN "none" ELSE "config"]
                          ELSE mem.status
        BY <2>2, RemovalTells DEF Phase
      <4>2. mem.status[p] \in {"old", "none"}
        BY <3>1 DEF FirstDb
      <4> HIDE DEF p
      <4> QED BY <3>1, <3>3, <4>1, <4>2
    <3>5. /\ \A t \in Pkgs \ {p} : Offers(after, t, path) = Offers(before, t, path)
          /\ Offers(after, p, path) = {}
      <4>1. \A t \in Pkgs \ {p} : after[t] = before[t]
        BY <3>2, <3>4 DEF Offered
      <4>2. after[p] = {}
        BY <3>1, <3>4 DEF Offered
      <4> QED BY <4>1, <4>2 DEF Offers
    <3>6. IF Offers(before, p, path) = {} THEN fs'.links[path] = fs.links[path]
          ELSE Leads(before, path, {p}, fs'.links[path])
      <4>1. mem.status[p] \notin {"old", "new"} => Offers(before, p, path) = {}
        BY <3>1 DEF FirstDb
      <4> QED BY <3>2, <4>1, RemovedLink
    <3>7. CASE Offers(before, p, path) # {}
      <4> HIDE DEF before, after, p
      <4> QED BY <3>1, <3>5, <3>6, <3>7, LeadsOn
    <3>8. CASE Offers(before, p, path) = {} /\ Leads(before, path, {}, fs.links[path])
      <4> HIDE DEF before, after, p
      <4> QED BY <3>1, <3>5, <3>6, <3>8, LeadsOn
    <3>9. CASE Offers(before, p, path) = {} /\ Awaited(path, mem.i)
      <4>1. PICK n \in DOMAIN plan : n >= mem.i /\ Leaves(n, path)
        BY <3>9 DEF Awaited
      <4>2. n # mem.i
        BY <3>1, <3>9, <4>1 DEF Leaves, Oper
      <4>3. n >= mem.i + 1
        BY <1>2, <4>1, <4>2
      <4> QED BY <3>2, <4>1, <4>3 DEF Awaited
    <3> QED BY <1>3, <3>2, <3>7, <3>8, <3>9 DEF Relinked
  <2>3. CASE ~MergeDone /\ ~MoveRemove
    <3>1. fs'.links = fs.links \/ pc' \notin AtMove
      BY <2>3, LinkSteps DEF Crash, AtMove
    <3>2. CASE StartMove /\ mem'.i = 1
      BY <1>2, <1>3, <3>2 DEF Withdrawn, Awaited
    <3>3. CASE pc \in AtMove /\ mem'.i = mem.i
      <4>1. mem'.control = mem.control /\ mem'.status = mem.status
        BY <2>3, <3>3, ControlSteps, StatusSteps DEF Perform, RecoverTransaction, ReplayMove, ReplayScripts, At, AtMove
      <4> QED BY <1>3, <3>1, <3>3, <4>1 DEF Relinked
    <3> QED BY <1>3, <2>3, <3>2, <3>3, LoopFlow
  <2> QED BY <2>1, <2>2, <2>3
<1>4. ASSUME NEW path, Leads(after, path, {}, fs'.links[path])
      PROVE  Leads(Offered(mem.status, mem.control), path, {}, fs.links[path])'
  BY <1>4 DEF Leads, Offered
<1>5. AtMove' = AtMove
  BY DEF AtMove
<1> HIDE DEF before, after
<1>6. ASSUME NEW path, Awaited(path, mem'.i) PROVE Awaited(path, mem.i)'
  BY <1>6, PlanKept DEF Awaited, Leaves, SamePlan
<1> QED BY <1>1, <1>3, <1>4, <1>5, <1>6 DEF Relinked

\* The links when all is moved.
Linked == "MOVED" \in StoredTypes \/ pc = "done" =>
            \A path \in LinkPaths : \/ Demoted(path)
                                    \/ /\ Leads(LastAlternatives, path, {}, fs.links[path])
                                       /\ Leads(LastAlternatives, path, {}, disk.links[path])

LEMMA MoveLinks ==
  ASSUME Phase, Books, WellPlanned, mem.i \in Nat \ {0}, Opened, Moves, Infos, Merging, StatusMoves,
         ControlRead, Linking, Relinked, pc = "gone", NEW path \in LinkPaths, ~Demoted(path)
  PROVE  Leads(LastAlternatives, path, {}, fs.links[path])
<1>1. pc \in AtMove /\ \A n \in DOMAIN plan : n < mem.i
  BY DEF Moves, AtMove, More, WellPlanned, IsSeq
<1>2. DOMAIN plan \subseteq Nat
  BY DEF WellPlanned, IsSeq
<1>3. \A p : DoneBy(p, mem.i) <=> p \in ToRemove
  BY <1>1 DEF DoneBy, ToRemove
<1>4. ASSUME NEW p \in Pkgs, p \notin ToRemove PROVE mem.control[p] = FirstDb[p] /\ fs.info[p] = FirstDb[p]
  <2>1. p \notin ToInstall /\ ~DoneBy(p, mem.i)
    BY <1>3, <1>4 DEF ToInstall, ToRemove
  <2>2. \A n \in DOMAIN plan : n = mem.i /\ plan[n].op = "install" => plan[n].pkg # p
    BY <1>1, <1>2
  <2> QED BY <1>1, <2>1, <2>2, NotDone
<1>5. CASE Withdrawn(path)
  <2>1. Leads(Offered(mem.status, mem.control), path, {}, fs.links[path])
    BY <1>1, <1>2, <1>5 DEF Relinked, Awaited
  <2>2. Standing(mem.status, mem.i)
    BY <1>1 DEF StatusMoves, Standing, DoneBy
  <2>3. ASSUME NEW p \in Pkgs PROVE Offered(mem.status, mem.control)[p] = LastAlternatives[p]
    <3>1. CASE p \in ToRemove
      BY <1>3, <2>2, <3>1, OffersOf
    <3>2. CASE p \notin ToRemove
      <4>1. p \notin ToInstall
        BY <3>2 DEF ToInstall, ToRemove
      <4> QED BY <1>3, <1>4, <2>2, <3>2, <4>1, OffersOf DEF LastAlternatives, FirstDb
    <3> QED BY <3>1, <3>2
  <2>4. \A p \in Pkgs : Offers(Offered(mem.status, mem.control), p, path) = Offers(LastAlternatives, p, path)
    BY <2>3 DEF Offers
  <2> QED BY <2>1, <2>4 DEF Leads
<1>6. CASE ~Withdrawn(path)
  <2>1. PICK m \in Nat \ {0} : m >= mem.i /\ Led(fs, path, m)
    BY <1>1, <1>6 DEF Linking
  <2>2. ASSUME NEW p \in Pkgs PROVE Offers(LastAlternatives, p, path) \subseteq Seen(fs, path, m)
    <3>1. CASE p \in ToRemove
      <4>1. PICK n \in DOMAIN plan : plan[n].pkg = p
        BY <3>1 DEF ToRemove
      <4>2. n \in Nat /\ m \in Nat /\ mem.i \in Nat /\ n < mem.i /\ m >= mem.i
        BY <1>1, <1>2, <2>1
      <4>3. n < m
        BY <4>2
      <4>4. n \in DOMAIN Names /\ Names[n] = p
        BY <4>1 DEF Names
      <4> QED BY <4>3, <4>4, SeenIs
    <3>2. CASE p \notin ToRemove
      <4>1. p \notin ToInstall
        BY <3>2 DEF ToInstall, ToRemove
      <4>2. LastAlternatives[p] = IF p \in Installed THEN OldAlternatives[p] ELSE {}
        BY <3>2, <4>1 DEF LastAlternatives
      <4>3. CASE p \in Installed
        <5>1. fs.info[p] = "old"
          BY <1>4, <3>2, <4>3 DEF FirstDb
        <5> QED BY <4>2, <4>3, <5>1 DEF Seen, SeenOld, SeenNew, Counted, Offers
      <4>4. CASE p \notin Installed
        BY <4>2, <4>4 DEF Offers
      <4> QED BY <4>3, <4>4
    <3> QED BY <3>1, <3>2
  <2>3. Covers(LastAlternatives, path, fs.links[path], Seen(fs, path, m))
    BY <2>1 DEF Led
  <2> QED BY <2>2, <2>3 DEF Covers, Leads
<1> QED BY <1>5, <1>6

LEMMA LinkedKept ==
  ASSUME Phase, Books, WellPlanned, mem.i \in Nat \ {0}, Opened, Moves, Infos, Merging, StatusMoves,
         ControlRead, Linking, Relinked, Linked, [Next]_vars
  PROVE  Linked'
<1>1. LastAlternatives' = LastAlternatives /\ \A path : Demoted(path)' <=> Demoted(path)
  BY PlanKept, SameLeaves
<1>2. ASSUME \A path \in LinkPaths : \/ Demoted(path)
                                     \/ /\ Leads(LastAlternatives, path, {}, fs'.links[path])
                                        /\ Leads(LastAlternatives, path, {}, disk'.links[path])
      PROVE  Linked'
  <2>1. ASSUME NEW path PROVE /\ Leads(LastAlternatives, path, {}, fs'.links[path])
                                   => Leads(LastAlternatives, path, {}, fs.links[path])'
                              /\ Leads(LastAlternatives, path, {}, disk'.links[path])
                                   => Leads(LastAlternatives, path, {}, disk.links[path])'
    BY <1>1 DEF Leads
  <2> QED BY <1>1, <1>2, <2>1 DEF Linked
<1>3. ASSUME "MOVED" \in StoredTypes \/ pc = "done",
             fs'.links \in {fs.links, disk.links}, disk'.links \in {fs.links, disk.links}
      PROVE  Linked'
  BY <1>2, <1>3 DEF Linked
<1>4. CASE pc' = "done"
  <2>1. CASE UNCHANGED vars
    BY <1>3, <1>4, <2>1 DEF vars
  <2>2. CASE JournalRemoved /\ pc = "finish"
    <3>1. "MOVED" \in StoredTypes
      BY <2>2, JournaledIsStored DEF Phase, Progress
    <3> QED BY <1>3, <2>2, <3>1 DEF JournalRemoved
  <2> QED BY <1>4, <2>1, <2>2, EndFlow
<1>5. CASE "MOVED" \in StoredTypes'
  <2>1. "MOVED" \in StoredTypes \/ (Commits /\ "MOVED" = rec'.type)
    BY <1>5, TypeFlow
  <2>2. CASE Commits /\ "MOVED" = rec'.type
    <3>1. MoveDone /\ fs' = fs
      BY <2>2, CommitOf
    <3>2. disk' = fs /\ pc = "gone"
      BY <3>1 DEF MoveDone, Commit, At
    <3> QED BY <1>2, <3>1, <3>2, MoveLinks
  <2>3. CASE "MOVED" \in StoredTypes
    <3>1. ~(pc \in AtMove /\ op = "idle")
      BY <2>3, NotYet DEF Merging
    <3>2. ~MergeDone /\ ~MoveRemove
      BY <3>1 DEF MergeDone, MoveRemove, At, AtMove
    <3>3. fs'.links \in {fs.links, disk.links} /\ disk'.links \in {fs.links, disk.links}
      BY <3>2, LinkSteps
    <3> QED BY <1>3, <2>3, <3>3
  <2> QED BY <2>1, <2>2, <2>3
<1> QED BY <1>4, <1>5 DEF Linked

LEMMA LinkingFirst ==
  ASSUME Init
  PROVE  Linking /\ Relinked /\ Linked /\ ControlRead /\ InfoKept
<1> DEFINE first == [p \in Pkgs |-> IF p \in Installed THEN OldAlternatives[p] ELSE {}]
<1>1. pc = "down" /\ acked = <<>> /\ op = "idle" /\ file = <<>> /\ disk = fs /\ fs.info = FirstDb
  BY DEF Init, JInit, FirstDb
<1>2. StoredTypes = {}
  BY <1>1 DEF Stored, StoredTypes, Pending, Writing
<1>3. Relinked /\ Linked /\ ControlRead /\ InfoKept
  BY <1>1, <1>2 DEF Relinked, Linked, ControlRead, InfoKept, AtMove, BeforeMove
<1>4. FromFiles(first)
  BY DEF FromFiles, AllAlternatives
<1>5. \A path \in LinkPaths : fs.links[path] \in choose_alternative(first, path, {})
  BY DEF Init
<1>6. \A n \in DOMAIN plan : Names[n] = plan[n].pkg /\ Names[n] \in Pkgs /\ n \in Nat \ {0}
  BY PlannedFirst DEF Names, WellPlanned, IsSeq
<1> HIDE DEF first
<1>7. ASSUME NEW path \in LinkPaths, ~Demoted(path), ~Withdrawn(path) PROVE Led(fs, path, 1)
  <2> DEFINE r == fs.links[path]
  <2>1. Leads(first, path, {}, r)
    BY <1>4, <1>5, ChosenLeads
  <2>2. \A p \in Pkgs : \A alt \in Offers(first, p, path) : alt.priority \in Nat
    BY <1>4, PrioritiesNatural
  <2>3. ASSUME NEW alt \in Seen(fs, path, 1) PROVE \E p \in Pkgs : alt \in Offers(first, p, path)
    <3>1. \A n \in DOMAIN Names : ~(n < 1) /\ fs.info[Names[n]] # "new"
      BY <1>1, <1>6 DEF Names, FirstDb
    <3>2. PICK p \in Installed : alt \in Offers(OldAlternatives, p, path)
      BY <3>1 DEF Seen, SeenOld, SeenNew, Counted
    <3> QED BY <3>2, SetsAssumption DEF Offers, first
  <2>4. CASE r = NoLink
    BY <2>1, <2>3, <2>4 DEF Leads, Led, Covers
  <2>5. CASE r # NoLink
    <3>1. PICK best \in Offers(first, r, path) :
            \A p \in Pkgs : \A alt \in Offers(first, p, path) : best.priority >= alt.priority
      BY <2>1, <2>5 DEF Leads
    <3>2. r \in Pkgs
      BY <2>1, <2>5 DEF Leads
    <3>3. r \in Installed /\ best \in Offers(OldAlternatives, r, path) /\ best.priority \in Nat
      BY <2>2, <3>1, <3>2 DEF Offers, first
    <3>4. \E own \in Offers(LastAlternatives, r, path) : own.priority \in Nat /\ own.priority >= best.priority
      <4>1. CASE r \in ToInstall
        <5>1. PICK new \in Offers(NewAlternatives, r, path) : ~(new.priority < best.priority)
          BY <1>7, <3>3, <4>1 DEF Demoted
        <5>2. new \in Offers(LastAlternatives, r, path) /\ new.priority \in Nat
          BY <3>2, <4>1, <5>1, AlternativesAssumption DEF Offers, LastAlternatives, Alternative
        <5> QED BY <3>3, <5>1, <5>2
      <4>2. CASE r \in ToRemove /\ r \notin ToInstall
        <5>1. PICK n \in DOMAIN plan : plan[n].pkg = r
          BY <4>2 DEF ToRemove
        <5>2. plan[n].op = "remove"
          BY <4>2, <5>1, PlannedFirst DEF ToInstall, WellPlanned
        <5> QED BY <1>7, <3>3, <5>1, <5>2 DEF Withdrawn, Leaves
      <4>3. CASE r \notin ToRemove /\ r \notin ToInstall
        BY <3>2, <3>3, <4>3 DEF LastAlternatives, Offers
      <4> QED BY <4>1, <4>2, <4>3
    <3>5. PICK own \in Offers(LastAlternatives, r, path) : own.priority \in Nat /\ own.priority >= best.priority
      BY <3>4
    <3>6. ASSUME NEW alt \in Seen(fs, path, 1) PROVE own.priority >= alt.priority
      <4>1. best.priority >= alt.priority /\ alt.priority \in Nat
        BY <2>2, <2>3, <3>1
      <4> QED BY <3>3, <3>5, <4>1
    <3> HIDE DEF r
    <3>7. Covers(LastAlternatives, path, r, Seen(fs, path, 1))
      BY <2>5, <3>2, <3>6 DEF Covers
    <3> QED BY <3>7 DEF Led, r
  <2> QED BY <2>4, <2>5
<1>8. 1 \in Nat \ {0}
  OBVIOUS
<1> QED BY <1>1, <1>3, <1>7, <1>8 DEF Linking, AtMove

\* What the links lead to the best alternatives by.
Leading == ControlRead /\ InfoKept /\ Linking /\ Relinked /\ Linked

LEMMA LeadingKept ==
  ASSUME Phase, Books, WellPlanned, Kempt, Configured, Arriving, Tally, Telling, Leading, [Next]_vars
  PROVE  Leading'
  BY ControlReadKept, InfoKeptKept, LinkingKept, RelinkedKept, LinkedKept
  DEF Kempt, Configured, Arriving, Tally, Telling, Leading

\* From the links when all is moved to those of the packages in the status file.
LEMMA LinkedBest ==
  ASSUME Telling, Leading
  PROVE  AlternativesBest
<1> SUFFICES ASSUME pc = "done", NEW path \in LinkPaths, ~Demoted(path)
             PROVE  fs.links[path] \in choose_alternative(Offered(fs.db, fs.info), path, {})
  BY DEF AlternativesBest, LinksBest
<1>1. ASSUME NEW p \in Pkgs PROVE Offered(fs.db, fs.info)[p] = LastAlternatives[p]
  <2>1. Final(p, fs.db[p])
    BY DEF Telling, StatusDumped, Written
  <2>2. p \notin ToRemove => p \notin ToInstall /\ fs.info[p] = FirstDb[p]
    BY DEF Leading, InfoKept, ToInstall, ToRemove
  <2>3. CASE p \in ToInstall
    BY <2>1, <2>3 DEF Final, Offered, LastAlternatives
  <2>4. CASE p \in ToRemove /\ p \notin ToInstall
    BY <2>1, <2>4 DEF Final, Offered, LastAlternatives
  <2>5. CASE p \notin ToRemove
    BY <2>1, <2>2, <2>5 DEF Final, Offered, LastAlternatives, FirstDb
  <2> QED BY <2>3, <2>4, <2>5
<1>2. Offered(fs.db, fs.info) = LastAlternatives
  BY <1>1 DEF Offered, LastAlternatives
<1>3. Leads(LastAlternatives, path, {}, fs.links[path])
  BY DEF Leading, Linked
<1>4. FromFiles(LastAlternatives)
  BY OfferedFromFiles
<1> QED BY <1>2, <1>3, <1>4, ChosenLeads

(* Every link leads in the end to the best alternative the installed       *)
(* packages offer, unless a new version offers less than the old one: over *)
(* any crashes, and although an update only ever points a link to the      *)
(* package that is updated, and a process started after a crash reads      *)
(* control files that are new of packages whose status is old              *)
(* (pkg_update_alternatives, pkg_remove_alternatives, status_parse).       *)
THEOREM LinksLead == ASSUME Reliable PROVE Spec /\ OnceEach /\ []RoundTrip => []AlternativesBest
<1>1. Init => Leading
  BY LinkingFirst DEF Leading
<1>2. /\ Phase /\ Books /\ WellPlanned /\ Kempt /\ Configured /\ Arriving /\ Tally /\ Telling /\ Leading
      /\ [Next]_vars
      => Leading'
  BY LeadingKept
<1>3. Telling /\ Leading => AlternativesBest
  BY LinkedBest
<1> QED BY <1>1, <1>2, <1>3, PhaseCorrect, BooksCorrect, KemptCorrect, ConfiguredCorrect, ArrivingCorrect,
           TallyCorrect, TellingCorrect, PTL DEF Spec
=============================================================================
