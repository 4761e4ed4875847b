--------------------------- MODULE JournalProofs ---------------------------
(***************************************************************************)
(* Proofs about the journal, for every record size, set of parameters and  *)
(* bound of the file's length.                                             *)
(***************************************************************************)
EXTENDS Journal, SequenceTheorems, TLAPS

\* What the process is in the middle of, and what it has open meanwhile.
Control ==
  /\ op \in Writing => fd = "open" /\ rec \in Records
  /\ op \notin Writing => written = 0
  /\ op = "unlink" => fd = "closed" /\ rec = NoRecord
  /\ op = "idle" /\ fd = "open" => rec = NoRecord
  /\ fd = "open" \/ op # "idle" => exists
  /\ ~exists => file = <<>> /\ acked = <<>>

\* The file: the acknowledged records, whole, and maybe a part of rec.
Contents ==
  /\ AckedReadable
  /\ Len(file) # Len(acked) => rec \in Records /\ file[Len(file)].rec = rec
  /\ op \in Writing => IF written = 0
                       THEN Len(file) = Len(acked)
                       ELSE Len(file) = Len(acked) + 1 /\ file[Len(file)].len = written

IInv == JTypeOK /\ Control /\ Contents

USE DEF SizeAssumption, ParamsAssumption, NoRecordAssumption, BoundAssumption
USE SizeAssumption, ParamsAssumption, NoRecordAssumption, BoundAssumption

LEMMA ConstantRecords == Start \in Records /\ Finish \in Records /\ NoRecord \notin Records
  BY DEF Start, Finish, Records, RecordTypes

LEMMA FrameFields ==
  ASSUME NEW r, NEW n
  PROVE  Frame(r, n).rec = r /\ Frame(r, n).len = n
BY DEF Frame

LEMMA InitIInv == JInit => IInv
<1> SUFFICES ASSUME JInit PROVE IInv
  OBVIOUS
<1>1. file = <<>> /\ acked = <<>> /\ Len(file) = 0 /\ Len(acked) = 0
  BY DEF JInit
<1>2. file \in Seq(Frames) /\ acked \in Seq(Records)
  BY <1>1
<1>3. JTypeOK
  <2>1. written \in 0..RecordSize
    BY DEF JInit
  <2>2. exists \in BOOLEAN /\ fd \in {"open", "closed"} /\ op \in Ops
    BY DEF JInit, Ops
  <2>3. rec \in Records \cup {NoRecord}
    BY DEF JInit
  <2> QED BY <1>2, <2>1, <2>2, <2>3 DEF JTypeOK
<1>4. Control
  BY DEF JInit, Control, Writing
<1>5. Contents
  BY <1>1 DEF JInit, Contents, AckedReadable, Writing
<1> QED BY <1>3, <1>4, <1>5 DEF IInv

\* The three functions that enter journal_write.
LEMMA EnterIInv ==
  ASSUME IInv, Fresh \/ (\E r \in Records : Write(r)) \/ (\E keep \in BOOLEAN : StartFinish(keep))
  PROVE  IInv'
<1>1. CASE Fresh
  BY <1>1, ConstantRecords
  DEF Fresh, EnterWrite, IInv, JTypeOK, Control, Contents, AckedReadable, Ops, Writing
<1>2. ASSUME NEW r \in Records, Write(r) PROVE IInv'
  BY <1>2 DEF Write, EnterWrite, IInv, JTypeOK, Control, Contents, AckedReadable, Ops, Writing
<1>3. ASSUME NEW keep \in BOOLEAN, StartFinish(keep) PROVE IInv'
  BY <1>3, ConstantRecords
  DEF StartFinish, EnterWrite, IInv, JTypeOK, Control, Contents, AckedReadable, Ops, Writing
<1> QED BY <1>1, <1>2, <1>3

LEMMA WriteUnitsIInv ==
  ASSUME IInv, NEW n \in 1..RecordSize, WriteUnits(n)
  PROVE  IInv'
<1>1. CASE written = 0
  <2>1. file' = Append(file, Frame(rec, n))
    BY <1>1 DEF WriteUnits, PutUnits
  <2>2. Frame(rec, n) \in Frames
    BY DEF WriteUnits, IInv, Control, Frame, Frames
  <2>3. file \in Seq(Frames) /\ Len(file) = Len(acked)
    BY <1>1 DEF WriteUnits, IInv, JTypeOK, Contents
  <2>4. /\ file' \in Seq(Frames) /\ Len(file') = Len(file) + 1
        /\ \A i \in 1..Len(file) : file'[i] = file[i]
        /\ file'[Len(file')] = Frame(rec, n)
    BY <2>1, <2>2, <2>3
  <2>5. JTypeOK' /\ Control'
    BY <2>4 DEF WriteUnits, IInv, JTypeOK, Control, Writing
  <2>6. Contents'
    BY <1>1, <2>3, <2>4 DEF WriteUnits, IInv, JTypeOK, Control, Contents, AckedReadable, Frame
  <2> QED BY <2>5, <2>6 DEF IInv
<1>2. CASE written # 0
  <2>1. file' = [file EXCEPT ![Len(file)].len = @ + n]
    BY <1>2 DEF WriteUnits, PutUnits
  <2>2. /\ file \in Seq(Frames) /\ Len(file) = Len(acked) + 1
        /\ file[Len(file)].rec = rec /\ rec \in Records
        /\ file[Len(file)].len = written /\ written + n \in 1..RecordSize
    BY <1>2 DEF WriteUnits, IInv, JTypeOK, Control, Contents
  <2>3. file[Len(file)] \in Frames /\ Len(acked) \in Nat /\ Len(file) \in 1..Len(file)
    BY <2>2 DEF IInv, JTypeOK
  <2>4. /\ file' \in Seq(Frames) /\ Len(file') = Len(file)
        /\ \A i \in 1..Len(acked) : file'[i] = file[i]
        /\ file'[Len(file')] = [rec |-> rec, len |-> written + n]
    BY <2>1, <2>2, <2>3 DEF Frames
  <2>5. JTypeOK' /\ Control'
    BY <2>4, <2>2 DEF WriteUnits, IInv, JTypeOK, Control, Writing
  <2>6. Contents'
    BY <1>2, <2>2, <2>4 DEF WriteUnits, IInv, JTypeOK, Control, Contents, AckedReadable
  <2> QED BY <2>5, <2>6 DEF IInv
<1> QED BY <1>1, <1>2

LEMMA WriteDoneIInv ==
  ASSUME IInv, WriteDone
  PROVE  IInv'
<1>1. /\ op \in Writing /\ written = RecordSize /\ written # 0
      /\ rec \in Records /\ acked \in Seq(Records) /\ file \in Seq(Frames)
      /\ Len(file) = Len(acked) + 1
      /\ file[Len(file)].len = RecordSize /\ file[Len(file)].rec = rec
      /\ \A i \in 1..Len(acked) : file[i] = Frame(acked[i], RecordSize)
  BY DEF WriteDone, IInv, JTypeOK, Control, Contents, AckedReadable
<1>2. /\ acked' \in Seq(Records) /\ Len(acked') = Len(file)
      /\ \A i \in 1..Len(acked) : acked'[i] = acked[i]
      /\ acked'[Len(file)] = rec
  BY <1>1 DEF WriteDone
<1>3. file[Len(file)] = Frame(rec, RecordSize)
  <2>1. Len(file) \in 1..Len(file) /\ file[Len(file)] \in Frames
    BY <1>1
  <2> QED BY <1>1, <2>1 DEF Frame, Frames
<1>4. JTypeOK' /\ Control'
  BY <1>1, <1>2 DEF WriteDone, IInv, JTypeOK, Control, Writing, Ops
<1>5. \A i \in 1..Len(acked') : file[i] = Frame(acked'[i], RecordSize)
  BY <1>1, <1>2, <1>3
<1>6. op' \notin Writing /\ file' = file
  BY DEF WriteDone, Writing
<1>7. Contents'
  BY <1>2, <1>5, <1>6 DEF Contents, AckedReadable
<1> QED BY <1>4, <1>7 DEF IInv

LEMMA UnlinkIInv ==
  ASSUME IInv, Unlink
  PROVE  IInv'
<1>1. file' = <<>> /\ acked' = <<>> /\ Len(file') = 0 /\ Len(acked') = 0
  BY DEF Unlink
<1>2. file' \in Seq(Frames) /\ acked' \in Seq(Records)
  BY <1>1
<1>3. JTypeOK' /\ Control'
  BY <1>1, <1>2 DEF Unlink, IInv, JTypeOK, Control, Writing, Ops
<1>4. Contents'
  BY <1>1 DEF Unlink, Contents, AckedReadable, Writing
<1> QED BY <1>3, <1>4 DEF IInv

\* What lua_recover finds: the acknowledged records, and the one in flight if
\* all of it reached the disk.
LEMMA RecoverFinds ==
  ASSUME IInv, NEW k \in 0..Len(file), ReadableCount(k)
  PROVE  /\ k = Len(acked) \/ (k = Len(acked) + 1 /\ k = Len(file))
         /\ Len(SubSeq(file, 1, k)) = k
         /\ SubSeq(file, 1, k) \in Seq(Frames)
         /\ RecordsOf(SubSeq(file, 1, k)) \in Seq(Records)
         /\ Len(RecordsOf(SubSeq(file, 1, k))) = k
         /\ \A i \in 1..k : /\ SubSeq(file, 1, k)[i] = file[i]
                            /\ RecordsOf(SubSeq(file, 1, k))[i] = file[i].rec
                            /\ file[i] = Frame(file[i].rec, RecordSize)
<1> DEFINE s == SubSeq(file, 1, k)
<1>1. /\ file \in Seq(Frames) /\ acked \in Seq(Records) /\ k \in Nat
      /\ Len(file) \in Nat /\ Len(acked) \in Nat /\ k <= Len(file)
      /\ Len(acked) <= Len(file) /\ Len(file) <= Len(acked) + 1
      /\ \A i \in 1..Len(acked) : file[i] = Frame(acked[i], RecordSize)
  BY DEF IInv, JTypeOK, Contents, AckedReadable
<1>2. s \in Seq(Frames) /\ Len(s) = k /\ \A i \in 1..k : s[i] = file[i]
  BY <1>1
<1>3. \A i \in 1..k : file[i] \in Frames /\ file[i].len = RecordSize
  BY <1>1 DEF ReadableCount, Whole
<1>4. \A i \in 1..k : file[i] = Frame(file[i].rec, RecordSize) /\ file[i].rec \in Records
  BY <1>3 DEF Frame, Frames
<1>5. RecordsOf(s) = [i \in 1..k |-> s[i].rec]
  BY <1>2 DEF RecordsOf
<1>6. RecordsOf(s) \in Seq(Records) /\ Len(RecordsOf(s)) = k
  BY <1>1, <1>2, <1>4, <1>5
<1>7. \A i \in 1..Len(acked) : Whole(file[i])
  BY <1>1, FrameFields DEF Whole
<1>8. Len(acked) <= k
  <2>1. SUFFICES ASSUME k < Len(acked) PROVE FALSE
    BY <1>1
  <2>2. k + 1 \in 1..Len(acked) /\ k < Len(file)
    BY <2>1, <1>1
  <2> QED BY <2>2, <1>7 DEF ReadableCount
<1> QED BY <1>1, <1>2, <1>4, <1>5, <1>6, <1>8

LEMMA RecoverIInv ==
  ASSUME IInv, Recover
  PROVE  IInv'
<1>1. PICK k \in 0..Len(file) : /\ ReadableCount(k)
                               /\ file' = SubSeq(file, 1, k)
                               /\ acked' = RecordsOf(SubSeq(file, 1, k))
  BY DEF Recover
<1>2. /\ file' \in Seq(Frames) /\ Len(file') = k
      /\ acked' \in Seq(Records) /\ Len(acked') = k
      /\ \A i \in 1..k : file'[i] = Frame(acked'[i], RecordSize)
  BY <1>1, RecoverFinds
<1>3. JTypeOK' /\ Control'
  BY <1>2 DEF Recover, IInv, JTypeOK, Control, Writing
<1>4. Contents'
  BY <1>2 DEF Recover, Contents, AckedReadable, Writing
<1> QED BY <1>3, <1>4 DEF IInv

LEMMA JCrashIInv ==
  ASSUME IInv, JCrash
  PROVE  IInv'
<1>1. JTypeOK' /\ Control'
  BY DEF JCrash, IInv, JTypeOK, Control, Writing, Ops
<1>2. Contents'
  BY DEF JCrash, IInv, Contents, AckedReadable, Writing
<1> QED BY <1>1, <1>2 DEF IInv

LEMMA StutterIInv ==
  ASSUME IInv, UNCHANGED jvars
  PROVE  IInv'
BY DEF jvars, IInv, JTypeOK, Control, Contents, AckedReadable

LEMMA NextIInv == IInv /\ [JNext]_jvars => IInv'
BY EnterIInv, WriteUnitsIInv, WriteDoneIInv, UnlinkIInv, RecoverIInv, JCrashIInv, StutterIInv
   DEF JNext

(* What is shown below holds because IInv is an inductive invariant.       *)
THEOREM Inductive == JSpec => []IInv
BY InitIInv, NextIInv, PTL DEF JSpec

(* The variables of the journal have their types.                          *)
THEOREM TypeCorrect == JSpec => []JTypeOK
<1>1. IInv => JTypeOK
  BY DEF IInv
<1> QED BY <1>1, Inductive, PTL

(* What journal_write has returned for is in the file for ever after, at   *)
(* its place, with at most one more record behind it.                      *)
THEOREM Durable == JSpec => []AckedReadable
<1>1. IInv => AckedReadable
  BY DEF IInv, Contents
<1> QED BY <1>1, Inductive, PTL

(* A torn record is at the end of the file and nowhere else.               *)
THEOREM TornAtEnd == JSpec => []OnlyLastTorn
<1>1. IInv => OnlyLastTorn
  <2> SUFFICES ASSUME IInv, NEW i \in 1..Len(file), i < Len(file) PROVE Whole(file[i])
    BY DEF OnlyLastTorn
  <2>1. Len(acked) \in Nat /\ Len(file) <= Len(acked) + 1
    BY DEF IInv, JTypeOK, Contents, AckedReadable
  <2>2. i \in 1..Len(acked)
    BY <2>1
  <2>3. file[i] = Frame(acked[i], RecordSize)
    BY <2>2 DEF IInv, Contents, AckedReadable
  <2> QED BY <2>3, FrameFields DEF Whole
<1> QED BY <1>1, Inductive, PTL

\* The same of the records recover hands over.
LEMMA RecoverGives ==
  ASSUME IInv, Recover
  PROVE  \E k \in 0..Len(file) :
           /\ acked' \in Seq(Records)
           /\ Len(acked') = k /\ (k = Len(acked) \/ (k = Len(acked) + 1 /\ k = Len(file)))
           /\ \A i \in 1..k : acked'[i] = file[i].rec
<1>1. PICK k \in 0..Len(file) : /\ ReadableCount(k)
                               /\ acked' = RecordsOf(SubSeq(file, 1, k))
  BY DEF Recover
<1>2. acked' \in Seq(Records) /\ Len(acked') = k
  BY <1>1, RecoverFinds
<1>3. k = Len(acked) \/ (k = Len(acked) + 1 /\ k = Len(file))
  BY <1>1, RecoverFinds
<1>4. \A i \in 1..k : acked'[i] = file[i].rec
  BY <1>1, RecoverFinds
<1> QED BY <1>2, <1>3, <1>4

(* journal.recover gives back every record its writer was told of.         *)
THEOREM NothingForgotten == JSpec => RecoverKeepsAcked
<1>1. ASSUME IInv, JNext, fd = "closed", fd' = "open", exists
      PROVE  Len(acked) <= Len(acked') /\ SubSeq(acked', 1, Len(acked)) = acked
  <2>1. Recover
    BY <1>1 DEF JNext, Fresh, Write, StartFinish, WriteUnits, WriteDone, Unlink, JCrash,
                IInv, Control, Writing
  <2>2. PICK k \in 0..Len(file) :
          /\ acked' \in Seq(Records)
          /\ Len(acked') = k /\ (k = Len(acked) \/ (k = Len(acked) + 1 /\ k = Len(file)))
          /\ \A i \in 1..k : acked'[i] = file[i].rec
    BY <1>1, <2>1, RecoverGives
  <2>3. /\ acked \in Seq(Records) /\ Len(acked) \in Nat
        /\ Len(acked) <= Len(acked')
        /\ \A i \in 1..Len(acked) : acked'[i] = acked[i]
    <3>1. acked \in Seq(Records)
      BY <1>1 DEF IInv, JTypeOK
    <3>2. \A i \in 1..Len(acked) : file[i].rec = acked[i]
      BY <1>1, FrameFields DEF IInv, Contents, AckedReadable
    <3> QED BY <2>2, <3>1, <3>2
  <2>4. Len(SubSeq(acked', 1, Len(acked))) = Len(acked)
    BY <2>2, <2>3
  <2>5. \A i \in 1..Len(acked) : SubSeq(acked', 1, Len(acked))[i] = acked[i]
    BY <2>2, <2>3
  <2>6. SubSeq(acked', 1, Len(acked)) \in Seq(Records)
    BY <2>2, <2>3
  <2> QED BY <2>3, <2>4, <2>5, <2>6, SeqEqual
<1>2. IInv /\ [JNext]_jvars =>
        [fd = "closed" /\ fd' = "open" /\ exists
           => /\ Len(acked) <= Len(acked')
              /\ SubSeq(acked', 1, Len(acked)) = acked]_jvars
  BY <1>1
<1> QED BY <1>2, Inductive, PTL DEF JSpec, RecoverKeepsAcked

\* Every step of the journal is a step of the durable log, or leaves it alone.
LEMMA StepRefines ==
  ASSUME IInv, JNext
  PROVE  [Log!Next]_(Log!vars)
<1> USE DEF Log!Next, Log!vars
<1>1. CASE Fresh
  <2>1. Log!Create
    BY <1>1 DEF Fresh, EnterWrite, Log!Create
  <2> QED BY <2>1
<1>2. ASSUME NEW r \in Records, Write(r) PROVE Log!Append1
  BY <1>2 DEF Write, EnterWrite, IInv, Control, Log!Append1
<1>3. ASSUME NEW keep \in BOOLEAN, StartFinish(keep) PROVE Log!Append1
  BY <1>3, ConstantRecords DEF StartFinish, EnterWrite, IInv, Control, Log!Append1
<1>4. ASSUME NEW n \in 1..RecordSize, WriteUnits(n) PROVE UNCHANGED Log!vars
  BY <1>4 DEF WriteUnits
<1>5. CASE WriteDone
  <2>1. fd = "open" /\ rec # NoRecord
    BY <1>5, ConstantRecords DEF WriteDone, IInv, Control
  <2>2. Log!Return
    BY <1>5, <2>1 DEF WriteDone, Log!Return
  <2> QED BY <2>2
<1>6. CASE Unlink
  <2>1. exists /\ fd = "closed" /\ rec = NoRecord
    BY <1>6 DEF Unlink, IInv, Control
  <2>2. Log!Remove
    BY <1>6, <2>1 DEF Unlink, Log!Remove
  <2> QED BY <2>2
<1>7. CASE Recover
  <2>1. acked \in Seq(Records) /\ Len(acked) \in Nat
    BY DEF IInv, JTypeOK
  <2>2. PICK k \in 0..Len(file) :
          /\ acked' \in Seq(Records)
          /\ Len(acked') = k /\ (k = Len(acked) \/ (k = Len(acked) + 1 /\ k = Len(file)))
          /\ \A i \in 1..k : acked'[i] = file[i].rec
    BY <1>7, RecoverGives
  <2>3. \A i \in 1..Len(acked) : file[i].rec = acked[i]
    BY FrameFields DEF IInv, Contents, AckedReadable
  <2>4. CASE k = Len(acked)
    <3>1. acked' = acked
      BY <2>2, <2>1, <2>3, <2>4, SeqEqual
    <3> QED BY <1>7, <3>1 DEF Recover, Log!Reopen
  <2>5. CASE k = Len(acked) + 1
    <3>1. rec \in Records /\ file[k].rec = rec
      BY <2>2, <2>5 DEF IInv, JTypeOK, Contents
    <3>2. /\ Append(acked, rec) \in Seq(Records) /\ Len(Append(acked, rec)) = k
          /\ \A i \in 1..k : Append(acked, rec)[i] = acked'[i]
      BY <2>2, <2>1, <2>3, <2>5, <3>1
    <3>3. acked' = Append(acked, rec)
      BY <2>2, <3>2, SeqEqual
    <3> QED BY <1>7, <3>1, <3>3, ConstantRecords DEF Recover, Log!Reopen
  <2> QED BY <2>2, <2>4, <2>5
<1>8. CASE JCrash
  <2>1. CASE fd = "open"
    BY <1>8, <2>1 DEF JCrash, Log!Crash
  <2>2. CASE fd # "open"
    BY <1>8, <2>2 DEF JCrash, IInv, JTypeOK
  <2> QED BY <2>1, <2>2
<1> QED BY <1>1, <1>2, <1>3, <1>4, <1>5, <1>6, <1>7, <1>8 DEF JNext

(* The journal file, with its partial writes, its truncation on recovery   *)
(* and its crashes, implements the durable log.                            *)
THEOREM Refinement == JSpec => ImplementsDurableLog
<1>1. JInit => Log!Init
  BY DEF JInit, Log!Init
<1>2. IInv /\ [JNext]_jvars => [Log!Next]_(Log!vars)
  <2>1. ASSUME UNCHANGED jvars PROVE UNCHANGED Log!vars
    BY <2>1 DEF jvars, Log!vars
  <2> QED BY <2>1, StepRefines
<1> QED BY <1>1, <1>2, Inductive, PTL DEF JSpec, Log!Spec, ImplementsDurableLog
=============================================================================
