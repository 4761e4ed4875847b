------------------------------ MODULE Journal ------------------------------
(***************************************************************************)
(* The transaction journal, src/lib/journal.c.                             *)
(*                                                                         *)
(* The journal is one file.  journal_write appends a record by a loop of   *)
(* write(2) calls, each of which may store only a part of it; a crash      *)
(* between two of them leaves a torn record at the end.  lua_recover       *)
(* parses the file up to the first record that is not whole and cuts the   *)
(* rest off.  The file is opened O_DSYNC, so what write(2) has taken stays *)
(* on the disk.                                                            *)
(*                                                                         *)
(* The file is a sequence of frames: a record and how many of its          *)
(* RecordSize units reached the disk.  A frame is whole when all did; this *)
(* is what the magic at the head and at the tail of a record tells.        *)
(***************************************************************************)
EXTENDS Integers, Sequences

CONSTANTS Params,      \* values of a step's results, as DataDumper stores them
          NoParams,    \* the parameters of START and FINISH: none
          NoRecord,    \* no journal_write is under way
          RecordSize,  \* units of a record, what one write(2) may split
          MaxFrames    \* bound of the length of the file

ASSUME ParamsAssumption == NoParams \in Params
ASSUME SizeAssumption == RecordSize \in Nat \ {0}
ASSUME BoundAssumption == MaxFrames \in Nat

RecordTypes == {"START", "FINISH", "UNPACKED", "CHECKED", "CHANGELOG_START",
                "MOVED", "SCRIPTS", "CHANGELOG_END", "CLEANED"}

Records == [type : RecordTypes, params : Params]

ASSUME NoRecordAssumption == NoRecord \notin Records

Start == [type |-> "START", params |-> NoParams]
Finish == [type |-> "FINISH", params |-> NoParams]

VARIABLES
  exists,   \* the journal file is in its directory
  file,     \* its frames
  fd,       \* "open" or "closed": the static fd of journal.c
  op,       \* the function of journal.c the process is in
  rec,      \* the record of the last journal_write that has not returned
  written,  \* units of rec written so far
  acked     \* history: the records the user of the journal knows of

jvars == <<exists, file, fd, op, rec, written, acked>>

Ops == {"idle", "fresh", "write", "finish", "finish_keep", "unlink"}
Writing == {"fresh", "write", "finish", "finish_keep"}

Frame(r, n) == [rec |-> r, len |-> n]
Frames == [rec : Records, len : 1..RecordSize]

\* The magics at both ends of the frame agree.
Whole(f) == f.len = RecordSize

\* The records of a sequence of frames.
RecordsOf(s) == [i \in 1..Len(s) |-> s[i].rec]

JInit == /\ exists = FALSE
         /\ file = <<>>
         /\ fd = "closed"
         /\ op = "idle"
         /\ rec = NoRecord
         /\ written = 0
         /\ acked = <<>>

-----------------------------------------------------------------------------
\* Enter journal_write with record r on behalf of function f.
EnterWrite(f, r) == /\ op' = f
                    /\ rec' = r
                    /\ written' = 0

\* Fault: O_TRUNC in the place of O_EXCL.
FreshTruncates == /\ op = "idle" /\ fd = "closed"
                  /\ exists' = TRUE
                  /\ file' = <<>>
                  /\ fd' = "open"
                  /\ acked' = <<>>
                  /\ EnterWrite("fresh", Start)

\* journal.fresh: O_CREAT | O_EXCL, then START.  It raises an error and
\* changes nothing when the file exists or the journal is already open.
Fresh == /\ op = "idle" /\ fd = "closed"
         /\ ~exists
         /\ exists' = TRUE
         /\ file' = <<>>
         /\ fd' = "open"
         /\ acked' = <<>>
         /\ EnterWrite("fresh", Start)

\* journal.write(type, ...).
Write(r) == /\ op = "idle" /\ fd = "open"
            /\ Len(file) < MaxFrames
            /\ EnterWrite("write", r)
            /\ UNCHANGED <<exists, file, fd, acked>>

\* journal.finish(keep), up to its journal_write.
StartFinish(keep) == /\ op = "idle" /\ fd = "open"
                     /\ Len(file) < MaxFrames
                     /\ EnterWrite(IF keep THEN "finish_keep" ELSE "finish", Finish)
                     /\ UNCHANGED <<exists, file, fd, acked>>

\* The record is put behind whatever the file ends with (O_APPEND).
PutUnits(n) == IF written = 0
               THEN Append(file, Frame(rec, n))
               ELSE [file EXCEPT ![Len(file)].len = @ + n]

\* One write(2) of the loop in journal_write.
WriteUnits(n) == /\ op \in Writing
                 /\ written + n <= RecordSize
                 /\ file' = PutUnits(n)
                 /\ written' = written + n
                 /\ UNCHANGED <<exists, fd, op, rec, acked>>

\* Fault: one write(2) is taken for enough.
WriteDoneShort == /\ op \in Writing
                  /\ written > 0
                  /\ acked' = Append(acked, rec)
                  /\ rec' = NoRecord
                  /\ written' = 0
                  /\ op' = IF op = "finish" THEN "unlink" ELSE "idle"
                  /\ fd' = IF op \in {"finish", "finish_keep"} THEN "closed" ELSE "open"
                  /\ UNCHANGED <<exists, file>>

\* journal_write returns.  For finish, close(2) follows, and then unlink(2)
\* unless the journal is to be kept.
WriteDone == /\ op \in Writing
             /\ written = RecordSize
             /\ acked' = Append(acked, rec)
             /\ rec' = NoRecord
             /\ written' = 0
             /\ op' = IF op = "finish" THEN "unlink" ELSE "idle"
             /\ fd' = IF op \in {"finish", "finish_keep"} THEN "closed" ELSE "open"
             /\ UNCHANGED <<exists, file>>

Unlink == /\ op = "unlink"
          /\ exists' = FALSE
          /\ file' = <<>>
          /\ op' = "idle"
          /\ acked' = <<>>
          /\ UNCHANGED <<fd, rec, written>>

\* The number of frames lua_recover reads: up to the first broken one.
ReadableCount(k) == /\ k \in 0..Len(file)
                    /\ \A i \in 1..k : Whole(file[i])
                    /\ k < Len(file) => ~Whole(file[k + 1])

\* journal.recover on an existing file: read, seek back, ftruncate.  Without
\* a file it returns nothing and changes nothing.
Recover == /\ op = "idle" /\ fd = "closed"
           /\ exists
           /\ \E k \in 0..Len(file) :
                /\ ReadableCount(k)
                /\ file' = SubSeq(file, 1, k)
                /\ acked' = RecordsOf(SubSeq(file, 1, k))
           /\ fd' = "open"
           /\ rec' = NoRecord
           /\ UNCHANGED <<exists, op, written>>

\* The process dies: killed, power lost, or the ASSERT on a failed write(2).
JCrash == /\ fd = "open" \/ op # "idle"
          /\ fd' = "closed"
          /\ op' = "idle"
          /\ written' = 0
          /\ UNCHANGED <<exists, file, rec, acked>>

JNext == \/ Fresh
         \/ \E r \in Records : Write(r)
         \/ \E keep \in BOOLEAN : StartFinish(keep)
         \/ \E n \in 1..RecordSize : WriteUnits(n)
         \/ WriteDone
         \/ Unlink
         \/ Recover
         \/ JCrash

JSpec == JInit /\ [][JNext]_jvars

-----------------------------------------------------------------------------
(* The journal variables have their types.                                 *)
JTypeOK == /\ exists \in BOOLEAN
           /\ file \in Seq(Frames)
           /\ fd \in {"open", "closed"}
           /\ op \in Ops
           /\ rec \in Records \cup {NoRecord}
           /\ written \in 0..RecordSize
           /\ acked \in Seq(Records)

(* Only the last record of the file may be torn: journal_write never puts  *)
(* a record behind a broken one, where lua_recover could not reach it.     *)
OnlyLastTorn == \A i \in 1..Len(file) : i < Len(file) => Whole(file[i])

(* Every record whose journal_write has returned is in the file, whole, at *)
(* its place, and at most one more record (the one that was being written) *)
(* follows: a step that was reported as journaled is never executed again. *)
AckedReadable == /\ Len(acked) <= Len(file)
                 /\ Len(file) <= Len(acked) + 1
                 /\ \A i \in 1..Len(acked) : file[i] = Frame(acked[i], RecordSize)

(* Opening a journal for recovery loses no record its writer was told of.  *)
RecoverKeepsAcked == [][fd = "closed" /\ fd' = "open" /\ exists
                        => /\ Len(acked) <= Len(acked')
                           /\ SubSeq(acked', 1, Len(acked)) = acked]_jvars

\* The journal is a durable log.
Log == INSTANCE DurableLog WITH
         Entries <- Records, First <- Start, NoEntry <- NoRecord,
         present <- exists, open <- (fd = "open"), log <- acked, inflight <- rec

(* The file with its torn writes, truncation and crashes implements the    *)
(* durable log its user relies on.                                         *)
ImplementsDurableLog == Log!Spec
=============================================================================
