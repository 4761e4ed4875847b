------------------------------ MODULE Archive ------------------------------
(***************************************************************************)
(* Unpacking of a package: src/lib/archive.c over libarchive.              *)
(*                                                                         *)
(* LibArchive are the results of libarchive, other than ARCHIVE_OK and     *)
(* ARCHIVE_EOF, that may come.  ARCHIVE_RETRY only repeats the call, and   *)
(* errors of the outer archive end the process.                            *)
(***************************************************************************)
EXTENDS FiniteSets, Sequences, SequencesExt

CONSTANTS Files, LibArchive

\* What is in the directory, files that are not whole apart, and whether all went well so far.
Unpacked == [whole : SUBSET Files, torn : SUBSET Files, ok : BOOLEAN]

\* All that may become of one entry.  A warning about the header in the archive, or a failure
\* to create the file, leaves it out; one about the new file or its data leaves it as it is;
\* ARCHIVE_FATAL for a header or for data ends the extraction.
Entry(out, f) ==
  LET torn == [out EXCEPT !.torn = @ \cup {f}]
  IN IF ~out.ok THEN {out}
     ELSE {[out EXCEPT !.whole = @ \cup {f}]}
            \cup (IF "warn" \in LibArchive THEN {out, torn} ELSE {})
            \cup (IF "failed" \in LibArchive THEN {out, torn} ELSE {})
            \cup (IF "fatal" \in LibArchive
                  THEN {[out EXCEPT !.ok = FALSE], [torn EXCEPT !.ok = FALSE]} ELSE {})

\* _unpack_package_subarchive, for entries in some order
Extracted(order) ==
  FoldSeq(LAMBDA f, outs : UNION {Entry(out, f) : out \in outs},
          {[whole |-> {}, torn |-> {}, ok |-> TRUE]}, order)

\* unpack_package: the data of a package whose control files are all there.
unpack_package(files) == UNION {Extracted(order) : order \in SetToSeqs(files)}
=============================================================================
