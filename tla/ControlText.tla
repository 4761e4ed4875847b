----------------------------- MODULE ControlText -----------------------------
(***************************************************************************)
(* The text of indexes and of the status file: src/lib/lua/backend.lua.    *)
(*                                                                         *)
(* A text is a sequence of lines: "Name: words", more words of the field   *)
(* before after some space, nothing, or what is none of these.  Blocks,    *)
(* one for a package, are separated by empty lines.  The value of a field  *)
(* is the sequence of its lines, each a sequence of words.                 *)
(***************************************************************************)
EXTENDS Naturals, FiniteSets, Sequences, SequencesExt

Line(tp, name, words) == [tp |-> tp, name |-> name, words |-> words]
Field(name, words) == Line("field", name, words)
More(words) == Line("more", "", words)
Empty == Line("empty", "", <<>>)
Junk == Line("junk", "", <<>>)

\* Longest runs of lines that are not empty.
block_split(text) ==
  LET Full(i) == i \in DOMAIN text /\ text[i].tp # "empty"
      ends == {j \in DOMAIN text : Full(j) /\ ~Full(j + 1)}
      End(n) == CHOOSE j \in ends : Cardinality({i \in ends : i <= j}) = n
      First(j) == CHOOSE i \in 1..j : ~Full(i - 1) /\ \A k \in i..j : Full(k)
  IN [n \in 1..Cardinality(ends) |-> SubSeq(text, First(End(n)), End(n))]

\* block_parse raises an error.
Malformed(block) == block[1].tp = "more" \/ \E i \in DOMAIN block : block[i].tp = "junk"

\* Fault: a value has one line.
ValueOneLine(block, i) == <<block[i].words>>

\* The line of the field and those that continue it.
Value(block, i) ==
  LET last == CHOOSE k \in i..Len(block) : /\ \A j \in (i + 1)..k : block[j].tp = "more"
                                           /\ k = Len(block) \/ block[k + 1].tp # "more"
  IN [n \in 1..(last - i + 1) |-> block[i + n - 1].words]

\* The last one of several fields of a name counts.
block_parse(block) ==
  LET Fields(n) == {i \in DOMAIN block : block[i].tp = "field" /\ block[i].name = n}
  IN [n \in {block[i].name : i \in {j \in DOMAIN block : block[j].tp = "field"}} |->
        Value(block, CHOOSE i \in Fields(n) : \A j \in Fields(n) : j <= i)]

\* A line of the value without words is an empty line, though in the middle of the block.
DumpLine(words) == IF words = <<>> THEN Empty ELSE More(words)

block_dump_ordered(block) ==
  FlattenSeq([n \in DOMAIN block |->
    <<Field(block[n].header, block[n].value[1])>>
      \o [i \in 1..(Len(block[n].value) - 1) |-> DumpLine(block[n].value[i + 1])]])

\* package_postprocess: the words of Status, and the files of Conffiles.
Status(pkg) == FlattenSeq(pkg["Status"])
Conffiles(pkg) ==
  IF "Conffiles" \in DOMAIN pkg
  THEN {words[1] : words \in {w \in ToSet(pkg["Conffiles"]) : Len(w) >= 2}} ELSE {}
=============================================================================
