----------------------------- MODULE Changelog -----------------------------
(***************************************************************************)
(* The changelog of a transaction: src/lib/changelog.c, a file of stdio.   *)
(*                                                                         *)
(* Lines go to the buffer of stdio; closing the file and changelog_sync    *)
(* write them, changelog_sync makes them durable.  What goes wrong with    *)
(* the file is told to nobody: all operations then do nothing.             *)
(***************************************************************************)
EXTENDS Naturals, Sequences

CONSTANTS Pkgs, Scripts

Lines == {<<"START">>, <<"END">>} \cup {<<"PKG", p>> : p \in Pkgs}
           \cup {<<"SCRIPT", p, s>> : p \in Pkgs, s \in Scripts}

\* f is not NULL; the lines in the file; how many of them are on the disk; the buffer.
Changelogs == [open : BOOLEAN, lines : Seq(Lines), synced : Nat, buffer : Seq(Lines)]

NoChangelog == [open |-> FALSE, lines |-> <<>>, synced |-> 0, buffer |-> <<>>]

\* Fault: mode "a".
OpenAppends(cl) == [cl EXCEPT !.open = TRUE]

\* Mode "w+": what was in the file is gone.
changelog_open(cl) == [cl EXCEPT !.open = TRUE, !.lines = <<>>, !.synced = 0]
Unopened(cl) == [cl EXCEPT !.open = FALSE]

Put(cl, line) == IF cl.open THEN [cl EXCEPT !.buffer = Append(@, line)] ELSE cl

\* fflush
Flushed(cl) == [cl EXCEPT !.lines = @ \o cl.buffer, !.buffer = <<>>]

changelog_close(cl) == [Flushed(cl) EXCEPT !.open = FALSE]

changelog_sync(cl) == [Flushed(cl) EXCEPT !.synced = Len(cl.lines) + Len(cl.buffer)]

changelog_transaction_start(cl) == Put(cl, <<"START">>)
changelog_transaction_end(cl) == Put(cl, <<"END">>)
changelog_package(cl, p) == Put(cl, <<"PKG", p>>)
changelog_scriptfail(cl, p, s) == Put(cl, <<"SCRIPT", p, s>>)

\* The process is gone.  The buffer was written before, as far as it was full.
Killed(cl) == {[cl EXCEPT !.open = FALSE, !.buffer = <<>>,
                          !.lines = @ \o SubSeq(cl.buffer, 1, n)] : n \in 0..Len(cl.buffer)}

\* The power is gone: what was not synced may be lost.
PowerLost(cl) == {[cl EXCEPT !.open = FALSE, !.buffer = <<>>, !.lines = SubSeq(@, 1, n)] :
                    n \in cl.synced..Len(cl.lines)}
=============================================================================
