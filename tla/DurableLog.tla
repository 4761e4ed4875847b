----------------------------- MODULE DurableLog -----------------------------
(***************************************************************************)
(* What the transaction journal promises to its user.  An entry whose      *)
(* append has returned survives every crash.  The single entry whose       *)
(* append was interrupted is, after the next reopening, either there as a  *)
(* whole or not there at all.  Nothing is reordered, nothing is invented,  *)
(* and the log disappears only when its user removes it.                   *)
(***************************************************************************)
EXTENDS Sequences

CONSTANTS Entries,  \* what can be appended
          First,    \* the entry a new log begins with
          NoEntry   \* no append is under way

VARIABLES present,  \* the log exists
          open,     \* some process has it open
          log,      \* the entries known to be stored
          inflight  \* the entry whose append has not returned, or NoEntry

vars == <<present, open, log, inflight>>

Init == /\ present = FALSE
        /\ open = FALSE
        /\ log = <<>>
        /\ inflight = NoEntry

Create == /\ ~present /\ ~open
          /\ present' = TRUE
          /\ open' = TRUE
          /\ log' = <<>>
          /\ inflight' = First

Append1 == /\ open /\ inflight = NoEntry
           /\ inflight' \in Entries
           /\ UNCHANGED <<present, open, log>>

\* The append returns; the same step may close the log.
Return == /\ open /\ inflight # NoEntry
          /\ log' = Append(log, inflight)
          /\ inflight' = NoEntry
          /\ open' \in BOOLEAN
          /\ UNCHANGED present

\* The process that had the log open is gone.
Crash == /\ open
         /\ open' = FALSE
         /\ UNCHANGED <<present, log, inflight>>

\* The interrupted entry is all there or not at all.
Reopen == /\ present /\ ~open
          /\ open' = TRUE
          /\ \/ log' = log
             \/ inflight # NoEntry /\ log' = Append(log, inflight)
          /\ inflight' = NoEntry
          /\ UNCHANGED present

Remove == /\ present /\ ~open
          /\ inflight = NoEntry
          /\ present' = FALSE
          /\ log' = <<>>
          /\ UNCHANGED <<open, inflight>>

Next == Create \/ Append1 \/ Return \/ Crash \/ Reopen \/ Remove

Spec == Init /\ [][Next]_vars
=============================================================================
