----------------------------- MODULE Downloader -----------------------------
(***************************************************************************)
(* The downloader: src/lib/download.c, a libevent loop that drives the     *)
(* multi interface of curl.                                                *)
(*                                                                         *)
(* downloader_run dispatches events until nothing is left to wait for or a *)
(* callback breaks the loop; a callback lets curl work and then reads the  *)
(* results curl has for it, of any number of transfers.  Curl itself, that *)
(* starts transfers and ends them, is external.  The actions here change   *)
(* the variables of this module only; the modules above conjoin them with  *)
(* what they do to theirs.                                                 *)
(***************************************************************************)
EXTENDS Naturals, FiniteSets

CONSTANTS Downloads,  \* what may be downloaded, each at most once
          Parallel,   \* parallel transfers, DEFAULT_PARALLEL_DOWNLOAD
          NONE        \* not a download

ASSUME ParallelAssumption == Parallel \in Nat \ {0}
ASSUME NoneAssumption == NONE \notin Downloads

VARIABLES
  instances,  \* downloader->instances
  transfer,   \* [Downloads -> Transfers], kept when the instance is freed
  failed,     \* downloader->failed
  loop,       \* "running" while event_base_dispatch is
  broken,     \* event_base_loopbreak was called
  ctimer      \* downloader->ctimer, see Timers

dvars == <<instances, transfer, failed, loop, broken, ctimer>>

(* added and active ones are in the hands of curl; ok stands for done and  *)
(* success, bad for done without success.                                  *)
Transfers == {"none", "added", "active", "ok", "bad"}

(* curl sets the timer to a time, or asks by a time of -1 to delete it; the *)
(* code arms it all the same and it fires at once.                         *)
Timers == {"off", "set", "deleted"}

Active == {o \in Downloads : transfer[o] = "active"}
Unfinished == {o \in Downloads : transfer[o] \in {"added", "active"}}

DTypeOK == /\ instances \subseteq Downloads
           /\ transfer \in [Downloads -> Transfers]
           /\ failed \in Downloads \cup {NONE}
           /\ loop \in {"idle", "running"}
           /\ broken \in BOOLEAN
           /\ ctimer \in Timers

DownloaderNew == /\ instances = {}
                 /\ transfer = [o \in Downloads |-> "none"]
                 /\ failed = NONE
                 /\ loop = "idle"
                 /\ broken = FALSE
                 /\ ctimer = "off"

\* Adding a handle makes curl ask for its timer.
Download(s) == /\ instances' = instances \cup s
               /\ transfer' = [o \in Downloads |-> IF o \in s THEN "added" ELSE transfer[o]]
               /\ ctimer' = IF s = {} THEN ctimer ELSE "set"
               /\ UNCHANGED <<failed, loop, broken>>

\* Fault: the instance stays in the array.
DownloadFreeKeeps(s) == /\ transfer' = [o \in Downloads |->
                                          IF o \in s \cap Unfinished THEN "none" ELSE transfer[o]]
                        /\ UNCHANGED <<instances, failed, loop, broken, ctimer>>

\* An instance that is freed takes its transfer, if it is not over, with it.
DownloadFree(s) == /\ instances' = instances \ s
                   /\ transfer' = [o \in Downloads |->
                                     IF o \in s \cap Unfinished THEN "none" ELSE transfer[o]]
                   /\ UNCHANGED <<failed, loop, broken, ctimer>>

DispatchBegin == /\ loop = "idle"
                 /\ loop' = "running"
                 /\ broken' = FALSE
                 /\ UNCHANGED <<instances, transfer, failed, ctimer>>

\* libevent calls no further callback once the loop is broken.
Dispatching == loop = "running" /\ ~broken

\* Curl takes up a transfer when it has a connection for it.
Start(o) == /\ Dispatching
            /\ transfer[o] = "added"
            /\ Cardinality(Active) < Parallel
            /\ transfer' = [transfer EXCEPT ![o] = "active"]
            /\ UNCHANGED <<instances, failed, loop, broken, ctimer>>

(* The transfers in over have ended, those in bad without success; last is *)
(* the one of them whose result is read last.                              *)
CheckInfo(over, bad, last) ==
  /\ over \subseteq Active /\ bad \subseteq over
  /\ last \in IF bad = {} THEN {failed} ELSE bad
  /\ transfer' = [o \in Downloads |-> IF o \notin over THEN transfer[o]
                                      ELSE IF o \in bad THEN "bad" ELSE "ok"]
  /\ failed' = last
  /\ broken' = (bad # {})

\* Something happens on a socket.  With no transfer left the timer is deleted.
EventCb(over, bad, last) ==
  /\ Dispatching
  /\ Active # {}
  /\ CheckInfo(over, bad, last)
  /\ ctimer' \in IF Unfinished' = {} THEN {"off"} ELSE {ctimer, "set"}
  /\ UNCHANGED <<instances, loop>>

\* Fault: the timer is set again whatever curl asks for.
TimerCbAgain(over, bad, last) ==
  /\ Dispatching
  /\ ctimer # "off"
  /\ CheckInfo(over, bad, last)
  /\ ctimer' = "set"
  /\ UNCHANGED <<instances, loop>>

\* The timer fires.  Curl sets it again as long as there are transfers.
TimerCb(over, bad, last) ==
  /\ Dispatching
  /\ ctimer # "off"
  /\ CheckInfo(over, bad, last)
  /\ ctimer' = IF Unfinished' # {} THEN "set"
               ELSE IF ctimer = "set" THEN "deleted" ELSE "off"
  /\ UNCHANGED <<instances, loop>>

Callback == \E over \in SUBSET Active : \E bad \in SUBSET over, last \in Downloads \cup {NONE} :
              EventCb(over, bad, last) \/ TimerCb(over, bad, last)

Timeout == \E over \in SUBSET Active : \E bad \in SUBSET over, last \in Downloads \cup {NONE} :
             TimerCb(over, bad, last)

Over(o) == o \in Active /\ Callback /\ o \notin Active'

DispatchEnd == /\ loop = "running"
               /\ broken \/ (Unfinished = {} /\ ctimer = "off")
               /\ loop' = "idle"
               /\ failed' = NONE
               /\ UNCHANGED <<instances, transfer, broken, ctimer>>
=============================================================================
