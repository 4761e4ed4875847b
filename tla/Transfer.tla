------------------------------ MODULE Transfer ------------------------------
(***************************************************************************)
(* Resources by their URIs: src/lib/uri.c, the uri master of               *)
(* src/lib/uri_lua.c, and the three callers of it: postprocess.get_repos,  *)
(* updater.tasks_to_transaction and utils.uri_content.                     *)
(*                                                                         *)
(* A master has a downloader and a registry of the remote uris created by  *)
(* it.  download() registers them and runs the downloader again and again  *)
(* until it reports no failure; a failure is returned to the caller, who   *)
(* may call download() again.  Then the caller finishes each uri: takes    *)
(* its data, and when there are public keys gets its signature the same    *)
(* way and verifies it.                                                    *)
(*                                                                         *)
(* The content of a resource, its verification and its parsing are choices *)
(* of the environment.  Output files can be opened and written.            *)
(***************************************************************************)
EXTENDS Downloader

CONSTANTS Uri,       \* the indexes, packages or scripts
          sigOf,     \* [Uri -> Downloads]: the uri of the signature of each
          Remote,    \* those of Uri that are http or https
          Optional,  \* repositories with the extra option optional
          Signed     \* uris with public keys

ASSUME UriAssumption == /\ Uri \subseteq Downloads
                        /\ sigOf \in [Uri -> Downloads \ Uri]
                        /\ \A u, w \in Uri : sigOf[u] = sigOf[w] => u = w
                        /\ Remote \subseteq Uri /\ Optional \subseteq Uri
                        /\ Signed \subseteq Uri

VARIABLES
  client,    \* who uses the master, see Clients
  pc,        \* see Stages
  known,     \* uris created so far
  registry,  \* the registry of the master
  dl,        \* uris whose field download_instance is set
  sig,       \* [Uri -> {"none", "remote", "local"}]: sig_uri
  output,    \* [Downloads -> {"none", "open", "closed"}]
  finished,  \* uris with the flag finished
  returned,  \* what download() returned
  tp         \* [Uri -> {"wanted", "failed", "used"}]: repo.tp, or the queue

uvars == <<client, pc, known, registry, dl, sig, output, finished, returned, tp>>
vars == <<dvars, uvars>>

Clients == {"get_repos", "tasks_to_transaction", "uri_content"}
Stages == {"setup", "register", "download", "failed", "collect", "done", "error", "abort",
           "close", "closed"}

Init == /\ DownloaderNew
        /\ client \in Clients
        /\ pc = "setup"
        /\ known = {} /\ registry = {} /\ dl = {} /\ finished = {}
        /\ sig = [u \in Uri |-> "none"]
        /\ output = [o \in Downloads |-> "none"]
        /\ returned = NONE
        /\ tp = [u \in Uri |-> "wanted"]

-----------------------------------------------------------------------------

\* Packages drop the keys they inherit from the index of their repository.
Keyed(u) == u \in Signed /\ client # "tasks_to_transaction"

\* The signature that ensure_default_signature leaves: <uri>.sig, of the same scheme.
EnsuredSig(u) == IF Keyed(u) /\ sig[u] = "none"
                 THEN IF u \in Remote THEN "remote" ELSE "local"
                 ELSE sig[u]

\* to_buffer or to_file, and uri_config.  The signature may be given, with any scheme.
NewUri(u, given) ==
  /\ pc = "setup"
  /\ u \notin known
  /\ client = "uri_content" => known = {}
  /\ given # "none" => Keyed(u)
  /\ known' = known \cup {u}
  /\ registry' = IF u \in Remote THEN registry \cup {u} ELSE registry
  /\ sig' = [sig EXCEPT ![u] = given]
  /\ output' = IF client = "tasks_to_transaction" THEN [output EXCEPT ![u] = "open"] ELSE output
  /\ UNCHANGED <<dvars, client, pc, dl, finished, returned, tp>>

CallDownload == /\ pc = "setup"
                /\ client = "uri_content" => known # {}
                /\ pc' = "register"
                /\ UNCHANGED <<dvars, client, known, registry, dl, sig, output, finished,
                               returned, tp>>

(* The loop over the registry; uris that have an instance are skipped.     *)
Register(u) ==
  LET remoteSig == Keyed(u) /\ EnsuredSig(u) = "remote"
      started == IF remoteSig THEN {u, sigOf[u]} ELSE {u}
  IN /\ pc = "register"
     /\ u \in registry \ dl
     /\ sig' = [sig EXCEPT ![u] = EnsuredSig(u)]
     /\ output' = [o \in Downloads |-> IF o \in started THEN "open" ELSE output[o]]
     /\ Download(started)
     /\ dl' = dl \cup started
     /\ UNCHANGED <<client, pc, known, registry, finished, returned, tp>>

Registered == /\ pc = "register"
              /\ registry \subseteq dl
              /\ pc' = "download"
              /\ UNCHANGED <<dvars, client, known, registry, dl, sig, output, finished,
                             returned, tp>>

-----------------------------------------------------------------------------
\* The loop of lua_uri_master_download and the downloader below it.

Run == /\ pc = "download"
       /\ DispatchBegin
       /\ UNCHANGED uvars

Work == Callback \/ \E o \in Downloads : Start(o)

Curl == Work /\ UNCHANGED uvars

\* Everything is over: the registry is emptied and nothing is returned.
ReturnNil == /\ failed = NONE
             /\ DispatchEnd
             /\ registry' = {}
             /\ pc' = "collect"
             /\ UNCHANGED <<client, known, dl, sig, output, finished, returned, tp>>

ReturnUri == /\ failed \in registry \cap dl
             /\ DispatchEnd
             /\ returned' = failed
             /\ pc' = "failed"
             /\ UNCHANGED <<client, known, registry, dl, sig, output, finished, tp>>

\* It was a signature: finish of the uri it belongs to will tell.
RunAgain == /\ failed \notin (registry \cap dl) \cup {NONE}
            /\ DispatchEnd
            /\ UNCHANGED uvars

-----------------------------------------------------------------------------
\* The caller.

\* repos_failed_download; the other callers know no optional resource.
Tolerate == /\ pc = "failed"
            /\ client = "get_repos" /\ returned \in Optional
            /\ tp' = [tp EXCEPT ![returned] = "failed"]
            /\ returned' = NONE
            /\ pc' = "register"
            /\ UNCHANGED <<dvars, client, known, registry, dl, sig, output, finished>>

GiveUp == /\ pc = "failed"
          /\ client # "get_repos" \/ returned \notin Optional
          /\ returned' = NONE
          /\ pc' = "error"
          /\ UNCHANGED <<dvars, client, known, registry, dl, sig, output, finished, tp>>

\* Fault: done is taken for success.
DeliveredDone(o, remote, readable) == IF remote THEN transfer[o] \in {"ok", "bad"}
                                      ELSE o \in readable

\* Whether uri_finish gets the data of o: over by the downloader, or read from its place.
Delivered(o, remote, readable) == IF remote THEN transfer[o] = "ok" ELSE o \in readable

(* uri_finish and what the caller does with the data.  The local ones in   *)
(* readable can be read; fits: the signature is by one of the keys; usable *)
(* is the caller's verdict.  After any error the caller gives up.          *)
Finish(u, readable, fits, usable) ==
  LET s == sigOf[u]
      main == Delivered(u, u \in Remote, readable)
      signature == main /\ Keyed(u) /\ Delivered(s, EnsuredSig(u) = "remote", readable)
      complete == main /\ (Keyed(u) => signature /\ fits)
      taken == (IF main THEN {u} ELSE {}) \cup (IF signature THEN {s} ELSE {})
  IN /\ pc = "collect"
     /\ u \in known /\ tp[u] = "wanted"
     /\ u \in Remote => u \in dl
     /\ main /\ Keyed(u) /\ EnsuredSig(u) = "remote" => s \in dl
     /\ DownloadFree(taken \cap dl)
     /\ dl' = dl \ taken
     /\ finished' = finished \cup taken
     /\ sig' = [sig EXCEPT ![u] = IF signature THEN "none" ELSE EnsuredSig(u)]
     /\ output' = [o \in Downloads |-> IF o = u THEN IF complete THEN "closed" ELSE "open"
                                       ELSE IF o \in taken THEN "closed" ELSE output[o]]
     /\ tp' = IF complete /\ usable THEN [tp EXCEPT ![u] = "used"] ELSE tp
     /\ pc' = IF complete /\ usable THEN "collect" ELSE "error"
     /\ UNCHANGED <<client, known, registry, returned>>

\* uri_finish asserts that what is not local has an instance.
FinishAborts(u, readable) ==
  /\ pc = "collect"
  /\ u \in known /\ tp[u] = "wanted"
  /\ \/ u \in Remote \ dl
     \/ /\ Delivered(u, u \in Remote, readable)
        /\ Keyed(u) /\ EnsuredSig(u) = "remote" /\ sigOf[u] \notin dl
  /\ pc' = "abort"
  /\ UNCHANGED <<dvars, client, known, registry, dl, sig, output, finished, returned, tp>>

Collected == /\ pc = "collect"
             /\ \A u \in known : tp[u] # "wanted"
             /\ pc' = "done"
             /\ UNCHANGED <<dvars, client, known, registry, dl, sig, output, finished, returned,
                            tp>>

(* lua_close collects the newest objects first: the uris, then the master, *)
(* whose downloader frees all instances that are left.                     *)
FreeUris == /\ pc \in {"done", "error"}
            /\ pc' = "close"
            /\ output' = [o \in Downloads |->
                            IF output[o] = "open" THEN "closed" ELSE output[o]]
            /\ dl' = {}
            /\ sig' = [u \in Uri |-> "none"]
            /\ UNCHANGED <<dvars, client, known, registry, finished, returned, tp>>

FreeMaster == /\ pc = "close"
              /\ pc' = "closed"
              /\ registry' = {}
              /\ DownloadFree(instances)
              /\ UNCHANGED <<client, known, dl, sig, output, finished, returned, tp>>

Take(u) == \E readable \in SUBSET {u, sigOf[u]} :
             \/ \E fits, usable \in BOOLEAN : Finish(u, readable, fits, usable)
             \/ FinishAborts(u, readable)

Master == \/ CallDownload \/ Registered \/ Run \/ ReturnNil \/ ReturnUri \/ RunAgain
          \/ Tolerate \/ GiveUp \/ Collected
          \/ \E u \in Uri : Register(u) \/ Take(u)

Next == \/ \E u \in Uri, given \in {"none", "remote", "local"} : NewUri(u, given)
        \/ Master \/ Curl
        \/ FreeUris \/ FreeMaster

Spec == Init /\ [][Next]_vars

(* A transfer that curl has begun ends, by its time limit of an hour at    *)
(* the latest; curl takes up what waits for a connection; timers fire; and *)
(* the updater goes on.                                                    *)
Fairness == /\ WF_vars(Master)
            /\ WF_vars(Timeout /\ UNCHANGED uvars)
            /\ \A o \in Downloads : /\ WF_vars(Over(o) /\ UNCHANGED uvars)
                                    /\ WF_vars(Start(o) /\ UNCHANGED uvars)

FairSpec == Spec /\ Fairness

-----------------------------------------------------------------------------
(* The variables have their types.                                         *)
TypeOK == /\ DTypeOK
          /\ client \in Clients /\ pc \in Stages
          /\ known \subseteq Uri /\ registry \subseteq known \cap Remote
          /\ dl \subseteq Downloads /\ finished \subseteq Downloads
          /\ sig \in [Uri -> {"none", "remote", "local"}]
          /\ output \in [Downloads -> {"none", "open", "closed"}]
          /\ returned \in Downloads \cup {NONE}
          /\ tp \in [Uri -> {"wanted", "failed", "used"}]

(* Uris and the downloader point at the same instances, the instance kept  *)
(* as failed is one of them, and while the loop runs whatever curl may     *)
(* still write has its output open: no order of failures, frees and the    *)
(* collection of garbage at the end leaves a pointer to what is gone.      *)
Lifetimes ==
  /\ pc \notin {"close", "closed"} => dl = instances
  /\ failed \in instances \cup {NONE}
  /\ Unfinished \subseteq instances
  /\ loop = "running" => \A o \in Unfinished : output[o] = "open"
  /\ pc = "closed" => instances = {}

(* download() returns nil only when all transfers are over, however often  *)
(* the loop was broken by a failure and for whatever reason: no finish     *)
(* meets URI_E_UNFINISHED_DOWNLOAD.                                        *)
NilWhenOver == pc \in {"collect", "done"} => Unfinished = {} /\ failed = NONE

(* A resource that is used was received whole, and so was its signature; a *)
(* repository is left out only when it is optional and its download failed.*)
Accounted ==
  \A u \in Uri :
    /\ tp[u] = "used" => /\ u \in finished
                         /\ u \in Remote => transfer[u] = "ok"
                         /\ Keyed(u) => sigOf[u] \in finished
    /\ tp[u] = "failed" => u \in Optional /\ transfer[u] = "bad" /\ client = "get_repos"

(* The assertion of uri_finish, "uri_downloader_register has to be called  *)
(* before uri_finish", can fail only for a local resource whose signature  *)
(* was given with a remote uri: nothing registers that one.                *)
AssertionMet ==
  pc = "abort" => \E u \in known \ Remote : Keyed(u) /\ sig[u] = "remote"

(* download() does not return the same failure twice; get_repos would warn *)
(* of it for ever.                                                         *)
ReportedOnce == [][pc' = "failed" /\ pc # "failed" => tp[returned'] = "wanted"]_vars

(* Every use of a master comes to an end, although the loop is broken and  *)
(* begun again, and although the timer that curl wants deleted is armed.   *)
TransfersEnd == pc = "register" ~> pc \in {"done", "error", "abort"}

(* For all that curl may do, the uris and their callers keep the promise   *)
(* of Fetch.                                                               *)
Outcome == IF pc \in {"setup", "register", "download", "failed", "collect"} THEN "open"
           ELSE IF \A u \in known : tp[u] # "wanted" THEN "success" ELSE "failure"

Promise == INSTANCE Fetch WITH
             Resources <- Uri,
             Dispensable <- Optional,
             received <- {u \in Uri : u \notin Remote \/ transfer[u] = "ok"},
             lost <- {u \in Uri : transfer[u] = "bad"},
             wanted <- known,
             used <- {u \in Uri : tp[u] = "used"},
             givenUp <- {u \in Uri : tp[u] = "failed"},
             outcome <- Outcome

ImplementsFetch == Promise!Spec

(* "Set this to true to not fail if it is not possible to receive          *)
(* repository for any reason": repositories that are all optional and all  *)
(* unreachable do not make get_repos fail.                                 *)
UnreachableTolerated ==
  client = "get_repos" /\ known \subseteq Optional /\ (\A u \in known : transfer[u] = "bad")
    => pc # "error"
=============================================================================
