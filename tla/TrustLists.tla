----------------------------- MODULE TrustLists -----------------------------
(***************************************************************************)
(* The lists of certificates (pem) and public keys of uris, src/lib/uri.c: *)
(* a uri inherits the list of its parent, items are shared between lists   *)
(* and counted, an item is loaded when it is needed first, for all lists   *)
(* it is in, and a transfer takes along pointers to what was loaded.       *)
(*                                                                         *)
(* Both kinds of lists are made of the same functions; one is modelled.    *)
(* The order of items in a list is left out, and the items that cannot be  *)
(* added as their uris are not local.                                      *)
(***************************************************************************)
EXTENDS Naturals, FiniteSets

CONSTANTS Uris, Items, NoParent

ASSUME UrisAssumption == IsFiniteSet(Uris) /\ NoParent \notin Uris

VARIABLES
  live,      \* uris that exist
  owned,     \* uris the registry of the uri master keeps, signatures through their owners
  list,      \* [Uris -> SUBSET Items]
  refs,      \* [Items -> Nat]: ref_count
  item,      \* [Items -> ItemStates]
  xfer,      \* [Uris -> {"none", "running", "over"}]: the download instance of a uri
  held       \* [Uris -> SUBSET Items]: pems of the download instance

lvars == <<live, owned, list, refs, item, xfer, held>>

(* An item has its own uri until it is loaded; when that fails it stays    *)
(* empty.                                                                  *)
ItemStates == {"unused", "uri", "loaded", "empty", "freed"}

LInit == /\ live = {} /\ owned = {}
         /\ list = [u \in Uris |-> {}]
         /\ refs = [n \in Items |-> 0]
         /\ item = [n \in Items |-> "unused"]
         /\ xfer = [u \in Uris |-> "none"]
         /\ held = [u \in Uris |-> {}]

\* list_refup and list_dealloc.
RefUp(s) == refs' = [n \in Items |-> IF n \in s THEN refs[n] + 1 ELSE refs[n]]

\* Fault: only the first item of a list that is shared loses its reference.
DeallocOne(s) == /\ refs' = [n \in Items |-> IF s = {n} THEN refs[n] - 1 ELSE refs[n]]
                 /\ item' = [n \in Items |-> IF s = {n} /\ refs[n] = 1 THEN "freed" ELSE item[n]]

Dealloc(s) == /\ refs' = [n \in Items |-> IF n \in s THEN refs[n] - 1 ELSE refs[n]]
              /\ item' = [n \in Items |-> IF n \in s /\ refs[n] = 1 THEN "freed" ELSE item[n]]

\* uri: a new one, with a parent or without.  The registry keeps the remote ones.
New(u, parent) ==
  /\ u \notin live /\ xfer[u] = "none"
  /\ parent \in live \cup {NoParent}
  /\ live' = live \cup {u}
  /\ owned' \in {owned, owned \cup {u}}
  /\ LET inherited == IF parent = NoParent THEN {} ELSE list[parent]
     IN list' = [list EXCEPT ![u] = inherited] /\ RefUp(inherited)
  /\ UNCHANGED <<item, xfer, held>>

\* CONFIG_GUARD; nobody changes the configuration of a finished uri either.
Configurable(u) == u \in live /\ xfer[u] = "none"

\* uri_add_pem, list_add: the item takes the place of the list, and its reference.
AddItem(u, n) == /\ Configurable(u)
                 /\ item[n] = "unused"
                 /\ list' = [list EXCEPT ![u] = @ \cup {n}]
                 /\ refs' = [refs EXCEPT ![n] = 1]
                 /\ item' = [item EXCEPT ![n] = "uri"]
                 /\ UNCHANGED <<live, owned, xfer, held>>

\* Fault: the configuration may change during a transfer.
DropAlways(u) == /\ u \in live
                 /\ list' = [list EXCEPT ![u] = {}]
                 /\ Dealloc(list[u])
                 /\ UNCHANGED <<live, owned, xfer, held>>

\* uri_add_pem without an argument.
DropItems(u) == /\ Configurable(u)
                /\ list' = [list EXCEPT ![u] = {}]
                /\ Dealloc(list[u])
                /\ UNCHANGED <<live, owned, xfer, held>>

\* list_pem_collect: what has not been tried is loaded, those in good with success.
Load(s, good) ==
  item' = [n \in Items |-> IF n \in s /\ item[n] = "uri"
                           THEN IF n \in good THEN "loaded" ELSE "empty"
                           ELSE item[n]]

\* uri_downloader_register and download: the pointers are copied, not the items.
RegisterUri(u, good) == /\ Configurable(u) /\ u \in owned
                        /\ Load(list[u], good)
                        /\ xfer' = [xfer EXCEPT ![u] = "running"]
                        /\ held' = [held EXCEPT ![u] = {n \in list[u] : item'[n] = "loaded"}]
                        /\ UNCHANGED <<live, owned, list, refs>>

\* list_pubkey_collect, for the verification of a uri that was received.
Verify(u, good) == /\ u \in live
                   /\ Load(list[u], good)
                   /\ UNCHANGED <<live, owned, list, refs, xfer, held>>

Ended(u) == /\ xfer[u] = "running"
            /\ xfer' = [xfer EXCEPT ![u] = "over"]
            /\ UNCHANGED <<live, owned, list, refs, item, held>>

\* download() returns nil, see NilWhenOver of Transfer.
AllOver == /\ \A u \in Uris : xfer[u] # "running"
           /\ owned' = {}
           /\ UNCHANGED <<live, list, refs, item, xfer, held>>

\* uri_free, by the collector or with the owner: only of what the registry does not keep.
Free(u) == /\ u \in live \ owned
           /\ live' = live \ {u}
           /\ list' = [list EXCEPT ![u] = {}]
           /\ Dealloc(list[u])
           /\ UNCHANGED <<owned, xfer, held>>

LNext == \/ \E u \in Uris, parent \in Uris \cup {NoParent} : New(u, parent)
         \/ \E u \in Uris, n \in Items : AddItem(u, n)
         \/ \E u \in Uris : DropItems(u) \/ Ended(u) \/ Free(u)
         \/ \E u \in Uris, good \in SUBSET Items : RegisterUri(u, good) \/ Verify(u, good)
         \/ AllOver

LSpec == LInit /\ [][LNext]_lvars

-----------------------------------------------------------------------------
(* The variables have their types.                                         *)
LTypeOK == /\ live \subseteq Uris /\ owned \subseteq live
           /\ list \in [Uris -> SUBSET Items]
           /\ refs \in [Items -> Nat]
           /\ item \in [Items -> ItemStates]
           /\ xfer \in [Uris -> {"none", "running", "over"}]
           /\ held \in [Uris -> SUBSET Items]

(* The count of an item is the number of uris whose list it is in, however *)
(* lists were inherited, extended, dropped and freed.                      *)
Holders(n) == {u \in live : n \in list[u]}

RefsExact == \A n \in Items : refs[n] = Cardinality(Holders(n))

(* An item in the list of a uri is not freed, and one in no list is.       *)
FreedWhenUnused ==
  \A n \in Items : item[n] \in {"uri", "loaded", "empty"} <=> Holders(n) # {}

(* Curl calls download_sslctx at any time during a transfer: the items it  *)
(* has pointers to are loaded, whatever becomes of the uris that share     *)
(* them.                                                                   *)
HeldAlive == \A u \in Uris : xfer[u] = "running" => \A n \in held[u] : item[n] = "loaded"

(* Uris that share an item agree on it for as long as it exists: it is     *)
(* loaded, or fails, once.                                                 *)
LoadedOnce == [][\A n \in Items : item[n] \in {"loaded", "empty"} =>
                   item'[n] \in {item[n], "freed"}]_lvars
=============================================================================
