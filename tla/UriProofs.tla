------------------------------ MODULE UriProofs ------------------------------
(***************************************************************************)
(* Proofs about uris: the counted lists of certificates and keys they      *)
(* share, for every number of uris and items; and their master and its     *)
(* downloader, for every set of uris, every choice of schemes, keys and    *)
(* optional repositories, and any number of connections.                   *)
(***************************************************************************)
EXTENDS TrustLists, Transfer, FiniteSetTheorems, TLAPS

(* The count speaks of uris that exist, an item that is not there is in no *)
(* list, and a uri with a transfer is kept by the registry: nobody frees   *)
(* it or takes items from its list until all transfers are over.           *)
Borrowing == /\ \A u \in Uris \ live : list[u] = {}
             /\ \A n \in Items : refs[n] = 0 <=> item[n] \in {"unused", "freed"}
             /\ \A u \in Uris : xfer[u] = "running" => u \in owned /\ held[u] \subseteq list[u]

ListsInv == LTypeOK /\ RefsExact /\ FreedWhenUnused /\ HeldAlive /\ Borrowing

-----------------------------------------------------------------------------
(* Adding a uri to the holders of an item, or taking one away, changes the *)
(* count by one.                                                           *)
LEMMA CountHolders ==
  ASSUME NEW S \in SUBSET Uris, NEW u \in Uris
  PROVE  /\ Cardinality(S) \in Nat
         /\ Cardinality(S) = 0 <=> S = {}
         /\ u \notin S => Cardinality(S \cup {u}) = Cardinality(S) + 1
         /\ u \in S => Cardinality(S \ {u}) = Cardinality(S) - 1
<1>1. IsFiniteSet(Uris)
  BY UrisAssumption
<1>2. IsFiniteSet(S)
  BY <1>1, FS_Subset
<1>3. Cardinality(S) \in Nat
  BY <1>2, FS_CardinalityType
<1>4. Cardinality(S) = 0 <=> S = {}
  BY <1>2, FS_EmptySet
<1>5. u \notin S => Cardinality(S \cup {u}) = Cardinality(S) + 1
  BY <1>2, FS_AddElement
<1>6. u \in S => Cardinality(S \ {u}) = Cardinality(S) - 1
  BY <1>2, FS_RemoveElement
<1> QED
  BY <1>3, <1>4, <1>5, <1>6

(* The holders of an item are a set of uris, counted by refs.              *)
LEMMA RefsCount ==
  ASSUME ListsInv, NEW n \in Items
  PROVE  /\ Holders(n) \in SUBSET Uris
         /\ refs[n] = Cardinality(Holders(n))
         /\ refs[n] \in Nat
         /\ refs[n] = 0 <=> Holders(n) = {}
         /\ item[n] \in {"unused", "freed"} <=> Holders(n) = {}
         /\ refs[n] = 0 <=> item[n] \in {"unused", "freed"}
<1>1. Holders(n) \in SUBSET Uris
  BY DEF ListsInv, LTypeOK, Holders
<1>2. refs[n] = Cardinality(Holders(n)) /\ refs[n] \in Nat
  BY DEF ListsInv, RefsExact, LTypeOK
<1>3. refs[n] = 0 <=> Holders(n) = {}
  <2>1. CASE Uris = {}
    BY <1>1, <1>2, <2>1, FS_EmptySet
  <2>2. CASE Uris # {}
    BY <1>1, <1>2, <2>2, CountHolders
  <2> QED
    BY <2>1, <2>2
<1>4. item[n] \in {"unused", "freed"} <=> Holders(n) = {}
  BY DEF ListsInv, LTypeOK, FreedWhenUnused, ItemStates
<1> QED
  BY <1>1, <1>2, <1>3, <1>4

(* In the beginning there are no uris.                                     *)
LEMMA ListsFirst == LInit => ListsInv
<1> SUFFICES ASSUME LInit PROVE ListsInv
  OBVIOUS
<1> USE DEF LInit
<1>1. LTypeOK
  <2>1. /\ list \in [Uris -> SUBSET Items] /\ refs \in [Items -> Nat]
        /\ held \in [Uris -> SUBSET Items]
    OBVIOUS
  <2>2. item \in [Items -> ItemStates] /\ xfer \in [Uris -> {"none", "running", "over"}]
    BY DEF ItemStates
  <2> QED
    BY <2>1, <2>2 DEF LTypeOK
<1>2. \A n \in Items : Holders(n) = {}
  BY DEF Holders
<1>3. RefsExact
  BY <1>2, FS_EmptySet DEF RefsExact
<1>4. FreedWhenUnused /\ HeldAlive /\ Borrowing
  BY <1>2 DEF FreedWhenUnused, HeldAlive, Borrowing
<1> QED
  BY <1>1, <1>3, <1>4 DEF ListsInv

(* A uri loses its list: what was only in this one is freed.               *)
LEMMA LosesList ==
  ASSUME ListsInv, NEW u \in live, Dealloc(list[u]), list' = [list EXCEPT ![u] = {}],
         live' \in {live, live \ {u}},
         UNCHANGED <<owned, xfer, held>>, u \in live' \/ u \notin owned,
         xfer[u] # "running"
  PROVE  ListsInv'
<1>1. LTypeOK /\ u \in Uris
  BY DEF ListsInv, LTypeOK
<1>2. ASSUME NEW n \in Items
      PROVE  /\ Holders(n)' = Holders(n) \ {u}
             /\ u \in Holders(n) <=> n \in list[u]
  BY <1>1 DEF Holders, LTypeOK
<1>3. ASSUME NEW n \in Items
      PROVE  /\ refs'[n] \in Nat
             /\ refs'[n] = Cardinality(Holders(n)')
             /\ refs'[n] = 0 <=> Holders(n)' = {}
  <2>1. /\ Holders(n) \in SUBSET Uris /\ refs[n] = Cardinality(Holders(n))
        /\ Holders(n)' \in SUBSET Uris
    BY <1>2, RefsCount
  <2>2. /\ u \in Holders(n) => Cardinality(Holders(n)') = Cardinality(Holders(n)) - 1
        /\ Cardinality(Holders(n)') \in Nat
        /\ Cardinality(Holders(n)') = 0 <=> Holders(n)' = {}
    <3>1. u \in Holders(n) => Cardinality(Holders(n) \ {u}) = Cardinality(Holders(n)) - 1
      BY <1>1, <2>1, CountHolders
    <3>2. ASSUME NEW S \in SUBSET Uris
          PROVE  Cardinality(S) \in Nat /\ (Cardinality(S) = 0 <=> S = {})
      BY <1>1, CountHolders
    <3>3. Holders(n)' \in SUBSET Uris
      BY <2>1
    <3> QED
      BY <1>2, <3>1, <3>2, <3>3
  <2>3. u \notin Holders(n) => Holders(n)' = Holders(n)
    BY <1>2
  <2>4. refs'[n] = IF n \in list[u] THEN refs[n] - 1 ELSE refs[n]
    BY DEF Dealloc
  <2> QED
    BY <1>2, <2>1, <2>2, <2>3, <2>4
<1>4. refs' = [n \in Items |-> refs'[n]]
  BY DEF Dealloc
<1>5. ASSUME NEW n \in Items
      PROVE  /\ item'[n] \in ItemStates
             /\ refs'[n] = 0 <=> item'[n] \in {"unused", "freed"}
             /\ refs'[n] # 0 => item'[n] = item[n]
  <2>1. /\ refs'[n] = IF n \in list[u] THEN refs[n] - 1 ELSE refs[n]
        /\ item'[n] = IF n \in list[u] /\ refs[n] = 1 THEN "freed" ELSE item[n]
    BY DEF Dealloc
  <2>2. /\ item[n] \in ItemStates /\ refs[n] \in Nat
        /\ refs[n] = 0 <=> item[n] \in {"unused", "freed"}
        /\ refs[n] = 0 => n \notin list[u]
    BY <1>1, <1>2, RefsCount DEF LTypeOK
  <2> QED
    BY <2>1, <2>2 DEF ItemStates
<1>6. item' = [n \in Items |-> item'[n]]
  BY DEF Dealloc
<1>7. LTypeOK'
  <2>1. refs' \in [Items -> Nat]
    BY <1>3, <1>4
  <2>2. item' \in [Items -> ItemStates]
    BY <1>5, <1>6
  <2> QED
    BY <1>1, <2>1, <2>2 DEF LTypeOK
<1>8. RefsExact'
  BY <1>3 DEF RefsExact
<1>9. FreedWhenUnused'
  BY <1>3, <1>5 DEF FreedWhenUnused, ItemStates
<1>10. Borrowing'
  BY <1>1, <1>5 DEF Borrowing, ListsInv, LTypeOK
<1>11. HeldAlive'
  <2> SUFFICES ASSUME NEW v \in Uris, xfer'[v] = "running", NEW n \in held'[v]
               PROVE  item'[n] = "loaded"
    BY DEF HeldAlive
  <2>1. /\ v # u /\ n \in list'[v] /\ v \in live' /\ item[n] = "loaded" /\ n \in Items
    BY <1>1 DEF ListsInv, Borrowing, HeldAlive, LTypeOK
  <2>2. Holders(n)' # {}
    BY <2>1 DEF Holders
  <2> QED
    BY <1>3, <1>5, <2>1, <2>2
<1> QED
  BY <1>7, <1>8, <1>9, <1>10, <1>11 DEF ListsInv

(* Loading touches only items that are in a list and were not tried yet,   *)
(* so none that a transfer holds.                                          *)
LEMMA Loads ==
  ASSUME ListsInv, NEW u \in live, NEW good \in SUBSET Items, Load(list[u], good),
         UNCHANGED <<live, owned, list, refs>>
  PROVE  /\ item' \in [Items -> ItemStates]
         /\ RefsExact' /\ FreedWhenUnused'
         /\ \A n \in Items : refs'[n] = 0 <=> item'[n] \in {"unused", "freed"}
         /\ \A n \in Items : item[n] = "loaded" => item'[n] = "loaded"
<1> USE DEF ListsInv, LTypeOK, ItemStates
<1>1. item' \in [Items -> ItemStates]
  BY DEF Load
<1>2. ASSUME NEW n \in Items
      PROVE  /\ item'[n] \in {"unused", "freed"} <=> item[n] \in {"unused", "freed"}
             /\ item[n] = "loaded" => item'[n] = "loaded"
  BY DEF Load
<1>3. \A n \in Items : Holders(n)' = Holders(n)
  BY DEF Holders
<1>4. RefsExact'
  BY <1>3 DEF RefsExact
<1>5. FreedWhenUnused'
  BY <1>1, <1>2, <1>3 DEF FreedWhenUnused
<1> QED
  BY <1>1, <1>2, <1>4, <1>5 DEF Borrowing

(* A new uri shares the list of its parent.                                *)
LEMMA NewStep ==
  ASSUME ListsInv, NEW u \in Uris, NEW parent \in Uris \cup {NoParent}, New(u, parent)
  PROVE  ListsInv'
<1> DEFINE inherited == IF parent = NoParent THEN {} ELSE list[parent]
<1>1. /\ LTypeOK /\ u \notin live /\ xfer[u] = "none" /\ live' = live \cup {u}
      /\ owned' \in {owned, owned \cup {u}}
      /\ list' = [list EXCEPT ![u] = inherited] /\ RefUp(inherited)
      /\ UNCHANGED <<item, xfer, held>>
      /\ parent \in live \cup {NoParent}
  BY DEF New, ListsInv
<1>2. inherited \in SUBSET Items
  BY <1>1, UrisAssumption DEF LTypeOK
<1>3. ASSUME NEW n \in inherited PROVE n \in Items /\ refs[n] # 0
  <2>1. parent \in live /\ n \in list[parent] /\ n \in Items
    BY <1>1, <1>2, <1>3
  <2>2. Holders(n) # {}
    BY <2>1 DEF Holders
  <2> QED
    BY <2>1, <2>2, RefsCount
<1> HIDE DEF inherited
<1>4. ASSUME NEW n \in Items
      PROVE  /\ refs'[n] = IF n \in inherited THEN refs[n] + 1 ELSE refs[n]
             /\ Holders(n)' = IF n \in inherited THEN Holders(n) \cup {u} ELSE Holders(n)
             /\ u \notin Holders(n)
  BY <1>1, <1>2 DEF RefUp, Holders, LTypeOK
<1>5. ASSUME NEW n \in Items
      PROVE  /\ refs'[n] \in Nat
             /\ refs'[n] = Cardinality(Holders(n)')
             /\ refs'[n] = 0 <=> refs[n] = 0
             /\ refs'[n] = 0 <=> Holders(n)' = {}
  <2>1. /\ Holders(n) \in SUBSET Uris /\ refs[n] = Cardinality(Holders(n))
        /\ refs[n] \in Nat /\ (refs[n] = 0 <=> Holders(n) = {})
    BY RefsCount
  <2>2. Cardinality(Holders(n) \cup {u}) = Cardinality(Holders(n)) + 1
    BY <1>4, <2>1, CountHolders
  <2>3. CASE n \in inherited
    <3>1. refs'[n] = refs[n] + 1 /\ Holders(n)' = Holders(n) \cup {u}
      BY <1>4, <2>3
    <3>2. refs[n] # 0
      BY <1>3, <2>3
    <3>3. refs'[n] \in Nat /\ refs'[n] # 0 /\ Holders(n)' # {}
      BY <2>1, <3>1
    <3> QED
      BY <2>1, <2>2, <3>1, <3>2, <3>3
  <2>4. CASE n \notin inherited
    <3>1. refs'[n] = refs[n] /\ Holders(n)' = Holders(n)
      BY <1>4, <2>4
    <3> QED
      BY <2>1, <3>1
  <2> QED
    BY <2>3, <2>4
<1>6. LTypeOK'
  <2>1. refs' \in [Items -> Nat]
    BY <1>1, <1>5 DEF RefUp
  <2> QED
    BY <1>1, <1>2, <2>1 DEF LTypeOK
<1>7. RefsExact'
  BY <1>5 DEF RefsExact
<1>8. FreedWhenUnused'
  BY <1>1, <1>5, RefsCount DEF FreedWhenUnused, LTypeOK, ItemStates
<1>9. HeldAlive'
  BY <1>1 DEF HeldAlive, ListsInv
<1>10. Borrowing'
  BY <1>1, <1>2, <1>5 DEF Borrowing, ListsInv, LTypeOK
<1> QED
  BY <1>6, <1>7, <1>8, <1>9, <1>10 DEF ListsInv

(* A new item is in the list of one uri.                                   *)
LEMMA AddStep ==
  ASSUME ListsInv, NEW u \in Uris, NEW n \in Items, AddItem(u, n)
  PROVE  ListsInv'
<1>1. /\ LTypeOK /\ u \in live /\ xfer[u] = "none" /\ item[n] = "unused"
      /\ list' = [list EXCEPT ![u] = @ \cup {n}]
      /\ refs' = [refs EXCEPT ![n] = 1] /\ item' = [item EXCEPT ![n] = "uri"]
      /\ UNCHANGED <<live, owned, xfer, held>>
  BY DEF AddItem, Configurable, ListsInv
<1>2. Holders(n) = {} /\ Holders(n)' = {u}
  BY <1>1, RefsCount DEF Holders, LTypeOK
<1>3. \A k \in Items \ {n} : Holders(k)' = Holders(k)
  BY <1>1 DEF Holders, LTypeOK
<1>4. Cardinality({u}) = 1
  BY FS_Singleton
<1>5. LTypeOK'
  BY <1>1 DEF LTypeOK, ItemStates
<1>6. RefsExact'
  BY <1>1, <1>2, <1>3, <1>4 DEF RefsExact, ListsInv, LTypeOK
<1>7. FreedWhenUnused'
  BY <1>1, <1>2, <1>3 DEF FreedWhenUnused, ListsInv, LTypeOK
<1>8. HeldAlive'
  BY <1>1 DEF HeldAlive, ListsInv, LTypeOK
<1>9. Borrowing'
  BY <1>1 DEF Borrowing, ListsInv, LTypeOK
<1> QED
  BY <1>5, <1>6, <1>7, <1>8, <1>9 DEF ListsInv

(* Every step preserves the invariant.                                     *)
LEMMA ListsInductive == ListsInv /\ [LNext]_lvars => ListsInv'
<1> SUFFICES ASSUME ListsInv, [LNext]_lvars PROVE ListsInv'
  OBVIOUS
<1>t. LTypeOK
  BY DEF ListsInv
<1>1. ASSUME NEW u \in Uris, NEW parent \in Uris \cup {NoParent}, New(u, parent) PROVE ListsInv'
  BY <1>1, NewStep
<1>2. ASSUME NEW u \in Uris, NEW n \in Items, AddItem(u, n) PROVE ListsInv'
  BY <1>2, AddStep
<1>3. ASSUME NEW u \in Uris, DropItems(u) PROVE ListsInv'
  <2>1. /\ u \in live /\ xfer[u] = "none"
        /\ Dealloc(list[u]) /\ list' = [list EXCEPT ![u] = {}]
        /\ UNCHANGED <<live, owned, xfer, held>>
    BY <1>3 DEF DropItems, Configurable
  <2> QED
    BY <2>1, LosesList
<1>4. ASSUME NEW u \in Uris, Free(u) PROVE ListsInv'
  <2>1. /\ u \in live /\ u \notin owned
        /\ Dealloc(list[u]) /\ list' = [list EXCEPT ![u] = {}]
        /\ live' = live \ {u}
        /\ UNCHANGED <<owned, xfer, held>>
    BY <1>4 DEF Free
  <2>2. xfer[u] # "running"
    BY <2>1 DEF ListsInv, Borrowing
  <2> QED
    BY <2>1, <2>2, LosesList
<1>5. ASSUME NEW u \in Uris, Ended(u) PROVE ListsInv'
  <2>1. /\ xfer' = [xfer EXCEPT ![u] = "over"]
        /\ UNCHANGED <<live, owned, list, refs, item, held>>
    BY <1>5 DEF Ended
  <2>2. \A n \in Items : Holders(n)' = Holders(n)
    BY <2>1 DEF Holders
  <2>3. RefsExact' /\ FreedWhenUnused'
    BY <2>1, <2>2 DEF ListsInv, RefsExact, FreedWhenUnused
  <2>4. LTypeOK'
    BY <1>t, <2>1 DEF LTypeOK
  <2>5. HeldAlive' /\ Borrowing'
    BY <1>t, <2>1 DEF ListsInv, HeldAlive, Borrowing, LTypeOK
  <2> QED
    BY <2>3, <2>4, <2>5 DEF ListsInv
<1>6. ASSUME NEW u \in Uris, NEW good \in SUBSET Items, RegisterUri(u, good) PROVE ListsInv'
  <2>1. /\ u \in live /\ u \in owned /\ Load(list[u], good)
        /\ xfer' = [xfer EXCEPT ![u] = "running"]
        /\ held' = [held EXCEPT ![u] = {n \in list[u] : item'[n] = "loaded"}]
        /\ UNCHANGED <<live, owned, list, refs>>
    BY <1>6 DEF RegisterUri, Configurable
  <2>2. /\ item' \in [Items -> ItemStates] /\ RefsExact' /\ FreedWhenUnused'
        /\ \A n \in Items : refs'[n] = 0 <=> item'[n] \in {"unused", "freed"}
        /\ \A n \in Items : item[n] = "loaded" => item'[n] = "loaded"
    BY <2>1, Loads
  <2>3. LTypeOK'
    BY <1>t, <2>1, <2>2 DEF LTypeOK
  <2>4. HeldAlive'
    BY <1>t, <2>1, <2>2 DEF ListsInv, HeldAlive, LTypeOK
  <2>5. Borrowing'
    BY <1>t, <2>1, <2>2 DEF ListsInv, Borrowing, LTypeOK
  <2> QED
    BY <2>2, <2>3, <2>4, <2>5 DEF ListsInv
<1>7. ASSUME NEW u \in Uris, NEW good \in SUBSET Items, Verify(u, good) PROVE ListsInv'
  <2>1. /\ u \in live /\ Load(list[u], good)
        /\ UNCHANGED <<live, owned, list, refs, xfer, held>>
    BY <1>7 DEF Verify
  <2>2. /\ item' \in [Items -> ItemStates] /\ RefsExact' /\ FreedWhenUnused'
        /\ \A n \in Items : refs'[n] = 0 <=> item'[n] \in {"unused", "freed"}
        /\ \A n \in Items : item[n] = "loaded" => item'[n] = "loaded"
    BY <2>1, Loads
  <2>3. LTypeOK'
    BY <1>t, <2>1, <2>2 DEF LTypeOK
  <2>4. HeldAlive' /\ Borrowing'
    BY <1>t, <2>1, <2>2 DEF ListsInv, HeldAlive, Borrowing, LTypeOK
  <2> QED
    BY <2>2, <2>3, <2>4 DEF ListsInv
<1>8. CASE AllOver
  <2>1. /\ \A u \in Uris : xfer[u] # "running"
        /\ owned' = {} /\ UNCHANGED <<live, list, refs, item, xfer, held>>
    BY <1>8 DEF AllOver
  <2>2. \A n \in Items : Holders(n)' = Holders(n)
    BY <2>1 DEF Holders
  <2>3. RefsExact' /\ FreedWhenUnused'
    BY <2>1, <2>2 DEF ListsInv, RefsExact, FreedWhenUnused
  <2> QED
    BY <1>t, <2>1, <2>3 DEF ListsInv, LTypeOK, HeldAlive, Borrowing
<1>9. CASE UNCHANGED lvars
  <2>1. \A n \in Items : Holders(n)' = Holders(n)
    BY <1>9 DEF Holders, lvars
  <2>2. RefsExact' /\ FreedWhenUnused'
    BY <1>9, <2>1 DEF ListsInv, RefsExact, FreedWhenUnused, lvars
  <2> QED
    BY <1>t, <1>9, <2>2 DEF ListsInv, LTypeOK, HeldAlive, Borrowing, lvars
<1> QED
  BY <1>1, <1>2, <1>3, <1>4, <1>5, <1>6, <1>7, <1>8, <1>9 DEF LNext

LEMMA ListsInvariance == LSpec => []ListsInv
<1> QED
  BY ListsFirst, ListsInductive, PTL DEF LSpec

-----------------------------------------------------------------------------
(* The variables have their types: among the rest, the registry never has  *)
(* a uri that was freed.                                                   *)
THEOREM ListsTypeCorrect == LSpec => []LTypeOK
<1>1. ListsInv => LTypeOK
  BY DEF ListsInv
<1> QED
  BY <1>1, ListsInvariance, PTL

(* The count of an item is exact in every state: list_refup, list_add and  *)
(* list_dealloc balance for any sharing of any number of lists.            *)
THEOREM CountsExact == LSpec => []RefsExact
<1>1. ListsInv => RefsExact
  BY DEF ListsInv
<1> QED
  BY <1>1, ListsInvariance, PTL

(* No list has an item that was freed, and no item outlives its last list. *)
THEOREM FreedInTime == LSpec => []FreedWhenUnused
<1>1. ListsInv => FreedWhenUnused
  BY DEF ListsInv
<1> QED
  BY <1>1, ListsInvariance, PTL

(* The pointers of a running transfer are to items that are loaded.        *)
THEOREM TransfersSafe == LSpec => []HeldAlive
<1>1. ListsInv => HeldAlive
  BY DEF ListsInv
<1> QED
  BY <1>1, ListsInvariance, PTL

(* An item is loaded at most once, whichever uris share it.                *)
THEOREM LoadsOnce == LSpec => LoadedOnce
<1> DEFINE Kept == \A n \in Items : item[n] \in {"loaded", "empty"} =>
                     item'[n] \in {item[n], "freed"}
<1>1. ASSUME ListsInv, [LNext]_lvars PROVE [Kept]_lvars
  <2>1. ASSUME NEW s, Dealloc(s) PROVE Kept
    BY <2>1 DEF Dealloc
  <2>2. ASSUME NEW s, NEW good, Load(s, good) PROVE Kept
    BY <2>2 DEF Load
  <2>3. ASSUME NEW u \in Uris, NEW n \in Items, AddItem(u, n) PROVE Kept
    BY <1>1, <2>3 DEF AddItem, ListsInv, LTypeOK
  <2>4. ASSUME UNCHANGED item PROVE Kept
    BY <2>4
  <2> HIDE DEF Kept
  <2>5. ASSUME NEW u \in Uris, DropItems(u) \/ Free(u) PROVE Kept
    BY <2>1, <2>5 DEF DropItems, Free
  <2>6. ASSUME NEW u \in Uris, NEW good \in SUBSET Items, RegisterUri(u, good) \/ Verify(u, good)
        PROVE Kept
    BY <2>2, <2>6 DEF RegisterUri, Verify
  <2>7. ASSUME NEW u \in Uris, NEW parent \in Uris \cup {NoParent}, New(u, parent) PROVE Kept
    BY <2>4, <2>7 DEF New
  <2>8. ASSUME NEW u \in Uris, Ended(u) PROVE Kept
    BY <2>4, <2>8 DEF Ended
  <2>9. CASE AllOver
    BY <2>4, <2>9 DEF AllOver
  <2> QED
    BY <1>1, <2>3, <2>5, <2>6, <2>7, <2>8, <2>9 DEF LNext
<1>2. [][Kept]_lvars => LoadedOnce
  BY PTL DEF LoadedOnce
<1> QED
  BY <1>1, ListsInvariance, PTL DEF LSpec, LoadedOnce

-----------------------------------------------------------------------------
(* Downloads.                                                              *)

USE DEF UriAssumption, NoneAssumption
USE UriAssumption, NoneAssumption

(* What one step of curl does to transfers and to the loop.                *)
LEMMA WorkDoes ==
  ASSUME DTypeOK, Work
  PROVE  /\ loop = "running" /\ ~broken
         /\ instances' = instances /\ loop' = loop
         /\ transfer' \in [Downloads -> Transfers]
         /\ \A o \in Downloads : transfer'[o] # transfer[o] =>
              /\ transfer[o] \in {"added", "active"}
              /\ transfer'[o] \in {"active", "ok", "bad"}
         /\ \/ failed' = failed /\ broken' = FALSE
            \/ /\ failed' \in Downloads /\ broken'
               /\ transfer[failed'] = "active" /\ transfer'[failed'] = "bad"
         /\ ctimer' \in Timers /\ broken' \in BOOLEAN
  <1> USE DEF DTypeOK, Transfers, Timers
  <1>1. ASSUME NEW o \in Downloads, Start(o)
        PROVE  /\ loop = "running" /\ ~broken
               /\ instances' = instances /\ loop' = loop
               /\ transfer' \in [Downloads -> Transfers]
               /\ \A p \in Downloads : transfer'[p] # transfer[p] =>
                    /\ transfer[p] \in {"added", "active"}
                    /\ transfer'[p] \in {"active", "ok", "bad"}
               /\ failed' = failed /\ broken' = FALSE
               /\ ctimer' \in Timers /\ broken' \in BOOLEAN
    BY <1>1 DEF Start, Dispatching
  <1>2. ASSUME NEW over \in SUBSET Active, NEW bad \in SUBSET over,
               NEW last \in Downloads \cup {NONE}, CheckInfo(over, bad, last)
        PROVE  /\ transfer' \in [Downloads -> Transfers]
               /\ \A o \in Downloads : transfer'[o] # transfer[o] =>
                    /\ transfer[o] \in {"added", "active"}
                    /\ transfer'[o] \in {"active", "ok", "bad"}
               /\ \/ failed' = failed /\ broken' = FALSE
                  \/ /\ failed' \in Downloads /\ broken'
                     /\ transfer[failed'] = "active" /\ transfer'[failed'] = "bad"
               /\ broken' \in BOOLEAN
    <2>1. over \subseteq Downloads /\ \A o \in over : transfer[o] = "active"
      BY DEF Active
    <2>2. CASE bad = {}
      BY <1>2, <2>1, <2>2 DEF CheckInfo
    <2>3. CASE bad # {}
      <3>1. last \in bad /\ failed' = last
        BY <1>2, <2>3 DEF CheckInfo
      <3>2. last \in Downloads /\ transfer[last] = "active" /\ transfer'[last] = "bad"
        BY <1>2, <2>1, <3>1 DEF CheckInfo
      <3> QED BY <1>2, <2>1, <3>1, <3>2 DEF CheckInfo
    <2> QED BY <2>2, <2>3
  <1>3. ASSUME NEW over \in SUBSET Active, NEW bad \in SUBSET over,
               NEW last \in Downloads \cup {NONE},
               EventCb(over, bad, last) \/ TimerCb(over, bad, last)
        PROVE  /\ CheckInfo(over, bad, last) /\ loop = "running" /\ ~broken
               /\ instances' = instances /\ loop' = loop /\ ctimer' \in Timers
    BY <1>3 DEF EventCb, TimerCb, Dispatching
  <1> QED
    <2>1. CASE \E o \in Downloads : Start(o)
      BY <2>1, <1>1
    <2>2. CASE Callback
      BY <2>2, <1>2, <1>3 DEF Callback
    <2> QED BY <2>1, <2>2 DEF Work

(* The variables have their types.                                         *)
THEOREM TypeCorrect == Spec => []TypeOK
<1>1. Init => TypeOK
  <2> SUFFICES ASSUME Init PROVE TypeOK
    OBVIOUS
  <2>1. transfer \in [Downloads -> Transfers]
    BY DEF Init, DownloaderNew, Transfers
  <2>2. /\ sig \in [Uri -> {"none", "remote", "local"}]
        /\ output \in [Downloads -> {"none", "open", "closed"}]
        /\ tp \in [Uri -> {"wanted", "failed", "used"}]
    BY DEF Init
  <2> QED BY <2>1, <2>2 DEF Init, TypeOK, DTypeOK, DownloaderNew, Timers, Clients, Stages
<1>2. TypeOK /\ [Next]_vars => TypeOK'
  <2> SUFFICES ASSUME TypeOK, [Next]_vars PROVE TypeOK'
    OBVIOUS
  <2> USE DEF TypeOK, DTypeOK, dvars, uvars
  <2>1. ASSUME NEW u \in Uri, NEW given \in {"none", "remote", "local"}, NewUri(u, given)
        PROVE  TypeOK'
    BY <2>1 DEF NewUri
  <2>2. CASE CallDownload \/ Registered
    BY <2>2 DEF CallDownload, Registered, Stages
  <2>3. ASSUME NEW u \in Uri, Register(u) PROVE TypeOK'
    BY <2>3 DEF Register, Download, EnsuredSig, Transfers, Timers
  <2>4. CASE Run
    BY <2>4 DEF Run, DispatchBegin
  <2>5. CASE Curl
    <3>1. failed' \in Downloads \cup {NONE}
      BY <2>5, WorkDoes DEF Curl
    <3> QED BY <2>5, <3>1, WorkDoes DEF Curl
  <2>6. CASE ReturnNil \/ ReturnUri \/ RunAgain
    BY <2>6 DEF ReturnNil, ReturnUri, RunAgain, DispatchEnd, Stages
  <2>7. CASE Tolerate \/ GiveUp
    BY <2>7 DEF Tolerate, GiveUp, Stages
  <2>8. ASSUME NEW u \in Uri, Take(u) PROVE TypeOK'
    <3>1. PICK readable : \/ \E fits, usable \in BOOLEAN : Finish(u, readable, fits, usable)
                          \/ FinishAborts(u, readable)
      BY <2>8 DEF Take
    <3>2. CASE FinishAborts(u, readable)
      BY <3>2 DEF FinishAborts, Stages
    <3>3. CASE \E fits, usable \in BOOLEAN : Finish(u, readable, fits, usable)
      <4>1. PICK fits \in BOOLEAN, usable \in BOOLEAN : Finish(u, readable, fits, usable)
        BY <3>3
      <4> QED BY <4>1 DEF Finish, DownloadFree, EnsuredSig, Transfers, Stages
    <3> QED BY <3>1, <3>2, <3>3
  <2>9. CASE Collected \/ FreeUris \/ FreeMaster
    BY <2>9 DEF Collected, FreeUris, FreeMaster, DownloadFree, Transfers, Stages
  <2>10. CASE UNCHANGED vars
    BY <2>10 DEF vars
  <2> HIDE DEF TypeOK, DTypeOK, dvars, uvars
  <2>11. CASE Master
    <3>1. \/ CallDownload \/ Registered \/ Run \/ ReturnNil \/ ReturnUri \/ RunAgain
          \/ Tolerate \/ GiveUp \/ Collected
          \/ \E u \in Uri : Register(u)
          \/ \E u \in Uri : Take(u)
      BY <2>11 DEF Master
    <3> QED BY <3>1, <2>2, <2>3, <2>4, <2>6, <2>7, <2>8, <2>9
  <2> QED BY <2>1, <2>5, <2>9, <2>10, <2>11 DEF Next
<1> QED BY <1>1, <1>2, PTL DEF Spec

-----------------------------------------------------------------------------
\* While transfers may be added or run.
Early == pc \in {"setup", "register", "download", "failed"}

\* The loop runs only inside download(), and is broken exactly for a failure,
\* which nobody was told of yet.
Loops == /\ loop = "idle" => failed = NONE
         /\ loop = "running" => pc = "download" /\ (broken <=> failed # NONE)
         /\ failed # NONE => /\ failed \in dl /\ transfer[failed] = "bad"
                             /\ failed \in Uri => tp[failed] = "wanted"

\* What is registered, and how far the caller is with it.
Registry ==
  /\ pc = "setup" => dl = {}
  /\ Early => registry = known \cap Remote
  /\ pc \in {"download", "failed"} => registry \subseteq dl
  /\ Early => \A u \in Uri : tp[u] # "used" /\ (tp[u] = "failed" => u \in dl)
  /\ Early => /\ \A o \in Unfinished : output[o] = "open"
              /\ \A o \in Downloads \ dl : transfer[o] = "none"
              /\ dl \cap Uri \subseteq known \cap Remote
  /\ \A u \in Uri : tp[u] # "wanted" => u \in known
  /\ pc = "failed" => /\ returned \in registry
                      /\ transfer[returned] = "bad" /\ tp[returned] = "wanted"
  /\ pc = "collect" => \A u \in known \cap Remote : tp[u] = "wanted" => u \in dl
  /\ Early \/ pc = "collect" =>
       \A u \in Uri \cap dl : Keyed(u) /\ EnsuredSig(u) = "remote" => sigOf[u] \in dl

IInv == Loops /\ Registry /\ Lifetimes /\ NilWhenOver /\ Accounted /\ AssertionMet

LEMMA Initially == Init => IInv
  <1> SUFFICES ASSUME Init PROVE IInv
    OBVIOUS
  <1>1. \A o \in Downloads : transfer[o] = "none"
    BY DEF Init, DownloaderNew
  <1>2. Unfinished = {}
    BY <1>1 DEF Unfinished
  <1>3. \A u \in Uri : tp[u] = "wanted"
    BY DEF Init
  <1> QED BY <1>2, <1>3 DEF Init, DownloaderNew, IInv, Loops, Registry, Lifetimes, NilWhenOver,
                            Accounted, AssertionMet

\* Nothing but the caller's stage and what follows from it changes.
LEMMA QuietSteps ==
  ASSUME TypeOK, IInv,
         CallDownload \/ Registered \/ Run \/ ReturnNil \/ ReturnUri \/ RunAgain \/ Tolerate
           \/ GiveUp \/ Collected \/ UNCHANGED vars
  PROVE  IInv'
  <1> USE DEF TypeOK, DTypeOK, dvars, uvars, Unfinished, Early, Keyed, EnsuredSig,
              IInv, Loops, Registry, Lifetimes, NilWhenOver, Accounted, AssertionMet
  <1>1. CASE CallDownload
    BY <1>1 DEF CallDownload
  <1>2. CASE Registered
    BY <1>2 DEF Registered
  <1>3. CASE Run
    BY <1>3 DEF Run, DispatchBegin
  <1>4. CASE ReturnNil
    BY <1>4 DEF ReturnNil, DispatchEnd
  <1>5. CASE ReturnUri
    BY <1>5 DEF ReturnUri, DispatchEnd
  <1>6. CASE RunAgain
    BY <1>6 DEF RunAgain, DispatchEnd
  <1>7. CASE Tolerate
    BY <1>7 DEF Tolerate
  <1>8. CASE GiveUp
    BY <1>8 DEF GiveUp
  <1>9. CASE Collected
    BY <1>9 DEF Collected
  <1>10. CASE UNCHANGED vars
    BY <1>10 DEF vars
  <1> QED BY <1>1, <1>2, <1>3, <1>4, <1>5, <1>6, <1>7, <1>8, <1>9, <1>10

LEMMA NewUriStep ==
  ASSUME TypeOK, IInv, NEW u \in Uri, NEW given \in {"none", "remote", "local"}, NewUri(u, given)
  PROVE  IInv'
  <1> QED BY DEF NewUri, TypeOK, DTypeOK, dvars, Unfinished, Early, Keyed, EnsuredSig,
              IInv, Loops, Registry, Lifetimes, NilWhenOver, Accounted, AssertionMet

LEMMA RegisterStep ==
  ASSUME TypeOK, IInv, NEW u \in Uri, Register(u)
  PROVE  IInv'
  <1> QED BY DEF Register, Download, TypeOK, DTypeOK, dvars, Unfinished, Early, Keyed, EnsuredSig,
              IInv, Loops, Registry, Lifetimes, NilWhenOver, Accounted, AssertionMet

LEMMA CurlStep ==
  ASSUME TypeOK, IInv, Curl
  PROVE  IInv'
  <1> USE DEF TypeOK
  <1>1. UNCHANGED uvars /\ UNCHANGED instances /\ loop = "running" /\ loop' = "running" /\ ~broken
    BY WorkDoes DEF Curl
  <1>2. \A o \in Downloads : transfer'[o] # transfer[o] =>
          transfer[o] \in {"added", "active"} /\ transfer'[o] \in {"active", "ok", "bad"}
    BY WorkDoes DEF Curl
  <1>3. Unfinished' \subseteq Unfinished
    BY <1>2 DEF Unfinished
  <1>4. pc = "download" /\ failed = NONE
    BY <1>1 DEF IInv, Loops
  <1>5. \/ failed' = NONE /\ ~broken'
        \/ /\ failed' \in Downloads /\ broken'
           /\ transfer[failed'] = "active" /\ transfer'[failed'] = "bad"
    BY WorkDoes, <1>4 DEF Curl
  <1>6. \A o \in Downloads : transfer[o] = "active" => o \in dl
    BY <1>4 DEF IInv, Lifetimes, Unfinished
  <1>7. Loops'
    <2>1. failed' # NONE => (failed' \in Uri => tp[failed'] = "wanted")
      <3>1. \A u \in Uri : tp[u] \in {"wanted", "failed", "used"}
        OBVIOUS
      <3> QED BY <1>4, <1>5, <3>1 DEF IInv, Registry, Accounted, Early
    <2> QED BY <1>1, <1>4, <1>5, <1>6, <2>1 DEF Loops, uvars
  <1>8. Registry'
    BY <1>1, <1>2, <1>3, <1>4 DEF IInv, Registry, Early, Keyed, EnsuredSig, uvars
  <1>9. Lifetimes'
    <2>1. failed' \in instances' \cup {NONE}
      BY <1>1, <1>4, <1>5, <1>6 DEF IInv, Lifetimes
    <2>2. loop' = "running" => \A o \in Unfinished' : output'[o] = "open"
      BY <1>1, <1>3 DEF IInv, Lifetimes, uvars
    <2> QED BY <1>1, <1>3, <2>1, <2>2 DEF IInv, Lifetimes, uvars
  <1>10. NilWhenOver'
    BY <1>1, <1>4 DEF NilWhenOver, uvars
  <1>11. Accounted'
    <2>1. \A o \in Downloads : transfer[o] \in {"ok", "bad"} => transfer'[o] = transfer[o]
      BY <1>2
    <2> QED BY <1>1, <2>1 DEF IInv, Accounted, Keyed, uvars
  <1>12. AssertionMet'
    BY <1>1, <1>4 DEF AssertionMet, uvars
  <1> QED BY <1>7, <1>8, <1>9, <1>10, <1>11, <1>12 DEF IInv

LEMMA FinishStep ==
  ASSUME TypeOK, IInv, NEW u \in Uri, Take(u)
  PROVE  IInv'
  <1> USE DEF TypeOK, DTypeOK, dvars, Unfinished, Early, Keyed, EnsuredSig,
              IInv, Loops, Registry, Lifetimes, NilWhenOver, Accounted, AssertionMet
  <1>1. PICK readable : \/ \E fits, usable \in BOOLEAN : Finish(u, readable, fits, usable)
                        \/ FinishAborts(u, readable)
    BY DEF Take
  <1>2. CASE FinishAborts(u, readable)
    BY <1>2 DEF FinishAborts
  <1>3. CASE \E fits, usable \in BOOLEAN : Finish(u, readable, fits, usable)
    <2>1. PICK fits \in BOOLEAN, usable \in BOOLEAN : Finish(u, readable, fits, usable)
      BY <1>3
    <2> QED BY <2>1 DEF Finish, DownloadFree, Delivered
  <1> QED BY <1>1, <1>2, <1>3

LEMMA ClosingSteps ==
  ASSUME TypeOK, IInv, FreeUris \/ FreeMaster
  PROVE  IInv'
  <1> QED BY DEF FreeUris, FreeMaster, DownloadFree, TypeOK, DTypeOK, dvars, Unfinished, Early,
              Keyed, EnsuredSig,
              IInv, Loops, Registry, Lifetimes, NilWhenOver, Accounted, AssertionMet

LEMMA Inductive == TypeOK /\ IInv /\ [Next]_vars => IInv'
  <1> SUFFICES ASSUME TypeOK, IInv, [Next]_vars PROVE IInv'
    OBVIOUS
  <1>1. CASE Master
    <2>1. \/ CallDownload \/ Registered \/ Run \/ ReturnNil \/ ReturnUri \/ RunAgain
          \/ Tolerate \/ GiveUp \/ Collected
          \/ \E u \in Uri : Register(u)
          \/ \E u \in Uri : Take(u)
      BY <1>1 DEF Master
    <2> QED BY <2>1, QuietSteps, RegisterStep, FinishStep
  <1> QED BY <1>1, NewUriStep, CurlStep, ClosingSteps, QuietSteps DEF Next

LEMMA Invariance == Spec => []IInv
  BY Initially, Inductive, TypeCorrect, PTL DEF Spec

(* Nobody is left with a pointer to a download that is gone, nor curl with *)
(* an output that is closed.                                               *)
THEOREM LifetimesHold == Spec => []Lifetimes
  BY Invariance, PTL DEF IInv

(* When download() returns nil everything is over.                         *)
THEOREM NilMeansOver == Spec => []NilWhenOver
  BY Invariance, PTL DEF IInv

(* What is used was received, what is left out may be and was not.         *)
THEOREM AllAccounted == Spec => []Accounted
  BY Invariance, PTL DEF IInv

(* Only a local resource with a remote signature meets the assertion.      *)
THEOREM AssertionHolds == Spec => []AssertionMet
  BY Invariance, PTL DEF IInv

(* download() returns each failure once.                                   *)
THEOREM FailuresReportedOnce == Spec => ReportedOnce
<1>1. TypeOK /\ IInv /\ [Next]_vars =>
        [pc' = "failed" /\ pc # "failed" => tp[returned'] = "wanted"]_vars
  <2> SUFFICES ASSUME TypeOK, IInv, [Next]_vars, pc' = "failed", pc # "failed"
               PROVE  tp[returned'] = "wanted"
    OBVIOUS
  <2>1. ASSUME NEW u \in Uri, Take(u) PROVE FALSE
    <3>1. PICK readable : \/ \E fits, usable \in BOOLEAN : Finish(u, readable, fits, usable)
                          \/ FinishAborts(u, readable)
      BY <2>1 DEF Take
    <3> QED BY <3>1 DEF Finish, FinishAborts
  <2>2. ReturnUri
    BY <2>1 DEF Next, Master, NewUri, CallDownload, Registered, Run, ReturnNil, RunAgain, Tolerate,
           GiveUp, Collected, Register, Curl, FreeUris, FreeMaster, uvars, vars
  <2> QED BY <2>2 DEF ReturnUri, IInv, Loops, TypeOK, DTypeOK
<1> QED BY <1>1, Invariance, TypeCorrect, PTL DEF Spec, ReportedOnce

-----------------------------------------------------------------------------
\* Results that curl reports arrive.
LEMMA CurlArrives ==
  ASSUME TypeOK, IInv, Curl
  PROVE  \E s, t \in SUBSET Uri : Promise!Arrive(s, t)
  <1>0. PICK s \in SUBSET Uri, t \in SUBSET Uri :
              /\ s = {u \in Uri : transfer[u] # "ok" /\ transfer'[u] = "ok"}
              /\ t = {u \in Uri : transfer[u] # "bad" /\ transfer'[u] = "bad"}
    OBVIOUS
  <1>1. UNCHANGED uvars /\ pc = "download"
    BY WorkDoes DEF Curl, TypeOK, IInv, Loops
  <1>2. \A u \in Uri : transfer'[u] # transfer[u] =>
          transfer[u] \in {"added", "active"} /\ transfer'[u] \in {"active", "ok", "bad"}
    BY WorkDoes DEF Curl, TypeOK
  <1>3. \A u \in Uri : transfer[u] \in {"added", "active"} => u \in known \cap Remote
    BY <1>1 DEF IInv, Registry, Lifetimes, Early, Unfinished
  <1>4. s \cap t = {} /\ s \cup t \subseteq known
    BY <1>0, <1>2, <1>3
  <1>5. (s \cup t) \cap ({u \in Uri : u \notin Remote \/ transfer[u] = "ok"}
                           \cup {u \in Uri : transfer[u] = "bad"}) = {}
    BY <1>0, <1>2, <1>3
  <1>6. {u \in Uri : u \notin Remote \/ transfer'[u] = "ok"}
          = {u \in Uri : u \notin Remote \/ transfer[u] = "ok"} \cup s
    BY <1>0, <1>2
  <1>7. {u \in Uri : transfer'[u] = "bad"} = {u \in Uri : transfer[u] = "bad"} \cup t
    BY <1>0, <1>2
  <1>8. Promise!Arrive(s, t)
    <2>1. Outcome' = Outcome /\ known' = known /\ tp' = tp
      BY <1>1 DEF Outcome, uvars
    <2> HIDE DEF Outcome
    <2> QED BY <1>4, <1>5, <1>6, <1>7, <2>1 DEF Promise!Arrive
  <1> QED BY <1>8

\* Downloads that are over stay what they are when their instances are freed.
LEMMA FreeKeeps ==
  ASSUME TypeOK, NEW s, DownloadFree(s)
  PROVE  \A o \in Downloads : (transfer'[o] = "ok" <=> transfer[o] = "ok")
                            /\ (transfer'[o] = "bad" <=> transfer[o] = "bad")
  BY DEF TypeOK, DTypeOK, Unfinished, DownloadFree

\* The other steps inside download(), and those around it.
LEMMA StutteringSteps ==
  ASSUME TypeOK, IInv,
         \/ CallDownload \/ Registered \/ Run \/ ReturnNil \/ ReturnUri \/ RunAgain
         \/ FreeUris \/ FreeMaster \/ UNCHANGED vars \/ \E u \in Uri : Register(u)
  PROVE  UNCHANGED Promise!fvars
  <1> USE DEF Promise!fvars, Outcome, TypeOK, DTypeOK, dvars, uvars
  <1>1. CASE CallDownload \/ Registered \/ Run \/ ReturnNil \/ ReturnUri \/ RunAgain
    <2>1. UNCHANGED <<transfer, known, tp>>
      BY <1>1 DEF CallDownload, Registered, Run, ReturnNil, ReturnUri, RunAgain, DispatchBegin,
                  DispatchEnd
    <2>2. pc \in {"setup", "register", "download"} /\ pc' \in {"register", "download", "failed", "collect"}
      BY <1>1 DEF CallDownload, Registered, Run, ReturnNil, ReturnUri, RunAgain, DispatchBegin,
                  DispatchEnd, IInv, Loops
    <2> QED BY <2>1, <2>2
  <1>2. CASE FreeUris
    BY <1>2 DEF FreeUris
  <1>3. CASE FreeMaster
    BY <1>3, FreeKeeps DEF FreeMaster
  <1>4. ASSUME NEW u \in Uri, Register(u) PROVE UNCHANGED Promise!fvars
    <2>1. transfer[u] = "none" /\ u \in Remote
      BY <1>4 DEF Register, IInv, Registry, Early
    <2>2. transfer'[u] = "added" /\ \A w \in Uri : w # u => transfer'[w] = transfer[w]
      BY <1>4 DEF Register, Download
    <2> QED BY <1>4, <2>1, <2>2 DEF Register
  <1>5. CASE UNCHANGED vars
    BY <1>5 DEF vars
  <1> QED BY <1>1, <1>2, <1>3, <1>4, <1>5

LEMMA CallerSteps ==
  ASSUME TypeOK, IInv
  PROVE  /\ \A u \in Uri, given \in {"none", "remote", "local"} :
              NewUri(u, given) => Promise!Want({u})
         /\ Tolerate => Promise!GiveUp(returned)
         /\ GiveUp => Promise!Fail
         /\ Collected => Promise!Succeed
  <1> USE DEF Outcome, TypeOK, DTypeOK, dvars, uvars, IInv, Registry, Early
  <1>1. ASSUME NEW u \in Uri, NEW given \in {"none", "remote", "local"}, NewUri(u, given)
        PROVE  Promise!Want({u})
    BY <1>1 DEF NewUri, Promise!Want
  <1>2. ASSUME Tolerate PROVE Promise!GiveUp(returned)
    BY <1>2 DEF Tolerate, Promise!GiveUp
  <1>3. ASSUME GiveUp PROVE Promise!Fail
    BY <1>3 DEF GiveUp, Promise!Fail
  <1>4. ASSUME Collected PROVE Promise!Succeed
    BY <1>4 DEF Collected, Promise!Succeed
  <1> QED BY <1>1, <1>2, <1>3, <1>4

LEMMA FinishUsesOrFails ==
  ASSUME TypeOK, IInv, NEW u \in Uri, Take(u)
  PROVE  Promise!Use(u) \/ Promise!Fail
  <1> USE DEF Outcome, TypeOK, DTypeOK, dvars, uvars
  <1>1. PICK readable : \/ \E fits, usable \in BOOLEAN : Finish(u, readable, fits, usable)
                        \/ FinishAborts(u, readable)
    BY DEF Take
  <1>2. CASE FinishAborts(u, readable)
    BY <1>2 DEF FinishAborts, Promise!Fail
  <1>3. CASE \E fits, usable \in BOOLEAN : Finish(u, readable, fits, usable)
    <2>1. PICK fits \in BOOLEAN, usable \in BOOLEAN : Finish(u, readable, fits, usable)
      BY <1>3
    <2>2. \A o \in Downloads : (transfer'[o] = "ok" <=> transfer[o] = "ok")
                             /\ (transfer'[o] = "bad" <=> transfer[o] = "bad")
      BY <2>1, FreeKeeps DEF Finish
    <2>3. CASE pc' = "collect"
      BY <2>1, <2>2, <2>3 DEF Finish, Delivered, Promise!Use
    <2>4. CASE pc' = "error"
      BY <2>1, <2>2, <2>4 DEF Finish, Promise!Fail
    <2> QED BY <2>1, <2>3, <2>4 DEF Finish
  <1> QED BY <1>1, <1>2, <1>3

(* The uris and their callers keep the promise of Fetch.                   *)
THEOREM KeepsPromise == Spec => ImplementsFetch
<1>1. Init => Promise!Init
  BY DEF Init, DownloaderNew, Promise!Init, Outcome
<1>2. TypeOK /\ IInv /\ [Next]_vars => [Promise!Next]_(Promise!fvars)
  <2> SUFFICES ASSUME TypeOK, IInv, [Next]_vars
               PROVE  Promise!Next \/ UNCHANGED Promise!fvars
    OBVIOUS
  <2>1. ASSUME NEW u \in Uri, NEW given \in {"none", "remote", "local"}, NewUri(u, given)
        PROVE  Promise!Next
    <3>1. Promise!Want({u})
      BY <2>1, CallerSteps
    <3> QED BY <3>1 DEF Promise!Next
  <2>2. CASE Curl
    BY <2>2, CurlArrives DEF Promise!Next
  <2>3. CASE Tolerate
    <3>1. returned \in Uri
      BY <2>3 DEF Tolerate
    <3>2. Promise!GiveUp(returned)
      BY <2>3, CallerSteps
    <3>3. \E u \in Uri : Promise!GiveUp(u)
      BY <3>1, <3>2 DEF Promise!GiveUp
    <3> QED BY <3>3 DEF Promise!Next
  <2>4. CASE GiveUp \/ Collected
    BY <2>4, CallerSteps DEF Promise!Next
  <2>5. ASSUME NEW u \in Uri, Take(u) PROVE Promise!Next
    BY <2>5, FinishUsesOrFails DEF Promise!Next
  <2> QED BY <2>1, <2>2, <2>3, <2>4, <2>5, StutteringSteps DEF Next, Master
<1> QED BY <1>1, <1>2, Invariance, TypeCorrect, PTL DEF Spec, ImplementsFetch, Promise!Spec
=============================================================================
