---------------------------- MODULE ZoneProofs ----------------------------
(***************************************************************************)
(* Proofs about the zone and what its entries hold.  Of BlobRefs, for any  *)
(* numbers of keys, addresses and requests: the counts are exact, nobody   *)
(* refers to freed memory, and nothing leaks.  Of StorePolicy, for any     *)
(* locations, headers and sizes: what is stored is whole, acceptable to    *)
(* peers and not of one client's.  Of LruZone, for any keys, sizes, memory *)
(* and percentages: the queues, the nodes and the counters always agree,   *)
(* the protected segment is earned, room is made from probation first, and *)
(* a purge tells the truth.                                                *)
(***************************************************************************)
EXTENDS BlobRefs, StorePolicy, LruZone, FiniteSetTheorems, TLAPS

-----------------------------------------------------------------------------
(* BlobRefs. *)

(* A blob has at most one node, which has one reference to it. *)
NodeRef(b) == IF \E k \in Keys : data[k] = b THEN 1 ELSE 0

OneNode ==
    \A j, k \in Keys : data[j] = data[k] /\ data[j] # None => j = k

(* A request that is doing something has a blob in hand, and a writer knows *)
(* its key.                                                                 *)
HandsFull ==
    \A p \in Procs : /\ pc[p] = "idle" <=> held[p] = None
                     /\ pc[p] = "stored" => at[p] \in Keys

(* The count is right of every address, also of one that is not in use: it  *)
(* is zero there.                                                           *)
Exact ==
    /\ \A b \in Blobs : refs[b] = NodeRef(b) + Cardinality(Holders(b)) + lost[b]
    /\ \A b \in Blobs \ alive : refs[b] = 0

(* Who is to free a blob is alone with it, and nothing else is at zero but  *)
(* what a killed worker did not free.                                       *)
OneFrees ==
    /\ \A b \in alive : refs[b] = 0 =>
            b \in stuck \/ \E p \in Procs : pc[p] = "free" /\ held[p] = b
    /\ \A p \in Procs : pc[p] = "free" =>
            /\ held[p] \in alive \ stuck /\ refs[held[p]] = 0
            /\ \A q \in Procs : pc[q] = "free" /\ held[q] = held[p] => q = p
    /\ \A b \in stuck : b \in alive /\ refs[b] = 0

(* A request refers to the body it acquired. *)
SameBody == \A p \in Procs : pc[p] # "idle" => body[held[p]] = seen[p]

AccountInv ==
    /\ TypeOK /\ OneNode /\ HandsFull /\ Exact /\ OneFrees /\ SameBody
    /\ used_bytes = Cardinality(alive)

-----------------------------------------------------------------------------
(* Counting. *)

(* The holders of a blob can be counted. *)
LEMMA HoldersCount ==
    ASSUME NEW b
    PROVE  IsFiniteSet(Holders(b)) /\ Cardinality(Holders(b)) \in Nat
<1>1. Holders(b) \subseteq Procs /\ IsFiniteSet(Procs)
  BY BlobRefsAssumption DEF Holders
<1> QED  BY <1>1, FS_Subset, FS_CardinalityType

(* So can any of the slab's addresses. *)
LEMMA BlobsCount ==
    ASSUME NEW S \in SUBSET Blobs
    PROVE  IsFiniteSet(S) /\ Cardinality(S) \in Nat
  BY BlobRefsAssumption, FS_Subset, FS_CardinalityType

(* A blob without holders counts none, one with a holder at least one. *)
LEMMA HoldersPositive ==
    ASSUME NEW b, NEW p \in Holders(b)
    PROVE  Cardinality(Holders(b)) >= 1
  BY HoldersCount, FS_EmptySet

(* What is at zero has neither node nor holder. *)
LEMMA ZeroIsAlone ==
    ASSUME AccountInv, NEW b \in Blobs, refs[b] = 0
    PROVE  /\ \A k \in Keys : data[k] # b
           /\ Holders(b) = {} /\ lost[b] = 0
<1>1. NodeRef(b) \in {0, 1} /\ Cardinality(Holders(b)) \in Nat /\ lost[b] \in Nat
  BY HoldersCount DEF NodeRef, AccountInv, TypeOK
<1>2. NodeRef(b) = 0 /\ Cardinality(Holders(b)) = 0 /\ lost[b] = 0
  BY <1>1 DEF AccountInv, Exact
<1> QED  BY <1>2, HoldersCount, FS_EmptySet DEF NodeRef

(* What a node owns is in use and counted. *)
LEMMA OwnedIsAlive ==
    ASSUME AccountInv, NEW k \in Keys, data[k] # None
    PROVE  data[k] \in alive /\ data[k] \in Blobs /\ refs[data[k]] >= 1
<1>1. data[k] \in Blobs
  BY DEF AccountInv, TypeOK
<1>2. refs[data[k]] # 0
  BY <1>1, ZeroIsAlone
<1> QED  BY <1>1, <1>2 DEF AccountInv, Exact, TypeOK

(* What a request has in hand is in use. *)
LEMMA HeldIsAlive ==
    ASSUME AccountInv, NEW p \in Procs, pc[p] # "idle"
    PROVE  held[p] \in alive /\ held[p] \in Blobs
<1>1. held[p] \in Blobs
  BY DEF AccountInv, HandsFull, TypeOK
<1>2. CASE pc[p] = "free"
  BY <1>1, <1>2 DEF AccountInv, OneFrees
<1>3. CASE pc[p] # "free"
  <2>1. p \in Holders(held[p])
    BY <1>3 DEF Holders
  <2>2. refs[held[p]] # 0
    BY <1>1, <2>1, ZeroIsAlone
  <2> QED  BY <1>1, <2>2 DEF AccountInv, Exact
<1> QED  BY <1>2, <1>3

(* Discharging no more than there is subtracts. *)
LEMMA DischargeSome ==
    ASSUME AccountInv, NEW F \in SUBSET alive
    PROVE  /\ Cardinality(F) \in Nat
           /\ Discharge(Cardinality(F)) = Cardinality(alive \ F)
<1>1. alive \in SUBSET Blobs /\ used_bytes = Cardinality(alive)
  BY DEF AccountInv, TypeOK
<1>2. IsFiniteSet(alive) /\ Cardinality(alive) \in Nat
      /\ Cardinality(F) \in Nat /\ Cardinality(alive \ F) \in Nat
  BY <1>1, BlobsCount
<1>3. alive \cap F = F
  OBVIOUS
<1>4. Cardinality(alive \ F) = Cardinality(alive) - Cardinality(F)
  BY <1>2, <1>3, FS_Difference
<1> QED  BY <1>1, <1>2, <1>4 DEF Discharge

-----------------------------------------------------------------------------
(* blob_node_release(), in one hold of the mutex. *)

(* The blobs of the nodes of K, and those of them that are freed. *)
LEMMA FreedFacts ==
    ASSUME AccountInv, NEW K \in SUBSET Keys
    PROVE  /\ Owned(K) \subseteq alive /\ Owned(K) \subseteq Blobs
           /\ Freed(K) \subseteq Owned(K)
           /\ \A b \in Owned(K) :
                 /\ refs[b] >= 1 /\ NodeRef(b) = 1
                 /\ \A k \in Keys : data[k] = b => k \in K
           /\ \A b \in Freed(K) : Holders(b) = {} /\ lost[b] = 0
           /\ \A b \in Freed(K), p \in Procs : held[p] # b
<1>1. ASSUME NEW b \in Owned(K)
      PROVE  /\ b \in alive /\ b \in Blobs /\ refs[b] >= 1 /\ NodeRef(b) = 1
             /\ \A k \in Keys : data[k] = b => k \in K
  <2>1. PICK k \in K : data[k] = b /\ b # None
    BY DEF Owned
  <2> QED  BY <2>1, OwnedIsAlive DEF NodeRef, AccountInv, OneNode
<1>2. Freed(K) \subseteq Owned(K)
  BY DEF Freed
<1>3. ASSUME NEW b \in Freed(K)
      PROVE  Holders(b) = {} /\ lost[b] = 0 /\ \A p \in Procs : held[p] # b
  <2>1. b \in Blobs /\ refs[b] = 1 /\ NodeRef(b) = 1
    BY <1>1, <1>2 DEF Freed
  <2>2. Cardinality(Holders(b)) \in Nat /\ lost[b] \in Nat
    BY <2>1, HoldersCount DEF AccountInv, TypeOK
  <2>3. Cardinality(Holders(b)) = 0 /\ lost[b] = 0
    BY <2>1, <2>2 DEF AccountInv, Exact
  <2>4. Holders(b) = {}
    BY <2>3, HoldersCount, FS_EmptySet
  <2>5. ASSUME NEW p \in Procs, held[p] = b PROVE FALSE
    <3>1. pc[p] = "free"
      BY <2>4, <2>5 DEF Holders
    <3> QED  BY <2>1, <2>5, <3>1 DEF AccountInv, OneFrees
  <2> QED  BY <2>3, <2>4, <2>5
<1> QED  BY <1>1, <1>2, <1>3

(* drop_locked() of the nodes of K keeps the account, if no request takes or *)
(* drops a reference in the same step.                                      *)
LEMMA DropKeeps ==
    ASSUME AccountInv, NEW K \in SUBSET Keys, Drop(K),
           UNCHANGED <<held, at, body, seen, lost, stuck>>,
           pc' \in [Procs -> Pcs],
           \A p \in Procs : /\ pc'[p] = "free" <=> pc[p] = "free"
                            /\ pc'[p] = "idle" <=> pc[p] = "idle"
                            /\ pc'[p] = "stored" => pc[p] = "stored"
    PROVE  AccountInv'
<1> USE FreedFacts
<1>0. TypeOK /\ None \notin Blobs
  BY BlobRefsAssumption DEF AccountInv
<1>1. \A k \in Keys : data'[k] = IF k \in K THEN None ELSE data[k]
  BY DEF Drop
<1>2. \A b \in Blobs : refs'[b] = IF b \in Owned(K) THEN refs[b] - 1 ELSE refs[b]
  BY DEF Drop, Dropped
<1>3. TypeOK'
  <2>1. refs' \in [Blobs -> Nat]
    <3>1. \A b \in Blobs : (IF b \in Owned(K) THEN refs[b] - 1 ELSE refs[b]) \in Nat
      BY <1>0 DEF TypeOK
    <3> QED  BY <3>1 DEF Drop, Dropped
  <2>2. data' \in [Keys -> Blobs \cup {None}]
    BY <1>0 DEF Drop, TypeOK
  <2>3. used_bytes' \in Nat
    <3>1. Cardinality(Freed(K)) \in Nat
      BY DischargeSome
    <3> QED  BY <1>0, <3>1 DEF Drop, Discharge, TypeOK
  <2>4. alive' \in SUBSET Blobs
    BY <1>0 DEF Drop, TypeOK
  <2> QED  BY <1>0, <2>1, <2>2, <2>3, <2>4 DEF TypeOK
<1>4. OneNode' /\ HandsFull' /\ SameBody'
  BY <1>0, <1>1 DEF AccountInv, OneNode, HandsFull, SameBody
<1>5. \A b : Holders(b)' = Holders(b)
  BY DEF Holders
<1>6. \A b \in Blobs : NodeRef(b)' = IF b \in Owned(K) THEN 0 ELSE NodeRef(b)
  <2> SUFFICES ASSUME NEW b \in Blobs
               PROVE  NodeRef(b)' = IF b \in Owned(K) THEN 0 ELSE NodeRef(b)
    OBVIOUS
  <2>1. CASE b \in Owned(K)
    BY <1>0, <1>1, <2>1 DEF NodeRef
  <2>2. CASE b \notin Owned(K)
    <3>1. \A k \in Keys : data[k] = b => k \notin K
      BY <1>0, <2>2 DEF Owned
    <3> QED  BY <1>0, <1>1, <2>2, <3>1 DEF NodeRef
  <2> QED  BY <2>1, <2>2
<1>7. \A b \in Freed(K) : b \in Blobs /\ refs[b] = 1 /\ refs'[b] = 0
  BY <1>2 DEF Freed
<1>8. Exact'
  <2>1. ASSUME NEW b \in Blobs
        PROVE  (refs[b] = NodeRef(b) + Cardinality(Holders(b)) + lost[b])'
    <3>1. refs[b] = NodeRef(b) + Cardinality(Holders(b)) + lost[b]
      BY DEF AccountInv, Exact
    <3>2. Cardinality(Holders(b)) \in Nat /\ lost[b] \in Nat
      BY <1>0, HoldersCount DEF TypeOK
    <3>3. NodeRef(b) \in {0, 1}
      BY DEF NodeRef
    <3>4. lost'[b] = lost[b] /\ Holders(b)' = Holders(b)
      BY <1>5
    <3> QED  BY <1>2, <1>6, <3>1, <3>2, <3>3, <3>4
  <2>2. \A b \in Blobs \ alive' : refs'[b] = 0
    BY <1>2, <1>7 DEF Drop, AccountInv, Exact
  <2> QED  BY <2>1, <2>2 DEF Exact
<1>9. OneFrees'
  <2>1. \A b \in alive' : b \in alive /\ b \in Blobs /\ b \notin Freed(K)
    BY <1>0 DEF Drop, TypeOK
  <2>2. \A b \in alive' : refs'[b] = 0 => refs[b] = 0
    <3> SUFFICES ASSUME NEW b \in alive', refs'[b] = 0 PROVE refs[b] = 0
      OBVIOUS
    <3>1. refs[b] \in Nat
      BY <1>0, <2>1 DEF TypeOK
    <3>2. CASE b \in Owned(K)
      BY <1>2, <2>1, <3>1, <3>2 DEF Freed
    <3> QED  BY <1>2, <2>1, <3>2
  <2>3. \A b \in Blobs : refs[b] = 0 => b \notin Owned(K) /\ refs'[b] = 0
    BY <1>2
  <2>4. \A b \in alive : refs[b] = 0 => b \in alive'
    BY <1>7 DEF Drop
  <2> QED  BY <1>0, <2>1, <2>2, <2>3, <2>4 DEF AccountInv, OneFrees, TypeOK
<1>10. used_bytes' = Cardinality(alive')
  BY DischargeSome DEF Drop
<1> QED  BY <1>3, <1>4, <1>8, <1>9, <1>10 DEF AccountInv

-----------------------------------------------------------------------------
(* References of requests. *)

(* A request that had nothing takes a reference to one blob. *)
LEMMA HolderAdded ==
    ASSUME AccountInv, NEW p \in Procs, pc[p] = "idle", NEW b \in Blobs,
           pc'[p] # "free", held' = [held EXCEPT ![p] = b],
           \A q \in Procs \ {p} : pc'[q] = pc[q]
    PROVE  /\ Cardinality(Holders(b)') = Cardinality(Holders(b)) + 1
           /\ \A c \in Blobs \ {b} : Holders(c)' = Holders(c)
<1>1. held[p] \notin Blobs /\ held \in [Procs -> Blobs \cup {None}]
  BY BlobRefsAssumption DEF AccountInv, HandsFull, TypeOK
<1>2. p \notin Holders(b) /\ Holders(b)' = Holders(b) \cup {p}
  BY <1>1 DEF Holders
<1>3. \A c \in Blobs \ {b} : Holders(c)' = Holders(c)
  BY <1>1 DEF Holders
<1> QED  BY <1>2, <1>3, HoldersCount, FS_AddElement

(* A request that holds one blob drops it. *)
LEMMA HolderRemoved ==
    ASSUME AccountInv, NEW p \in Procs, pc[p] \notin {"idle", "free"},
           NEW b \in Blobs, held[p] = b,
           \A q \in Procs \ {p} : pc'[q] = pc[q] /\ held'[q] = held[q],
           held'[p] \notin Blobs \/ pc'[p] = "free",
           held'[p] \in {None, b}
    PROVE  /\ Cardinality(Holders(b)') = Cardinality(Holders(b)) - 1
           /\ \A c \in Blobs \ {b} : Holders(c)' = Holders(c)
<1>1. None \notin Blobs
  BY BlobRefsAssumption
<1>2. p \in Holders(b)
  BY DEF Holders
<1>3. Holders(b)' = Holders(b) \ {p}
  BY <1>1 DEF Holders
<1>4. \A c \in Blobs \ {b} : Holders(c)' = Holders(c)
  BY <1>1 DEF Holders
<1> QED  BY <1>2, <1>3, <1>4, HoldersCount, FS_RemoveElement

(* A lookup that serves *)
LEMMA AcquireKeeps ==
    ASSUME AccountInv, NEW p \in Procs, NEW k \in Keys, Acquire(p, k)
    PROVE  AccountInv'
<1>1. TypeOK /\ None \notin Blobs
  BY BlobRefsAssumption DEF AccountInv
<1>a. PICK b \in Blobs : b = data[k]
  BY OwnedIsAlive DEF Acquire
<1>2. b \in alive /\ b \in Blobs /\ refs[b] >= 1
  BY <1>a, OwnedIsAlive DEF Acquire
<1>3. /\ pc' = [pc EXCEPT ![p] = "serve"] /\ held' = [held EXCEPT ![p] = b]
      /\ at' = [at EXCEPT ![p] = None] /\ seen' = [seen EXCEPT ![p] = body[b]]
      /\ refs' = [refs EXCEPT ![b] = refs[b] + 1] /\ pc[p] = "idle"
      /\ UNCHANGED <<data, alive, used_bytes, body, lost, stuck>>
  BY <1>a DEF Acquire, Begin
<1>4. /\ Cardinality(Holders(b)') = Cardinality(Holders(b)) + 1
      /\ \A c \in Blobs \ {b} : Holders(c)' = Holders(c)
  <2>1. pc'[p] # "free" /\ \A q \in Procs \ {p} : pc'[q] = pc[q]
    BY <1>1, <1>3 DEF TypeOK
  <2> QED  BY <1>2, <1>3, <2>1, HolderAdded
<1>5. TypeOK'
  <2>1. refs[b] + 1 \in Nat /\ body[b] \in Nat
    BY <1>1, <1>2 DEF TypeOK
  <2> QED  BY <1>1, <1>2, <1>3, <2>1 DEF TypeOK, Pcs
<1>6. \A c : NodeRef(c)' = NodeRef(c)
  BY <1>3 DEF NodeRef
<1>7. OneNode' /\ HandsFull' /\ SameBody'
  BY <1>1, <1>2, <1>3 DEF AccountInv, OneNode, HandsFull, SameBody, TypeOK
<1>8. Exact'
  <2>1. ASSUME NEW c \in Blobs
        PROVE  (refs[c] = NodeRef(c) + Cardinality(Holders(c)) + lost[c])'
    <3>1. refs[c] = NodeRef(c) + Cardinality(Holders(c)) + lost[c]
      BY DEF AccountInv, Exact
    <3>2. Cardinality(Holders(c)) \in Nat /\ lost[c] \in Nat /\ NodeRef(c) \in Nat
      BY <1>1, HoldersCount DEF TypeOK, NodeRef
    <3>3. refs'[c] = IF c = b THEN refs[c] + 1 ELSE refs[c]
      BY <1>1, <1>2, <1>3 DEF TypeOK
    <3> QED  BY <1>3, <1>4, <1>6, <3>1, <3>2, <3>3
  <2> QED  BY <1>1, <1>2, <1>3, <2>1 DEF AccountInv, Exact, TypeOK
<1>9. OneFrees'
  <2>1. \A c \in Blobs : refs'[c] = 0 <=> refs[c] = 0
    BY <1>1, <1>2, <1>3 DEF TypeOK
  <2>2. \A q \in Procs : /\ pc'[q] = "free" <=> pc[q] = "free"
                         /\ pc[q] = "free" => held'[q] = held[q]
    BY <1>1, <1>3 DEF TypeOK
  <2>3. \A q \in Procs : pc[q] = "free" => held[q] \in Blobs
    BY HeldIsAlive
  <2> QED  BY <1>1, <1>3, <2>1, <2>2, <2>3 DEF AccountInv, OneFrees, TypeOK
<1> QED  BY <1>3, <1>5, <1>7, <1>8, <1>9 DEF AccountInv

(* blob_release() *)
LEMMA ReleaseKeeps ==
    ASSUME AccountInv, NEW p \in Procs, Release(p)
    PROVE  AccountInv'
<1>1. TypeOK /\ None \notin Blobs
  BY BlobRefsAssumption DEF AccountInv
<1>a. PICK b \in Blobs : held[p] = b
  BY HeldIsAlive DEF Release
<1> DEFINE last == refs[b] = 1
<1>2. b \in alive /\ b \in Blobs /\ pc[p] \notin {"idle", "free"}
  BY <1>a, HeldIsAlive DEF Release
<1>3. /\ refs' = [refs EXCEPT ![b] = refs[b] - 1]
      /\ pc' = [pc EXCEPT ![p] = IF last THEN "free" ELSE "idle"]
      /\ held' = [held EXCEPT ![p] = IF last THEN b ELSE None]
      /\ at' = [at EXCEPT ![p] = IF last THEN at[p] ELSE None]
      /\ seen' = [seen EXCEPT ![p] = IF last THEN seen[p] ELSE 0]
      /\ UNCHANGED <<data, alive, used_bytes, body, lost, stuck>>
  BY <1>1, <1>a DEF Release, Begin, TypeOK
<1>4. refs[b] >= 1 /\ refs[b] \in Nat
  <2>1. p \in Holders(b)
    BY <1>a, <1>2 DEF Holders
  <2> QED  BY <1>1, <1>2, <2>1, ZeroIsAlone DEF TypeOK
<1>5. /\ Cardinality(Holders(b)') = Cardinality(Holders(b)) - 1
      /\ \A c \in Blobs \ {b} : Holders(c)' = Holders(c)
  <2>1. \A q \in Procs \ {p} : pc'[q] = pc[q] /\ held'[q] = held[q]
    BY <1>1, <1>3 DEF TypeOK
  <2>2. (held'[p] \notin Blobs \/ pc'[p] = "free") /\ held'[p] \in {None, b}
    BY <1>1, <1>3 DEF TypeOK
  <2> QED  BY <1>a, <1>2, <2>1, <2>2, HolderRemoved
<1>6. TypeOK'
  <2>1. refs[b] - 1 \in Nat
    BY <1>4
  <2> QED  BY <1>1, <1>2, <1>3, <2>1 DEF TypeOK, Pcs
<1>7. \A c : NodeRef(c)' = NodeRef(c)
  BY <1>3 DEF NodeRef
<1>8. OneNode' /\ HandsFull' /\ SameBody'
  <2>1. HandsFull'
    BY <1>1, <1>2, <1>3 DEF AccountInv, HandsFull, TypeOK
  <2>2. SameBody'
    BY <1>1, <1>a, <1>2, <1>3 DEF AccountInv, SameBody, TypeOK
  <2> QED  BY <1>3, <2>1, <2>2 DEF AccountInv, OneNode
<1>9. Exact'
  <2>1. ASSUME NEW c \in Blobs
        PROVE  (refs[c] = NodeRef(c) + Cardinality(Holders(c)) + lost[c])'
    <3>1. refs[c] = NodeRef(c) + Cardinality(Holders(c)) + lost[c]
      BY DEF AccountInv, Exact
    <3>2. Cardinality(Holders(c)) \in Nat /\ lost[c] \in Nat /\ NodeRef(c) \in Nat
      BY <1>1, HoldersCount DEF TypeOK, NodeRef
    <3>3. refs'[c] = IF c = b THEN refs[c] - 1 ELSE refs[c]
      BY <1>1, <1>2, <1>3 DEF TypeOK
    <3> QED  BY <1>3, <1>5, <1>7, <3>1, <3>2, <3>3
  <2> QED  BY <1>1, <1>2, <1>3, <2>1 DEF AccountInv, Exact, TypeOK
<1>10. OneFrees'
  <2>1. \A c \in Blobs : refs'[c] = 0 <=> refs[c] = 0 \/ (c = b /\ last)
    <3> HIDE DEF last
    <3>1. last <=> refs[b] = 1
      BY DEF last
    <3>2. \A c \in Blobs : refs'[c] = IF c = b THEN refs[b] - 1 ELSE refs[c]
      BY <1>1, <1>3 DEF TypeOK
    <3> QED  BY <1>4, <3>1, <3>2
  <2>2. \A q \in Procs : pc[q] = "free" => held[q] # b
    BY <1>4 DEF AccountInv, OneFrees
  <2>3. b \notin stuck
    BY <1>4 DEF AccountInv, OneFrees
  <2>4. \A q \in Procs : pc'[q] = "free" <=> pc[q] = "free" \/ (q = p /\ last)
    BY <1>1, <1>2, <1>3 DEF TypeOK
  <2>5. \A q \in Procs : pc'[q] = "free" => held'[q] = held[q]
    BY <1>1, <1>a, <1>2, <1>3 DEF TypeOK
  <2>6. \A q \in Procs : pc[q] = "free" => held[q] \in Blobs
    BY HeldIsAlive
  <2>7. UNCHANGED <<alive, stuck>> /\ alive \subseteq Blobs /\ held[p] = b
    BY <1>1, <1>a, <1>3 DEF TypeOK
  <2> HIDE DEF last
  <2>8. \A c \in alive' : refs'[c] = 0 =>
            c \in stuck' \/ \E q \in Procs : pc'[q] = "free" /\ held'[q] = c
    <3> SUFFICES ASSUME NEW c \in alive, refs'[c] = 0
                 PROVE c \in stuck \/ \E q \in Procs : pc'[q] = "free" /\ held'[q] = c
      BY <2>7
    <3>1. CASE c = b /\ last
      BY <2>4, <2>5, <2>7, <3>1
    <3>2. CASE ~(c = b /\ last)
      <4>1. c \in stuck \/ \E q \in Procs : pc[q] = "free" /\ held[q] = c
        BY <2>1, <2>7, <3>2 DEF AccountInv, OneFrees
      <4> QED  BY <2>4, <2>5, <4>1
    <3> QED  BY <3>1, <3>2
  <2>9. \A q \in Procs : pc'[q] = "free" =>
            /\ held'[q] \in alive' \ stuck' /\ refs'[held'[q]] = 0
            /\ \A s \in Procs : pc'[s] = "free" /\ held'[s] = held'[q] => s = q
    BY <1>2, <2>1, <2>2, <2>3, <2>4, <2>5, <2>6, <2>7 DEF AccountInv, OneFrees
  <2>10. \A c \in stuck' : c \in alive' /\ refs'[c] = 0
    BY <2>1, <2>7 DEF AccountInv, OneFrees
  <2> QED  BY <2>8, <2>9, <2>10 DEF OneFrees
<1> QED  BY <1>3, <1>6, <1>8, <1>9, <1>10 DEF AccountInv

(* What blob_release() does under the mutex *)
LEMMA FreeKeeps ==
    ASSUME AccountInv, NEW p \in Procs, Free(p)
    PROVE  AccountInv'
<1>1. TypeOK /\ None \notin Blobs
  BY BlobRefsAssumption DEF AccountInv
<1>a. PICK b \in Blobs : held[p] = b
  BY HeldIsAlive DEF Free
<1>2. /\ b \in alive \ stuck /\ refs[b] = 0 /\ pc[p] = "free"
      /\ \A q \in Procs : pc[q] = "free" /\ held[q] = b => q = p
  BY <1>a DEF Free, AccountInv, OneFrees
<1>3. /\ alive' = alive \ {b} /\ used_bytes' = Discharge(1)
      /\ pc' = [pc EXCEPT ![p] = "idle"] /\ held' = [held EXCEPT ![p] = None]
      /\ at' = [at EXCEPT ![p] = None] /\ seen' = [seen EXCEPT ![p] = 0]
      /\ UNCHANGED <<data, refs, body, lost, stuck>>
  BY <1>a DEF Free, Begin
<1>4. used_bytes' = Cardinality(alive')
  <2>1. {b} \subseteq alive /\ Cardinality({b}) = 1
    BY <1>2, FS_Singleton
  <2> QED  BY <1>3, <2>1, DischargeSome
<1>5. \A c \in Blobs : Holders(c)' = Holders(c)
  BY <1>1, <1>2, <1>3 DEF Holders, TypeOK
<1>6. TypeOK'
  <2>1. used_bytes' \in Nat
    BY <1>1, <1>3 DEF Discharge, TypeOK
  <2> QED  BY <1>1, <1>3, <2>1 DEF TypeOK, Pcs
<1>7. OneNode' /\ HandsFull' /\ SameBody'
  BY <1>1, <1>2, <1>3 DEF AccountInv, OneNode, HandsFull, SameBody, TypeOK
<1>8. Exact'
  BY <1>2, <1>3, <1>5 DEF AccountInv, Exact, NodeRef
<1>9. OneFrees'
  <2>1. \A q \in Procs : pc'[q] = "free" <=> pc[q] = "free" /\ q # p
    BY <1>1, <1>2, <1>3 DEF TypeOK
  <2>2. \A q \in Procs : q # p => held'[q] = held[q]
    BY <1>1, <1>3 DEF TypeOK
  <2>3. \A c \in alive' : refs'[c] = 0 =>
            c \in stuck' \/ \E q \in Procs : pc'[q] = "free" /\ held'[q] = c
    BY <1>a, <1>3, <2>1, <2>2 DEF AccountInv, OneFrees
  <2>4. \A q \in Procs : pc'[q] = "free" =>
            /\ held'[q] \in alive' \ stuck' /\ refs'[held'[q]] = 0
            /\ \A s \in Procs : pc'[s] = "free" /\ held'[s] = held'[q] => s = q
    BY <1>2, <1>3, <2>1, <2>2 DEF AccountInv, OneFrees
  <2>5. \A c \in stuck' : c \in alive' /\ refs'[c] = 0
    BY <1>2, <1>3 DEF AccountInv, OneFrees
  <2> QED  BY <2>3, <2>4, <2>5 DEF OneFrees
<1> QED  BY <1>4, <1>6, <1>7, <1>8, <1>9 DEF AccountInv

(* A worker dies: what it held is counted as lost, what it was to free is   *)
(* remembered.                                                              *)
LEMMA KillKeeps ==
    ASSUME AccountInv, NEW p \in Procs, Kill(p)
    PROVE  AccountInv'
<1>1. TypeOK /\ None \notin Blobs
  BY BlobRefsAssumption DEF AccountInv
<1>a. PICK b \in Blobs : held[p] = b
  BY HeldIsAlive DEF Kill
<1>2. b \in alive /\ pc[p] # "idle"
  BY <1>a, HeldIsAlive DEF Kill
<1>3. /\ pc' = [pc EXCEPT ![p] = "idle"] /\ held' = [held EXCEPT ![p] = None]
      /\ at' = [at EXCEPT ![p] = None] /\ seen' = [seen EXCEPT ![p] = 0]
      /\ UNCHANGED <<data, alive, refs, used_bytes, body>>
  BY DEF Kill, Begin, zone
<1>4. OneNode' /\ HandsFull' /\ SameBody' /\ \A c : NodeRef(c)' = NodeRef(c)
  BY <1>1, <1>2, <1>3
     DEF AccountInv, OneNode, HandsFull, SameBody, TypeOK, NodeRef
<1>5. \A q \in Procs : pc'[q] = "free" <=> pc[q] = "free" /\ q # p
  BY <1>1, <1>3 DEF TypeOK
<1>6. \A q \in Procs : q # p => held'[q] = held[q] /\ pc'[q] = pc[q]
  BY <1>1, <1>3 DEF TypeOK
<1>7. held'[p] = None /\ pc'[p] = "idle"
  BY <1>1, <1>3 DEF TypeOK
<1>8. CASE pc[p] = "free"
  <2>1. /\ refs[b] = 0 /\ b \notin stuck
        /\ \A q \in Procs : pc[q] = "free" /\ held[q] = b => q = p
    BY <1>a, <1>8 DEF AccountInv, OneFrees
  <2>2. stuck' = stuck \cup {b} /\ UNCHANGED lost
    BY <1>a, <1>8 DEF Kill
  <2>3. \A c \in Blobs : Holders(c)' = Holders(c)
    BY <1>1, <1>6, <1>7, <1>8 DEF Holders
  <2>4. TypeOK'
    BY <1>1, <1>3, <2>2 DEF TypeOK, Pcs
  <2>5. Exact'
    BY <1>3, <1>4, <2>2, <2>3 DEF AccountInv, Exact
  <2>6. \A c \in alive' : refs'[c] = 0 =>
            c \in stuck' \/ \E q \in Procs : pc'[q] = "free" /\ held'[q] = c
    BY <1>a, <1>3, <1>5, <1>6, <2>2 DEF AccountInv, OneFrees
  <2>7. \A q \in Procs : pc'[q] = "free" =>
            /\ held'[q] \in alive' \ stuck' /\ refs'[held'[q]] = 0
            /\ \A s \in Procs : pc'[s] = "free" /\ held'[s] = held'[q] => s = q
    BY <1>3, <1>5, <1>6, <2>1, <2>2 DEF AccountInv, OneFrees
  <2>8. \A c \in stuck' : c \in alive' /\ refs'[c] = 0
    BY <1>2, <1>3, <2>1, <2>2 DEF AccountInv, OneFrees
  <2> QED  BY <1>3, <1>4, <2>4, <2>5, <2>6, <2>7, <2>8 DEF AccountInv, OneFrees
<1>9. CASE pc[p] # "free"
  <2>1. lost' = [lost EXCEPT ![b] = lost[b] + 1] /\ UNCHANGED stuck
    BY <1>a, <1>9 DEF Kill
  <2>2. /\ Cardinality(Holders(b)') = Cardinality(Holders(b)) - 1
        /\ \A c \in Blobs \ {b} : Holders(c)' = Holders(c)
    BY <1>1, <1>a, <1>2, <1>6, <1>7, <1>9, HolderRemoved
  <2>3. TypeOK'
    <3>1. lost[b] + 1 \in Nat
      BY <1>1 DEF TypeOK
    <3> QED  BY <1>1, <1>3, <2>1, <3>1 DEF TypeOK, Pcs
  <2>4. Exact'
    <3>1. ASSUME NEW c \in Blobs
          PROVE  (refs[c] = NodeRef(c) + Cardinality(Holders(c)) + lost[c])'
      <4>1. refs[c] = NodeRef(c) + Cardinality(Holders(c)) + lost[c]
        BY DEF AccountInv, Exact
      <4>2. Cardinality(Holders(c)) \in Nat /\ lost[c] \in Nat /\ NodeRef(c) \in Nat
        BY <1>1, HoldersCount DEF TypeOK, NodeRef
      <4>3. lost'[c] = IF c = b THEN lost[c] + 1 ELSE lost[c]
        BY <1>1, <2>1 DEF TypeOK
      <4> QED  BY <1>3, <1>4, <2>2, <4>1, <4>2, <4>3
    <3> QED  BY <1>3, <3>1 DEF AccountInv, Exact
  <2>5. OneFrees'
    BY <1>3, <1>5, <1>6, <1>9, <2>1 DEF AccountInv, OneFrees
  <2> QED  BY <1>3, <1>4, <2>3, <2>4, <2>5 DEF AccountInv
<1> QED  BY <1>8, <1>9

-----------------------------------------------------------------------------
(* store_locked() of a new body. *)

(* An address that is handed out has nobody left. *)
LEMMA NewIsUnused ==
    ASSUME AccountInv, NEW E \in SUBSET Keys,
           NEW b \in Blobs \ (alive \ Freed(E))
    PROVE  /\ \A j \in Keys : data[j] = b => j \in E
           /\ Holders(b) = {} /\ lost[b] = 0
           /\ \A q \in Procs : held[q] # b
           /\ b \notin stuck
<1>1. None \notin Blobs
  BY BlobRefsAssumption
<1>2. CASE b \in Freed(E)
  BY <1>1, <1>2, FreedFacts DEF AccountInv, OneFrees, Freed
<1>3. CASE b \notin alive
  <2>1. refs[b] = 0
    BY <1>3 DEF AccountInv, Exact
  <2>2. \A q \in Procs : held[q] # b
    BY <1>1, <1>3, HeldIsAlive DEF AccountInv, HandsFull
  <2> QED  BY <1>3, <2>1, <2>2, ZeroIsAlone DEF AccountInv, OneFrees
<1> QED  BY <1>2, <1>3

(* A store, with or without a pin, and with the evictions it needs *)
LEMMA StoreKeeps ==
    ASSUME AccountInv, NEW p \in Procs, NEW k \in Keys, NEW E \in SUBSET Keys,
           NEW b \in Blobs, NEW pin \in BOOLEAN, Store(p, k, E, b, pin)
    PROVE  AccountInv'
<1>1. TypeOK /\ None \notin Blobs
  BY BlobRefsAssumption DEF AccountInv
<1> DEFINE K == E \cup {k}
           n == IF pin THEN 2 ELSE 1
<1>2. b \in Blobs \ (alive \ Freed(E)) /\ pc[p] = "idle" /\ k \notin E
  BY DEF Store
<1>3. /\ \A j \in Keys : data[j] = b => j \in E
      /\ Holders(b) = {} /\ lost[b] = 0
      /\ \A q \in Procs : held[q] # b
      /\ b \notin stuck
  BY <1>2, NewIsUnused
<1>4. K \in SUBSET Keys
  OBVIOUS
<1>5. Freed(E) \subseteq Freed(K)
  BY DEF Freed, Owned
<1> HIDE DEF K
<1>6. /\ Owned(K) \subseteq alive /\ Owned(K) \subseteq Blobs
      /\ Freed(K) \subseteq Owned(K)
      /\ \A c \in Owned(K) :
            /\ refs[c] >= 1 /\ NodeRef(c) = 1
            /\ \A j \in Keys : data[j] = c => j \in K
      /\ \A c \in Freed(K) : Holders(c) = {} /\ lost[c] = 0
  BY <1>4, FreedFacts
<1>7. \A j \in Keys : data'[j] = IF j = k THEN b ELSE IF j \in K THEN None ELSE data[j]
  BY DEF Store, K
<1>8. \A c \in Blobs : refs'[c] = IF c = b THEN n
                                  ELSE IF c \in Owned(K) THEN refs[c] - 1
                                  ELSE refs[c]
  BY DEF Store, Dropped, K
<1>9. alive' = (alive \ Freed(K)) \cup {b} /\ UNCHANGED <<lost, stuck>>
  BY DEF Store, K
<1>10. used_bytes' = Cardinality(alive')
  <2>1. /\ Cardinality(Freed(K)) \in Nat
        /\ Discharge(Cardinality(Freed(K))) = Cardinality(alive \ Freed(K))
    BY <1>6, DischargeSome
  <2>2. b \notin alive \ Freed(K)
    BY <1>2, <1>5
  <2>3. alive \ Freed(K) \in SUBSET Blobs
    BY <1>1 DEF TypeOK
  <2>4. Cardinality(alive') = Cardinality(alive \ Freed(K)) + 1
    BY <1>9, <2>2, <2>3, BlobsCount, FS_AddElement
  <2> QED  BY <2>1, <2>4 DEF Store, K
<1>11. \A q \in Procs : /\ pc'[q] = "free" <=> pc[q] = "free"
                        /\ pc[q] = "free" => held'[q] = held[q]
  BY <1>1, <1>2 DEF Store, Begin, TypeOK
<1>12. TypeOK'
  <2>1. refs' \in [Blobs -> Nat]
    <3>1. \A c \in Blobs : (IF c = b THEN n ELSE IF c \in Owned(K) THEN refs[c] - 1
                                                 ELSE refs[c]) \in Nat
      BY <1>1, <1>6 DEF TypeOK
    <3>2. refs' = [c \in Blobs |-> refs'[c]]
      BY DEF Store, Dropped
    <3> QED  BY <1>8, <3>1, <3>2
  <2>2. data' \in [Keys -> Blobs \cup {None}]
    BY <1>1 DEF Store, TypeOK
  <2>3. used_bytes' \in Nat /\ alive' \in SUBSET Blobs
    <3>1. alive' \in SUBSET Blobs
      BY <1>1, <1>9 DEF TypeOK
    <3>2. Cardinality(alive') \in Nat
      <4>1. IsFiniteSet(alive')
        BY <3>1, BlobRefsAssumption, FS_Subset
      <4> QED  BY <4>1, FS_CardinalityType
    <3> QED  BY <1>10, <3>1, <3>2
  <2>4. NextBody(b) \in Nat
    BY <1>1, BlobRefsAssumption DEF NextBody, TypeOK
  <2>5. body' \in [Blobs -> Nat]
    BY <1>1, <2>4 DEF Store, TypeOK
  <2>6. /\ pc' \in [Procs -> Pcs] /\ held' \in [Procs -> Blobs \cup {None}]
        /\ at' \in [Procs -> Keys \cup {None}] /\ seen' \in [Procs -> Nat]
    BY <1>1, <2>4 DEF Store, Begin, TypeOK, Pcs
  <2> QED  BY <1>1, <1>9, <2>1, <2>2, <2>3, <2>5, <2>6 DEF TypeOK
<1>13. OneNode'
  <2>1. \A j \in Keys : j # k => data'[j] # b
    BY <1>1, <1>3, <1>7 DEF K
  <2> QED  BY <1>1, <1>2, <1>7, <2>1 DEF AccountInv, OneNode
<1>14. HandsFull'
  BY <1>1, <1>2 DEF Store, Begin, AccountInv, HandsFull, TypeOK
<1>15. SameBody'
  <2>1. \A c \in Blobs : body'[c] = IF c = b THEN NextBody(b) ELSE body[c]
    BY <1>1 DEF Store, TypeOK
  <2>2. \A q \in Procs : q # p =>
            pc'[q] = pc[q] /\ held'[q] = held[q] /\ seen'[q] = seen[q]
    BY <1>1 DEF Store, Begin, TypeOK
  <2>3. pin => held'[p] = b /\ seen'[p] = NextBody(b)
    BY <1>1 DEF Store, Begin, TypeOK
  <2>4. ~pin => pc'[p] = "idle"
    BY <1>2 DEF Store
  <2>5. \A q \in Procs : pc[q] # "idle" => held[q] \in Blobs
    BY HeldIsAlive
  <2> QED  BY <1>2, <1>3, <2>1, <2>2, <2>3, <2>4, <2>5 DEF AccountInv, SameBody
<1>16. \A c \in Blobs : NodeRef(c)' = IF c = b THEN 1
                                      ELSE IF c \in Owned(K) THEN 0
                                      ELSE NodeRef(c)
  <2> SUFFICES ASSUME NEW c \in Blobs
               PROVE  NodeRef(c)' = IF c = b THEN 1
                                    ELSE IF c \in Owned(K) THEN 0
                                    ELSE NodeRef(c)
    OBVIOUS
  <2>1. CASE c = b
    BY <1>7, <2>1 DEF NodeRef
  <2>2. CASE c # b /\ c \in Owned(K)
    BY <1>1, <1>6, <1>7, <2>2 DEF NodeRef
  <2>3. CASE c # b /\ c \notin Owned(K)
    <3>1. \A j \in Keys : data[j] = c => j \notin K
      BY <1>1, <2>3 DEF Owned
    <3>2. k \in K
      BY DEF K
    <3> QED  BY <1>1, <1>7, <2>3, <3>1, <3>2 DEF NodeRef
  <2> QED  BY <2>1, <2>2, <2>3
<1>17. /\ Cardinality(Holders(b)') = n - 1
       /\ \A c \in Blobs \ {b} : Holders(c)' = Holders(c)
  <2>1. Cardinality(Holders(b)) = 0
    BY <1>3, FS_EmptySet
  <2>2. CASE pin
    <3>1. /\ pc'[p] = "stored" /\ held' = [held EXCEPT ![p] = b]
          /\ \A q \in Procs \ {p} : pc'[q] = pc[q]
      BY <1>1, <2>2 DEF Store, Begin, TypeOK
    <3>2. pc'[p] # "free" /\ b \in Blobs
      BY <1>2, <3>1
    <3>3. /\ Cardinality(Holders(b)') = Cardinality(Holders(b)) + 1
          /\ \A c \in Blobs \ {b} : Holders(c)' = Holders(c)
      BY <1>2, <3>1, <3>2, HolderAdded
    <3> QED  BY <2>1, <2>2, <3>3
  <2>3. CASE ~pin
    <3>1. \A c : Holders(c)' = Holders(c)
      BY <2>3 DEF Store, Holders
    <3> QED  BY <2>1, <2>3, <3>1
  <2> QED  BY <2>2, <2>3
<1>18. Exact'
  <2>1. ASSUME NEW c \in Blobs
        PROVE  (refs[c] = NodeRef(c) + Cardinality(Holders(c)) + lost[c])'
    <3>1. refs[c] = NodeRef(c) + Cardinality(Holders(c)) + lost[c]
      BY DEF AccountInv, Exact
    <3>2. Cardinality(Holders(c)) \in Nat /\ lost[c] \in Nat /\ NodeRef(c) \in Nat
      BY <1>1, HoldersCount DEF TypeOK, NodeRef
    <3>3. CASE c = b
      BY <1>3, <1>8, <1>9, <1>16, <1>17, <3>3
    <3>4. CASE c # b
      BY <1>6, <1>8, <1>9, <1>16, <1>17, <3>1, <3>2, <3>4
    <3> QED  BY <3>3, <3>4
  <2>2. \A c \in Freed(K) : c \in Blobs /\ refs[c] = 1
    BY <1>6 DEF Freed
  <2>3. \A c \in Blobs \ alive' : refs'[c] = 0
    BY <1>6, <1>8, <1>9, <2>2 DEF AccountInv, Exact
  <2> QED  BY <2>1, <2>3 DEF Exact
<1>19. OneFrees'
  <2>1. \A c \in alive' : c # b => c \in alive /\ c \in Blobs /\ c \notin Freed(K)
    BY <1>1, <1>9 DEF TypeOK
  <2>2. \A c \in alive' : refs'[c] = 0 => c # b /\ refs[c] = 0
    <3> SUFFICES ASSUME NEW c \in alive', refs'[c] = 0 PROVE c # b /\ refs[c] = 0
      OBVIOUS
    <3>1. c # b
      BY <1>8
    <3>2. refs[c] \in Nat
      BY <1>1, <2>1, <3>1 DEF TypeOK
    <3>3. CASE c \in Owned(K)
      BY <1>8, <2>1, <3>1, <3>2, <3>3 DEF Freed
    <3> QED  BY <1>8, <2>1, <3>1, <3>3
  <2>3. \A c \in Blobs : refs[c] = 0 /\ c # b => c \notin Owned(K) /\ refs'[c] = 0
    BY <1>6, <1>8
  <2>4. \A c \in alive : refs[c] = 0 => c \in alive'
    BY <1>9 DEF Freed
  <2>5. \A q \in Procs : pc[q] = "free" => held[q] \in Blobs /\ held[q] # b
    BY <1>3, HeldIsAlive
  <2>6. stuck \subseteq Blobs /\ alive \subseteq Blobs
    BY <1>1 DEF TypeOK
  <2>7. \A c \in alive' : refs'[c] = 0 =>
            c \in stuck' \/ \E q \in Procs : pc'[q] = "free" /\ held'[q] = c
    BY <1>9, <1>11, <2>1, <2>2 DEF AccountInv, OneFrees
  <2>8. \A q \in Procs : pc'[q] = "free" =>
            /\ held'[q] \in alive' \ stuck' /\ refs'[held'[q]] = 0
            /\ \A s \in Procs : pc'[s] = "free" /\ held'[s] = held'[q] => s = q
    BY <1>9, <1>11, <2>3, <2>4, <2>5 DEF AccountInv, OneFrees
  <2>9. \A c \in stuck' : c \in alive' /\ refs'[c] = 0
    BY <1>3, <1>9, <2>3, <2>4, <2>6 DEF AccountInv, OneFrees
  <2> QED  BY <2>7, <2>8, <2>9 DEF OneFrees
<1> QED
  BY <1>10, <1>12, <1>13, <1>14, <1>15, <1>18, <1>19 DEF AccountInv

-----------------------------------------------------------------------------
(* The whole zone. *)

(* A store taken back, by the writer that pinned it *)
LEMMA RollbackKeeps ==
    ASSUME AccountInv, NEW p \in Procs, Rollback(p)
    PROVE  AccountInv'
<1>1. TypeOK
  BY DEF AccountInv
<1>2. /\ pc[p] = "stored" /\ pc' = [pc EXCEPT ![p] = "rollback"]
      /\ UNCHANGED <<held, at, body, seen, lost, stuck>>
  BY DEF Rollback
<1>3. /\ pc' \in [Procs -> Pcs]
      /\ \A q \in Procs : /\ pc'[q] = "free" <=> pc[q] = "free"
                          /\ pc'[q] = "idle" <=> pc[q] = "idle"
                          /\ pc'[q] = "stored" => pc[q] = "stored"
  BY <1>1, <1>2 DEF TypeOK, Pcs
<1>4. CASE data[at[p]] = held[p]
  <2>1. Drop({at[p]}) /\ {at[p]} \in SUBSET Keys
    BY <1>2, <1>4 DEF Rollback, AccountInv, HandsFull
  <2> QED  BY <1>2, <1>3, <2>1, DropKeeps
<1>5. CASE data[at[p]] # held[p]
  <2>1. UNCHANGED <<data, refs, alive, used_bytes>>
    BY <1>5 DEF Rollback
  <2>2. \A b : Holders(b)' = Holders(b) /\ NodeRef(b)' = NodeRef(b)
    BY <1>2, <1>3, <2>1 DEF Holders, NodeRef
  <2>3. TypeOK' /\ OneNode' /\ HandsFull' /\ SameBody'
    BY <1>1, <1>2, <1>3, <2>1
       DEF AccountInv, TypeOK, OneNode, HandsFull, SameBody
  <2>4. Exact'
    BY <1>2, <2>1, <2>2 DEF AccountInv, Exact
  <2>5. OneFrees'
    BY <1>2, <1>3, <2>1 DEF AccountInv, OneFrees
  <2> QED  BY <2>1, <2>3, <2>4, <2>5 DEF AccountInv
<1> QED  BY <1>4, <1>5

(* An empty zone owes nothing. *)
LEMMA AccountInit == Init => AccountInv
<1> SUFFICES ASSUME Init PROVE AccountInv
  OBVIOUS
<1>1. None \notin Blobs
  BY BlobRefsAssumption
<1>2. TypeOK
  BY DEF Init, TypeOK, Pcs
<1>3. OneNode /\ HandsFull /\ SameBody
  BY DEF Init, OneNode, HandsFull, SameBody
<1>4. \A b \in Blobs : NodeRef(b) = 0
  BY <1>1 DEF Init, NodeRef
<1>5. \A b \in Blobs : Cardinality(Holders(b)) = 0
  <2>1. \A b \in Blobs : Holders(b) = {}
    BY <1>1 DEF Init, Holders
  <2> QED  BY <2>1, FS_EmptySet
<1>6. Exact
  BY <1>4, <1>5 DEF Init, Exact
<1>7. OneFrees
  BY DEF Init, OneFrees
<1>8. used_bytes = Cardinality(alive)
  BY FS_EmptySet DEF Init
<1> QED  BY <1>2, <1>3, <1>6, <1>7, <1>8 DEF AccountInv

(* No step of any request, and no purge, spoils the account. *)
LEMMA AccountNext == AccountInv /\ [Next]_vars => AccountInv'
<1> SUFFICES ASSUME AccountInv, [Next]_vars PROVE AccountInv'
  OBVIOUS
<1>1. ASSUME NEW K \in SUBSET Keys, Drop(K),
             UNCHANGED <<pc, held, at, body, seen, lost, stuck>>
      PROVE  AccountInv'
  <2>1. pc' \in [Procs -> Pcs]
    BY <1>1 DEF AccountInv, TypeOK
  <2> QED  BY <1>1, <2>1, DropKeeps
<1>2. ASSUME NEW p \in Procs, NEW k \in Keys, NEW E \in SUBSET Keys,
             NEW b \in Blobs, NEW pin \in BOOLEAN, Store(p, k, E, b, pin)
      PROVE  AccountInv'
  BY <1>2, StoreKeeps
<1>3. ASSUME NEW p \in Procs, NEW k \in Keys, StoreFails(p, k)
      PROVE  AccountInv'
  <2> DEFINE E == {j \in Keys \ {k} : data[j] # None}
  <2>1. E \in SUBSET Keys /\ Drop(E)
        /\ UNCHANGED <<pc, held, at, body, seen, lost, stuck>>
    BY <1>3 DEF StoreFails
  <2> HIDE DEF E
  <2> QED  BY <1>1, <2>1
<1>4. ASSUME NEW p \in Procs, NEW k \in Keys, Acquire(p, k)
      PROVE  AccountInv'
  BY <1>4, AcquireKeeps
<1>5. ASSUME NEW p \in Procs, Rollback(p) \/ Release(p) \/ Free(p) \/ Kill(p)
      PROVE  AccountInv'
  BY <1>5, RollbackKeeps, ReleaseKeeps, FreeKeeps, KillKeeps
<1>6. ASSUME NEW K \in SUBSET Keys, Purge(K)
      PROVE  AccountInv'
  BY <1>1, <1>6 DEF Purge
<1>7. ASSUME UNCHANGED vars PROVE AccountInv'
  <2>1. \A b : Holders(b)' = Holders(b) /\ NodeRef(b)' = NodeRef(b)
    BY <1>7 DEF vars, Holders, NodeRef
  <2> QED
    BY <1>7, <2>1 DEF vars, AccountInv, TypeOK, OneNode, HandsFull, Exact,
                      OneFrees, SameBody
<1> QED  BY <1>2, <1>3, <1>4, <1>5, <1>6, <1>7 DEF Next

(* What the account says of nodes, requests and the gauge. *)
LEMMA AccountGives == AccountInv => Accounted /\ NoUseAfterFree
<1> SUFFICES ASSUME AccountInv PROVE Accounted /\ NoUseAfterFree
  OBVIOUS
<1>1. TypeOK /\ None \notin Blobs
  BY BlobRefsAssumption DEF AccountInv
<1>2. ASSUME NEW b \in Blobs
      PROVE  Cardinality(Nodes(b)) = NodeRef(b) /\ (NodeRef(b) > 0 <=> Nodes(b) # {})
  <2>1. CASE \E k \in Keys : data[k] = b
    <3>1. PICK k \in Keys : data[k] = b
      BY <2>1
    <3>2. Nodes(b) = {k}
      BY <1>1, <3>1 DEF Nodes, AccountInv, OneNode
    <3> QED  BY <2>1, <3>2, FS_Singleton DEF NodeRef
  <2>2. CASE ~ \E k \in Keys : data[k] = b
    <3>1. Nodes(b) = {}
      BY <2>2 DEF Nodes
    <3> QED  BY <2>2, <3>1, FS_EmptySet DEF NodeRef
  <2> QED  BY <2>1, <2>2
<1>3. \A b \in alive : b \in Blobs
  BY <1>1 DEF TypeOK
<1>4. RefsExact
  BY <1>2, <1>3 DEF RefsExact, AccountInv, Exact
<1>5. LastOneFrees
  <2> SUFFICES ASSUME NEW p \in Procs, pc[p] = "free"
               PROVE  /\ Nodes(held[p]) = {}
                      /\ \A q \in Procs : held[q] = held[p] => q = p
    BY DEF LastOneFrees
  <2>1. held[p] \in Blobs /\ refs[held[p]] = 0
        /\ \A q \in Procs : pc[q] = "free" /\ held[q] = held[p] => q = p
    BY <1>3 DEF AccountInv, OneFrees
  <2>2. (\A k \in Keys : data[k] # held[p]) /\ Holders(held[p]) = {}
    BY <2>1, ZeroIsAlone
  <2> QED  BY <2>1, <2>2 DEF Nodes, Holders
<1>6. NothingLeaks
  <2>1. ASSUME NEW b \in alive
        PROVE  \/ Nodes(b) # {} \/ lost[b] > 0 \/ b \in stuck
               \/ \E p \in Procs : held[p] = b
    <3>1. refs[b] = NodeRef(b) + Cardinality(Holders(b)) + lost[b]
      BY <1>3 DEF AccountInv, Exact
    <3>2. refs[b] \in Nat /\ lost[b] \in Nat /\ NodeRef(b) \in {0, 1}
      BY <1>1, <1>3 DEF TypeOK, NodeRef
    <3>3. CASE refs[b] = 0
      BY <3>3 DEF AccountInv, OneFrees
    <3>4. CASE refs[b] # 0 /\ NodeRef(b) = 0 /\ lost[b] = 0
      <4>1. Holders(b) # {}
        BY <3>1, <3>4, FS_EmptySet
      <4> QED  BY <4>1 DEF Holders
    <3>5. CASE NodeRef(b) # 0
      BY <1>2, <1>3, <3>2, <3>5
    <3>6. CASE lost[b] # 0
      BY <3>2, <3>6
    <3> QED  BY <3>3, <3>4, <3>5, <3>6
  <2> QED  BY <2>1 DEF NothingLeaks, AccountInv
<1>7. NoUseAfterFree
  BY OwnedIsAlive, HeldIsAlive DEF NoUseAfterFree, AccountInv, SameBody
<1> QED  BY <1>4, <1>5, <1>6, <1>7 DEF Accounted

(* The variables keep their types: no count goes below zero. *)
THEOREM BlobTypes == Spec => []TypeOK
<1>1. AccountInv => TypeOK
  BY DEF AccountInv
<1> QED  BY <1>1, AccountInit, AccountNext, PTL DEF Spec

(* The count of an address in use is the references there are to it, a       *)
(* request that is to free one is alone with it, and nothing leaks but what *)
(* killed workers took with them, whatever nodes, readers, pinned writers,  *)
(* evictions, purges and roll-backs do in between                           *)
(* (ngx_http_cache_turbo_shm.c, blob_acquire() to blob_node_release()).     *)
THEOREM SlabAccounted == Spec => []Accounted
  BY AccountGives, AccountInit, AccountNext, PTL DEF Spec

(* A body that is served or pinned is the one that was acquired until it is  *)
(* released, although the release is outside the mutex and addresses are    *)
(* handed out again.                                                        *)
THEOREM NobodyUsesFreed == Spec => []NoUseAfterFree
  BY AccountGives, AccountInit, AccountNext, PTL DEF Spec

-----------------------------------------------------------------------------
(* StorePolicy. *)

(* A response of which a body filter has seen a part. *)
Responses ==
    [pc : {"body"}, head : Headers, auth : BOOLEAN, seen : Nat, version : Nat,
     captured : BOOLEAN, kept : Nat, sent : Nat]

Asked == [pc : {"asked"}, have : Nat, auth : BOOLEAN]

(* conf, clock and requests.  The stored entry is the matter of the         *)
(* invariant.                                                               *)
PolicyTypeOK ==
    /\ conf \in Confs /\ now \in Nat /\ version \in Nat
    /\ req \in [Requests -> {Idle} \cup Asked \cup Responses]

(* A capture that is still going on has left out nothing, and is of an      *)
(* answer that may be stored.                                               *)
CapturesWhole ==
    \A r \in Requests :
        req[r].pc = "body" /\ req[r].captured
            => req[r].kept = req[r].sent /\ Captured(req[r].head, req[r].auth)

PolicyInv == PolicyTypeOK /\ CapturesWhole /\ StoredIsSound

-----------------------------------------------------------------------------
(* The windows. *)

(* A lifetime that is extended fits a blob and is not shortened. *)
LEMMA AddClampedBounds ==
    ASSUME NEW t \in 0..TtlMax, NEW d \in Nat
    PROVE  AddClamped(t, d) \in t..TtlMax
  BY StorePolicyAssumption DEF AddClamped

(* stale_ttl() multiplies without leaving the field, and never shortens. *)
LEMMA StaleTtlBounds ==
    ASSUME conf \in Confs, NEW t \in 0..TtlMax
    PROVE  StaleTtl(t) \in t..TtlMax
<1>1. conf.mult \in 1..8 /\ TtlMax \in Nat
  BY StorePolicyAssumption DEF ConfType
<1>2. \A m \in 1..8 : t <= TtlMax \div m => t * m \in t..TtlMax
  BY <1>1
<1>3. \A m \in 1..8 : TtlMax \div m \in Nat
  BY <1>1
<1> QED  BY <1>1, <1>2, <1>3 DEF StaleTtl

(* The first lifetime that is said is one, or none is. *)
LEMMA UpstreamTtlType ==
    ASSUME NEW h \in Headers, NEW told \in Nat, now \in Nat
    PROVE  UpstreamTtl(h, told) \in Said
<1> DEFINE left == IF told + h.expires > now THEN told + h.expires - now ELSE 0
           said == <<h.surrogate, h.cdnShared, h.cdn, h.shared, h.max>>
                   \o <<IF h.expires = Unsaid THEN Unsaid ELSE left>>
           I == {i \in 1..Len(said) : said[i] # Unsaid}
<1>1. h \in HeaderType
  BY StorePolicyAssumption
<1>2. left \in Nat
  BY <1>1 DEF HeaderType
<1>3. said \in Seq(Said)
  BY <1>1, <1>2 DEF HeaderType, Said
<1> HIDE DEF said
<1>4. I # {} => Min(I) \in I
  <2>1. Len(said) = 6
    BY DEF said
  <2>2. I \subseteq 1..6
    BY <2>1
  <2>3. ASSUME I # {} PROVE \E i \in I : \A j \in I : i <= j
    <3> HIDE DEF I
    <3>1. PICK k \in I : TRUE
      BY <2>3
    <3>2. k \in 1..6
      BY <2>2
    <3>3. 1 \in I \/ 2 \in I \/ 3 \in I \/ 4 \in I \/ 5 \in I \/ 6 \in I
      BY <3>2
    <3> QED  BY <2>2, <3>3
  <2> HIDE DEF I
  <2> QED  BY <2>3 DEF Min
<1>5. UpstreamTtl(h, told) = IF I = {} THEN Unsaid ELSE said[Min(I)]
  <2>1. SelectInSeq(said, LAMBDA t : t # Unsaid) = IF I # {} THEN Min(I) ELSE 0
    BY DEF SelectInSeq
  <2>2. I # {} => Min(I) # 0
    BY <1>4
  <2> QED  BY <2>1, <2>2 DEF UpstreamTtl, said
<1> QED  BY <1>3, <1>4, <1>5 DEF Said

(* The windows of a stored blob are ones that a peer's blob_validate()      *)
(* accepts.                                                                 *)
LEMMA WindowsAccepted ==
    ASSUME PolicyTypeOK, NEW h \in Headers, NEW told \in Nat, StatusTtl(h) # Unsaid
    PROVE  LET w == Windows(h, told)
           IN  /\ w.ttl \in 0..TtlMax
               /\ w.stale \in w.ttl..TtlMax
               /\ w.sie \in 0..TtlMax
<1>0. h \in HeaderType /\ conf \in ConfType /\ TtlMax \in Nat
  BY StorePolicyAssumption DEF PolicyTypeOK
<1> DEFINE honored == conf.mode = "honor" /\ UpstreamTtl(h, told) # Unsaid
           said == IF honored THEN UpstreamTtl(h, told) ELSE StatusTtl(h)
           ttl == IF said > TtlMax THEN TtlMax ELSE said
           heeds == ttl > 0 /\ conf.mode # "ignore"
           stale == IF heeds /\ h.must THEN ttl
                    ELSE IF heeds /\ h.swr # Unsaid THEN AddClamped(ttl, h.swr)
                    ELSE StaleTtl(ttl)
           sie == IF ttl = 0 \/ (heeds /\ h.must) THEN 0
                  ELSE IF heeds /\ h.sie # Unsaid THEN AddClamped(ttl, h.sie)
                  ELSE IF conf.keep > 0 THEN AddClamped(ttl, conf.keep)
                  ELSE 0
<1>1. ttl \in 0..TtlMax
  <2>1. StatusTtl(h) \in Nat
    BY <1>0, StorePolicyAssumption DEF StatusTtl, ConfType
  <2>2. UpstreamTtl(h, told) \in Nat \cup {Unsaid}
    BY UpstreamTtlType DEF PolicyTypeOK, Said
  <2>3. said \in Nat
    BY <2>1, <2>2
  <2> HIDE DEF said
  <2> QED  BY <1>0, <2>3
<1>2. h.swr # Unsaid => h.swr \in Nat
  BY <1>0 DEF HeaderType, Said
<1>3. h.sie # Unsaid => h.sie \in Nat
  BY <1>0 DEF HeaderType, Said
<1>4. conf.keep \in Nat
  BY <1>0 DEF ConfType
<1> HIDE DEF ttl
<1>5. stale \in ttl..TtlMax
  <2>1. StaleTtl(ttl) \in ttl..TtlMax
    BY <1>1, StaleTtlBounds DEF PolicyTypeOK
  <2>2. h.swr # Unsaid => AddClamped(ttl, h.swr) \in ttl..TtlMax
    BY <1>1, <1>2, AddClampedBounds
  <2>3. ttl \in ttl..TtlMax
    BY <1>0, <1>1
  <2> QED  BY <2>1, <2>2, <2>3
<1>6. sie \in 0..TtlMax
  <2>1. h.sie # Unsaid => AddClamped(ttl, h.sie) \in ttl..TtlMax
    BY <1>1, <1>3, AddClampedBounds
  <2>2. AddClamped(ttl, conf.keep) \in ttl..TtlMax
    BY <1>1, <1>4, AddClampedBounds
  <2>3. \A t \in ttl..TtlMax : t \in 0..TtlMax
    BY <1>0, <1>1
  <2>4. 0 \in 0..TtlMax
    BY <1>0
  <2> QED  BY <2>1, <2>2, <2>3, <2>4
<1>7. Windows(h, told) = [ttl |-> ttl, stale |-> stale, sie |-> sie]
  BY DEF Windows, ttl
<1> HIDE DEF stale, sie
<1> QED  BY <1>1, <1>5, <1>6, <1>7

-----------------------------------------------------------------------------
(* The steps. *)

(* body_filter_capture() keeps all or nothing. *)
LEMMA GatheredWhole ==
    ASSUME NEW q \in Responses, NEW kind, q.captured => q.kept = q.sent
    PROVE  /\ Gathered(q, kind) \in Responses
           /\ Gathered(q, kind).head = q.head /\ Gathered(q, kind).auth = q.auth
           /\ Gathered(q, kind).captured =>
                 q.captured /\ Gathered(q, kind).kept = Gathered(q, kind).sent
<1>1. q.kept + 1 \in Nat /\ q.sent + 1 \in Nat
  BY DEF Responses
<1>2. CASE q.captured /\ kind = "memory" /\ q.kept < MaxSize
  <2>1. \A k, s \in Nat : [q EXCEPT !.kept = k, !.sent = s] \in Responses
    BY DEF Responses
  <2>2. Gathered(q, kind) = [q EXCEPT !.kept = q.kept + 1, !.sent = q.sent + 1]
    BY <1>2 DEF Gathered
  <2>3. Gathered(q, kind) \in Responses
    BY <1>1, <2>1, <2>2
  <2>4. /\ Gathered(q, kind).head = q.head /\ Gathered(q, kind).auth = q.auth
        /\ Gathered(q, kind).kept = q.kept + 1
        /\ Gathered(q, kind).sent = q.sent + 1
    BY <2>2 DEF Responses
  <2> QED  BY <1>2, <2>3, <2>4
<1>3. CASE ~(q.captured /\ kind = "memory" /\ q.kept < MaxSize)
  <2>1. \A s \in Nat :
           [q EXCEPT !.captured = FALSE, !.kept = 0, !.sent = s] \in Responses
    BY DEF Responses
  <2>2. Gathered(q, kind) =
            [q EXCEPT !.captured = FALSE, !.kept = 0, !.sent = q.sent + 1]
    BY <1>3 DEF Gathered
  <2>3. Gathered(q, kind) \in Responses
    BY <1>1, <2>1, <2>2
  <2>4. /\ Gathered(q, kind).head = q.head /\ Gathered(q, kind).auth = q.auth
        /\ Gathered(q, kind).captured = FALSE
    BY <2>2 DEF Responses
  <2> QED  BY <2>3, <2>4
<1> QED  BY <1>2, <1>3

(* What the last piece stores is sound. *)
LEMMA StoredSound ==
    ASSUME PolicyTypeOK, NEW q \in Responses, q.captured, q.kept = q.sent,
           Captured(q.head, q.auth)
    PROVE  LET e == Stored(q)
           IN  /\ e.whole /\ ~e.auth /\ ~e.cookie
               /\ e.blob.ttl \in 0..TtlMax
               /\ e.blob.stale \in e.blob.ttl..TtlMax
               /\ e.blob.sie \in 0..TtlMax
<1>1. q.head \in Headers /\ q.seen \in Nat /\ q.auth \in BOOLEAN
  BY DEF Responses
<1>2. StatusTtl(q.head) # Unsaid /\ ~q.auth /\ ~CookieRefuses(q.head)
  BY DEF Captured, Cacheable
<1>3. Stored(q).blob = Windows(q.head, q.seen)
  BY DEF Stored
<1>4. Stored(q).whole /\ ~Stored(q).auth /\ ~Stored(q).cookie
  BY <1>2 DEF Stored
<1> QED  BY <1>1, <1>2, <1>3, <1>4, WindowsAccepted

(* The start *)
LEMMA PolicyInvInit == PolicyInit => PolicyInv
  BY DEF PolicyInit, PolicyInv, PolicyTypeOK, CapturesWhole, StoredIsSound,
         StoredIsWhole, PeersAccept, FloorsHold, Idle

(* A step that leaves the entry alone and gives a request a state that      *)
(* captures as it should keeps the invariant.                               *)
LEMMA RequestStep ==
    ASSUME PolicyInv, NEW r \in Requests,
           NEW q \in {Idle} \cup Asked \cup Responses,
           req' = [req EXCEPT ![r] = q], UNCHANGED <<conf, now, version>>,
           q.pc = "body" /\ q.captured
               => q.kept = q.sent /\ Captured(q.head, q.auth),
           StoredIsSound'
    PROVE  PolicyInv'
<1>1. PolicyTypeOK'
  BY DEF PolicyInv, PolicyTypeOK
<1>2. \A h, a : Captured(h, a)' <=> Captured(h, a)
  BY DEF Captured, StatusTtl, Cacheable, CookieRefuses, ControlRefuses
<1>3. CapturesWhole'
  BY <1>2 DEF PolicyInv, PolicyTypeOK, CapturesWhole
<1> QED  BY <1>1, <1>3 DEF PolicyInv

(* Each step keeps the invariant. *)
LEMMA PolicyInvNext == PolicyInv /\ [PolicyNext]_policyVars => PolicyInv'
<1> SUFFICES ASSUME PolicyInv, [PolicyNext]_policyVars PROVE PolicyInv'
  OBVIOUS
<1> USE DEF StoredIsSound, StoredIsWhole, PeersAccept, FloorsHold
<1>0. PolicyTypeOK /\ CapturesWhole /\ StoredIsSound
  BY DEF PolicyInv
<1>1. UNCHANGED entry => StoredIsSound'
  BY <1>0
<1>2. Idle \in {Idle} \cup Asked \cup Responses /\ Idle.pc # "body"
  BY DEF Idle
<1>3. CASE UNCHANGED policyVars
  BY <1>3 DEF policyVars, PolicyInv, PolicyTypeOK, CapturesWhole, Captured, StatusTtl,
              Cacheable, CookieRefuses, ControlRefuses
<1>4. CASE Time \/ Publish \/ Evicted
  <2>1. UNCHANGED <<conf, req>> /\ now' \in Nat /\ version' \in Nat
    BY <1>0, <1>4 DEF Time, Publish, Evicted, PolicyTypeOK
  <2>2. PolicyTypeOK' /\ CapturesWhole'
    BY <1>0, <2>1 DEF PolicyTypeOK, CapturesWhole, Captured, StatusTtl, Cacheable,
                      CookieRefuses, ControlRefuses
  <2>3. entry' \in {entry, Nothing}
    BY <1>4 DEF Time, Publish, Evicted
  <2> QED  BY <1>0, <2>2, <2>3 DEF PolicyInv
<1>5. ASSUME NEW r \in Requests, Ask(r) PROVE PolicyInv'
  <2>1. PICK have \in 0..version, auth \in BOOLEAN :
            req' = [req EXCEPT ![r] = [pc |-> "asked", have |-> have, auth |-> auth]]
    BY <1>5 DEF Ask
  <2>2. [pc |-> "asked", have |-> have, auth |-> auth] \in Asked
    BY <1>0 DEF Asked, PolicyTypeOK
  <2> QED  BY <1>1, <1>5, <2>1, <2>2, RequestStep DEF Ask
<1>6. ASSUME NEW r \in Requests, Answered(r) PROVE PolicyInv'
  <2>1. req[r] \in Asked
    BY <1>0, <1>6 DEF Answered, PolicyTypeOK, Idle, Responses
  <2>2. PICK h \in Headers :
          req' = [req EXCEPT ![r] =
                     [pc |-> "body", head |-> h, auth |-> req[r].auth,
                      seen |-> now, version |-> version,
                      captured |-> Captured(h, req[r].auth),
                      kept |-> 0, sent |-> 0]]
    BY <1>6 DEF Answered
  <2> DEFINE q == [pc |-> "body", head |-> h, auth |-> req[r].auth,
                   seen |-> now, version |-> version,
                   captured |-> Captured(h, req[r].auth), kept |-> 0, sent |-> 0]
  <2>3. Captured(h, req[r].auth) \in BOOLEAN
    BY DEF Captured, Cacheable
  <2>4. q \in Responses
    BY <1>0, <2>1, <2>3 DEF Responses, Asked, PolicyTypeOK
  <2> QED  BY <1>1, <1>6, <2>2, <2>4, RequestStep DEF Answered
<1>7. ASSUME NEW r \in Requests, Confirmed(r) PROVE PolicyInv'
  <2>1. StoredIsSound'
    <3>1. CASE entry = Nothing
      BY <1>7, <3>1 DEF Confirmed
    <3>2. CASE entry # Nothing
      BY <1>0, <1>7, <3>2 DEF Confirmed
    <3> QED  BY <3>1, <3>2
  <2> QED  BY <1>2, <1>7, <2>1, RequestStep DEF Confirmed
<1>8. ASSUME NEW r \in Requests, Piece(r) PROVE PolicyInv'
  <2>1. PICK kind \in {"memory", "file"} :
            req' = [req EXCEPT ![r] = Gathered(req[r], kind)]
    BY <1>8 DEF Piece
  <2>2. req[r] \in Responses
    BY <1>0, <1>8 DEF Piece, PolicyTypeOK, Idle, Asked
  <2>3. req[r].captured => req[r].kept = req[r].sent
                           /\ Captured(req[r].head, req[r].auth)
    BY <1>0, <1>8 DEF Piece, CapturesWhole
  <2> QED  BY <1>1, <1>8, <2>1, <2>2, <2>3, GatheredWhole, RequestStep DEF Piece
<1>9. ASSUME NEW r \in Requests, LastPiece(r) PROVE PolicyInv'
  <2>1. req[r] \in Responses
    BY <1>0, <1>9 DEF LastPiece, PolicyTypeOK, Idle, Asked
  <2>2. req[r].captured => req[r].kept = req[r].sent
                           /\ Captured(req[r].head, req[r].auth)
    BY <1>0, <1>9 DEF LastPiece, CapturesWhole
  <2>3. UNCHANGED entry \/ (req[r].captured /\ entry' = Stored(req[r]))
    BY <1>9 DEF LastPiece
  <2>4. StoredIsSound'
    BY <1>0, <1>1, <2>1, <2>2, <2>3, StoredSound
  <2> QED  BY <1>2, <1>9, <2>4, RequestStep DEF LastPiece
<1>10. ASSUME NEW r \in Requests, Broken(r) PROVE PolicyInv'
  BY <1>1, <1>2, <1>10, RequestStep DEF Broken
<1> QED
  BY <1>3, <1>4, <1>5, <1>6, <1>7, <1>8, <1>9, <1>10 DEF PolicyNext

(* Whatever the origin says, in whatever pieces and however requests,       *)
(* evictions and confirmations interleave, what is stored is a whole answer *)
(* that may be stored, with windows every node accepts                      *)
(* (header_filter_capture(), body_filter_store_tail()).                     *)
THEOREM StoredStaysSound == PolicySpec => []StoredIsSound
<1>1. PolicyInv => StoredIsSound
  BY DEF PolicyInv
<1> QED  BY <1>1, PolicyInvInit, PolicyInvNext, PTL DEF PolicySpec

-----------------------------------------------------------------------------
(* LruZone. *)

-----------------------------------------------------------------------------
(* The queues. *)

Distinct(q) == \A i, j \in 1..Len(q) : q[i] = q[j] => i = j

LEMMA WithoutIs ==
    ASSUME NEW S, NEW q \in Seq(S), Distinct(q), NEW k
    PROVE  /\ Without(q, k) \in Seq(S)
           /\ Distinct(Without(q, k))
           /\ ToSet(Without(q, k)) = ToSet(q) \ {k}
           /\ Len(Without(q, k)) = IF k \in ToSet(q) THEN Len(q) - 1 ELSE Len(q)
<1>1. CASE k \notin ToSet(q)
  BY <1>1 DEF Without
<1>2. CASE k \in ToSet(q)
  <2> DEFINE i == CHOOSE i \in 1..Len(q) : q[i] = k
             r == RemoveAt(q, i)
  <2>1. i \in 1..Len(q) /\ q[i] = k
    BY <1>2 DEF ToSet
  <2>2. Without(q, k) = r
    BY <1>2 DEF Without
  <2> HIDE DEF i
  <2>3. /\ r \in Seq(S) /\ Len(r) = Len(q) - 1
        /\ \A j \in 1..Len(r) : r[j] = IF j < i THEN q[j] ELSE q[j + 1]
    <3>1. /\ SubSeq(q, 1, i - 1) \in Seq(S) /\ Len(SubSeq(q, 1, i - 1)) = i - 1
          /\ \A j \in 1..(i - 1) : SubSeq(q, 1, i - 1)[j] = q[j]
      BY <2>1
    <3>2. /\ SubSeq(q, i + 1, Len(q)) \in Seq(S)
          /\ Len(SubSeq(q, i + 1, Len(q))) = Len(q) - i
          /\ \A j \in 1..(Len(q) - i) : SubSeq(q, i + 1, Len(q))[j] = q[i + j]
      BY <2>1
    <3> DEFINE a == SubSeq(q, 1, i - 1)
               b == SubSeq(q, i + 1, Len(q))
    <3>3. r = a \o b
      BY DEF RemoveAt
    <3> HIDE DEF a, b, r
    <3>4. /\ a \in Seq(S) /\ Len(a) = i - 1 /\ \A j \in 1..(i - 1) : a[j] = q[j]
          /\ b \in Seq(S) /\ Len(b) = Len(q) - i
          /\ \A j \in 1..(Len(q) - i) : b[j] = q[i + j]
      BY <3>1, <3>2 DEF a, b
    <3>5. r \in Seq(S) /\ Len(r) = Len(q) - 1
      BY <2>1, <3>3, <3>4
    <3>6. ASSUME NEW j \in 1..Len(r)
          PROVE  r[j] = IF j < i THEN q[j] ELSE q[j + 1]
      <4>1. CASE j < i
        BY <2>1, <3>3, <3>4, <3>5, <4>1
      <4>2. CASE ~(j < i)
        <5>1. r[j] = b[j - (i - 1)] /\ j - (i - 1) \in 1..(Len(q) - i)
          BY <2>1, <3>3, <3>4, <3>5, <4>2
        <5>2. i + (j - (i - 1)) = j + 1
          BY <2>1, <3>5
        <5> QED BY <3>4, <4>2, <5>1, <5>2
      <4> QED BY <4>1, <4>2
    <3> QED BY <3>5, <3>6
  <2> HIDE DEF r
  <2>4. Distinct(r)
    BY SMTT(30), <2>1, <2>3 DEF Distinct
  <2>5. ToSet(r) = ToSet(q) \ {k}
    <3>1. ASSUME NEW x \in ToSet(r) PROVE x \in ToSet(q) \ {k}
      <4>1. PICK j \in 1..Len(r) : x = r[j]
        BY <2>3 DEF ToSet
      <4> QED BY <2>1, <2>3, <4>1 DEF ToSet, Distinct
    <3>2. ASSUME NEW x \in ToSet(q) \ {k} PROVE x \in ToSet(r)
      <4>1. PICK j \in 1..Len(q) : x = q[j]
        BY DEF ToSet
      <4>2. CASE j < i
        BY <2>1, <2>3, <4>1, <4>2 DEF ToSet
      <4>3. CASE j > i
        <5>1. j - 1 \in 1..Len(r) /\ r[j - 1] = q[(j - 1) + 1]
          BY <2>1, <2>3, <4>1, <4>3
        <5>2. x = r[j - 1]
          BY <4>1, <5>1
        <5> QED BY <2>3, <5>1, <5>2 DEF ToSet
      <4>4. CASE j = i
        BY <2>1, <4>1, <4>4
      <4> QED BY <2>1, <4>1, <4>2, <4>3, <4>4
    <3> QED BY <3>1, <3>2
  <2> QED BY <1>2, <2>2, <2>3, <2>4, <2>5
<1> QED BY <1>1, <1>2

LEMMA ConsIs ==
    ASSUME NEW S, NEW q \in Seq(S), Distinct(q), NEW k \in S, k \notin ToSet(q)
    PROVE  /\ Cons(k, q) \in Seq(S)
           /\ Distinct(Cons(k, q))
           /\ ToSet(Cons(k, q)) = ToSet(q) \cup {k}
           /\ Len(Cons(k, q)) = Len(q) + 1
           /\ Head(Cons(k, q)) = k
<1> DEFINE r == Cons(k, q)
<1>1. /\ r \in Seq(S) /\ Len(r) = Len(q) + 1
      /\ \A j \in 1..Len(r) : r[j] = IF j = 1 THEN k ELSE q[j - 1]
  BY DEF Cons
<1> HIDE DEF r
<1>2. Distinct(r)
  <2>1. \A j \in 1..Len(q) : q[j] # k /\ q[j] \in S
    BY DEF ToSet
  <2>2. \A i, j \in 1..Len(q) : q[i] = q[j] => i = j
    BY DEF Distinct
  <2>3. ASSUME NEW i \in 1..Len(r), NEW j \in 1..Len(r), r[i] = r[j] PROVE i = j
    <3>1. CASE i = 1 \/ j = 1
      <4>1. \A n \in 1..Len(r) : n # 1 => n - 1 \in 1..Len(q) /\ r[n] = q[n - 1]
        BY <1>1
      <4>2. r[1] = k
        BY <1>1
      <4> QED BY <2>1, <2>3, <3>1, <4>1, <4>2
    <3>2. CASE i # 1 /\ j # 1
      <4>1. /\ i - 1 \in 1..Len(q) /\ j - 1 \in 1..Len(q)
            /\ r[i] = q[i - 1] /\ r[j] = q[j - 1]
        BY <1>1, <3>2
      <4>2. i - 1 = j - 1
        BY <2>2, <2>3, <4>1
      <4> QED BY <4>2
    <3> QED BY <3>1, <3>2
  <2> QED BY <2>3 DEF Distinct
<1>3. ToSet(r) = ToSet(q) \cup {k}
  <2>1. ASSUME NEW x \in ToSet(r) PROVE x \in ToSet(q) \cup {k}
    BY <1>1 DEF ToSet
  <2>2. ASSUME NEW x \in ToSet(q) PROVE x \in ToSet(r)
    <3>1. PICK j \in 1..Len(q) : x = q[j]
      BY DEF ToSet
    <3>2. j + 1 \in 1..Len(r) /\ r[j + 1] = q[(j + 1) - 1]
      BY <1>1
    <3> QED BY <1>1, <3>1, <3>2 DEF ToSet
  <2>3. k \in ToSet(r)
    BY <1>1 DEF ToSet
  <2> QED BY <2>1, <2>2, <2>3
<1>4. Head(r) = k
  BY <1>1
<1> QED BY <1>1, <1>2, <1>3, <1>4 DEF r

LEMMA ConcatIs ==
    ASSUME NEW S, NEW a \in Seq(S), NEW b \in Seq(S)
    PROVE  /\ a \o b \in Seq(S) /\ Len(a \o b) = Len(a) + Len(b)
           /\ a \o b = <<>> <=> a = <<>> /\ b = <<>>
           /\ a \o b # <<>> => Head(a \o b) \in ToSet(a) \cup ToSet(b)
<1>1. a \o b \in Seq(S) /\ Len(a \o b) = Len(a) + Len(b)
  OBVIOUS
<1>2. a \o b = <<>> <=> a = <<>> /\ b = <<>>
  OBVIOUS
<1>3. CASE a # <<>>
  <2>1. Head(a \o b) = a[1] /\ 1 \in DOMAIN a
    BY <1>3
  <2> QED BY <1>1, <1>2, <2>1 DEF ToSet
<1>4. CASE a = <<>> /\ b # <<>>
  <2>1. a \o b = b
    BY <1>4
  <2>2. Head(b) = b[1] /\ 1 \in DOMAIN b
    BY <1>4
  <2> QED BY <1>1, <1>2, <2>1, <2>2 DEF ToSet
<1> QED BY <1>1, <1>2, <1>3, <1>4

(* As many places as elements. *)
LEMMA LenIsCardinality ==
    ASSUME NEW S, NEW q \in Seq(S), Distinct(q)
    PROVE  IsFiniteSet(ToSet(q)) /\ Cardinality(ToSet(q)) = Len(q)
<1>1. IsFiniteSet(1..Len(q)) /\ Cardinality(1..Len(q)) = Len(q)
  <2>1. Len(q) \in Nat /\ 1 \in Int /\ Len(q) \in Int
    OBVIOUS
  <2>2. IsFiniteSet(1..Len(q))
    BY <2>1, FS_Interval
  <2>3. Cardinality(1..Len(q)) = IF 1 > Len(q) THEN 0 ELSE Len(q) - 1 + 1
    BY <2>1, FS_Interval
  <2> QED BY <2>1, <2>2, <2>3
<1>2. q \in Bijection(1..Len(q), ToSet(q))
  <2>1. DOMAIN q = 1..Len(q) /\ q \in [1..Len(q) -> ToSet(q)]
    BY DEF ToSet
  <2>2. IsInjective(q)
    BY <2>1 DEF IsInjective, Distinct
  <2>3. \A t \in ToSet(q) : \E j \in 1..Len(q) : q[j] = t
    BY <2>1 DEF ToSet
  <2> QED BY <2>1, <2>2, <2>3 DEF Bijection, Injection, Surjection
<1>3. ExistsBijection(1..Len(q), ToSet(q))
  BY <1>2 DEF ExistsBijection
<1> QED BY <1>1, <1>3, FS_Bijection

-----------------------------------------------------------------------------
(* The counts, and what the change of one node makes of them. *)

One(b) == IF b THEN 1 ELSE 0
Cost(n) == IF n.kind = "NONE" THEN 0 ELSE 1 + n.size
Marked(s) == {k \in AllKeys : s.node[k].kind = "MARKER"}
Own(k, n) == IF n.kind = "NONE" THEN {} ELSE {k} \X (0..n.size)

LEMMA OwnUnits ==
    ASSUME NEW k, NEW n \in NodeType
    PROVE  /\ IsFiniteSet(Own(k, n)) /\ Cardinality(Own(k, n)) = Cost(n)
           /\ Cost(n) \in Nat
<1>1. n.size \in Nat
  BY DEF NodeType
<1>2. CASE n.kind = "NONE"
  BY <1>2, FS_EmptySet DEF Own, Cost
<1>3. CASE n.kind # "NONE"
  <2>1. IsFiniteSet({k}) /\ Cardinality({k}) = 1
    BY FS_Singleton
  <2>2. n.size \in Int /\ 0 \in Int /\ ~(0 > n.size) /\ n.size - 0 + 1 = 1 + n.size
    BY <1>1
  <2>3. IsFiniteSet(0..n.size) /\ Cardinality(0..n.size) = 1 + n.size
    BY <2>2, FS_Interval
  <2>4. /\ IsFiniteSet({k} \X (0..n.size))
        /\ Cardinality({k} \X (0..n.size)) = 1 * (1 + n.size)
    BY ZenonT(60), <2>1, <2>3, FS_Product
  <2> QED BY <1>1, <1>3, <2>4 DEF Own, Cost
<1> QED BY <1>2, <1>3

LEMMA DisjointCounts ==
    ASSUME NEW S, NEW T, IsFiniteSet(S), IsFiniteSet(T), S \cap T = {}
    PROVE  /\ IsFiniteSet(S \cup T)
           /\ Cardinality(S \cup T) = Cardinality(S) + Cardinality(T)
           /\ Cardinality(S) \in Nat /\ Cardinality(T) \in Nat
<1>1. /\ IsFiniteSet(S \cup T)
      /\ Cardinality(S \cup T)
            = Cardinality(S) + Cardinality(T) - Cardinality(S \cap T)
  BY FS_Union
<1>2. Cardinality(S \cap T) = 0
  BY FS_EmptySet
<1>3. Cardinality(S) \in Nat /\ Cardinality(T) \in Nat
  BY FS_CardinalityType
<1> QED BY <1>1, <1>2, <1>3

LEMMA Finite ==
    ASSUME NEW s \in Zones
    PROVE  /\ IsFiniteSet(Resident(s)) /\ Cardinality(Resident(s)) \in Nat
           /\ IsFiniteSet(Marked(s)) /\ Cardinality(Marked(s)) \in Nat
           /\ IsFiniteSet(Units(s)) /\ Cardinality(Units(s)) \in Nat
<1>1. IsFiniteSet(AllKeys)
  BY LruZoneAssumption
<1>2. IsFiniteSet(Resident(s))
  BY <1>1, FS_Subset DEF Resident
<1>3. IsFiniteSet(Marked(s))
  BY <1>1, FS_Subset DEF Marked
<1>4. IsFiniteSet(Units(s))
  <2> DEFINE Row(k) == {k} \X (0..s.node[k].size)
             R == {Row(k) : k \in Resident(s)}
  <2>1. IsFiniteSet(R)
    <3> DEFINE f == [k \in Resident(s) |-> Row(k)]
    <3>1. f \in Surjection(Resident(s), R)
      BY DEF Surjection
    <3> HIDE DEF f, R
    <3> QED BY <1>2, <3>1, FS_Surjection
  <2>2. ASSUME NEW T \in R PROVE IsFiniteSet(T)
    <3>1. PICK k \in Resident(s) : T = Row(k)
      OBVIOUS
    <3>2. s.node[k] \in NodeType /\ s.node[k].kind # "NONE"
      BY DEF Zones, Resident
    <3> QED BY <3>1, <3>2, OwnUnits DEF Own
  <2>3. Units(s) = UNION R
    BY DEF Units
  <2> HIDE DEF R
  <2> QED BY <2>1, <2>2, <2>3, FS_UNION
<1> QED BY <1>2, <1>3, <1>4, FS_CardinalityType

(* Only kinds and sizes are counted. *)
LEMMA SameCounts ==
    ASSUME NEW s, NEW t,
           \A k \in AllKeys : /\ t.node[k].kind = s.node[k].kind
                              /\ t.node[k].size = s.node[k].size
    PROVE  /\ Resident(t) = Resident(s) /\ Marked(t) = Marked(s)
           /\ Units(t) = Units(s)
<1>1. Resident(t) = Resident(s) /\ Marked(t) = Marked(s)
  BY DEF Resident, Marked
<1>2. \A k \in Resident(s) : t.node[k].size = s.node[k].size
  BY DEF Resident
<1> QED BY <1>1, <1>2 DEF Units

LEMMA NodeCounts ==
    ASSUME NEW s \in Zones, NEW t \in Zones,
           NEW k \in AllKeys, NEW n \in NodeType,
           t.node = [s.node EXCEPT ![k] = n]
    PROVE  /\ Cardinality(Resident(t))
                = Cardinality(Resident(s)) + One(n.kind # "NONE")
                    - One(s.node[k].kind # "NONE")
           /\ Cardinality(Marked(t))
                = Cardinality(Marked(s)) + One(n.kind = "MARKER")
                    - One(s.node[k].kind = "MARKER")
           /\ Cardinality(Units(t))
                = Cardinality(Units(s)) + Cost(n) - Cost(s.node[k])
<1>1. /\ IsFiniteSet(Resident(s)) /\ Cardinality(Resident(s)) \in Nat
      /\ IsFiniteSet(Marked(s)) /\ Cardinality(Marked(s)) \in Nat
      /\ IsFiniteSet(Units(s)) /\ Cardinality(Units(s)) \in Nat
  BY Finite
<1>2. s.node \in [AllKeys -> NodeType]
  BY DEF Zones
<1>3. t.node[k] = n /\ \A j \in AllKeys : j # k => t.node[j] = s.node[j]
  BY <1>2
<1>4. /\ IsFiniteSet(Resident(t)) /\ Cardinality(Resident(t)) \in Nat
      /\ IsFiniteSet(Marked(t)) /\ Cardinality(Marked(t)) \in Nat
      /\ IsFiniteSet(Units(t)) /\ Cardinality(Units(t)) \in Nat
  BY Finite
<1>5. Resident(t) \ {k} = Resident(s) \ {k} /\ Marked(t) \ {k} = Marked(s) \ {k}
  BY <1>3 DEF Resident, Marked
<1>6. /\ Cardinality(Resident(s) \ {k})
            = IF k \in Resident(s) THEN Cardinality(Resident(s)) - 1
                                   ELSE Cardinality(Resident(s))
      /\ Cardinality(Resident(t) \ {k})
            = IF k \in Resident(t) THEN Cardinality(Resident(t)) - 1
                                   ELSE Cardinality(Resident(t))
  BY <1>1, <1>4, FS_RemoveElement
<1>7. /\ Cardinality(Marked(s) \ {k})
            = IF k \in Marked(s) THEN Cardinality(Marked(s)) - 1
                                 ELSE Cardinality(Marked(s))
      /\ Cardinality(Marked(t) \ {k})
            = IF k \in Marked(t) THEN Cardinality(Marked(t)) - 1
                                 ELSE Cardinality(Marked(t))
  BY <1>1, <1>4, FS_RemoveElement
<1>8. /\ k \in Resident(s) <=> s.node[k].kind # "NONE"
      /\ k \in Resident(t) <=> n.kind # "NONE"
      /\ k \in Marked(s) <=> s.node[k].kind = "MARKER"
      /\ k \in Marked(t) <=> n.kind = "MARKER"
  BY <1>3 DEF Resident, Marked
<1>9. Cardinality(Resident(t))
        = Cardinality(Resident(s)) + One(n.kind # "NONE")
            - One(s.node[k].kind # "NONE")
  <2> DEFINE a == One(s.node[k].kind # "NONE")
             b == One(n.kind # "NONE")
  <2>1. Cardinality(Resident(s) \ {k}) = Cardinality(Resident(s)) - a
    BY <1>1, <1>6, <1>8 DEF One
  <2>2. Cardinality(Resident(t) \ {k}) = Cardinality(Resident(t)) - b
    BY <1>4, <1>6, <1>8 DEF One
  <2>3. a \in Int /\ b \in Int
    BY DEF One
  <2> HIDE DEF a, b
  <2>4. Cardinality(Resident(t) \ {k}) = Cardinality(Resident(s) \ {k})
    BY <1>5
  <2>5. /\ Cardinality(Resident(s)) \in Nat /\ Cardinality(Resident(t)) \in Nat
        /\ Cardinality(Resident(s)) - a = Cardinality(Resident(t)) - b
    BY <1>1, <1>4, <2>1, <2>2, <2>4
  <2>6. Cardinality(Resident(t)) = Cardinality(Resident(s)) + b - a
    BY <2>3, <2>5
  <2> QED BY <2>6 DEF a, b
<1>10. Cardinality(Marked(t))
        = Cardinality(Marked(s)) + One(n.kind = "MARKER")
            - One(s.node[k].kind = "MARKER")
  <2> DEFINE a == One(s.node[k].kind = "MARKER")
             b == One(n.kind = "MARKER")
  <2>1. Cardinality(Marked(s) \ {k}) = Cardinality(Marked(s)) - a
    BY <1>1, <1>7, <1>8 DEF One
  <2>2. Cardinality(Marked(t) \ {k}) = Cardinality(Marked(t)) - b
    BY <1>4, <1>7, <1>8 DEF One
  <2>3. a \in Int /\ b \in Int
    BY DEF One
  <2> HIDE DEF a, b
  <2>4. Cardinality(Marked(t) \ {k}) = Cardinality(Marked(s) \ {k})
    BY <1>5
  <2>5. /\ Cardinality(Marked(s)) \in Nat /\ Cardinality(Marked(t)) \in Nat
        /\ Cardinality(Marked(s)) - a = Cardinality(Marked(t)) - b
    BY <1>1, <1>4, <2>1, <2>2, <2>4
  <2>6. Cardinality(Marked(t)) = Cardinality(Marked(s)) + b - a
    BY <2>3, <2>5
  <2> QED BY <2>6 DEF a, b
<1>11. Cardinality(Units(t)) = Cardinality(Units(s)) + Cost(n) - Cost(s.node[k])
  <2> DEFINE Rest == UNION {{j} \X (0..s.node[j].size) : j \in Resident(s) \ {k}}
  <2>1. /\ Units(s) = Rest \cup Own(k, s.node[k])
        /\ Rest \cap Own(k, s.node[k]) = {}
    BY <1>8 DEF Units, Own
  <2>2. Rest = UNION {{j} \X (0..t.node[j].size) : j \in Resident(t) \ {k}}
    <3>1. \A j \in Resident(s) \ {k} : t.node[j] = s.node[j]
      BY <1>3 DEF Resident
    <3> QED BY <1>5, <3>1
  <2>3. Units(t) = Rest \cup Own(k, n) /\ Rest \cap Own(k, n) = {}
    BY <1>3, <1>8, <2>2 DEF Units, Own
  <2>4. IsFiniteSet(Rest)
    <3>1. Rest \subseteq Units(s)
      BY <2>1
    <3> HIDE DEF Rest
    <3> QED BY <1>1, <3>1, FS_Subset
  <2> HIDE DEF Rest
  <2>5. s.node[k] \in NodeType
    BY <1>2
  <2>6. /\ IsFiniteSet(Own(k, n)) /\ Cardinality(Own(k, n)) = Cost(n)
        /\ Cost(n) \in Nat
    BY OwnUnits
  <2>7. /\ IsFiniteSet(Own(k, s.node[k]))
        /\ Cardinality(Own(k, s.node[k])) = Cost(s.node[k])
        /\ Cost(s.node[k]) \in Nat
    BY <2>5, OwnUnits
  <2>8. /\ Cardinality(Units(s)) = Cardinality(Rest) + Cost(s.node[k])
        /\ Cardinality(Rest) \in Nat
    BY <2>1, <2>4, <2>7, DisjointCounts
  <2>9. Cardinality(Units(t)) = Cardinality(Rest) + Cost(n)
    BY <2>3, <2>4, <2>6, DisjointCounts
  <2> QED BY <2>6, <2>7, <2>8, <2>9
<1> QED BY <1>9, <1>10, <1>11

-----------------------------------------------------------------------------
(* The inductive invariant of the zone as a value.  The nodes in out are    *)
(* resident but on no queue for the moment, and extra units are taken for a *)
(* node that is not there yet.                                              *)

Segment(s, g) == {k \in Resident(s) : s.node[k].seg = g}

Linked(s, out, extra) ==
    /\ s \in Zones /\ out \subseteq Resident(s) /\ extra \in Nat
    /\ Distinct(s.prob) /\ ToSet(s.prob) = Segment(s, "PROBATION") \ out
    /\ Distinct(s.prot) /\ ToSet(s.prot) = Segment(s, "PROTECTED") \ out
    /\ s.n_entries = Cardinality(Resident(s)) /\ s.n_protected = Len(s.prot)
    /\ s.markers = Cardinality(Marked(s))
    /\ s.used = Cardinality(Units(s)) + extra /\ s.used <= Memory

LEMMA ZoneFields ==
    ASSUME NEW s \in Zones
    PROVE  /\ s.prob \in Seq(AllKeys) /\ s.prot \in Seq(AllKeys)
           /\ s.node \in [AllKeys -> NodeType]
           /\ s.n_entries \in Nat /\ s.n_protected \in Nat
           /\ s.markers \in Nat /\ s.used \in Nat
BY DEF Zones

LEMMA UnlinkLinks ==
    ASSUME NEW s, NEW out, NEW extra, Linked(s, out, extra),
           NEW k \in Resident(s) \ out
    PROVE  /\ Linked(Unlink(s, k), out \cup {k}, extra)
           /\ Unlink(s, k).node = s.node /\ Unlink(s, k).used = s.used
           /\ Unlink(s, k).n_entries = s.n_entries
           /\ Unlink(s, k).markers = s.markers
           /\ Unlink(s, k).prob = Without(s.prob, k)
           /\ s.prob = <<>> => Unlink(s, k).prob = <<>>
<1> DEFINE t == Unlink(s, k)
<1>1. /\ s \in Zones /\ out \subseteq Resident(s) /\ extra \in Nat
      /\ Distinct(s.prob) /\ ToSet(s.prob) = Segment(s, "PROBATION") \ out
      /\ Distinct(s.prot) /\ ToSet(s.prot) = Segment(s, "PROTECTED") \ out
      /\ s.n_entries = Cardinality(Resident(s)) /\ s.n_protected = Len(s.prot)
      /\ s.markers = Cardinality(Marked(s))
      /\ s.used = Cardinality(Units(s)) + extra /\ s.used <= Memory
  BY DEF Linked
<1>2. /\ s.prob \in Seq(AllKeys) /\ s.prot \in Seq(AllKeys)
      /\ s.node \in [AllKeys -> NodeType] /\ s.n_protected \in Nat
  BY <1>1, ZoneFields
<1>3. /\ t.prob = Without(s.prob, k) /\ t.prot = Without(s.prot, k)
      /\ t.node = s.node /\ t.n_entries = s.n_entries
      /\ t.markers = s.markers /\ t.used = s.used
      /\ t.n_protected = IF s.node[k].seg = "PROTECTED" THEN s.n_protected - 1
                                                        ELSE s.n_protected
  BY <1>1 DEF Unlink, Zones
<1>4. /\ Without(s.prob, k) \in Seq(AllKeys) /\ Distinct(Without(s.prob, k))
      /\ ToSet(Without(s.prob, k)) = ToSet(s.prob) \ {k}
      /\ Len(Without(s.prob, k)) = IF k \in ToSet(s.prob) THEN Len(s.prob) - 1
                                                         ELSE Len(s.prob)
  BY <1>1, <1>2, WithoutIs
<1>5. /\ Without(s.prot, k) \in Seq(AllKeys) /\ Distinct(Without(s.prot, k))
      /\ ToSet(Without(s.prot, k)) = ToSet(s.prot) \ {k}
      /\ Len(Without(s.prot, k)) = IF k \in ToSet(s.prot) THEN Len(s.prot) - 1
                                                         ELSE Len(s.prot)
  BY <1>1, <1>2, WithoutIs
<1>6. k \in ToSet(s.prot) <=> s.node[k].seg = "PROTECTED"
  BY <1>1 DEF Segment
<1>7. Len(Without(s.prot, k)) \in Nat
  BY <1>5
<1>8. t.n_protected = Len(t.prot) /\ t.n_protected \in Nat
  BY <1>1, <1>3, <1>5, <1>6, <1>7
<1>9. t \in Zones
  BY <1>1, <1>2, <1>3, <1>4, <1>5, <1>8 DEF Unlink, Zones
<1>10. /\ Resident(t) = Resident(s) /\ Marked(t) = Marked(s)
       /\ Units(t) = Units(s)
  BY <1>3, SameCounts
<1>11. /\ Segment(t, "PROBATION") = Segment(s, "PROBATION")
       /\ Segment(t, "PROTECTED") = Segment(s, "PROTECTED")
  BY <1>3, <1>10 DEF Segment
<1>12. s.prob = <<>> => t.prob = <<>>
  BY <1>3 DEF Without, ToSet
<1> HIDE DEF t
<1>13. Linked(t, out \cup {k}, extra)
  BY <1>1, <1>3, <1>4, <1>5, <1>8, <1>9, <1>10, <1>11 DEF Linked
<1> QED BY <1>3, <1>12, <1>13 DEF t

LEMMA UnlinkNode ==
    ASSUME NEW s \in Zones, NEW k
    PROVE  Unlink(s, k).node = s.node
BY DEF Unlink, Zones

LEMMA LinkHeadLinks ==
    ASSUME NEW s, NEW out, NEW extra, Linked(s, out, extra), NEW k \in out
    PROVE  /\ Linked(LinkHead(s, k), out \ {k}, extra)
           /\ LinkHead(s, k).node = s.node /\ LinkHead(s, k).used = s.used
           /\ LinkHead(s, k).n_entries = s.n_entries
           /\ LinkHead(s, k).prob = IF s.node[k].seg = "PROTECTED"
                                    THEN s.prob ELSE Cons(k, s.prob)
<1> DEFINE t == LinkHead(s, k)
<1>1. /\ s \in Zones /\ out \subseteq Resident(s) /\ extra \in Nat
      /\ Distinct(s.prob) /\ ToSet(s.prob) = Segment(s, "PROBATION") \ out
      /\ Distinct(s.prot) /\ ToSet(s.prot) = Segment(s, "PROTECTED") \ out
      /\ s.n_entries = Cardinality(Resident(s)) /\ s.n_protected = Len(s.prot)
      /\ s.markers = Cardinality(Marked(s))
      /\ s.used = Cardinality(Units(s)) + extra /\ s.used <= Memory
  BY DEF Linked
<1>2. /\ s.prob \in Seq(AllKeys) /\ s.prot \in Seq(AllKeys)
      /\ s.node \in [AllKeys -> NodeType] /\ s.n_protected \in Nat
  BY <1>1, ZoneFields
<1>3. k \in AllKeys /\ k \in Resident(s) /\ s.node[k] \in NodeType
  BY <1>1, <1>2 DEF Resident
<1>4. s.node[k].seg \in {"PROBATION", "PROTECTED"}
  BY <1>3 DEF NodeType
<1>5. CASE s.node[k].seg = "PROTECTED"
  <2>1. /\ t.prob = s.prob /\ t.prot = Cons(k, s.prot) /\ t.node = s.node
        /\ t.n_entries = s.n_entries /\ t.n_protected = s.n_protected + 1
        /\ t.markers = s.markers /\ t.used = s.used
    BY <1>1, <1>5 DEF LinkHead, Zones
  <2>2. k \notin ToSet(s.prot)
    BY <1>1
  <2>3. /\ Cons(k, s.prot) \in Seq(AllKeys) /\ Distinct(Cons(k, s.prot))
        /\ ToSet(Cons(k, s.prot)) = ToSet(s.prot) \cup {k}
        /\ Len(Cons(k, s.prot)) = Len(s.prot) + 1
    BY <1>1, <1>2, <1>3, <2>2, ConsIs
  <2>4. t \in Zones
    <3>1. s.n_protected + 1 \in Nat
      BY <1>2
    <3>2. t = [s EXCEPT !.prot = Cons(k, s.prot), !.n_protected = s.n_protected + 1]
      BY <1>5 DEF LinkHead
    <3> HIDE DEF t
    <3> QED BY <1>1, <2>3, <3>1, <3>2 DEF Zones
  <2>5. /\ Resident(t) = Resident(s) /\ Marked(t) = Marked(s)
        /\ Units(t) = Units(s)
    BY <2>1, SameCounts
  <2>6. /\ Segment(t, "PROBATION") = Segment(s, "PROBATION")
        /\ Segment(t, "PROTECTED") = Segment(s, "PROTECTED")
        /\ k \in Segment(s, "PROTECTED") /\ k \notin Segment(s, "PROBATION")
    BY <1>3, <1>5, <2>1, <2>5 DEF Segment
  <2> HIDE DEF t
  <2>7. Linked(t, out \ {k}, extra)
    BY <1>1, <2>1, <2>3, <2>4, <2>5, <2>6 DEF Linked
  <2> QED BY <1>5, <2>1, <2>7 DEF t
<1>6. CASE s.node[k].seg = "PROBATION"
  <2>1. /\ t.prob = Cons(k, s.prob) /\ t.prot = s.prot /\ t.node = s.node
        /\ t.n_entries = s.n_entries /\ t.n_protected = s.n_protected
        /\ t.markers = s.markers /\ t.used = s.used
    BY <1>1, <1>6 DEF LinkHead, Zones
  <2>2. k \notin ToSet(s.prob)
    BY <1>1
  <2>3. /\ Cons(k, s.prob) \in Seq(AllKeys) /\ Distinct(Cons(k, s.prob))
        /\ ToSet(Cons(k, s.prob)) = ToSet(s.prob) \cup {k}
    BY <1>1, <1>2, <1>3, <2>2, ConsIs
  <2>4. t \in Zones
    BY <1>1, <1>2, <1>6, <2>3 DEF LinkHead, Zones
  <2>5. /\ Resident(t) = Resident(s) /\ Marked(t) = Marked(s)
        /\ Units(t) = Units(s)
    BY <2>1, SameCounts
  <2>6. /\ Segment(t, "PROBATION") = Segment(s, "PROBATION")
        /\ Segment(t, "PROTECTED") = Segment(s, "PROTECTED")
        /\ k \in Segment(s, "PROBATION") /\ k \notin Segment(s, "PROTECTED")
    BY <1>3, <1>6, <2>1, <2>5 DEF Segment
  <2> HIDE DEF t
  <2>7. Linked(t, out \ {k}, extra)
    BY <1>1, <2>1, <2>3, <2>4, <2>5, <2>6 DEF Linked
  <2> QED BY <1>6, <2>1, <2>7 DEF t
<1> QED BY <1>4, <1>5, <1>6

(* What is on no queue may change its segment and its flags.                *)
LEMMA ChangeLinks ==
    ASSUME NEW s, NEW out, NEW extra, Linked(s, out, extra), NEW k \in out,
           NEW n \in NodeType,
           n.kind = s.node[k].kind /\ n.size = s.node[k].size
    PROVE  /\ Linked([s EXCEPT !.node[k] = n], out, extra)
           /\ [s EXCEPT !.node[k] = n].node = [s.node EXCEPT ![k] = n]
           /\ [s EXCEPT !.node[k] = n].prob = s.prob
<1> DEFINE t == [s EXCEPT !.node[k] = n]
<1>1. /\ s \in Zones /\ out \subseteq Resident(s) /\ extra \in Nat
      /\ Distinct(s.prob) /\ ToSet(s.prob) = Segment(s, "PROBATION") \ out
      /\ Distinct(s.prot) /\ ToSet(s.prot) = Segment(s, "PROTECTED") \ out
      /\ s.n_entries = Cardinality(Resident(s)) /\ s.n_protected = Len(s.prot)
      /\ s.markers = Cardinality(Marked(s))
      /\ s.used = Cardinality(Units(s)) + extra /\ s.used <= Memory
  BY DEF Linked
<1>2. s.node \in [AllKeys -> NodeType]
  BY <1>1, ZoneFields
<1>3. /\ t.prob = s.prob /\ t.prot = s.prot
      /\ t.node = [s.node EXCEPT ![k] = n]
      /\ t.n_entries = s.n_entries /\ t.n_protected = s.n_protected
      /\ t.markers = s.markers /\ t.used = s.used
  BY <1>1 DEF Zones
<1>4. t \in Zones
  BY <1>1, <1>2 DEF Zones
<1>5. t.node[k] = n /\ \A j \in AllKeys : j # k => t.node[j] = s.node[j]
  BY <1>1, <1>2, <1>3 DEF Resident
<1>6. /\ Resident(t) = Resident(s) /\ Marked(t) = Marked(s)
      /\ Units(t) = Units(s)
  <2>1. \A j \in AllKeys : /\ t.node[j].kind = s.node[j].kind
                           /\ t.node[j].size = s.node[j].size
    BY <1>5
  <2> HIDE DEF t
  <2> QED BY <2>1, SameCounts
<1>7. /\ Segment(t, "PROBATION") \ out = Segment(s, "PROBATION") \ out
      /\ Segment(t, "PROTECTED") \ out = Segment(s, "PROTECTED") \ out
  BY <1>5, <1>6 DEF Segment, Resident
<1> HIDE DEF t
<1>8. Linked(t, out, extra)
  BY <1>1, <1>3, <1>4, <1>6, <1>7 DEF Linked
<1> QED BY <1>3, <1>8 DEF t

(* Flags may change anywhere. *)
LEMMA FlagLinks ==
    ASSUME NEW s, NEW out, NEW extra, Linked(s, out, extra),
           NEW f \in [AllKeys -> NodeType],
           \A k \in AllKeys : /\ f[k].kind = s.node[k].kind
                              /\ f[k].size = s.node[k].size
                              /\ f[k].seg = s.node[k].seg
    PROVE  LET r == [s EXCEPT !.node = f]
           IN  /\ Linked(r, out, extra) /\ r.node = f /\ r.prob = s.prob
               /\ Resident(r) = Resident(s)
<1> DEFINE r == [s EXCEPT !.node = f]
<1>1. /\ s \in Zones /\ out \subseteq Resident(s) /\ extra \in Nat
      /\ Distinct(s.prob) /\ ToSet(s.prob) = Segment(s, "PROBATION") \ out
      /\ Distinct(s.prot) /\ ToSet(s.prot) = Segment(s, "PROTECTED") \ out
      /\ s.n_entries = Cardinality(Resident(s)) /\ s.n_protected = Len(s.prot)
      /\ s.markers = Cardinality(Marked(s))
      /\ s.used = Cardinality(Units(s)) + extra /\ s.used <= Memory
  BY DEF Linked
<1>2. /\ r.prob = s.prob /\ r.prot = s.prot /\ r.node = f
      /\ r.n_entries = s.n_entries /\ r.n_protected = s.n_protected
      /\ r.markers = s.markers /\ r.used = s.used /\ r \in Zones
  BY <1>1 DEF Zones
<1> HIDE DEF r
<1>3. /\ Resident(r) = Resident(s) /\ Marked(r) = Marked(s)
      /\ Units(r) = Units(s)
  BY <1>2, SameCounts
<1>4. /\ Segment(r, "PROBATION") = Segment(s, "PROBATION")
      /\ Segment(r, "PROTECTED") = Segment(s, "PROTECTED")
  BY <1>2, <1>3 DEF Segment, Resident
<1>5. Linked(r, out, extra)
  BY <1>1, <1>2, <1>3, <1>4 DEF Linked
<1> QED BY <1>2, <1>3, <1>5 DEF r

LEMMA GoneIs == Gone \in NodeType /\ Gone.kind = "NONE" /\ Cost(Gone) = 0
BY DEF Gone, NodeType, Cost

LEMMA DropLinks ==
    ASSUME NEW s, NEW out, NEW extra, Linked(s, out, extra),
           NEW k \in Resident(s) \ out
    PROVE  /\ Linked(DropNode(s, k), out, extra)
           /\ DropNode(s, k).node = [s.node EXCEPT ![k] = Gone]
           /\ DropNode(s, k).n_entries = s.n_entries - 1
           /\ Resident(DropNode(s, k)) = Resident(s) \ {k}
           /\ s.prob = <<>> => DropNode(s, k).prob = <<>>
<1> DEFINE u == Unlink(s, k)
           t == DropNode(s, k)
<1>1. /\ Linked(u, out \cup {k}, extra) /\ u.node = s.node /\ u.used = s.used
      /\ u.n_entries = s.n_entries /\ u.markers = s.markers
      /\ s.prob = <<>> => u.prob = <<>>
  BY UnlinkLinks
<1>2. /\ u \in Zones /\ out \cup {k} \subseteq Resident(u) /\ extra \in Nat
      /\ Distinct(u.prob)
      /\ ToSet(u.prob) = Segment(u, "PROBATION") \ (out \cup {k})
      /\ Distinct(u.prot)
      /\ ToSet(u.prot) = Segment(u, "PROTECTED") \ (out \cup {k})
      /\ u.n_entries = Cardinality(Resident(u)) /\ u.n_protected = Len(u.prot)
      /\ u.markers = Cardinality(Marked(u))
      /\ u.used = Cardinality(Units(u)) + extra /\ u.used <= Memory
  BY <1>1 DEF Linked
<1> HIDE DEF u
<1>3. /\ u.node \in [AllKeys -> NodeType] /\ u.n_entries \in Nat
      /\ u.markers \in Nat /\ u.used \in Nat
  BY <1>2, ZoneFields
<1>4. k \in AllKeys /\ u.node[k] \in NodeType /\ u.node[k].kind # "NONE"
  BY <1>1, <1>3 DEF Resident
<1>5. u.node[k].size \in Nat
  BY <1>4 DEF NodeType
<1> DEFINE m == IF u.node[k].kind = "MARKER" THEN u.markers - 1 ELSE u.markers
           w == u.used - (1 + u.node[k].size)
<1>6. t = [u EXCEPT !.n_entries = u.n_entries - 1, !.markers = m, !.used = w,
                    !.node = [u.node EXCEPT ![k] = Gone]]
  BY <1>1 DEF DropNode, u
<1> DEFINE f == [u.node EXCEPT ![k] = Gone]
           z == [prob |-> u.prob, prot |-> u.prot, node |-> f,
                 n_entries |-> Cardinality(Resident(u)), n_protected |-> u.n_protected,
                 markers |-> 0, used |-> 0]
<1>7. z \in Zones /\ z.node = f
  BY <1>2, <1>3, GoneIs DEF Zones
<1> HIDE DEF z
<1>8. /\ Cardinality(Resident(z))
            = Cardinality(Resident(u)) + One(Gone.kind # "NONE")
                - One(u.node[k].kind # "NONE")
      /\ Cardinality(Marked(z))
            = Cardinality(Marked(u)) + One(Gone.kind = "MARKER")
                - One(u.node[k].kind = "MARKER")
      /\ Cardinality(Units(z))
            = Cardinality(Units(u)) + Cost(Gone) - Cost(u.node[k])
  BY <1>2, <1>4, <1>7, GoneIs, NodeCounts
<1>9. /\ Cardinality(Resident(z)) \in Nat /\ Cardinality(Marked(z)) \in Nat
      /\ Cardinality(Units(z)) \in Nat
      /\ Cardinality(Resident(u)) \in Nat /\ Cardinality(Marked(u)) \in Nat
      /\ Cardinality(Units(u)) \in Nat
  BY <1>2, <1>7, Finite
<1>10. One(Gone.kind # "NONE") = 0 /\ One(Gone.kind = "MARKER") = 0
  BY GoneIs DEF One
<1>11. /\ One(u.node[k].kind # "NONE") = 1
       /\ One(u.node[k].kind = "MARKER")
            = IF u.node[k].kind = "MARKER" THEN 1 ELSE 0
  BY <1>4 DEF One
<1>12. Cost(u.node[k]) = 1 + u.node[k].size
  BY <1>4 DEF Cost
<1>13. Cardinality(Resident(z)) = u.n_entries - 1
  BY <1>2, <1>8, <1>9, <1>10, <1>11
<1>14. Cardinality(Marked(z)) = m
  BY <1>2, <1>8, <1>9, <1>10, <1>11
<1>15. Cardinality(Units(z)) + extra = w /\ w \in Nat /\ w <= Memory
  <2>1. Memory \in Nat
    BY LruZoneAssumption
  <2>2. Cardinality(Units(z)) = Cardinality(Units(u)) - (1 + u.node[k].size)
    BY <1>5, <1>8, <1>9, <1>12, GoneIs
  <2>3. u.used = Cardinality(Units(u)) + extra /\ extra \in Nat /\ u.used <= Memory
    BY <1>2
  <2> HIDE DEF z, f
  <2> QED BY <1>5, <1>9, <2>1, <2>2, <2>3
<1> HIDE DEF m, w
<1>16. u.n_entries - 1 \in Nat /\ m \in Nat /\ f \in [AllKeys -> NodeType]
  BY <1>3, <1>9, <1>13, <1>14, GoneIs
<1> HIDE DEF f
<1>17. /\ t.prob = u.prob /\ t.prot = u.prot /\ t.node = f
       /\ t.n_entries = u.n_entries - 1 /\ t.n_protected = u.n_protected
       /\ t.markers = m /\ t.used = w /\ t \in Zones
  <2> HIDE DEF t
  <2> QED BY <1>2, <1>6, <1>15, <1>16 DEF Zones, f
<1> HIDE DEF t
<1>18. /\ Resident(t) = Resident(z) /\ Marked(t) = Marked(z)
       /\ Units(t) = Units(z)
  BY <1>7, <1>17, SameCounts
<1>19. f[k] = Gone /\ \A j \in AllKeys : j # k => f[j] = u.node[j]
  BY <1>3, <1>4 DEF f
<1>20. /\ Resident(t) = Resident(u) \ {k}
       /\ Segment(t, "PROBATION") = Segment(u, "PROBATION") \ {k}
       /\ Segment(t, "PROTECTED") = Segment(u, "PROTECTED") \ {k}
  BY <1>17, <1>19, GoneIs DEF Resident, Segment
<1>21. Segment(t, "PROBATION") \ out = Segment(u, "PROBATION") \ (out \cup {k})
  BY <1>20
<1>22. Segment(t, "PROTECTED") \ out = Segment(u, "PROTECTED") \ (out \cup {k})
  BY <1>20
<1>23. out \subseteq Resident(t)
  BY <1>2, <1>20
<1>24. Linked(t, out, extra)
  BY <1>2, <1>13, <1>14, <1>15, <1>17, <1>18, <1>21, <1>22, <1>23 DEF Linked
<1>25. Resident(u) = Resident(s)
  BY <1>1 DEF Resident
<1> QED BY <1>1, <1>17, <1>20, <1>24, <1>25 DEF t, f

(* A node of probation is put, new or in the place of one that was taken    *)
(* off its queue.                                                           *)
Put(s, k, n) ==
    [prob |-> Cons(k, s.prob), prot |-> s.prot, node |-> [s.node EXCEPT ![k] = n],
     n_entries |-> IF k \in Resident(s) THEN s.n_entries ELSE s.n_entries + 1,
     n_protected |-> s.n_protected,
     markers |-> s.markers + One(n.kind = "MARKER") - One(s.node[k].kind = "MARKER"),
     used |-> s.used + Cost(n) - Cost(s.node[k])]

LEMMA PutLinks ==
    ASSUME NEW s, NEW out, Linked(s, out, 0),
           NEW k \in AllKeys, out = Resident(s) \cap {k},
           NEW n \in NodeType, n.kind # "NONE", n.seg = "PROBATION",
           s.used + Cost(n) - Cost(s.node[k]) <= Memory
    PROVE  Linked(Put(s, k, n), {}, 0) /\ Resident(Put(s, k, n)) = Resident(s) \cup {k}
<1> DEFINE t == Put(s, k, n)
           f == [s.node EXCEPT ![k] = n]
           m == s.markers + One(n.kind = "MARKER") - One(s.node[k].kind = "MARKER")
           w == s.used + Cost(n) - Cost(s.node[k])
           c == IF k \in Resident(s) THEN s.n_entries ELSE s.n_entries + 1
<1>1. /\ s \in Zones
      /\ Distinct(s.prob) /\ ToSet(s.prob) = Segment(s, "PROBATION") \ out
      /\ Distinct(s.prot) /\ ToSet(s.prot) = Segment(s, "PROTECTED") \ out
      /\ s.n_entries = Cardinality(Resident(s)) /\ s.n_protected = Len(s.prot)
      /\ s.markers = Cardinality(Marked(s))
      /\ s.used = Cardinality(Units(s)) + 0 /\ s.used <= Memory
  BY DEF Linked
<1>2. /\ s.prob \in Seq(AllKeys) /\ s.prot \in Seq(AllKeys)
      /\ s.node \in [AllKeys -> NodeType] /\ s.n_protected \in Nat
      /\ s.n_entries \in Nat /\ s.markers \in Nat /\ s.used \in Nat
  BY <1>1, ZoneFields
<1>3. s.node[k] \in NodeType /\ f \in [AllKeys -> NodeType]
  BY <1>2
<1>4. k \notin ToSet(s.prob) /\ k \notin ToSet(s.prot)
  BY <1>1 DEF Segment
<1>5. /\ Cons(k, s.prob) \in Seq(AllKeys) /\ Distinct(Cons(k, s.prob))
      /\ ToSet(Cons(k, s.prob)) = ToSet(s.prob) \cup {k}
  BY <1>1, <1>2, <1>4, ConsIs
<1> DEFINE z == [prob |-> s.prob, prot |-> s.prot, node |-> f, n_entries |-> 0,
                 n_protected |-> 0, markers |-> 0, used |-> 0]
<1>6. z \in Zones /\ z.node = f
  BY <1>2, <1>3 DEF Zones
<1> HIDE DEF z
<1>7. /\ Cardinality(Resident(z))
            = Cardinality(Resident(s)) + One(n.kind # "NONE")
                - One(s.node[k].kind # "NONE")
      /\ Cardinality(Marked(z)) = Cardinality(Marked(s)) + One(n.kind = "MARKER")
                - One(s.node[k].kind = "MARKER")
      /\ Cardinality(Units(z)) = Cardinality(Units(s)) + Cost(n) - Cost(s.node[k])
  BY <1>1, <1>6, NodeCounts
<1>8. /\ Cardinality(Resident(z)) \in Nat /\ Cardinality(Marked(z)) \in Nat
      /\ Cardinality(Units(z)) \in Nat
      /\ Cardinality(Resident(s)) \in Nat /\ Cardinality(Marked(s)) \in Nat
      /\ Cardinality(Units(s)) \in Nat
  BY <1>1, <1>6, Finite
<1>9. Cardinality(Marked(z)) = m /\ m \in Nat
  BY <1>1, <1>7, <1>8
<1>10. Cardinality(Units(z)) = w /\ w \in Nat /\ w <= Memory
  <2>1. Cost(n) \in Nat /\ Cost(s.node[k]) \in Nat
    BY <1>3, OwnUnits
  <2>2. s.used = Cardinality(Units(s))
    BY <1>1, <1>8
  <2> QED BY <1>7, <1>8, <2>1, <2>2
<1>11. Cardinality(Resident(z)) = c /\ c \in Nat
  <2>1. One(n.kind # "NONE") = 1
    BY DEF One
  <2>2. CASE k \in Resident(s)
    <3>1. One(s.node[k].kind # "NONE") = 1
      BY <2>2 DEF Resident, One
    <3> QED BY <1>1, <1>7, <1>8, <2>1, <2>2, <3>1
  <2>3. CASE k \notin Resident(s)
    <3>1. One(s.node[k].kind # "NONE") = 0
      BY <2>3 DEF Resident, One
    <3> QED BY <1>1, <1>7, <1>8, <2>1, <2>3, <3>1
  <2> QED BY <2>2, <2>3
<1> HIDE DEF m, w, c, f
<1>12. /\ t.prob = Cons(k, s.prob) /\ t.prot = s.prot /\ t.node = f
       /\ t.n_entries = c /\ t.n_protected = s.n_protected
       /\ t.markers = m /\ t.used = w /\ t \in Zones
  <2>1. t = [prob |-> Cons(k, s.prob), prot |-> s.prot, node |-> f,
             n_entries |-> c, n_protected |-> s.n_protected,
             markers |-> m, used |-> w]
    BY DEF Put, f, m, w, c
  <2> HIDE DEF t
  <2> QED BY <1>2, <1>3, <1>5, <1>9, <1>10, <1>11, <2>1 DEF Zones
<1> HIDE DEF t
<1>13. /\ Resident(t) = Resident(z) /\ Marked(t) = Marked(z)
       /\ Units(t) = Units(z)
  BY <1>6, <1>12, SameCounts
<1>14. f[k] = n /\ \A j \in AllKeys : j # k => f[j] = s.node[j]
  BY <1>2 DEF f
<1>15. /\ Resident(t) = Resident(s) \cup {k}
       /\ Segment(t, "PROBATION") = (Segment(s, "PROBATION") \ out) \cup {k}
       /\ Segment(t, "PROTECTED") = Segment(s, "PROTECTED") \ out
  <2>1. Resident(t) = Resident(s) \cup {k}
    BY <1>12, <1>14 DEF Resident
  <2>2. \A j \in Resident(s) : j = k <=> j \in out
    OBVIOUS
  <2>3. n.seg # "PROTECTED"
    OBVIOUS
  <2> QED BY <1>12, <1>14, <2>1, <2>2, <2>3 DEF Segment, Resident
<1>16. Linked(t, {}, 0)
  <2>1. /\ ToSet(t.prob) = Segment(t, "PROBATION") \ {}
        /\ ToSet(t.prot) = Segment(t, "PROTECTED") \ {}
    BY <1>1, <1>5, <1>12, <1>15
  <2>2. t.used = Cardinality(Units(t)) + 0 /\ t.used <= Memory
    BY <1>10, <1>12, <1>13
  <2>3. /\ Distinct(t.prob) /\ Distinct(t.prot) /\ t.n_protected = Len(t.prot)
        /\ t.n_entries = Cardinality(Resident(t)) /\ t \in Zones
        /\ t.markers = Cardinality(Marked(t))
    BY <1>1, <1>5, <1>9, <1>11, <1>12, <1>13
  <2> QED BY <2>1, <2>2, <2>3 DEF Linked
<1> QED BY <1>15, <1>16 DEF t

-----------------------------------------------------------------------------
(* Making room. *)

(* t is s without some nodes.  What is in out has not been touched; and     *)
(* nothing protected is missing as long as there is a probation queue.      *)
Thinned(s, t, out) ==
    /\ \A k \in Resident(t) :
        /\ k \in Resident(s)
        /\ t.node[k].kind = s.node[k].kind /\ t.node[k].size = s.node[k].size
        /\ t.node[k].seg = s.node[k].seg
        /\ t.node[k].promotable = s.node[k].promotable
    /\ \A k \in out : t.node[k] = s.node[k]
    /\ s.prob = <<>> => t.prob = <<>>
    /\ t.prob # <<>> =>
        \A k \in Resident(s) : s.node[k].seg = "PROTECTED" => k \in Resident(t)

LEMMA ThinnedSelf == ASSUME NEW s, NEW out PROVE Thinned(s, s, out)
BY DEF Thinned

LEMMA ThinnedOn ==
    ASSUME NEW s, NEW t, NEW u, NEW out, Thinned(s, t, out), Thinned(t, u, out)
    PROVE  Thinned(s, u, out)
BY DEF Thinned

LEMMA EvictFromLinks ==
    ASSUME NEW s, NEW out, NEW extra, Linked(s, out, extra),
           NEW q \in Seq(AllKeys), q # <<>>, ToSet(q) \subseteq Resident(s) \ out,
           \/ \A k \in ToSet(q) : s.node[k].seg = "PROBATION"
           \/ s.prob = <<>>
    PROVE  Linked(EvictFrom(s, q), out, extra) /\ Thinned(s, EvictFrom(s, q), out)
<1> DEFINE takes == {i \in 1..Len(q) : ~Spare(s, q[i])}
           i == IF takes = {} THEN 0 ELSE Max(takes)
           v == IF takes = {} THEN Last(q) ELSE q[i]
           passed == {q[j] : j \in (i + 1)..Len(q)}
           f == [k \in AllKeys |->
                    IF k \in passed THEN [s.node[k] EXCEPT !.spared = TRUE]
                                    ELSE s.node[k]]
           r == [s EXCEPT !.node = f]
           t == EvictFrom(s, q)
<1>1. t = DropNode(r, v)
  BY DEF EvictFrom
<1>2. /\ s \in Zones /\ out \subseteq Resident(s) /\ extra \in Nat
      /\ Distinct(s.prob) /\ ToSet(s.prob) = Segment(s, "PROBATION") \ out
      /\ Distinct(s.prot) /\ ToSet(s.prot) = Segment(s, "PROTECTED") \ out
      /\ s.n_entries = Cardinality(Resident(s)) /\ s.n_protected = Len(s.prot)
      /\ s.markers = Cardinality(Marked(s))
      /\ s.used = Cardinality(Units(s)) + extra /\ s.used <= Memory
  BY DEF Linked
<1>3. i \in Nat /\ v \in ToSet(q)
  <2>1. Len(q) \in 1..Len(q) /\ DOMAIN q = 1..Len(q)
    OBVIOUS
  <2>2. CASE takes = {}
    BY <2>1, <2>2 DEF ToSet, Last
  <2>3. CASE takes # {}
    <3> DEFINE L == {Len(q) - j : j \in takes}
    <3>1. L \in SUBSET Nat /\ L # {}
      BY <2>3
    <3>2. PICK m \in L : \A k \in L : m <= k
      <4> HIDE DEF L
      <4> QED BY <3>1, NatLeast
    <3>3. PICK j \in takes : m = Len(q) - j
      BY <3>2
    <3>4. \A k \in takes : j >= k
      <4> SUFFICES ASSUME NEW k \in takes PROVE j >= k
        OBVIOUS
      <4>1. Len(q) - k \in L /\ k \in Nat /\ j \in Nat
        OBVIOUS
      <4>2. Len(q) - j <= Len(q) - k
        BY <3>2, <3>3, <4>1
      <4> QED BY <4>1, <4>2
    <3> HIDE DEF takes
    <3>5. Max(takes) \in takes
      BY <3>4 DEF Max
    <3>6. Max(takes) \in 1..Len(q)
      BY <3>5 DEF takes
    <3> QED BY <2>1, <2>3, <3>6 DEF ToSet
  <2> QED BY <2>2, <2>3
<1>4. passed \subseteq ToSet(q)
  BY <1>3 DEF ToSet
<1> HIDE DEF v, passed, i
<1>5. s.node \in [AllKeys -> NodeType]
  BY <1>2, ZoneFields
<1>6. \A k \in AllKeys :
        /\ f[k] \in NodeType
        /\ f[k].kind = s.node[k].kind /\ f[k].size = s.node[k].size
        /\ f[k].seg = s.node[k].seg /\ f[k].promotable = s.node[k].promotable
        /\ k \notin passed => f[k] = s.node[k]
  BY <1>5 DEF NodeType
<1>7. f \in [AllKeys -> NodeType]
  BY <1>6
<1> HIDE DEF f
<1>8. /\ Linked(r, out, extra) /\ r.node = f /\ r.prob = s.prob
      /\ Resident(r) = Resident(s)
  BY <1>6, <1>7, FlagLinks
<1> HIDE DEF r
<1>9. v \in Resident(r) \ out
  BY <1>3, <1>8
<1>10. /\ Linked(t, out, extra) /\ t.node = [r.node EXCEPT ![v] = Gone]
       /\ Resident(t) = Resident(r) \ {v}
       /\ r.prob = <<>> => t.prob = <<>>
  BY <1>1, <1>8, <1>9, DropLinks
<1> HIDE DEF t
<1>11. \A k \in AllKeys : k # v => t.node[k] = f[k]
  BY <1>7, <1>8, <1>10
<1>12. \A k \in Resident(t) :
        /\ k \in Resident(s)
        /\ t.node[k].kind = s.node[k].kind /\ t.node[k].size = s.node[k].size
        /\ t.node[k].seg = s.node[k].seg
        /\ t.node[k].promotable = s.node[k].promotable
  BY <1>6, <1>8, <1>10, <1>11 DEF Resident
<1>13. \A k \in out : t.node[k] = s.node[k]
  BY <1>2, <1>3, <1>4, <1>6, <1>11 DEF Resident
<1>14. t.prob # <<>> =>
        \A k \in Resident(s) : s.node[k].seg = "PROTECTED" => k \in Resident(t)
  BY <1>3, <1>8, <1>10
<1>15. Thinned(s, t, out)
  BY <1>8, <1>10, <1>12, <1>13, <1>14 DEF Thinned
<1> QED BY <1>10, <1>15 DEF t

LEMMA EvictOneLinks ==
    ASSUME NEW s, NEW out, NEW extra, Linked(s, out, extra),
           s.prob # <<>> \/ s.prot # <<>>
    PROVE  Linked(EvictOne(s), out, extra) /\ Thinned(s, EvictOne(s), out)
<1>1. /\ s \in Zones /\ ToSet(s.prob) = Segment(s, "PROBATION") \ out
      /\ ToSet(s.prot) = Segment(s, "PROTECTED") \ out
  BY DEF Linked
<1>2. s.prob \in Seq(AllKeys) /\ s.prot \in Seq(AllKeys)
  BY <1>1, ZoneFields
<1>3. /\ ToSet(s.prob) \subseteq Resident(s) \ out
      /\ ToSet(s.prot) \subseteq Resident(s) \ out
      /\ \A k \in ToSet(s.prob) : s.node[k].seg = "PROBATION"
  BY <1>1 DEF Segment
<1>4. CASE s.prob # <<>>
  <2>1. EvictOne(s) = EvictFrom(s, s.prob)
    BY <1>4 DEF EvictOne
  <2> QED BY <1>2, <1>3, <1>4, <2>1, EvictFromLinks
<1>5. CASE s.prob = <<>>
  <2>1. EvictOne(s) = EvictFrom(s, s.prot)
    BY <1>5 DEF EvictOne
  <2> QED BY <1>2, <1>3, <1>5, <2>1, EvictFromLinks
<1> QED BY <1>4, <1>5

LEMMA AllocEvictedLinks ==
    ASSUME NEW s, NEW out, NEW extra, Linked(s, out, extra),
           NEW n
    PROVE  Linked(AllocEvicted(s, n), out, extra) /\ Thinned(s, AllocEvicted(s, n), out)
<1> DEFINE makeRoom ==
               [t \in Zones |->
                   IF Fits(t, n) \/ (t.prob = <<>> /\ t.prot = <<>>) THEN t
                                                                     ELSE EvictOne(t)]
           I == {t \in Zones : Linked(t, out, extra) /\ Thinned(s, t, out)}
<1>1. s \in I
  BY ThinnedSelf DEF Linked
<1>2. ASSUME NEW t \in I PROVE makeRoom[t] \in I
  <2>1. CASE Fits(t, n) \/ (t.prob = <<>> /\ t.prot = <<>>)
    BY <2>1
  <2>2. CASE ~(Fits(t, n) \/ (t.prob = <<>> /\ t.prot = <<>>))
    <3>1. makeRoom[t] = EvictOne(t)
      BY <2>2
    <3>2. Linked(EvictOne(t), out, extra) /\ Thinned(t, EvictOne(t), out)
      BY <2>2, EvictOneLinks
    <3>3. Thinned(s, EvictOne(t), out)
      BY <3>2, ThinnedOn
    <3>4. EvictOne(t) \in Zones
      BY <3>2 DEF Linked
    <3> HIDE DEF makeRoom
    <3> QED BY <3>1, <3>2, <3>3, <3>4
  <2> QED BY <2>1, <2>2
<1>3. Cardinality(AllKeys) \in Nat
  BY FS_CardinalityType, LruZoneAssumption
<1>4. AllocEvicted(s, n) = Iterated(makeRoom, Cardinality(AllKeys), s)
  BY DEF AllocEvicted
<1> HIDE DEF makeRoom, I
<1>5. AllocEvicted(s, n) \in I
  BY <1>1, <1>2, <1>3, <1>4, IteratedIn
<1> QED BY <1>5 DEF I

-----------------------------------------------------------------------------
(* Demotion and touch. *)

(* The nodes of s and t are the same, but for their segment and flags; only *)
(* k may have become protected.                                             *)
Reordered(s, t, K) ==
    \A j \in AllKeys :
        /\ t.node[j].kind = s.node[j].kind
        /\ j \notin K => t.node[j].promotable = s.node[j].promotable
        /\ j \notin K /\ t.node[j].seg = "PROTECTED" => s.node[j].seg = "PROTECTED"

(* The node k moves to the head of the queue of its new segment. *)
LEMMA MoveLinks ==
    ASSUME NEW s, Linked(s, {}, 0), NEW k \in Resident(s),
           NEW n \in NodeType, n.kind = s.node[k].kind, n.size = s.node[k].size,
           NEW t, t = LinkHead([Unlink(s, k) EXCEPT !.node[k] = n], k)
    PROVE  Linked(t, {}, 0) /\ t.node = [s.node EXCEPT ![k] = n]
<1> DEFINE u == Unlink(s, k)
           v == [u EXCEPT !.node[k] = n]
<1>1. Linked(u, {} \cup {k}, 0) /\ u.node = s.node
  <2>1. k \in Resident(s) \ {}
    OBVIOUS
  <2> HIDE DEF v
  <2> QED BY <2>1, UnlinkLinks
<1>2. Linked(u, {k}, 0)
  BY <1>1
<1> HIDE DEF u
<1>3. n.kind = u.node[k].kind /\ n.size = u.node[k].size /\ k \in {k}
  BY <1>1
<1>4. Linked(v, {k}, 0) /\ v.node = [u.node EXCEPT ![k] = n]
  BY <1>2, <1>3, ChangeLinks
<1>5. t = LinkHead(v, k)
  BY DEF u
<1> HIDE DEF v
<1>6. Linked(t, {k} \ {k}, 0) /\ t.node = v.node
  BY <1>4, <1>5, LinkHeadLinks
<1>7. Linked(t, {}, 0)
  BY <1>6
<1> QED BY <1>1, <1>4, <1>6, <1>7

LEMMA DemoteLinks ==
    ASSUME NEW s, Linked(s, {}, 0), s.prot # <<>>
    PROVE  Linked(Demote(s), {}, 0) /\ Reordered(s, Demote(s), {})
<1> DEFINE k == Last(s.prot)
           n == [s.node[k] EXCEPT !.seg = "PROBATION"]
<1>1. /\ s \in Zones /\ ToSet(s.prot) = Segment(s, "PROTECTED") \ {}
  BY DEF Linked
<1>2. s.prot \in Seq(AllKeys) /\ s.node \in [AllKeys -> NodeType]
  BY <1>1, ZoneFields
<1>3. k \in ToSet(s.prot)
  <2>1. Len(s.prot) \in DOMAIN s.prot
    BY <1>2
  <2> QED BY <2>1 DEF Last, ToSet
<1>4. k \in Resident(s) /\ k \in AllKeys
  BY <1>1, <1>3 DEF Segment, Resident
<1>5. n \in NodeType /\ n.kind = s.node[k].kind /\ n.size = s.node[k].size
      /\ n.promotable = s.node[k].promotable /\ n.seg = "PROBATION"
  BY <1>2, <1>4 DEF NodeType
<1>6. Unlink(s, k).node = s.node
  BY <1>1, UnlinkNode
<1>7. Demote(s) = LinkHead([Unlink(s, k) EXCEPT !.node[k] = n], k)
  BY <1>6 DEF Demote
<1> HIDE DEF k, n
<1>8. Linked(Demote(s), {}, 0) /\ Demote(s).node = [s.node EXCEPT ![k] = n]
  BY <1>4, <1>5, <1>7, MoveLinks
<1>9. \A j \in AllKeys : Demote(s).node[j] = IF j = k THEN n ELSE s.node[j]
  BY <1>2, <1>8
<1>10. Reordered(s, Demote(s), {})
  BY <1>5, <1>9 DEF Reordered
<1> QED BY <1>8, <1>10

LEMMA EnforceCapLinks ==
    ASSUME NEW s, Linked(s, {}, 0), NEW p
    PROVE  Linked(EnforceCap(s, p), {}, 0) /\ Reordered(s, EnforceCap(s, p), {})
<1> DEFINE demoteOne ==
               [t \in Zones |->
                   IF t.n_protected > Cap(t, p) /\ t.prot # <<>> THEN Demote(t) ELSE t]
           I == {t \in Zones : Linked(t, {}, 0) /\ Reordered(s, t, {})}
<1>1. s \in I
  BY DEF Linked, Reordered
<1>2. ASSUME NEW t \in I PROVE demoteOne[t] \in I
  <2>1. CASE ~(t.n_protected > Cap(t, p) /\ t.prot # <<>>)
    BY <2>1
  <2>2. CASE t.n_protected > Cap(t, p) /\ t.prot # <<>>
    <3>1. demoteOne[t] = Demote(t)
      BY <2>2
    <3>2. Linked(Demote(t), {}, 0) /\ Reordered(t, Demote(t), {})
      BY <2>2, DemoteLinks
    <3>3. Reordered(s, Demote(t), {})
      BY <3>2 DEF Reordered
    <3>4. Demote(t) \in Zones
      BY <3>2 DEF Linked
    <3> HIDE DEF demoteOne
    <3> QED BY <3>1, <3>2, <3>3, <3>4
  <2> QED BY <2>1, <2>2
<1>3. CapMaxEvict \in Nat
  BY LruZoneAssumption
<1>4. EnforceCap(s, p) = Iterated(demoteOne, CapMaxEvict, s)
  BY DEF EnforceCap
<1> HIDE DEF demoteOne, I
<1>5. EnforceCap(s, p) \in I
  BY <1>1, <1>2, <1>3, <1>4, IteratedIn
<1> QED BY <1>5 DEF I

(* What a touch makes of the node itself. *)
LEMMA TouchedLinks ==
    ASSUME NEW s, Linked(s, {}, 0), NEW k \in Resident(s),
           NEW p \in Nat
    PROVE  /\ Linked(Touched(s, k, p), {}, 0)
           /\ Reordered(s, Touched(s, k, p), {k})
           /\ Touched(s, k, p).node[k].seg = "PROTECTED" =>
                /\ p > 0
                /\ \/ s.node[k].kind = "ENTRY" /\ s.node[k].promotable
                   \/ s.node[k].seg = "PROTECTED"
<1> DEFINE seg == IF p = 0 THEN "PROBATION"
                  ELSE IF s.node[k].kind = "ENTRY" /\ s.node[k].promotable
                  THEN "PROTECTED" ELSE s.node[k].seg
           n == [s.node[k] EXCEPT !.seg = seg, !.promotable = TRUE]
           t == LinkHead([Unlink(s, k) EXCEPT !.node[k] = n], k)
<1>1. s \in Zones /\ k \in AllKeys
  BY DEF Linked, Resident
<1>2. s.node \in [AllKeys -> NodeType] /\ s.node[k] \in NodeType
  BY <1>1, ZoneFields
<1>3. seg \in {"PROBATION", "PROTECTED"}
  BY <1>2 DEF NodeType
<1>4. seg = "PROTECTED" =>
        /\ p > 0
        /\ \/ s.node[k].kind = "ENTRY" /\ s.node[k].promotable
           \/ s.node[k].seg = "PROTECTED"
  OBVIOUS
<1>5. Unlink(s, k).node = s.node
  BY <1>1, UnlinkNode
<1>6. Touched(s, k, p) = IF p > 0 THEN EnforceCap(t, p) ELSE t
  <2> DEFINE u == Unlink(s, k)
             v == [u EXCEPT !.node[k].seg = seg, !.node[k].promotable = TRUE]
             x == LinkHead(v, k)
  <2>1. Touched(s, k, p) = IF p > 0 THEN EnforceCap(x, p) ELSE x
    BY DEF Touched
  <2>2. v = [u EXCEPT !.node[k] = n]
    <3> HIDE DEF u, seg
    <3> QED BY <1>5 DEF u
  <2> QED BY <2>1, <2>2
<1> HIDE DEF seg
<1>7. n \in NodeType /\ n.kind = s.node[k].kind /\ n.size = s.node[k].size
      /\ n.seg = seg
  BY <1>2, <1>3 DEF NodeType
<1> HIDE DEF n
<1>8. Linked(t, {}, 0) /\ t.node = [s.node EXCEPT ![k] = n]
  BY <1>7, MoveLinks
<1> HIDE DEF t
<1>9. \A j \in AllKeys : t.node[j] = IF j = k THEN n ELSE s.node[j]
  BY <1>1, <1>2, <1>8
<1>10. Reordered(s, t, {k}) /\ t.node[k].seg = seg
  BY <1>1, <1>7, <1>9 DEF Reordered
<1>11. Linked(EnforceCap(t, p), {}, 0) /\ Reordered(t, EnforceCap(t, p), {})
  BY <1>8, EnforceCapLinks
<1>12. CASE p > 0
  <2>1. Touched(s, k, p) = EnforceCap(t, p)
    BY <1>6, <1>12
  <2> QED BY <1>1, <1>4, <1>10, <1>11, <2>1 DEF Reordered
<1>13. CASE ~(p > 0)
  BY <1>4, <1>6, <1>8, <1>10, <1>13
<1> QED BY <1>12, <1>13

-----------------------------------------------------------------------------
(* Storing. *)

FreshNode(kind, size, sie) == [Gone EXCEPT !.kind = kind, !.size = size, !.sie = sie]
Kinds == {"COUNTER", "ENTRY", "MARKER"}

LEMMA FreshIs ==
    ASSUME NEW kind \in Kinds, NEW size \in Nat, NEW sie \in BOOLEAN
    PROVE  /\ FreshNode(kind, size, sie) \in NodeType
           /\ FreshNode(kind, size, sie).kind = kind
           /\ FreshNode(kind, size, sie).seg = "PROBATION"
           /\ FreshNode(kind, size, sie).promotable = FALSE
           /\ kind # "NONE"
           /\ Cost(FreshNode(kind, size, sie)) = 1 + size
BY DEF FreshNode, Gone, NodeType, Kinds, Cost

(* The nodes of z that are not in K were in s, the same. *)
Kept(s, z, K) ==
    \A j \in Resident(z) \ K :
        /\ j \in Resident(s)
        /\ z.node[j].kind = s.node[j].kind /\ z.node[j].seg = s.node[j].seg
        /\ z.node[j].promotable = s.node[j].promotable

(* A protected node was taken only when probation had nothing else.         *)
FromProbation(s, z, k) ==
    \/ z.prob = <<>> \/ z.prob = Cons(k, <<>>)
    \/ \A j \in Resident(s) : s.node[j].seg = "PROTECTED" => j \in Resident(z)

\* What store_marker() makes of the count.
Recounted(z, m) == [z EXCEPT !.markers = @ + m]

LEMMA RecountedIs ==
    ASSUME NEW z \in Zones
    PROVE  Recounted(z, 0) = z
BY DEF Recounted, Zones

LEMMA InsertedLinks ==
    ASSUME NEW s, Linked(s, {}, 0),
           NEW k \in AllKeys, k \notin Resident(s),
           NEW kind \in Kinds, NEW size \in Nat, NEW sie \in BOOLEAN,
           s.used + 1 + size <= Memory
    PROVE  LET z == Inserted(s, k, kind, size, sie)
           IN  /\ Linked(Recounted(z, One(kind = "MARKER")), {}, 0)
               /\ z.node = [s.node EXCEPT ![k] = FreshNode(kind, size, sie)]
               /\ z.prob = Cons(k, s.prob) /\ z.markers = s.markers
               /\ Resident(z) = Resident(s) \cup {k}
<1> DEFINE n == FreshNode(kind, size, sie)
           z == Inserted(s, k, kind, size, sie)
           m == One(kind = "MARKER")
<1>1. s \in Zones
  BY DEF Linked
<1>2. /\ s.prob \in Seq(AllKeys) /\ s.prot \in Seq(AllKeys)
      /\ s.node \in [AllKeys -> NodeType]
      /\ s.n_entries \in Nat /\ s.n_protected \in Nat
      /\ s.markers \in Nat /\ s.used \in Nat
  BY <1>1, ZoneFields
<1>3. /\ n \in NodeType /\ n.kind = kind /\ n.seg = "PROBATION"
      /\ n.kind # "NONE" /\ Cost(n) = 1 + size
  BY FreshIs
<1>4. s.node[k].kind = "NONE"
  BY DEF Resident
<1>5. Cost(s.node[k]) = 0 /\ One(s.node[k].kind = "MARKER") = 0
  BY <1>4 DEF Cost, One
<1>6. m \in {0, 1} /\ m = One(n.kind = "MARKER")
  BY <1>3 DEF One
<1>7. z = [s EXCEPT !.node[k] = n, !.prob = Cons(k, @), !.n_entries = @ + 1,
                    !.used = @ + 1 + size]
  BY DEF Inserted, FreshNode
<1> HIDE DEF n
<1>8. z = [prob |-> Cons(k, s.prob), prot |-> s.prot,
           node |-> [s.node EXCEPT ![k] = n], n_entries |-> s.n_entries + 1,
           n_protected |-> s.n_protected, markers |-> s.markers,
           used |-> s.used + 1 + size]
  <2> HIDE DEF z
  <2> QED BY <1>1, <1>7 DEF Zones
<1> HIDE DEF z, m
<1>9. Recounted(z, m)
        = [prob |-> Cons(k, s.prob), prot |-> s.prot,
           node |-> [s.node EXCEPT ![k] = n], n_entries |-> s.n_entries + 1,
           n_protected |-> s.n_protected, markers |-> s.markers + m,
           used |-> s.used + 1 + size]
  BY <1>8 DEF Recounted
<1>10. /\ s.markers + One(n.kind = "MARKER") - One(s.node[k].kind = "MARKER")
            = s.markers + m
       /\ s.used + Cost(n) - Cost(s.node[k]) = s.used + 1 + size
  <2>1. s.used + Cost(n) - Cost(s.node[k]) = s.used + 1 + size
    <3> DEFINE c == Cost(n)
               d == Cost(s.node[k])
    <3>1. c = 1 + size /\ d = 0
      BY <1>3, <1>5
    <3> HIDE DEF c, d
    <3>2. s.used + c - d = s.used + 1 + size
      BY SMTT(30), <1>2, <3>1
    <3> QED BY <3>2 DEF c, d
  <2> DEFINE a == One(s.node[k].kind = "MARKER")
             b == One(n.kind = "MARKER")
  <2>2. a = 0 /\ b = m
    BY <1>5, <1>6
  <2> HIDE DEF a, b
  <2>3. s.markers + b - a = s.markers + m
    BY <1>2, <1>6, <2>2
  <2> QED BY <2>1, <2>3 DEF a, b
<1>11. Put(s, k, n) = Recounted(z, m)
  BY <1>9, <1>10 DEF Put
<1>12. {} = Resident(s) \cap {k} /\ s.used + Cost(n) - Cost(s.node[k]) <= Memory
  BY <1>10
<1>13. Linked(Put(s, k, n), {}, 0) /\ Resident(Put(s, k, n)) = Resident(s) \cup {k}
  BY <1>3, <1>12, PutLinks
<1>14. Resident(z) = Resident(Recounted(z, m))
  <2>1. z.node = Recounted(z, m).node
    BY <1>8, <1>9
  <2> QED BY <2>1 DEF Resident
<1> QED BY <1>8, <1>11, <1>13, <1>14 DEF z, n, m

(* What an attempt to store comes to. *)
StoreResult(s, out, k, kind, size, sie) ==
    /\ out.ok \in BOOLEAN
    /\ FromProbation(s, out.zone, k)
    /\ ~out.ok => Linked(out.zone, {}, 0) /\ Kept(s, out.zone, {})
    /\ out.ok =>
        /\ Linked(Recounted(out.zone, One(kind = "MARKER")
                                        - One(s.node[k].kind = "MARKER")), {}, 0)
        /\ out.zone.node[k] = FreshNode(kind, size, sie)
        /\ out.zone \in Zones /\ Kept(s, out.zone, {k})

LEMMA ThinnedKept ==
    ASSUME NEW s, NEW t, NEW out, Thinned(s, t, out), NEW k
    PROVE  Kept(s, t, {}) /\ (t.prob = <<>> \/ FromProbation(s, t, k))
BY DEF Thinned, Kept, FromProbation

LEMMA OutcomeIs ==
    ASSUME NEW z, NEW ok
    PROVE  Outcome(z, ok).zone = z /\ Outcome(z, ok).ok = ok
BY DEF Outcome

LEMMA StoreEntryFails ==
    ASSUME NEW s, NEW z, NEW k, NEW kind, NEW size, NEW sie,
           NEW out, out = Outcome(z, FALSE),
           Linked(z, {}, 0), Kept(s, z, {}), FromProbation(s, z, k)
    PROVE  StoreResult(s, out, k, kind, size, sie)
<1>1. out.zone = z /\ out.ok = FALSE
  BY OutcomeIs
<1> QED BY <1>1 DEF StoreResult

LEMMA StoreSucceeds ==
    ASSUME NEW s, NEW z \in Zones, NEW k, NEW kind, NEW size, NEW sie,
           NEW out, out = Outcome(z, TRUE), NEW m,
           m = One(kind = "MARKER") - One(s.node[k].kind = "MARKER"),
           Linked(Recounted(z, m), {}, 0), z.node[k] = FreshNode(kind, size, sie),
           Kept(s, z, {k}), FromProbation(s, z, k)
    PROVE  StoreResult(s, out, k, kind, size, sie)
<1>1. out.zone = z /\ out.ok = TRUE
  BY OutcomeIs
<1>2. Linked(Recounted(out.zone,
                       One(kind = "MARKER") - One(s.node[k].kind = "MARKER")), {}, 0)
  BY <1>1
<1> QED BY <1>1, <1>2 DEF StoreResult

LEMMA RefreshedLinks ==
    ASSUME NEW s, Linked(s, {}, 0), NEW k \in Resident(s),
           NEW kind \in Kinds, NEW size \in Nat, NEW sie \in BOOLEAN
    PROVE  StoreResult(s, Refreshed(s, k, kind, size, sie), k, kind, size, sie)
<1> DEFINE n == FreshNode(kind, size, sie)
           u == Unlink(s, k)
           t == AllocEvicted(u, size)
           back == LinkHead(t, k)
           z == [t EXCEPT !.node[k] = n, !.prob = Cons(k, @),
                          !.used = @ + size - s.node[k].size]
           out == Refreshed(s, k, kind, size, sie)
           m == One(kind = "MARKER") - One(s.node[k].kind = "MARKER")
<1>1. s \in Zones /\ k \in AllKeys
  BY DEF Linked, Resident
<1>2. Linked(u, {k}, 0) /\ u.node = s.node
  <2>1. Linked(u, {} \cup {k}, 0) /\ u.node = s.node
    <3>1. k \in Resident(s) \ {}
      OBVIOUS
    <3> HIDE DEF n, t, back, z, out, m
    <3> QED BY <3>1, UnlinkLinks
  <2> QED BY <2>1
<1>3. out = IF ~Fits(t, size) THEN Outcome(back, FALSE) ELSE Outcome(z, TRUE)
  BY DEF Refreshed, FreshNode
<1> HIDE DEF u
<1>4. Linked(t, {k}, 0) /\ Thinned(u, t, {k})
  BY <1>2, AllocEvictedLinks
<1>5. Resident(u) = Resident(s)
  BY <1>2 DEF Resident
<1> HIDE DEF t
<1>6. t \in Zones /\ k \in Resident(t)
  BY <1>4 DEF Linked
<1>7. /\ t.prob \in Seq(AllKeys) /\ t.prot \in Seq(AllKeys)
      /\ t.node \in [AllKeys -> NodeType]
      /\ t.n_entries \in Nat /\ t.n_protected \in Nat
      /\ t.markers \in Nat /\ t.used \in Nat
  BY <1>6, ZoneFields
<1>8. t.node[k] = s.node[k] /\ s.node[k].kind # "NONE" /\ s.node[k].size \in Nat
  <2>1. t.node[k] = s.node[k]
    BY <1>2, <1>4 DEF Thinned
  <2>2. t.node[k] \in NodeType
    BY <1>1, <1>7
  <2> QED BY <2>1, <2>2 DEF Resident, NodeType
<1>9. /\ \A j \in Resident(t) :
            /\ j \in Resident(s)
            /\ t.node[j].kind = s.node[j].kind /\ t.node[j].seg = s.node[j].seg
            /\ t.node[j].promotable = s.node[j].promotable
      /\ t.prob # <<>> =>
            \A j \in Resident(s) : s.node[j].seg = "PROTECTED" => j \in Resident(t)
  BY <1>2, <1>4, <1>5 DEF Thinned
<1>10. CASE ~Fits(t, size)
  <2>1. out = Outcome(back, FALSE)
    BY <1>3, <1>10
  <2>2. /\ Linked(back, {k} \ {k}, 0) /\ back.node = t.node
        /\ back.prob = IF t.node[k].seg = "PROTECTED" THEN t.prob
                                                     ELSE Cons(k, t.prob)
    BY <1>4, LinkHeadLinks
  <2>3. Linked(back, {}, 0)
    BY <2>2
  <2> HIDE DEF back
  <2>4. Resident(back) = Resident(t)
    BY <2>2 DEF Resident
  <2>5. Kept(s, back, {})
    BY <1>9, <2>2, <2>4 DEF Kept
  <2>6. FromProbation(s, back, k)
    BY <1>9, <2>2, <2>4 DEF FromProbation
  <2> HIDE DEF out
  <2>7. StoreResult(s, out, k, kind, size, sie)
    BY <2>1, <2>3, <2>5, <2>6, StoreEntryFails
  <2> QED BY <2>7 DEF out
<1>11. CASE Fits(t, size)
  <2>1. out = Outcome(z, TRUE)
    <3> HIDE DEF z, back
    <3> QED BY <1>3, <1>11
  <2>2. /\ n \in NodeType /\ n.kind = kind /\ n.seg = "PROBATION"
        /\ n.kind # "NONE" /\ Cost(n) = 1 + size
    BY FreshIs
  <2> HIDE DEF n
  <2>3. Cost(t.node[k]) = 1 + s.node[k].size
    BY <1>8 DEF Cost
  <2> DEFINE w == t.used + size - s.node[k].size
  <2>4. t.used + Cost(n) - Cost(t.node[k]) = w
    <3> HIDE DEF z, back, out, m
    <3>1. t.used \in Nat /\ size \in Nat /\ s.node[k].size \in Nat
      BY <1>7, <1>8
    <3>2. Cost(n) = 1 + size /\ Cost(t.node[k]) = 1 + s.node[k].size
      BY <2>2, <2>3
    <3> QED BY <3>1, <3>2
  <2>5. w <= Memory
    <3>1. t.used + size <= Memory /\ Memory \in Nat
      BY <1>11, LruZoneAssumption DEF Fits
    <3> QED BY <1>7, <1>8, <3>1
  <2>6. {k} = Resident(t) \cap {k}
    BY <1>6
  <2>7. /\ Linked(Put(t, k, n), {}, 0)
        /\ Resident(Put(t, k, n)) = Resident(t) \cup {k}
    BY <1>1, <1>4, <2>2, <2>4, <2>5, <2>6, PutLinks
  <2>8. z = [prob |-> Cons(k, t.prob), prot |-> t.prot,
             node |-> [t.node EXCEPT ![k] = n], n_entries |-> t.n_entries,
             n_protected |-> t.n_protected, markers |-> t.markers, used |-> w]
    <3>1. z = [t EXCEPT !.node = [t.node EXCEPT ![k] = n], !.prob = Cons(k, t.prob),
                        !.used = w]
      OBVIOUS
    <3> HIDE DEF z, w
    <3> QED BY <1>6, <3>1 DEF Zones
  <2> HIDE DEF z, w, m
  <2>9. Recounted(z, m)
          = [prob |-> Cons(k, t.prob), prot |-> t.prot,
             node |-> [t.node EXCEPT ![k] = n], n_entries |-> t.n_entries,
             n_protected |-> t.n_protected, markers |-> t.markers + m, used |-> w]
    BY <2>8 DEF Recounted
  <2>10. t.markers + One(n.kind = "MARKER") - One(t.node[k].kind = "MARKER")
            = t.markers + m
    <3> DEFINE a == One(s.node[k].kind = "MARKER")
               b == One(kind = "MARKER")
    <3>1. a \in Nat /\ b \in Nat /\ m = b - a
      BY DEF One, m
    <3> HIDE DEF a, b
    <3>2. t.markers + b - a = t.markers + m
      BY <1>7, <3>1
    <3> QED BY <1>8, <2>2, <3>2 DEF a, b
  <2>11. Put(t, k, n) = Recounted(z, m)
    BY <1>6, <2>4, <2>9, <2>10 DEF Put
  <2>12. Linked(Recounted(z, m), {}, 0)
    BY <2>7, <2>11
  <2>13. Resident(z) = Resident(t) \cup {k}
    <3>1. z.node = Recounted(z, m).node
      BY <2>8, <2>9
    <3>2. Resident(z) = Resident(Recounted(z, m))
      BY <3>1 DEF Resident
    <3> QED BY <2>7, <2>11, <3>2
  <2>14. z.node[k] = n /\ \A j \in AllKeys : j # k => z.node[j] = t.node[j]
    BY <1>1, <1>7, <2>8
  <2>15. Kept(s, z, {k})
    BY <1>9, <2>13, <2>14 DEF Kept, Resident
  <2>16. FromProbation(s, z, k)
    BY <1>9, <2>8, <2>13 DEF FromProbation
  <2>17. z \in Zones
    <3>1. w \in Nat /\ [t.node EXCEPT ![k] = n] \in [AllKeys -> NodeType]
          /\ Cons(k, t.prob) \in Seq(AllKeys)
      <4>1. Put(t, k, n) \in Zones
        BY <2>7 DEF Linked
      <4>2. /\ Recounted(z, m).used \in Nat
            /\ Recounted(z, m).node \in [AllKeys -> NodeType]
            /\ Recounted(z, m).prob \in Seq(AllKeys)
        BY <2>11, <4>1, ZoneFields
      <4> QED BY <2>9, <4>2
    <3> QED BY <1>7, <2>8, <3>1 DEF Zones
  <2>18. m = One(kind = "MARKER") - One(s.node[k].kind = "MARKER")
    BY DEF m
  <2>19. z.node[k] = FreshNode(kind, size, sie)
    BY <2>14 DEF n
  <2> HIDE DEF out
  <2>20. StoreResult(s, out, k, kind, size, sie)
    BY <2>1, <2>12, <2>15, <2>16, <2>17, <2>18, <2>19, StoreSucceeds
  <2> QED BY <2>20 DEF out
<1> QED BY <1>10, <1>11 DEF out

(* A unit taken for a node that is not there yet, and given back. *)
LEMMA UsedLinks ==
    ASSUME NEW s, NEW extra, NEW more \in Nat, NEW w,
           Linked(s, {}, extra), w = s.used + more - extra, w <= Memory
    PROVE  LET t == [s EXCEPT !.used = w]
           IN  Linked(t, {}, more) /\ t.node = s.node /\ t.prob = s.prob
<1> DEFINE t == [s EXCEPT !.used = w]
<1>1. /\ s \in Zones /\ extra \in Nat
      /\ Distinct(s.prob) /\ ToSet(s.prob) = Segment(s, "PROBATION") \ {}
      /\ Distinct(s.prot) /\ ToSet(s.prot) = Segment(s, "PROTECTED") \ {}
      /\ s.n_entries = Cardinality(Resident(s)) /\ s.n_protected = Len(s.prot)
      /\ s.markers = Cardinality(Marked(s))
      /\ s.used = Cardinality(Units(s)) + extra
  BY DEF Linked
<1>2. Cardinality(Units(s)) \in Nat
  BY <1>1, Finite
<1>3. w = Cardinality(Units(s)) + more /\ w \in Nat
  BY <1>1, <1>2
<1>4. /\ t.prob = s.prob /\ t.prot = s.prot /\ t.node = s.node
      /\ t.n_entries = s.n_entries /\ t.n_protected = s.n_protected
      /\ t.markers = s.markers /\ t.used = w /\ t \in Zones
  BY <1>1, <1>3 DEF Zones
<1> HIDE DEF t
<1>5. /\ Resident(t) = Resident(s) /\ Marked(t) = Marked(s)
      /\ Units(t) = Units(s)
  BY <1>4, SameCounts
<1>6. /\ Segment(t, "PROBATION") = Segment(s, "PROBATION")
      /\ Segment(t, "PROTECTED") = Segment(s, "PROTECTED")
  BY <1>4, <1>5 DEF Segment
<1>7. Linked(t, {}, more)
  BY <1>1, <1>3, <1>4, <1>5, <1>6 DEF Linked
<1> QED BY <1>4, <1>7 DEF t

LEMMA ThinnedSame ==
    ASSUME NEW s, NEW t, NEW u, NEW v, Thinned(s, t, {}),
           u.node = s.node, u.prob = s.prob, v.node = t.node, v.prob = t.prob
    PROVE  Thinned(u, v, {})
<1>1. Resident(u) = Resident(s) /\ Resident(v) = Resident(t)
  BY DEF Resident
<1> QED BY <1>1 DEF Thinned

LEMMA StoredNewLinks ==
    ASSUME NEW s, Linked(s, {}, 0),
           NEW k \in AllKeys, k \notin Resident(s),
           NEW kind \in Kinds, NEW size \in Nat, NEW sie \in BOOLEAN
    PROVE  StoreResult(s, StoredNew(s, k, kind, size, sie), k, kind, size, sie)
<1> DEFINE t == AllocEvicted(s, 1)
           t1 == [t EXCEPT !.used = @ + 1]
           u == AllocEvicted(t1, size)
           v == [u EXCEPT !.used = @ - 1]
           z == Inserted(v, k, kind, size, sie)
           out == StoredNew(s, k, kind, size, sie)
<1>1. out = IF ~Fits(t, 1) THEN Outcome(t, FALSE)
            ELSE IF ~Fits(u, size) THEN Outcome(v, FALSE) ELSE Outcome(z, TRUE)
  BY DEF StoredNew
<1> HIDE DEF out
<1>2. Linked(t, {}, 0) /\ Thinned(s, t, {})
  BY AllocEvictedLinks
<1> HIDE DEF t
<1>3. CASE ~Fits(t, 1)
  <2>1. Kept(s, t, {}) /\ FromProbation(s, t, k)
    BY <1>2, ThinnedKept DEF FromProbation
  <2>2. out = Outcome(t, FALSE)
    BY <1>1, <1>3
  <2>3. StoreResult(s, out, k, kind, size, sie)
    BY <1>2, <2>1, <2>2, StoreEntryFails
  <2> QED BY <2>3 DEF out
<1>4. CASE Fits(t, 1)
  <2>1. t.used \in Nat /\ t.used + 1 <= Memory /\ Memory \in Nat
    <3>1. t \in Zones
      BY <1>2 DEF Linked
    <3> QED BY <1>4, <3>1, ZoneFields, LruZoneAssumption DEF Fits
  <2>2. Linked(t1, {}, 1) /\ t1.node = t.node /\ t1.prob = t.prob
    <3> DEFINE w == t.used + 1
               none == 0
               one == 1
    <3>1. /\ Linked(t, {}, none) /\ one \in Nat
          /\ w = t.used + one - none /\ w <= Memory
      BY <1>2, <2>1
    <3> HIDE DEF w, none, one
    <3>2. LET x == [t EXCEPT !.used = w]
          IN  Linked(x, {}, one) /\ x.node = t.node /\ x.prob = t.prob
      BY <3>1, UsedLinks
    <3> QED BY <3>2 DEF w, one
  <2> HIDE DEF t1
  <2>3. Linked(u, {}, 1) /\ Thinned(t1, u, {})
    BY <2>2, AllocEvictedLinks
  <2> HIDE DEF u
  <2>4. u.used \in Nat /\ u.used <= Memory
    <3>1. u \in Zones
      BY <2>3 DEF Linked
    <3> QED BY <2>3, <3>1, ZoneFields DEF Linked
  <2>5. Linked(v, {}, 0) /\ v.node = u.node /\ v.prob = u.prob
    <3> DEFINE w == u.used - 1
               none == 0
               one == 1
    <3>1. /\ Linked(u, {}, one) /\ none \in Nat
          /\ w = u.used + none - one /\ w <= Memory
      BY <2>1, <2>3, <2>4
    <3> HIDE DEF w, none, one
    <3>2. LET x == [u EXCEPT !.used = w]
          IN  Linked(x, {}, none) /\ x.node = u.node /\ x.prob = u.prob
      BY <3>1, UsedLinks
    <3> QED BY <3>2 DEF w, none
  <2>6. v.used = u.used - 1
    <3>1. u \in Zones
      BY <2>3 DEF Linked
    <3> QED BY <3>1 DEF Zones
  <2> HIDE DEF v
  <2>7. Thinned(s, v, {})
    <3>1. Thinned(t, v, {})
      BY <2>2, <2>3, <2>5, ThinnedSame
    <3> QED BY <1>2, <3>1, ThinnedOn
  <2>8. Kept(s, v, {}) /\ (v.prob = <<>> \/ FromProbation(s, v, k))
    BY <2>7, ThinnedKept
  <2>9. CASE ~Fits(u, size)
    <3>1. out = Outcome(v, FALSE)
      BY <1>1, <1>4, <2>9
    <3>2. FromProbation(s, v, k)
      BY <2>8 DEF FromProbation
    <3>3. StoreResult(s, out, k, kind, size, sie)
      BY <2>5, <2>8, <3>1, <3>2, StoreEntryFails
    <3> QED BY <3>3 DEF out
  <2>10. CASE Fits(u, size)
    <3>1. out = Outcome(z, TRUE)
      BY <1>1, <1>4, <2>10
    <3>2. k \notin Resident(v)
      BY <2>7 DEF Thinned
    <3>3. v.used + 1 + size <= Memory
      <4>1. u.used + size <= Memory
        BY <2>10 DEF Fits
      <4> QED BY <2>1, <2>4, <2>6, <4>1
    <3>4. /\ Linked(Recounted(z, One(kind = "MARKER")), {}, 0)
          /\ z.node = [v.node EXCEPT ![k] = FreshNode(kind, size, sie)]
          /\ z.prob = Cons(k, v.prob) /\ z.markers = v.markers
          /\ Resident(z) = Resident(v) \cup {k}
      BY <2>5, <3>2, <3>3, InsertedLinks
    <3>5. v \in Zones
      BY <2>5 DEF Linked
    <3>6. z \in Zones
      <4>1. /\ Cons(k, v.prob) \in Seq(AllKeys) /\ v.prot \in Seq(AllKeys)
            /\ v.node \in [AllKeys -> NodeType]
            /\ v.n_entries + 1 \in Nat /\ v.n_protected \in Nat
            /\ v.markers \in Nat /\ v.used + 1 + size \in Nat
        BY <3>5, ZoneFields DEF Cons
      <4>2. FreshNode(kind, size, sie) \in NodeType
        BY FreshIs
      <4>3. z = [v EXCEPT !.node[k] = FreshNode(kind, size, sie), !.prob = Cons(k, @),
                          !.n_entries = @ + 1, !.used = @ + 1 + size]
        BY DEF Inserted, FreshNode
      <4> HIDE DEF z
      <4> QED BY <3>5, <4>1, <4>2, <4>3 DEF Zones
    <3> HIDE DEF z
    <3>7. v.node \in [AllKeys -> NodeType]
      BY <3>5, ZoneFields
    <3>8. /\ z.node[k] = FreshNode(kind, size, sie)
          /\ \A j \in AllKeys : j # k => z.node[j] = v.node[j]
      BY <3>4, <3>7
    <3>9. Kept(s, z, {k})
      BY <2>8, <3>4, <3>8 DEF Kept, Resident
    <3>10. FromProbation(s, z, k)
      BY <2>7, <3>4 DEF FromProbation, Thinned
    <3> DEFINE m == One(kind = "MARKER") - One(s.node[k].kind = "MARKER")
    <3>11. m = One(kind = "MARKER")
      <4>1. s.node[k].kind = "NONE"
        BY DEF Resident
      <4>2. One(s.node[k].kind = "MARKER") = 0 /\ One(kind = "MARKER") \in Nat
        BY <4>1 DEF One
      <4> DEFINE a == One(s.node[k].kind = "MARKER")
                 b == One(kind = "MARKER")
      <4>3. a = 0 /\ b \in Nat
        BY <4>2
      <4> HIDE DEF a, b
      <4>4. b - a = b
        BY <4>3
      <4> QED BY <4>4 DEF a, b
    <3>12. Linked(Recounted(z, m), {}, 0)
      <4> DEFINE b == One(kind = "MARKER")
      <4>1. m = b /\ Linked(Recounted(z, b), {}, 0)
        BY <3>4, <3>11
      <4> HIDE DEF m, b
      <4> QED BY <4>1
    <3>13. m = One(kind = "MARKER") - One(s.node[k].kind = "MARKER")
      OBVIOUS
    <3> HIDE DEF m
    <3>14. StoreResult(s, out, k, kind, size, sie)
      BY <3>1, <3>6, <3>8, <3>9, <3>10, <3>12, <3>13, StoreSucceeds
    <3> QED BY <3>14 DEF out
  <2> QED BY <2>9, <2>10
<1> QED BY <1>3, <1>4

LEMMA StoredAsLinks ==
    ASSUME NEW s, Linked(s, {}, 0), NEW k \in AllKeys,
           NEW kind \in Kinds, NEW size \in Nat, NEW sie \in BOOLEAN
    PROVE  StoreResult(s, StoredAs(s, k, kind, size, sie), k, kind, size, sie)
<1>1. CASE k \in Resident(s)
  <2>1. StoredAs(s, k, kind, size, sie) = Refreshed(s, k, kind, size, sie)
    BY <1>1 DEF StoredAs, Resident
  <2> QED BY <1>1, <2>1, RefreshedLinks
<1>2. CASE k \notin Resident(s)
  <2>1. StoredAs(s, k, kind, size, sie) = StoredNew(s, k, kind, size, sie)
    BY <1>2 DEF StoredAs, Resident
  <2> QED BY <1>2, <2>1, StoredNewLinks
<1> QED BY <1>1, <1>2

-----------------------------------------------------------------------------
(* Purging. *)

LEMMA QueuesHold ==
    ASSUME NEW s, Linked(s, {}, 0)
    PROVE  /\ Len(s.prob) + Len(s.prot) = Cardinality(Resident(s))
           /\ ToSet(s.prob) \cup ToSet(s.prot) = Resident(s)
           /\ ToSet(s.prob) = Segment(s, "PROBATION")
           /\ ToSet(s.prot) = Segment(s, "PROTECTED")
<1>1. /\ s \in Zones
      /\ Distinct(s.prob) /\ ToSet(s.prob) = Segment(s, "PROBATION")
      /\ Distinct(s.prot) /\ ToSet(s.prot) = Segment(s, "PROTECTED")
  BY DEF Linked
<1>2. /\ s.prob \in Seq(AllKeys) /\ s.prot \in Seq(AllKeys)
      /\ s.node \in [AllKeys -> NodeType]
  BY <1>1, ZoneFields
<1>3. /\ IsFiniteSet(ToSet(s.prob)) /\ Cardinality(ToSet(s.prob)) = Len(s.prob)
      /\ IsFiniteSet(ToSet(s.prot)) /\ Cardinality(ToSet(s.prot)) = Len(s.prot)
  BY <1>1, <1>2, LenIsCardinality
<1>4. \A k \in Resident(s) : s.node[k].seg \in {"PROBATION", "PROTECTED"}
  BY <1>2 DEF Resident, NodeType
<1>5. ToSet(s.prob) \cap ToSet(s.prot) = {}
  BY <1>1 DEF Segment
<1>6. ToSet(s.prob) \cup ToSet(s.prot) = Resident(s)
  BY <1>1, <1>4 DEF Segment
<1>7. Cardinality(ToSet(s.prob) \cup ToSet(s.prot)) = Len(s.prob) + Len(s.prot)
  BY ZenonT(60), <1>3, <1>5, DisjointCounts
<1> QED BY <1>1, <1>6, <1>7

LEMMA PurgeQueueIs ==
    ASSUME NEW s, Linked(s, {}, 0)
    PROVE  /\ Len(PurgeQueue(s)) = Cardinality(Resident(s))
           /\ PurgeQueue(s) = <<>> <=> Cardinality(Resident(s)) = 0
           /\ PurgeQueue(s) # <<>> => Head(PurgeQueue(s)) \in Resident(s)
           /\ PurgeLeftovers(s) <=> Resident(s) # {}
<1> DEFINE q == PurgeQueue(s)
<1>1. s \in Zones
  BY DEF Linked
<1>2. s.prob \in Seq(AllKeys) /\ s.prot \in Seq(AllKeys)
  BY <1>1, ZoneFields
<1>3. /\ Len(s.prob) + Len(s.prot) = Cardinality(Resident(s))
      /\ ToSet(s.prob) \cup ToSet(s.prot) = Resident(s)
  BY QueuesHold
<1>4. /\ Len(q) = Len(s.prob) + Len(s.prot)
      /\ q = <<>> <=> s.prob = <<>> /\ s.prot = <<>>
      /\ q # <<>> => Head(q) \in ToSet(s.prob) \cup ToSet(s.prot)
  BY ZenonT(60), <1>2, ConcatIs DEF PurgeQueue
<1>5. q = <<>> <=> Cardinality(Resident(s)) = 0
  <2>1. /\ s.prob = <<>> <=> Len(s.prob) = 0
        /\ s.prot = <<>> <=> Len(s.prot) = 0
        /\ Len(s.prob) \in Nat /\ Len(s.prot) \in Nat
    BY <1>2
  <2> DEFINE a == Len(s.prob)
             b == Len(s.prot)
             c == Cardinality(Resident(s))
  <2>2. a + b = c /\ a \in Nat /\ b \in Nat
    BY <1>3, <2>1
  <2>3. q = <<>> <=> a = 0 /\ b = 0
    BY <1>4, <2>1
  <2>4. c = 0 <=> a = 0 /\ b = 0
    <3> HIDE DEF a, b, c
    <3> QED BY <2>2
  <2> QED BY <2>3, <2>4
<1> HIDE DEF q
<1>6. q # <<>> => Head(q) \in Resident(s)
  BY <1>3, <1>4
<1>7. PurgeLeftovers(s) <=> Resident(s) # {}
  <2>1. Resident(s) = {} <=> Cardinality(Resident(s)) = 0
    BY <1>1, Finite, FS_EmptySet
  <2>2. PurgeLeftovers(s) <=> q # <<>>
    BY <1>4 DEF PurgeLeftovers
  <2> QED BY <1>5, <2>1, <2>2
<1> QED BY <1>3, <1>4, <1>5, <1>6, <1>7 DEF q

LEMMA PurgedLinks ==
    ASSUME Linked(sh, {}, 0),
           Batch \in Nat, Batch <= Cardinality(Resident(sh))
    PROVE  /\ Linked(Purged, {}, 0) /\ Kept(sh, Purged, {})
           /\ Cardinality(Resident(Purged)) = Cardinality(Resident(sh)) - Batch
<1> DEFINE b == Batch
           c == Cardinality(Resident(sh))
           dropHead ==
               [t \in Zones |->
                   IF PurgeQueue(t) = <<>> THEN t ELSE DropNode(t, Head(PurgeQueue(t)))]
           J == [i \in Nat |->
                    {t \in Zones : /\ Linked(t, {}, 0) /\ Kept(sh, t, {})
                                   /\ Cardinality(Resident(t)) = c - i}]
<1>1. sh \in Zones
  BY DEF Linked
<1>2. c \in Nat
  BY <1>1, Finite
<1>3. sh \in J[0]
  BY <1>1, <1>2 DEF Kept
<1> HIDE DEF c
<1>4. ASSUME NEW i \in 0..(b - 1), NEW t \in J[i] PROVE dropHead[t] \in J[i + 1]
  <2> DEFINE k == Head(PurgeQueue(t))
             z == DropNode(t, k)
  <2>1. /\ t \in Zones /\ Linked(t, {}, 0) /\ Kept(sh, t, {})
        /\ Cardinality(Resident(t)) = c - i
    OBVIOUS
  <2>2. i \in Nat /\ i + 1 \in Nat /\ c - i # 0
    BY <1>2 DEF c
  <2>3. PurgeQueue(t) # <<>> /\ k \in Resident(t)
    BY <2>1, <2>2, PurgeQueueIs
  <2>4. dropHead[t] = z
    BY <2>1, <2>3
  <2> HIDE DEF dropHead, k
  <2>5. /\ Linked(z, {}, 0) /\ z.node = [t.node EXCEPT ![k] = Gone]
        /\ Resident(z) = Resident(t) \ {k}
    <3>1. k \in Resident(t) \ {}
      BY <2>3
    <3> QED BY <2>1, <3>1, DropLinks
  <2> HIDE DEF z
  <2>6. z \in Zones
    BY <2>5 DEF Linked
  <2>7. t.node \in [AllKeys -> NodeType]
    BY <2>1, ZoneFields
  <2>8. \A j \in AllKeys : j # k => z.node[j] = t.node[j]
    BY <2>5, <2>7
  <2>9. Kept(sh, z, {})
    BY <2>1, <2>5, <2>8 DEF Kept, Resident
  <2>10. Cardinality(Resident(z)) = c - (i + 1)
    <3>1. /\ IsFiniteSet(Resident(t)) /\ Cardinality(Resident(t)) \in Nat
      BY <2>1, Finite
    <3>2. Cardinality(Resident(t) \ {k})
            = IF k \in Resident(t) THEN Cardinality(Resident(t)) - 1
                                   ELSE Cardinality(Resident(t))
      BY <3>1, FS_RemoveElement
    <3> QED BY <1>2, <2>1, <2>2, <2>3, <2>5, <3>1, <3>2
  <2> QED BY <2>2, <2>4, <2>5, <2>6, <2>9, <2>10
<1>5. Purged = Iterated(dropHead, b, sh)
  BY DEF Purged
<1>6. b \in Nat
  OBVIOUS
<1> HIDE DEF b, dropHead, J
<1>7. Purged \in J[b]
  BY <1>3, <1>4, <1>5, <1>6, IteratedThrough
<1> QED BY <1>6, <1>7 DEF J, b, c

LEMMA MinIs ==
    ASSUME NEW S \in SUBSET Nat, S # {}
    PROVE  Min(S) \in S /\ \A y \in S : Min(S) <= y
<1>1. \E x \in S : \A y \in S : x <= y
  BY NatLeast
<1> QED BY <1>1 DEF Min

-----------------------------------------------------------------------------
(* The inductive invariant. *)

(* Markers have keys of their own, so that no page is ever counted as one.  *)
MarkersApart == \A k \in PageKeys : sh.node[k].kind # "MARKER"

(* A node that may be promoted was hit since it was stored, a protected one *)
(* in two different seconds.                                                *)
HitsEarned ==
    \A k \in Resident(sh) :
        /\ sh.node[k].promotable => hits[k] >= 1
        /\ sh.node[k].seg = "PROTECTED" => sh.node[k].kind = "ENTRY" /\ hits[k] = 2

(* The budget of a purge nobody refilled covers what is there, and the      *)
(* result says what there is.                                               *)
BudgetCovers ==
    /\ old \subseteq Resident(sh)
    /\ purge.pc = "run" /\ ~refilled =>
            Cardinality(Resident(sh)) <= purge.remaining
    /\ PurgeTellsTruth

ZoneInv ==
    /\ ZoneTypeOK /\ Linked(sh, {}, 0) /\ MarkersApart /\ HitsEarned /\ BudgetCovers

LEMMA ZoneInvInit == ASSUME ZoneInit PROVE ZoneInv
<1>1. /\ sh.prob = <<>> /\ sh.prot = <<>> /\ sh.node = [k \in AllKeys |-> Gone]
      /\ sh.n_entries = 0 /\ sh.n_protected = 0 /\ sh.markers = 0 /\ sh.used = 0
  BY DEF ZoneInit
<1>2. sh \in Zones
  BY GoneIs DEF ZoneInit, Zones
<1>3. \A k \in AllKeys : sh.node[k] = Gone
  BY <1>1
<1>4. Resident(sh) = {} /\ Marked(sh) = {}
  BY <1>3, GoneIs DEF Resident, Marked
<1>5. Units(sh) = {}
  BY <1>4 DEF Units
<1>6. Cardinality({}) = 0 /\ Memory \in Nat
  BY FS_EmptySet, LruZoneAssumption
<1>7. Linked(sh, {}, 0)
  <2>1. Distinct(<<>>) /\ ToSet(<<>>) = {} /\ Len(<<>>) = 0
    BY DEF Distinct, ToSet
  <2>2. Segment(sh, "PROBATION") = {} /\ Segment(sh, "PROTECTED") = {}
    BY <1>4 DEF Segment
  <2>3. /\ Distinct(sh.prob) /\ ToSet(sh.prob) = Segment(sh, "PROBATION") \ {}
        /\ Distinct(sh.prot) /\ ToSet(sh.prot) = Segment(sh, "PROTECTED") \ {}
    BY <1>1, <2>1, <2>2
  <2>4. /\ sh.n_entries = Cardinality(Resident(sh))
        /\ sh.markers = Cardinality(Marked(sh))
    BY <1>1, <1>4, <1>6
  <2>5. sh.used = Cardinality(Units(sh)) + 0 /\ sh.used <= Memory
    BY <1>1, <1>5, <1>6
  <2>6. sh.n_protected = Len(sh.prot)
    BY <1>1, <2>1
  <2> QED BY <1>2, <2>3, <2>4, <2>5, <2>6 DEF Linked
<1>8. ZoneTypeOK
  <2>1. purge \in [pc : {"idle", "run", "done"}, remaining : Nat, rc : {"OK", "AGAIN"}]
    BY DEF ZoneInit, NoPurge
  <2>2. hits \in [AllKeys -> 0..2]
    BY DEF ZoneInit
  <2>3. /\ pct \in Pcts /\ outage \in BOOLEAN /\ refilled \in BOOLEAN
        /\ recent \in SUBSET AllKeys /\ old \in SUBSET AllKeys
    BY DEF ZoneInit
  <2> QED BY <1>2, <2>1, <2>2, <2>3 DEF ZoneTypeOK
<1>9. MarkersApart
  BY <1>3, GoneIs DEF MarkersApart, AllKeys
<1>10. HitsEarned
  BY <1>4 DEF HitsEarned
<1>11. BudgetCovers
  BY <1>4 DEF ZoneInit, NoPurge, BudgetCovers, PurgeTellsTruth, PurgeOkIsComplete,
              PurgeDrainsQuietZone
<1> QED BY <1>7, <1>8, <1>9, <1>10, <1>11 DEF ZoneInv

(* A step to the zone z, which stored at k or stored nothing.               *)
LEMMA TrackIs ==
    ASSUME ZoneInv, NEW z, NEW k,
           NEW stored \in BOOLEAN, Track(z, k, stored),
           Linked(z, {}, 0), Kept(sh, z, IF stored THEN {k} ELSE {}),
           stored => /\ k \in AllKeys
                     /\ z.node[k].promotable = FALSE
                     /\ z.node[k].seg = "PROBATION"
                     /\ k \in PageKeys => z.node[k].kind # "MARKER"
    PROVE  /\ sh' = z /\ sh' \in Zones /\ recent' \in SUBSET AllKeys
           /\ old' \in SUBSET AllKeys /\ refilled' \in BOOLEAN
           /\ hits' \in [AllKeys -> 0..2]
           /\ Linked(sh, {}, 0)' /\ MarkersApart' /\ HitsEarned'
           /\ old' \subseteq Resident(z) /\ old' \subseteq old
           /\ ~refilled' => Resident(z) \subseteq Resident(sh) /\ ~refilled
<1> DEFINE K == IF stored THEN {k} ELSE {}
<1>1. /\ ZoneTypeOK /\ MarkersApart /\ HitsEarned /\ Linked(sh, {}, 0)
  BY DEF ZoneInv
<1>2. z \in Zones /\ sh \in Zones
  BY <1>1 DEF Linked
<1>3. /\ sh' = z
      /\ recent' = (recent \cap Resident(z)) \cup K
      /\ hits' = [j \in AllKeys |->
                    IF j \notin Resident(z) \/ (stored /\ j = k) THEN 0 ELSE hits[j]]
      /\ old' = (old \cap Resident(z)) \ K
      /\ refilled' = (refilled \/ stored)
  BY DEF Track
<1>4. \A j \in Resident(z) \ K :
        /\ j \in Resident(sh)
        /\ z.node[j].kind = sh.node[j].kind /\ z.node[j].seg = sh.node[j].seg
        /\ z.node[j].promotable = sh.node[j].promotable
  BY DEF Kept
<1>5. hits' \in [AllKeys -> 0..2]
  BY <1>1, <1>3 DEF ZoneTypeOK
<1>6. recent' \in SUBSET AllKeys /\ old' \in SUBSET AllKeys
  BY <1>1, <1>3 DEF ZoneTypeOK
<1>7. MarkersApart'
  <2> SUFFICES ASSUME NEW j \in PageKeys PROVE z.node[j].kind # "MARKER"
    BY <1>3 DEF MarkersApart
  <2>1. j \in AllKeys /\ sh.node[j].kind # "MARKER"
    BY <1>1 DEF MarkersApart, AllKeys
  <2>2. CASE j \in Resident(z) \ K
    BY <1>4, <2>1, <2>2
  <2>3. CASE j \notin Resident(z)
    BY <2>1, <2>3 DEF Resident
  <2>4. CASE j \in K
    BY <2>4
  <2> QED BY <2>2, <2>3, <2>4
<1>8. HitsEarned'
  <2> SUFFICES ASSUME NEW j \in Resident(z)
               PROVE  /\ z.node[j].promotable => hits'[j] >= 1
                      /\ z.node[j].seg = "PROTECTED" =>
                            z.node[j].kind = "ENTRY" /\ hits'[j] = 2
    BY <1>3 DEF HitsEarned
  <2>1. CASE j \in K
    BY <2>1
  <2>2. CASE j \notin K
    <3>1. j \in AllKeys /\ hits'[j] = hits[j]
      BY <1>3, <2>2 DEF Resident
    <3> QED BY <1>1, <1>4, <2>2, <3>1 DEF HitsEarned
  <2> QED BY <2>1, <2>2
<1>9. ~refilled' => Resident(z) \subseteq Resident(sh) /\ ~refilled
  BY <1>3, <1>4
<1>10. Linked(sh, {}, 0)' /\ refilled' \in BOOLEAN
  BY <1>3
<1> QED BY <1>2, <1>3, <1>5, <1>6, <1>7, <1>8, <1>9, <1>10

LEMMA TrackKeeps ==
    ASSUME ZoneInv, NEW z, NEW k \in AllKeys,
           NEW stored \in BOOLEAN, Track(z, k, stored),
           UNCHANGED <<pct, outage, purge>>,
           Linked(z, {}, 0), Kept(sh, z, IF stored THEN {k} ELSE {}),
           stored => /\ z.node[k].promotable = FALSE
                     /\ z.node[k].seg = "PROBATION"
                     /\ k \in PageKeys => z.node[k].kind # "MARKER"
    PROVE  ZoneInv'
<1>1. /\ sh' = z /\ sh' \in Zones /\ recent' \in SUBSET AllKeys
      /\ old' \in SUBSET AllKeys /\ refilled' \in BOOLEAN
      /\ hits' \in [AllKeys -> 0..2]
      /\ Linked(sh, {}, 0)' /\ MarkersApart' /\ HitsEarned'
      /\ old' \subseteq Resident(z) /\ old' \subseteq old
      /\ ~refilled' => Resident(z) \subseteq Resident(sh) /\ ~refilled
  BY TrackIs
<1>2. ZoneTypeOK /\ BudgetCovers /\ sh \in Zones
  BY DEF ZoneInv, ZoneTypeOK
<1>3. pct' = pct /\ outage' = outage /\ purge' = purge
  OBVIOUS
<1>4. ZoneTypeOK'
  BY <1>1, <1>2, <1>3 DEF ZoneTypeOK
<1>5. BudgetCovers'
  <2>1. /\ IsFiniteSet(Resident(sh)) /\ Cardinality(Resident(sh)) \in Nat
        /\ Cardinality(Resident(z)) \in Nat
    BY <1>1, <1>2, Finite
  <2>2. ~refilled' => Cardinality(Resident(z)) <= Cardinality(Resident(sh))
    BY <1>1, <2>1, FS_Subset
  <2>3. purge.remaining \in Nat
    BY <1>2 DEF ZoneTypeOK
  <2>4. purge'.pc = "run" /\ ~refilled' =>
            Cardinality(Resident(sh')) <= purge'.remaining
    BY <1>1, <1>2, <1>3, <2>1, <2>2, <2>3 DEF BudgetCovers
  <2>5. PurgeOkIsComplete'
    BY <1>1, <1>2, <1>3 DEF BudgetCovers, PurgeTellsTruth, PurgeOkIsComplete
  <2>6. PurgeDrainsQuietZone'
    BY <1>1, <1>2, <1>3 DEF BudgetCovers, PurgeTellsTruth, PurgeDrainsQuietZone
  <2> QED BY <1>1, <2>4, <2>5, <2>6 DEF BudgetCovers, PurgeTellsTruth
<1> QED BY <1>1, <1>4, <1>5 DEF ZoneInv

-----------------------------------------------------------------------------
(* The steps that make room. *)

(* What ProbationFirst asks of them. *)
TakenFromProbation ==
    (\E k \in Resident(sh) \ Resident(sh') : sh.node[k].seg = "PROTECTED") =>
        \A j \in Resident(sh) \cap Resident(sh') :
            sh.node[j].seg = "PROBATION" => j = Head(sh'.prob)

LEMMA TakenIs ==
    ASSUME NEW z, NEW k, sh' = z,
           Linked(z, {}, 0), FromProbation(sh, z, k), Kept(sh, z, {k}),
           k \in Resident(sh) \cap Resident(z) /\ sh.node[k].seg = "PROBATION"
                => z.node[k].seg = "PROBATION"
    PROVE  TakenFromProbation
<1> SUFFICES ASSUME NEW i \in Resident(sh) \ Resident(z), sh.node[i].seg = "PROTECTED",
                    NEW j \in Resident(sh) \cap Resident(z),
                    sh.node[j].seg = "PROBATION"
             PROVE  j = Head(z.prob)
  BY DEF TakenFromProbation
<1>1. z.prob = <<>> \/ z.prob = Cons(k, <<>>)
  BY DEF FromProbation
<1>2. z.node[j].seg = "PROBATION"
  BY DEF Kept
<1>3. j \in ToSet(z.prob)
  BY <1>2, QueuesHold DEF Segment
<1>4. z.prob = <<k>>
  BY <1>1, <1>3 DEF ToSet, Cons
<1> QED BY <1>3, <1>4 DEF ToSet

LEMMA StoreEntryKeeps ==
    ASSUME ZoneInv, NEW k \in PageKeys, NEW size \in Sizes,
           NEW sie \in BOOLEAN, StoreBody(k, size, sie)
    PROVE  ZoneInv' /\ TakenFromProbation
<1> DEFINE out == StoredAs(sh, k, "ENTRY", size, sie)
           z == out.zone
           n == FreshNode("ENTRY", size, sie)
           m == One("ENTRY" = "MARKER") - One(sh.node[k].kind = "MARKER")
<1>1. k \in AllKeys /\ size \in Nat /\ "ENTRY" \in Kinds /\ Linked(sh, {}, 0)
      /\ sh.node[k].kind # "MARKER"
  BY LruZoneAssumption DEF AllKeys, Kinds, ZoneInv, MarkersApart
<1>2. StoreResult(sh, out, k, "ENTRY", size, sie)
  BY <1>1, StoredAsLinks
<1>3. Track(z, k, out.ok) /\ UNCHANGED <<pct, outage, purge>>
  BY DEF StoreBody
<1> HIDE DEF out
<1>4. out.ok \in BOOLEAN /\ FromProbation(sh, z, k)
  BY <1>2 DEF StoreResult
<1>5. CASE ~out.ok
  <2>1. Linked(z, {}, 0) /\ Kept(sh, z, {})
    BY <1>2, <1>5 DEF StoreResult
  <2>2. out.ok = FALSE
    BY <1>4, <1>5
  <2>3. Kept(sh, z, IF out.ok THEN {k} ELSE {})
    BY <2>1, <2>2
  <2> HIDE DEF z
  <2>4. ZoneInv'
    BY <1>1, <1>3, <1>4, <1>5, <2>1, <2>3, TrackKeeps
  <2>5. Kept(sh, z, {k}) /\ (k \in Resident(z) => z.node[k].seg = sh.node[k].seg)
    BY <2>1 DEF Kept
  <2>6. sh' = z
    BY <1>3 DEF Track
  <2>7. TakenFromProbation
    BY <1>4, <2>1, <2>5, <2>6, TakenIs
  <2> QED BY <2>4, <2>7
<1>6. CASE out.ok
  <2>1. /\ Linked(Recounted(z, m), {}, 0) /\ z.node[k] = n
        /\ z \in Zones /\ Kept(sh, z, {k})
    BY <1>2, <1>6 DEF StoreResult
  <2>2. n.promotable = FALSE /\ n.seg = "PROBATION" /\ n.kind = "ENTRY"
    BY ZenonT(30), <1>1, FreshIs
  <2>3. Linked(z, {}, 0)
    <3>1. One("ENTRY" = "MARKER") = 0 /\ One(sh.node[k].kind = "MARKER") = 0
      BY <1>1 DEF One
    <3>2. m = 0
      BY <3>1
    <3> HIDE DEF m, z
    <3>3. Recounted(z, m) = z
      BY <2>1, <3>2, RecountedIs
    <3> QED BY <2>1, <3>3
  <2> HIDE DEF z, n, m
  <2>4. out.ok = TRUE
    BY <1>4, <1>6
  <2>5. Kept(sh, z, IF out.ok THEN {k} ELSE {})
    BY <2>1, <2>4
  <2>6. /\ z.node[k].promotable = FALSE /\ z.node[k].seg = "PROBATION"
        /\ z.node[k].kind # "MARKER"
    BY <2>1, <2>2
  <2>7. ZoneInv'
    BY <1>1, <1>3, <1>4, <2>3, <2>5, <2>6, TrackKeeps
  <2>8. sh' = z
    BY <1>3 DEF Track
  <2>9. TakenFromProbation
    BY <1>4, <2>1, <2>3, <2>6, <2>8, TakenIs
  <2> QED BY <2>7, <2>9
<1> QED BY <1>5, <1>6

LEMMA StoreMarkerKeeps ==
    ASSUME ZoneInv, NEW k \in MarkerKeys, StoreMarker(k)
    PROVE  ZoneInv' /\ TakenFromProbation
<1> DEFINE was == sh.node[k].kind = "MARKER"
           out == StoredAs(sh, k, "MARKER", MarkerSize, FALSE)
           z == out.zone
           s == IF out.ok /\ ~was THEN [z EXCEPT !.markers = @ + 1] ELSE z
           n == FreshNode("MARKER", MarkerSize, FALSE)
           m == One("MARKER" = "MARKER") - One(sh.node[k].kind = "MARKER")
<1>1. k \in AllKeys /\ "MARKER" \in Kinds /\ Linked(sh, {}, 0) /\ k \notin PageKeys
  BY LruZoneAssumption DEF AllKeys, Kinds, ZoneInv
<1>2. MarkerSize \in Nat
  BY MinIs, LruZoneAssumption DEF MarkerSize
<1>3. StoreResult(sh, out, k, "MARKER", MarkerSize, FALSE)
  BY <1>1, <1>2, StoredAsLinks
<1>4. Track(s, k, out.ok) /\ UNCHANGED <<pct, outage, purge>>
  BY DEF StoreMarker
<1> HIDE DEF out
<1>5. out.ok \in BOOLEAN /\ FromProbation(sh, z, k)
  BY <1>3 DEF StoreResult
<1>6. CASE ~out.ok
  <2>1. Linked(z, {}, 0) /\ Kept(sh, z, {})
    BY <1>3, <1>6 DEF StoreResult
  <2>2. out.ok = FALSE /\ s = z
    BY <1>5, <1>6
  <2> HIDE DEF s, z
  <2>3. Kept(sh, z, IF out.ok THEN {k} ELSE {}) /\ Track(z, k, out.ok)
    BY <1>4, <2>1, <2>2
  <2>4. ZoneInv'
    BY <1>1, <1>4, <1>5, <1>6, <2>1, <2>3, TrackKeeps
  <2>5. Kept(sh, z, {k}) /\ (k \in Resident(z) => z.node[k].seg = sh.node[k].seg)
    BY <2>1 DEF Kept
  <2>6. sh' = z
    BY <2>3 DEF Track
  <2>7. TakenFromProbation
    BY <1>5, <2>1, <2>5, <2>6, TakenIs
  <2> QED BY <2>4, <2>7
<1>7. CASE out.ok
  <2>1. /\ Linked(Recounted(z, m), {}, 0) /\ z.node[k] = n
        /\ z \in Zones /\ Kept(sh, z, {k})
    BY <1>3, <1>7 DEF StoreResult
  <2>2. n.promotable = FALSE /\ n.seg = "PROBATION"
    BY <1>1, <1>2, FreshIs
  <2>3. Recounted(z, m) = s
    <3>1. One("MARKER" = "MARKER") = 1
      BY DEF One
    <3>2. CASE was
      <4>1. One(sh.node[k].kind = "MARKER") = 1
        BY <3>2 DEF One
      <4>2. m = 0 /\ s = z
        BY <3>1, <3>2, <4>1
      <4> HIDE DEF m, z, s
      <4> QED BY <2>1, <4>2, RecountedIs
    <3>3. CASE ~was
      <4>1. One(sh.node[k].kind = "MARKER") = 0
        BY <3>3 DEF One
      <4>2. m = 1 /\ s = [z EXCEPT !.markers = @ + 1]
        BY <1>7, <3>1, <3>3, <4>1
      <4> HIDE DEF m, z, s
      <4> QED BY <4>2 DEF Recounted
    <3> QED BY <3>2, <3>3
  <2>4. s.node = z.node /\ s.prob = z.prob
    BY <2>1 DEF Zones
  <2> HIDE DEF z, n, m, s
  <2>5. Linked(s, {}, 0)
    BY <2>1, <2>3
  <2>6. Resident(s) = Resident(z)
    BY <2>4 DEF Resident
  <2>7. out.ok = TRUE
    BY <1>5, <1>7
  <2>8. Kept(sh, s, {k}) /\ Kept(sh, s, IF out.ok THEN {k} ELSE {})
    BY <2>1, <2>4, <2>6, <2>7 DEF Kept
  <2>9. s.node[k].promotable = FALSE /\ s.node[k].seg = "PROBATION"
    BY <2>1, <2>2, <2>4
  <2>10. ZoneInv'
    BY <1>1, <1>4, <1>5, <2>5, <2>8, <2>9, TrackKeeps
  <2>11. sh' = s
    BY <1>4 DEF Track
  <2>12. FromProbation(sh, s, k)
    BY <1>5, <2>4, <2>6 DEF FromProbation
  <2>13. TakenFromProbation
    BY <2>5, <2>8, <2>9, <2>11, <2>12, TakenIs
  <2> QED BY <2>10, <2>13
<1> QED BY <1>6, <1>7

LEMMA CountKeeps ==
    ASSUME ZoneInv, NEW k \in PageKeys, Count(k)
    PROVE  ZoneInv' /\ TakenFromProbation
<1> DEFINE s == AllocEvicted(sh, 1)
           z == Inserted(s, k, "COUNTER", 0, FALSE)
           n == FreshNode("COUNTER", 0, FALSE)
<1>1. k \in AllKeys /\ "COUNTER" \in Kinds /\ Linked(sh, {}, 0)
  BY DEF AllKeys, Kinds, ZoneInv
<1>2. /\ sh.node[k].kind = "NONE" /\ UNCHANGED <<pct, outage, purge>>
      /\ IF Fits(s, 1) THEN Track(z, k, TRUE) ELSE Track(s, k, FALSE)
  BY DEF Count
<1>3. Linked(s, {}, 0) /\ Thinned(sh, s, {})
  BY <1>1, AllocEvictedLinks
<1> HIDE DEF s
<1>4. /\ Kept(sh, s, {})
      /\ s.prob = <<>> \/ FromProbation(sh, s, k)
  BY <1>3, ThinnedKept
<1>5. k \notin Resident(sh) /\ k \notin Resident(s)
  BY <1>2, <1>4 DEF Resident, Kept
<1>6. CASE ~Fits(s, 1)
  <2>1. Track(s, k, FALSE) /\ Kept(sh, s, IF FALSE THEN {k} ELSE {})
    BY <1>2, <1>4, <1>6
  <2>2. ZoneInv'
    BY <1>1, <1>2, <1>3, <2>1, TrackKeeps
  <2>3. sh' = s /\ FromProbation(sh, s, k) /\ Kept(sh, s, {k})
    BY <1>4, <2>1 DEF Track, FromProbation, Kept
  <2>4. TakenFromProbation
    BY <1>3, <1>5, <2>3, TakenIs
  <2> QED BY <2>2, <2>4
<1>7. CASE Fits(s, 1)
  <2>1. s \in Zones /\ s.used + 1 + 0 <= Memory
    <3>1. s \in Zones
      BY <1>3 DEF Linked
    <3> QED BY <1>7, <3>1, ZoneFields DEF Fits
  <2>2. /\ Linked(Recounted(z, One("COUNTER" = "MARKER")), {}, 0)
        /\ z.node = [s.node EXCEPT ![k] = n]
        /\ z.prob = Cons(k, s.prob) /\ z.markers = s.markers
        /\ Resident(z) = Resident(s) \cup {k}
    <3> DEFINE kind == "COUNTER"
               size == 0
               sie == FALSE
    <3>1. /\ kind \in Kinds /\ size \in Nat /\ sie \in BOOLEAN
          /\ s.used + 1 + size <= Memory
      BY <1>1, <2>1
    <3> HIDE DEF z, n, kind, size, sie
    <3>2. LET x == Inserted(s, k, kind, size, sie)
          IN  /\ Linked(Recounted(x, One(kind = "MARKER")), {}, 0)
              /\ x.node = [s.node EXCEPT ![k] = FreshNode(kind, size, sie)]
              /\ x.prob = Cons(k, s.prob) /\ x.markers = s.markers
              /\ Resident(x) = Resident(s) \cup {k}
      BY <1>1, <1>3, <1>5, <3>1, InsertedLinks
    <3> QED BY <3>2 DEF z, n, kind, size, sie
  <2>3. n.promotable = FALSE /\ n.seg = "PROBATION" /\ n.kind = "COUNTER"
    BY <1>1, FreshIs
  <2>4. Recounted(z, One("COUNTER" = "MARKER")) = z
    <3>1. One("COUNTER" = "MARKER") = 0
      BY DEF One
    <3>2. s.markers + 0 = s.markers
      BY <2>1, ZoneFields
    <3>3. z = [z EXCEPT !.markers = z.markers]
      BY <2>1 DEF Inserted, Zones
    <3> HIDE DEF z
    <3> QED BY <2>2, <3>1, <3>2, <3>3 DEF Recounted
  <2>5. s.node \in [AllKeys -> NodeType]
    BY <2>1, ZoneFields
  <2> HIDE DEF z, n
  <2>6. z.node[k] = n /\ \A j \in AllKeys : j # k => z.node[j] = s.node[j]
    BY <1>1, <2>2, <2>5
  <2>7. Linked(z, {}, 0)
    BY <2>2, <2>4
  <2>8. Kept(sh, z, {k}) /\ Kept(sh, z, IF TRUE THEN {k} ELSE {})
    BY <1>4, <2>2, <2>6 DEF Kept, Resident
  <2>9. /\ z.node[k].promotable = FALSE /\ z.node[k].seg = "PROBATION"
        /\ z.node[k].kind # "MARKER"
    BY <2>3, <2>6
  <2>10. Track(z, k, TRUE) /\ TRUE \in BOOLEAN
    BY <1>2, <1>7
  <2>11. ZoneInv'
    BY <1>1, <1>2, <2>7, <2>8, <2>9, <2>10, TrackKeeps
  <2>12. sh' = z
    BY <2>10 DEF Track
  <2>13. FromProbation(sh, z, k)
    BY <1>3, <2>2 DEF FromProbation, Thinned
  <2>14. TakenFromProbation
    BY <2>7, <2>8, <2>9, <2>12, <2>13, TakenIs
  <2> QED BY <2>11, <2>14
<1> QED BY <1>6, <1>7

-----------------------------------------------------------------------------
(* The other steps. *)

LEMMA PurgeKeyKeeps ==
    ASSUME ZoneInv, NEW k \in AllKeys, PurgeKey(k)
    PROVE  ZoneInv'
<1> DEFINE z == DropNode(sh, k)
<1>1. Linked(sh, {}, 0) /\ k \in Resident(sh) \ {}
  BY DEF ZoneInv, PurgeKey, Resident
<1>2. Track(z, k, FALSE) /\ UNCHANGED <<pct, outage, purge>>
  BY DEF PurgeKey
<1>3. /\ Linked(z, {}, 0) /\ z.node = [sh.node EXCEPT ![k] = Gone]
      /\ Resident(z) = Resident(sh) \ {k}
  BY <1>1, DropLinks
<1> HIDE DEF z
<1>4. sh.node \in [AllKeys -> NodeType]
  BY <1>1, ZoneFields DEF Linked
<1>5. \A j \in AllKeys : j # k => z.node[j] = sh.node[j]
  BY <1>3, <1>4
<1>6. Kept(sh, z, IF FALSE THEN {k} ELSE {})
  BY <1>3, <1>5 DEF Kept, Resident
<1> QED BY <1>2, <1>3, <1>6, TrackKeeps

(* A purge and its histories do not see what a touch changes.               *)
LEMMA BudgetKept ==
    ASSUME ZoneInv, Resident(sh') = Resident(sh), UNCHANGED <<purge, old, refilled>>
    PROVE  BudgetCovers'
BY DEF ZoneInv, BudgetCovers, PurgeTellsTruth, PurgeOkIsComplete, PurgeDrainsQuietZone

LEMMA TouchKeeps ==
    ASSUME ZoneInv, NEW k \in AllKeys, Touch(k)
    PROVE  ZoneInv'
<1> DEFINE p == IF sh.node[k].kind = "ENTRY" THEN pct ELSE 0
           z == Touched(sh, k, p)
<1>1. /\ ZoneTypeOK /\ MarkersApart /\ HitsEarned /\ Linked(sh, {}, 0)
  BY DEF ZoneInv
<1>2. /\ sh.node[k].kind \in {"ENTRY", "COUNTER"} /\ sh' = z
      /\ recent' = recent \cup {k}
      /\ hits' = [hits EXCEPT ![k] = IF @ < 2 THEN @ + 1 ELSE @]
      /\ UNCHANGED <<pct, outage, purge, old, refilled>>
  BY DEF Touch
<1>3. p \in Nat /\ (p > 0 => sh.node[k].kind = "ENTRY")
  <2>1. pct \in Nat
    BY <1>1, LruZoneAssumption DEF ZoneTypeOK
  <2>2. CASE sh.node[k].kind = "ENTRY"
    BY <2>1, <2>2
  <2>3. CASE sh.node[k].kind # "ENTRY"
    BY <2>3
  <2> QED BY <2>2, <2>3
<1>4. k \in Resident(sh)
  BY <1>2 DEF Resident
<1> HIDE DEF p
<1>5. /\ Linked(z, {}, 0) /\ Reordered(sh, z, {k})
      /\ z.node[k].seg = "PROTECTED" =>
            /\ p > 0
            /\ \/ sh.node[k].kind = "ENTRY" /\ sh.node[k].promotable
               \/ sh.node[k].seg = "PROTECTED"
  BY <1>1, <1>3, <1>4, TouchedLinks
<1> HIDE DEF z
<1>6. Resident(sh') = Resident(sh)
  BY <1>2, <1>5 DEF Reordered, Resident
<1>7. /\ hits \in [AllKeys -> 0..2] /\ hits' \in [AllKeys -> 0..2]
      /\ hits[k] \in 0..2
      /\ hits'[k] = IF hits[k] < 2 THEN hits[k] + 1 ELSE hits[k]
      /\ \A j \in AllKeys : j # k => hits'[j] = hits[j]
  BY <1>1, <1>2 DEF ZoneTypeOK
<1>8. ZoneTypeOK'
  BY <1>1, <1>2, <1>5, <1>7 DEF ZoneTypeOK, Linked
<1>9. Linked(sh, {}, 0)'
  BY <1>2, <1>5
<1>10. MarkersApart'
  BY <1>1, <1>2, <1>5 DEF MarkersApart, Reordered, AllKeys
<1>11. HitsEarned'
  <2> SUFFICES ASSUME NEW j \in Resident(sh)
               PROVE  /\ z.node[j].promotable => hits'[j] >= 1
                      /\ z.node[j].seg = "PROTECTED" =>
                            z.node[j].kind = "ENTRY" /\ hits'[j] = 2
    BY <1>2, <1>6 DEF HitsEarned
  <2>1. /\ sh.node[j].promotable => hits[j] >= 1
        /\ sh.node[j].seg = "PROTECTED" => sh.node[j].kind = "ENTRY" /\ hits[j] = 2
        /\ j \in AllKeys
    BY <1>1 DEF HitsEarned, Resident
  <2>2. z.node[j].kind = sh.node[j].kind
    BY <1>5, <2>1 DEF Reordered
  <2>3. CASE j = k
    <3>1. hits'[k] >= 1
      BY <1>7
    <3>2. ASSUME z.node[k].seg = "PROTECTED"
          PROVE  z.node[k].kind = "ENTRY" /\ hits'[k] = 2
      <4>1. /\ sh.node[k].kind = "ENTRY"
            /\ sh.node[k].promotable \/ sh.node[k].seg = "PROTECTED"
        BY <1>3, <1>5, <3>2
      <4>2. hits[k] >= 1
        BY <2>1, <2>3, <4>1
      <4> QED BY <1>7, <2>2, <2>3, <4>1, <4>2
    <3> QED BY <2>3, <3>1, <3>2
  <2>4. CASE j # k
    <3>1. /\ z.node[j].promotable = sh.node[j].promotable
          /\ z.node[j].seg = "PROTECTED" => sh.node[j].seg = "PROTECTED"
          /\ hits'[j] = hits[j]
      BY <1>5, <1>7, <2>1, <2>4 DEF Reordered
    <3> QED BY <2>1, <2>2, <3>1
  <2> QED BY <2>3, <2>4
<1>12. BudgetCovers'
  BY <1>2, <1>6, BudgetKept
<1> QED BY <1>8, <1>9, <1>10, <1>11, <1>12 DEF ZoneInv

LEMMA TickKeeps ==
    ASSUME ZoneInv, Tick
    PROVE  ZoneInv'
<1>1. /\ ZoneTypeOK /\ MarkersApart /\ HitsEarned /\ Linked(sh, {}, 0)
  BY DEF ZoneInv
<1>2. /\ recent' = {} /\ UNCHANGED <<pct, outage, purge, old, refilled, hits>>
  BY DEF Tick
<1>3. PICK S \in SUBSET {k \in PageKeys : sh.node[k].sie} :
        sh' = [sh EXCEPT !.node = [k \in AllKeys |->
                  IF k \in S THEN [sh.node[k] EXCEPT !.sie = FALSE]
                             ELSE sh.node[k]]]
  BY DEF Tick
<1> DEFINE f == [k \in AllKeys |-> IF k \in S THEN [sh.node[k] EXCEPT !.sie = FALSE]
                                             ELSE sh.node[k]]
           z == [sh EXCEPT !.node = f]
<1>4. sh.node \in [AllKeys -> NodeType]
  BY <1>1, ZoneFields DEF Linked
<1>5. \A k \in AllKeys :
        /\ f[k] \in NodeType
        /\ f[k].kind = sh.node[k].kind /\ f[k].size = sh.node[k].size
        /\ f[k].seg = sh.node[k].seg /\ f[k].promotable = sh.node[k].promotable
  BY ZenonT(30), <1>4 DEF NodeType
<1>6. f \in [AllKeys -> NodeType]
  BY <1>5
<1>7. sh' = z
  BY <1>3
<1> HIDE DEF f
<1>8. /\ Linked(z, {}, 0) /\ z.node = f /\ Resident(z) = Resident(sh)
  BY <1>1, <1>5, <1>6, FlagLinks
<1> HIDE DEF z
<1>9. ZoneTypeOK'
  BY <1>1, <1>2, <1>7, <1>8 DEF ZoneTypeOK, Linked
<1>10. MarkersApart'
  BY <1>1, <1>5, <1>7, <1>8 DEF MarkersApart, AllKeys
<1>11. HitsEarned'
  BY <1>1, <1>2, <1>5, <1>7, <1>8 DEF HitsEarned, Resident
<1>12. Linked(sh, {}, 0)'
  BY <1>7, <1>8
<1>13. BudgetCovers'
  BY <1>2, <1>7, <1>8, BudgetKept
<1> QED BY <1>9, <1>10, <1>11, <1>12, <1>13 DEF ZoneInv

LEMMA PurgeStartKeeps ==
    ASSUME ZoneInv, PurgeStart
    PROVE  ZoneInv'
<1>1. /\ ZoneTypeOK /\ MarkersApart /\ HitsEarned /\ Linked(sh, {}, 0)
  BY DEF ZoneInv
<1>2. /\ purge' = [pc |-> IF sh.n_entries = 0 THEN "done" ELSE "run",
                   remaining |-> sh.n_entries,
                   rc |-> IF sh.n_entries = 0 /\ PurgeLeftovers(sh)
                          THEN "AGAIN" ELSE "OK"]
      /\ old' = Resident(sh) /\ refilled' = FALSE
      /\ UNCHANGED <<sh, pct, recent, outage, hits>>
  BY DEF PurgeStart
<1>3. sh \in Zones /\ sh.n_entries = Cardinality(Resident(sh))
  BY <1>1 DEF Linked
<1>4. IsFiniteSet(Resident(sh)) /\ Cardinality(Resident(sh)) \in Nat
  BY <1>3, Finite
<1>5. Cardinality(Resident(sh)) = 0 <=> Resident(sh) = {}
  BY <1>4, FS_EmptySet
<1>6. PurgeLeftovers(sh) <=> Resident(sh) # {}
  BY <1>1, PurgeQueueIs
<1>7. /\ purge'.pc = "done" => Resident(sh) = {} /\ purge'.rc = "OK"
      /\ purge'.remaining = Cardinality(Resident(sh))
  BY <1>2, <1>3, <1>5, <1>6
<1>8. purge' \in [pc : {"idle", "run", "done"}, remaining : Nat, rc : {"OK", "AGAIN"}]
  BY <1>2, <1>3, <1>4
<1>9. ZoneTypeOK'
  BY <1>1, <1>2, <1>8 DEF ZoneTypeOK, Resident
<1>10. MarkersApart' /\ HitsEarned' /\ Linked(sh, {}, 0)'
  BY <1>1, <1>2 DEF MarkersApart, HitsEarned
<1>11. BudgetCovers'
  BY <1>2, <1>4, <1>7 DEF BudgetCovers, PurgeTellsTruth, PurgeOkIsComplete,
                          PurgeDrainsQuietZone
<1> QED BY <1>9, <1>10, <1>11 DEF ZoneInv

LEMMA PurgeReturnKeeps ==
    ASSUME ZoneInv, PurgeReturn
    PROVE  ZoneInv'
<1>1. /\ ZoneTypeOK /\ MarkersApart /\ HitsEarned /\ Linked(sh, {}, 0)
  BY DEF ZoneInv
<1>2. /\ purge' = NoPurge /\ old' = {} /\ refilled' = FALSE
      /\ UNCHANGED <<sh, pct, recent, outage, hits>>
  BY DEF PurgeReturn
<1>3. /\ NoPurge \in [pc : {"idle", "run", "done"}, remaining : Nat,
                      rc : {"OK", "AGAIN"}]
      /\ NoPurge.pc = "idle"
  BY DEF NoPurge
<1>4. ZoneTypeOK'
  BY <1>1, <1>2, <1>3 DEF ZoneTypeOK
<1>5. MarkersApart' /\ HitsEarned' /\ Linked(sh, {}, 0)'
  BY <1>1, <1>2 DEF MarkersApart, HitsEarned
<1>6. BudgetCovers'
  BY <1>2, <1>3 DEF BudgetCovers, PurgeTellsTruth, PurgeOkIsComplete,
                    PurgeDrainsQuietZone
<1> QED BY <1>4, <1>5, <1>6 DEF ZoneInv

LEMMA BatchIs ==
    ASSUME ZoneInv
    PROVE  /\ Batch \in Nat /\ Batch <= purge.remaining
           /\ Batch <= Cardinality(Resident(sh))
           /\ Batch = 0 => purge.remaining = 0 \/ Cardinality(Resident(sh)) = 0
<1> DEFINE c == Cardinality(Resident(sh))
           S == {PurgeBatch, purge.remaining, c}
<1>1. Linked(sh, {}, 0) /\ sh \in Zones /\ purge.remaining \in Nat
  BY DEF ZoneInv, ZoneTypeOK
<1>2. c \in Nat /\ Len(PurgeQueue(sh)) = c
  BY <1>1, Finite, PurgeQueueIs
<1>3. PurgeBatch \in Nat /\ PurgeBatch # 0
  BY LruZoneAssumption
<1>4. Batch = Min(S)
  BY <1>2 DEF Batch
<1> HIDE DEF c
<1>5. Min(S) \in S /\ \A y \in S : Min(S) <= y
  <2>1. S \in SUBSET Nat /\ S # {}
    BY <1>1, <1>2, <1>3
  <2> HIDE DEF S
  <2> QED BY <2>1, MinIs
<1>6. /\ Min(S) <= purge.remaining /\ Min(S) <= c
      /\ Min(S) \in {PurgeBatch, purge.remaining, c}
  BY <1>5
<1> HIDE DEF S
<1> QED BY <1>1, <1>2, <1>3, <1>4, <1>6 DEF c

LEMMA PurgeStepKeeps ==
    ASSUME ZoneInv, PurgeStep
    PROVE  ZoneInv'
<1> DEFINE z == Purged
           k == CHOOSE j \in AllKeys : TRUE
           left == purge.remaining - Batch
           rc == IF (left = 0 \/ Batch = 0) /\ PurgeLeftovers(z) THEN "AGAIN" ELSE "OK"
<1>1. /\ ZoneTypeOK /\ BudgetCovers /\ Linked(sh, {}, 0) /\ sh \in Zones
  BY DEF ZoneInv, ZoneTypeOK
<1>2. /\ Track(z, k, FALSE) /\ UNCHANGED <<pct, outage>>
      /\ purge.pc = "run"
      /\ purge' = [pc |-> IF left = 0 \/ Batch = 0 \/ rc # "OK" THEN "done" ELSE "run",
                   remaining |-> left, rc |-> rc]
  BY DEF PurgeStep, PurgeCount, PurgeLeft, PurgeRc
<1>3. /\ Batch \in Nat /\ Batch <= purge.remaining
      /\ Batch <= Cardinality(Resident(sh))
      /\ Batch = 0 => purge.remaining = 0 \/ Cardinality(Resident(sh)) = 0
  BY BatchIs
<1>4. /\ Linked(z, {}, 0) /\ Kept(sh, z, {})
      /\ Cardinality(Resident(z)) = Cardinality(Resident(sh)) - Batch
  BY <1>1, <1>3, PurgedLinks
<1>5. /\ Cardinality(Resident(sh)) \in Nat /\ purge.remaining \in Nat
  BY <1>1, Finite DEF ZoneTypeOK
<1>6. left \in Nat /\ rc \in {"OK", "AGAIN"}
  BY <1>3, <1>5
<1>7. PurgeLeftovers(z) <=> Resident(z) # {}
  BY <1>4, PurgeQueueIs
<1>8. Cardinality(Resident(z)) = 0 => Resident(z) = {}
  <2>1. z \in Zones
    BY <1>4 DEF Linked
  <2> QED BY <2>1, Finite, FS_EmptySet
<1> HIDE DEF z, k
<1>9. /\ sh' = z /\ sh' \in Zones /\ recent' \in SUBSET AllKeys
      /\ old' \in SUBSET AllKeys /\ refilled' \in BOOLEAN
      /\ hits' \in [AllKeys -> 0..2]
      /\ Linked(sh, {}, 0)' /\ MarkersApart' /\ HitsEarned'
      /\ old' \subseteq Resident(z) /\ old' \subseteq old
      /\ ~refilled' => Resident(z) \subseteq Resident(sh) /\ ~refilled
  <2>1. FALSE \in BOOLEAN /\ Kept(sh, z, IF FALSE THEN {k} ELSE {})
    BY <1>4
  <2> QED BY <1>2, <1>4, <2>1, TrackIs
<1>10. purge'.remaining = left /\ purge'.rc = rc
       /\ purge'.pc = IF left = 0 \/ Batch = 0 \/ rc # "OK" THEN "done" ELSE "run"
  BY <1>2
<1>11. purge' \in [pc : {"idle", "run", "done"}, remaining : Nat, rc : {"OK", "AGAIN"}]
  BY <1>2, <1>6
<1>12. ZoneTypeOK'
  BY <1>1, <1>2, <1>9, <1>11 DEF ZoneTypeOK
<1>13. ~refilled' => Cardinality(Resident(z)) <= left
  <2>1. ~refilled' => Cardinality(Resident(sh)) <= purge.remaining
    BY <1>1, <1>2, <1>9 DEF BudgetCovers
  <2> QED BY <1>3, <1>4, <1>5, <2>1
<1>14. ASSUME purge'.pc = "done", purge'.rc = "OK" PROVE Resident(z) = {}
  BY <1>7, <1>10, <1>14
<1>15. ASSUME ~refilled', left = 0 \/ Batch = 0 PROVE Resident(z) = {}
  <2>1. Cardinality(Resident(z)) \in Nat
    BY <1>9, Finite
  <2>2. Cardinality(Resident(z)) = 0
    BY <1>3, <1>4, <1>5, <1>13, <1>15, <2>1
  <2> QED BY <1>8, <2>2
<1>16. ASSUME purge'.pc = "done", ~refilled'
       PROVE  purge'.rc = "OK" /\ Resident(z) = {}
  <2>1. left = 0 \/ Batch = 0
    BY <1>10, <1>16
  <2>2. Resident(z) = {}
    BY <1>15, <1>16, <2>1
  <2> QED BY <1>7, <1>10, <2>2
<1> HIDE DEF left, rc
<1>17. BudgetCovers'
  BY <1>9, <1>10, <1>13, <1>14, <1>16 DEF BudgetCovers, PurgeTellsTruth,
        PurgeOkIsComplete, PurgeDrainsQuietZone
<1> QED BY <1>9, <1>12, <1>17 DEF ZoneInv

LEMMA ZoneInvNext ==
    ASSUME ZoneInv, [ZoneNext]_zoneVars
    PROVE  ZoneInv'
<1>1. CASE \E k \in PageKeys, n \in Sizes, sie \in BOOLEAN : StoreBody(k, n, sie)
  BY <1>1, StoreEntryKeeps
<1>2. CASE \E k \in MarkerKeys : StoreMarker(k)
  BY <1>2, StoreMarkerKeeps
<1>3. CASE \E k \in PageKeys : Count(k)
  BY <1>3, CountKeeps
<1>4. CASE \E k \in AllKeys : Touch(k) \/ PurgeKey(k)
  BY <1>4, TouchKeeps, PurgeKeyKeeps
<1>5. CASE PurgeStart \/ PurgeStep \/ PurgeReturn
  BY <1>5, PurgeStartKeeps, PurgeStepKeeps, PurgeReturnKeeps
<1>6. CASE Tick
  BY <1>6, TickKeeps
<1>7. CASE BreakerFlips
  BY <1>7 DEF BreakerFlips, ZoneInv, ZoneTypeOK, MarkersApart, HitsEarned, BudgetCovers,
         PurgeTellsTruth, PurgeOkIsComplete, PurgeDrainsQuietZone
<1>8. CASE Reload
  BY <1>8 DEF Reload, ZoneInv, ZoneTypeOK, MarkersApart, HitsEarned, BudgetCovers,
         PurgeTellsTruth, PurgeOkIsComplete, PurgeDrainsQuietZone
<1>9. CASE UNCHANGED zoneVars
  BY <1>9 DEF zoneVars, ZoneInv, ZoneTypeOK, MarkersApart, HitsEarned, BudgetCovers,
         PurgeTellsTruth, PurgeOkIsComplete, PurgeDrainsQuietZone
<1> QED BY <1>1, <1>2, <1>3, <1>4, <1>5, <1>6, <1>7, <1>8, <1>9 DEF ZoneNext

LEMMA ZoneAlways == ZoneSpec => []ZoneInv
<1>1. ZoneInit => ZoneInv
  BY ZoneInvInit
<1>2. ZoneInv /\ [ZoneNext]_zoneVars => ZoneInv'
  BY ZoneInvNext
<1> QED BY <1>1, <1>2, PTL DEF ZoneSpec

-----------------------------------------------------------------------------
(* The results. *)

(* The queues, the nodes and the counters of a zone always agree, and no    *)
(* counter, no marker and no body that was not hit in two seconds is        *)
(* protected, through evictions, demotions, refused stores and purges.      *)
THEOREM ZoneStaysSound == ZoneSpec => []ZoneSound
<1>1. ZoneInv => ZoneSound
  <2> SUFFICES ASSUME ZoneInv PROVE ZoneSound
    OBVIOUS
  <2>1. Linked(sh, {}, 0) /\ HitsEarned
    BY DEF ZoneInv
  <2>2. /\ Len(sh.prob) + Len(sh.prot) = Cardinality(Resident(sh))
        /\ ToSet(sh.prob) = Segment(sh, "PROBATION")
        /\ ToSet(sh.prot) = Segment(sh, "PROTECTED")
    BY <2>1, QueuesHold
  <2>3. QueuesAgree
    BY <2>2 DEF QueuesAgree, Segment
  <2>4. /\ sh \in Zones
        /\ sh.n_entries = Cardinality(Resident(sh)) /\ sh.n_protected = Len(sh.prot)
        /\ sh.markers = Cardinality(Marked(sh))
        /\ sh.used = Cardinality(Units(sh)) + 0 /\ sh.used <= Memory
    BY <2>1 DEF Linked
  <2>5. Cardinality(Units(sh)) \in Nat
    BY <2>4, Finite
  <2>6. CountersAgree
    BY <2>4, <2>5 DEF CountersAgree, Marked
  <2>7. ProtectionEarned
    <3> SUFFICES ASSUME NEW i \in 1..Len(sh.prot)
                 PROVE  sh.node[sh.prot[i]].kind = "ENTRY" /\ hits[sh.prot[i]] = 2
      BY DEF ProtectionEarned
    <3>1. sh.prot \in Seq(AllKeys)
      BY <2>4, ZoneFields
    <3>2. sh.prot[i] \in ToSet(sh.prot)
      BY <3>1 DEF ToSet
    <3>3. sh.prot[i] \in Segment(sh, "PROTECTED")
      BY <2>2, <3>2
    <3> QED BY <2>1, <3>3 DEF HitsEarned, Segment
  <2> QED BY <2>3, <2>6, <2>7 DEF ZoneSound
<1> QED BY <1>1, ZoneAlways, PTL

(* A purge that says OK has removed all it found, and one nobody disturbed  *)
(* says OK and leaves nothing, whatever the batches and what comes between. *)
THEOREM PurgeIsTruthful == ZoneSpec => []PurgeTellsTruth
<1>1. ZoneInv => PurgeTellsTruth
  BY DEF ZoneInv, BudgetCovers
<1> QED BY <1>1, ZoneAlways, PTL

(* A protected node is evicted only when probation has nothing else to      *)
(* give, also while stale-if-error entries are spared.                      *)
THEOREM ScansSpareProtected == ZoneSpec => ProbationFirst
<1>1. ZoneInv /\ TakesIn => TakenFromProbation
  BY StoreEntryKeeps, StoreMarkerKeeps, CountKeeps DEF TakesIn
<1>2. ZoneInv /\ [ZoneNext]_zoneVars =>
        [/\ \E k \in Resident(sh) \ Resident(sh') : sh.node[k].seg = "PROTECTED"
         /\ TakesIn
         => \A j \in Resident(sh) \cap Resident(sh') :
              sh.node[j].seg = "PROBATION" => j = Head(sh'.prob)]_zoneVars
  BY <1>1 DEF TakenFromProbation
<1> QED BY <1>2, ZoneAlways, PTL DEF ZoneSpec, ProbationFirst

=============================================================================
