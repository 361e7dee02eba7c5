----------------------------- MODULE BlobRefs ------------------------------
(***************************************************************************)
(* The bodies of cached entries in shared memory: reference-counted blobs  *)
(* that nodes own, requests serve without copying and writers pin until    *)
(* they know their store may stay (ngx_http_cache_turbo_shm.c).  Nodes and *)
(* the slab change under the zone mutex; a request drops its reference     *)
(* without it, and takes the mutex only to free what it was the last to    *)
(* hold.                                                                   *)
(*                                                                         *)
(* A member of Blobs is an address of the slab, which is handed out again  *)
(* after it is freed.  The LRU order of the victims is left to LruZone:    *)
(* here any node may be one.                                               *)
(***************************************************************************)
EXTENDS Naturals, FiniteSets

CONSTANTS
    Keys,           \* cache keys
    Blobs,          \* addresses: what the slab has room for
    None,           \* NULL
    Procs,          \* requests
    Versions,       \* bound: bodies of one address that are told apart
    MaxKills        \* bound: workers killed with one blob in hand

ASSUME BlobRefsAssumption ==
    /\ None \notin Blobs /\ IsFiniteSet(Blobs)
    /\ IsFiniteSet(Keys) /\ IsFiniteSet(Procs)
    /\ Versions \in Nat \ {0} /\ MaxKills \in Nat

VARIABLES
    data,           \* node->data, None for a key without a node
    alive,          \* addresses in use
    refs,           \* ref->refs of each address
    used_bytes,     \* sh->used_bytes, in blobs
    pc,             \* what each request is doing
    held,           \* the blob it has a reference to
    at,             \* the key it is working on
    body,           \* history: the number of an address's present body
    seen,           \* history: the number of the body the request refers to
    lost,           \* history: references of killed workers to each address
    stuck           \* history: addresses a killed worker was to free

vars == <<data, alive, refs, used_bytes, pc, held, at, body, seen, lost,
          stuck>>
zone == <<data, alive, refs, used_bytes, body>>

Pcs == {"idle", "serve", "stored", "rollback", "free"}

TypeOK ==
    /\ data \in [Keys -> Blobs \cup {None}]
    /\ alive \in SUBSET Blobs
    /\ refs \in [Blobs -> Nat]
    /\ used_bytes \in Nat
    /\ pc \in [Procs -> Pcs]
    /\ held \in [Procs -> Blobs \cup {None}]
    /\ at \in [Procs -> Keys \cup {None}]
    /\ body \in [Blobs -> Nat] /\ seen \in [Procs -> Nat]
    /\ lost \in [Blobs -> Nat] /\ stuck \in SUBSET Blobs

Init ==
    /\ data = [k \in Keys |-> None]
    /\ alive = {}
    /\ refs = [b \in Blobs |-> 0]
    /\ used_bytes = 0
    /\ pc = [p \in Procs |-> "idle"]
    /\ held = [p \in Procs |-> None]
    /\ at = [p \in Procs |-> None]
    /\ body = [b \in Blobs |-> 0]
    /\ seen = [p \in Procs |-> 0]
    /\ lost = [b \in Blobs |-> 0] /\ stuck = {}

-----------------------------------------------------------------------------
(* blob_node_release() by the nodes of K, in one hold of the mutex: each    *)
(* drops its reference, and the blobs nobody else refers to are freed.      *)
Owned(K) == {data[k] : k \in K} \ {None}
FreedAnyway(K) == Owned(K)      \* mutant of Freed: readers are not looked at
Freed(K) == {b \in Owned(K) : refs[b] = 1}
Dropped(K) == [b \in Blobs |-> IF b \in Owned(K) THEN refs[b] - 1 ELSE refs[b]]

(* shm_free_locked(): the gauge is discharged, never below zero. *)
Discharge(n) == IF used_bytes >= n THEN used_bytes - n ELSE 0

(* drop_locked() of the nodes of K. *)
Drop(K) ==
    /\ data' = [k \in Keys |-> IF k \in K THEN None ELSE data[k]]
    /\ refs' = Dropped(K)
    /\ alive' = alive \ Freed(K)
    /\ used_bytes' = Discharge(Cardinality(Freed(K)))

Begin(p, l, b, k) ==
    /\ pc' = [pc EXCEPT ![p] = l]
    /\ held' = [held EXCEPT ![p] = b]
    /\ at' = [at EXCEPT ![p] = k]

(* alloc_evict(): nodes are evicted until a blob fits, so the last victim   *)
(* is the only one that made room.                                          *)
MakesRoom(E) ==
    /\ E = {} => alive # Blobs
    /\ E # {} => alive = Blobs /\ Cardinality(Freed(E)) = 1

NextBody(b) == (body[b] + 1) % Versions

(* store_locked() of a new body at k, with E evicted to make room: the node *)
(* takes the blob, its old one is released, and with pin the writer gets a  *)
(* reference of its own (stored_data), in the same hold of the mutex.       *)
Store(p, k, E, b, pin) ==
    /\ pc[p] = "idle"
    /\ E \subseteq {j \in Keys \ {k} : data[j] # None}
    /\ MakesRoom(E)
    /\ b \in Blobs \ (alive \ Freed(E))
    /\ data' = [j \in Keys |-> IF j = k THEN b ELSE IF j \in E THEN None ELSE data[j]]
    /\ refs' = [Dropped(E \cup {k}) EXCEPT ![b] = IF pin THEN 2 ELSE 1]
    /\ alive' = (alive \ Freed(E \cup {k})) \cup {b}
    /\ used_bytes' = Discharge(Cardinality(Freed(E \cup {k}))) + 1
    /\ body' = [body EXCEPT ![b] = NextBody(b)]
    /\ IF pin THEN /\ Begin(p, "stored", b, k)
                   /\ seen' = [seen EXCEPT ![p] = NextBody(b)]
              ELSE UNCHANGED <<pc, held, at, seen>>
    /\ UNCHANGED <<lost, stuck>>

(* ... or everything else was evicted and there is still no room: the       *)
(* stored body stays.                                                       *)
StoreFails(p, k) ==
    LET E == {j \in Keys \ {k} : data[j] # None}
    IN  /\ pc[p] = "idle"
        /\ alive = Blobs /\ Freed(E) = {}
        /\ Drop(E)
        /\ UNCHANGED <<pc, held, at, body, seen, lost, stuck>>

(* A lookup that serves: the reference is taken under the mutex.  acquire() *)
(* does not look whether the blob is still there.                           *)
Acquire(p, k) ==
    /\ pc[p] = "idle"
    /\ data[k] # None
    /\ refs' = [refs EXCEPT ![data[k]] = @ + 1]
    /\ Begin(p, "serve", data[k], None)
    /\ seen' = [seen EXCEPT ![p] = body[data[k]]]
    /\ UNCHANGED <<data, alive, used_bytes, body, lost, stuck>>

(* purge_key(), purge_all(). *)
Purge(K) ==
    /\ \E k \in K : data[k] # None
    /\ Drop(K)
    /\ UNCHANGED <<pc, held, at, body, seen, lost, stuck>>

(* body_filter_rollback_store(): the marker that had to follow the store    *)
(* failed, and purge_if_blob() takes the store back if it is still there.   *)
Rollback(p) ==
    /\ pc[p] = "stored"
    /\ IF data[at[p]] = held[p] THEN Drop({at[p]})
                                ELSE UNCHANGED <<data, refs, alive, used_bytes>>
    /\ pc' = [pc EXCEPT ![p] = "rollback"]
    /\ UNCHANGED <<held, at, body, seen, lost, stuck>>

(* Mutant of Release: the last reference is dropped and nothing freed. *)
ReleaseOnly(p) ==
    /\ pc[p] \in {"serve", "stored", "rollback"}
    /\ refs' = [refs EXCEPT ![held[p]] = @ - 1]
    /\ Begin(p, "idle", None, None)
    /\ seen' = [seen EXCEPT ![p] = 0]
    /\ UNCHANGED <<data, alive, used_bytes, body, lost, stuck>>

(* blob_release(): the reference is dropped without the mutex; whoever was  *)
(* the last one frees.                                                      *)
Release(p) ==
    /\ pc[p] \in {"serve", "stored", "rollback"}
    /\ refs' = [refs EXCEPT ![held[p]] = @ - 1]
    /\ IF refs[held[p]] = 1
       THEN pc' = [pc EXCEPT ![p] = "free"] /\ UNCHANGED <<held, at, seen>>
       ELSE /\ Begin(p, "idle", None, None)
            /\ seen' = [seen EXCEPT ![p] = 0]
    /\ UNCHANGED <<data, alive, used_bytes, body, lost, stuck>>

(* ... under the mutex. *)
Free(p) ==
    /\ pc[p] = "free"
    /\ alive' = alive \ {held[p]}
    /\ used_bytes' = Discharge(1)
    /\ Begin(p, "idle", None, None)
    /\ seen' = [seen EXCEPT ![p] = 0]
    /\ UNCHANGED <<data, refs, body, lost, stuck>>

(* A worker dies: its references, and a free it had not come to, are lost. *)
Kill(p) ==
    /\ pc[p] # "idle"
    /\ lost[held[p]] < MaxKills
    /\ IF pc[p] = "free"
       THEN stuck' = stuck \cup {held[p]} /\ UNCHANGED lost
       ELSE lost' = [lost EXCEPT ![held[p]] = @ + 1] /\ UNCHANGED stuck
    /\ Begin(p, "idle", None, None)
    /\ seen' = [seen EXCEPT ![p] = 0]
    /\ UNCHANGED zone

Next ==
    \/ \E p \in Procs, k \in Keys :
        \/ \E E \in SUBSET Keys, b \in Blobs, pin \in BOOLEAN :
            Store(p, k, E, b, pin)
        \/ StoreFails(p, k)
        \/ Acquire(p, k)
    \/ \E p \in Procs : Rollback(p) \/ Release(p) \/ Free(p) \/ Kill(p)
    \/ \E k \in Keys : Purge({k})
    \/ Purge(Keys)

Spec == Init /\ [][Next]_vars

-----------------------------------------------------------------------------
Holders(b) == {p \in Procs : held[p] = b /\ pc[p] # "free"}
Nodes(b) == {k \in Keys : data[k] = b}

(* The count of a blob is the references there are: its node's, its         *)
(* readers' and writers', and those that killed workers took with them.     *)
RefsExact ==
    \A b \in alive :
        refs[b] = Cardinality(Nodes(b)) + Cardinality(Holders(b)) + lost[b]

(* Nobody refers to freed or reused memory: what a node owns is allocated,  *)
(* what a request serves or has pinned is the very body it acquired.        *)
NoUseAfterFree ==
    /\ \A k \in Keys : data[k] # None => data[k] \in alive
    /\ \A p \in Procs : pc[p] # "idle" =>
                            held[p] \in alive /\ body[held[p]] = seen[p]

(* A blob is freed once, after its last reference: a request on its way to  *)
(* free it is alone with it.                                                *)
LastOneFrees ==
    \A p \in Procs : pc[p] = "free" =>
        /\ Nodes(held[p]) = {}
        /\ \A q \in Procs : held[q] = held[p] => q = p

(* Nothing leaks: every allocated blob is a node's, is held, is about to be *)
(* freed, or was lost with a killed worker; and the gauge counts them.      *)
NothingLeaks ==
    /\ \A b \in alive : \/ Nodes(b) # {} \/ lost[b] > 0 \/ b \in stuck
                        \/ \E p \in Procs : held[p] = b
    /\ used_bytes = Cardinality(alive)

(* The account of the slab: exact counts, one free each, and no leak.       *)
Accounted == RefsExact /\ LastOneFrees /\ NothingLeaks

=============================================================================
