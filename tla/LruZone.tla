------------------------------ MODULE LruZone ------------------------------
(***************************************************************************)
(* The segmented LRU of a zone (ngx_http_cache_turbo_shm.c): a probation   *)
(* and a protected queue over the nodes, eviction when the slab is full,   *)
(* the second chance of stale-if-error entries in an outage, and the       *)
(* purge of the whole zone in batches.  Every action is one hold of the    *)
(* zone mutex.  Memory is counted in units: a node takes one, a body its   *)
(* size.                                                                   *)
(***************************************************************************)
EXTENDS Integers, SequencesExt, Loops

CONSTANTS
    PageKeys,       \* keys of pages and counters
    MarkerKeys,     \* keys of auto-Vary markers, a namespace of their own
    Sizes,          \* body sizes
    Memory,         \* what the slab holds
    Pcts,           \* scan_resistant_pct of the configurations reloaded into
    CapMaxEvict,    \* NGX_HTTP_CACHE_TURBO_LRU_CAP_MAX_EVICT
    PurgeBatch      \* NGX_HTTP_CACHE_TURBO_PURGE_BATCH

AllKeys == PageKeys \cup MarkerKeys

ASSUME LruZoneAssumption ==
    /\ IsFiniteSet(AllKeys) /\ PageKeys \cap MarkerKeys = {}
    /\ Sizes \subseteq Nat \ {0} /\ Sizes # {} /\ Memory \in Nat
    /\ Pcts \subseteq 0..100 /\ Pcts # {}
    /\ CapMaxEvict \in Nat \ {0} /\ PurgeBatch \in Nat \ {0}

VARIABLES
    sh,             \* the zone: queues (head first), nodes and counters
    pct,            \* scan_resistant_pct of the running configuration
    recent,         \* nodes whose last_access is the present second
    outage,         \* the breaker is OPEN
    purge,          \* the purge_all() under way
    old,            \* history: its victims: resident at its start, not
                    \* stored again since
    refilled,       \* history: something was inserted since its start
    hits            \* history: seconds each body was hit in, up to two

zoneVars == <<sh, pct, recent, outage, purge, old, refilled, hits>>

Gone == [kind |-> "NONE", size |-> 0, seg |-> "PROBATION", promotable |-> FALSE,
         spared |-> FALSE, sie |-> FALSE]
NodeType == [kind : {"NONE", "COUNTER", "ENTRY", "MARKER"}, size : Nat,
             seg : {"PROBATION", "PROTECTED"}, promotable : BOOLEAN,
             spared : BOOLEAN, sie : BOOLEAN]
Zones == [prob : Seq(AllKeys), prot : Seq(AllKeys), node : [AllKeys -> NodeType],
          n_entries : Nat, n_protected : Nat, markers : Nat, used : Nat]
NoPurge == [pc |-> "idle", remaining |-> 0, rc |-> "OK"]

ZoneTypeOK ==
    /\ sh \in Zones
    /\ pct \in Pcts /\ outage \in BOOLEAN /\ refilled \in BOOLEAN
    /\ recent \in SUBSET AllKeys /\ old \in SUBSET AllKeys
    /\ purge \in [pc : {"idle", "run", "done"}, remaining : Nat,
                  rc : {"OK", "AGAIN"}]
    /\ hits \in [AllKeys -> 0..2]

ZoneInit ==
    /\ sh = [prob |-> <<>>, prot |-> <<>>, node |-> [k \in AllKeys |-> Gone],
             n_entries |-> 0, n_protected |-> 0, markers |-> 0, used |-> 0]
    /\ pct \in Pcts
    /\ recent = {} /\ outage = FALSE
    /\ purge = NoPurge /\ old = {} /\ refilled = FALSE
    /\ hits = [k \in AllKeys |-> 0]

-----------------------------------------------------------------------------
(* The zone as a value: what each shm function makes of a zone s. *)

Resident(s) == {k \in AllKeys : s.node[k].kind # "NONE"}
Without(q, k) ==
    IF k \in ToSet(q) THEN RemoveAt(q, CHOOSE i \in 1..Len(q) : q[i] = k) ELSE q

(* lru_unlink(), lru_link_head() *)
Unlink(s, k) ==
    [s EXCEPT !.prob = Without(@, k), !.prot = Without(@, k),
              !.n_protected = IF s.node[k].seg = "PROTECTED" THEN @ - 1 ELSE @]
LinkHead(s, k) ==
    IF s.node[k].seg = "PROTECTED"
    THEN [s EXCEPT !.prot = Cons(k, @), !.n_protected = @ + 1]
    ELSE [s EXCEPT !.prob = Cons(k, @)]

(* drop_locked(): also the tail of evict_one() and the free of unstub(). *)
DropNode(s, k) ==
    [Unlink(s, k) EXCEPT
        !.n_entries = @ - 1,
        !.markers = IF s.node[k].kind = "MARKER" THEN @ - 1 ELSE @,
        !.used = @ - (1 + s.node[k].size),
        !.node[k] = Gone]

(* evict_one() on the queue q: walking from the tail, live stale-if-error   *)
(* entries not spared before are spared while the breaker is open; the      *)
(* first other node is taken, or the tail if there is none.                 *)
Spare(s, k) ==
    outage /\ ~s.node[k].spared /\ s.node[k].kind = "ENTRY" /\ s.node[k].sie
EvictFrom(s, q) ==
    LET takes == {i \in 1..Len(q) : ~Spare(s, q[i])}
        i == IF takes = {} THEN 0 ELSE Max(takes)
        victim == IF takes = {} THEN Last(q) ELSE q[i]
        passed == {q[j] : j \in (i + 1)..Len(q)}
    IN  DropNode([s EXCEPT !.node = [k \in AllKeys |->
                     IF k \in passed THEN [s.node[k] EXCEPT !.spared = TRUE]
                                     ELSE s.node[k]]],
                 victim)

(* Mutant of EvictOne: the queues in the wrong order. *)
EvictProtected(s) ==
    IF s.prot # <<>> THEN EvictFrom(s, s.prot) ELSE EvictFrom(s, s.prob)

EvictOne(s) ==
    IF s.prob # <<>> THEN EvictFrom(s, s.prob) ELSE EvictFrom(s, s.prot)

(* alloc_evict(): evict until n units are free or nothing is left. *)
Fits(s, n) == s.used + n <= Memory
AllocEvicted(s, n) ==
    LET makeRoom == [t \in Zones |->
            IF Fits(t, n) \/ (t.prob = <<>> /\ t.prot = <<>>) THEN t ELSE EvictOne(t)]
    IN  Iterated(makeRoom, Cardinality(AllKeys), s)

(* lru_enforce_cap(): demote protected tails to the head of probation. *)
Cap(s, p) ==
    LET c == (s.n_entries * p + 99) \div 100 IN IF c = 0 THEN 1 ELSE c
Demote(s) ==
    LET k == Last(s.prot)
    IN  LinkHead([Unlink(s, k) EXCEPT !.node[k].seg = "PROBATION"], k)
EnforceCap(s, p) ==
    LET demoteOne == [t \in Zones |->
            IF t.n_protected > Cap(t, p) /\ t.prot # <<>> THEN Demote(t) ELSE t]
    IN  Iterated(demoteOne, CapMaxEvict, s)

(* Mutant of Touched: the first touch protects. *)
TouchedOnce(s, k, p) ==
    LET seg == IF p = 0 THEN "PROBATION" ELSE "PROTECTED"
        t == LinkHead([Unlink(s, k) EXCEPT !.node[k].seg = seg], k)
    IN  IF p > 0 THEN EnforceCap(t, p) ELSE t

(* touch_lru() once a second has passed since the last one: the second      *)
(* touch of an entry protects it; with p = 0 any touch demotes.             *)
Touched(s, k, p) ==
    LET n == s.node[k]
        seg == IF p = 0 THEN "PROBATION"
               ELSE IF n.kind = "ENTRY" /\ n.promotable THEN "PROTECTED"
               ELSE n.seg
        t == LinkHead([Unlink(s, k) EXCEPT !.node[k].seg = seg,
                                           !.node[k].promotable = TRUE], k)
    IN  IF p > 0 THEN EnforceCap(t, p) ELSE t

(* lru_insert_new() *)
Inserted(s, k, kind, size, sie) ==
    [s EXCEPT !.node[k] = [Gone EXCEPT !.kind = kind, !.size = size, !.sie = sie],
              !.prob = Cons(k, @), !.n_entries = @ + 1, !.used = @ + 1 + size]

\* A zone after an attempt to store, and whether there was room.
Outcome(s, ok) == [zone |-> s, ok |-> ok]

(* store_locked() over a resident node: detached before anything is         *)
(* evicted, so that it is never its own victim; put back as it was if       *)
(* there is no room.  The old body is released after the new one is there.  *)
Refreshed(s, k, kind, size, sie) ==
    LET t == AllocEvicted(Unlink(s, k), size)
    IN  IF ~Fits(t, size) THEN Outcome(LinkHead(t, k), FALSE)
        ELSE Outcome(
               [t EXCEPT
                !.node[k] = [Gone EXCEPT !.kind = kind, !.size = size, !.sie = sie],
                !.prob = Cons(k, @), !.used = @ + size - s.node[k].size], TRUE)

(* store_locked() of a new key: room for the node, then for the body. *)
StoredNew(s, k, kind, size, sie) ==
    LET t == AllocEvicted(s, 1)
        u == AllocEvicted([t EXCEPT !.used = @ + 1], size)
        v == [u EXCEPT !.used = @ - 1]
    IN  IF ~Fits(t, 1) THEN Outcome(t, FALSE)
        ELSE IF ~Fits(u, size) THEN Outcome(v, FALSE)
        ELSE Outcome(Inserted(v, k, kind, size, sie), TRUE)

StoredAs(s, k, kind, size, sie) ==
    IF s.node[k].kind # "NONE" THEN Refreshed(s, k, kind, size, sie)
                               ELSE StoredNew(s, k, kind, size, sie)

-----------------------------------------------------------------------------
(* What the histories and last_access make of a step to the zone s, which   *)
(* stored at k.                                                             *)
Track(s, k, stored) ==
    /\ sh' = s
    /\ recent' = (recent \cap Resident(s)) \cup (IF stored THEN {k} ELSE {})
    /\ hits' = [j \in AllKeys |->
                  IF j \notin Resident(s) \/ (stored /\ j = k) THEN 0 ELSE hits[j]]
    /\ old' = (old \cap Resident(s)) \ (IF stored THEN {k} ELSE {})
    /\ refilled' = (refilled \/ stored)

(* store() and store_if().  A refusal by shm_admit() leaves the zone alone. *)
StoreBody(k, size, sie) ==
    LET out == StoredAs(sh, k, "ENTRY", size, sie)
    IN  /\ k \in PageKeys
        /\ Track(out.zone, k, out.ok)
        /\ UNCHANGED <<pct, outage, purge>>

\* A marker's blob: a header and two bytes.
MarkerSize == Min(Sizes)

(* store_marker(): the node is retagged, and counted unless it was a marker *)
(* before.                                                                  *)
StoreMarker(k) ==
    LET was == sh.node[k].kind = "MARKER"
        out == StoredAs(sh, k, "MARKER", MarkerSize, FALSE)
        s == IF out.ok /\ ~was THEN [out.zone EXCEPT !.markers = @ + 1]
                               ELSE out.zone
    IN  /\ k \in MarkerKeys
        /\ Track(s, k, out.ok)
        /\ UNCHANGED <<pct, outage, purge>>

(* count_miss(), claim(), l2_neg_set(): a COUNTER node for a new key. *)
Count(k) ==
    LET s == AllocEvicted(sh, 1)
    IN  /\ k \in PageKeys /\ sh.node[k].kind = "NONE"
        /\ IF Fits(s, 1) THEN Track(Inserted(s, k, "COUNTER", 0, FALSE), k, TRUE)
                         ELSE Track(s, k, FALSE)
        /\ UNCHANGED <<pct, outage, purge>>

(* A hit: touch_lru() from access_l1(), or from l2_neg_check() for a        *)
(* counter, always with 0.                                                  *)
Touch(k) ==
    /\ sh.node[k].kind \in {"ENTRY", "COUNTER"}
    /\ k \notin recent
    /\ sh' = Touched(sh, k, IF sh.node[k].kind = "ENTRY" THEN pct ELSE 0)
    /\ recent' = recent \cup {k}
    /\ hits' = [hits EXCEPT ![k] = IF @ < 2 THEN @ + 1 ELSE @]
    /\ UNCHANGED <<pct, outage, purge, old, refilled>>

(* purge_key(), purge_if_blob(), and unstub() of an empty counter. *)
PurgeKey(k) ==
    /\ sh.node[k].kind # "NONE"
    /\ Track(DropNode(sh, k), k, FALSE)
    /\ UNCHANGED <<pct, outage, purge>>

(* Entries a purge leaves behind. *)
PurgeLeftovers(s) == s.prob # <<>> \/ s.prot # <<>>

(* purge_all(): the budget is the population at the start, ... *)
PurgeStart ==
    /\ purge.pc = "idle"
    /\ purge' = [pc |-> IF sh.n_entries = 0 THEN "done" ELSE "run",
                 remaining |-> sh.n_entries,
                 rc |-> IF sh.n_entries = 0 /\ PurgeLeftovers(sh)
                        THEN "AGAIN" ELSE "OK"]
    /\ old' = Resident(sh)
    /\ refilled' = FALSE
    /\ UNCHANGED <<sh, pct, recent, outage, hits>>

(* ... dropped batch by batch from the queue heads, probation first; what   *)
(* is left at the end is reported.  The mutants: the leftovers are not      *)
(* reported, the budget is taken anew.                                      *)
PurgeQueue(s) == s.prob \o s.prot
PurgeRcOk(s, left, batch) == "OK"
PurgeRc(s, left, batch) ==
    IF (left = 0 \/ batch = 0) /\ PurgeLeftovers(s) THEN "AGAIN" ELSE "OK"
PurgeLeftAnew(s, batch) == s.n_entries
PurgeLeft(s, batch) == purge.remaining - batch

Batch == Min({PurgeBatch, purge.remaining, Len(PurgeQueue(sh))})
Purged ==
    LET dropHead == [t \in Zones |->
            IF PurgeQueue(t) = <<>> THEN t ELSE DropNode(t, Head(PurgeQueue(t)))]
    IN  Iterated(dropHead, Batch, sh)

PurgeCount ==
    LET left == PurgeLeft(Purged, Batch)
        rc == PurgeRc(Purged, left, Batch)
    IN  /\ purge.pc = "run"
        /\ purge' = [pc |-> IF left = 0 \/ Batch = 0 \/ rc # "OK" THEN "done"
                                                                ELSE "run",
                     remaining |-> left, rc |-> rc]
PurgeStep ==
    /\ PurgeCount
    /\ Track(Purged, CHOOSE k \in AllKeys : TRUE, FALSE)
    /\ UNCHANGED <<pct, outage>>

(* The caller reports the result. *)
PurgeReturn ==
    /\ purge.pc = "done"
    /\ purge' = NoPurge
    /\ old' = {} /\ refilled' = FALSE
    /\ UNCHANGED <<sh, pct, recent, outage, hits>>

(* The next second; a stale-if-error window may end. *)
Tick ==
    /\ recent' = {}
    /\ \E S \in SUBSET {k \in PageKeys : sh.node[k].sie} :
        sh' = [sh EXCEPT !.node = [k \in AllKeys |->
                  IF k \in S THEN [sh.node[k] EXCEPT !.sie = FALSE]
                             ELSE sh.node[k]]]
    /\ UNCHANGED <<pct, outage, purge, old, refilled, hits>>

BreakerFlips ==
    /\ outage' = ~outage
    /\ UNCHANGED <<sh, pct, recent, purge, old, refilled, hits>>

(* A reload: the zone survives, the percentage may change. *)
Reload ==
    /\ pct' \in Pcts
    /\ UNCHANGED <<sh, recent, outage, purge, old, refilled, hits>>

ZoneNext ==
    \/ \E k \in PageKeys, n \in Sizes, sie \in BOOLEAN : StoreBody(k, n, sie)
    \/ \E k \in MarkerKeys : StoreMarker(k)
    \/ \E k \in PageKeys : Count(k)
    \/ \E k \in AllKeys : Touch(k) \/ PurgeKey(k)
    \/ PurgeStart \/ PurgeStep \/ PurgeReturn
    \/ Tick \/ BreakerFlips \/ Reload

ZoneSpec == ZoneInit /\ [][ZoneNext]_zoneVars

(* The worker that purges goes on from batch to batch.  PurgeCount is what  *)
(* PurgeStep does to the purge, and possible exactly when it is.            *)
ZoneFairSpec == ZoneSpec /\ WF_purge(PurgeCount)

-----------------------------------------------------------------------------
(* The queues and the nodes agree: every resident node is on the one queue  *)
(* its seg names, once.                                                     *)
QueuesAgree ==
    /\ ToSet(sh.prob) = {k \in Resident(sh) : sh.node[k].seg = "PROBATION"}
    /\ ToSet(sh.prot) = {k \in Resident(sh) : sh.node[k].seg = "PROTECTED"}
    /\ Len(sh.prob) + Len(sh.prot) = Cardinality(Resident(sh))

(* The units of memory the nodes of the zone s take, each its own. *)
Units(s) == UNION {{k} \X (0..s.node[k].size) : k \in Resident(s)}

(* The counters are what is there: n_entries, n_protected, markers          *)
(* ("markers == 0 proves the zone holds no marker") and used_bytes.         *)
CountersAgree ==
    /\ sh.n_entries = Cardinality(Resident(sh))
    /\ sh.n_protected = Len(sh.prot)
    /\ sh.markers = Cardinality({k \in AllKeys : sh.node[k].kind = "MARKER"})
    /\ sh.used = Cardinality(Units(sh)) /\ sh.used <= Memory

(* The protected segment holds only bodies that were hit in two different   *)
(* seconds since they were stored: no counter, no marker, nothing a scan    *)
(* touched once, nothing that inherited the place of the body before it.    *)
ProtectionEarned ==
    \A i \in 1..Len(sh.prot) :
        sh.node[sh.prot[i]].kind = "ENTRY" /\ hits[sh.prot[i]] = 2

(* The zone is sound. *)
ZoneSound == QueuesAgree /\ CountersAgree /\ ProtectionEarned

(* The steps that make room. *)
TakesIn ==
    \/ \E k \in PageKeys, n \in Sizes, sie \in BOOLEAN : StoreBody(k, n, sie)
    \/ \E k \in MarkerKeys : StoreMarker(k)
    \/ \E k \in PageKeys : Count(k)

(* Scan resistance: making room for a body or a counter takes a protected   *)
(* node only when probation has nothing left to give but the node that is   *)
(* being stored, also while stale-if-error entries are being spared.        *)
ProbationFirst ==
    [][/\ \E k \in Resident(sh) \ Resident(sh') : sh.node[k].seg = "PROTECTED"
       /\ TakesIn
       => \A j \in Resident(sh) \cap Resident(sh') :
            sh.node[j].seg = "PROBATION" => j = Head(sh'.prob)]_zoneVars

(* A purge that reports OK has removed every entry it found, whatever was   *)
(* stored, evicted, touched or purged between its batches.                  *)
PurgeOkIsComplete == purge.pc = "done" /\ purge.rc = "OK" => old = {}

(* "With no concurrent refill the budget equals the resident population and *)
(* both queues still drain fully."                                          *)
PurgeDrainsQuietZone ==
    purge.pc = "done" /\ ~refilled => purge.rc = "OK" /\ Resident(sh) = {}

(* What purge_all() reports is true. *)
PurgeTellsTruth == PurgeOkIsComplete /\ PurgeDrainsQuietZone

(* purge_all() ends, however fast other workers refill the zone             *)
(* (PURGE-ALL-STARVATION).                                                  *)
PurgeEnds == []<>(purge.pc # "run")

=============================================================================
