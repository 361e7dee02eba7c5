---------------------------- MODULE SingleFlight ----------------------------
(***************************************************************************)
(* The life of one cache key: the shared-memory node that holds its body,  *)
(* its miss counter, its negative-L2 memo and its regeneration lease, and  *)
(* the requests that look it up, claim the lease, wait for its holder, go  *)
(* to the origin and store, freshen or release.  Every action is one       *)
(* critical section of the zone mutex (ngx_http_cache_turbo_shm.c) or one  *)
(* event of a request (ngx_http_cache_turbo_access.c and _filters.c);      *)
(* between two of them any other request, an eviction or a purge may run.  *)
(*                                                                         *)
(* The state of the other keys appears only as Evict: making room for them *)
(* may take this node away.                                                *)
(***************************************************************************)
EXTENDS Integers, FiniteSets

CONSTANTS
    Requests,       \* request slots
    Bounds,         \* kinds of requests: TRUE for one whose own Cache-Control
                    \* bounds reject every cached copy (ctx->req_reval)
    Lock,           \* cache_turbo_lock: single-flight on a cold miss
    HasL2,          \* an L2 backend with a cross-node lock is configured
    MinUses,        \* cache_turbo_min_uses
    MinUsesWindow,  \* cache_turbo_min_uses_window, seconds (0: none)
    FreshTtls,      \* fresh lifetimes the origin gives a page, seconds
    StaleFor,       \* how long a page is served stale after that
    ErrorTtl,       \* fresh lifetime of a stored error
    LockTtl,        \* lease length, seconds
    LockTimeout,    \* how long a loser waits, seconds
    NegTtl,         \* negative-L2 memo, seconds (0: off)
    MaxTime,        \* bound: last second of the clock
    MaxSeq          \* bound: last owner token handed out

ASSUME SingleFlightAssumption ==
    /\ Bounds \subseteq BOOLEAN /\ Lock \in BOOLEAN /\ HasL2 \in BOOLEAN
    /\ MinUses \in Nat \ {0} /\ MinUsesWindow \in Nat
    /\ FreshTtls \subseteq Nat /\ FreshTtls # {}
    /\ StaleFor \in Nat \ {0} /\ ErrorTtl \in Nat
    /\ LockTtl \in Nat \ {0} /\ LockTimeout \in Nat /\ NegTtl \in Nat
    /\ MaxTime \in Nat /\ MaxSeq \in Nat

VARIABLES
    node,           \* the key's node, kind "NONE" when there is none
    owner_seq,      \* sh->owner_seq, source of owner tokens
    clock,          \* ngx_time()
    pc,             \* where each request is
    strict,         \* it will not be answered from a cached copy
    tok,            \* ctx->pending_l1_owner, ctx->cold_owner
    win,            \* ctx->cold_winner: its end releases the lease tok
    prev,           \* cold_owner of the context before an internal redirect
    passed,         \* ctx->min_uses_passed
    nostore,        \* ctx->min_uses_skip
    locked,         \* answer of the cross-node lock
    got,            \* answer of the L2 GET, "counted" once accounted for
    made,           \* time the copy it got was created
    life,           \* fresh lifetime of that copy
    dead,           \* ctx->l2_present_unserveable
    deadline,       \* ctx->wait_deadline, 0 before the first wait
    lease           \* history: the token (0: none) and the end of the lease
                    \* the request was granted, until the key is stored,
                    \* freshened, evicted or purged or the request is over,
                    \* and whether it was put over an expired cold lease

l2vars == <<got, made, life, dead>>
locals == <<strict, tok, win, prev, passed, nostore, locked, l2vars, deadline>>
vars == <<node, owner_seq, clock, pc, strict, tok, win, prev, passed, nostore,
          locked, got, made, life, dead, deadline, lease>>

Kinds == {"NONE", "COUNTER", "ENTRY"}
Nodes == [kind : Kinds, val : {"none", "page", "error"},
          fresh : Int, stale : Nat, refreshing : BOOLEAN, lock_until : Nat,
          owner : Nat, miss : Nat, neg : Nat, last : Nat,
          born : Nat,      \* history: when the origin produced the body
          missed : Nat]    \* history: the last miss turned away
Leases == [owner : Nat, until : Nat, over : BOOLEAN]
NoLease == [owner |-> 0, until |-> 0, over |-> FALSE]
Pcs == {"idle", "l1", "l2", "get", "cold", "lock", "wait", "origin", "end"}

Absent == [kind |-> "NONE", val |-> "none", fresh |-> 0, stale |-> 0,
           refreshing |-> FALSE, lock_until |-> 0, owner |-> 0, miss |-> 0,
           neg |-> 0, last |-> 0, born |-> 0, missed |-> 0]

TypeOK ==
    /\ node \in Nodes
    /\ owner_seq \in Nat /\ clock \in Nat
    /\ pc \in [Requests -> Pcs]
    /\ strict \in [Requests -> BOOLEAN]
    /\ tok \in [Requests -> Nat] /\ win \in [Requests -> BOOLEAN]
    /\ prev \in [Requests -> Nat]
    /\ passed \in [Requests -> BOOLEAN] /\ nostore \in [Requests -> BOOLEAN]
    /\ locked \in [Requests -> {"none", "won", "lost"}]
    /\ got \in [Requests -> {"unasked", "miss", "down", "copy", "counted"}]
    /\ made \in [Requests -> Nat] /\ life \in [Requests -> Nat]
    /\ dead \in [Requests -> BOOLEAN]
    /\ deadline \in [Requests -> Nat] /\ lease \in [Requests -> Leases]

Init ==
    /\ node = Absent /\ owner_seq = 0 /\ clock = 1
    /\ pc = [r \in Requests |-> "idle"]
    /\ strict = [r \in Requests |-> FALSE]
    /\ tok = [r \in Requests |-> 0]
    /\ win = [r \in Requests |-> FALSE]
    /\ prev = [r \in Requests |-> 0]
    /\ passed = [r \in Requests |-> FALSE]
    /\ nostore = [r \in Requests |-> FALSE]
    /\ locked = [r \in Requests |-> "none"]
    /\ got = [r \in Requests |-> "unasked"]
    /\ made = [r \in Requests |-> 0]
    /\ life = [r \in Requests |-> 0]
    /\ dead = [r \in Requests |-> FALSE]
    /\ deadline = [r \in Requests |-> 0]
    /\ lease = [r \in Requests |-> NoLease]

-----------------------------------------------------------------------------
(* The node, as the shm functions see and change it. *)

HasBody == node.kind = "ENTRY"
Fresh == HasBody /\ clock < node.fresh
InStale == HasBody /\ clock < node.stale
LeaseLive == node.refreshing /\ clock < node.lock_until

(* last_access, which only the min_uses window of a COUNTER reads. *)
Stamp == IF MinUsesWindow > 0 THEN clock ELSE 0

(* shm_store_locked() with fresh_ttl f and stale_ttl s: the miss counter of *)
(* an existing node is kept, a new node starts at zero.  b is the history   *)
(* of the body.                                                             *)
Stored(v, f, s, b) ==
    [node EXCEPT !.kind = "ENTRY", !.val = v,
                 !.fresh = clock + f, !.stale = clock + s,
                 !.refreshing = FALSE, !.lock_until = 0, !.owner = 0,
                 !.neg = 0, !.last = Stamp, !.born = b,
                 !.missed = 0]

(* shm_freshen() *)
Freshened(f) ==
    [node EXCEPT !.fresh = clock + f, !.stale = clock + f + StaleFor,
                 !.refreshing = FALSE, !.lock_until = 0, !.owner = 0,
                 !.last = Stamp]

(* A COUNTER node made by count_miss, claim or l2_neg_set. *)
Stub == [Absent EXCEPT !.kind = "COUNTER", !.last = Stamp]

(* shm_count_miss_locked(): what it does to the node and whether it lets    *)
(* the request on.  The counter is only compared with MinUses and zero, so  *)
(* it is kept at most MinUses.                                              *)
CountMiss(n) ==
    IF n.kind = "ENTRY" \/ (n.refreshing /\ clock < n.lock_until)
    THEN [node |-> n, ok |-> TRUE]
    ELSE IF n.kind = "NONE"
    THEN [node |-> [Stub EXCEPT !.miss = 1, !.missed = Stamp],
          ok |-> MinUses <= 1]
    ELSE LET old == IF MinUsesWindow > 0 /\ clock - n.last > MinUsesWindow
                    THEN 0 ELSE n.miss
             new == IF old < MinUses THEN old + 1 ELSE old
         IN  [node |-> [n EXCEPT !.miss = new,
                                 !.missed = IF new < MinUses THEN Stamp ELSE @],
              ok |-> new >= MinUses]

(* shm_claim_locked(), WINNER: the lease is put on the node, which is made  *)
(* if there is none.                                                        *)
Leased(n, t) ==
    [(IF n.kind = "NONE" THEN Stub ELSE n) EXCEPT
        !.refreshing = TRUE, !.lock_until = clock + LockTtl, !.owner = t]

(* Mutant of Owns: any token is taken for the holder's. *)
OwnsAny(n, t) == t # 0 /\ n.refreshing

(* shm_owns() *)
Owns(n, t) == t # 0 /\ n.refreshing /\ n.owner = t

(* shm_unstub(): release the lease if it is t's, and free a COUNTER that    *)
(* then carries nothing.                                                    *)
Unstub(n, t) ==
    IF ~(n.kind \in {"COUNTER", "ENTRY"} /\ Owns(n, t))
    THEN n
    ELSE IF n.kind = "COUNTER" /\ n.miss = 0 /\ n.neg <= clock
    THEN Absent
    ELSE [n EXCEPT !.refreshing = FALSE, !.lock_until = 0, !.owner = 0]

(* Mutant of NegMemo: the memo is written over a counter's lease. *)
NegMemoAnew(n) == IF n.kind = "ENTRY" THEN n ELSE [Stub EXCEPT !.neg = clock + NegTtl]

(* shm_l2_neg_set() *)
NegMemo(n) ==
    IF n.kind = "ENTRY" THEN n
    ELSE [(IF n.kind = "NONE" THEN Stub ELSE n) EXCEPT !.neg = clock + NegTtl]

-----------------------------------------------------------------------------
(* The requests. *)

Goto(r, l) == pc' = [pc EXCEPT ![r] = l]

(* No lease on the key is anyone's any more. *)
Resolve == lease' = [q \in Requests |-> NoLease]

(* The request does not regenerate the key any more. *)
Forfeit(r) == lease' = [lease EXCEPT ![r] = NoLease]

ForgetL2(r) ==
    /\ got' = [got EXCEPT ![r] = "unasked"]
    /\ made' = [made EXCEPT ![r] = 0]
    /\ life' = [life EXCEPT ![r] = 0]
    /\ dead' = [dead EXCEPT ![r] = FALSE]

Done(r) ==
    /\ Goto(r, "idle")
    /\ strict' = [strict EXCEPT ![r] = FALSE]
    /\ tok' = [tok EXCEPT ![r] = 0]
    /\ win' = [win EXCEPT ![r] = FALSE]
    /\ prev' = [prev EXCEPT ![r] = 0]
    /\ passed' = [passed EXCEPT ![r] = FALSE]
    /\ nostore' = [nostore EXCEPT ![r] = FALSE]
    /\ locked' = [locked EXCEPT ![r] = "none"]
    /\ ForgetL2(r)
    /\ deadline' = [deadline EXCEPT ![r] = 0]

(* The lease a context held is given up when its request ends, with the     *)
(* answer sent from the cache or from the origin.                           *)
Cleanup(n, r) == Unstub(IF win[r] THEN Unstub(n, tok[r]) ELSE n, prev[r])

(* The request is answered from the node or from an L2 copy and ends. *)
Served(r, n) ==
    /\ node' = Cleanup(n, r)
    /\ Done(r)

Arrive(r, b) ==
    /\ pc[r] = "idle"
    /\ Goto(r, "l1")
    /\ strict' = [strict EXCEPT ![r] = b]
    /\ UNCHANGED <<node, owner_seq, clock, tok, win, prev, passed, nostore,
                   locked, l2vars, deadline, lease>>

(* access_l1(), a fresh hit; or serve_stale() without the lease: another    *)
(* request has it, the dice said no, or the cross-node lock was lost.       *)
ServeL1(r) ==
    /\ pc[r] = "l1"
    /\ ~strict[r]
    /\ Fresh \/ (InStale /\ locked[r] # "won")
    /\ Served(r, node)
    /\ Forfeit(r)
    /\ UNCHANGED <<owner_seq, clock>>

(* Mutant of LeaseStale: the lease is taken without a look at it. *)
LeaseStaleAnyway(r) ==
    /\ pc[r] = "l1"
    /\ ~strict[r] /\ ~Fresh /\ InStale
    /\ locked[r] = "none"
    /\ node' = [node EXCEPT !.refreshing = TRUE, !.lock_until = clock + LockTtl]
    /\ lease' = [lease EXCEPT ![r] = [owner |-> 0, until |-> clock + LockTtl,
                                      over |-> node.owner # 0]]
    /\ Goto(r, IF HasL2 THEN "lock" ELSE "origin")
    /\ UNCHANGED <<owner_seq, clock, locals>>

(* serve_stale(): the dice won.  The lease carries no owner token, and that *)
(* of an expired cold lease stays on the node; the request (or the          *)
(* background subrequest that stands for it) regenerates.                   *)
LeaseStale(r) ==
    /\ pc[r] = "l1"
    /\ ~strict[r] /\ ~Fresh /\ InStale
    /\ locked[r] = "none" /\ ~LeaseLive
    /\ node' = [node EXCEPT !.refreshing = TRUE,
                            !.lock_until = clock + LockTtl]
    /\ lease' = [lease EXCEPT ![r] = [owner |-> 0, until |-> clock + LockTtl,
                                      over |-> node.owner # 0]]
    /\ Goto(r, IF HasL2 THEN "lock" ELSE "origin")
    /\ UNCHANGED <<owner_seq, clock, locals>>

(* serve_stale() on resuming with the cross-node lock: regenerate. *)
RegenerateStale(r) ==
    /\ pc[r] = "l1"
    /\ ~strict[r] /\ ~Fresh /\ InStale
    /\ locked[r] = "won"
    /\ Goto(r, "origin")
    /\ UNCHANGED <<node, owner_seq, clock, locals, lease>>

(* access_l1(): nothing to serve. *)
MissL1(r) ==
    /\ pc[r] = "l1"
    /\ strict[r] \/ (~Fresh /\ ~InStale)
    /\ Goto(r, IF HasL2 THEN "l2" ELSE "cold")
    /\ UNCHANGED <<node, owner_seq, clock, locals, lease>>

(* access_l2_neg_memo(): the memo says that L2 has no copy.  A waiter that  *)
(* polls (l2_neg_force) does not consult it.                                *)
MemoSays(r) ==
    /\ NegTtl > 0 /\ deadline[r] = 0
    /\ node.kind = "COUNTER" /\ node.neg > clock

SkipL2(r) ==
    /\ pc[r] = "l2" /\ got[r] = "unasked" /\ MemoSays(r)
    /\ node' = [node EXCEPT !.last = Stamp]
    /\ got' = [got EXCEPT ![r] = "counted"]
    /\ Goto(r, "cold")
    /\ UNCHANGED <<owner_seq, clock, strict, tok, win, prev, passed, nostore,
                   locked, made, life, dead, deadline, lease>>

(* access_l2_get(): the request is parked on the GET, ... *)
AskL2(r) ==
    /\ pc[r] = "l2" /\ got[r] = "unasked" /\ ~MemoSays(r)
    /\ Goto(r, "get")
    /\ UNCHANGED <<node, owner_seq, clock, locals, lease>>

(* ... and starts over with the answer: a copy created at time m with fresh *)
(* lifetime f, no copy, or L2 down.                                         *)
GetAnswer(r, a, m, f) ==
    /\ pc[r] = "get"
    /\ got' = [got EXCEPT ![r] = a]
    /\ made' = [made EXCEPT ![r] = m]
    /\ life' = [life EXCEPT ![r] = f]
    /\ Goto(r, "l1")
    /\ UNCHANGED <<node, owner_seq, clock, strict, tok, win, prev, passed,
                   nostore, locked, dead, deadline, lease>>

(* What the copy has left of its lifetimes. *)
RemFresh(r) == life[r] - (clock - made[r])
RemStale(r) == RemFresh(r) + StaleFor

(* Mutant of ServeL2: promoted whatever is resident. *)
ServeL2Anyway(r) ==
    /\ pc[r] = "l2" /\ got[r] = "copy"
    /\ ~strict[r] /\ RemStale(r) > 0
    /\ Served(r, Stored("page", RemFresh(r), RemStale(r), made[r]))
    /\ Resolve
    /\ UNCHANGED <<owner_seq, clock>>

(* access_l2_promote_serve(): a copy not yet expired is promoted into L1    *)
(* with what it has left of its lifetimes, unless one that stays fresh      *)
(* longer is resident (STORE_IF_NEWER), and served.                         *)
ServeL2(r) ==
    /\ pc[r] = "l2" /\ got[r] = "copy"
    /\ ~strict[r] /\ RemStale(r) > 0
    /\ IF HasBody /\ node.fresh > clock + RemFresh(r)
       THEN Served(r, node) /\ Forfeit(r)
       ELSE /\ Served(r, Stored("page", RemFresh(r), RemStale(r), made[r]))
            /\ Resolve
    /\ UNCHANGED <<owner_seq, clock>>

(* access_l2(), access_l2_miss_account(): nothing to serve from L2.  A true *)
(* miss is remembered, once per request; a copy past its stale window is    *)
(* noted.                                                                   *)
MissL2(r) ==
    LET expired == got[r] = "copy" /\ RemStale(r) <= 0
    IN  /\ pc[r] = "l2" /\ got[r] # "unasked"
        /\ got[r] = "copy" => expired \/ strict[r]
        /\ node' = IF got[r] = "miss" /\ NegTtl > 0 /\ deadline[r] = 0
                   THEN NegMemo(node) ELSE node
        /\ got' = [got EXCEPT ![r] = "counted"]
        /\ dead' = [dead EXCEPT ![r] = @ \/ expired]
        /\ Goto(r, "cold")
        /\ UNCHANGED <<owner_seq, clock, strict, tok, win, prev, passed, nostore,
                       locked, made, life, deadline, lease>>

(* The node access_cold() claims on: after the min_uses count, in the same  *)
(* critical section (resolve_miss), or as it is (claim).                    *)
Counting(r) == MinUses > 1 /\ ~passed[r]
Counted(r) == IF Counting(r) THEN CountMiss(node).node ELSE node
MayClaim(r) ==
    /\ pc[r] = "cold" /\ Lock /\ locked[r] = "none"
    /\ Counting(r) => CountMiss(node).ok

(* access_min_uses() without cache_turbo_lock: count (there may be no room  *)
(* for a counter, which lets the request on), then to the origin.           *)
ColdUnlocked(r) ==
    LET c == CountMiss(node)
    IN  /\ pc[r] = "cold" /\ ~Lock
        /\ \/ /\ Counting(r) /\ locked[r] = "none"
              /\ node' = c.node
              /\ nostore' = [nostore EXCEPT ![r] = ~c.ok]
              /\ passed' = [passed EXCEPT ![r] = c.ok]
           \/ /\ Counting(r) /\ locked[r] = "none" /\ node.kind = "NONE"
              /\ passed' = [passed EXCEPT ![r] = TRUE]
              /\ UNCHANGED <<node, nostore>>
           \/ /\ ~Counting(r) \/ locked[r] # "none"
              /\ UNCHANGED <<node, nostore, passed>>
        /\ Goto(r, "origin")
        /\ UNCHANGED <<owner_seq, clock, strict, tok, win, prev, locked, l2vars,
                       deadline, lease>>

(* access_cold(): below min_uses, to the origin without storing. *)
BelowMinUses(r) ==
    /\ pc[r] = "cold" /\ Lock /\ locked[r] = "none"
    /\ Counting(r) /\ ~CountMiss(node).ok
    /\ node' = CountMiss(node).node
    /\ nostore' = [nostore EXCEPT ![r] = TRUE]
    /\ Goto(r, "origin")
    /\ UNCHANGED <<owner_seq, clock, strict, tok, win, prev, passed, locked,
                   l2vars, deadline, lease>>

(* CLAIM_FRESH: stored since the lookup.  Served, or, for a request that    *)
(* must revalidate, fetched without a lease; so is one that claimed without *)
(* counting, whose second lookup may find the entry gone again.             *)
ClaimFresh(r) ==
    /\ MayClaim(r) /\ Fresh
    /\ \/ /\ strict[r] \/ ~Counting(r)
          /\ passed' = [passed EXCEPT ![r] = TRUE]
          /\ Goto(r, "origin")
          /\ UNCHANGED <<node, strict, tok, win, prev, nostore, locked, l2vars, deadline,
                         lease>>
       \/ ~strict[r] /\ Served(r, node) /\ Forfeit(r)
    /\ UNCHANGED <<owner_seq, clock>>

(* CLAIM_WINNER: a new lease, or a lease whose deadline has passed taken    *)
(* over; then straight to the origin or first to the cross-node lock.       *)
ClaimWinner(r) ==
    /\ MayClaim(r) /\ ~Fresh /\ ~LeaseLive
    /\ owner_seq < MaxSeq
    /\ owner_seq' = owner_seq + 1
    /\ node' = Leased(Counted(r), owner_seq + 1)
    /\ tok' = [tok EXCEPT ![r] = owner_seq + 1]
    /\ win' = [win EXCEPT ![r] = ~HasL2]
    /\ passed' = [passed EXCEPT ![r] = TRUE]
    /\ lease' = [lease EXCEPT ![r] = [owner |-> owner_seq + 1,
                                      until |-> clock + LockTtl,
                                      over |-> FALSE]]
    /\ Goto(r, IF HasL2 THEN "lock" ELSE "origin")
    /\ UNCHANGED <<clock, strict, prev, nostore, locked, l2vars, deadline>>

(* ... or no room for the stub: to the origin with no lease at all. *)
ClaimNoRoom(r) ==
    /\ pc[r] = "cold" /\ Lock /\ locked[r] = "none" /\ node.kind = "NONE"
    /\ tok' = [tok EXCEPT ![r] = 0]
    /\ win' = [win EXCEPT ![r] = ~HasL2]
    /\ passed' = [passed EXCEPT ![r] = TRUE]
    /\ Goto(r, IF HasL2 THEN "lock" ELSE "origin")
    /\ UNCHANGED <<node, owner_seq, clock, strict, prev, nostore, locked,
                   l2vars, deadline, lease>>

(* Mutant of ColdWait: every pass sets the deadline anew. *)
ColdWaitAnew(r) ==
    /\ Goto(r, IF LockTimeout > 0 THEN "wait" ELSE "origin")
    /\ got' = [got EXCEPT ![r] = "unasked"]
    /\ made' = [made EXCEPT ![r] = 0]
    /\ life' = [life EXCEPT ![r] = 0]
    /\ passed' = [passed EXCEPT ![r] = TRUE]
    /\ deadline' = [deadline EXCEPT ![r] = clock + LockTimeout]
    /\ UNCHANGED <<node, strict, tok, win, prev, nostore, locked, dead, lease>>

(* cold_wait(): park, to ask L2 again, and on a later pass give up at the   *)
(* deadline or, after an L2 copy that cannot be served, at once.  A request *)
(* that gives up goes to the origin without a lease, or is served its       *)
(* stale-if-error copy.                                                     *)
ColdWait(r) ==
    LET first == deadline[r] = 0
        limit == IF first THEN clock + LockTimeout ELSE deadline[r]
        filled == ~first /\ dead[r]
        keep == /\ passed' = [passed EXCEPT ![r] = TRUE]
                /\ deadline' = [deadline EXCEPT ![r] = limit]
                /\ UNCHANGED <<node, strict, tok, win, prev, nostore, locked,
                               dead, lease>>
    IN  \/ /\ ~filled /\ clock < limit
           /\ Goto(r, "wait")
           /\ got' = [got EXCEPT ![r] = "unasked"]
           /\ made' = [made EXCEPT ![r] = 0]
           /\ life' = [life EXCEPT ![r] = 0]
           /\ keep
        \/ /\ filled \/ clock >= limit
           /\ Goto(r, "origin")
           /\ UNCHANGED <<got, made, life>>
           /\ keep
        \/ /\ ~filled /\ clock >= limit
           /\ Served(r, node)
           /\ Forfeit(r)

(* CLAIM_LOSER: the lease is this very request's from before an internal    *)
(* redirect and is adopted, ...                                             *)
AdoptOwnStub(r) ==
    /\ MayClaim(r) /\ ~Fresh /\ LeaseLive
    /\ Owns(node, prev[r])
    /\ tok' = [tok EXCEPT ![r] = prev[r]]
    /\ prev' = [prev EXCEPT ![r] = 0]
    /\ win' = [win EXCEPT ![r] = TRUE]
    /\ passed' = [passed EXCEPT ![r] = TRUE]
    /\ Goto(r, "origin")
    /\ UNCHANGED <<node, owner_seq, clock, strict, nostore, locked, l2vars, deadline,
                   lease>>

(* ... or another's, and is waited for. *)
ClaimLoser(r) ==
    /\ MayClaim(r) /\ ~Fresh /\ LeaseLive
    /\ ~Owns(node, prev[r])
    /\ ColdWait(r)
    /\ UNCHANGED <<owner_seq, clock>>

(* cold_resume_locked(): the cross-node lock has been answered. *)
ResumeWon(r) ==
    /\ pc[r] = "cold" /\ Lock /\ locked[r] = "won"
    /\ win' = [win EXCEPT ![r] = TRUE]
    /\ Goto(r, "origin")
    /\ UNCHANGED <<node, owner_seq, clock, strict, tok, prev, passed, nostore,
                   locked, l2vars, deadline, lease>>

ResumeLost(r) ==
    /\ pc[r] = "cold" /\ Lock /\ locked[r] = "lost"
    /\ ColdWait(r)
    /\ UNCHANGED <<owner_seq, clock>>

(* The L2 backend's SET NX: won (or L2 down, which counts as won) or lost. *)
LockAnswer(r, a) ==
    /\ pc[r] = "lock"
    /\ locked' = [locked EXCEPT ![r] = a]
    /\ Goto(r, "l1")
    /\ UNCHANGED <<node, owner_seq, clock, strict, tok, win, prev, passed,
                   nostore, l2vars, deadline, lease>>

(* cold_wait_timeout(): the poll timer. *)
Poll(r) ==
    /\ pc[r] = "wait"
    /\ Goto(r, "l1")
    /\ UNCHANGED <<node, owner_seq, clock, locals, lease>>

-----------------------------------------------------------------------------
(* The origin's answer. *)

(* A page: stored, which resolves whatever lease is on the node; ctx->      *)
(* cold_stored keeps the end of the request from releasing anything, and    *)
(* the context of before a redirect no longer owns the node.                *)
StorePage(r, f) ==
    /\ pc[r] = "origin" /\ ~nostore[r]
    /\ node' = Stored("page", f, f + StaleFor, clock)
    /\ Resolve
    /\ Done(r)
    /\ UNCHANGED <<owner_seq, clock>>

(* Mutant of StoreError: stored whatever is resident. *)
StoreErrorAnyway(r) ==
    /\ pc[r] = "origin" /\ ~nostore[r]
    /\ node' = Stored("error", ErrorTtl, ErrorTtl + StaleFor, clock)
    /\ Resolve
    /\ Done(r)
    /\ UNCHANGED <<owner_seq, clock>>

(* A cacheable error: stored only over nothing or over a dead entry         *)
(* (STORE_IF_ABSENT_OR_DEAD, in the critical section of the store).         *)
StoreError(r) ==
    /\ pc[r] = "origin" /\ ~nostore[r]
    /\ ~InStale
    /\ node' = Stored("error", ErrorTtl, ErrorTtl + StaleFor, clock)
    /\ Resolve
    /\ Done(r)
    /\ UNCHANGED <<owner_seq, clock>>

(* 304: header_filter_freshen_304(). *)
NotModified(r, f) ==
    /\ pc[r] = "origin"
    /\ IF HasBody THEN node' = Freshened(f) /\ Resolve
                  ELSE UNCHANGED <<node, lease>>
    /\ Goto(r, "end")
    /\ UNCHANGED <<owner_seq, clock, locals>>

(* Not cacheable, the store refused or without room, stale-if-error served, *)
(* the client gone: the end of the request releases what it owns.  A lease  *)
(* of a request parked on the cross-node lock is not marked and stays.      *)
End(r) ==
    /\ pc[r] \in {"get", "lock", "wait", "origin", "end"}
    /\ node' = Cleanup(node, r)
    /\ Forfeit(r)
    /\ Done(r)
    /\ UNCHANGED <<owner_seq, clock>>

(* An internal redirect (error_page, try_files) replaces the context.       *)
Redirect(r) ==
    /\ pc[r] = "origin" /\ win[r] /\ prev[r] = 0
    /\ Goto(r, "l1")
    /\ prev' = [prev EXCEPT ![r] = tok[r]]
    /\ tok' = [tok EXCEPT ![r] = 0]
    /\ win' = [win EXCEPT ![r] = FALSE]
    /\ passed' = [passed EXCEPT ![r] = FALSE]
    /\ nostore' = [nostore EXCEPT ![r] = FALSE]
    /\ locked' = [locked EXCEPT ![r] = "none"]
    /\ ForgetL2(r)
    /\ deadline' = [deadline EXCEPT ![r] = 0]
    /\ UNCHANGED <<node, owner_seq, clock, strict, lease>>

(* The worker dies: nothing is released. *)
Die(r) ==
    /\ pc[r] # "idle"
    /\ Done(r)
    /\ Forfeit(r)
    /\ UNCHANGED <<node, owner_seq, clock>>

(* Room is made for another key, or this one is purged. *)
Evict ==
    /\ node.kind # "NONE"
    /\ node' = Absent
    /\ Resolve
    /\ UNCHANGED <<owner_seq, clock, pc, locals>>

(* Time passes between the passes of the access handler: a pass reads the   *)
(* clock its worker cached when the event loop woke up.                     *)
Quiet == \A r \in Requests : pc[r] \notin {"l1", "l2", "cold"}

Tick ==
    /\ clock < MaxTime
    /\ Quiet
    /\ clock' = clock + 1
    /\ UNCHANGED <<node, owner_seq, pc, locals, lease>>

(* What a request does by itself once it is running. *)
Run(r) ==
    \/ ServeL1(r) \/ LeaseStale(r) \/ RegenerateStale(r) \/ MissL1(r)
    \/ SkipL2(r) \/ AskL2(r) \/ ServeL2(r) \/ MissL2(r)
    \/ ColdUnlocked(r) \/ BelowMinUses(r)
    \/ ClaimFresh(r) \/ ClaimWinner(r) \/ ClaimNoRoom(r)
    \/ AdoptOwnStub(r) \/ ClaimLoser(r) \/ ResumeWon(r) \/ ResumeLost(r)
    \/ Poll(r)

(* What the L2 backend answers. *)
AnswerL2(r) ==
    \/ \E a \in {"won", "lost"} : LockAnswer(r, a)
    \/ \E a \in {"miss", "down"} : GetAnswer(r, a, 0, 0)
    \/ \E m \in 0..clock, f \in FreshTtls : GetAnswer(r, "copy", m, f)

(* What the origin answers. *)
Answer(r) ==
    \/ \E f \in FreshTtls : StorePage(r, f) \/ NotModified(r, f)
    \/ StoreError(r) \/ End(r)

Next ==
    \/ \E r \in Requests :
        \/ \E b \in Bounds : Arrive(r, b)
        \/ Run(r) \/ AnswerL2(r) \/ Answer(r) \/ Redirect(r) \/ Die(r)
    \/ Evict
    \/ Tick

Spec == Init /\ [][Next]_vars

(* Workers run, timers fire, and the L2 client answers or times out.  A pass *)
(* never blocks, so passes do not overlap without end, and time passes.  No  *)
(* answer of the origin is assumed.                                          *)
Fairness ==
    /\ \A r \in Requests : WF_vars(Run(r))
    /\ \A r \in Requests : WF_vars(AnswerL2(r))
    /\ []<>Quiet
    /\ SF_vars(Tick)

FairSpec == Spec /\ Fairness

-----------------------------------------------------------------------------
(* A cold-miss lease is its holder's until the deadline: whatever other     *)
(* requests, cleanups, takeovers, polls and redirects do in between, the    *)
(* node carries the holder's token and deadline (refresh_owner exists so    *)
(* that no stale cleanup can release a successor's stub).                   *)
ColdLeaseKept ==
    \A r \in Requests :
        lease[r].owner # 0 /\ clock < lease[r].until
        => /\ node.refreshing
           /\ node.owner = lease[r].owner
           /\ node.lock_until = lease[r].until

(* Single flight: two requests never hold an unexpired lease on the key at  *)
(* once, whether granted to a cold miss or to a stale-while-revalidate      *)
(* refresh.  A refresh that serve_stale() begins over an expired cold lease *)
(* is excepted: the token it leaves on the node lets the late cold          *)
(* holder's unstub() release the refresh (OneLeaseAtOnce).                  *)
SingleRegenerator ==
    \A r, s \in Requests :
        /\ clock < lease[r].until /\ ~lease[r].over
        /\ clock < lease[s].until /\ ~lease[s].over
        => r = s

(* The same without the exception, as the comment in serve_stale() has it:  *)
(* the refresh lease is never resolved by unstub().                         *)
OneLeaseAtOnce ==
    \A r, s \in Requests :
        clock < lease[r].until /\ clock < lease[s].until => r = s

(* A page is never replaced by an older one: "a slow L2 reply must never    *)
(* displace a newer origin response that landed while it was parked"        *)
(* (shm_store_if()).                                                        *)
NoOldPageOverNew ==
    [][node.val = "page" /\ node'.val = "page" => node'.born >= node.born]_vars

(* A page that may still be served, fresh or stale, is never replaced by an *)
(* error page, whatever was resident when the origin was asked.             *)
ServableNotBuried ==
    [][InStale /\ node.val = "page" => node'.val # "error"]_vars

(* A waiter leaves for the origin ahead of its deadline only if the fill it *)
(* waits for has landed: not while the winner it lost to is still out and   *)
(* the expired copy it found in L2 was there before the wait (comment       *)
(* V-HANG-2 in cold_wait(): giving up earlier "stampedes the origin").      *)
GivesUpOnlyWhenFilled ==
    [][\A r, s \in Requests :
        /\ pc[r] = "cold" /\ pc'[r] = "origin"
        /\ deadline[r] # 0 /\ clock < deadline[r]
        /\ node.refreshing /\ node.owner = lease[s].owner /\ r # s
        /\ lease[s].owner # 0 /\ clock < lease[s].until
        => made[r] >= deadline[r] - LockTimeout]_vars

(* Two misses at most min_uses_window apart satisfy cache_turbo_min_uses 2: *)
(* a request is turned away only if the last one that was is further back   *)
(* (README: "misses are counted only within a recent time window").         *)
RecentMissCounts ==
    [][\A r \in Requests :
        ~nostore[r] /\ nostore'[r] /\ MinUses = 2 /\ node.missed # 0
        => clock - node.missed > MinUsesWindow]_vars

(* A request that waits for another's lease is let go: it is served, or     *)
(* wins the lease, or goes to the origin without it, at its deadline at the *)
(* latest.  Stated for deadlines within the clock's bound; the last case is *)
(* a lease it would win but for the bound MaxSeq.                           *)
WaitEnds ==
    \A r \in Requests :
        pc[r] = "wait" /\ deadline[r] <= MaxTime
        ~> \/ pc[r] \in {"idle", "origin", "lock"}
           \/ MayClaim(r) /\ ~Fresh /\ ~LeaseLive /\ owner_seq = MaxSeq

=============================================================================
