------------------------- MODULE SingleFlightProofs ------------------------
(***************************************************************************)
(* Proofs about SingleFlight for any number of requests and any setting of *)
(* the lock, L2, min_uses and the lifetimes: type correctness; a cold-miss *)
(* lease is its holder's until its deadline; one request at a time         *)
(* regenerates the key; no page that may be served gives way to an error;  *)
(* and, where pages have one lifetime, none gives way to an older one.     *)
(***************************************************************************)
EXTENDS SingleFlight, TLAPS

(* The two halves of TypeOK: the zone and the requests. *)
NodeOK == node \in Nodes /\ owner_seq \in Nat /\ clock \in Nat

RequestsOK ==
    /\ pc \in [Requests -> Pcs]
    /\ strict \in [Requests -> BOOLEAN]
    /\ tok \in [Requests -> Nat] /\ win \in [Requests -> BOOLEAN]
    /\ prev \in [Requests -> Nat]
    /\ passed \in [Requests -> BOOLEAN] /\ nostore \in [Requests -> BOOLEAN]
    /\ locked \in [Requests -> {"none", "won", "lost"}]
    /\ got \in [Requests -> {"unasked", "miss", "down", "copy", "counted"}]
    /\ made \in [Requests -> Nat] /\ life \in [Requests -> Nat]
    /\ dead \in [Requests -> BOOLEAN]
    /\ deadline \in [Requests -> Nat] /\ lease \in [Requests -> Leases]

-----------------------------------------------------------------------------
(* The shm functions return nodes. *)

(* A time stamp is a number. *)
LEMMA StampType == clock \in Nat => Stamp \in Nat
  BY DEF Stamp

(* No node is a value of node. *)
LEMMA AbsentType == Absent \in Nodes
  BY DEF Absent, Nodes, Kinds

(* So is a fresh counter. *)
LEMMA StubType == clock \in Nat => Stub \in Nodes
  BY StampType, AbsentType DEF Stub, Absent, Nodes, Kinds

(* store_locked() makes a node, also with a negative fresh lifetime. *)
LEMMA StoredType ==
    ASSUME NodeOK, NEW v \in {"page", "error"}, NEW f \in Int, NEW s \in Nat,
           NEW b \in Nat
    PROVE  Stored(v, f, s, b) \in Nodes
<1>1. clock + f \in Int /\ clock + s \in Nat /\ Stamp \in Nat
  BY StampType DEF NodeOK
<1> QED  BY <1>1 DEF NodeOK, Stored, Nodes, Kinds

(* freshen() makes a node. *)
LEMMA FreshenedType ==
    ASSUME NodeOK, NEW f \in Nat
    PROVE  Freshened(f) \in Nodes
<1>1. clock + f \in Int /\ clock + f + StaleFor \in Nat /\ Stamp \in Nat
  BY StampType, SingleFlightAssumption DEF NodeOK
<1> QED  BY <1>1 DEF NodeOK, Freshened, Nodes, Kinds

(* count_miss_locked() makes a node and a verdict. *)
LEMMA CountMissType ==
    ASSUME NodeOK, NEW n \in Nodes
    PROVE  CountMiss(n).node \in Nodes /\ CountMiss(n).ok \in BOOLEAN
<1> DEFINE old == IF MinUsesWindow > 0 /\ clock - n.last > MinUsesWindow
                  THEN 0 ELSE n.miss
           new == IF old < MinUses THEN old + 1 ELSE old
<1>1. CASE n.kind = "ENTRY" \/ (n.refreshing /\ clock < n.lock_until)
  BY <1>1 DEF CountMiss
<1>2. CASE ~(n.kind = "ENTRY" \/ (n.refreshing /\ clock < n.lock_until))
           /\ n.kind = "NONE"
  <2>1. CountMiss(n) = [node |-> [Stub EXCEPT !.miss = 1, !.missed = Stamp],
                        ok |-> MinUses <= 1]
    BY <1>2 DEF CountMiss
  <2>2. Stub \in Nodes /\ Stamp \in Nat
    BY StubType, StampType DEF NodeOK
  <2>3. [Stub EXCEPT !.miss = 1, !.missed = Stamp] \in Nodes
    BY <2>2 DEF Nodes
  <2> QED  BY <2>1, <2>3
<1>3. CASE ~(n.kind = "ENTRY" \/ (n.refreshing /\ clock < n.lock_until))
           /\ n.kind # "NONE"
  <2>1. old \in Nat
    BY DEF Nodes
  <2>2. new \in Nat
    BY <2>1
  <2>3. Stamp \in Nat
    BY StampType DEF NodeOK
  <2>4. CountMiss(n) =
          [node |-> [n EXCEPT !.miss = new,
                              !.missed = IF new < MinUses THEN Stamp ELSE @],
           ok |-> new >= MinUses]
    BY <1>3 DEF CountMiss
  <2> HIDE DEF old, new
  <2>5. [n EXCEPT !.miss = new,
                  !.missed = IF new < MinUses THEN Stamp ELSE @] \in Nodes
    BY <2>2, <2>3 DEF Nodes
  <2> QED  BY <2>4, <2>5
<1> QED  BY <1>1, <1>2, <1>3

(* claim_locked() makes a node. *)
LEMMA LeasedType ==
    ASSUME NodeOK, NEW n \in Nodes, NEW t \in Nat
    PROVE  Leased(n, t) \in Nodes
<1>1. clock + LockTtl \in Nat
  BY SingleFlightAssumption DEF NodeOK
<1>2. (IF n.kind = "NONE" THEN Stub ELSE n) \in Nodes
  BY StubType DEF NodeOK
<1> QED  BY <1>1, <1>2 DEF Leased, Nodes

(* unstub() makes a node or none. *)
LEMMA UnstubType ==
    ASSUME NEW n \in Nodes, NEW t
    PROVE  Unstub(n, t) \in Nodes
  BY AbsentType DEF Unstub, Nodes

(* l2_neg_set() makes a node. *)
LEMMA NegMemoType ==
    ASSUME NodeOK, NEW n \in Nodes
    PROVE  NegMemo(n) \in Nodes
<1>1. clock + NegTtl \in Nat
  BY SingleFlightAssumption DEF NodeOK
<1>2. (IF n.kind = "NONE" THEN Stub ELSE n) \in Nodes
  BY StubType DEF NodeOK
<1> QED  BY <1>1, <1>2 DEF NegMemo, Nodes

(* So does the end of a request. *)
LEMMA CleanupType ==
    ASSUME NEW n \in Nodes, NEW r
    PROVE  Cleanup(n, r) \in Nodes
  BY UnstubType DEF Cleanup

(* A request that is over leaves well-typed variables. *)
LEMMA DoneType ==
    ASSUME RequestsOK, NEW r \in Requests, Done(r), lease' \in [Requests -> Leases]
    PROVE  RequestsOK'
  BY DEF RequestsOK, Done, ForgetL2, Goto, Pcs

(* The leases stay well typed when they end. *)
LEMMA ForfeitType ==
    ASSUME lease \in [Requests -> Leases], NEW r \in Requests,
           Forfeit(r) \/ Resolve \/ UNCHANGED lease
    PROVE  lease' \in [Requests -> Leases]
<1>1. NoLease \in Leases
  BY DEF NoLease, Leases
<1> QED  BY <1>1 DEF Forfeit, Resolve

-----------------------------------------------------------------------------
(* Init *)
LEMMA TypeInit == Init => TypeOK
  BY AbsentType DEF Init, TypeOK, Pcs, Leases, NoLease

(* A request that is served or ends. *)
LEMMA ServedType ==
    ASSUME NodeOK, RequestsOK, NEW r \in Requests, NEW n \in Nodes,
           Served(r, n), UNCHANGED <<owner_seq, clock>>,
           Forfeit(r) \/ Resolve
    PROVE  NodeOK' /\ RequestsOK'
<1>1. lease' \in [Requests -> Leases]
  BY ForfeitType DEF RequestsOK
<1>2. node' \in Nodes
  BY CleanupType DEF Served
<1> QED  BY <1>1, <1>2, DoneType DEF NodeOK, Served

(* The steps of access_l1(). *)
LEMMA TypeL1 ==
    ASSUME NodeOK, RequestsOK, NEW r \in Requests,
           \/ \E b \in Bounds : Arrive(r, b)
           \/ ServeL1(r) \/ LeaseStale(r) \/ RegenerateStale(r) \/ MissL1(r)
    PROVE  NodeOK' /\ RequestsOK'
<1>1. ASSUME NEW b \in Bounds, Arrive(r, b) PROVE NodeOK' /\ RequestsOK'
  BY <1>1, SingleFlightAssumption
     DEF Arrive, NodeOK, RequestsOK, Goto, Pcs, l2vars
<1>2. CASE ServeL1(r)
  BY <1>2, ServedType DEF ServeL1, NodeOK
<1>3. CASE LeaseStale(r)
  <2>1. clock + LockTtl \in Nat
    BY SingleFlightAssumption DEF NodeOK
  <2>2. NodeOK'
    BY <1>3, <2>1 DEF LeaseStale, NodeOK, Nodes
  <2>3. lease' \in [Requests -> Leases]
    BY <1>3, <2>1 DEF LeaseStale, RequestsOK, Leases
  <2> QED  BY <1>3, <2>2, <2>3 DEF LeaseStale, RequestsOK, Goto, Pcs, locals, l2vars
<1>4. CASE RegenerateStale(r) \/ MissL1(r)
  BY <1>4 DEF RegenerateStale, MissL1, NodeOK, RequestsOK, Goto, Pcs, locals, l2vars
<1> QED  BY <1>1, <1>2, <1>3, <1>4

(* The steps of access_l2() and the answers of the backend. *)
LEMMA TypeL2 ==
    ASSUME NodeOK, RequestsOK, NEW r \in Requests,
           SkipL2(r) \/ AskL2(r) \/ ServeL2(r) \/ MissL2(r) \/ AnswerL2(r)
    PROVE  NodeOK' /\ RequestsOK'
<1>1. CASE SkipL2(r)
  <2>1. NodeOK'
    BY <1>1, StampType DEF SkipL2, NodeOK, Nodes
  <2> QED  BY <1>1, <2>1 DEF SkipL2, RequestsOK, Goto, Pcs
<1>2. CASE AskL2(r)
  BY <1>2 DEF AskL2, NodeOK, RequestsOK, Goto, Pcs, locals, l2vars
<1>3. CASE ServeL2(r)
  <2>1. CASE HasBody /\ node.fresh > clock + RemFresh(r)
    BY <1>3, <2>1, ServedType DEF ServeL2, NodeOK
  <2>2. CASE ~(HasBody /\ node.fresh > clock + RemFresh(r))
    <3>1. RemFresh(r) \in Int /\ RemStale(r) \in Nat /\ made[r] \in Nat
      BY <1>3, SingleFlightAssumption
         DEF ServeL2, RemFresh, RemStale, NodeOK, RequestsOK
    <3>2. Stored("page", RemFresh(r), RemStale(r), made[r]) \in Nodes
      BY <3>1, StoredType
    <3> QED  BY <1>3, <2>2, <3>2, ServedType DEF ServeL2
  <2> QED  BY <2>1, <2>2
<1>4. CASE MissL2(r)
  <2>1. NodeOK'
    BY <1>4, NegMemoType DEF MissL2, NodeOK
  <2>2. dead' \in [Requests -> BOOLEAN]
    BY <1>4 DEF MissL2, RequestsOK
  <2> QED  BY <1>4, <2>1, <2>2 DEF MissL2, RequestsOK, Goto, Pcs
<1>5. ASSUME NEW c \in {"won", "lost"}, LockAnswer(r, c)
      PROVE  NodeOK' /\ RequestsOK'
  BY <1>5 DEF LockAnswer, NodeOK, RequestsOK, Goto, Pcs, l2vars
<1>6. ASSUME NEW c \in {"miss", "down", "copy"}, NEW m \in Nat, NEW f \in Nat,
             GetAnswer(r, c, m, f)
      PROVE  NodeOK' /\ RequestsOK'
  BY <1>6 DEF GetAnswer, NodeOK, RequestsOK, Goto, Pcs
<1>7. CASE AnswerL2(r)
  <2>1. (0..clock) \subseteq Nat /\ FreshTtls \subseteq Nat
    BY SingleFlightAssumption DEF NodeOK
  <2> QED  BY <1>5, <1>6, <1>7, <2>1 DEF AnswerL2
<1> QED  BY <1>1, <1>2, <1>3, <1>4, <1>7

(* cold_wait() *)
LEMMA ColdWaitType ==
    ASSUME NodeOK, RequestsOK, NEW r \in Requests, ColdWait(r),
           UNCHANGED <<owner_seq, clock>>
    PROVE  NodeOK' /\ RequestsOK'
<1> DEFINE limit == IF deadline[r] = 0 THEN clock + LockTimeout ELSE deadline[r]
<1>1. limit \in Nat
  BY SingleFlightAssumption DEF NodeOK, RequestsOK
<1>2. CASE Served(r, node) /\ Forfeit(r)
  BY <1>2, ServedType DEF NodeOK
<1>3. CASE ~(Served(r, node) /\ Forfeit(r))
  <2>1. /\ passed' = [passed EXCEPT ![r] = TRUE]
        /\ deadline' = [deadline EXCEPT ![r] = limit]
        /\ UNCHANGED <<node, strict, tok, win, prev, nostore, locked, dead, lease>>
    BY <1>3 DEF ColdWait
  <2>2. PICK l \in {"wait", "origin"} : Goto(r, l)
    BY <1>3 DEF ColdWait
  <2>3. /\ got' \in [Requests -> {"unasked", "miss", "down", "copy", "counted"}]
        /\ made' \in [Requests -> Nat] /\ life' \in [Requests -> Nat]
    BY <1>3 DEF ColdWait, RequestsOK
  <2> HIDE DEF limit
  <2> QED  BY <1>1, <2>1, <2>2, <2>3 DEF NodeOK, RequestsOK, Goto, Pcs
<1> QED  BY <1>2, <1>3

(* The steps of access_cold(). *)
LEMMA TypeCold ==
    ASSUME NodeOK, RequestsOK, NEW r \in Requests,
           \/ ColdUnlocked(r) \/ BelowMinUses(r) \/ ClaimFresh(r)
           \/ ClaimWinner(r) \/ ClaimNoRoom(r) \/ AdoptOwnStub(r)
           \/ ClaimLoser(r) \/ ResumeWon(r) \/ ResumeLost(r) \/ Poll(r)
    PROVE  NodeOK' /\ RequestsOK'
<1>0. CountMiss(node).node \in Nodes /\ CountMiss(node).ok \in BOOLEAN
  BY CountMissType DEF NodeOK
<1>1. CASE ColdUnlocked(r)
  <2>1. NodeOK'
    BY <1>0, <1>1 DEF ColdUnlocked, NodeOK
  <2>2. /\ nostore' \in [Requests -> BOOLEAN]
        /\ passed' \in [Requests -> BOOLEAN]
    BY <1>0, <1>1 DEF ColdUnlocked, RequestsOK
  <2> QED  BY <1>1, <2>1, <2>2 DEF ColdUnlocked, RequestsOK, Goto, Pcs, l2vars
<1>2. CASE BelowMinUses(r)
  BY <1>0, <1>2 DEF BelowMinUses, NodeOK, RequestsOK, Goto, Pcs, l2vars
<1>3. CASE ClaimFresh(r)
  <2>1. CASE Served(r, node) /\ Forfeit(r)
    BY <1>3, <2>1, ServedType DEF ClaimFresh, NodeOK
  <2>2. CASE ~(Served(r, node) /\ Forfeit(r))
    BY <1>3, <2>2 DEF ClaimFresh, NodeOK, RequestsOK, Goto, Pcs, l2vars
  <2> QED  BY <2>1, <2>2
<1>4. CASE ClaimWinner(r)
  <2>1. owner_seq + 1 \in Nat /\ clock + LockTtl \in Nat /\ Counted(r) \in Nodes
    BY <1>0, SingleFlightAssumption DEF NodeOK, Counted
  <2>2. NodeOK'
    BY <1>4, <2>1, LeasedType DEF ClaimWinner, NodeOK
  <2>3. lease' \in [Requests -> Leases]
    BY <1>4, <2>1 DEF ClaimWinner, RequestsOK, Leases
  <2>4. tok' \in [Requests -> Nat] /\ win' \in [Requests -> BOOLEAN]
    BY <1>4, <2>1, SingleFlightAssumption DEF ClaimWinner, RequestsOK
  <2> QED  BY <1>4, <2>2, <2>3, <2>4 DEF ClaimWinner, RequestsOK, Goto, Pcs, l2vars
<1>5. CASE ClaimNoRoom(r)
  <2>1. win' \in [Requests -> BOOLEAN]
    BY <1>5, SingleFlightAssumption DEF ClaimNoRoom, RequestsOK
  <2> QED  BY <1>5, <2>1 DEF ClaimNoRoom, NodeOK, RequestsOK, Goto, Pcs, l2vars
<1>6. CASE AdoptOwnStub(r)
  BY <1>6 DEF AdoptOwnStub, NodeOK, RequestsOK, Goto, Pcs, l2vars
<1>7. CASE ClaimLoser(r) \/ ResumeLost(r)
  BY <1>7, ColdWaitType DEF ClaimLoser, ResumeLost
<1>8. CASE ResumeWon(r) \/ Poll(r)
  BY <1>8 DEF ResumeWon, Poll, NodeOK, RequestsOK, Goto, Pcs, locals, l2vars
<1> QED  BY <1>1, <1>2, <1>3, <1>4, <1>5, <1>6, <1>7, <1>8

(* The answers of the origin, redirects and deaths. *)
LEMMA TypeAnswer ==
    ASSUME NodeOK, RequestsOK, NEW r \in Requests,
           Answer(r) \/ Redirect(r) \/ Die(r)
    PROVE  NodeOK' /\ RequestsOK'
<1>0. FreshTtls \subseteq Nat /\ StaleFor \in Nat /\ ErrorTtl \in Nat
      /\ clock \in Nat
  BY SingleFlightAssumption DEF NodeOK
<1>1. ASSUME NEW f \in FreshTtls, StorePage(r, f) PROVE NodeOK' /\ RequestsOK'
  <2>1. f \in Int /\ f + StaleFor \in Nat
    BY <1>0
  <2>2. node' \in Nodes
    BY <1>0, <1>1, <2>1, StoredType DEF StorePage
  <2> QED  BY <1>1, <2>2, DoneType, ForfeitType DEF StorePage, NodeOK, RequestsOK
<1>2. CASE StoreError(r)
  <2>1. ErrorTtl \in Int /\ ErrorTtl + StaleFor \in Nat
    BY <1>0
  <2>2. node' \in Nodes
    BY <1>0, <1>2, <2>1, StoredType DEF StoreError
  <2> QED  BY <1>2, <2>2, DoneType, ForfeitType DEF StoreError, NodeOK, RequestsOK
<1>3. ASSUME NEW f \in FreshTtls, NotModified(r, f) PROVE NodeOK' /\ RequestsOK'
  <2>1. NodeOK'
    BY <1>0, <1>3, FreshenedType DEF NotModified, NodeOK
  <2>2. lease' \in [Requests -> Leases]
    BY <1>3, ForfeitType DEF NotModified, RequestsOK
  <2> QED  BY <1>3, <2>1, <2>2 DEF NotModified, RequestsOK, Goto, Pcs, locals, l2vars
<1>4. CASE End(r)
  <2>1. NodeOK'
    BY <1>4, CleanupType DEF End, NodeOK
  <2> QED  BY <1>4, <2>1, DoneType, ForfeitType DEF End, RequestsOK
<1>5. CASE Redirect(r)
  BY <1>5 DEF Redirect, NodeOK, RequestsOK, Goto, ForgetL2, Pcs
<1>6. CASE Die(r)
  BY <1>6, DoneType, ForfeitType DEF Die, NodeOK, RequestsOK
<1> QED  BY <1>1, <1>2, <1>3, <1>4, <1>5, <1>6 DEF Answer

(* Type correctness is inductive. *)
LEMMA TypeNext == TypeOK /\ [Next]_vars => TypeOK'
<1> SUFFICES ASSUME TypeOK, [Next]_vars PROVE TypeOK'
  OBVIOUS
<1>1. NodeOK /\ RequestsOK
  BY DEF TypeOK, NodeOK, RequestsOK
<1>2. NodeOK' /\ RequestsOK'
  <2>1. CASE UNCHANGED vars
    BY <1>1, <2>1 DEF vars, NodeOK, RequestsOK
  <2>2. CASE Evict
    BY <1>1, <2>2, AbsentType DEF Evict, Resolve, NoLease, Leases, NodeOK,
                                  RequestsOK, locals, l2vars
  <2>3. CASE Tick
    BY <1>1, <2>3 DEF Tick, NodeOK, RequestsOK, locals, l2vars
  <2>4. CASE Next /\ ~Evict /\ ~Tick
    BY <1>1, <2>4, TypeL1, TypeL2, TypeCold, TypeAnswer DEF Next, Run
  <2> QED  BY <2>1, <2>2, <2>3, <2>4
<1> QED  BY <1>2 DEF TypeOK, NodeOK, RequestsOK

(* Every variable keeps its type: whatever shm_store(), freshen(), claim()  *)
(* and unstub() make of the node is a node, with no negative deadline.      *)
THEOREM TypeCorrect == Spec => []TypeOK
  BY TypeInit, TypeNext, PTL DEF Spec

-----------------------------------------------------------------------------
(* The ownership invariant: an unexpired lease is the one on the node, but  *)
(* for a refresh over an expired cold lease; no request carries, in either  *)
(* of its contexts, the token of another's lease; tokens are not handed out *)
(* twice; and there is no lease without a node.                             *)
HeldOnNode ==
    \A r \in Requests :
        clock < lease[r].until /\ ~lease[r].over
        => /\ node.refreshing
           /\ node.owner = lease[r].owner
           /\ node.lock_until = lease[r].until

ColdNotOver == \A r \in Requests : lease[r].owner # 0 => ~lease[r].over

Foreign(r, s) == lease[s].owner # 0
                 => tok[r] # lease[s].owner /\ prev[r] # lease[s].owner

TokensIssued ==
    \A r \in Requests : tok[r] <= owner_seq /\ prev[r] <= owner_seq
                        /\ lease[r].owner <= owner_seq

OwnerInv ==
    /\ HeldOnNode /\ ColdNotOver
    /\ SingleRegenerator
    /\ node.kind = "NONE" => ~node.refreshing
    /\ TokensIssued
    /\ \A r, s \in Requests : r # s => Foreign(r, s)

(* A step keeps OwnerInv if it hands out no token, moves tokens only within *)
(* a request, and leaves the lease on the node alone while it is kept for   *)
(* somebody.                                                                *)
LEMMA OwnerFrame ==
    ASSUME NodeOK, RequestsOK, NodeOK', RequestsOK', OwnerInv,
           owner_seq' = owner_seq, clock' >= clock,
           \A s \in Requests : lease'[s] = lease[s] \/ lease'[s] = NoLease,
           \A s \in Requests : /\ tok'[s] \in {tok[s], prev[s], 0}
                               /\ prev'[s] \in {tok[s], prev[s], 0},
           node'.kind = "NONE" => ~node'.refreshing,
           \A s \in Requests :
              /\ lease'[s] = lease[s] /\ clock < lease[s].until
              /\ node.refreshing /\ node.owner = lease[s].owner
              => /\ node'.refreshing /\ node'.owner = node.owner
                 /\ node'.lock_until = node.lock_until
    PROVE  OwnerInv'
<1>1. ASSUME NEW s \in Requests, clock' < lease'[s].until
      PROVE  /\ lease'[s] = lease[s]
             /\ clock < lease[s].until
  <2>1. lease'[s] = lease[s]
    BY <1>1 DEF NodeOK, NoLease
  <2> QED  BY <1>1, <2>1 DEF NodeOK, RequestsOK, Leases
<1>4. HeldOnNode'
  <2> SUFFICES ASSUME NEW s \in Requests, clock' < lease'[s].until, ~lease'[s].over
               PROVE  /\ node'.refreshing /\ node'.owner = lease'[s].owner
                      /\ node'.lock_until = lease'[s].until
    BY DEF HeldOnNode
  <2>1. lease'[s] = lease[s] /\ clock < lease[s].until
    BY <1>1
  <2>2. node.refreshing /\ node.owner = lease[s].owner
        /\ node.lock_until = lease[s].until
    BY <2>1 DEF OwnerInv, HeldOnNode
  <2> QED  BY <2>1, <2>2
<1>5. ColdNotOver'
  BY DEF OwnerInv, ColdNotOver, NoLease
<1>6. SingleRegenerator'
  <2> SUFFICES ASSUME NEW p \in Requests, NEW s \in Requests,
                      clock' < lease'[p].until, ~lease'[p].over,
                      clock' < lease'[s].until, ~lease'[s].over
               PROVE  p = s
    BY DEF SingleRegenerator
  <2>1. /\ lease'[p] = lease[p] /\ clock < lease[p].until
        /\ lease'[s] = lease[s] /\ clock < lease[s].until
    BY <1>1
  <2> QED  BY <2>1 DEF OwnerInv, SingleRegenerator
<1>2. TokensIssued'
  <2> SUFFICES ASSUME NEW s \in Requests
               PROVE  tok'[s] <= owner_seq /\ prev'[s] <= owner_seq
                      /\ lease'[s].owner <= owner_seq
    BY DEF TokensIssued
  <2>1. /\ tok[s] <= owner_seq /\ prev[s] <= owner_seq
        /\ lease[s].owner <= owner_seq /\ 0 <= owner_seq
    BY DEF OwnerInv, TokensIssued, NodeOK
  <2> QED  BY <2>1 DEF NoLease
<1>3. ASSUME NEW r \in Requests, NEW s \in Requests, r # s PROVE Foreign(r, s)'
  BY <1>3 DEF OwnerInv, Foreign, NoLease
<1> QED  BY <1>2, <1>3, <1>4, <1>5, <1>6 DEF OwnerInv

(* A step that resolves every lease keeps it, too. *)
LEMMA ResolveFrame ==
    ASSUME NodeOK, RequestsOK, NodeOK', RequestsOK', OwnerInv, Resolve,
           owner_seq' = owner_seq, clock' = clock,
           \A s \in Requests : /\ tok'[s] \in {tok[s], prev[s], 0}
                               /\ prev'[s] \in {tok[s], prev[s], 0},
           node'.kind = "NONE" => ~node'.refreshing
    PROVE  OwnerInv'
<1>1. \A s \in Requests : lease'[s] = NoLease
  BY DEF Resolve
<1>2. clock' >= clock /\ ~(clock < NoLease.until)
  BY DEF NodeOK, NoLease
<1>3. \A s \in Requests : ~(lease'[s] = lease[s] /\ clock < lease[s].until)
  BY <1>1, <1>2
<1> QED  BY <1>1, <1>2, <1>3, OwnerFrame

(* Releasing a token that is not the node's changes nothing; releasing any  *)
(* leaves no lease on a missing node.                                       *)
LEMMA CleanupKeeps ==
    ASSUME NEW n \in Nodes, NEW r \in Requests
    PROVE  /\ n.owner = 0 \/ (n.owner # tok[r] /\ n.owner # prev[r])
              => Cleanup(n, r) = n
           /\ (n.kind = "NONE" => ~n.refreshing)
              => (Cleanup(n, r).kind = "NONE" => ~Cleanup(n, r).refreshing)
<1>1. ASSUME NEW m \in Nodes, NEW t
      PROVE  /\ m.owner = 0 \/ m.owner # t => Unstub(m, t) = m
             /\ (m.kind = "NONE" => ~m.refreshing)
                => (Unstub(m, t).kind = "NONE" => ~Unstub(m, t).refreshing)
  <2>1. CASE m.kind \in {"COUNTER", "ENTRY"} /\ Owns(m, t)
    <3>1. CASE m.kind = "COUNTER" /\ m.miss = 0 /\ m.neg <= clock
      BY <2>1, <3>1 DEF Unstub, Owns, Absent
    <3>2. CASE ~(m.kind = "COUNTER" /\ m.miss = 0 /\ m.neg <= clock)
      <4>1. Unstub(m, t) = [m EXCEPT !.refreshing = FALSE, !.lock_until = 0,
                                     !.owner = 0]
        BY <2>1, <3>2 DEF Unstub
      <4> QED  BY <2>1, <4>1 DEF Owns, Nodes
    <3> QED  BY <3>1, <3>2
  <2>2. CASE ~(m.kind \in {"COUNTER", "ENTRY"} /\ Owns(m, t))
    BY <2>2 DEF Unstub
  <2> QED  BY <2>1, <2>2
<1> QED  BY <1>1, UnstubType DEF Cleanup

(* Counting a miss and the negative memo leave the lease of a node alone.   *)
LEMMA CounterKeeps ==
    ASSUME NEW n \in Nodes, NEW m \in {CountMiss(n).node, NegMemo(n)}
    PROVE  /\ n.kind # "NONE" => /\ m.kind # "NONE" /\ m.refreshing = n.refreshing
                                 /\ m.owner = n.owner /\ m.lock_until = n.lock_until
           /\ n.kind = "NONE" /\ ~n.refreshing => ~m.refreshing
<1>1. CASE m = CountMiss(n).node
  <2>1. CASE n.kind = "ENTRY" \/ (n.refreshing /\ clock < n.lock_until)
    BY <1>1, <2>1 DEF CountMiss
  <2>2. CASE /\ ~(n.kind = "ENTRY" \/ (n.refreshing /\ clock < n.lock_until))
             /\ n.kind = "NONE"
    <3>1. m = [Stub EXCEPT !.miss = 1, !.missed = Stamp]
      BY <1>1, <2>2 DEF CountMiss
    <3> QED  BY <2>2, <3>1 DEF Stub, Absent
  <2>3. CASE /\ ~(n.kind = "ENTRY" \/ (n.refreshing /\ clock < n.lock_until))
             /\ n.kind # "NONE"
    <3>1. \E x, y : m = [n EXCEPT !.miss = x, !.missed = y]
      BY <1>1, <2>3 DEF CountMiss
    <3> QED  BY <2>3, <3>1 DEF Nodes
  <2> QED  BY <2>1, <2>2, <2>3
<1>2. CASE m = NegMemo(n)
  <2>1. CASE n.kind = "ENTRY"
    BY <1>2, <2>1 DEF NegMemo
  <2>2. CASE n.kind = "NONE"
    BY <1>2, <2>2 DEF NegMemo, Stub, Absent
  <2>3. CASE n.kind \notin {"ENTRY", "NONE"}
    BY <1>2, <2>3 DEF NegMemo, Nodes
  <2> QED  BY <2>1, <2>2, <2>3
<1> QED  BY <1>1, <1>2

(* The end of a request that resolves nothing. *)
LEMMA OwnerDone ==
    ASSUME NodeOK, RequestsOK, NodeOK', RequestsOK', OwnerInv, NEW r \in Requests,
           node' = Cleanup(node, r) \/ node' = node, Done(r), Forfeit(r),
           UNCHANGED <<owner_seq, clock>>
    PROVE  OwnerInv'
<1>1. /\ lease' = [lease EXCEPT ![r] = NoLease]
      /\ tok' = [tok EXCEPT ![r] = 0] /\ prev' = [prev EXCEPT ![r] = 0]
  BY DEF Forfeit, Done
<1>2. \A s \in Requests : /\ lease'[s] = lease[s] \/ lease'[s] = NoLease
                          /\ tok'[s] \in {tok[s], prev[s], 0}
                          /\ prev'[s] \in {tok[s], prev[s], 0}
                          /\ s = r => lease'[s] = NoLease
  BY <1>1 DEF RequestsOK
<1>3. node \in Nodes /\ clock' >= clock /\ ~(clock < NoLease.until)
  BY DEF NodeOK, NoLease
<1>4. node'.kind = "NONE" => ~node'.refreshing
  BY <1>3, CleanupKeeps DEF OwnerInv
<1>5. ASSUME NEW s \in Requests, lease'[s] = lease[s], clock < lease[s].until,
             node.owner = lease[s].owner
      PROVE  node' = node
  <2>1. s # r /\ Foreign(r, s)
    BY <1>2, <1>3, <1>5 DEF OwnerInv
  <2>2. node.owner = 0 \/ (node.owner # tok[r] /\ node.owner # prev[r])
    BY <1>5, <2>1 DEF Foreign
  <2> QED  BY <1>3, <2>2, CleanupKeeps
<1> QED  BY <1>2, <1>3, <1>4, <1>5, OwnerFrame

(* The steps that leave the lease on the node as it is. *)
LEMMA OwnerPlain ==
    ASSUME NodeOK, RequestsOK, NodeOK', RequestsOK', OwnerInv, NEW r \in Requests,
           \/ \E b \in Bounds : Arrive(r, b)
           \/ RegenerateStale(r) \/ MissL1(r) \/ AskL2(r) \/ AnswerL2(r)
           \/ SkipL2(r) \/ MissL2(r) \/ ColdUnlocked(r) \/ BelowMinUses(r)
           \/ ClaimNoRoom(r) \/ AdoptOwnStub(r) \/ ResumeWon(r) \/ Poll(r)
           \/ Redirect(r)
    PROVE  OwnerInv'
<1>1. /\ UNCHANGED <<owner_seq, clock, lease>>
      /\ tok' = tok \/ tok' = [tok EXCEPT ![r] = 0] \/ tok' = [tok EXCEPT ![r] = prev[r]]
      /\ prev' = prev \/ prev' = [prev EXCEPT ![r] = 0] \/ prev' = [prev EXCEPT ![r] = tok[r]]
  BY DEF Arrive, RegenerateStale, MissL1, AskL2, AnswerL2, GetAnswer, LockAnswer,
         SkipL2, MissL2, ColdUnlocked, BelowMinUses, ClaimNoRoom, AdoptOwnStub,
         ResumeWon, Poll, Redirect, locals
<1>2. \A s \in Requests : /\ tok'[s] \in {tok[s], prev[s], 0}
                          /\ prev'[s] \in {tok[s], prev[s], 0}
                          /\ lease'[s] = lease[s]
  BY <1>1 DEF RequestsOK
<1>3. \/ node' \in {node, CountMiss(node).node, NegMemo(node)}
      \/ node' = [node EXCEPT !.last = Stamp] /\ node.kind = "COUNTER"
  BY DEF Arrive, RegenerateStale, MissL1, AskL2, AnswerL2, GetAnswer, LockAnswer,
         SkipL2, MemoSays, MissL2, ColdUnlocked, BelowMinUses, ClaimNoRoom,
         AdoptOwnStub, ResumeWon, Poll, Redirect
<1>4. /\ node'.kind = "NONE" => ~node'.refreshing
      /\ node.refreshing => /\ node'.refreshing /\ node'.owner = node.owner
                            /\ node'.lock_until = node.lock_until
  <2>0. node \in Nodes /\ (node.kind = "NONE" => ~node.refreshing)
    BY DEF NodeOK, OwnerInv
  <2>1. CASE node' = node
    BY <2>0, <2>1
  <2>2. CASE node' \in {CountMiss(node).node, NegMemo(node)}
    BY <2>0, <2>2, CounterKeeps
  <2>3. CASE node' = [node EXCEPT !.last = Stamp] /\ node.kind = "COUNTER"
    BY <2>0, <2>3 DEF Nodes
  <2> QED  BY <1>3, <2>1, <2>2, <2>3
<1>5. clock' >= clock
  BY <1>1 DEF NodeOK
<1> QED  BY <1>1, <1>2, <1>4, <1>5, OwnerFrame

(* The steps that serve, store, end or die. *)
LEMMA OwnerEnds ==
    ASSUME NodeOK, RequestsOK, NodeOK', RequestsOK', OwnerInv, NEW r \in Requests,
           \/ ServeL1(r) \/ ServeL2(r) \/ ClaimFresh(r) \/ ClaimLoser(r)
           \/ ResumeLost(r) \/ Answer(r) \/ Die(r)
    PROVE  OwnerInv'
<1>a. ASSUME UNCHANGED <<node, owner_seq, clock, tok, prev, lease>>
      PROVE  OwnerInv'
  BY <1>a DEF OwnerInv, HeldOnNode, ColdNotOver, SingleRegenerator,
              TokensIssued, Foreign
<1>b. ASSUME Done(r), Resolve, UNCHANGED <<owner_seq, clock>>,
             node'.kind = "NONE" => ~node'.refreshing
      PROVE  OwnerInv'
  <2>1. \A s \in Requests : /\ tok'[s] \in {tok[s], prev[s], 0}
                            /\ prev'[s] \in {tok[s], prev[s], 0}
    BY <1>b DEF Done, RequestsOK
  <2> QED  BY <1>b, <2>1, ResolveFrame
<1>c. ASSUME ColdWait(r), UNCHANGED <<owner_seq, clock>> PROVE OwnerInv'
  <2>1. CASE Served(r, node) /\ Forfeit(r)
    BY <1>c, <2>1, OwnerDone DEF Served
  <2>2. CASE ~(Served(r, node) /\ Forfeit(r))
    BY <1>a, <1>c, <2>2 DEF ColdWait
  <2> QED  BY <2>1, <2>2
<1>d. ASSUME NEW v, NEW f, NEW u, NEW b
      PROVE  Stored(v, f, u, b).kind = "ENTRY"
  BY DEF Stored, NodeOK, Nodes
<1>1. CASE ServeL1(r)
  BY <1>1, OwnerDone DEF ServeL1, Served
<1>2. CASE ServeL2(r)
  <2>1. CASE Served(r, node) /\ Forfeit(r)
    BY <1>2, <2>1, OwnerDone DEF ServeL2, Served
  <2>2. CASE ~(Served(r, node) /\ Forfeit(r))
    <3> DEFINE n == Stored("page", RemFresh(r), RemStale(r), made[r])
    <3>1. Served(r, n) /\ Resolve
      BY <1>2, <2>2 DEF ServeL2
    <3>2. RemFresh(r) \in Int /\ RemStale(r) \in Nat /\ made[r] \in Nat
      BY <1>2, SingleFlightAssumption
         DEF ServeL2, RemFresh, RemStale, NodeOK, RequestsOK
    <3>3. n \in Nodes /\ n.kind = "ENTRY"
      BY <1>d, <3>2, StoredType
    <3> HIDE DEF n
    <3>4. node'.kind = "NONE" => ~node'.refreshing
      BY <3>1, <3>3, CleanupKeeps DEF Served
    <3> QED  BY <1>2, <1>b, <3>1, <3>4 DEF ServeL2, Served
  <2> QED  BY <2>1, <2>2
<1>3. CASE ClaimFresh(r)
  <2>1. CASE Served(r, node) /\ Forfeit(r)
    BY <1>3, <2>1, OwnerDone DEF ClaimFresh, Served
  <2>2. CASE ~(Served(r, node) /\ Forfeit(r))
    BY <1>3, <1>a, <2>2 DEF ClaimFresh
  <2> QED  BY <2>1, <2>2
<1>4. CASE ClaimLoser(r) \/ ResumeLost(r)
  BY <1>4, <1>c DEF ClaimLoser, ResumeLost
<1>5. ASSUME NEW f \in FreshTtls, StorePage(r, f) \/ StoreError(r) PROVE OwnerInv'
  BY <1>5, <1>b, <1>d DEF StorePage, StoreError
<1>6. ASSUME NEW f \in FreshTtls, NotModified(r, f) PROVE OwnerInv'
  <2>1. CASE HasBody
    <3>1. node'.kind = "ENTRY" /\ Resolve
      BY <1>6, <2>1 DEF NotModified, HasBody, Freshened, NodeOK, Nodes
    <3>2. \A s \in Requests : /\ tok'[s] \in {tok[s], prev[s], 0}
                              /\ prev'[s] \in {tok[s], prev[s], 0}
      BY <1>6 DEF NotModified, locals
    <3> QED  BY <1>6, <3>1, <3>2, ResolveFrame DEF NotModified
  <2>2. CASE ~HasBody
    BY <1>6, <1>a, <2>2 DEF NotModified, locals
  <2> QED  BY <2>1, <2>2
<1>7. CASE End(r)
  BY <1>7, OwnerDone DEF End
<1>8. CASE Die(r)
  BY <1>8, OwnerDone DEF Die
<1>9. CASE StoreError(r)
  BY <1>9, <1>5, SingleFlightAssumption
<1> QED  BY <1>1, <1>2, <1>3, <1>4, <1>5, <1>6, <1>7, <1>8, <1>9 DEF Answer

(* The two steps that grant a lease: they find none that is kept. *)
LEMMA OwnerGrants ==
    ASSUME NodeOK, RequestsOK, NodeOK', RequestsOK', OwnerInv, NEW r \in Requests,
           LeaseStale(r) \/ ClaimWinner(r)
    PROVE  OwnerInv'
<1>0. ~LeaseLive /\ clock' = clock
  BY DEF LeaseStale, ClaimWinner
<1>1. ASSUME NEW s \in Requests, clock < lease[s].until PROVE lease[s].over
  <2>1. CASE ~lease[s].over
    BY <1>0, <1>1, <2>1 DEF OwnerInv, HeldOnNode, LeaseLive
  <2> QED  BY <2>1
<1>2. CASE LeaseStale(r)
  <2>1. /\ lease' = [lease EXCEPT ![r] = [owner |-> 0, until |-> clock + LockTtl,
                                         over |-> node.owner # 0]]
        /\ UNCHANGED <<owner_seq, tok, prev>>
        /\ node'.kind = "ENTRY" /\ node'.refreshing
        /\ node'.lock_until = clock + LockTtl /\ node'.owner = node.owner
    BY <1>2 DEF LeaseStale, locals, InStale, HasBody, NodeOK, Nodes
  <2>2. /\ \A s \in Requests : lease'[s] = lease[s] \/ lease'[s].owner = 0
        /\ \A s \in Requests : s # r => lease'[s] = lease[s]
        /\ lease'[r].owner = 0 /\ lease'[r].until = clock + LockTtl
        /\ lease'[r].over = (node.owner # 0)
    BY <2>1 DEF RequestsOK
  <2>3. HeldOnNode' /\ SingleRegenerator'
    BY <1>0, <1>1, <2>1, <2>2 DEF HeldOnNode, SingleRegenerator
  <2>6. ColdNotOver'
    BY <2>2 DEF OwnerInv, ColdNotOver
  <2>4. TokensIssued'
    BY <2>1, <2>2 DEF TokensIssued, OwnerInv, NodeOK
  <2>5. \A p, s \in Requests : p # s => Foreign(p, s)'
    BY <2>1, <2>2 DEF Foreign, OwnerInv
  <2> QED  BY <2>1, <2>3, <2>4, <2>5, <2>6 DEF OwnerInv
<1>3. CASE ClaimWinner(r)
  <2> DEFINE t == owner_seq + 1
  <2>1. /\ lease' = [lease EXCEPT ![r] = [owner |-> t, until |-> clock + LockTtl,
                                         over |-> FALSE]]
        /\ tok' = [tok EXCEPT ![r] = t] /\ prev' = prev /\ owner_seq' = t
        /\ node' = Leased(Counted(r), t)
    BY <1>3 DEF ClaimWinner
  <2>2. /\ t \in Nat /\ t # 0 /\ t > owner_seq
        /\ \A s \in Requests : /\ tok[s] \in Nat /\ prev[s] \in Nat
                               /\ lease[s].owner \in Nat
                               /\ tok[s] < t /\ prev[s] < t /\ lease[s].owner < t
    BY DEF NodeOK, RequestsOK, Leases, OwnerInv, TokensIssued
  <2> HIDE DEF t
  <2>3. \A s \in Requests :
           /\ s # r => lease'[s] = lease[s] /\ tok'[s] = tok[s]
           /\ s = r => /\ lease'[s].owner = t /\ tok'[s] = t
                       /\ lease'[s].until = clock + LockTtl /\ ~lease'[s].over
           /\ prev'[s] = prev[s]
    BY <2>1 DEF RequestsOK
  <2>4. /\ node'.refreshing /\ node'.owner = t
        /\ node'.lock_until = clock + LockTtl /\ node'.kind # "NONE"
    <3>1. Counted(r) \in Nodes
      BY CountMissType DEF Counted, NodeOK
    <3>2. PICK m \in Nodes : /\ m.kind # "NONE"
                             /\ node' = [m EXCEPT !.refreshing = TRUE,
                                                  !.lock_until = clock + LockTtl,
                                                  !.owner = t]
      <4>1. Stub \in Nodes /\ Stub.kind = "COUNTER"
        BY StubType DEF NodeOK, Stub, Absent
      <4> QED  BY <2>1, <3>1, <4>1 DEF Leased
    <3> QED  BY <3>2 DEF Nodes
  <2>5. HeldOnNode' /\ SingleRegenerator'
    BY <1>0, <1>1, <2>3, <2>4 DEF HeldOnNode, SingleRegenerator
  <2>8. ColdNotOver'
    BY <2>3 DEF OwnerInv, ColdNotOver
  <2>6. TokensIssued'
    BY <2>1, <2>2, <2>3 DEF TokensIssued
  <2>7. ASSUME NEW p \in Requests, NEW s \in Requests, p # s PROVE Foreign(p, s)'
    <3>1. Foreign(p, s)
      BY <2>7 DEF OwnerInv
    <3>2. CASE s = r
      BY <2>2, <2>3, <2>7, <3>2 DEF Foreign
    <3>3. CASE s # r
      BY <2>2, <2>3, <2>7, <3>1, <3>3 DEF Foreign
    <3> QED  BY <3>2, <3>3
  <2> QED  BY <2>4, <2>5, <2>6, <2>7, <2>8 DEF OwnerInv
<1> QED  BY <1>2, <1>3

(* OwnerInv at the start *)
LEMMA OwnerInit == Init => OwnerInv
  BY DEF Init, OwnerInv, HeldOnNode, ColdNotOver, SingleRegenerator, TokensIssued,
         Foreign, NoLease, Absent

(* The ownership invariant is inductive. *)
LEMMA OwnerNext == TypeOK /\ TypeOK' /\ OwnerInv /\ [Next]_vars => OwnerInv'
<1> SUFFICES ASSUME TypeOK, TypeOK', OwnerInv, [Next]_vars PROVE OwnerInv'
  OBVIOUS
<1>1. NodeOK /\ RequestsOK /\ NodeOK' /\ RequestsOK'
  BY DEF TypeOK, NodeOK, RequestsOK
<1>2. CASE UNCHANGED vars
  BY <1>2 DEF vars, OwnerInv, HeldOnNode, ColdNotOver, SingleRegenerator,
              TokensIssued, Foreign
<1>3. CASE Evict
  <2>1. \A s \in Requests : /\ tok'[s] \in {tok[s], prev[s], 0}
                            /\ prev'[s] \in {tok[s], prev[s], 0}
    BY <1>3 DEF Evict, locals
  <2>2. node'.kind = "NONE" => ~node'.refreshing
    BY <1>3 DEF Evict, Absent
  <2> QED  BY <1>1, <1>3, <2>1, <2>2, ResolveFrame DEF Evict
<1>4. CASE Tick
  <2>1. clock' >= clock
    BY <1>1, <1>4 DEF Tick, NodeOK
  <2>2. UNCHANGED <<node, owner_seq, tok, prev, lease>>
    BY <1>4 DEF Tick, locals
  <2>3. node'.kind = "NONE" => ~node'.refreshing
    BY <2>2 DEF OwnerInv
  <2> QED  BY <1>1, <2>1, <2>2, <2>3, OwnerFrame
<1>5. CASE Next /\ ~Evict /\ ~Tick
  BY <1>1, <1>5, OwnerPlain, OwnerEnds, OwnerGrants DEF Next, Run
<1> QED  BY <1>2, <1>3, <1>4, <1>5

(* A cold-miss lease is its holder's until its deadline, for any number of  *)
(* requests and whatever waits, redirects, takeovers, cleanups, evictions   *)
(* and deaths happen in between: shm_claim(), unstub() and owns() agree on  *)
(* whose the stub is.                                                       *)
THEOREM LeaseIsKept == Spec => []ColdLeaseKept
<1>1. OwnerInv => ColdLeaseKept
  BY DEF OwnerInv, HeldOnNode, ColdNotOver, ColdLeaseKept
<1> QED  BY <1>1, TypeInit, TypeNext, OwnerInit, OwnerNext, PTL DEF Spec

(* At most one request holds an unexpired lease on the key, a cold miss's   *)
(* or a stale-while-revalidate refresh's, for any number of requests: the   *)
(* two kinds of lease share the node's refreshing flag, and no cleanup,     *)
(* late or not, takes another's away, but for a refresh begun over an       *)
(* expired cold lease.                                                      *)
THEOREM OneRegenerator == Spec => []SingleRegenerator
<1>1. OwnerInv => SingleRegenerator
  BY DEF OwnerInv
<1> QED  BY <1>1, TypeInit, TypeNext, OwnerInit, OwnerNext, PTL DEF Spec

-----------------------------------------------------------------------------
(* What becomes of a body that no store and no 304 touches: it stays as it  *)
(* is or is dropped.                                                        *)
KeepsBody(m, n) ==
    m.val = "none" \/ (/\ m.kind = n.kind /\ m.val = n.val
                       /\ m.fresh = n.fresh /\ m.born = n.born)

(* The shm functions that count, claim, release and remember are such. *)
LEMMA BodyKept ==
    ASSUME NodeOK, NEW n \in Nodes
    PROVE  /\ \A r : KeepsBody(Cleanup(n, r), n)
           /\ KeepsBody(CountMiss(n).node, n)
           /\ KeepsBody(NegMemo(n), n)
           /\ \A m \in Nodes : \A t :
                  KeepsBody(m, n) => KeepsBody(Leased(m, t), n)
<1>1. Stub \in Nodes /\ Stub.val = "none"
  BY StubType DEF NodeOK, Stub, Absent
<1>2. ASSUME NEW m \in Nodes, NEW t PROVE KeepsBody(Unstub(m, t), m)
  BY DEF KeepsBody, Unstub, Absent, Nodes
<1>3. ASSUME NEW r PROVE KeepsBody(Cleanup(n, r), n)
  <2>1. /\ Unstub(n, tok[r]) \in Nodes
        /\ KeepsBody(Unstub(n, tok[r]), n)
    BY <1>2, UnstubType
  <2> QED  BY <1>2, <2>1 DEF Cleanup, KeepsBody
<1>4. KeepsBody(CountMiss(n).node, n)
  <2>1. PICK m \in {n, Stub} :
           \/ CountMiss(n).node = m
           \/ \E x, y : CountMiss(n).node = [m EXCEPT !.miss = x, !.missed = y]
    BY DEF CountMiss
  <2>2. m \in Nodes /\ KeepsBody(m, n)
    BY <1>1, <2>1 DEF KeepsBody
  <2>3. \A x, y : KeepsBody([m EXCEPT !.miss = x, !.missed = y], n)
    BY <2>2 DEF KeepsBody, Nodes
  <2>4. CASE CountMiss(n).node = m
    BY <2>2, <2>4
  <2>5. CASE CountMiss(n).node # m
    <3>1. PICK x, y : CountMiss(n).node = [m EXCEPT !.miss = x, !.missed = y]
      BY <2>1, <2>5
    <3>2. KeepsBody([m EXCEPT !.miss = x, !.missed = y], n)
      BY <2>3
    <3> QED  BY <3>1, <3>2
  <2> QED  BY <2>4, <2>5
<1>5. KeepsBody(NegMemo(n), n)
  BY <1>1 DEF KeepsBody, NegMemo, Nodes
<1>6. ASSUME NEW m \in Nodes, NEW t, KeepsBody(m, n) PROVE KeepsBody(Leased(m, t), n)
  <2>1. CASE m.kind = "NONE"
    BY <1>1, <2>1 DEF KeepsBody, Leased, Nodes
  <2>2. CASE m.kind # "NONE"
    BY <1>6, <2>2 DEF KeepsBody, Leased, Nodes
  <2> QED  BY <2>1, <2>2
<1> QED  BY <1>3, <1>4, <1>5, <1>6

(* What a request's step does to the body of the node: the stores of a page *)
(* and of an error, the 304, the promotion, and all other steps.            *)
PageStored == \E f \in FreshTtls : node' = Stored("page", f, f + StaleFor, clock)

ErrorStored == ~InStale /\ node' = Stored("error", ErrorTtl, ErrorTtl + StaleFor, clock)

PageFreshened == \E f \in FreshTtls : HasBody /\ node' = Freshened(f)

CopyPromoted(r) ==
    /\ got[r] = "copy" /\ RemStale(r) > 0
    /\ ~(HasBody /\ node.fresh > clock + RemFresh(r))
    /\ node' = Stored("page", RemFresh(r), RemStale(r), made[r])

LEMMA BodySteps ==
    ASSUME TypeOK, [Next]_vars
    PROVE  \/ KeepsBody(node', node) \/ PageStored \/ ErrorStored \/ PageFreshened
           \/ \E r \in Requests : CopyPromoted(r)
<1>0. NodeOK /\ RequestsOK /\ node \in Nodes
  BY DEF TypeOK, NodeOK, RequestsOK
<1>1. CASE UNCHANGED node
  BY <1>1 DEF KeepsBody
<1>2. CASE Evict
  BY <1>2 DEF Evict, Absent, KeepsBody
<1>3. ASSUME NEW r \in Requests,
             node' \in {CountMiss(node).node, NegMemo(node), Cleanup(node, r)}
      PROVE  KeepsBody(node', node)
  BY <1>0, <1>3, BodyKept
<1>4. ASSUME NEW r \in Requests, LeaseStale(r) \/ SkipL2(r)
      PROVE  KeepsBody(node', node)
  BY <1>0, <1>4 DEF LeaseStale, SkipL2, Nodes, KeepsBody
<1>5. ASSUME NEW r \in Requests, ServeL2(r)
      PROVE  KeepsBody(node', node) \/ CopyPromoted(r)
  <2>1. CASE HasBody /\ node.fresh > clock + RemFresh(r)
    BY <1>3, <1>5, <2>1 DEF ServeL2, Served
  <2>2. CASE ~(HasBody /\ node.fresh > clock + RemFresh(r))
    <3> DEFINE n == Stored("page", RemFresh(r), RemStale(r), made[r])
    <3>1. node' = Cleanup(n, r)
      BY <1>5, <2>2 DEF ServeL2, Served
    <3>2. RemFresh(r) \in Int /\ RemStale(r) \in Nat /\ made[r] \in Nat
      BY <1>0, <1>5, SingleFlightAssumption
         DEF ServeL2, RemFresh, RemStale, NodeOK, RequestsOK
    <3>3. n \in Nodes /\ n.owner = 0
      <4>1. n.owner = 0
        BY <1>0 DEF Stored, Nodes
      <4>2. n \in Nodes
        BY <1>0, <3>2, StoredType
      <4> QED  BY <4>1, <4>2
    <3> HIDE DEF n
    <3>4. node' = n
      BY <3>1, <3>3, CleanupKeeps
    <3> QED  BY <1>5, <2>2, <3>4 DEF n, ServeL2, CopyPromoted
  <2> QED  BY <2>1, <2>2
<1>6. ASSUME NEW r \in Requests, ClaimWinner(r)
      PROVE  KeepsBody(node', node)
  <2>1. Counted(r) \in Nodes /\ KeepsBody(Counted(r), node)
    BY <1>0, BodyKept, CountMissType DEF Counted, KeepsBody
  <2> QED  BY <1>0, <1>6, <2>1, BodyKept DEF ClaimWinner
<1>7. ASSUME NEW r \in Requests, NEW f \in FreshTtls, StorePage(r, f)
      PROVE  PageStored
  BY <1>7 DEF StorePage, PageStored
<1>8. ASSUME NEW r \in Requests, NEW f \in FreshTtls, NotModified(r, f)
      PROVE  UNCHANGED node \/ PageFreshened
  BY <1>8 DEF NotModified, PageFreshened
<1>9. ASSUME NEW r \in Requests, StoreError(r)
      PROVE  ErrorStored
  BY <1>9 DEF StoreError, ErrorStored
<1>10. ASSUME NEW r \in Requests,
             \/ \E b \in Bounds : Arrive(r, b)
             \/ Run(r) \/ AnswerL2(r) \/ Redirect(r) \/ Die(r) \/ End(r)
       PROVE \/ UNCHANGED node
             \/ node' \in {CountMiss(node).node, NegMemo(node), Cleanup(node, r)}
             \/ LeaseStale(r) \/ SkipL2(r) \/ ServeL2(r) \/ ClaimWinner(r)
  BY <1>10
     DEF Run, AnswerL2, Arrive, Redirect, Die, End, ServeL1, Served, RegenerateStale,
         MissL1, AskL2, MissL2, ColdUnlocked, BelowMinUses, ClaimFresh, ClaimNoRoom,
         AdoptOwnStub, ClaimLoser, ResumeWon, ResumeLost, ColdWait, Poll, LockAnswer,
         GetAnswer
<1>11. CASE UNCHANGED vars \/ Tick
  BY <1>1, <1>11 DEF vars, Tick
<1>12. CASE Next /\ ~Tick /\ ~Evict
  BY <1>1, <1>3, <1>4, <1>5, <1>6, <1>7, <1>8, <1>9, <1>10, <1>12 DEF Next, Answer
<1> QED  BY <1>2, <1>11, <1>12

(* A page that may still be served is not buried under an error page: no    *)
(* other step makes an error of it, and a store of one looks at what is     *)
(* resident in its critical section (STORE_IF_ABSENT_OR_DEAD).              *)
THEOREM NothingServableBuried == Spec => ServableNotBuried
<1>1. TypeOK /\ [Next]_vars
      => [InStale /\ node.val = "page" => node'.val # "error"]_vars
  <2> SUFFICES ASSUME TypeOK, [Next]_vars, InStale, node.val = "page"
               PROVE  node'.val # "error"
    OBVIOUS
  <2>0. node \in Nodes
    BY DEF TypeOK
  <2>1. CASE KeepsBody(node', node)
    BY <2>1 DEF KeepsBody
  <2>2. CASE PageStored \/ \E r \in Requests : CopyPromoted(r)
    BY <2>0, <2>2 DEF PageStored, CopyPromoted, Stored, Nodes
  <2>3. CASE PageFreshened
    BY <2>0, <2>3 DEF PageFreshened, Freshened, Nodes
  <2>4. CASE ErrorStored
    BY <2>4 DEF ErrorStored
  <2> QED  BY <2>1, <2>2, <2>3, <2>4, BodySteps
<1> QED  BY <1>1, TypeInit, TypeNext, PTL DEF Spec, ServableNotBuried

-----------------------------------------------------------------------------
(* Pages with lifetimes from Lo to Hi: how far a page stays fresh tells how  *)
(* old it is, to within the spread of the lifetimes; a 304 may have made    *)
(* that longer.                                                             *)
AgeTold(Lo, Hi) ==
    /\ node.val = "page" => /\ node.kind = "ENTRY" /\ node.born <= clock
                            /\ node.born + Lo <= node.fresh
    /\ \A r \in Requests :
          got[r] = "copy" => life[r] \in Lo..Hi /\ made[r] <= clock

(* Copies come from the L2 GET and are not changed by anything else. *)
LEMMA CopiesAreTold ==
    ASSUME TypeOK, [Next]_vars, NEW s \in Requests, got'[s] = "copy"
    PROVE  \/ got[s] = "copy" /\ life'[s] = life[s] /\ made'[s] = made[s]
           \/ life'[s] \in FreshTtls /\ made'[s] \in 0..clock
<1>0. RequestsOK
  BY DEF TypeOK, RequestsOK
<1>1. CASE UNCHANGED <<got, life, made>>
  BY <1>1
<1>2. ASSUME NEW r \in Requests, Done(r) \/ Redirect(r)
      PROVE  got[s] = "copy" /\ life'[s] = life[s] /\ made'[s] = made[s]
  BY <1>0, <1>2 DEF Done, Redirect, ForgetL2, RequestsOK
<1>3. ASSUME NEW r \in Requests, SkipL2(r) \/ MissL2(r)
      PROVE  got[s] = "copy" /\ life'[s] = life[s] /\ made'[s] = made[s]
  BY <1>0, <1>3 DEF SkipL2, MissL2, RequestsOK
<1>4. ASSUME NEW r \in Requests, ClaimLoser(r) \/ ResumeLost(r)
      PROVE  got[s] = "copy" /\ life'[s] = life[s] /\ made'[s] = made[s]
  <2>1. CASE Done(r)
    BY <1>2, <2>1
  <2>2. CASE ~Done(r)
    BY <1>0, <1>4, <2>2 DEF ClaimLoser, ResumeLost, ColdWait, Served, RequestsOK
  <2> QED  BY <2>1, <2>2
<1>5. ASSUME NEW r \in Requests, AnswerL2(r)
      PROVE  \/ got[s] = "copy" /\ life'[s] = life[s] /\ made'[s] = made[s]
             \/ life'[s] \in FreshTtls /\ made'[s] \in 0..clock
  BY <1>0, <1>5 DEF AnswerL2, GetAnswer, LockAnswer, RequestsOK, l2vars
<1>6. ASSUME NEW r \in Requests,
             \/ \E b \in Bounds : Arrive(r, b)
             \/ Run(r) \/ Answer(r) \/ Redirect(r) \/ Die(r)
      PROVE  \/ UNCHANGED <<got, life, made>>
             \/ Done(r) \/ Redirect(r) \/ SkipL2(r) \/ MissL2(r) \/ ClaimLoser(r)
             \/ ResumeLost(r)
  BY <1>6 DEF Arrive, Run, Answer, Redirect, Die, ServeL1, Served, LeaseStale,
              RegenerateStale, MissL1, AskL2, ServeL2, ColdUnlocked, BelowMinUses,
              ClaimFresh, ClaimWinner, ClaimNoRoom, AdoptOwnStub, ResumeWon, Poll,
              StorePage, StoreError, NotModified, End, locals, l2vars
<1>7. CASE UNCHANGED vars \/ Tick \/ Evict
  BY <1>1, <1>7 DEF vars, Tick, Evict, locals, l2vars
<1>8. CASE Next /\ ~Tick /\ ~Evict
  BY <1>1, <1>2, <1>3, <1>4, <1>5, <1>6, <1>8 DEF Next
<1> QED  BY <1>7, <1>8

(* AgeTold is inductive. *)
LEMMA AgeToldNext ==
    ASSUME NEW Lo \in Nat, NEW Hi \in Nat, FreshTtls \subseteq Lo..Hi,
           TypeOK, TypeOK', AgeTold(Lo, Hi), [Next]_vars
    PROVE  /\ AgeTold(Lo, Hi)'
           /\ node.val = "page" /\ node'.val = "page"
              => node'.born + (Hi - Lo) >= node.born
<1>0. /\ node \in Nodes /\ clock \in Nat /\ clock' \in Nat /\ StaleFor \in Nat
      /\ node.born \in Nat /\ node.fresh \in Int
  BY SingleFlightAssumption DEF TypeOK, Nodes
<1>f. Lo <= Hi
  <2>1. PICK f \in FreshTtls : f \in Nat /\ f \in Lo..Hi
    BY SingleFlightAssumption
  <2> QED  BY <2>1
<1>1. clock <= clock'
  BY <1>0
     DEF Next, vars, Arrive, Run, AnswerL2, Answer, Redirect, Die, Evict, Tick, ServeL1,
     LeaseStale, RegenerateStale, MissL1, SkipL2, AskL2, ServeL2, MissL2,
     ColdUnlocked, BelowMinUses, ClaimFresh, ClaimWinner, ClaimNoRoom, AdoptOwnStub,
     ClaimLoser, ResumeWon, ResumeLost, Poll, LockAnswer, GetAnswer, StorePage,
     StoreError, NotModified, End
<1>2. \A s \in Requests :
         got'[s] = "copy" => life'[s] \in Lo..Hi /\ made'[s] <= clock'
  <2> SUFFICES ASSUME NEW s \in Requests, got'[s] = "copy"
               PROVE  life'[s] \in Lo..Hi /\ made'[s] <= clock'
    OBVIOUS
  <2>1. made[s] \in Nat /\ made'[s] \in Nat
    BY DEF TypeOK
  <2>2. CASE got[s] = "copy" /\ life'[s] = life[s] /\ made'[s] = made[s]
    BY <1>0, <1>1, <2>1, <2>2 DEF AgeTold
  <2>3. CASE life'[s] \in FreshTtls /\ made'[s] \in 0..clock
    <3>1. life'[s] \in Lo..Hi
      BY <2>3
    <3>2. made'[s] <= clock
      BY <1>0, <2>1, <2>3
    <3> QED  BY <1>0, <1>1, <2>1, <3>1, <3>2
  <2> QED  BY <2>2, <2>3, CopiesAreTold
<1>3. ASSUME node'.val = "page"
      PROVE  /\ node'.kind = "ENTRY" /\ node'.born <= clock'
             /\ node'.born + Lo <= node'.fresh
             /\ node.val = "page" => node'.born + (Hi - Lo) >= node.born
  <2>1. CASE KeepsBody(node', node)
    BY <1>0, <1>f, <1>1, <1>3, <2>1 DEF KeepsBody, AgeTold
  <2>2. CASE PageStored
    <3>1. /\ node'.kind = "ENTRY" /\ node'.born = clock
          /\ node'.fresh >= clock + Lo
      BY <1>0, <2>2 DEF PageStored, Stored, Nodes
    <3> QED  BY <1>0, <1>f, <1>1, <3>1 DEF AgeTold
  <2>3. CASE PageFreshened
    <3>1. /\ node'.kind = node.kind /\ node'.born = node.born /\ node'.val = node.val
          /\ node'.fresh >= clock + Lo
      BY <1>0, <2>3 DEF PageFreshened, Freshened, Nodes
    <3>2. /\ node.kind = "ENTRY" /\ node.born <= clock
      BY <1>3, <3>1 DEF AgeTold
    <3>3. node'.fresh \in Int /\ node'.born + Lo <= node'.fresh
      BY <1>0, <3>1, <3>2 DEF TypeOK, Nodes
    <3> QED  BY <1>0, <1>f, <1>1, <3>1, <3>2, <3>3
  <2>4. ASSUME NEW r \in Requests, CopyPromoted(r)
        PROVE  /\ node'.kind = "ENTRY" /\ node'.born <= clock'
               /\ node'.born + Lo <= node'.fresh
               /\ node.val = "page" => node'.born + (Hi - Lo) >= node.born
    <3>1. made[r] \in Nat /\ made[r] <= clock /\ life[r] \in Lo..Hi
      BY <2>4 DEF CopyPromoted, AgeTold, TypeOK
    <3>2. clock + RemFresh(r) = made[r] + life[r]
      BY <1>0, <3>1 DEF RemFresh
    <3>3. /\ node'.kind = "ENTRY" /\ node'.born = made[r]
          /\ node'.fresh = clock + RemFresh(r)
      BY <1>0, <2>4 DEF CopyPromoted, Stored, Nodes
    <3>4. node.val = "page" => ~(node.fresh > made[r] + life[r])
      BY <2>4, <3>2 DEF CopyPromoted, AgeTold, HasBody
    <3>5. node.val = "page" => node.born + Lo <= node.fresh
      BY DEF AgeTold
    <3> QED  BY <1>0, <1>1, <3>1, <3>2, <3>3, <3>4, <3>5
  <2>5. CASE ErrorStored
    BY <1>0, <1>3, <2>5 DEF ErrorStored, Stored, Nodes
  <2> QED  BY <2>1, <2>2, <2>3, <2>4, <2>5, BodySteps
<1> QED  BY <1>2, <1>3 DEF AgeTold

(* A page never gives way to one older than it by more than the lifetimes   *)
(* of pages differ: a promotion compares fresh_until (STORE_IF_NEWER), which *)
(* says how old a page is to within that spread, a store brings a new page, *)
(* and a 304 leaves the page its age.                                       *)
THEOREM OldNeverOverNew ==
    ASSUME NEW Lo \in Nat, NEW Hi \in Nat, FreshTtls \subseteq Lo..Hi
    PROVE  Spec => [][node.val = "page" /\ node'.val = "page"
                      => node'.born + (Hi - Lo) >= node.born]_vars
<1>1. Init => AgeTold(Lo, Hi)
  BY DEF Init, AgeTold, Absent
<1>2. TypeOK /\ TypeOK' /\ AgeTold(Lo, Hi) /\ [Next]_vars => AgeTold(Lo, Hi)'
  BY AgeToldNext
<1>3. TypeOK /\ TypeOK' /\ AgeTold(Lo, Hi) /\ [Next]_vars
      => [node.val = "page" /\ node'.val = "page"
          => node'.born + (Hi - Lo) >= node.born]_vars
  BY AgeToldNext
<1> HIDE DEF AgeTold
<1> QED  BY <1>1, <1>2, <1>3, TypeInit, TypeNext, PTL DEF Spec

(* So where all pages have one lifetime, none gives way to an older one.    *)
COROLLARY OneLifetime ==
    ASSUME NEW F \in Nat, FreshTtls = {F}
    PROVE  Spec => NoOldPageOverNew
<1>0. FreshTtls \subseteq F..F
  OBVIOUS
<1>1. Init => AgeTold(F, F)
  BY DEF Init, AgeTold, Absent
<1>2. TypeOK /\ TypeOK' /\ AgeTold(F, F) /\ [Next]_vars
      => /\ AgeTold(F, F)'
         /\ node.val = "page" /\ node'.val = "page"
            => node'.born + (F - F) >= node.born
  BY <1>0, AgeToldNext
<1>3. TypeOK /\ TypeOK' /\ AgeTold(F, F) /\ [Next]_vars
      => [node.val = "page" /\ node'.val = "page" => node'.born >= node.born]_vars
  <2>1. TypeOK /\ TypeOK' => node.born \in Nat /\ node'.born \in Nat
    BY DEF TypeOK, Nodes
  <2> HIDE DEF AgeTold
  <2> QED  BY <1>2, <2>1
<1> HIDE DEF AgeTold
<1> QED  BY <1>1, <1>2, <1>3, TypeInit, TypeNext, PTL DEF Spec, NoOldPageOverNew

=============================================================================
