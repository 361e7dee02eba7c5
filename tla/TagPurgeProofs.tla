--------------------------- MODULE TagPurgeProofs ---------------------------
(***************************************************************************)
(* Proofs about TagPurge for any number of keys, purges, pages and stores: *)
(* the token of a suspended walk, what a retry can find, and what the      *)
(* success of a purge means.                                               *)
(***************************************************************************)
EXTENDS TagPurge, FiniteSetTheorems, TLAPS

(* A version of k is in Redis, or on its way there.                         *)
HasSet(k) == \E w \in wires : w.cmd = "SET" /\ w.key = k
Present(k) == l2[k] # 0 \/ HasSet(k)

(* The walk of a purge, its token and its client.                           *)
TokenAt(p) ==
    /\ walk[p].st = "suspended" <=> unlink[p].st # "none" /\ unlink[p].resume
    /\ unlink[p].alive => unlink[p].resume /\ reply[p] = "none"
                          /\ unlink[p].st # "none"
    /\ walk[p].detached => walk[p].st = "suspended"
    /\ walk[p].st \in {"ask", "suspended"} =>
         reply[p] = IF walk[p].detached THEN "gone" ELSE "none"
    /\ walk[p].st \in {"none", "ask"} => unlink[p].st = "none"
    /\ unlink[p].st # "none" \/ snap[p].at # 0 => kind[p] = "tag"

(* What is in Redis can be found.                                           *)
IndexedAt(k) == Present(k) /\ k \notin lost \cup raced \cup Inflight => k \in index

(* A version is made once, and leaves the set only when it is gone or was   *)
(* stored while a purge had hold of it.                                     *)
WireAt(w) ==
    /\ w.cmd = "SET" => w.ver \in 1..stored /\ l2[w.key] # w.ver
    /\ w.cmd = "SREM" => \A k \in w.members \cap Keys : k \in raced \/ ~Present(k)

UnlinkAt(p) ==
    \A k \in unlink[p].page \cap Keys :
        /\ unlink[p].st = "sent" => k \in raced \/ ~HasSet(k)
        /\ unlink[p].st = "executed" => k \in raced \/ ~Present(k)

(* What a purge that succeeds has done about an object it found: it is      *)
(* gone, or another version is there, or its UNLINK was sent.               *)
Handled(p, f) ==
    \/ f[1] \in raced \/ l2[f[1]] # f[2]
    \/ kind[p] = "all" /\ f[1] \in missed \cup
         UNION {w.members : w \in {c \in wires : c.cmd = "UNLINK"}}

(* An object that a walk found is done with, or still owed to it, or its    *)
(* UNLINK is on the way.                                                    *)
FoundAt(p) ==
    \A f \in found[p] :
        /\ f[2] \in 1..stored /\ SetCmd(f[1], f[2]) \notin wires
        /\ kind[p] = "tag" /\ l2[f[1]] = f[2] => f[1] \in raced \cup index
        /\ walk[p].st \in {"ask", "suspended"} =>
             \/ Handled(p, f) \/ f[1] \in walk[p].todo
             \/ kind[p] = "tag" /\ unlink[p].st = "sent" /\ f[1] \in unlink[p].page

PurgeInv ==
    /\ TypeOK /\ IsFiniteSet(Inflight)
    /\ \A k \in Keys : IndexedAt(k) /\ l2[k] <= stored
    /\ \A w \in wires : WireAt(w)
    /\ \A p \in Purges : TokenAt(p) /\ UnlinkAt(p) /\ FoundAt(p)

-----------------------------------------------------------------------------
(* Commands on their way. *)

LEMMA WireKinds ==
    ASSUME TypeOK, NEW w \in wires
    PROVE  /\ w.cmd \in {"SET", "SADD", "UNLINK", "SREM"}
           /\ w.cmd = "SET" => w.key \in Keys /\ w.ver \in Nat
                               /\ w = SetCmd(w.key, w.ver)
           /\ w.cmd = "SADD" => w.key \in Keys /\ w = Sadd(w.key)
           /\ w.cmd \in {"UNLINK", "SREM"} => w.members \in SUBSET (Keys \cup Junk)
<1>1. CASE w \in [cmd : {"SET"}, key : Keys, ver : Nat]
  BY <1>1 DEF SetCmd
<1>2. CASE w \in [cmd : {"SADD"}, key : Keys]
  BY <1>2 DEF Sadd
<1>3. CASE w \in [cmd : {"UNLINK", "SREM"}, by : Purges,
                  members : SUBSET (Keys \cup Junk)]
  BY <1>3
<1> QED  BY <1>1, <1>2, <1>3 DEF TypeOK, WireType

LEMMA Commands ==
    /\ \A k \in Keys, v \in Nat :
         /\ SetCmd(k, v) \in WireType /\ SetCmd(k, v).cmd = "SET"
         /\ SetCmd(k, v).key = k /\ SetCmd(k, v).ver = v
    /\ \A k \in Keys : Sadd(k) \in WireType /\ Sadd(k).cmd = "SADD" /\ Sadd(k).key = k
    /\ \A p \in Purges, m \in SUBSET (Keys \cup Junk) :
         /\ UnlinkCmd(p, m) \in WireType /\ UnlinkCmd(p, m).cmd = "UNLINK"
         /\ UnlinkCmd(p, m).members = m
         /\ Srem(p, m) \in WireType /\ Srem(p, m).cmd = "SREM"
         /\ Srem(p, m).members = m
<1>1. \A k \in Keys, v \in Nat :
         /\ SetCmd(k, v) \in WireType /\ SetCmd(k, v).cmd = "SET"
         /\ SetCmd(k, v).key = k /\ SetCmd(k, v).ver = v
  BY DEF SetCmd, WireType
<1>2. \A k \in Keys : Sadd(k) \in WireType /\ Sadd(k).cmd = "SADD" /\ Sadd(k).key = k
  BY DEF Sadd, WireType
<1>3. \A p \in Purges, m \in SUBSET (Keys \cup Junk) :
         /\ UnlinkCmd(p, m) \in WireType /\ UnlinkCmd(p, m).cmd = "UNLINK"
         /\ UnlinkCmd(p, m).members = m
  BY DEF UnlinkCmd, WireType
<1>4. \A p \in Purges, m \in SUBSET (Keys \cup Junk) :
         /\ Srem(p, m) \in WireType /\ Srem(p, m).cmd = "SREM"
         /\ Srem(p, m).members = m
  BY DEF Srem, WireType
<1> QED  BY <1>1, <1>2, <1>3, <1>4

LEMMA FoundPairs ==
    ASSUME TypeOK, NEW p \in Purges
    PROVE  \A f \in found[p] : f[1] \in Keys /\ f[2] \in Nat
<1>1. found[p] \subseteq Keys \X Nat
  BY DEF TypeOK
<1>2. \A f \in Keys \X Nat : f[1] \in Keys /\ f[2] \in Nat
  OBVIOUS
<1> QED  BY <1>1, <1>2

-----------------------------------------------------------------------------
(* The steps of a walk. *)

Answers == {"none", "gone", "complete", "partial", "incomplete", "base only",
            "unavailable"}

(* A walk ends, or goes on with what is owed; its client hears of success   *)
(* only if it was one.                                                      *)
Moves(p, owed, ok) ==
    /\ walk' \in [Purges -> WalkType] /\ reply' \in [Purges -> Answers]
    /\ \A q \in Purges : q # p => walk'[q] = walk[q] /\ reply'[q] = reply[q]
    /\ reply[p] = "none" /\ reply'[p] \in {"complete", "partial"} => ok
    /\ ~walk'[p].detached
    /\ \/ walk'[p].st = "freed"
       \/ /\ walk'[p].st = "ask" /\ walk'[p].todo = owed
          /\ reply'[p] = reply[p] /\ ~walk[p].detached

LEMMA NoWalkOK ==
    /\ [NoWalk EXCEPT !.st = "freed"] \in WalkType /\ NoWalk \in WalkType
    /\ [NoWalk EXCEPT !.st = "freed"].st = "freed"
    /\ [NoWalk EXCEPT !.st = "freed"].detached = FALSE
    /\ NoUnlink \in UnlinkType
<1>1. 0 \in 0..MaxPages /\ {} \in SUBSET (Keys \cup Junk)
  BY TagPurgeAssumption
<1> QED  BY <1>1 DEF NoWalk, WalkType, NoUnlink, UnlinkType

LEMMA FreedOf ==
    ASSUME TypeOK, NEW p \in Purges, walk' = Freed(p)
    PROVE  /\ walk' \in [Purges -> WalkType]
           /\ walk'[p].st = "freed" /\ ~walk'[p].detached
           /\ \A q \in Purges : q # p => walk'[q] = walk[q]
<1>1. PICK f \in WalkType : f = [NoWalk EXCEPT !.st = "freed"] /\ f.st = "freed"
                             /\ f.detached = FALSE
  BY NoWalkOK
<1>2. walk' = [walk EXCEPT ![p] = f]
  BY <1>1 DEF Freed
<1> QED  BY ZenonT(40), <1>1, <1>2 DEF TypeOK

LEMMA FinishOf ==
    ASSUME TypeOK, NEW p \in Purges, NEW ok \in BOOLEAN, NEW n, NEW owed,
           Finish(p, ok, n)
    PROVE  Moves(p, owed, ok)
<1>1. /\ walk' \in [Purges -> WalkType]
      /\ walk'[p].st = "freed" /\ ~walk'[p].detached
      /\ \A q \in Purges : q # p => walk'[q] = walk[q]
  BY FreedOf DEF Finish
<1>2. PICK a : /\ a = IF walk[p].detached THEN reply[p]
                      ELSE IF kind[p] = "tag" THEN TagReply(p, ok)
                      ELSE AllReply(ok, n)
               /\ reply' = [reply EXCEPT ![p] = a]
  BY DEF Finish
<1>3. TagReply(p, ok) \in Answers /\ (TagReply(p, ok) \in {"complete", "partial"} => ok)
  BY DEF TagReply, Answers
<1>4. AllReply(ok, n) \in Answers /\ (AllReply(ok, n) \in {"complete", "partial"} => ok)
  BY DEF AllReply, Answers
<1>5. reply \in [Purges -> Answers]
  BY DEF TypeOK, Answers
<1>6. a \in Answers /\ (reply[p] = "none" /\ a \in {"complete", "partial"} => ok)
  BY <1>2, <1>3, <1>4, <1>5
<1> QED  BY <1>1, <1>2, <1>5, <1>6 DEF Moves

LEMMA AdvanceOf ==
    ASSUME TypeOK, NEW p \in Purges, NEW owed \in SUBSET (Keys \cup Junk),
           Advance(p, owed), ~walk[p].detached
    PROVE  Moves(p, owed, owed = {})
<1>1. CASE \E n : owed = {} /\ Finish(p, TRUE, n)
  BY <1>1, FinishOf DEF Moves
<1>2. CASE \E n : Finish(p, FALSE, n)
  BY <1>2, FinishOf DEF Moves
<1>3. ASSUME NEW n, n = walk[p].pages + 1, n < MaxPages, UNCHANGED reply,
             walk' = [walk EXCEPT ![p].st = "ask", ![p].pages = n, ![p].todo = owed]
      PROVE  Moves(p, owed, owed = {})
  <2>1. PICK s \in WalkType : s = walk[p]
    BY DEF TypeOK
  <2>2. n \in 0..MaxPages
    BY <1>3, <2>1, TagPurgeAssumption DEF WalkType
  <2>3. [s EXCEPT !.st = "ask", !.pages = n, !.todo = owed] \in WalkType
    BY <2>2 DEF WalkType
  <2>4. PICK t \in WalkType : t = [s EXCEPT !.st = "ask", !.pages = n, !.todo = owed]
    BY <2>3
  <2>5. t.st = "ask" /\ t.todo = owed /\ t.detached = s.detached
    BY <2>4 DEF WalkType
  <2>6. walk' = [walk EXCEPT ![p] = t] /\ reply' = reply
    BY <1>3, <2>1, <2>4 DEF TypeOK
  <2>7. walk \in [Purges -> WalkType] /\ reply \in [Purges -> Answers]
    BY DEF TypeOK, Answers
  <2>8. /\ walk'[p] = t /\ walk' \in [Purges -> WalkType]
        /\ \A q \in Purges : q # p => walk'[q] = walk[q]
    BY <2>6, <2>7
  <2> QED  BY <2>1, <2>5, <2>6, <2>7, <2>8 DEF Moves
<1> QED  BY <1>1, <1>2, <1>3 DEF Advance

(* A step of one purge.  What it sends removes no member from the set that  *)
(* is there.                                                                *)
Sends ==
    /\ wires \subseteq wires'
    /\ \A w \in wires' \ wires :
         \/ w.cmd = "UNLINK"
         \/ w.cmd = "SREM" /\ \A k \in w.members \cap Keys : k \in raced \/ ~Present(k)

WalkStep(p) ==
    /\ UNCHANGED <<l2, index, stored, kind, lost>>
    /\ raced \subseteq raced' /\ missed \subseteq missed' /\ Sends
    /\ \A q \in Purges : q # p =>
         /\ walk'[q] = walk[q] /\ unlink'[q] = unlink[q] /\ reply'[q] = reply[q]
         /\ snap'[q] = snap[q] /\ found'[q] = found[q]

LEMMA SendsOf ==
    ASSUME TypeOK, TypeOK', Sends
    PROVE  /\ \A k : HasSet(k)' <=> HasSet(k)
           /\ Inflight' = Inflight
           /\ \A k \in Keys, v \in Nat : SetCmd(k, v) \in wires' <=> SetCmd(k, v) \in wires
<1>1. \A w \in wires' : w.cmd \in {"SET", "SADD"} => w \in wires
  BY DEF Sends
<1>2. \A k : HasSet(k)' <=> HasSet(k)
  BY <1>1 DEF HasSet, Sends
<1>3. \A k \in Keys : Sadd(k) \in wires' <=> Sadd(k) \in wires
  BY <1>1, Commands DEF Sends
<1>4. \A k \in Keys, v \in Nat : SetCmd(k, v) \in wires' <=> SetCmd(k, v) \in wires
  BY <1>1, Commands DEF Sends
<1> QED  BY <1>2, <1>3, <1>4 DEF Inflight

LEMMA WalkInv ==
    ASSUME PurgeInv, NEW p \in Purges, WalkStep(p), TypeOK',
           TokenAt(p)', UnlinkAt(p)', FoundAt(p)'
    PROVE  PurgeInv'
<1>1. /\ TypeOK /\ l2' = l2 /\ index' = index /\ stored' = stored /\ kind' = kind
      /\ lost' = lost /\ raced \subseteq raced' /\ missed \subseteq missed'
      /\ wires \subseteq wires'
  BY DEF PurgeInv, WalkStep, Sends
<1>2. /\ \A k : HasSet(k)' <=> HasSet(k)
      /\ Inflight' = Inflight
      /\ \A k \in Keys, v \in Nat : SetCmd(k, v) \in wires' <=> SetCmd(k, v) \in wires
  BY <1>1, SendsOf DEF WalkStep
<1>3. \A k : Present(k)' <=> Present(k)
  BY <1>1, <1>2 DEF Present
<1>4. \A k \in Keys : (IndexedAt(k) /\ l2[k] <= stored)'
  BY <1>1, <1>2, <1>3 DEF PurgeInv, IndexedAt
<1>5. ASSUME NEW w \in wires'
      PROVE  WireAt(w)'
  <2>1. CASE w \in wires
    BY <2>1, <1>1, <1>3 DEF PurgeInv, WireAt
  <2>2. CASE w \notin wires
    <3>1. \/ w.cmd = "UNLINK"
          \/ w.cmd = "SREM" /\ \A k \in w.members \cap Keys : k \in raced \/ ~Present(k)
      BY <2>2 DEF WalkStep, Sends
    <3> QED  BY <3>1, <1>1, <1>3 DEF WireAt
  <2> QED  BY <2>1, <2>2
<1>6. ASSUME NEW q \in Purges
      PROVE  (TokenAt(q) /\ UnlinkAt(q) /\ FoundAt(q))'
  <2>1. CASE q = p
    BY <2>1
  <2>2. CASE q # p
    <3>1. /\ walk'[q] = walk[q] /\ unlink'[q] = unlink[q] /\ reply'[q] = reply[q]
          /\ snap'[q] = snap[q] /\ found'[q] = found[q] /\ kind'[q] = kind[q]
      BY <1>1, <2>2 DEF WalkStep
    <3>2. TokenAt(q) /\ UnlinkAt(q) /\ FoundAt(q)
      BY DEF PurgeInv
    <3>3. TokenAt(q)'
      BY <3>1, <3>2 DEF TokenAt
    <3>4. UnlinkAt(q)'
      BY <1>1, <1>2, <1>3, <3>1, <3>2 DEF UnlinkAt
    <3>5. \A f \in found[q] : Handled(q, f) => Handled(q, f)'
      BY <1>1, <3>1 DEF Handled
    <3>6. \A f \in found[q] : f[1] \in Keys /\ f[2] \in Nat
      BY <1>1, FoundPairs
    <3>7. FoundAt(q)'
      BY <1>1, <1>2, <3>1, <3>2, <3>5, <3>6 DEF FoundAt
    <3> QED  BY <3>3, <3>4, <3>7
  <2> QED  BY <2>1, <2>2
<1>7. IsFiniteSet(Inflight)'
  BY <1>2 DEF PurgeInv
<1> QED  BY <1>4, <1>5, <1>6, <1>7 DEF PurgeInv

(* A purge that reports success has handled all it found.                   *)
Honest(p) ==
    reply[p] = "none" /\ reply'[p] \in {"complete", "partial"} =>
        \A f \in found[p] : Handled(p, f)'

(* A walk that ends or goes on has lost sight of nothing it found.          *)
LEMMA MovesInv ==
    ASSUME PurgeInv, NEW p \in Purges, NEW owed, NEW ok \in BOOLEAN, ok => owed = {},
           Moves(p, owed, ok), WalkStep(p), found' = found, TypeOK', TokenAt(p)',
           UnlinkAt(p)',
           ok \/ walk'[p].st = "ask" =>
              \A f \in found[p] : Handled(p, f)' \/ f[1] \in owed
    PROVE  PurgeInv' /\ \A q \in Purges : Honest(q)
<1>1. /\ TypeOK /\ l2' = l2 /\ index' = index /\ stored' = stored /\ kind' = kind
      /\ raced \subseteq raced' /\ missed \subseteq missed' /\ wires \subseteq wires'
  BY DEF PurgeInv, WalkStep, Sends
<1>2. FoundAt(p)
  BY DEF PurgeInv
<1>4. FoundAt(p)'
  <2>1. \A k \in Keys, v \in Nat : SetCmd(k, v) \in wires' <=> SetCmd(k, v) \in wires
    BY <1>1, SendsOf DEF WalkStep
  <2>2. \A f \in found[p] : f[1] \in Keys /\ f[2] \in Nat
    BY <1>1, FoundPairs
  <2>3. \A f \in found[p] : f[2] \in 1..stored' /\ SetCmd(f[1], f[2]) \notin wires'
    BY <1>1, <1>2, <2>1, <2>2 DEF FoundAt
  <2>4. \A f \in found[p] : kind'[p] = "tag" /\ l2'[f[1]] = f[2] =>
                               f[1] \in raced' \cup index'
    BY <1>1, <1>2 DEF FoundAt
  <2>5. walk'[p].st \in {"ask", "suspended"} =>
          /\ walk'[p].st = "ask" /\ walk'[p].todo = owed
          /\ \A f \in found[p] : Handled(p, f)' \/ f[1] \in owed
    BY DEF Moves
  <2> QED  BY <1>1, <2>3, <2>4, <2>5 DEF FoundAt
<1>5. PurgeInv'
  BY <1>4, WalkInv
<1>6. ASSUME NEW q \in Purges
      PROVE  Honest(q)
  <2>1. CASE q = p
    BY <2>1 DEF Honest, Moves
  <2>2. CASE q # p
    BY <2>2 DEF Honest, Moves
  <2> QED  BY <2>1, <2>2
<1> QED  BY <1>5, <1>6

(* A step after which no purge has heard of success.                        *)
LEMMA QuietHonest ==
    ASSUME \A q \in Purges : reply'[q] = reply[q] \/ reply'[q] \notin {"complete", "partial"}
    PROVE  \A q \in Purges : Honest(q)
  BY DEF Honest

-----------------------------------------------------------------------------
(* The steps of a walk, one by one. *)

LEMMA EmptyPageInv ==
    ASSUME PurgeInv, NEW p \in Purges, EmptyPage(p)
    PROVE  PurgeInv' /\ \A q \in Purges : Honest(q)
<1>1. /\ TypeOK /\ TokenAt(p) /\ FoundAt(p) /\ UnlinkAt(p) /\ walk[p].st = "ask"
      /\ UNCHANGED <<redis, stored, shm, kind, snap, unlink, hist>>
  BY DEF PurgeInv, EmptyPage
<1>2. PICK owed \in SUBSET (Keys \cup Junk) : owed = Owed(p, {})
  BY <1>1 DEF TypeOK, Owed, WalkType
<1>3. Moves(p, owed, owed = {})
  BY <1>1, <1>2, AdvanceOf DEF EmptyPage, TokenAt
<1>4. PICK ok \in BOOLEAN : ok <=> owed = {}
  OBVIOUS
<1>5. Moves(p, owed, ok)
  BY <1>3, <1>4 DEF Moves
<1>6. WalkStep(p)
  BY <1>1, <1>3 DEF WalkStep, Sends, Moves, redis, shm, hist
<1>7. TypeOK'
  BY <1>1, <1>3 DEF TypeOK, Moves, redis, shm, hist, Answers
<1>8. UnlinkAt(p)'
  BY <1>1 DEF UnlinkAt, HasSet, Present, redis, shm, hist
<1>9. \A f \in found[p] : Handled(p, f)' \/ f[1] \in owed
  <2> SUFFICES ASSUME NEW f \in found[p], ~Handled(p, f)'
               PROVE  f[1] \in owed
    OBVIOUS
  <2>1. l2[f[1]] = f[2] /\ f[1] \notin raced /\ ~Handled(p, f)
    BY <1>1 DEF Handled, redis, shm, hist
  <2>2. f[1] \in walk[p].todo /\ f[1] \in Keys /\ f[2] # 0
    BY <1>1, <2>1, FoundPairs DEF FoundAt, TokenAt
  <2>3. f[1] \in Scanned(p)
    BY <1>1, <2>1, <2>2 DEF FoundAt, Scanned, TypeOK
  <2> QED  BY <1>2, <2>2, <2>3 DEF Owed
<1>10. ok => owed = {}
  BY <1>4
<1>11. found' = found /\ snap' = snap /\ unlink' = unlink /\ kind' = kind
  BY <1>1 DEF hist
<1>12. TokenAt(p)'
  BY <1>1, <1>3, <1>11 DEF TokenAt, Moves
<1> QED  BY <1>5, <1>6, <1>7, <1>8, <1>9, <1>10, <1>11, <1>12, MovesInv

LEMMA WalkFailsInv ==
    ASSUME PurgeInv, NEW p \in Purges, WalkFails(p)
    PROVE  PurgeInv' /\ \A q \in Purges : Honest(q)
<1>1. /\ TypeOK /\ TokenAt(p) /\ UnlinkAt(p) /\ walk[p].st = "ask"
      /\ UNCHANGED <<redis, stored, shm, kind, snap, unlink, hist>>
  BY DEF PurgeInv, WalkFails
<1>2. Moves(p, {}, FALSE) /\ walk'[p].st # "ask"
  BY <1>1, FinishOf, FreedOf DEF WalkFails, Finish
<1>3. WalkStep(p)
  BY <1>1, <1>2 DEF WalkStep, Sends, Moves, redis, shm, hist
<1>4. TypeOK'
  BY <1>1, <1>2 DEF TypeOK, Moves, redis, shm, hist, Answers
<1>5. UnlinkAt(p)'
  BY <1>1 DEF UnlinkAt, HasSet, Present, redis, shm, hist
<1>6. found' = found /\ snap' = snap /\ unlink' = unlink /\ kind' = kind
  BY <1>1 DEF hist
<1>7. TokenAt(p)'
  BY <1>1, <1>2, <1>6 DEF TokenAt, Moves
<1> QED  BY <1>2, <1>3, <1>4, <1>5, <1>6, <1>7, MovesInv

LEMMA ReadCounterInv ==
    ASSUME PurgeInv, NEW p \in Purges, ReadCounter(p)
    PROVE  PurgeInv' /\ \A q \in Purges : Honest(q)
<1>1. /\ TypeOK /\ TokenAt(p) /\ UnlinkAt(p) /\ FoundAt(p) /\ IsFiniteSet(Inflight)
      /\ kind[p] = "tag" /\ snap[p].at < 3
      /\ UNCHANGED <<redis, stored, shm, kind, walk, unlink, reply,
                     found, lost, raced, missed, back>>
  BY DEF PurgeInv, ReadCounter
<1>2. PICK g : g = CASE snap[p].at = 0 -> IF AutoVary THEN Cardinality(Inflight) ELSE 0
                     [] snap[p].at = 1 -> drops
                     [] snap[p].at = 2 -> IF AutoVary THEN -reissues ELSE 0
  OBVIOUS
<1>3. Cardinality(Inflight) \in Nat
  BY <1>1, FS_CardinalityType
<1>4. PICK s \in [at : 0..3, gap : Int] : s = snap[p]
  BY <1>1 DEF TypeOK
<1>4a. s.at \in 0..3 /\ s.at < 3 /\ s.gap \in Int
  BY <1>1, <1>4
<1>4b. drops \in Int /\ -reissues \in Int
  <2>1. drops \in Nat /\ reissues \in Nat
    BY <1>1 DEF TypeOK
  <2>2. \A n \in Nat : n \in Int /\ -n \in Int
    OBVIOUS
  <2> QED  BY <2>1, <2>2
<1>5. g \in Int
  <2>1. CASE s.at = 0
    BY <2>1, <1>2, <1>3, <1>4
  <2>2. CASE s.at = 1
    BY <2>2, <1>2, <1>4, <1>4b
  <2>3. CASE s.at = 2
    <3>1. g = IF AutoVary THEN -reissues ELSE 0
      BY <2>3, <1>2, <1>4
    <3> QED  BY <3>1, <1>4b
  <2> QED  BY <2>1, <2>2, <2>3, <1>4a
<1>6. PICK r \in [at : 0..3, gap : Int] : r = [at |-> s.at + 1, gap |-> s.gap + g]
  <2>1. s.at + 1 \in 0..3 /\ s.gap + g \in Int
    BY <1>4a, <1>5
  <2> QED  BY <2>1
<1>7. snap' = [snap EXCEPT ![p] = r]
  BY <1>1, <1>2, <1>4, <1>6 DEF ReadCounter
<1>8. snap' \in [Purges -> [at : 0..3, gap : Int]] /\ \A q \in Purges : q # p => snap'[q] = snap[q]
  BY <1>1, <1>7 DEF TypeOK
<1>9. gap' \in [Purges -> SUBSET Keys]
  BY <1>1 DEF ReadCounter, TypeOK, Unindexed, Inflight
<1>10. TypeOK'
  BY <1>1, <1>8, <1>9 DEF TypeOK, redis, shm
<1>11. WalkStep(p)
  BY <1>1, <1>8 DEF WalkStep, Sends, redis, shm
<1>12. TokenAt(p)' /\ UnlinkAt(p)' /\ FoundAt(p)'
  BY <1>1 DEF TokenAt, UnlinkAt, FoundAt, HasSet, Present, Handled, redis
<1>13. PurgeInv'
  BY <1>10, <1>11, <1>12, WalkInv
<1> QED  BY <1>1, <1>13, QuietHonest

(* A walk that begins owes every object it found.                           *)
LEMMA LaunchedFound ==
    ASSUME PurgeInv, NEW p \in Purges, NEW K \in SUBSET Keys,
           \A k \in K : l2[k] # 0, kind[p] = "tag" => K \subseteq index,
           WalkStep(p), TypeOK', found'[p] = {<<k, l2[k]>> : k \in K},
           K \subseteq walk'[p].todo
    PROVE  FoundAt(p)'
<1>1. /\ TypeOK /\ UNCHANGED <<l2, index, stored, kind>> /\ Sends
  BY DEF PurgeInv, WalkStep
<1>2. SUFFICES ASSUME NEW f \in found'[p]
               PROVE  /\ f[2] \in 1..stored' /\ SetCmd(f[1], f[2]) \notin wires'
                      /\ kind'[p] = "tag" /\ l2'[f[1]] = f[2] => f[1] \in raced' \cup index'
                      /\ f[1] \in walk'[p].todo
  BY DEF FoundAt
<1>3. f[1] \in K /\ f[2] = l2[f[1]]
  OBVIOUS
<1>4. f[2] \in 1..stored
  <2>1. PICK k \in K : k = f[1]
    BY <1>3
  <2>2. k \in Keys /\ l2[k] # 0 /\ l2[k] <= stored
    BY DEF PurgeInv
  <2>3. l2[k] \in Nat /\ stored \in Nat
    <3>1. l2 \in [Keys -> Nat] /\ stored \in 0..MaxStores
      BY <1>1 DEF TypeOK
    <3> QED  BY <2>2, <3>1, TagPurgeAssumption
  <2>4. l2[k] \in 1..stored
    BY <2>2, <2>3
  <2> QED  BY <2>1, <2>4, <1>3
<1>5. SetCmd(f[1], f[2]) \notin wires
  BY <1>1, <1>3, <1>4, Commands DEF PurgeInv, WireAt
<1> QED  BY <1>1, <1>3, <1>4, <1>5, SendsOf

LEMMA BegunOf ==
    ASSUME TypeOK, NEW p \in Purges, NEW S \in SUBSET (Keys \cup Junk),
           walk' = [walk EXCEPT ![p] = [NoWalk EXCEPT !.st = "ask", !.todo = S]]
    PROVE  /\ walk' \in [Purges -> WalkType]
           /\ walk'[p].st = "ask" /\ walk'[p].todo = S /\ ~walk'[p].detached
           /\ \A q \in Purges : q # p => walk'[q] = walk[q]
<1>1. [NoWalk EXCEPT !.st = "ask", !.todo = S] \in WalkType
  BY NoWalkOK DEF WalkType, NoWalk
<1>2. PICK w \in WalkType : w = [NoWalk EXCEPT !.st = "ask", !.todo = S]
  BY <1>1
<1>3. w.st = "ask" /\ w.todo = S /\ w.detached = FALSE
  BY <1>2 DEF NoWalk
<1> QED  BY <1>2, <1>3 DEF TypeOK

LEMMA LaunchInv ==
    ASSUME PurgeInv, NEW p \in Purges, Launch(p)
    PROVE  PurgeInv' /\ \A q \in Purges : Honest(q)
<1>1. /\ TypeOK /\ TokenAt(p) /\ UnlinkAt(p) /\ FoundAt(p)
      /\ snap[p].at = 3 /\ walk[p].st = "none" /\ reply[p] = "none"
      /\ UNCHANGED <<redis, stored, shm, kind, snap, unlink,
                     gap, lost, raced, missed, back>>
  BY DEF PurgeInv, Launch
<1>1a. kind[p] = "tag" /\ unlink[p].st = "none" /\ ~unlink[p].alive
  BY <1>1 DEF TokenAt
<1>2. CASE /\ walk' = [walk EXCEPT ![p] = [NoWalk EXCEPT !.st = "ask", !.todo = index]]
           /\ found' = [found EXCEPT ![p] = {<<k, l2[k]>> : k \in
                          {k \in Keys \cap index : l2[k] # 0}}]
           /\ UNCHANGED reply
  <2>1. PICK K \in SUBSET Keys : K = {k \in Keys \cap index : l2[k] # 0}
    OBVIOUS
  <2>2. /\ walk' \in [Purges -> WalkType]
        /\ walk'[p].st = "ask" /\ walk'[p].todo = index /\ ~walk'[p].detached
        /\ \A q \in Purges : q # p => walk'[q] = walk[q]
    BY <1>1, <1>2, BegunOf DEF TypeOK
  <2>3. {<<k, l2[k]>> : k \in K} \in SUBSET (Keys \X Nat)
    <3>1. \A k \in K : <<k, l2[k]>> \in Keys \X Nat
      BY <1>1 DEF TypeOK
    <3> QED  BY <3>1, Zenon
  <2>4. /\ found' \in [Purges -> SUBSET (Keys \X Nat)]
        /\ found'[p] = {<<k, l2[k]>> : k \in K}
        /\ \A q \in Purges : q # p => found'[q] = found[q]
    BY <1>1, <1>2, <2>1, <2>3 DEF TypeOK
  <2>5. TypeOK'
    BY <1>1, <1>2, <2>2, <2>4 DEF TypeOK, redis, shm
  <2>6. WalkStep(p)
    BY <1>1, <1>2, <2>2, <2>4 DEF WalkStep, Sends, redis, shm
  <2>7. \A k \in K : l2[k] # 0 /\ k \in index /\ k \in walk'[p].todo
    BY <2>1, <2>2
  <2>8. FoundAt(p)'
    BY <2>4, <2>5, <2>6, <2>7, LaunchedFound
  <2>9. TokenAt(p)' /\ UnlinkAt(p)'
    BY <1>1, <1>1a, <1>2, <2>2 DEF TokenAt, UnlinkAt, HasSet, Present, redis
  <2>10. PurgeInv'
    BY <2>5, <2>6, <2>8, <2>9, WalkInv
  <2> QED  BY <1>2, <2>10, QuietHonest
<1>3. CASE /\ reply' = [reply EXCEPT ![p] = "base only"]
           /\ UNCHANGED <<walk, found>>
  <2>1. /\ reply'[p] = "base only" /\ \A q \in Purges : q # p => reply'[q] = reply[q]
        /\ TypeOK'
    BY <1>1, <1>3 DEF TypeOK, redis, shm
  <2>2. WalkStep(p)
    BY <1>1, <1>3, <2>1 DEF WalkStep, Sends, redis, shm
  <2>3. TokenAt(p)' /\ UnlinkAt(p)' /\ FoundAt(p)'
    BY <1>1, <1>1a, <1>3 DEF TokenAt, UnlinkAt, FoundAt, HasSet, Present, Handled, redis
  <2>4. PurgeInv'
    BY <2>1, <2>2, <2>3, WalkInv
  <2> QED  BY <2>1, <2>4, QuietHonest
<1> QED  BY <1>2, <1>3 DEF Launch

LEMMA LaunchAllInv ==
    ASSUME PurgeInv, NEW p \in Purges, LaunchAll(p)
    PROVE  PurgeInv' /\ \A q \in Purges : Honest(q)
<1>1. /\ TypeOK /\ TokenAt(p) /\ UnlinkAt(p) /\ FoundAt(p)
      /\ walk[p].st = "none" /\ reply[p] = "none"
      /\ kind[p] = "all" /\ unlink[p].st = "none" /\ ~unlink[p].alive
      /\ pend' = {} /\ back' = {}
      /\ gap' = [q \in Purges |-> gap[q] \cap Inflight]
      /\ UNCHANGED <<redis, stored, drops, reissues, kind, snap, unlink,
                     lost, raced, missed>>
  BY DEF PurgeInv, LaunchAll, TokenAt
<1>2. PICK K \in SUBSET Keys : K = {k \in Keys : l2[k] # 0}
  OBVIOUS
<1>3. gap' \in [Purges -> SUBSET Keys]
  BY <1>1 DEF TypeOK
<1>4. CASE /\ walk' = [walk EXCEPT ![p] = [NoWalk EXCEPT !.st = "ask", !.todo = K]]
           /\ found' = [found EXCEPT ![p] = {<<k, l2[k]>> : k \in K}]
           /\ UNCHANGED reply
  <2>2. /\ walk' \in [Purges -> WalkType]
        /\ walk'[p].st = "ask" /\ walk'[p].todo = K /\ ~walk'[p].detached
        /\ \A q \in Purges : q # p => walk'[q] = walk[q]
    BY <1>1, <1>4, BegunOf DEF TypeOK
  <2>3. {<<k, l2[k]>> : k \in K} \in SUBSET (Keys \X Nat)
    <3>1. \A k \in K : <<k, l2[k]>> \in Keys \X Nat
      BY <1>1 DEF TypeOK
    <3> QED  BY <3>1, Zenon
  <2>4. /\ found' \in [Purges -> SUBSET (Keys \X Nat)]
        /\ found'[p] = {<<k, l2[k]>> : k \in K}
        /\ \A q \in Purges : q # p => found'[q] = found[q]
    BY <1>1, <1>4, <2>3 DEF TypeOK
  <2>5. TypeOK'
    BY <1>1, <1>3, <1>4, <2>2, <2>4 DEF TypeOK, redis, shm
  <2>6. WalkStep(p)
    BY <1>1, <1>4, <2>2, <2>4 DEF WalkStep, Sends, redis, shm
  <2>7. \A k \in K : l2[k] # 0 /\ k \in walk'[p].todo
    BY <1>2, <2>2
  <2>8. FoundAt(p)'
    BY <1>1, <2>4, <2>5, <2>6, <2>7, LaunchedFound
  <2>9. TokenAt(p)' /\ UnlinkAt(p)'
    BY <1>1, <1>4, <2>2 DEF TokenAt, UnlinkAt, HasSet, Present, redis
  <2>10. PurgeInv'
    BY <2>5, <2>6, <2>8, <2>9, WalkInv
  <2> QED  BY <1>4, <2>10, QuietHonest
<1>5. CASE /\ reply' = [reply EXCEPT ![p] = "unavailable"]
           /\ UNCHANGED <<walk, found>>
  <2>1. /\ reply'[p] = "unavailable" /\ \A q \in Purges : q # p => reply'[q] = reply[q]
        /\ TypeOK'
    BY <1>1, <1>3, <1>5 DEF TypeOK, redis, shm
  <2>2. WalkStep(p)
    BY <1>1, <1>5, <2>1 DEF WalkStep, Sends, redis, shm
  <2>3. TokenAt(p)' /\ UnlinkAt(p)' /\ FoundAt(p)'
    BY <1>1, <1>5 DEF TokenAt, UnlinkAt, FoundAt, HasSet, Present, Handled, redis
  <2>4. PurgeInv'
    BY <2>1, <2>2, <2>3, WalkInv
  <2> QED  BY <2>1, <2>4, QuietHonest
<1> QED  BY <1>2, <1>4, <1>5 DEF LaunchAll

LEMMA GoneInv ==
    ASSUME PurgeInv, NEW p \in Purges, Gone(p)
    PROVE  PurgeInv' /\ \A q \in Purges : Honest(q)
<1>1. /\ TypeOK /\ TokenAt(p) /\ UnlinkAt(p) /\ FoundAt(p)
      /\ walk[p].st \in {"ask", "suspended"} /\ ~walk[p].detached
      /\ UNCHANGED <<redis, stored, shm, kind, snap, hist>>
  BY DEF PurgeInv, Gone
<1>2. /\ reply'[p] = "gone" /\ \A q \in Purges : q # p => reply'[q] = reply[q]
      /\ reply' \in [Purges -> Answers]
  BY <1>1 DEF Gone, TypeOK, Answers
<1>3. /\ unlink' \in [Purges -> UnlinkType]
      /\ unlink'[p].st = unlink[p].st /\ unlink'[p].page = unlink[p].page
      /\ unlink'[p].resume = unlink[p].resume /\ unlink'[p].alive = FALSE
      /\ \A q \in Purges : q # p => unlink'[q] = unlink[q]
  <2>1. PICK u \in UnlinkType : u = unlink[p]
    BY <1>1 DEF TypeOK
  <2>2. PICK v \in UnlinkType : v = [u EXCEPT !.alive = FALSE]
    BY DEF UnlinkType
  <2>3. /\ v.st = u.st /\ v.page = u.page /\ v.resume = u.resume /\ v.alive = FALSE
    BY <2>2 DEF UnlinkType
  <2>4. unlink' = [unlink EXCEPT ![p] = v]
    BY <2>1, <2>2 DEF Gone
  <2> QED  BY <1>1, <2>1, <2>3, <2>4 DEF TypeOK
<1>4. CASE walk[p].st = "suspended"
  <2>1. /\ walk' \in [Purges -> WalkType]
        /\ walk'[p].st = "suspended" /\ walk'[p].todo = walk[p].todo /\ walk'[p].detached
        /\ \A q \in Purges : q # p => walk'[q] = walk[q]
    <3>1. PICK w \in WalkType : w = walk[p]
      BY <1>1 DEF TypeOK
    <3>2. PICK v \in WalkType : v = [w EXCEPT !.detached = TRUE, !.doomed = TRUE]
      BY DEF WalkType
    <3>3. v.st = w.st /\ v.todo = w.todo /\ v.detached = TRUE
      BY <3>2 DEF WalkType
    <3>4. walk' = [walk EXCEPT ![p] = v]
      BY <1>4, <3>1, <3>2 DEF Gone
    <3> QED  BY <1>1, <1>4, <3>1, <3>3, <3>4 DEF TypeOK
  <2>2. TypeOK'
    BY <1>1, <1>2, <1>3, <2>1 DEF TypeOK, redis, shm, hist, Answers
  <2>3. WalkStep(p)
    BY <1>1, <1>2, <1>3, <2>1 DEF WalkStep, Sends, redis, shm, hist
  <2>4. TokenAt(p)'
    BY <1>1, <1>2, <1>3, <1>4, <2>1 DEF TokenAt
  <2>5. UnlinkAt(p)' /\ FoundAt(p)'
    BY <1>1, <1>3, <1>4, <2>1 DEF UnlinkAt, FoundAt, HasSet, Present, Handled, redis, hist
  <2>6. PurgeInv'
    BY <2>2, <2>3, <2>4, <2>5, WalkInv
  <2> QED  BY <1>2, <2>6, QuietHonest
<1>5. CASE walk[p].st = "ask"
  <2>1. /\ walk' \in [Purges -> WalkType]
        /\ walk'[p].st = "freed" /\ ~walk'[p].detached
        /\ \A q \in Purges : q # p => walk'[q] = walk[q]
    BY <1>1, <1>5, FreedOf DEF Gone
  <2>2. TypeOK'
    BY <1>1, <1>2, <1>3, <2>1 DEF TypeOK, redis, shm, hist, Answers
  <2>3. WalkStep(p)
    BY <1>1, <1>2, <1>3, <2>1 DEF WalkStep, Sends, redis, shm, hist
  <2>4. TokenAt(p)'
    BY <1>1, <1>2, <1>3, <1>5, <2>1 DEF TokenAt
  <2>5. UnlinkAt(p)' /\ FoundAt(p)'
    BY <1>1, <1>3, <1>5, <2>1 DEF UnlinkAt, FoundAt, HasSet, Present, Handled, redis, hist
  <2>6. PurgeInv'
    BY <2>2, <2>3, <2>4, <2>5, WalkInv
  <2> QED  BY <1>2, <2>6, QuietHonest
<1> QED  BY <1>1, <1>4, <1>5

LEMMA PromoteInv ==
    ASSUME PurgeInv, NEW p \in Purges, NEW k \in Keys, Promote(p, k)
    PROVE  PurgeInv' /\ \A q \in Purges : Honest(q)
<1>1. /\ TypeOK /\ TokenAt(p) /\ UnlinkAt(p) /\ FoundAt(p)
      /\ UNCHANGED <<redis, stored, shm, kind, snap, walk, unlink, reply,
                     found, gap, lost, raced, missed>>
  BY DEF PurgeInv, Promote
<1>2. TypeOK'
  BY <1>1 DEF TypeOK, Promote, redis, shm
<1>3. WalkStep(p)
  BY <1>1 DEF WalkStep, Sends, redis
<1>4. TokenAt(p)' /\ UnlinkAt(p)' /\ FoundAt(p)'
  BY <1>1 DEF TokenAt, UnlinkAt, FoundAt, HasSet, Present, Handled, redis
<1>5. PurgeInv'
  BY <1>2, <1>3, <1>4, WalkInv
<1> QED  BY <1>1, <1>5, QuietHonest

LEMMA PageAllInv ==
    ASSUME PurgeInv, NEW p \in Purges, NEW page \in SUBSET (Keys \cup Junk),
           PageAll(p, page)
    PROVE  PurgeInv' /\ \A q \in Purges : Honest(q)
<1>1. /\ TypeOK /\ TokenAt(p) /\ UnlinkAt(p) /\ FoundAt(p)
      /\ kind[p] = "all" /\ walk[p].st = "ask" /\ page \subseteq Scanned(p)
      /\ raced' = raced \cup {k \in page : \E w \in wires : w.cmd = "SET" /\ w.key = k}
      /\ UNCHANGED <<l2, index, stored, shm, kind, snap, unlink,
                     found, gap, lost, missed, back>>
  BY DEF PurgeInv, PageAll
<1>2. PICK owed \in SUBSET (Keys \cup Junk) : owed = Owed(p, page)
  BY <1>1 DEF TypeOK, Owed, WalkType
<1>3. raced' \subseteq Keys
  BY <1>1 DEF Scanned, TypeOK
<1>4. TokenAt(p)' \/ ~\E o, ok : Moves(p, o, ok)
  BY <1>1 DEF TokenAt, Moves
<1>5. CASE wires' = wires \cup {UnlinkCmd(p, page)} /\ Advance(p, owed)
  <2>1. Moves(p, owed, owed = {})
    BY <1>1, <1>5, AdvanceOf DEF TokenAt
  <2>2. PICK ok \in BOOLEAN : ok <=> owed = {}
    OBVIOUS
  <2>3. Moves(p, owed, ok)
    BY <2>1, <2>2 DEF Moves
  <2>4. wires' \subseteq WireType
    <3>1. wires \subseteq WireType /\ UnlinkCmd(p, page) \in WireType
      BY <1>1, Commands DEF TypeOK
    <3> QED  BY <1>5, <3>1
  <2>5. TypeOK'
    BY <1>1, <1>3, <2>1, <2>4 DEF TypeOK, Moves, shm, Answers
  <2>6. Sends
    BY <1>5, Commands DEF Sends
  <2>7. WalkStep(p)
    BY <1>1, <2>1, <2>6 DEF WalkStep, Moves
  <2>8. UnlinkAt(p)'
    BY <1>1, <2>5, <2>7, SendsOf DEF UnlinkAt, Present, WalkStep
  <2>9. ASSUME NEW f \in found[p], ~Handled(p, f)'
        PROVE  f[1] \in owed
    <3>1. l2[f[1]] = f[2] /\ f[1] \notin raced /\ ~Handled(p, f)
      BY <1>1, <1>5, <2>9 DEF Handled
    <3>2. f[1] \in walk[p].todo /\ f[1] \in Keys /\ f[2] # 0
      BY <1>1, <3>1, FoundPairs DEF FoundAt, TokenAt
    <3>3. f[1] \in Scanned(p)
      BY <1>1, <3>1, <3>2 DEF Scanned
    <3>4. UnlinkCmd(p, page) \in {c \in wires' : c.cmd = "UNLINK"}
      BY <1>5, Commands
    <3>5. f[1] \notin page
      BY <1>1, <2>9, <3>4, Commands DEF Handled
    <3> QED  BY <1>2, <3>2, <3>3, <3>5 DEF Owed
  <2>10. found' = found /\ TokenAt(p)' /\ (ok => owed = {})
    BY <1>1, <1>4, <2>2, <2>3
  <2>11. \A f \in found[p] : Handled(p, f)' \/ f[1] \in owed
    BY <2>9
  <2> QED  BY <2>3, <2>5, <2>7, <2>8, <2>10, <2>11, MovesInv
<1>6. CASE wires' = wires /\ Finish(p, FALSE, walk[p].pages + 1)
  <2>1. Moves(p, {}, FALSE) /\ walk'[p].st # "ask"
    BY <1>1, <1>6, FinishOf, FreedOf DEF Finish
  <2>2. TypeOK'
    BY <1>1, <1>3, <1>6, <2>1 DEF TypeOK, Moves, shm, Answers
  <2>3. WalkStep(p)
    BY <1>1, <1>6, <2>1 DEF WalkStep, Sends, Moves
  <2>4. UnlinkAt(p)'
    BY <1>1, <1>6 DEF UnlinkAt, HasSet, Present
  <2>5. found' = found /\ TokenAt(p)'
    BY <1>1, <1>4, <2>1
  <2> QED  BY <2>1, <2>2, <2>3, <2>4, <2>5, MovesInv
<1> QED  BY <1>2, <1>5, <1>6 DEF PageAll

(* A page of keys: they leave L1, and what may be stored again is noticed.  *)
LEMMA DropPageOf ==
    ASSUME PurgeInv, NEW p \in Purges, NEW page \in SUBSET (Keys \cup Junk),
           NEW keys, keys = page \cap Keys, DropPage(p, keys)
    PROVE  /\ pend' \subseteq Keys /\ raced' \subseteq Keys /\ raced \subseteq raced'
           /\ gap' \in [Purges -> SUBSET Keys]
           /\ \A k \in keys : k \in raced' \/ ~HasSet(k)
<1>1. TypeOK
  BY DEF PurgeInv
<1>2. pend' = pend \ keys
      /\ raced' = raced \cup {k \in keys : \E w \in wires :
                                  w.cmd \in {"SET", "SADD"} /\ w.key = k}
      /\ gap' = [q \in Purges |-> gap[q] \cap ((pend \ keys) \cup Inflight)]
  BY DEF DropPage
<1>3. pend \subseteq Keys /\ raced \subseteq Keys /\ gap \in [Purges -> SUBSET Keys]
  BY <1>1 DEF TypeOK
<1>4. gap' \in [Purges -> SUBSET Keys]
  BY <1>2, <1>3
<1>5. \A k \in keys : k \in raced' \/ ~HasSet(k)
  BY <1>2 DEF HasSet
<1> QED  BY <1>2, <1>3, <1>4, <1>5

LEMMA AwaitOf ==
    ASSUME TypeOK, NEW p \in Purges, NEW page \in SUBSET (Keys \cup Junk),
           NEW alive \in BOOLEAN, Await(p, page, alive)
    PROVE  /\ unlink' \in [Purges -> UnlinkType]
           /\ unlink'[p].st = "sent" /\ unlink'[p].page = page
           /\ (unlink'[p].alive <=> alive) /\ (unlink'[p].resume <=> alive)
           /\ \A q \in Purges : q # p => unlink'[q] = unlink[q]
<1>1. [st |-> "sent", page |-> page, alive |-> alive, resume |-> alive] \in UnlinkType
  BY DEF UnlinkType
<1>2. PICK u \in UnlinkType :
        u = [st |-> "sent", page |-> page, alive |-> alive, resume |-> alive]
  BY <1>1
<1>3. u.st = "sent" /\ u.page = page /\ u.alive = alive /\ u.resume = alive
  BY <1>2
<1>4. unlink' = [unlink EXCEPT ![p] = u]
  BY <1>2 DEF Await
<1> QED  BY <1>2, <1>3, <1>4 DEF TypeOK

LEMMA SuspendOf ==
    ASSUME TypeOK, NEW p \in Purges, NEW page, Suspend(p, page)
    PROVE  /\ walk' \in [Purges -> WalkType]
           /\ walk'[p].st = "suspended" /\ walk'[p].todo = Owed(p, page)
           /\ walk'[p].detached = walk[p].detached
           /\ \A q \in Purges : q # p => walk'[q] = walk[q]
<1>1. PICK d \in BOOLEAN :
        walk' = [walk EXCEPT ![p].st = "suspended", ![p].doomed = d, ![p].todo = Owed(p, page)]
  BY DEF Suspend
<1>2. PICK s \in WalkType : s = walk[p]
  BY DEF TypeOK
<1>3. PICK owed \in SUBSET (Keys \cup Junk) : owed = Owed(p, page)
  BY <1>2 DEF Owed, WalkType
<1>4. PICK t \in WalkType : t = [s EXCEPT !.st = "suspended", !.doomed = d, !.todo = owed]
  BY DEF WalkType
<1>5. t.st = "suspended" /\ t.todo = owed /\ t.detached = s.detached
  BY <1>4 DEF WalkType
<1>6. walk' = [walk EXCEPT ![p] = t]
  BY <1>1, <1>2, <1>3, <1>4
<1> QED  BY <1>2, <1>3, <1>5, <1>6 DEF TypeOK

LEMMA PageInv ==
    ASSUME PurgeInv, NEW p \in Purges, NEW page \in SUBSET (Keys \cup Junk),
           Page(p, page)
    PROVE  PurgeInv' /\ \A q \in Purges : Honest(q)
<1> DEFINE keys == page \cap Keys
<1>1. /\ TypeOK /\ TokenAt(p) /\ UnlinkAt(p) /\ FoundAt(p)
      /\ kind[p] = "tag" /\ walk[p].st = "ask" /\ unlink[p].st = "none"
      /\ page \subseteq index /\ DropPage(p, keys)
      /\ UNCHANGED <<l2, index, stored, drops, reissues, kind, snap,
                     found, lost, missed, back>>
  BY DEF PurgeInv, Page
<1>2. /\ pend' \subseteq Keys /\ raced' \subseteq Keys /\ raced \subseteq raced'
      /\ gap' \in [Purges -> SUBSET Keys]
      /\ \A k \in keys : k \in raced' \/ ~HasSet(k)
  BY <1>1, DropPageOf
<1>3. ~walk[p].detached /\ reply[p] = "none" /\ ~unlink[p].alive
  BY <1>1 DEF TokenAt
<1>4. PICK owed \in SUBSET (Keys \cup Junk) : owed = Owed(p, page)
  BY <1>1 DEF TypeOK, Owed, WalkType
<1>5. \A f \in found[p] : \/ Handled(p, f)' \/ f[1] \in owed
                          \/ f[1] \in keys /\ f[1] \in walk[p].todo
  <2> SUFFICES ASSUME NEW f \in found[p], ~Handled(p, f)', f[1] \notin keys
               PROVE  f[1] \in owed
    <3>1. \A f \in found[p] : \/ Handled(p, f) \/ f[1] \in walk[p].todo
      BY <1>1 DEF FoundAt
    <3>2. \A f \in found[p] : Handled(p, f) => Handled(p, f)'
      BY <1>1, <1>2 DEF Handled
    <3> QED  BY <3>1, <3>2
  <2>1. l2[f[1]] = f[2] /\ f[1] \notin raced /\ ~Handled(p, f)
    BY <1>1, <1>2 DEF Handled
  <2>2. f[1] \in walk[p].todo /\ f[1] \in Keys /\ f[1] \in index
    BY <1>1, <2>1, FoundPairs DEF FoundAt
  <2>3. f[1] \in Scanned(p)
    BY <1>1, <2>2 DEF Scanned
  <2> QED  BY <1>4, <2>2, <2>3 DEF Owed
<1> HIDE DEF keys
<1>6. CASE Await(p, page, TRUE) /\ Suspend(p, page) /\ UNCHANGED <<wires, reply>>
  <2>1. /\ unlink' \in [Purges -> UnlinkType]
        /\ unlink'[p].st = "sent" /\ unlink'[p].page = page
        /\ unlink'[p].alive /\ unlink'[p].resume
        /\ \A q \in Purges : q # p => unlink'[q] = unlink[q]
    BY <1>1, <1>6, AwaitOf
  <2>2. /\ walk' \in [Purges -> WalkType]
        /\ walk'[p].st = "suspended" /\ walk'[p].todo = Owed(p, page)
        /\ walk'[p].detached = walk[p].detached
        /\ \A q \in Purges : q # p => walk'[q] = walk[q]
    BY <1>1, <1>6, SuspendOf
  <2>3. TypeOK'
    BY <1>1, <1>2, <1>6, <2>1, <2>2 DEF TypeOK
  <2>4. WalkStep(p)
    BY <1>1, <1>2, <1>6, <2>1, <2>2 DEF WalkStep, Sends
  <2>5. TokenAt(p)'
    BY <1>1, <1>3, <1>6, <2>1, <2>2 DEF TokenAt
  <2>6. UnlinkAt(p)'
    BY <1>2, <1>6, <2>1 DEF UnlinkAt, HasSet, keys
  <2>7. \A f \in found[p] : f[1] \in keys => f[1] \in page
    BY DEF keys
  <2>8. FoundAt(p)'
    BY <1>1, <1>2, <1>4, <1>5, <1>6, <2>1, <2>2, <2>7 DEF FoundAt
  <2>9. PurgeInv'
    BY <2>3, <2>4, <2>5, <2>6, <2>8, WalkInv
  <2> QED  BY <1>6, <2>9, QuietHonest
<1>7. CASE /\ Finish(p, FALSE, walk[p].pages)
           /\ wires' = wires /\ (Await(p, page, FALSE) \/ unlink' = unlink)
  <2>1. Moves(p, {}, FALSE) /\ walk'[p].st # "ask"
    BY <1>1, <1>7, FinishOf, FreedOf DEF Finish
  <2>2. /\ unlink' \in [Purges -> UnlinkType]
        /\ \/ unlink'[p].st = "none"
           \/ unlink'[p].st = "sent" /\ unlink'[p].page = page /\ ~unlink'[p].resume
        /\ ~unlink'[p].alive
        /\ \A q \in Purges : q # p => unlink'[q] = unlink[q]
    <3>1. /\ unlink \in [Purges -> UnlinkType] /\ TypeOK
          /\ unlink[p].st = "none" /\ ~unlink[p].alive
      BY <1>1, <1>3 DEF TypeOK
    <3>2. CASE unlink' = unlink
      BY <3>1, <3>2
    <3>3. CASE Await(p, page, FALSE)
      BY <3>1, <3>3, AwaitOf
    <3> QED  BY <1>7, <3>2, <3>3
  <2>3. TypeOK'
    BY <1>1, <1>2, <1>7, <2>1, <2>2 DEF TypeOK, Moves, Answers
  <2>4. WalkStep(p)
    BY <1>1, <1>2, <1>7, <2>1, <2>2 DEF WalkStep, Sends, Moves
  <2>5. TokenAt(p)'
    BY <1>1, <1>3, <2>1, <2>2 DEF TokenAt, Moves
  <2>6. UnlinkAt(p)'
    BY <1>2, <1>7, <2>2 DEF UnlinkAt, HasSet, keys
  <2>7. found' = found
    BY <1>1
  <2> QED  BY <2>1, <2>3, <2>4, <2>5, <2>6, <2>7, MovesInv
<1>8. CASE keys = {} /\ wires' = wires \cup {Srem(p, page)} /\ Advance(p, owed)
           /\ unlink' = unlink
  <2>1. Moves(p, owed, owed = {})
    BY <1>1, <1>3, <1>8, AdvanceOf
  <2>2. PICK ok \in BOOLEAN : ok <=> owed = {}
    OBVIOUS
  <2>3. Moves(p, owed, ok) /\ (ok => owed = {})
    BY <2>1, <2>2 DEF Moves
  <2>4. wires' \subseteq WireType
    <3>1. wires \subseteq WireType /\ Srem(p, page) \in WireType
      BY <1>1, Commands DEF TypeOK
    <3> QED  BY <1>8, <3>1
  <2>5. TypeOK'
    BY <1>1, <1>2, <1>8, <2>1, <2>4 DEF TypeOK, Moves, Answers
  <2>6. Sends
    BY <1>8, Commands DEF Sends, keys
  <2>7. WalkStep(p)
    BY <1>1, <1>2, <1>8, <2>1, <2>6 DEF WalkStep, Moves
  <2>8. UnlinkAt(p)'
    BY <1>1, <1>8 DEF UnlinkAt
  <2>9. TokenAt(p)'
    BY <1>1, <1>3, <1>8, <2>1 DEF TokenAt, Moves
  <2>10. \A f \in found[p] : Handled(p, f)' \/ f[1] \in owed
    BY <1>5, <1>8
  <2>11. found' = found
    BY <1>1
  <2> QED  BY <2>3, <2>5, <2>7, <2>8, <2>9, <2>10, <2>11, MovesInv
<1> QED  BY <1>4, <1>6, <1>7, <1>8 DEF Page, keys

LEMMA UnlinkedInv ==
    ASSUME PurgeInv, NEW p \in Purges, Unlinked(p)
    PROVE  PurgeInv' /\ \A q \in Purges : Honest(q)
<1>1. /\ TypeOK /\ TokenAt(p) /\ UnlinkAt(p) /\ FoundAt(p)
      /\ unlink[p].st # "none"
      /\ unlink' = [unlink EXCEPT ![p] = NoUnlink]
      /\ UNCHANGED <<l2, index, stored, shm, kind, snap, hist>>
  BY DEF PurgeInv, Unlinked
<1>2. PICK n \in UnlinkType : n = NoUnlink /\ n.st = "none" /\ n.alive = FALSE
  BY NoWalkOK DEF NoUnlink
<1>3. /\ unlink' \in [Purges -> UnlinkType]
      /\ unlink'[p].st = "none" /\ ~unlink'[p].alive
      /\ \A q \in Purges : q # p => unlink'[q] = unlink[q]
  BY <1>1, <1>2 DEF TypeOK
<1>4. UnlinkAt(p)'
  BY <1>3 DEF UnlinkAt
<1>5. PICK owed \in SUBSET (Keys \cup Junk) : owed = walk[p].todo
  BY <1>1 DEF TypeOK, WalkType
<1>6. ASSUME NEW o, NEW ok \in BOOLEAN, Moves(p, o, ok), walk[p].st = "suspended"
      PROVE  TokenAt(p)'
  BY <1>1, <1>3, <1>6 DEF TokenAt, Moves
<1>7. found' = found /\ raced' = raced /\ missed' = missed
  BY <1>1 DEF hist
<1>8. CASE /\ unlink[p].alive /\ unlink[p].st = "executed"
           /\ wires' = wires \cup {Srem(p, unlink[p].page)} /\ Resume(p, TRUE)
  <2>1. walk[p].st = "suspended" /\ ~walk[p].detached
    BY <1>1, <1>8 DEF TokenAt
  <2>2. PICK ok \in BOOLEAN : Moves(p, owed, ok) /\ (ok => owed = {})
    <3>1. CASE Advance(p, owed)
      <4>1. Moves(p, owed, owed = {})
        BY <1>1, <2>1, <3>1, AdvanceOf
      <4>2. PICK ok \in BOOLEAN : ok <=> owed = {}
        OBVIOUS
      <4>3. Moves(p, owed, ok)
        BY <4>1, <4>2 DEF Moves
      <4> QED  BY <4>2, <4>3
    <3>2. CASE Finish(p, FALSE, walk[p].pages)
      BY <1>1, <3>2, FinishOf
    <3> QED  BY <1>5, <1>8, <2>1, <3>1, <3>2 DEF Resume
  <2>3. unlink[p].page \in SUBSET (Keys \cup Junk)
    BY <1>1 DEF TypeOK, UnlinkType
  <2>4. wires' \subseteq WireType
    <3>1. wires \subseteq WireType /\ Srem(p, unlink[p].page) \in WireType
      BY <1>1, <2>3, Commands DEF TypeOK
    <3> QED  BY <1>8, <3>1
  <2>5. TypeOK'
    BY <1>1, <1>3, <2>2, <2>4 DEF TypeOK, Moves, Answers, shm, hist
  <2>6. \A k \in unlink[p].page \cap Keys : k \in raced \/ ~Present(k)
    BY <1>1, <1>8 DEF UnlinkAt
  <2>7. Sends
    BY <1>8, <2>3, <2>6, Commands DEF Sends
  <2>8. WalkStep(p)
    BY <1>1, <1>3, <2>2, <2>7 DEF WalkStep, Moves, hist
  <2>9. \A f \in found[p] : Handled(p, f) => Handled(p, f)'
    BY <1>1, <1>7, <1>8 DEF Handled
  <2>10. \A f \in found[p] : Handled(p, f) \/ f[1] \in owed
    BY <1>1, <1>5, <1>8, <2>1 DEF FoundAt
  <2>11. \A f \in found[p] : Handled(p, f)' \/ f[1] \in owed
    BY <2>9, <2>10
  <2>12. TokenAt(p)'
    BY <1>6, <2>1, <2>2
  <2> QED  BY <1>4, <1>7, <2>2, <2>5, <2>8, <2>11, <2>12, MovesInv
<1>9. CASE wires' = wires /\ walk[p].st = "suspended" /\ Finish(p, FALSE, walk[p].pages)
  <2>1. Moves(p, {}, FALSE) /\ walk'[p].st # "ask"
    BY <1>1, <1>9, FinishOf, FreedOf DEF Finish
  <2>2. TypeOK'
    BY <1>1, <1>3, <1>9, <2>1 DEF TypeOK, Moves, Answers, shm, hist
  <2>3. WalkStep(p)
    BY <1>1, <1>3, <1>9, <2>1 DEF WalkStep, Sends, Moves, hist
  <2>4. TokenAt(p)'
    BY <1>6, <1>9, <2>1
  <2> QED  BY <1>4, <1>7, <2>1, <2>2, <2>3, <2>4, MovesInv
<1>10. CASE wires' = wires /\ walk[p].st # "suspended" /\ UNCHANGED <<walk, reply>>
  <2>1. walk[p].st \notin {"none", "ask", "suspended"} /\ ~walk[p].detached
    BY <1>1, <1>10 DEF TokenAt
  <2>2. TypeOK'
    BY <1>1, <1>3, <1>10 DEF TypeOK, shm, hist
  <2>3. WalkStep(p)
    BY <1>1, <1>3, <1>10 DEF WalkStep, Sends, hist
  <2>4. TokenAt(p)'
    BY <1>1, <1>3, <1>10, <2>1 DEF TokenAt
  <2>5. FoundAt(p)'
    BY <1>1, <1>7, <1>10, <2>1 DEF FoundAt
  <2>6. PurgeInv'
    BY <1>4, <2>2, <2>3, <2>4, <2>5, WalkInv
  <2> QED  BY <1>10, <2>6, QuietHonest
<1>11. \/ /\ unlink[p].alive /\ unlink[p].st = "executed"
          /\ wires' = wires \cup {Srem(p, unlink[p].page)} /\ Resume(p, TRUE)
       \/ wires' = wires /\ (unlink[p].alive \/ unlink[p].resume) /\ Resume(p, FALSE)
       \/ wires' = wires /\ ~unlink[p].resume /\ UNCHANGED <<walk, reply>>
  BY DEF Unlinked, Settle
<1>12. ASSUME wires' = wires, unlink[p].alive \/ unlink[p].resume, Resume(p, FALSE)
       PROVE  /\ walk[p].st = "suspended" /\ Finish(p, FALSE, walk[p].pages)
  BY <1>1, <1>12 DEF Resume, TokenAt
<1>13. ~unlink[p].resume => walk[p].st # "suspended"
  BY <1>1 DEF TokenAt
<1> QED  BY <1>8, <1>9, <1>10, <1>11, <1>12, <1>13

-----------------------------------------------------------------------------
(* The steps outside the walks: what is stored, and what Redis executes.    *)

(* The walks, their tokens and what they found stay.                        *)
Outside ==
    /\ UNCHANGED <<kind, snap, walk, reply, found>>
    /\ raced \subseteq raced' /\ missed \subseteq missed'
    /\ \A p \in Purges : unlink'[p].page = unlink[p].page
                         /\ unlink'[p].alive = unlink[p].alive
                         /\ unlink'[p].resume = unlink[p].resume
                         /\ (unlink'[p].st = "none" <=> unlink[p].st = "none")

LEMMA OutsideToken ==
    ASSUME PurgeInv, Outside
    PROVE  \A p \in Purges : TokenAt(p)' /\ Honest(p)
<1>1. ASSUME NEW p \in Purges
      PROVE  TokenAt(p)'
  <2>1. TokenAt(p)
    BY DEF PurgeInv
  <2>2. /\ walk'[p] = walk[p] /\ reply'[p] = reply[p] /\ kind'[p] = kind[p]
        /\ snap'[p] = snap[p] /\ unlink'[p].alive = unlink[p].alive
        /\ unlink'[p].resume = unlink[p].resume
        /\ (unlink'[p].st = "none" <=> unlink[p].st = "none")
    BY DEF Outside
  <2> QED  BY <2>1, <2>2 DEF TokenAt
<1>2. \A p \in Purges : Honest(p)
  BY DEF Honest, Outside
<1> QED  BY <1>1, <1>2

(* A key that no purge has hold of is in no page and in no SREM.            *)
LEMMA StoreInv ==
    ASSUME PurgeInv, NEW k \in Keys, Store(k)
    PROVE  PurgeInv' /\ \A q \in Purges : Honest(q)
<1>1. /\ TypeOK /\ stored' = stored + 1 /\ stored + 1 <= MaxStores /\ k \notin Inflight
      /\ raced' = (IF Held(k) THEN raced \cup {k} ELSE raced)
      /\ UNCHANGED <<l2, index, kind, snap, walk, unlink, reply, found, gap, missed>>
  BY DEF PurgeInv, Store
<1>2. stored \in Nat /\ stored + 1 \in 0..MaxStores
  <2>1. stored \in 0..MaxStores
    BY <1>1 DEF TypeOK
  <2> QED  BY <1>1, <2>1, TagPurgeAssumption
<1>3. PICK v \in Nat : v = stored + 1
  BY <1>2
<1>4. /\ SetCmd(k, v) \in WireType /\ SetCmd(k, v).cmd = "SET"
      /\ SetCmd(k, v).key = k /\ SetCmd(k, v).ver = v
      /\ Sadd(k) \in WireType /\ Sadd(k).cmd = "SADD" /\ Sadd(k).key = k
  BY Commands
<1>5. \/ wires' = wires \cup {SetCmd(k, v), Sadd(k)} /\ UNCHANGED <<shm, lost>>
      \/ /\ wires' = wires \cup {SetCmd(k, v)} /\ lost' = lost \cup {k}
         /\ drops' = drops + 1 /\ reissues' = reissues
         /\ pend' = IF AutoVary THEN pend \cup {k} ELSE pend
  BY <1>3 DEF Store
<1>6. TypeOK'
  <2>1. wires' \subseteq WireType
    BY <1>1, <1>4, <1>5 DEF TypeOK
  <2>2. raced' \subseteq Keys /\ back' \subseteq Keys /\ lost' \subseteq Keys
    BY <1>1, <1>5 DEF TypeOK, Store
  <2>3. pend' \subseteq Keys /\ drops' \in Nat /\ reissues' \in Nat
    <3>1. pend \subseteq Keys /\ drops \in Nat /\ reissues \in Nat
      BY <1>1 DEF TypeOK
    <3> QED  BY <1>5, <3>1 DEF shm
  <2> QED  BY <1>1, <1>2, <2>1, <2>2, <2>3 DEF TypeOK
<1>7. Outside
  BY <1>1 DEF Outside
<1>8. wires \subseteq wires' /\ \A w \in wires' : w \in wires \/ w = SetCmd(k, v) \/ w = Sadd(k)
  BY <1>5
<1>9. \A j \in Keys : j # k => (HasSet(j)' <=> HasSet(j))
  BY <1>4, <1>8 DEF HasSet
<1>10. \A j \in Keys : j # k => (j \in Inflight' <=> j \in Inflight)
  <2>1. \A j \in Keys : j # k => Sadd(j) # Sadd(k) /\ Sadd(j) # SetCmd(k, v)
    BY <1>4, Commands
  <2> QED  BY <1>8, <2>1 DEF Inflight
<1>11. k \in Inflight' \/ k \in lost'
  BY <1>5 DEF Inflight
<1>12. raced \subseteq raced' /\ lost \subseteq lost'
  BY <1>1, <1>5
<1>13. ASSUME NEW j \in Keys
       PROVE  (IndexedAt(j) /\ l2[j] <= stored)'
  <2>1. IndexedAt(j) /\ l2[j] <= stored /\ l2[j] \in Nat
    BY <1>1 DEF PurgeInv, TypeOK
  <2>2. CASE j = k
    BY <1>1, <1>2, <1>11, <2>1, <2>2 DEF IndexedAt
  <2>3. CASE j # k
    BY <1>1, <1>2, <1>9, <1>10, <1>12, <2>1, <2>3 DEF IndexedAt, Present
  <2> QED  BY <2>2, <2>3
<1>14. Held(k) => k \in raced'
  BY <1>1
<1>15. ASSUME NEW w \in wires'
       PROVE  WireAt(w)'
  <2>1. CASE w = SetCmd(k, v)
    <3>1. l2[k] <= stored /\ l2[k] \in Nat
      BY <1>1 DEF PurgeInv, TypeOK
    <3> QED  BY <1>1, <1>2, <1>3, <1>4, <2>1, <3>1 DEF WireAt
  <2>2. CASE w = Sadd(k)
    BY <1>4, <2>2 DEF WireAt
  <2>3. CASE w \in wires
    <3>1. w.cmd = "SET" => w.ver \in 1..stored' /\ l2'[w.key] # w.ver
      <4>1. w.cmd = "SET" => w.ver \in 1..stored /\ l2[w.key] # w.ver
        BY <2>3 DEF PurgeInv, WireAt
      <4> QED  BY <4>1, <1>1, <1>2
    <3>2. ASSUME w.cmd = "SREM", NEW j \in w.members \cap Keys
          PROVE  j \in raced' \/ ~Present(j)'
      <4>1. j \in raced \/ ~Present(j)
        BY <2>3, <3>2 DEF PurgeInv, WireAt
      <4>2. CASE j = k
        BY <1>14, <2>3, <3>2, <4>2 DEF Held
      <4>3. CASE j # k
        BY <1>1, <1>9, <1>12, <4>1, <4>3 DEF Present
      <4> QED  BY <4>2, <4>3
    <3> QED  BY <3>1, <3>2 DEF WireAt
  <2> QED  BY <1>8, <2>1, <2>2, <2>3
<1>16. ASSUME NEW p \in Purges
       PROVE  UnlinkAt(p)'
  <2> SUFFICES ASSUME NEW j \in unlink[p].page \cap Keys
               PROVE  /\ unlink[p].st = "sent" => j \in raced' \/ ~HasSet(j)'
                      /\ unlink[p].st = "executed" => j \in raced' \/ ~Present(j)'
    BY <1>1 DEF UnlinkAt
  <2>1. CASE j = k
    BY <1>14, <2>1 DEF Held
  <2>2. CASE j # k
    <3>1. /\ unlink[p].st = "sent" => j \in raced \/ ~HasSet(j)
          /\ unlink[p].st = "executed" => j \in raced \/ ~Present(j)
      BY DEF PurgeInv, UnlinkAt
    <3> QED  BY <1>1, <1>9, <1>12, <2>2, <3>1 DEF Present
  <2> QED  BY <2>1, <2>2
<1>17. ASSUME NEW p \in Purges
       PROVE  FoundAt(p)'
  <2>1. FoundAt(p)
    BY DEF PurgeInv
  <2>2. \A f \in found[p] : f[1] \in Keys /\ f[2] \in Nat
    BY <1>1, FoundPairs
  <2>3. \A f \in found[p] : Handled(p, f) => Handled(p, f)'
    BY <1>1, <1>8, <1>12 DEF Handled
  <2>4. \A f \in found[p] : f[2] \in 1..stored
    BY <2>1 DEF FoundAt
  <2>5. \A f \in found[p] : f[2] \in 1..stored' /\ f[2] # v
    BY <1>1, <1>2, <1>3, <2>4
  <2>6. \A f \in found[p] : SetCmd(f[1], f[2]) \notin wires'
    <3>1. \A f \in found[p] : SetCmd(f[1], f[2]) \notin wires
      BY <2>1 DEF FoundAt
    <3>2. \A f \in found[p] : SetCmd(f[1], f[2]).cmd = "SET" /\ SetCmd(f[1], f[2]).ver = f[2]
      BY <2>2, Commands
    <3> QED  BY <1>4, <1>8, <2>5, <3>1, <3>2
  <2> QED  BY <1>1, <1>12, <2>1, <2>3, <2>5, <2>6 DEF FoundAt
<1>18. \A p \in Purges : TokenAt(p)' /\ Honest(p)
  BY <1>7, OutsideToken
<1>19. IsFiniteSet(Inflight)'
  <2>1. Inflight' \subseteq Inflight \cup {k}
    BY <1>10 DEF Inflight
  <2>2. IsFiniteSet(Inflight \cup {k})
    BY FS_AddElement DEF PurgeInv
  <2> QED  BY <2>1, <2>2, FS_Subset
<1> QED  BY <1>6, <1>13, <1>15, <1>16, <1>17, <1>18, <1>19 DEF PurgeInv

LEMMA HealInv ==
    ASSUME PurgeInv, NEW k \in Keys, Heal(k)
    PROVE  PurgeInv' /\ \A q \in Purges : Honest(q)
<1>1. /\ TypeOK /\ wires' = wires \cup {Sadd(k)} /\ pend' = pend \ {k}
      /\ reissues' = reissues + 1
      /\ UNCHANGED <<l2, index, stored, drops, kind, snap, walk, unlink, reply, hist>>
  BY DEF PurgeInv, Heal
<1>2. Sadd(k) \in WireType /\ Sadd(k).cmd = "SADD" /\ Sadd(k).key = k
  BY Commands
<1>3. TypeOK'
  <2>1. wires' \subseteq WireType /\ pend' \subseteq Keys /\ reissues' \in Nat
    <3>1. wires \subseteq WireType /\ pend \subseteq Keys /\ reissues \in Nat
      BY <1>1 DEF TypeOK
    <3> QED  BY <1>1, <1>2, <3>1
  <2> QED  BY <1>1, <2>1 DEF TypeOK, hist
<1>4. Outside
  BY <1>1 DEF Outside, hist
<1>5. \A j : HasSet(j)' <=> HasSet(j)
  BY <1>1, <1>2 DEF HasSet
<1>6. \A j : Present(j)' <=> Present(j)
  BY <1>1, <1>5 DEF Present
<1>7. \A j \in Keys : j \in Inflight => j \in Inflight'
  BY <1>1 DEF Inflight
<1>8. \A j \in Keys : (IndexedAt(j) /\ l2[j] <= stored)'
  BY <1>1, <1>6, <1>7 DEF PurgeInv, IndexedAt, hist
<1>9. \A w \in wires' : WireAt(w)'
  <2>1. \A w \in wires : WireAt(w)
    BY DEF PurgeInv
  <2> QED  BY <1>1, <1>2, <1>6, <2>1 DEF WireAt, hist
<1>10. ASSUME NEW p \in Purges
       PROVE  UnlinkAt(p)' /\ FoundAt(p)'
  <2>1. UnlinkAt(p) /\ FoundAt(p)
    BY DEF PurgeInv
  <2>2. UnlinkAt(p)'
    BY <1>1, <1>5, <1>6, <2>1 DEF UnlinkAt, hist
  <2>3. \A f \in found[p] : Handled(p, f) => Handled(p, f)'
    BY <1>1 DEF Handled, hist
  <2>4. \A f \in found[p] : SetCmd(f[1], f[2]) \notin wires'
    <3>1. \A f \in found[p] : SetCmd(f[1], f[2]) \notin wires
      BY <2>1 DEF FoundAt
    <3>2. \A f \in found[p] : SetCmd(f[1], f[2]).cmd = "SET"
      BY <1>1, FoundPairs, Commands
    <3> QED  BY <1>1, <1>2, <3>1, <3>2
  <2>5. FoundAt(p)'
    BY <1>1, <2>1, <2>3, <2>4 DEF FoundAt, hist
  <2> QED  BY <2>2, <2>5
<1>11. IsFiniteSet(Inflight)'
  <2>1. Inflight' \subseteq Inflight \cup {k}
    <3>1. \A j \in Keys : j # k => Sadd(j) # Sadd(k)
      BY <1>2, Commands
    <3> QED  BY <1>1, <3>1 DEF Inflight
  <2>2. IsFiniteSet(Inflight \cup {k})
    BY FS_AddElement DEF PurgeInv
  <2> QED  BY <2>1, <2>2, FS_Subset
<1>12. \A p \in Purges : TokenAt(p)' /\ Honest(p)
  BY <1>4, OutsideToken
<1> QED  BY <1>3, <1>8, <1>9, <1>10, <1>11, <1>12 DEF PurgeInv

(* A command that leaves: what it means for its key, whoever executes it.   *)
LEMMA SentOf ==
    ASSUME TypeOK, NEW w \in wires, wires' = wires \ {w}
    PROVE  /\ \A j \in Keys : HasSet(j)' => HasSet(j)
           /\ \A j \in Keys : HasSet(j) => HasSet(j)' \/ (w.cmd = "SET" /\ w.key = j)
           /\ Inflight' \subseteq Inflight
           /\ \A j \in Keys : j \in Inflight =>
                j \in Inflight' \/ (w.cmd = "SADD" /\ w.key = j)
           /\ gap' = [p \in Purges |-> gap[p] \cap (Unindexed \ {k \in Keys : w = Sadd(k)})]
                => gap' \in [Purges -> SUBSET Keys]
<1>1. gap \in [Purges -> SUBSET Keys]
  BY DEF TypeOK
<1>2. \A j \in Keys : HasSet(j)' => HasSet(j)
  BY DEF HasSet
<1>3. \A j \in Keys : HasSet(j) => HasSet(j)' \/ (w.cmd = "SET" /\ w.key = j)
  BY DEF HasSet
<1>4. Inflight' \subseteq Inflight
  BY DEF Inflight
<1>5. \A j \in Keys : j \in Inflight =>
         j \in Inflight' \/ (w.cmd = "SADD" /\ w.key = j)
  BY Commands DEF Inflight
<1> QED  BY <1>1, <1>2, <1>3, <1>4, <1>5

LEMMA LoseInv ==
    ASSUME PurgeInv, NEW w \in wires, Lose(w)
    PROVE  PurgeInv' /\ \A q \in Purges : Honest(q)
<1>1. /\ TypeOK /\ wires' = wires \ {w}
      /\ lost' = (IF w.cmd = "SADD" THEN lost \cup {w.key} ELSE lost)
      /\ missed' = (IF w.cmd = "UNLINK" THEN missed \cup w.members ELSE missed)
      /\ UNCHANGED <<l2, index, stored, shm, kind, snap, walk, unlink, reply,
                     found, raced, back>>
  BY DEF PurgeInv, Lose
<1>2. /\ w.cmd = "SADD" => w.key \in Keys
      /\ w.cmd = "UNLINK" => w.members \in SUBSET (Keys \cup Junk)
  BY <1>1, WireKinds
<1>3. /\ \A j \in Keys : HasSet(j)' => HasSet(j)
      /\ Inflight' \subseteq Inflight
      /\ \A j \in Keys : j \in Inflight => j \in Inflight' \/ (w.cmd = "SADD" /\ w.key = j)
      /\ gap' \in [Purges -> SUBSET Keys]
  BY <1>1, SentOf DEF Lose
<1>4. TypeOK'
  <2>1. wires' \subseteq WireType /\ lost' \subseteq Keys /\ missed' \subseteq Keys \cup Junk
    BY <1>1, <1>2 DEF TypeOK
  <2> QED  BY <1>1, <1>3, <2>1 DEF TypeOK, shm
<1>5. Outside
  BY <1>1 DEF Outside
<1>6. \A j \in Keys : Present(j)' => Present(j)
  BY <1>1, <1>3 DEF Present
<1>7. \A j \in Keys : (IndexedAt(j) /\ l2[j] <= stored)'
  BY <1>1, <1>3, <1>6 DEF PurgeInv, IndexedAt
<1>8. \A v \in wires' : WireAt(v)'
  <2>1. \A v \in wires : WireAt(v)
    BY DEF PurgeInv
  <2> QED  BY <1>1, <1>6, <2>1 DEF WireAt
<1>9. ASSUME NEW p \in Purges
      PROVE  UnlinkAt(p)' /\ FoundAt(p)'
  <2>1. UnlinkAt(p) /\ FoundAt(p)
    BY DEF PurgeInv
  <2>2. UnlinkAt(p)'
    BY <1>1, <1>3, <1>6, <2>1 DEF UnlinkAt
  <2>3. \A f \in found[p] : Handled(p, f) => Handled(p, f)'
    BY <1>1 DEF Handled
  <2>4. FoundAt(p)'
    BY <1>1, <2>1, <2>3 DEF FoundAt
  <2> QED  BY <2>2, <2>4
<1>10. IsFiniteSet(Inflight)'
  BY <1>3, FS_Subset DEF PurgeInv
<1>11. \A p \in Purges : TokenAt(p)' /\ Honest(p)
  BY <1>5, OutsideToken
<1> QED  BY <1>4, <1>7, <1>8, <1>9, <1>10, <1>11 DEF PurgeInv

LEMMA ExecuteInv ==
    ASSUME PurgeInv, NEW w \in wires, Execute(w)
    PROVE  PurgeInv' /\ \A q \in Purges : Honest(q)
<1>1. /\ TypeOK /\ WireAt(w) /\ wires' = wires \ {w}
      /\ l2' = (IF w.cmd = "SET" THEN [l2 EXCEPT ![w.key] = w.ver]
                ELSE IF w.cmd = "UNLINK"
                THEN [k \in Keys |-> IF k \in w.members THEN 0 ELSE l2[k]] ELSE l2)
      /\ index' = (IF w.cmd = "SADD" THEN index \cup {w.key}
                   ELSE IF w.cmd = "SREM" THEN index \ w.members ELSE index)
      /\ UNCHANGED <<stored, shm, kind, snap, walk, unlink, reply,
                     found, lost, raced, missed, back>>
  BY DEF PurgeInv, Execute
<1>2. /\ w.cmd \in {"SET", "SADD", "UNLINK", "SREM"}
      /\ w.cmd = "SET" => w.key \in Keys /\ w.ver \in Nat /\ w = SetCmd(w.key, w.ver)
      /\ w.cmd = "SADD" => w.key \in Keys
      /\ w.cmd \in {"UNLINK", "SREM"} => w.members \in SUBSET (Keys \cup Junk)
  BY <1>1, WireKinds
<1>3. /\ \A j \in Keys : HasSet(j)' => HasSet(j)
      /\ \A j \in Keys : HasSet(j) => HasSet(j)' \/ (w.cmd = "SET" /\ w.key = j)
      /\ Inflight' \subseteq Inflight
      /\ \A j \in Keys : j \in Inflight => j \in Inflight' \/ (w.cmd = "SADD" /\ w.key = j)
      /\ gap' \in [Purges -> SUBSET Keys]
  BY <1>1, SentOf DEF Execute
<1>4. l2 \in [Keys -> Nat] /\ stored \in Nat
  <2>1. l2 \in [Keys -> Nat] /\ stored \in 0..MaxStores
    BY <1>1 DEF TypeOK
  <2> QED  BY <2>1, TagPurgeAssumption
<1>5. /\ l2' \in [Keys -> Nat]
      /\ w.cmd = "SET" => l2'[w.key] = w.ver
      /\ \A j \in Keys : l2'[j] = l2[j] \/ l2'[j] = 0 \/ (w.cmd = "SET" /\ w.key = j)
      /\ w.cmd # "SET" => \A j \in Keys : l2'[j] = l2[j] \/ l2'[j] = 0
  <2>1. CASE w.cmd = "SET"
    <3>1. l2' = [l2 EXCEPT ![w.key] = w.ver]
      BY <1>1, <2>1
    <3> QED  BY <1>2, <1>4, <2>1, <3>1
  <2>2. CASE w.cmd = "UNLINK"
    <3>1. l2' = [k \in Keys |-> IF k \in w.members THEN 0 ELSE l2[k]]
      BY <1>1, <2>2
    <3> QED  BY <1>4, <2>2, <3>1
  <2>3. CASE w.cmd \notin {"SET", "UNLINK"}
    <3>1. l2' = l2
      BY <1>1, <2>3
    <3> QED  BY <1>4, <2>3, <3>1
  <2> QED  BY <2>1, <2>2, <2>3
<1>6. TypeOK'
  <2>1. index' \subseteq Keys \cup Junk /\ wires' \subseteq WireType
    BY <1>1, <1>2 DEF TypeOK
  <2> QED  BY <1>1, <1>3, <1>5, <2>1 DEF TypeOK, shm
<1>7. Outside
  BY <1>1 DEF Outside
<1>8. \A j \in Keys : Present(j)' => Present(j)
  <2> SUFFICES ASSUME NEW j \in Keys, Present(j)'
               PROVE  Present(j)
    OBVIOUS
  <2>1. CASE w.cmd = "SET" /\ w.key = j
    BY <2>1 DEF Present, HasSet
  <2>2. CASE ~(w.cmd = "SET" /\ w.key = j)
    BY <1>3, <1>5, <2>2 DEF Present
  <2> QED  BY <2>1, <2>2
<1>9. ASSUME NEW j \in Keys
      PROVE  (IndexedAt(j) /\ l2[j] <= stored)'
  <2>1. IndexedAt(j) /\ l2[j] <= stored /\ l2[j] \in Nat
    BY <1>4 DEF PurgeInv
  <2>2. l2'[j] <= stored'
    <3>1. w.cmd = "SET" => w.ver <= stored
      BY <1>1, <1>4 DEF WireAt
    <3> QED  BY <1>1, <1>4, <1>5, <2>1, <3>1
  <2>3. ASSUME Present(j)', j \notin lost' \cup raced' \cup Inflight'
        PROVE  j \in index'
    <3>1. Present(j) /\ j \notin lost \cup raced
      BY <1>1, <1>8, <2>3
    <3>2. CASE w.cmd = "SADD" /\ w.key = j
      BY <1>1, <3>2
    <3>3. CASE ~(w.cmd = "SADD" /\ w.key = j)
      <4>1. j \in index
        BY <1>3, <2>1, <2>3, <3>1, <3>3 DEF IndexedAt
      <4>2. w.cmd = "SREM" => j \notin w.members
        BY <1>1, <3>1 DEF WireAt
      <4> QED  BY <1>1, <4>1, <4>2
    <3> QED  BY <3>2, <3>3
  <2> QED  BY <2>2, <2>3 DEF IndexedAt
<1>10. ASSUME NEW v \in wires'
       PROVE  WireAt(v)'
  <2>1. WireAt(v) /\ v \in wires /\ v # w
    BY <1>1 DEF PurgeInv
  <2>2. v.cmd = "SET" => v.key \in Keys /\ v.ver \in Nat /\ v = SetCmd(v.key, v.ver)
    BY <1>1, <2>1, WireKinds
  <2>3. v.cmd = "SET" => v.ver \in 1..stored' /\ l2'[v.key] # v.ver
    <3> SUFFICES ASSUME v.cmd = "SET"
                 PROVE  l2'[v.key] # v.ver
      BY <1>1, <2>1 DEF WireAt
    <3>1. l2[v.key] # v.ver /\ v.ver # 0
      BY <2>1 DEF WireAt
    <3>2. w.cmd = "SET" /\ w.key = v.key => w.ver # v.ver
      BY <1>2, <2>1, <2>2
    <3> QED  BY <1>5, <2>2, <3>1, <3>2
  <2>4. v.cmd = "SREM" => \A k \in v.members \cap Keys : k \in raced' \/ ~Present(k)'
    BY <1>1, <1>8, <2>1 DEF WireAt
  <2> QED  BY <2>3, <2>4 DEF WireAt
<1>11. ASSUME NEW p \in Purges
       PROVE  UnlinkAt(p)' /\ FoundAt(p)'
  <2>1. UnlinkAt(p) /\ FoundAt(p)
    BY DEF PurgeInv
  <2>2. UnlinkAt(p)'
    BY <1>1, <1>3, <1>8, <2>1 DEF UnlinkAt
  <2>3. \A f \in found[p] : /\ f[1] \in Keys /\ f[2] \in Nat /\ f[2] # 0
                            /\ f[2] \in 1..stored /\ SetCmd(f[1], f[2]) \notin wires
    <3>1. \A f \in found[p] : f[1] \in Keys /\ f[2] \in Nat
      BY <1>1, FoundPairs
    <3>2. \A f \in found[p] : f[2] \in 1..stored /\ SetCmd(f[1], f[2]) \notin wires
      BY <2>1 DEF FoundAt
    <3> QED  BY <3>1, <3>2
  <2>4. \A f \in found[p] : l2'[f[1]] = f[2] => l2[f[1]] = f[2]
    <3> SUFFICES ASSUME NEW f \in found[p], l2'[f[1]] = f[2]
                 PROVE  l2[f[1]] = f[2]
      OBVIOUS
    <3>1. ~(w.cmd = "SET" /\ w.key = f[1])
      BY <1>2, <1>5, <2>3
    <3> QED  BY <1>5, <2>3, <3>1
  <2>5. ASSUME NEW f \in found[p], Handled(p, f)
        PROVE  Handled(p, f)'
    <3>1. CASE f[1] \in raced \/ l2[f[1]] # f[2]
      BY <1>1, <2>4, <3>1 DEF Handled
    <3>2. CASE kind[p] = "all" /\ f[1] \in missed
      BY <1>1, <3>2 DEF Handled
    <3>3. ASSUME kind[p] = "all", NEW c \in wires, c.cmd = "UNLINK", f[1] \in c.members
          PROVE  Handled(p, f)'
      <4>1. CASE c = w
        <5>1. l2'[f[1]] = 0
          BY <1>1, <2>3, <3>3, <4>1
        <5> QED  BY <2>3, <5>1 DEF Handled
      <4>2. CASE c # w
        <5>1. c \in {d \in wires' : d.cmd = "UNLINK"}
          BY <1>1, <3>3, <4>2
        <5>2. kind'[p] = "all"
          BY <1>1, <3>3
        <5> QED  BY <3>3, <5>1, <5>2 DEF Handled
      <4> QED  BY <4>1, <4>2
    <3> QED  BY <2>5, <3>1, <3>2, <3>3 DEF Handled
  <2>6. \A f \in found[p] : SetCmd(f[1], f[2]) \notin wires'
    BY <1>1, <2>3
  <2>7. ASSUME NEW f \in found[p], kind[p] = "tag", l2'[f[1]] = f[2]
        PROVE  f[1] \in raced' \cup index'
    <3>1. f[1] \in raced \cup index /\ l2[f[1]] = f[2]
      BY <2>1, <2>4, <2>7 DEF FoundAt
    <3>2. Present(f[1])
      BY <2>3, <3>1 DEF Present
    <3>3. w.cmd = "SREM" => f[1] \in raced \/ f[1] \notin w.members
      BY <1>1, <2>3, <3>2 DEF WireAt
    <3> QED  BY <1>1, <3>1, <3>3
  <2>8. FoundAt(p)'
    BY <1>1, <2>1, <2>3, <2>5, <2>6, <2>7 DEF FoundAt
  <2> QED  BY <2>2, <2>8
<1>12. IsFiniteSet(Inflight)'
  BY <1>3, FS_Subset DEF PurgeInv
<1>13. \A p \in Purges : TokenAt(p)' /\ Honest(p)
  BY <1>7, OutsideToken
<1> QED  BY <1>6, <1>9, <1>10, <1>11, <1>12, <1>13 DEF PurgeInv

LEMMA UnlinkInv ==
    ASSUME PurgeInv, NEW p \in Purges, Unlink(p)
    PROVE  PurgeInv' /\ \A q \in Purges : Honest(q)
<1>1. /\ TypeOK /\ unlink[p].st = "sent"
      /\ unlink' = [unlink EXCEPT ![p].st = "executed"]
      /\ l2' = [k \in Keys |-> IF k \in unlink[p].page THEN 0 ELSE l2[k]]
      /\ UNCHANGED <<index, wires, stored, shm, kind, snap, walk, reply, hist>>
  BY DEF PurgeInv, Unlink
<1>2. l2 \in [Keys -> Nat] /\ stored \in Nat
  <2>1. l2 \in [Keys -> Nat] /\ stored \in 0..MaxStores
    BY <1>1 DEF TypeOK
  <2> QED  BY <2>1, TagPurgeAssumption
<1>3. /\ l2' \in [Keys -> Nat] /\ \A j \in Keys : l2'[j] = l2[j] \/ l2'[j] = 0
      /\ \A j \in unlink[p].page \cap Keys : l2'[j] = 0
  BY <1>1, <1>2
<1>4. /\ unlink' \in [Purges -> UnlinkType]
      /\ unlink'[p].st = "executed" /\ unlink'[p].page = unlink[p].page
      /\ unlink'[p].alive = unlink[p].alive /\ unlink'[p].resume = unlink[p].resume
      /\ \A q \in Purges : q # p => unlink'[q] = unlink[q]
  <2>1. PICK u \in UnlinkType : u = unlink[p]
    BY <1>1 DEF TypeOK
  <2>2. PICK v \in UnlinkType : v = [u EXCEPT !.st = "executed"]
    BY DEF UnlinkType
  <2>3. v.st = "executed" /\ v.page = u.page /\ v.alive = u.alive /\ v.resume = u.resume
    BY <2>2 DEF UnlinkType
  <2>4. unlink' = [unlink EXCEPT ![p] = v]
    BY <1>1, <2>1, <2>2
  <2> QED  BY <1>1, <2>1, <2>3, <2>4 DEF TypeOK
<1>5. TypeOK'
  BY <1>1, <1>3, <1>4 DEF TypeOK, shm, hist
<1>6. Outside
  BY <1>1, <1>4 DEF Outside, hist
<1>7. \A j : HasSet(j)' <=> HasSet(j)
  BY <1>1 DEF HasSet
<1>8. \A j \in Keys : Present(j)' => Present(j)
  BY <1>3, <1>7 DEF Present
<1>9. Inflight' = Inflight
  BY <1>1 DEF Inflight
<1>10. \A j \in Keys : (IndexedAt(j) /\ l2[j] <= stored)'
  <2>1. \A j \in Keys : l2'[j] <= stored'
    BY <1>1, <1>2, <1>3 DEF PurgeInv
  <2>2. \A j \in Keys : IndexedAt(j)'
    BY <1>1, <1>8, <1>9 DEF PurgeInv, IndexedAt, hist
  <2> QED  BY <2>1, <2>2
<1>11. ASSUME NEW w \in wires'
       PROVE  WireAt(w)'
  <2>1. WireAt(w) /\ (w.cmd = "SET" => w.key \in Keys)
    BY <1>1, WireKinds DEF PurgeInv
  <2>2. w.cmd = "SET" => w.ver \in 1..stored' /\ l2'[w.key] # w.ver
    <3>1. w.cmd = "SET" => w.ver \in 1..stored /\ w.ver # 0 /\ l2[w.key] # w.ver
      BY <2>1 DEF WireAt
    <3> QED  BY <1>1, <1>3, <2>1, <3>1
  <2>3. w.cmd = "SREM" => \A k \in w.members \cap Keys : k \in raced' \/ ~Present(k)'
    BY <1>1, <1>8, <2>1 DEF WireAt, hist
  <2> QED  BY <2>2, <2>3 DEF WireAt
<1>12. ASSUME NEW q \in Purges
       PROVE  UnlinkAt(q)'
  <2>1. UnlinkAt(q) /\ UnlinkAt(p)
    BY DEF PurgeInv
  <2>2. CASE q = p
    <3>1. \A k \in unlink[p].page \cap Keys : k \in raced \/ ~Present(k)'
      BY <1>1, <1>3, <1>7, <2>1 DEF UnlinkAt, Present
    <3> QED  BY <1>1, <1>4, <2>2, <3>1 DEF UnlinkAt, hist
  <2>3. CASE q # p
    BY <1>1, <1>4, <1>7, <1>8, <2>1, <2>3 DEF UnlinkAt, hist
  <2> QED  BY <2>2, <2>3
<1>13. ASSUME NEW q \in Purges
       PROVE  FoundAt(q)'
  <2>1. FoundAt(q) /\ \A f \in found[q] : f[1] \in Keys /\ f[2] \in Nat
    BY <1>1, FoundPairs DEF PurgeInv
  <2>2. \A f \in found[q] : f[2] \in 1..stored /\ f[2] # 0
    BY <2>1 DEF FoundAt
  <2>3. \A f \in found[q] : l2'[f[1]] = f[2] => l2[f[1]] = f[2]
    BY <1>3, <2>1, <2>2
  <2>4. \A f \in found[q] : Handled(q, f) => Handled(q, f)'
    BY <1>1, <2>3 DEF Handled, hist
  <2>5. ASSUME NEW f \in found[q], kind[q] = "tag", unlink[q].st = "sent",
               f[1] \in unlink[q].page
        PROVE  Handled(q, f)' \/ (unlink'[q].st = "sent" /\ f[1] \in unlink'[q].page)
    <3>1. CASE q = p
      BY <1>3, <2>1, <2>2, <2>5, <3>1 DEF Handled
    <3>2. CASE q # p
      BY <1>4, <2>5, <3>2
    <3> QED  BY <3>1, <3>2
  <2> QED  BY <1>1, <2>1, <2>3, <2>4, <2>5 DEF FoundAt, hist
<1>14. \A q \in Purges : TokenAt(q)' /\ Honest(q)
  BY <1>6, OutsideToken
<1>15. IsFiniteSet(Inflight)'
  BY <1>9 DEF PurgeInv
<1> QED  BY <1>5, <1>10, <1>11, <1>12, <1>13, <1>14, <1>15 DEF PurgeInv

-----------------------------------------------------------------------------
(* The specification. *)

LEMMA InitInv == Init => PurgeInv
<1> SUFFICES ASSUME Init PROVE PurgeInv
  OBVIOUS
<1>1. TypeOK
  <2>1. walk \in [Purges -> WalkType] /\ unlink \in [Purges -> UnlinkType]
    BY NoWalkOK DEF Init
  <2>2. snap \in [Purges -> [at : 0..3, gap : Int]]
    BY DEF Init, NoSnap
  <2>3. stored \in 0..MaxStores /\ l2 \in [Keys -> Nat]
    BY TagPurgeAssumption DEF Init
  <2> QED  BY <2>1, <2>2, <2>3 DEF Init, TypeOK
<1>2. Inflight = {} /\ \A k \in Keys : ~Present(k) /\ l2[k] <= stored
  BY DEF Init, Inflight, Present, HasSet
<1>3. IsFiniteSet(Inflight)
  BY <1>2, FS_EmptySet
<1>4. \A k \in Keys : IndexedAt(k)
  BY <1>2 DEF IndexedAt
<1>5. wires = {}
  BY DEF Init
<1>6. ASSUME NEW p \in Purges
      PROVE  TokenAt(p) /\ UnlinkAt(p) /\ FoundAt(p)
  <2>1. /\ walk[p].st = "none" /\ ~walk[p].detached /\ unlink[p].st = "none"
        /\ ~unlink[p].alive /\ unlink[p].page = {} /\ snap[p].at = 0 /\ found[p] = {}
    BY DEF Init, NoWalk, NoUnlink, NoSnap
  <2> QED  BY <2>1 DEF TokenAt, UnlinkAt, FoundAt
<1> QED  BY <1>1, <1>2, <1>3, <1>4, <1>5, <1>6 DEF PurgeInv

LEMMA NextInv == PurgeInv /\ [Next]_vars => PurgeInv' /\ \A q \in Purges : Honest(q)
<1> SUFFICES ASSUME PurgeInv, [Next]_vars
             PROVE  PurgeInv' /\ \A q \in Purges : Honest(q)
  OBVIOUS
<1>1. ASSUME NEW k \in Keys, Store(k) \/ Heal(k)
      PROVE  PurgeInv' /\ \A q \in Purges : Honest(q)
  BY <1>1, StoreInv, HealInv
<1>2. ASSUME NEW w \in wires, Execute(w) \/ Lose(w)
      PROVE  PurgeInv' /\ \A q \in Purges : Honest(q)
  BY <1>2, ExecuteInv, LoseInv
<1>3. ASSUME NEW p \in Purges,
             \/ ReadCounter(p) \/ Launch(p) \/ EmptyPage(p) \/ WalkFails(p)
             \/ Unlink(p) \/ Unlinked(p) \/ Gone(p) \/ LaunchAll(p)
      PROVE  PurgeInv' /\ \A q \in Purges : Honest(q)
  BY <1>3, ReadCounterInv, LaunchInv, EmptyPageInv, WalkFailsInv, UnlinkInv,
     UnlinkedInv, GoneInv, LaunchAllInv
<1>4. ASSUME NEW p \in Purges, NEW k \in Keys, Promote(p, k)
      PROVE  PurgeInv' /\ \A q \in Purges : Honest(q)
  BY <1>4, PromoteInv
<1>5. ASSUME NEW p \in Purges, NEW page \in SUBSET (Keys \cup Junk),
             Page(p, page) \/ PageAll(p, page)
      PROVE  PurgeInv' /\ \A q \in Purges : Honest(q)
  BY <1>5, PageInv, PageAllInv
<1>6. CASE UNCHANGED vars
  <2>1. /\ UNCHANGED <<l2, index, wires, stored, kind, snap, walk, unlink, reply,
                       found, lost, raced, missed>>
        /\ UNCHANGED <<pend, drops, reissues, gap, back>>
    BY <1>6 DEF vars, redis, shm, hist
  <2>2. TypeOK' /\ IsFiniteSet(Inflight)'
    BY <2>1 DEF PurgeInv, TypeOK, Inflight
  <2>3. \A k \in Keys : (IndexedAt(k) /\ l2[k] <= stored)'
    BY <2>1 DEF PurgeInv, IndexedAt, Inflight, Present, HasSet
  <2>4. \A w \in wires' : WireAt(w)'
    BY <2>1 DEF PurgeInv, WireAt, Present, HasSet
  <2>5. \A p \in Purges : TokenAt(p)' /\ UnlinkAt(p)'
    BY <2>1 DEF PurgeInv, TokenAt, UnlinkAt, Present, HasSet
  <2>6. \A p \in Purges : FoundAt(p)'
    BY <2>1 DEF PurgeInv, FoundAt, Handled
  <2>7. PurgeInv'
    BY <2>2, <2>3, <2>4, <2>5, <2>6 DEF PurgeInv
  <2> QED  BY <2>1, <2>7, QuietHonest
<1> QED  BY <1>1, <1>2, <1>3, <1>4, <1>5, <1>6 DEF Next

LEMMA SpecInv == Spec => []PurgeInv
  BY InitInv, NextInv, PTL DEF Spec

(* The counters, the walk and its UNLINK keep their types.                  *)
THEOREM PurgeTypes == Spec => []TypeOK
<1>1. PurgeInv => TypeOK
  BY DEF PurgeInv
<1> QED  BY <1>1, SpecInv, PTL

(* A suspended walk is always resumed by the token of its UNLINK, and a     *)
(* token never points to a walk or a request that is gone                   *)
(* (walk_suspend(), tag_purge_await_gone(), tag_purge_page_unlinked()).     *)
THEOREM TokenOutlivesWalk == Spec => []SuspendedIsAwaited
<1>1. PurgeInv => SuspendedIsAwaited
  BY DEF PurgeInv, TokenAt, SuspendedIsAwaited
<1> QED  BY <1>1, SpecInv, PTL

(* An object that a purge left in Redis is in the set for the next one      *)
(* (tag_purge_page_settle() removes a page's members after their UNLINK).   *)
THEOREM NextPurgeFindsIt == Spec => []RetryFindsIt
<1>1. PurgeInv => RetryFindsIt
  BY DEF PurgeInv, IndexedAt, Present, RetryFindsIt
<1> QED  BY <1>1, SpecInv, PTL

(* A purge that reports success has dealt with every object it found        *)
(* (read_sscan(), sscan_resume(), read_scan()).                             *)
THEOREM SuccessIsHonest == Spec => SuccessDeletes
<1> DEFINE Deletes ==
      \A p \in Purges :
         reply[p] = "none" /\ reply'[p] \in {"complete", "partial"} =>
           \A f \in found[p] :
             \/ f[1] \in raced' \/ l2'[f[1]] # f[2]
             \/ kind[p] = "all" /\ f[1] \in missed' \cup
                  UNION {w.members : w \in {c \in wires' : c.cmd = "UNLINK"}}
<1>1. Next => kind' = kind
  BY ZenonT(40) DEF Next, Store, Heal, Execute, Lose, ReadCounter, Launch, EmptyPage, WalkFails,
         Unlink, Unlinked, Gone, LaunchAll, Promote, Page, PageAll
<1>2. PurgeInv /\ Next => Deletes
  BY <1>1, NextInv DEF Honest, Handled
<1>3. PurgeInv /\ [Next]_vars => [Deletes]_vars
  BY <1>2
<1>4. SuccessDeletes <=> [][Deletes]_vars
  BY DEF SuccessDeletes
<1> HIDE DEF Deletes
<1> QED  BY <1>3, <1>4, SpecInv, PTL DEF Spec

=============================================================================
