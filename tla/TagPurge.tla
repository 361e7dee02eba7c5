------------------------------ MODULE TagPurge ------------------------------
(***************************************************************************)
(* The tag index in Redis and the purge by tag: a PURGE walks the set of a *)
(* tag page by page with SSCAN (ngx_http_cache_turbo_redis.c), drops the   *)
(* page's objects from L1, UNLINKs them, waits for the answer with the     *)
(* walk suspended, removes the page from the set and goes on               *)
(* (ngx_http_cache_turbo_purge.c).  A purge of everything walks the keys   *)
(* themselves with SCAN and does not wait for its UNLINKs                  *)
(* (ngx_http_cache_turbo_admin.c).  Meanwhile pages are stored and indexed *)
(* by commands of their own, requests are destroyed, and anything sent may *)
(* be lost.  Several purges may run at once.                               *)
(*                                                                         *)
(* A connection to Redis carries one operation at a time (L2Clients), so *)
(* commands of different operations are executed in any order.             *)
(***************************************************************************)
EXTENDS Integers, FiniteSets

CONSTANTS
    Keys,           \* members the set may have
    Junk,           \* members of the set that are no key (empty names)
    Purges,         \* purge requests, each used once
    AutoVary,       \* the set is a variant index, whose gaps are healed
    MaxPages,       \* SCAN_MAX_PAGES
    MaxStores       \* bound: stores

ASSUME TagPurgeAssumption ==
    /\ Junk \cap Keys = {} /\ AutoVary \in BOOLEAN
    /\ MaxPages \in Nat \ {0} /\ MaxStores \in Nat

VARIABLES
    l2,             \* version of each object in Redis, 0 for none
    stored,         \* versions made so far
    index,          \* the set of the tag in Redis
    wires,          \* commands sent or queued that nobody waits for
    pend,           \* varidx_pending of each key's L1 node
    drops,          \* sh->varidx_drops (tag_index_drops of a tag)
    reissues,       \* sh->varidx_reissues
    kind,           \* a purge of the tag, or of all
    snap,           \* the purge's reading of the three counters
    walk,           \* the SSCAN operation of each purge
    unlink,         \* the UNLINK operation of its current page
    reply,          \* what the client of the purge was told
    found,          \* history: indexed objects when the walk was launched
    gap,            \* history: keys unindexed since before the first reading
    lost,           \* history: keys whose index entry never came to be
    raced,          \* history: keys stored while a purge had hold of them
    missed,         \* history: keys whose UNLINK nobody waited for was lost
    back            \* history: objects of before a purge of all, back in L1

hist == <<found, gap, lost, raced, missed, back>>
redis == <<l2, index, wires>>
shm == <<pend, drops, reissues>>
vars == <<redis, stored, shm, kind, snap, walk, unlink, reply, hist>>

SetCmd(k, v) == [cmd |-> "SET", key |-> k, ver |-> v]
Sadd(k) == [cmd |-> "SADD", key |-> k]
UnlinkCmd(p, keys) == [cmd |-> "UNLINK", by |-> p, members |-> keys]
Srem(p, members) == [cmd |-> "SREM", by |-> p, members |-> members]

\* varidx_inflight: the SADDs on their way (L2Clients!ParkedPaired).
Inflight == {k \in Keys : Sadd(k) \in wires}

NoWalk == [st |-> "none", todo |-> {}, pages |-> 0, detached |-> FALSE,
           doomed |-> FALSE]
NoUnlink == [st |-> "none", page |-> {}, alive |-> FALSE, resume |-> FALSE]
NoSnap == [at |-> 0, gap |-> 0]

\* A command on its way to Redis.
WireType ==
    [cmd : {"SET"}, key : Keys, ver : Nat] \cup [cmd : {"SADD"}, key : Keys] \cup
    [cmd : {"UNLINK", "SREM"}, by : Purges, members : SUBSET (Keys \cup Junk)]

WalkType ==
    [st : {"none", "ask", "suspended", "freed"}, todo : SUBSET (Keys \cup Junk),
     pages : 0..MaxPages, detached : BOOLEAN, doomed : BOOLEAN]

UnlinkType ==
    [st : {"none", "sent", "executed"}, page : SUBSET (Keys \cup Junk),
     alive : BOOLEAN, resume : BOOLEAN]

TypeOK ==
    /\ l2 \in [Keys -> Nat] /\ stored \in 0..MaxStores
    /\ index \subseteq Keys \cup Junk /\ wires \subseteq WireType
    /\ pend \subseteq Keys /\ drops \in Nat /\ reissues \in Nat
    /\ snap \in [Purges -> [at : 0..3, gap : Int]]
    /\ walk \in [Purges -> WalkType] /\ unlink \in [Purges -> UnlinkType]
    /\ reply \in [Purges -> {"none", "gone", "complete", "partial",
                             "incomplete", "base only", "unavailable"}]
    /\ kind \in [Purges -> {"tag", "all"}]
    /\ found \in [Purges -> SUBSET (Keys \X Nat)]
    /\ gap \in [Purges -> SUBSET Keys]
    /\ lost \subseteq Keys /\ raced \subseteq Keys /\ back \subseteq Keys
    /\ missed \subseteq Keys \cup Junk

Init ==
    /\ l2 = [k \in Keys |-> 0] /\ stored = 0
    /\ index = Junk /\ wires = {} /\ pend = {} /\ drops = 0 /\ reissues = 0
    /\ kind \in [Purges -> {"tag", "all"}]
    /\ snap = [p \in Purges |-> NoSnap]
    /\ walk = [p \in Purges |-> NoWalk]
    /\ unlink = [p \in Purges |-> NoUnlink]
    /\ reply = [p \in Purges |-> "none"]
    /\ found = [p \in Purges |-> {}] /\ gap = [p \in Purges |-> {}]
    /\ lost = {} /\ raced = {} /\ missed = {} /\ back = {}

-----------------------------------------------------------------------------
(* Stores, and the healing of a variant index. *)

\* A page of some purge holds the key: it is to be removed from the set.
Held(k) ==
    \/ \E p \in Purges : k \in unlink[p].page
    \/ \E w \in wires : w.cmd \in {"SREM", "UNLINK"} /\ k \in w.members

Unindexed == pend \cup Inflight

\* body_filter_store_tail(): the object, then its tags or its variant index;
\* an index write that is not even launched is counted, and marked in L1 when
\* a later hit can make it good.
Store(k) ==
    LET v == stored + 1 IN
    /\ v <= MaxStores /\ k \notin Inflight
    /\ stored' = v
    /\ \/ /\ wires' = wires \cup {SetCmd(k, v), Sadd(k)}
          /\ UNCHANGED shm
          /\ UNCHANGED lost
       \/ /\ wires' = wires \cup {SetCmd(k, v)}
          /\ drops' = drops + 1
          /\ pend' = IF AutoVary THEN pend \cup {k} ELSE pend
          /\ lost' = lost \cup {k}
          /\ UNCHANGED reissues
    /\ raced' = IF Held(k) THEN raced \cup {k} ELSE raced
    /\ back' = back \ {k}
    /\ UNCHANGED <<l2, index, kind, snap, walk, unlink, reply, found, gap, missed>>

\* access_l1_varidx_heal(): a hit takes the pending bit, sends the write again
\* and counts it.
Heal(k) ==
    /\ k \in pend /\ k \notin Inflight
    /\ pend' = pend \ {k}
    /\ wires' = wires \cup {Sadd(k)}
    /\ reissues' = reissues + 1
    /\ UNCHANGED <<l2, index, stored, drops, kind, snap, walk, unlink, reply, hist>>

\* Redis executes a command, or never sees it.
Execute(w) ==
    /\ w \in wires /\ wires' = wires \ {w}
    /\ l2' = IF w.cmd = "SET" THEN [l2 EXCEPT ![w.key] = w.ver]
             ELSE IF w.cmd = "UNLINK"
             THEN [k \in Keys |-> IF k \in w.members THEN 0 ELSE l2[k]] ELSE l2
    /\ index' = IF w.cmd = "SADD" THEN index \cup {w.key}
                ELSE IF w.cmd = "SREM" THEN index \ w.members ELSE index
    /\ UNCHANGED <<stored, shm, kind, snap, walk, unlink, reply,
                   found, lost, raced, missed, back>>
    /\ gap' = [p \in Purges |-> gap[p] \cap (Unindexed \ {k \in Keys : w = Sadd(k)})]

Lose(w) ==
    /\ w \in wires /\ wires' = wires \ {w}
    /\ lost' = IF w.cmd = "SADD" THEN lost \cup {w.key} ELSE lost
    /\ gap' = [p \in Purges |-> gap[p] \cap (Unindexed \ {k \in Keys : w = Sadd(k)})]
    /\ missed' = IF w.cmd = "UNLINK" THEN missed \cup w.members ELSE missed
    /\ UNCHANGED <<l2, index, stored, shm, kind, snap, walk, unlink, reply,
                   found, raced, back>>

-----------------------------------------------------------------------------
(* The end of a walk. *)

Freed(p) == [walk EXCEPT ![p] = [NoWalk EXCEPT !.st = "freed"]]

\* The terminal part of tag_purge_complete().
TagReply(p, ok) == IF ~ok THEN "incomplete"
                   ELSE IF snap[p].gap # 0 THEN "partial" ELSE "complete"

\* all_purge_complete(): a walk that read no page is another failure.
AllReply(ok, pages) == IF ok THEN "complete"
                       ELSE IF pages = 0 THEN "unavailable" ELSE "incomplete"

\* walk_finish(): the client is told, unless the request is gone.
Finish(p, ok, pages) ==
    /\ walk' = Freed(p)
    /\ reply' = [reply EXCEPT ![p] =
         IF walk[p].detached THEN @
         ELSE IF kind[p] = "tag" THEN TagReply(p, ok) ELSE AllReply(ok, pages)]

\* sscan_advance(): the cursor is back at 0, which it can only be when nothing
\* is owed any more; or the walk has gone on for too long (in pages, in time,
\* or for want of memory), or asks for the next page.
Advance(p, owed) ==
    LET n == walk[p].pages + 1 IN
    \/ owed = {} /\ Finish(p, TRUE, n)
    \/ Finish(p, FALSE, n)
    \/ /\ n < MaxPages
       /\ walk' = [walk EXCEPT ![p].st = "ask", ![p].pages = n, ![p].todo = owed]
       /\ UNCHANGED reply

-----------------------------------------------------------------------------
(* The walk. *)

\* purge_auto_vary(), admin_purge_tag(): the counters are read one by one,
\* while other workers store and heal.
ReadCounter(p) ==
    /\ kind[p] = "tag"
    /\ reply[p] = "none" /\ walk[p].st = "none" /\ snap[p].at < 3
    /\ snap' = [snap EXCEPT ![p] =
         [at |-> @.at + 1,
          gap |-> @.gap + CASE @.at = 0 -> IF AutoVary THEN Cardinality(Inflight) ELSE 0
                            [] @.at = 1 -> drops
                            [] @.at = 2 -> IF AutoVary THEN -reissues ELSE 0]]
    /\ gap' = IF snap[p].at = 0 THEN [gap EXCEPT ![p] = Unindexed] ELSE gap
    /\ UNCHANGED <<redis, stored, shm, kind, walk, unlink, reply,
                   found, lost, raced, missed, back>>

\* sscan(): the walk starts, or cannot, and then only the base is purged.
Launch(p) ==
    /\ snap[p].at = 3 /\ walk[p].st = "none" /\ reply[p] = "none"
    /\ \/ /\ walk' = [walk EXCEPT ![p] = [NoWalk EXCEPT !.st = "ask", !.todo = index]]
          /\ found' = [found EXCEPT ![p] = {<<k, l2[k]>> : k \in
                         {k \in Keys \cap index : l2[k] # 0}}]
          /\ UNCHANGED reply
       \/ /\ reply' = [reply EXCEPT ![p] = "base only"]
          /\ UNCHANGED <<walk, found>>
    /\ UNCHANGED <<redis, stored, shm, kind, snap, unlink,
                   gap, lost, raced, missed, back>>

\* admin_purge_all(), scan_del(): the zone is emptied first, then the keys in
\* Redis are walked.
LaunchAll(p) ==
    LET objects == {k \in Keys : l2[k] # 0} IN
    /\ kind[p] = "all" /\ walk[p].st = "none" /\ reply[p] = "none"
    /\ pend' = {} /\ back' = {}
    /\ gap' = [q \in Purges |-> gap[q] \cap Inflight]
    /\ \/ /\ walk' = [walk EXCEPT ![p] = [NoWalk EXCEPT !.st = "ask", !.todo = objects]]
          /\ found' = [found EXCEPT ![p] = {<<k, l2[k]>> : k \in objects}]
          /\ UNCHANGED reply
       \/ /\ reply' = [reply EXCEPT ![p] = "unavailable"]
          /\ UNCHANGED <<walk, found>>
    /\ UNCHANGED <<redis, stored, drops, reissues, kind, snap, unlink,
                   lost, raced, missed>>

\* SSCAN and SCAN return everything that is there from the beginning to the end
\* of the walk: what is owed after a page.
Scanned(p) == IF kind[p] = "tag" THEN index ELSE {k \in Keys : l2[k] # 0}
Owed(p, page) == (walk[p].todo \cap Scanned(p)) \ page

\* read_scan(): a page of keys is unlinked, with nobody waiting for the answer.
PageAll(p, page) ==
    /\ kind[p] = "all" /\ walk[p].st = "ask"
    /\ page # {} /\ page \subseteq Scanned(p)
    /\ \/ /\ wires' = wires \cup {UnlinkCmd(p, page)}
          /\ Advance(p, Owed(p, page))
       \/ UNCHANGED wires /\ Finish(p, FALSE, walk[p].pages + 1)
    /\ raced' = raced \cup {k \in page : \E w \in wires : w.cmd = "SET" /\ w.key = k}
    /\ UNCHANGED <<l2, index, stored, shm, kind, snap, unlink,
                   found, gap, lost, missed, back>>

\* access_l2_promote_serve(): an object that was there before the purge is
\* found in Redis and goes back to L1.
Promote(p, k) ==
    /\ kind[p] = "all" /\ <<k, l2[k]>> \in found[p]
    /\ back' = back \cup {k}
    /\ UNCHANGED <<redis, stored, shm, kind, snap, walk, unlink, reply,
                   found, gap, lost, raced, missed>>

\* walk_suspend(), with the cursor saved; a walk whose connection cannot be
\* quietened is doomed, and ends when it is resumed.
Suspend(p, page) ==
    \E doomed \in BOOLEAN :
        walk' = [walk EXCEPT ![p].st = "suspended", ![p].doomed = doomed,
                             ![p].todo = Owed(p, page)]

\* The UNLINK of a page; resumes, when it may touch the request's memory.
Await(p, page, alive) ==
    unlink' = [unlink EXCEPT ![p] =
        [st |-> "sent", page |-> page, alive |-> alive, resume |-> alive]]

\* tag_purge_complete() drops the page's members from L1.
DropPage(p, keys) ==
    /\ pend' = pend \ keys
    /\ gap' = [q \in Purges |-> gap[q] \cap ((pend \ keys) \cup Inflight)]
    /\ raced' = raced \cup {k \in keys : \E w \in wires :
                                w.cmd \in {"SET", "SADD"} /\ w.key = k}

\* read_sscan(), for a page that has members: the walk waits for their UNLINK.
Page(p, page) ==
    LET keys == page \cap Keys IN
    /\ kind[p] = "tag" /\ walk[p].st = "ask" /\ unlink[p].st = "none"
    /\ page # {} /\ page \subseteq index
    /\ DropPage(p, keys)
    /\ \/ keys # {} /\ Await(p, page, TRUE) /\ Suspend(p, page)
          /\ UNCHANGED <<wires, reply>>
       \/ keys # {} /\ Await(p, page, FALSE)           \* no cleanup to be had
          /\ Finish(p, FALSE, walk[p].pages) /\ UNCHANGED wires
       \/ Finish(p, FALSE, walk[p].pages)              \* not launched, no memory
          /\ UNCHANGED <<unlink, wires>>
       \/ /\ keys = {}                                 \* nothing to unlink
          /\ wires' = wires \cup {Srem(p, page)}
          /\ Advance(p, Owed(p, page)) /\ UNCHANGED unlink
    /\ UNCHANGED <<l2, index, stored, drops, reissues, kind, snap,
                   found, lost, missed, back>>

\* A page without members: nothing to drop.
EmptyPage(p) ==
    /\ walk[p].st = "ask"
    /\ Advance(p, Owed(p, {}))
    /\ UNCHANGED <<redis, stored, shm, kind, snap, unlink, hist>>

\* The reply times out, is malformed, or the connection breaks.
WalkFails(p) ==
    /\ walk[p].st = "ask" /\ Finish(p, FALSE, walk[p].pages)
    /\ UNCHANGED <<redis, stored, shm, kind, snap, unlink, hist>>

\* Redis executes the UNLINK.
Unlink(p) ==
    /\ unlink[p].st = "sent"
    /\ unlink' = [unlink EXCEPT ![p].st = "executed"]
    /\ l2' = [k \in Keys |-> IF k \in unlink[p].page THEN 0 ELSE l2[k]]
    /\ UNCHANGED <<index, wires, stored, shm, kind, snap, walk, reply, hist>>

(* Mutant of Resume: the walk goes on whatever became of the UNLINK. *)
ResumeAnyway(p, ok) ==
    IF walk[p].st # "suspended" THEN UNCHANGED <<walk, reply>>
    ELSE IF ~walk[p].doomed THEN Advance(p, walk[p].todo)
    ELSE Finish(p, FALSE, walk[p].pages)

\* sscan_resume(): a walk whose request is gone is freed at last.
Resume(p, ok) ==
    IF walk[p].st # "suspended" THEN UNCHANGED <<walk, reply>>
    ELSE IF ok /\ ~walk[p].doomed /\ ~walk[p].detached
    THEN Advance(p, walk[p].todo)
    ELSE Finish(p, FALSE, walk[p].pages)

\* tag_purge_page_settle(): the members leave the set once the UNLINK is known
\* to have been executed, and the walk goes on if their SREM was sent.
Settle(p) ==
    \/ /\ unlink[p].st = "executed"
       /\ wires' = wires \cup {Srem(p, unlink[p].page)}
       /\ Resume(p, TRUE)
    \/ UNCHANGED wires /\ Resume(p, FALSE)

(* Mutants of Unlinked: the members are removed whatever became of the      *)
(* UNLINK; nobody frees a walk whose UNLINK failed.                         *)
UnlinkedUnawaited(p) ==
    /\ unlink[p].st # "none"
    /\ unlink' = [unlink EXCEPT ![p] = NoUnlink]
    /\ wires' = wires \cup {Srem(p, unlink[p].page)}
    /\ Resume(p, unlink[p].st = "executed")
    /\ UNCHANGED <<l2, index, stored, shm, kind, snap, hist>>

UnlinkedUnresumed(p) ==
    /\ unlink[p].st # "none"
    /\ unlink' = [unlink EXCEPT ![p] = NoUnlink]
    /\ IF unlink[p].st = "executed" THEN Resume(p, unlink[p].alive)
       ELSE UNCHANGED <<walk, reply>>
    /\ UNCHANGED <<l2, index, wires, stored, shm, kind, snap, hist>>

\* tag_purge_page_unlinked(): the UNLINK is answered, or fails; a request that
\* is gone has only its walk freed.
Unlinked(p) ==
    /\ unlink[p].st # "none"
    /\ unlink' = [unlink EXCEPT ![p] = NoUnlink]
    /\ IF unlink[p].alive THEN Settle(p)
       ELSE /\ UNCHANGED wires
            /\ IF unlink[p].resume THEN Resume(p, FALSE)
               ELSE UNCHANGED <<walk, reply>>
    /\ UNCHANGED <<l2, index, stored, shm, kind, snap, hist>>

(* Mutant of Gone: the walk is freed although its UNLINK will come back. *)
GoneFreed(p) ==
    /\ walk[p].st \in {"ask", "suspended"}
    /\ reply' = [reply EXCEPT ![p] = "gone"]
    /\ walk' = Freed(p)
    /\ UNCHANGED <<redis, stored, shm, kind, snap, unlink, hist>>

\* The request is destroyed: tag_purge_await_gone(), then walk_detach().  A
\* suspended walk is left to the end of its UNLINK.
Gone(p) ==
    /\ walk[p].st \in {"ask", "suspended"} /\ ~walk[p].detached
    /\ reply' = [reply EXCEPT ![p] = "gone"]
    /\ unlink' = [unlink EXCEPT ![p].alive = FALSE]
    /\ walk' = IF walk[p].st = "suspended"
               THEN [walk EXCEPT ![p].detached = TRUE, ![p].doomed = TRUE]
               ELSE Freed(p)
    /\ UNCHANGED <<redis, stored, shm, kind, snap, hist>>

-----------------------------------------------------------------------------
Next ==
    \/ \E k \in Keys : Store(k) \/ Heal(k)
    \/ \E w \in wires : Execute(w) \/ Lose(w)
    \/ \E p \in Purges :
         \/ ReadCounter(p) \/ Launch(p) \/ EmptyPage(p) \/ WalkFails(p)
         \/ Unlink(p) \/ Unlinked(p) \/ Gone(p)
         \/ LaunchAll(p)
         \/ \E k \in Keys : Promote(p, k)
         \/ \E page \in SUBSET (Keys \cup Junk) : Page(p, page) \/ PageAll(p, page)

\* Timers end a walk and an UNLINK.
Spec == Init /\ [][Next]_vars
        /\ \A p \in Purges : WF_vars(WalkFails(p)) /\ WF_vars(Unlinked(p))

-----------------------------------------------------------------------------
(* Properties. *)

(* A suspended walk has the UNLINK that will resume it, whose token never   *)
(* points to a walk that was freed nor, once the request is destroyed, to   *)
(* its memory: the freeing of the walk, of the request and of the token run *)
(* in every order (walk_detach(), tag_purge_page_unlinked()).               *)
SuspendedIsAwaited ==
    \A p \in Purges :
      /\ walk[p].st = "suspended" <=> unlink[p].st # "none" /\ unlink[p].resume
      /\ unlink[p].alive => unlink[p].resume /\ reply[p] = "none"
      /\ walk[p].detached => walk[p].st = "suspended"
      /\ walk[p].st \in {"ask", "suspended"} =>
           reply[p] = IF walk[p].detached THEN "gone" ELSE "none"

(* A purge that reports success has deleted every object that was in Redis  *)
(* and in the set when it was launched (tag_purge_page_settle() awaits the  *)
(* UNLINK before the walk goes on).  A purge of all has sent the UNLINK of  *)
(* every object there was (read_scan()), whether it is executed or not.     *)
SuccessDeletes ==
    [][\A p \in Purges :
         reply[p] = "none" /\ reply'[p] \in {"complete", "partial"} =>
           \A f \in found[p] :
             \/ f[1] \in raced' \/ l2'[f[1]] # f[2]
             \/ kind[p] = "all" /\ f[1] \in missed' \cup
                  UNION {w.members : w \in {c \in wires' : c.cmd = "UNLINK"}}]_vars

(* Whatever happens to a purge, what it did not delete can be found by the  *)
(* next one: an object in Redis is in the set, unless its index entry was   *)
(* lost on the way or it was stored while a purge had hold of it.           *)
RetryFindsIt ==
    \A k \in Keys : l2[k] # 0 /\ k \notin lost \cup raced \cup Inflight => k \in index

(* The same without the last exception: an object stored while its page is  *)
(* being purged survives with its membership (comment of the terminal part  *)
(* of tag_purge_complete(): reissuing the purge finds it).                  *)
SurvivorIsIndexed ==
    (wires = {} /\ \A p \in Purges : walk[p].st \in {"none", "freed"} /\ unlink[p].st = "none")
      => \A k \in Keys : l2[k] # 0 /\ k \notin lost => k \in index

(* A purge that reads no gap was launched with no index write outstanding   *)
(* all the while (purge_auto_vary(): the reading errs on the safe side).    *)
GapNeverHidden ==
    \A p \in Purges : snap[p].at = 3 /\ snap[p].gap = 0 /\ walk[p].st = "ask"
                        /\ walk[p].pages = 0 => gap[p] = {}

(* After a purge of all that reported success, L1 has no object of before:  *)
(* the comment of admin_purge_all() says that an object cleared from L1     *)
(* cannot be refilled from Redis, for which L2 is cleared too.              *)
PurgedStaysAway ==
    \A p \in Purges : kind[p] = "all" /\ reply[p] = "complete" => back = {}

(* A client that waits for its purge hears of the end, or is gone, and the  *)
(* walk's operation is freed either way.                                    *)
PurgeEnds ==
    \A p \in Purges : walk[p].st \in {"ask", "suspended"} ~> walk[p].st = "freed"

=============================================================================
