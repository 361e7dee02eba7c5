---------------------------- MODULE VaryMarkers ----------------------------
(***************************************************************************)
(* Auto-Vary (ngx_http_cache_turbo_vary.c): the pages of a URL that vary   *)
(* on a request header are kept under variant keys made of a generation    *)
(* and the request's class, and a marker of the URL says that they are.    *)
(* Each node has the marker in its own L1 and a copy in the shared L2; a   *)
(* request looks it up, asks L2 for it when L1 has none or has trusted it  *)
(* for too long, and may be parked twice, once for the marker and once for *)
(* the page.  A PURGE of the URL either walks the variants ("tagged",      *)
(* module TagPurge) or, where the L2 has no sets ("plain"), gives the      *)
(* marker the next generation, which is one byte and skips 0.              *)
(*                                                                         *)
(* A page counts as fresh while it is there; whether it may be served, the *)
(* leases and the waiting are module SingleFlight's.  A write to L2 is     *)
(* applied when it is sent or is lost.                                     *)
(***************************************************************************)
EXTENDS Integers, FiniteSets

CONSTANTS
    Nodes,          \* nginx nodes, each with an L1 zone of its own
    Purgers,        \* the nodes that PURGE requests go to
    Requests,       \* requests, each used once
    Classes,        \* values of the request header that pages vary on
    Deployments,    \* kinds of L2: "tagged" (Redis), "plain" (memcached)
    Gens,           \* 256, the values of the generation byte
    Window,         \* cache_turbo_vary_marker_revalidate, 0 for off
    MaxLosses,      \* bound: L2 failing, memory running out, evictions
    MaxTime,        \* bound: the clock
    MaxPurges       \* bound: purges

ASSUME VaryMarkersAssumption ==
    /\ Nodes # {} /\ Purgers \subseteq Nodes
    /\ Deployments \subseteq {"tagged", "plain"}
    /\ Gens \in Nat /\ Gens > 1 /\ Window \in Nat
    /\ MaxLosses \in Nat /\ MaxTime \in Nat /\ MaxPurges \in Nat

VARIABLES
    deploy,         \* the kind of L2
    time,           \* ngx_time()
    l1,             \* pages of each node's L1, by key
    marker,         \* marker of each node's L1
    memo,           \* nodes whose L1 remembers that L2 has no marker
    l2,             \* pages in L2, by key
    l2marker,       \* marker in L2
    req,            \* the requests
    purge,          \* the PURGE being handled
    losses,         \* what has failed or been evicted so far
    begun,          \* history: purges begun
    ended,          \* history: purges answered with success
    holds,          \* history: nodes whose marker carries the last purge
    parted,         \* history: nodes that lost a marker a request went by
    top             \* history: the highest generation there has been

shm == <<l1, marker, memo>>
remote == <<l2, l2marker>>
hist == <<begun, ended, holds, parted, top>>
vars == <<deploy, time, shm, remote, req, purge, losses, hist>>

Base == <<>>
VariantKeys == (0..Gens - 1) \X Classes
Keys == {Base} \cup VariantKeys

\* What L1 and L2 hold: a page, with its making as history, or a marker.  Of
\* the bitmask of axes only "some" or "none" is kept, a marker has some.
None == [kind |-> "none"]
Page(r, varies) ==
    [kind |-> "page", by |-> r, varies |-> varies, epoch |-> req[r].epoch,
     at |-> time]
Marker(gen) == [kind |-> "marker", gen |-> gen, at |-> time]

NoBlob == [res |-> "none", blob |-> None]
Idle(n, c) ==
    [pc |-> "idle", node |-> n, cls |-> c, key |-> Base, gen |-> 0,
     miss |-> FALSE, reval |-> FALSE, inflight |-> FALSE, tried |-> FALSE,
     asked |-> FALSE, unsent |-> FALSE, l2gen |-> -1, down |-> FALSE,
     got |-> NoBlob, seen |-> -1, out |-> None, epoch |-> 0,
     since |-> 0, spans |-> FALSE]

\* A finished request: what the properties ask of it.
Served(q, page) ==
    [Idle(q.node, q.cls) EXCEPT
        !.pc = "served", !.out = page, !.inflight = q.inflight,
        !.unsent = q.unsent, !.since = q.since]
Done(q) == [Idle(q.node, q.cls) EXCEPT !.pc = "done"]

NoPurge == [pc |-> "idle", node |-> CHOOSE n \in Nodes : TRUE, found |-> None,
            clean |-> TRUE]

PageType == [kind : {"page"}, by : Requests, varies : BOOLEAN,
             epoch : 0..MaxPurges, at : 0..MaxTime]
MarkerType == {None} \cup
    [kind : {"marker"}, gen : 0..Gens - 1, at : 0..MaxTime]
Blobs == PageType \cup MarkerType

ReqType ==
    [pc : {"idle", "lookup", "l2", "ask", "marker", "object", "l2 result",
           "origin", "store", "served", "done"},
     node : Nodes, cls : Classes, key : Keys, gen : 0..Gens - 1,
     miss : BOOLEAN, reval : BOOLEAN, inflight : BOOLEAN, tried : BOOLEAN,
     asked : BOOLEAN, unsent : BOOLEAN, l2gen : -1..Gens - 1, down : BOOLEAN,
     got : [res : {"none", "ok", "declined", "error"}, blob : Blobs],
     seen : -1..Gens - 1, out : Blobs, epoch : 0..MaxPurges,
     since : 0..MaxPurges, spans : BOOLEAN]

TypeOK ==
    /\ deploy \in Deployments /\ time \in 0..MaxTime
    /\ l1 \in [Nodes -> [Keys -> Blobs]]
    /\ l2 \in [Keys -> PageType \cup {None}]
    /\ marker \in [Nodes -> MarkerType] /\ l2marker \in MarkerType
    /\ memo \subseteq Nodes
    /\ req \in [Requests -> ReqType]
    /\ purge \in [pc : {"idle", "read", "walk", "bump"}, node : Nodes,
                  found : MarkerType, clean : BOOLEAN]
    /\ losses \in 0..MaxLosses /\ begun \in 0..MaxPurges /\ ended \in 0..MaxPurges
    /\ holds \subseteq Nodes /\ parted \subseteq Nodes /\ top \in 0..Gens - 1

\* The nodes start empty; L2 outlives them and may have kept a marker.
Init ==
    /\ deploy \in Deployments /\ time = 0
    /\ l1 = [n \in Nodes |-> [k \in Keys |-> None]]
    /\ marker = [n \in Nodes |-> None] /\ memo = {}
    /\ l2 = [k \in Keys |-> None]
    /\ l2marker \in {None, [kind |-> "marker", gen |-> 0, at |-> 0]}
    /\ req \in [Requests -> {Idle(n, c) : n \in Nodes, c \in Classes}]
    /\ purge = NoPurge /\ losses = 0
    /\ begun = 0 /\ ended = 0 /\ holds = {} /\ parted = {} /\ top = 0

\* Nothing fails, or k things do.
Lose(k) == losses' = losses + k /\ losses' <= MaxLosses
Works == UNCHANGED losses

\* marker_store_key(): into L1, and written through, which may fail unseen; a
\* store leaves no memo on its node.
SetMarker(n, gen, fails) ==
    /\ marker' = [marker EXCEPT ![n] = Marker(gen)]
    /\ memo' = memo \ {n}
    /\ l2marker' = IF fails THEN l2marker ELSE Marker(gen)

\* History: the marker of n goes while requests, but for those in done, have
\* a variant key of n and L2 still to hear.
Parted(n, done) ==
    parted' = IF \E r \in Requests \ done :
                     /\ req[r].node = n /\ req[r].key # Base
                     /\ req[r].pc \in {"lookup", "l2", "ask", "marker", "object"}
              THEN parted \cup {n} ELSE parted

\* History: a request of before the end of a purge has written since it began.
Wrote(q) ==
    /\ holds' = IF q.spans THEN {} ELSE holds
    /\ purge' = [purge EXCEPT !.clean = @ /\ ~q.spans]

-----------------------------------------------------------------------------
(* A request. *)

Start(r) ==
    /\ req[r].pc = "idle"
    /\ req' = [req EXCEPT ![r].pc = "lookup", ![r].since = ended,
                          ![r].spans = purge.pc # "idle"]
    /\ Works /\ UNCHANGED <<deploy, time, shm, remote, purge, hist>>

\* vary_apply() and what follows it under the same lock: the key and the
\* generation, from the marker in L1 or from what L2 said in an earlier pass.
Resolved(r) ==
    LET q == req[r]
        g == marker[q.node].gen
        fromL1 == [q EXCEPT !.gen = g, !.key = <<g, q.cls>>, !.miss = FALSE,
                            !.seen = g]
        fromL2 == [q EXCEPT !.gen = q.l2gen, !.key = <<q.l2gen, q.cls>>,
                            !.miss = TRUE, !.seen = -1]
        base == [q EXCEPT !.gen = 0, !.key = Base, !.miss = TRUE, !.seen = -1]
    IN IF marker[q.node] # None THEN fromL1
       ELSE IF q.l2gen >= 0 THEN fromL2 ELSE base

\* The marker was last confirmed too long ago, and this request has not asked.
Due(r) ==
    LET m == marker[req[r].node] IN
    m # None /\ Window > 0 /\ ~req[r].asked /\ time - m.at >= Window

(* Mutant of MayServe: the gate is the trigger, which the second pass resets. *)
MayServeUntriggered(q) == ~q.reval

\* The serve arms are passed over while a confirmation is due or on its way.
MayServe(q) == ~q.reval /\ ~q.inflight

\* An answer about the marker is at hand.
Heard(q) == q.tried /\ q.got.res # "none"

\* access_l1(), one lock hold.  An open breaker keeps a confirmation back; a
\* marker that has gone since leaves vary_marker_revalidate as it was.
Lookup(r) ==
    /\ req[r].pc = "lookup"
    /\ \E held \in BOOLEAN :
         LET due == IF marker[req[r].node] = None THEN req[r].reval ELSE Due(r)
             q == [Resolved(r) EXCEPT !.reval = due /\ ~held]
             page == l1[q.node][q.key]
         IN /\ held => Due(r)
            /\ Lose(IF held THEN 1 ELSE 0)
            /\ req' = [req EXCEPT ![r] =
                  IF page # None /\ MayServe(q) THEN Served(q, page)
                  ELSE [q EXCEPT !.pc = IF Heard(q) THEN "l2" ELSE "ask"]]
    /\ UNCHANGED <<deploy, time, shm, remote, purge, hist>>

\* access_l2_marker_consume(), what it does with an answer about the marker.
\* It is a step of its own: other workers may write L1 since the lookup.
Clean(q) == [q EXCEPT !.got = NoBlob]

(* Mutant of Usable: the lookup before is not asked. *)
UsableAlways(q) == TRUE

\* L1 missed at the lookup of this pass, or the request went to confirm.
Usable(q) == q.miss \/ q.inflight

\* The marker appeared in L1 meanwhile: L1's answer stands.
DropAnswer(r) ==
    LET q == req[r] IN
    /\ ~Usable(q)
    /\ req' = [req EXCEPT ![r] = [q EXCEPT !.tried = FALSE, !.pc = "ask",
                                  !.down = q.down \/ q.got.res = "error"]]
    /\ Works /\ UNCHANGED <<shm, l2marker, purge, holds, parted>>

\* A generation older than the one L1 resolved is not taken over.
Acceptable(q) ==
    /\ q.got.res = "ok" /\ q.got.blob.kind = "marker"
    /\ q.inflight => q.got.blob.gen >= q.gen

TakeAnswer(r) ==
    LET q == req[r]
        g == q.got.blob.gen
    IN
    /\ Usable(q)
    /\ Acceptable(q)
    /\ req' = [req EXCEPT ![r] =
           [Clean(q) EXCEPT !.pc = "ask", !.tried = FALSE, !.inflight = FALSE,
                            !.gen = g, !.key = <<g, q.cls>>, !.l2gen = g]]
    /\ \/ \E fails \in BOOLEAN : /\ SetMarker(q.node, g, fails)
                                 /\ IF fails THEN Lose(1) ELSE Works
                                 /\ UNCHANGED l1
       \/ Lose(1) /\ UNCHANGED <<shm, l2marker>>
    /\ Wrote(q) /\ UNCHANGED parted

\* A confirmation found no marker in L2, a peer purged: back to the base key.
\* An answer nobody can use changes nothing, a miss is remembered.
RefuseAnswer(r) ==
    LET q == req[r]
        gone == q.inflight /\ q.got.res = "declined"
    IN
    /\ Usable(q)
    /\ ~Acceptable(q)
    /\ req' = [req EXCEPT ![r] =
           [IF gone THEN [Clean(q) EXCEPT !.gen = 0, !.key = Base, !.l2gen = -1]
            ELSE Clean(q) EXCEPT
                !.pc = "ask", !.tried = FALSE, !.inflight = FALSE,
                !.down = q.down \/ q.got.res = "error"]]
    /\ marker' = IF gone THEN [marker EXCEPT ![q.node] = None] ELSE marker
    /\ holds' = IF gone THEN holds \ {q.node} ELSE holds
    /\ IF gone THEN Parted(q.node, {r}) ELSE UNCHANGED parted
    /\ memo' = IF ~q.inflight /\ q.got.res = "declined"
                  /\ marker[q.node] = None
               THEN memo \cup {q.node} ELSE memo
    /\ Works /\ UNCHANGED <<l1, l2marker, purge>>

Consume(r) ==
    /\ req[r].pc = "l2"
    /\ DropAnswer(r) \/ TakeAnswer(r) \/ RefuseAnswer(r)
    /\ UNCHANGED <<deploy, time, l2, begun, ended, top>>

\* access_l2_marker_get(): L1 has no marker or its marker is to be confirmed,
\* and this request has not asked.
Wanted(q) == (q.miss \/ q.reval) /\ ~q.tried /\ ~q.asked

\* What it leaves behind once it calls the backend, whatever comes of that.
ForMarker(q) ==
    [q EXCEPT !.inflight = q.inflight \/ q.reval, !.miss = FALSE,
              !.tried = TRUE, !.asked = TRUE]

\* The request is parked on the marker, or the backend cannot send the GET and
\* the same pass goes on, or the memo says that L2 has none.
AskMarker(r) ==
    LET q == req[r]
        told == ~q.reval /\ q.node \in memo
    IN
    /\ q.pc = "ask" /\ Wanted(q)
    /\ \/ /\ ~told /\ Works
          /\ req' = [req EXCEPT ![r] = [ForMarker(q) EXCEPT !.pc = "marker"]]
       \/ /\ ~told /\ Lose(1)
          /\ req' = [req EXCEPT ![r] = ForMarker(q)]
       \/ /\ told /\ Works
          /\ req' = [req EXCEPT ![r] = [q EXCEPT !.miss = FALSE, !.asked = TRUE]]
    /\ UNCHANGED <<deploy, time, shm, remote, purge, hist>>

\* access_l2_get(): parked on the page, unless an answer is at hand, L2 is
\* known to be down or the GET cannot be sent, as when the marker's was not.
AskPage(r) ==
    LET q == req[r]
        needs == q.got.res = "none" /\ ~q.down
    IN
    /\ q.pc = "ask" /\ ~Wanted(q)
    /\ \/ /\ needs /\ Works
          /\ req' = [req EXCEPT ![r].pc = "object"]
       \/ /\ IF needs /\ ~q.tried THEN Lose(1) ELSE Works
          /\ req' = [req EXCEPT ![r].pc = "l2 result", ![r].unsent = q.tried]
    /\ UNCHANGED <<deploy, time, shm, remote, purge, hist>>

\* The backend answers a parked request, which enters the handler anew.
Answer(r) ==
    LET q == req[r]
        there == IF q.pc = "marker" THEN l2marker ELSE l2[q.key]
    IN
    /\ q.pc \in {"marker", "object"}
    /\ \/ /\ req' = [req EXCEPT ![r].pc = "lookup", ![r].got =
                 [res |-> IF there = None THEN "declined" ELSE "ok",
                  blob |-> there]]
          /\ Works
       \/ /\ req' = [req EXCEPT ![r].pc = "lookup", ![r].got.res = "error"]
          /\ Lose(1)
    /\ UNCHANGED <<deploy, time, shm, remote, purge, hist>>

\* access_l2(): what L2 gave is promoted under the key of this pass unless L1
\* has something newer, and served.
Promote(r) ==
    LET q == req[r]
        here == l1[q.node][q.key]
    IN
    /\ q.pc = "l2 result" /\ q.got.res = "ok"
    /\ l1' = IF here # None /\ here.at >= q.got.blob.at THEN l1
             ELSE [l1 EXCEPT ![q.node][q.key] = q.got.blob]
    /\ req' = [req EXCEPT ![r] = Served(q, q.got.blob)]
    /\ Wrote(q)
    /\ Works
    /\ UNCHANGED <<deploy, time, marker, memo, remote, begun, ended, parted, top>>

\* Neither cache has it.  With cache_turbo_lock a fresh page in L1 is met when
\* claiming, and served; otherwise to the origin.
Miss(r) ==
    LET q == req[r]
        here == l1[q.node][q.key]
    IN
    /\ q.pc = "l2 result" /\ q.got.res # "ok"
    /\ \/ /\ here # None
          /\ req' = [req EXCEPT ![r] = Served(q, here)]
       \/ req' = [req EXCEPT ![r] = [Clean(q) EXCEPT !.pc = "origin",
                                                     !.epoch = begun]]
    /\ Works /\ UNCHANGED <<deploy, time, shm, remote, purge, hist>>

(* Mutant of StoreKey: a page goes where the request looked for it. *)
StoreKeyOwn(q, varies) == q.key

\* body_filter_store_tail(): the page goes under the variant key when the
\* response varies, and under the request's own key when it does not.
StoreKey(q, varies) == IF varies THEN <<q.gen, q.cls>> ELSE q.key

\* A page that does not vary is written through at once; one that does waits
\* for its marker.  L1 may be out of memory, the write to L2 may fail.
StorePage(r) ==
    LET q == req[r] IN
    /\ q.pc = "origin"
    /\ \E varies \in BOOLEAN, failed \in SUBSET {"l1", "l2"} :
         LET k == StoreKey(q, varies)
             page == Page(r, varies)
         IN
         /\ l1' = IF "l1" \in failed THEN l1
                  ELSE [l1 EXCEPT ![q.node][k] = page]
         /\ l2' = IF varies \/ "l2" \in failed THEN l2
                  ELSE [l2 EXCEPT ![k] = page]
         /\ varies => "l2" \notin failed
         /\ Lose(Cardinality(failed))
         /\ req' = [req EXCEPT ![r] =
                IF varies THEN [q EXCEPT !.pc = "store", !.key = k, !.out = page]
                ELSE Done(q)]
    /\ Wrote(q)
    /\ UNCHANGED <<deploy, time, marker, memo, l2marker, begun, ended, parted, top>>

\* classify_vary(): a Vary the module cannot fold, nothing is stored.
NotStored(r) ==
    /\ req[r].pc = "origin"
    /\ req' = [req EXCEPT ![r] = Done(@)]
    /\ Works /\ UNCHANGED <<deploy, time, shm, remote, purge, hist>>

\* body_filter_varidx_store(): the marker follows its variant, with the
\* generation the request resolved; then the page is written through.
StoreMarker(r) ==
    LET q == req[r] IN
    /\ q.pc = "store"
    /\ \E failed \in SUBSET {"marker", "page"} :
         /\ SetMarker(q.node, q.gen, "marker" \in failed)
         /\ l2' = IF "page" \in failed THEN l2 ELSE [l2 EXCEPT ![q.key] = q.out]
         /\ Lose(Cardinality(failed))
    /\ req' = [req EXCEPT ![r] = Done(q)]
    /\ Wrote(q)
    /\ UNCHANGED <<deploy, time, l1, begun, ended, parted, top>>

\* body_filter_rollback_store(): no marker, so the variant goes again, if it
\* is still the one this request stored.
Rollback(r) ==
    LET q == req[r] IN
    /\ q.pc = "store" /\ Lose(1)
    /\ l1' = IF l1[q.node][q.key] = q.out
             THEN [l1 EXCEPT ![q.node][q.key] = None] ELSE l1
    /\ req' = [req EXCEPT ![r] = Done(q)]
    /\ UNCHANGED <<deploy, time, marker, memo, remote, purge, hist>>

-----------------------------------------------------------------------------
(* A PURGE of the URL. *)

InFlight == {r \in Requests : req[r].pc \notin {"idle", "served", "done"}}
Overtaken == [r \in Requests |->
    IF r \in InFlight THEN [req[r] EXCEPT !.spans = TRUE] ELSE req[r]]

\* History: a purge that did all it set out to do ended with nothing written
\* behind its back, and the marker it found (in a plain deployment) had the
\* highest generation there has been, which is not the last.
Kept ==
    LET next == purge.found.gen = top /\ top < Gens - 1
    IN IF purge.clean /\ (deploy = "plain" => next) THEN {purge.node} ELSE {}

\* purge_request(): the base page, here and in L2; a delete that cannot be
\* sent ends it with 503.
PurgeBase(n) ==
    /\ purge.pc = "idle" /\ begun < MaxPurges
    /\ begun' = begun + 1 /\ req' = Overtaken
    /\ l1' = [l1 EXCEPT ![n][Base] = None]
    /\ \/ /\ l2' = [l2 EXCEPT ![Base] = None]
          /\ purge' = [NoPurge EXCEPT !.pc = "read", !.node = n]
          /\ Works
       \/ Lose(1) /\ UNCHANGED <<l2, purge>>
    /\ UNCHANGED <<deploy, time, marker, memo, l2marker, ended, holds, parted, top>>

\* purge_auto_vary(), by the index.  The marker goes, here and in L2 unless
\* its DEL is dropped, and the request is parked on a walk of the variants.
\* When the walk cannot be launched the client is told 200 all the same.
PurgeMarker ==
    /\ purge.pc = "read" /\ deploy = "tagged"
    /\ marker' = [marker EXCEPT ![purge.node] = None]
    /\ \E failed \in SUBSET {"del", "walk"} :
         /\ l2marker' = IF "del" \in failed THEN l2marker ELSE None
         /\ IF "walk" \in failed
            THEN purge' = NoPurge /\ ended' = begun /\ holds' = {}
            ELSE purge' = [purge EXCEPT !.pc = "walk"] /\ UNCHANGED <<ended, holds>>
         /\ Lose(IF failed = {} THEN 0 ELSE 1)
    /\ Parted(purge.node, {})
    /\ UNCHANGED <<deploy, time, l1, memo, l2, req, begun, top>>

\* tag_purge_complete(): the variants of the index go, here and in L2 (page by
\* page, module TagPurge).  An index that is short of variants leaves those,
\* and the client is told 200; a walk that breaks off leaves what it had not
\* come to, in L2 more than here, and the client is told 500.
PurgeWalk ==
    LET n == purge.node
        variants == {k \in VariantKeys : l1[n][k] # None \/ l2[k] # None}
        only(cells, ks) ==
            [k \in Keys |-> IF k \in {Base} \cup ks THEN cells[k] ELSE None]
    IN
    /\ purge.pc = "walk"
    /\ \E here, there \in SUBSET variants :
         /\ l1' = [l1 EXCEPT ![n] = only(@, here)]
         /\ l2' = only(l2, there)
         /\ \/ /\ here = there
               /\ ended' = begun /\ holds' = IF here = {} THEN Kept ELSE {}
               /\ Lose(IF here = {} THEN 0 ELSE 1)
            \/ /\ here \subseteq there
               /\ Lose(1) /\ UNCHANGED <<ended, holds>>
    /\ purge' = NoPurge
    /\ UNCHANGED <<deploy, time, marker, memo, l2marker, req, begun, parted, top>>

\* By generation: the marker is read, and written back with the next one.
PurgeRead ==
    LET m == marker[purge.node] IN
    /\ purge.pc = "read" /\ deploy = "plain"
    /\ purge' = IF m = None THEN NoPurge
                ELSE [purge EXCEPT !.pc = "bump", !.found = m]
    /\ ended' = IF m = None THEN begun ELSE ended
    /\ holds' = IF m = None THEN {} ELSE holds
    /\ Works /\ UNCHANGED <<deploy, time, shm, remote, req, begun, parted, top>>

(* Mutant of NextGen: the marker is written back with what it had. *)
NextGenSame(g) == g

NextGen(g) == IF g + 1 = Gens THEN 1 ELSE g + 1

PurgeBump ==
    /\ purge.pc = "bump"
    /\ \E fails \in BOOLEAN :
         /\ SetMarker(purge.node, NextGen(purge.found.gen), fails)
         /\ IF fails THEN Lose(1) ELSE Works
    /\ top' = IF NextGen(purge.found.gen) > top THEN NextGen(purge.found.gen)
              ELSE top
    /\ purge' = NoPurge /\ ended' = begun /\ holds' = Kept
    /\ UNCHANGED <<deploy, time, l1, l2, req, begun, parted>>

\* The marker could not be written: the client is told 500.
PurgeFails ==
    /\ purge.pc = "bump" /\ Lose(1)
    /\ purge' = NoPurge
    /\ UNCHANGED <<deploy, time, shm, remote, req, hist>>

-----------------------------------------------------------------------------
(* The surroundings. *)

Tick ==
    /\ time < MaxTime /\ time' = time + 1
    /\ Works /\ UNCHANGED <<deploy, shm, remote, req, purge, hist>>

\* Eviction and expiry, of a node's L1 or of L2.
EvictMarker(n) ==
    /\ marker[n] # None /\ marker' = [marker EXCEPT ![n] = None] /\ Lose(1)
    /\ holds' = IF deploy = "plain" THEN holds \ {n} ELSE holds
    /\ Parted(n, {})
    /\ UNCHANGED <<deploy, time, l1, memo, remote, req, purge, begun, ended, top>>

EvictPage(n) ==
    /\ Lose(1)
    /\ \E k \in Keys : /\ l1[n][k] # None
                       /\ l1' = [l1 EXCEPT ![n][k] = None]
    /\ UNCHANGED <<deploy, time, marker, memo, remote, req, purge, hist>>

L2Forgets ==
    /\ l2marker # None /\ l2marker' = None /\ Lose(1)
    /\ UNCHANGED <<deploy, time, shm, l2, req, purge, hist>>

MemoEnds(n) ==
    /\ n \in memo /\ memo' = memo \ {n} /\ Lose(1)
    /\ UNCHANGED <<deploy, time, l1, marker, remote, req, purge, hist>>

Next ==
    \/ \E r \in Requests :
         \/ Start(r) \/ Lookup(r) \/ Consume(r) \/ AskMarker(r) \/ AskPage(r)
         \/ Answer(r) \/ Promote(r) \/ Miss(r) \/ StorePage(r) \/ NotStored(r)
         \/ StoreMarker(r) \/ Rollback(r)
    \/ \E n \in Purgers : PurgeBase(n)
    \/ PurgeMarker \/ PurgeWalk \/ PurgeRead \/ PurgeBump \/ PurgeFails
    \/ Tick
    \/ \E n \in Nodes : EvictMarker(n) \/ EvictPage(n) \/ MemoEnds(n)
    \/ L2Forgets

Spec == Init /\ [][Next]_vars

-----------------------------------------------------------------------------
(* What has to hold; what is said of the code and does not is named so. *)

Pages == {r \in Requests : req[r].pc = "served" /\ req[r].out.kind = "page"}

\* Folding (vary.c:640): a page whose response varied on the header is served
\* only to requests of the class it was made for, by whatever way it came into
\* either cache and whatever the URL's pages did before; but for a node that
\* lost the marker while a request of its was on the way to L2 under a variant
\* key, see NeverWrongVariant.
RightRepresentation ==
    \A r \in Pages :
        req[r].out.varies /\ req[r].node \notin parted
        => req[req[r].out.by].cls = req[r].cls

\* The comment in access_l2_marker_get() (access.c:1881): without the marker
\* the request goes on to a base-keyed GET, "never to a wrong variant".
NeverWrongVariant ==
    \A r \in Pages : req[r].out.varies => req[req[r].out.by].cls = req[r].cls

\* Revalidation (access.c:1717): a request that went to confirm a marker is
\* not answered from L1 before it has heard from L2, although it is resumed
\* from the top of the handler with its trigger reset; but for one that could
\* not send the marker's GET, and parks for no other: it goes on at once.
HeardBeforeServed ==
    \A r \in Requests :
        req[r].pc = "served" /\ ~req[r].unsent => ~req[r].inflight

\* A late answer about the marker (access.c:2124): an answer that comes after
\* the node's marker was purged or renewed does not put the request, and the
\* marker it stores, behind the generation its own last lookup resolved.
LateAnswerDropped ==
    [][\A r \in Requests :
         /\ req[r].pc = "l2" /\ req'[r].pc = "ask"
         /\ req[r].seen >= 0 /\ req'[r].key # Base
         => /\ req'[r].gen >= req[r].seen
            /\ marker'[req[r].node] # marker[req[r].node]
               => marker'[req[r].node].gen >= req[r].seen]_vars

\* PURGE (purge.c:51): at a node that answered a PURGE no request begun since
\* is served a page of before, unless a request that was on its way before the
\* purge had ended has written since it began.  A PURGE by the index promises
\* it if its walk was launched, ended and missed no variant, whether or not the
\* marker went from L2; one by the generation as long as the node keeps the
\* marker, and if the generation is one there had never been.
PurgedStaysAway ==
    \A r \in Pages :
        req[r].node \in holds /\ ended = req[r].since
        => req[r].out.epoch >= req[r].since

\* The comments before access_l2_marker_get() (access.c:1859): the phase after
\* the marker's finds a clean slate and fills it with the page, so what a
\* request is served is a page.
MarkerIsNoPage ==
    \A r \in Requests : req[r].pc = "served" => req[r].out.kind = "page"

\* The comment before access_l2_marker_get() (access.c:1857): its flag tells
\* the answer about the marker from the answer about the page.
TriedMeansMarker ==
    \A r \in Requests : req[r].pc = "l2" => req[r].got.blob.kind # "page"

\* README.md:2258: a PURGE that could not send its deletes does not answer 200;
\* one that did leaves no variant on its node and in L2.
PurgeReachesAll ==
    [][ended' # ended /\ deploy = "tagged" =>
       \A k \in VariantKeys : l1'[purge.node][k] = None /\ l2'[k] = None]_vars

\* The comment AUD-GEN1 (purge.c:260): once a URL has been purged its
\* generation never again equals that of a URL never purged.
NeverZeroAgain ==
    [][\A n \in Nodes : marker[n] # None /\ marker'[n] # None
            /\ marker[n].gen > 0 => marker'[n].gen > 0]_vars

=============================================================================
