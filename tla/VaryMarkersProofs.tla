------------------------- MODULE VaryMarkersProofs -------------------------
(***************************************************************************)
(* Proofs about VaryMarkers for any number of nodes, requests, classes,    *)
(* generations and purges: whom a page that varies is served to, what a    *)
(* request hears before it is answered, what a late answer can do, and     *)
(* what a purge keeps away.                                                *)
(***************************************************************************)
EXTENDS VaryMarkers, FiniteSetTheorems, TLAPS

-----------------------------------------------------------------------------
(* Keys, blobs and requests. *)

LEMMA KeyFacts ==
    /\ Base \in Keys
    /\ \A g \in 0..Gens - 1, c \in Classes :
         /\ <<g, c>> \in VariantKeys /\ <<g, c>> \in Keys /\ <<g, c>> # Base
         /\ <<g, c>>[1] = g /\ <<g, c>>[2] = c
    /\ \A k \in Keys : k # Base =>
         k \in VariantKeys /\ k[1] \in 0..Gens - 1 /\ k[2] \in Classes
         /\ k = <<k[1], k[2]>>
BY DEF Keys, Base, VariantKeys

LEMMA BlobFacts ==
    /\ None.kind = "none" /\ None \in MarkerType /\ None \in Blobs
    /\ \A b \in PageType : b \in Blobs /\ b.kind = "page" /\ b # None
                           /\ b.by \in Requests /\ b.varies \in BOOLEAN
                           /\ b.epoch \in Nat /\ b.at \in Nat
    /\ \A b \in MarkerType :
         /\ b \in Blobs /\ b.kind # "page"
         /\ b # None => b.kind = "marker" /\ b.gen \in 0..Gens - 1 /\ b.at \in Nat
    /\ \A b \in Blobs :
         /\ b.kind = "page" => b \in PageType
         /\ b.kind = "marker" => b \in MarkerType /\ b.gen \in 0..Gens - 1
                                 /\ b # None
         /\ b # None => b.kind \in {"page", "marker"} /\ b.at \in Nat
<1>1. None.kind = "none"
  BY DEF None
<1>2. \A b \in PageType : b.kind = "page" /\ b.by \in Requests
          /\ b.varies \in BOOLEAN /\ b.epoch \in Nat /\ b.at \in Nat
  BY VaryMarkersAssumption DEF PageType
<1>3. \A b \in MarkerType : b # None =>
          b.kind = "marker" /\ b.gen \in 0..Gens - 1 /\ b.at \in Nat
  BY VaryMarkersAssumption DEF MarkerType
<1> QED  BY <1>1, <1>2, <1>3 DEF Blobs, MarkerType

LEMMA Made ==
    ASSUME TypeOK
    PROVE  /\ \A g \in 0..Gens - 1 : Marker(g) \in MarkerType /\ Marker(g) # None
                /\ Marker(g).gen = g /\ Marker(g).at = time
           /\ \A r \in Requests, v \in BOOLEAN :
                /\ Page(r, v) \in PageType /\ Page(r, v).by = r
                /\ Page(r, v).varies = v /\ Page(r, v).epoch = req[r].epoch
<1>1. time \in 0..MaxTime /\ \A r \in Requests : req[r].epoch \in 0..MaxPurges
  BY DEF TypeOK, ReqType
<1>2. ASSUME NEW g \in 0..Gens - 1
      PROVE  /\ Marker(g) \in MarkerType /\ Marker(g) # None
             /\ Marker(g).gen = g /\ Marker(g).at = time
  <2>1. Marker(g).kind = "marker" /\ Marker(g).gen = g /\ Marker(g).at = time
    BY DEF Marker
  <2>2. Marker(g) \in MarkerType
    BY <1>1 DEF Marker, MarkerType
  <2> QED  BY <2>1, <2>2, BlobFacts
<1>3. ASSUME NEW r \in Requests, NEW v \in BOOLEAN
      PROVE  /\ Page(r, v) \in PageType /\ Page(r, v).by = r
             /\ Page(r, v).varies = v /\ Page(r, v).epoch = req[r].epoch
  BY <1>1 DEF Page, PageType
<1> QED  BY <1>2, <1>3

LEMMA IdleFacts ==
    ASSUME NEW n \in Nodes, NEW c \in Classes
    PROVE  /\ Idle(n, c) \in ReqType
           /\ Idle(n, c).pc = "idle" /\ Idle(n, c).node = n /\ Idle(n, c).cls = c
           /\ Idle(n, c).key = Base /\ Idle(n, c).gen = 0 /\ Idle(n, c).l2gen = -1
           /\ Idle(n, c).got = NoBlob /\ ~Idle(n, c).inflight
           /\ Idle(n, c).seen = -1 /\ Idle(n, c).out = None
           /\ Idle(n, c).since = 0 /\ ~Idle(n, c).spans
           /\ ~Idle(n, c).unsent
<1>1. Base \in Keys /\ None \in Blobs
  BY KeyFacts, BlobFacts
<1>2. NoBlob \in [res : {"none", "ok", "declined", "error"}, blob : Blobs]
  BY <1>1 DEF NoBlob
<1>3. 0 \in 0..Gens - 1 /\ -1 \in -1..Gens - 1 /\ 0 \in 0..MaxPurges
  BY VaryMarkersAssumption
<1>4. Idle(n, c) \in ReqType
  BY <1>1, <1>2, <1>3 DEF Idle, ReqType
<1> QED  BY <1>4 DEF Idle

LEMMA EndFacts ==
    ASSUME NEW q \in ReqType, NEW b \in Blobs
    PROVE  /\ Served(q, b) \in ReqType /\ Done(q) \in ReqType
           /\ Served(q, b).pc = "served" /\ Done(q).pc = "done"
           /\ Served(q, b).node = q.node /\ Done(q).node = q.node
           /\ Served(q, b).cls = q.cls /\ Done(q).cls = q.cls
           /\ Served(q, b).key = Base /\ Done(q).key = Base
           /\ Served(q, b).gen = 0 /\ Done(q).gen = 0
           /\ Served(q, b).l2gen = -1 /\ Done(q).l2gen = -1
           /\ Served(q, b).got = NoBlob /\ Done(q).got = NoBlob
           /\ Served(q, b).out = b /\ Done(q).out = None
           /\ Served(q, b).inflight = q.inflight /\ ~Done(q).inflight
           /\ Served(q, b).since = q.since /\ Done(q).since = 0
           /\ Served(q, b).unsent = q.unsent
<1>1. q.node \in Nodes /\ q.cls \in Classes /\ q.inflight \in BOOLEAN
      /\ q.since \in 0..MaxPurges /\ q.unsent \in BOOLEAN
  BY DEF ReqType
<1> DEFINE i == Idle(q.node, q.cls)
<1>2. /\ i \in ReqType /\ i.node = q.node /\ i.cls = q.cls /\ i.key = Base
      /\ i.gen = 0 /\ i.l2gen = -1 /\ i.got = NoBlob /\ ~i.inflight
      /\ i.out = None /\ i.since = 0
  BY <1>1, IdleFacts
<1> HIDE DEF i
<1>3. Done(q) = [i EXCEPT !.pc = "done"]
  BY DEF Done, i
<1>4. Served(q, b) = [i EXCEPT !.pc = "served", !.out = b,
                               !.inflight = q.inflight, !.unsent = q.unsent,
                               !.since = q.since]
  BY DEF Served, i
<1>5. [i EXCEPT !.pc = "done"] \in ReqType
  BY <1>2 DEF ReqType
<1>6. [i EXCEPT !.pc = "served", !.out = b, !.inflight = q.inflight,
                !.unsent = q.unsent, !.since = q.since] \in ReqType
  BY <1>1, <1>2 DEF ReqType
<1>7. PICK d \in ReqType : d = Done(q) /\ d = [i EXCEPT !.pc = "done"]
  BY <1>3, <1>5
<1>8. /\ d.pc = "done" /\ d.node = i.node /\ d.cls = i.cls /\ d.key = i.key
      /\ d.gen = i.gen /\ d.l2gen = i.l2gen /\ d.got = i.got /\ d.out = i.out
      /\ d.inflight = i.inflight /\ d.since = i.since
  BY <1>2, <1>7 DEF ReqType
<1>9. PICK s \in ReqType : /\ s = Served(q, b)
                           /\ s = [i EXCEPT !.pc = "served", !.out = b,
                                   !.inflight = q.inflight,
                                   !.unsent = q.unsent, !.since = q.since]
  BY <1>4, <1>6
<1>10. /\ s.pc = "served" /\ s.node = i.node /\ s.cls = i.cls /\ s.key = i.key
       /\ s.gen = i.gen /\ s.l2gen = i.l2gen /\ s.got = i.got /\ s.out = b
       /\ s.inflight = q.inflight /\ s.since = q.since /\ s.unsent = q.unsent
  BY <1>2, <1>9 DEF ReqType
<1> QED  BY <1>2, <1>7, <1>8, <1>9, <1>10

-----------------------------------------------------------------------------
(* What an action of a request makes of it. *)

(* The request r becomes d; who sent it and to which node stays.            *)
Becomes(r, d) ==
    /\ d \in ReqType /\ req' = [req EXCEPT ![r] = d]
    /\ d.node = req[r].node /\ d.cls = req[r].cls

(* What d has kept of q: all but where it stands with the cache.            *)
Alike(d, q) ==
    /\ d.l2gen = q.l2gen /\ d.got = q.got /\ d.inflight = q.inflight
    /\ d.out = q.out /\ d.epoch = q.epoch /\ d.spans = q.spans
    /\ d.since = q.since /\ d.unsent = q.unsent

LEMMA Requested ==
    ASSUME TypeOK, NEW r \in Requests, NEW d, Becomes(r, d)
    PROVE  /\ req[r] \in ReqType /\ req' \in [Requests -> ReqType]
           /\ req'[r] = d
           /\ \A q \in Requests : q # r => req'[q] = req[q]
           /\ \A q \in Requests : /\ req'[q].cls = req[q].cls
                                  /\ req'[q].node = req[q].node
BY DEF TypeOK, Becomes

LEMMA StartEffect ==
    ASSUME TypeOK, NEW r \in Requests, Start(r)
    PROVE  \E d \in ReqType :
             /\ Becomes(r, d) /\ d.pc = "lookup" /\ d.since = ended
             /\ d.key = req[r].key /\ d.gen = req[r].gen /\ d.l2gen = req[r].l2gen
             /\ d.got = req[r].got /\ d.inflight = req[r].inflight
             /\ d.spans <=> purge.pc # "idle"
<1>1. req \in [Requests -> ReqType] /\ ended \in 0..MaxPurges
  BY DEF TypeOK
<1>2. PICK q \in ReqType : q = req[r]
  BY <1>1
<1> DEFINE b == purge.pc # "idle"
<1>0. b \in BOOLEAN /\ b = (purge.pc # "idle")
  OBVIOUS
<1> HIDE DEF b
<1>3. [q EXCEPT !.pc = "lookup", !.since = ended, !.spans = b] \in ReqType
  BY <1>0, <1>1, <1>2 DEF ReqType
<1>4. PICK d \in ReqType :
        d = [q EXCEPT !.pc = "lookup", !.since = ended, !.spans = b]
  BY <1>3
<1>5. /\ d.pc = "lookup" /\ d.since = ended /\ d.node = q.node /\ d.cls = q.cls
      /\ d.key = q.key /\ d.gen = q.gen /\ d.l2gen = q.l2gen /\ d.got = q.got
      /\ d.inflight = q.inflight /\ d.spans = b
  BY ZenonT(40), <1>0, <1>2, <1>4 DEF ReqType
<1>6. req' = [req EXCEPT ![r] = d]
  BY <1>0, <1>1, <1>2, <1>4 DEF Start
<1> QED  BY <1>0, <1>2, <1>5, <1>6 DEF Becomes

LEMMA Rekeyed ==
    ASSUME NEW q \in ReqType, NEW g \in 0..Gens - 1, NEW k \in Keys,
           NEW miss \in BOOLEAN, NEW s \in -1..Gens - 1
    PROVE  [q EXCEPT !.gen = g, !.key = k, !.miss = miss, !.seen = s] \in ReqType
BY DEF ReqType

LEMMA ResolvedFacts ==
    ASSUME TypeOK, NEW r \in Requests
    PROVE  /\ Resolved(r) \in ReqType
           /\ Resolved(r).node = req[r].node /\ Resolved(r).cls = req[r].cls
           /\ Resolved(r).tried = req[r].tried
           /\ Alike(Resolved(r), req[r])
           /\ marker[req[r].node] # None =>
                /\ Resolved(r).gen = marker[req[r].node].gen
                /\ Resolved(r).key = <<marker[req[r].node].gen, req[r].cls>>
                /\ ~Resolved(r).miss /\ Resolved(r).seen = Resolved(r).gen
           /\ marker[req[r].node] = None => Resolved(r).seen = -1
           /\ marker[req[r].node] = None /\ req[r].l2gen >= 0 =>
                /\ Resolved(r).gen = req[r].l2gen
                /\ Resolved(r).key = <<req[r].l2gen, req[r].cls>>
           /\ marker[req[r].node] = None /\ ~(req[r].l2gen >= 0) =>
                Resolved(r).gen = 0 /\ Resolved(r).key = Base
<1>1. PICK q \in ReqType : q = req[r]
  BY DEF TypeOK
<1>2. /\ q.node \in Nodes /\ q.cls \in Classes /\ q.l2gen \in -1..Gens - 1
      /\ marker[q.node] \in MarkerType
  BY <1>1 DEF TypeOK, ReqType
<1>3. PICK m \in MarkerType : m = marker[q.node]
  BY <1>2
<1>4. CASE m # None
  <2>0. \A g \in 0..Gens - 1 : g \in -1..Gens - 1
    BY VaryMarkersAssumption
  <2>1. PICK g \in 0..Gens - 1 : g = m.gen
    BY <1>3, <1>4, BlobFacts
  <2>2. <<g, q.cls>> \in Keys
    BY <1>2, <2>1, KeyFacts
  <2>3. PICK k \in Keys : k = <<g, q.cls>>
    BY <2>2
  <2>4. [q EXCEPT !.gen = g, !.key = k, !.miss = FALSE, !.seen = g] \in ReqType
    BY <1>1, <2>1, <2>3, <2>0, Rekeyed
  <2>5. PICK d \in ReqType :
          d = [q EXCEPT !.gen = g, !.key = k, !.miss = FALSE, !.seen = g]
    BY <2>4
  <2>6. /\ d.node = q.node /\ d.cls = q.cls /\ d.tried = q.tried /\ Alike(d, q)
        /\ d.gen = g /\ d.key = k /\ ~d.miss /\ d.seen = g
    BY <2>5 DEF ReqType, Alike
  <2>7. Resolved(r) = d
    BY <1>1, <1>3, <1>4, <2>1, <2>3, <2>5 DEF Resolved
  <2> QED  BY <1>1, <1>3, <1>4, <2>1, <2>3, <2>6, <2>7
<1>5. CASE m = None /\ q.l2gen >= 0
  <2>0. -1 \in -1..Gens - 1
    BY VaryMarkersAssumption
  <2>1. PICK g \in 0..Gens - 1 : g = q.l2gen
    BY <1>2, <1>5, VaryMarkersAssumption
  <2>2. <<g, q.cls>> \in Keys
    BY <1>2, <2>1, KeyFacts
  <2>3. PICK k \in Keys : k = <<g, q.cls>>
    BY <2>2
  <2>4. [q EXCEPT !.gen = g, !.key = k, !.miss = TRUE, !.seen = -1] \in ReqType
    BY <1>1, <2>1, <2>3, <2>0, Rekeyed
  <2>5. PICK d \in ReqType :
          d = [q EXCEPT !.gen = g, !.key = k, !.miss = TRUE, !.seen = -1]
    BY <2>4
  <2>6. /\ d.node = q.node /\ d.cls = q.cls /\ d.tried = q.tried /\ Alike(d, q)
        /\ d.gen = g /\ d.key = k /\ d.seen = -1
    BY <2>5 DEF ReqType, Alike
  <2>7. Resolved(r) = d
    BY <1>1, <1>3, <1>5, <2>1, <2>3, <2>5 DEF Resolved
  <2> QED  BY <1>1, <1>3, <1>5, <2>1, <2>3, <2>6, <2>7
<1>6. CASE m = None /\ ~(q.l2gen >= 0)
  <2>0. -1 \in -1..Gens - 1
    BY VaryMarkersAssumption
  <2>1. Base \in Keys /\ 0 \in 0..Gens - 1
    BY KeyFacts, VaryMarkersAssumption
  <2>2. [q EXCEPT !.gen = 0, !.key = Base, !.miss = TRUE, !.seen = -1] \in ReqType
    BY <1>1, <2>1, <2>0, Rekeyed
  <2>3. PICK d \in ReqType :
          d = [q EXCEPT !.gen = 0, !.key = Base, !.miss = TRUE, !.seen = -1]
    BY <2>2
  <2>4. /\ d.node = q.node /\ d.cls = q.cls /\ d.tried = q.tried /\ Alike(d, q)
        /\ d.gen = 0 /\ d.key = Base /\ d.seen = -1
    BY <2>3 DEF ReqType, Alike
  <2>5. Resolved(r) = d
    BY <1>1, <1>3, <1>6, <2>3 DEF Resolved
  <2> QED  BY <1>1, <1>3, <1>6, <2>4, <2>5
<1> QED  BY <1>4, <1>5, <1>6

(* A finished request d, which was q.                                       *)
Over(d) == d.key = Base /\ d.gen = 0 /\ d.l2gen = -1 /\ d.got = NoBlob

IsServed(d, q, b) ==
    /\ d.pc = "served" /\ d.out = b /\ d.inflight = q.inflight
    /\ d.since = q.since /\ d.unsent = q.unsent /\ Over(d)

IsDone(d) == d.pc = "done" /\ ~d.inflight /\ d.since = 0 /\ Over(d)

LEMMA Ending ==
    ASSUME TypeOK, NEW r \in Requests, NEW q \in ReqType, NEW b \in Blobs,
           q.node = req[r].node, q.cls = req[r].cls
    PROVE  /\ req' = [req EXCEPT ![r] = Served(q, b)] =>
                Becomes(r, Served(q, b)) /\ IsServed(Served(q, b), q, b)
           /\ req' = [req EXCEPT ![r] = Done(q)] =>
                Becomes(r, Done(q)) /\ IsDone(Done(q))
BY EndFacts DEF Becomes, IsServed, IsDone, Over

(* The key under which r looks for a page, and what L1 has there.           *)
LEMMA HereTyped ==
    ASSUME TypeOK, NEW r \in Requests, NEW k \in Keys
    PROVE  req[r].node \in Nodes /\ l1[req[r].node][k] \in Blobs
<1>1. req[r] \in ReqType /\ l1 \in [Nodes -> [Keys -> Blobs]]
  BY DEF TypeOK
<1>2. req[r].node \in Nodes
  BY <1>1 DEF ReqType
<1> QED  BY <1>1, <1>2

LEMMA LookupEffect ==
    ASSUME TypeOK, NEW r \in Requests, Lookup(r)
    PROVE  \E d \in ReqType :
             /\ Becomes(r, d)
             /\ \/ /\ IsServed(d, req[r], l1[req[r].node][Resolved(r).key])
                   /\ ~d.inflight
                \/ /\ d.pc \in {"l2", "ask"} /\ Alike(d, req[r])
                   /\ d.tried = req[r].tried
                   /\ d.key = Resolved(r).key /\ d.gen = Resolved(r).gen
                   /\ d.miss = Resolved(r).miss /\ d.seen = Resolved(r).seen
                   /\ d.tried /\ d.got.res # "none" => d.pc = "l2"
<1>1. PICK b \in BOOLEAN :
        req' = [req EXCEPT ![r] =
          LET q == [Resolved(r) EXCEPT !.reval = b]
              page == l1[q.node][q.key]
          IN IF page # None /\ MayServe(q) THEN Served(q, page)
             ELSE [q EXCEPT !.pc = IF Heard(q) THEN "l2" ELSE "ask"]]
  <2>1. PICK held \in BOOLEAN :
        LET due == IF marker[req[r].node] = None THEN req[r].reval ELSE Due(r)
            q == [Resolved(r) EXCEPT !.reval = due /\ ~held]
            page == l1[q.node][q.key]
        IN req' = [req EXCEPT ![r] =
              IF page # None /\ MayServe(q) THEN Served(q, page)
              ELSE [q EXCEPT !.pc = IF Heard(q) THEN "l2" ELSE "ask"]]
    BY DEF Lookup
  <2>2. PICK b \in BOOLEAN :
          b = ((IF marker[req[r].node] = None THEN req[r].reval ELSE Due(r))
               /\ ~held)
    OBVIOUS
  <2> QED  BY <2>1, <2>2
<1>2. PICK o \in ReqType : o = Resolved(r)
  BY ResolvedFacts
<1>4. [o EXCEPT !.reval = b] \in ReqType
  BY <1>1, <1>2 DEF ReqType
<1>5. PICK q \in ReqType : q = [o EXCEPT !.reval = b]
  BY <1>4
<1>6. /\ q.node = o.node /\ q.cls = o.cls /\ q.key = o.key /\ q.gen = o.gen
      /\ q.miss = o.miss /\ q.seen = o.seen /\ q.tried = o.tried /\ Alike(q, o)
  BY ZenonT(40), <1>2, <1>5 DEF ReqType, Alike
<1>7. o.node = req[r].node /\ o.cls = req[r].cls /\ o.tried = req[r].tried
      /\ Alike(o, req[r])
  BY <1>2, ResolvedFacts
<1>8. PICK p \in {"l2", "ask"} : p = IF Heard(q) THEN "l2" ELSE "ask"
  OBVIOUS
<1>9. [q EXCEPT !.pc = p] \in ReqType
  BY ZenonT(40), <1>5, <1>8 DEF ReqType
<1>10. PICK d \in ReqType : d = [q EXCEPT !.pc = p]
  BY <1>9
<1>11. /\ d.pc = p /\ d.node = q.node /\ d.cls = q.cls /\ d.key = q.key
       /\ d.gen = q.gen /\ d.miss = q.miss /\ d.seen = q.seen
       /\ d.tried = q.tried /\ Alike(d, q)
  BY ZenonT(40), <1>5, <1>10 DEF ReqType, Alike
<1>12. PICK page \in Blobs : page = l1[q.node][q.key]
  BY <1>5, <1>6, <1>7, HereTyped DEF ReqType
<1>14. req' = [req EXCEPT ![r] =
                IF page # None /\ MayServe(q) THEN Served(q, page) ELSE d]
  BY <1>1, <1>2, <1>5, <1>8, <1>10, <1>12
<1>15. CASE page # None /\ MayServe(q)
  <2>1. Becomes(r, Served(q, page)) /\ IsServed(Served(q, page), q, page)
    BY <1>5, <1>6, <1>7, <1>12, <1>14, <1>15, Ending
  <2>2. /\ ~q.inflight /\ q.inflight = req[r].inflight /\ q.since = req[r].since
        /\ q.unsent = req[r].unsent
    BY <1>6, <1>7, <1>15 DEF MayServe, Alike
  <2>3. page = l1[req[r].node][Resolved(r).key]
    BY <1>2, <1>6, <1>7, <1>12
  <2> QED  BY <2>1, <2>2, <2>3 DEF IsServed, Becomes
<1>16. CASE ~(page # None /\ MayServe(q))
  <2>1. Becomes(r, d)
    BY <1>6, <1>7, <1>10, <1>11, <1>14, <1>16 DEF Becomes
  <2>2. Alike(d, req[r]) /\ d.tried = req[r].tried
    BY <1>6, <1>7, <1>11 DEF Alike
  <2>3. d.tried /\ d.got.res # "none" => d.pc = "l2"
    BY <1>8, <1>11 DEF Heard, Alike
  <2> QED  BY <1>2, <1>6, <1>8, <1>10, <1>11, <2>1, <2>2, <2>3
<1> QED  BY <1>15, <1>16

(* What a request keeps of where it stands with the cache.                  *)
There(d, q) ==
    /\ d.key = q.key /\ d.gen = q.gen /\ d.miss = q.miss /\ d.seen = q.seen

LEMMA DropEffect ==
    ASSUME TypeOK, NEW r \in Requests, DropAnswer(r)
    PROVE  \E d \in ReqType :
             /\ Becomes(r, d) /\ d.pc = "ask" /\ Alike(d, req[r]) /\ There(d, req[r])
             /\ ~req[r].inflight
<1>1. PICK q \in ReqType : q = req[r]
  BY DEF TypeOK
<1>2. PICK b \in BOOLEAN : b = (q.down \/ q.got.res = "error")
  BY <1>1 DEF ReqType
<1>3. [q EXCEPT !.tried = FALSE, !.pc = "ask", !.down = b] \in ReqType
  BY ZenonT(40), <1>1, <1>2 DEF ReqType
<1>4. PICK d \in ReqType : d = [q EXCEPT !.tried = FALSE, !.pc = "ask", !.down = b]
  BY <1>3
<1>5. d.pc = "ask" /\ Alike(d, q) /\ There(d, q) /\ d.node = q.node /\ d.cls = q.cls
  BY ZenonT(40), <1>1, <1>4 DEF ReqType, Alike, There
<1>6. req' = [req EXCEPT ![r] = d] /\ ~q.inflight
  BY <1>1, <1>2, <1>4 DEF DropAnswer, Usable
<1> QED  BY <1>1, <1>4, <1>5, <1>6 DEF Becomes

LEMMA CleanFacts ==
    ASSUME NEW q \in ReqType
    PROVE  /\ Clean(q) \in ReqType /\ Clean(q).got = NoBlob
           /\ Clean(q).pc = q.pc /\ Clean(q).node = q.node /\ Clean(q).cls = q.cls
           /\ There(Clean(q), q) /\ Clean(q).l2gen = q.l2gen
           /\ Clean(q).inflight = q.inflight /\ Clean(q).out = q.out
           /\ Clean(q).epoch = q.epoch /\ Clean(q).spans = q.spans
           /\ Clean(q).since = q.since /\ Clean(q).unsent = q.unsent
<1>1. NoBlob \in [res : {"none", "ok", "declined", "error"}, blob : Blobs]
  BY BlobFacts DEF NoBlob
<1>2. [q EXCEPT !.got = NoBlob] \in ReqType
  BY <1>1 DEF ReqType
<1>3. PICK d \in ReqType : d = [q EXCEPT !.got = NoBlob]
  BY <1>2
<1>4. /\ d.got = NoBlob /\ d.pc = q.pc /\ d.node = q.node /\ d.cls = q.cls
      /\ There(d, q) /\ d.l2gen = q.l2gen /\ d.inflight = q.inflight
      /\ d.out = q.out /\ d.epoch = q.epoch /\ d.spans = q.spans
      /\ d.since = q.since /\ d.unsent = q.unsent
  BY ZenonT(40), <1>3 DEF ReqType, There
<1>5. Clean(q) = d
  BY <1>3 DEF Clean
<1> QED  BY <1>3, <1>4, <1>5

(* A request that has dealt with an answer about the marker.                *)
Settled(d, q) ==
    /\ d.pc = "ask" /\ ~d.inflight /\ d.got = NoBlob /\ d.miss = q.miss
    /\ d.epoch = q.epoch /\ d.spans = q.spans /\ d.since = q.since

(* A request moves to another key, and has dealt with an answer.            *)
Moved(q, g, k, l) == [q EXCEPT !.gen = g, !.key = k, !.l2gen = l]
Asking(q) == [q EXCEPT !.pc = "ask", !.tried = FALSE, !.inflight = FALSE]
Kin(d, q) ==
    /\ d.node = q.node /\ d.cls = q.cls /\ d.got = q.got /\ d.miss = q.miss
    /\ d.epoch = q.epoch /\ d.spans = q.spans /\ d.since = q.since

LEMMA MovedFacts ==
    ASSUME NEW q \in ReqType, NEW g \in 0..Gens - 1, NEW k \in Keys,
           NEW l \in -1..Gens - 1
    PROVE  /\ Moved(q, g, k, l) \in ReqType /\ Kin(Moved(q, g, k, l), q)
           /\ Moved(q, g, k, l).gen = g /\ Moved(q, g, k, l).key = k
           /\ Moved(q, g, k, l).l2gen = l /\ Moved(q, g, k, l).pc = q.pc
           /\ Moved(q, g, k, l).inflight = q.inflight
<1>1. Moved(q, g, k, l) \in ReqType
  BY DEF ReqType, Moved
<1>2. Moved(q, g, k, l).gen = g /\ Moved(q, g, k, l).key = k
      /\ Moved(q, g, k, l).l2gen = l
  BY DEF ReqType, Moved
<1>3. Moved(q, g, k, l).pc = q.pc /\ Moved(q, g, k, l).inflight = q.inflight
  BY DEF Moved
<1>4. Kin(Moved(q, g, k, l), q)
  BY DEF Moved, Kin
<1> QED  BY <1>1, <1>2, <1>3, <1>4

LEMMA AskingFacts ==
    ASSUME NEW q \in ReqType
    PROVE  /\ Asking(q) \in ReqType /\ Kin(Asking(q), q)
           /\ Asking(q).gen = q.gen /\ Asking(q).key = q.key
           /\ Asking(q).l2gen = q.l2gen /\ Asking(q).pc = "ask"
           /\ ~Asking(q).inflight
<1>1. Asking(q) \in ReqType
  BY DEF ReqType, Asking
<1>2. Asking(q).pc = "ask" /\ ~Asking(q).inflight
  BY DEF ReqType, Asking
<1>3. Asking(q).gen = q.gen /\ Asking(q).key = q.key /\ Asking(q).l2gen = q.l2gen
  BY DEF Asking
<1>4. Kin(Asking(q), q)
  BY DEF Asking, Kin
<1> QED  BY <1>1, <1>2, <1>3, <1>4

LEMMA AskingDown ==
    ASSUME NEW q \in ReqType, NEW b \in BOOLEAN
    PROVE  /\ [q EXCEPT !.down = b] \in ReqType
           /\ Kin([q EXCEPT !.down = b], q)
           /\ [q EXCEPT !.down = b].gen = q.gen /\ [q EXCEPT !.down = b].key = q.key
           /\ [q EXCEPT !.down = b].l2gen = q.l2gen
           /\ [q EXCEPT !.pc = "ask", !.tried = FALSE, !.inflight = FALSE,
                        !.down = b] = Asking([q EXCEPT !.down = b])
<1>1. [q EXCEPT !.down = b] \in ReqType
  BY DEF ReqType
<1>2. Kin([q EXCEPT !.down = b], q)
  BY DEF Kin
<1>3. [q EXCEPT !.pc = "ask", !.tried = FALSE, !.inflight = FALSE, !.down = b] =
      Asking([q EXCEPT !.down = b])
  BY DEF Asking, ReqType
<1> QED  BY <1>1, <1>2, <1>3

LEMMA TakeEffect ==
    ASSUME TypeOK, NEW r \in Requests, TakeAnswer(r)
    PROVE  LET g == req[r].got.blob.gen IN
           /\ g \in 0..Gens - 1 /\ req[r].got.blob.kind = "marker"
           /\ \E d \in ReqType :
                /\ Becomes(r, d) /\ Settled(d, req[r]) /\ d.gen = g /\ d.l2gen = g
                /\ d.key = <<g, req[r].cls>>
<1>1. PICK q \in ReqType : q = req[r]
  BY DEF TypeOK
<1>2. q.got.blob \in Blobs /\ q.cls \in Classes
  BY <1>1 DEF ReqType
<1>3. q.got.blob.kind = "marker"
  BY <1>1 DEF TakeAnswer, Acceptable
<1>4. PICK g \in 0..Gens - 1 : g = q.got.blob.gen
  BY <1>2, <1>3, BlobFacts
<1>5. PICK k \in Keys : k = <<g, q.cls>>
  BY <1>2, <1>4, KeyFacts
<1>6. PICK c \in ReqType : c = Clean(q)
  BY <1>1, CleanFacts
<1>7. PICK a \in ReqType : a = Asking(c)
  BY <1>6, AskingFacts
<1>8. g \in -1..Gens - 1
  BY <1>4, VaryMarkersAssumption
<1>9. PICK d \in ReqType : d = Moved(a, g, k, g)
  BY <1>4, <1>5, <1>7, <1>8, MovedFacts
<1>13. /\ d.pc = "ask" /\ ~d.inflight /\ d.gen = g /\ d.key = k /\ d.l2gen = g
       /\ Kin(d, a) /\ Kin(a, c)
  BY <1>4, <1>5, <1>6, <1>7, <1>8, <1>9, MovedFacts, AskingFacts
<1>10. req' = [req EXCEPT ![r] = d]
  <2>1. d = [c EXCEPT !.pc = "ask", !.tried = FALSE, !.inflight = FALSE,
                      !.gen = g, !.key = k, !.l2gen = g]
    BY <1>7, <1>9 DEF Moved, Asking
  <2> QED  BY <1>1, <1>4, <1>5, <1>6, <2>1 DEF TakeAnswer
<1>11. Settled(d, q) /\ d.node = q.node /\ d.cls = q.cls
  BY <1>1, <1>6, <1>13, CleanFacts DEF Settled, There, Kin
<1>12. Becomes(r, d)
  BY <1>1, <1>9, <1>10, <1>11 DEF Becomes
<1> QED  BY <1>1, <1>3, <1>4, <1>5, <1>9, <1>11, <1>12, <1>13

Gone(q) == q.inflight /\ q.got.res = "declined"

LEMMA RefuseEffect ==
    ASSUME TypeOK, NEW r \in Requests, RefuseAnswer(r)
    PROVE  \E d \in ReqType :
             /\ Becomes(r, d) /\ Settled(d, req[r])
             /\ IF Gone(req[r]) THEN d.gen = 0 /\ d.key = Base /\ d.l2gen = -1
                ELSE d.gen = req[r].gen /\ d.key = req[r].key
                     /\ d.l2gen = req[r].l2gen
<1>1. PICK q \in ReqType : q = req[r]
  BY DEF TypeOK
<1>2. PICK b \in BOOLEAN : b = (q.down \/ q.got.res = "error")
  BY <1>1 DEF ReqType
<1>3. PICK c \in ReqType : c = Clean(q)
  BY <1>1, CleanFacts
<1>4. Base \in Keys /\ 0 \in 0..Gens - 1 /\ -1 \in -1..Gens - 1
  BY KeyFacts, VaryMarkersAssumption
<1>5. PICK m \in ReqType : m = Moved(c, 0, Base, -1)
  BY <1>3, <1>4, MovedFacts
<1>6. PICK h \in ReqType : h = IF Gone(q) THEN m ELSE c
  BY <1>3, <1>5
<1>7. /\ Kin(h, c)
      /\ IF Gone(q) THEN h.gen = 0 /\ h.key = Base /\ h.l2gen = -1
         ELSE h.gen = c.gen /\ h.key = c.key /\ h.l2gen = c.l2gen
  BY <1>3, <1>4, <1>5, <1>6, MovedFacts DEF Kin
<1>8. PICK w \in ReqType : w = [h EXCEPT !.down = b]
  BY <1>2, <1>6, AskingDown
<1>9. Kin(w, h) /\ w.gen = h.gen /\ w.key = h.key /\ w.l2gen = h.l2gen
  BY ZenonT(40), <1>2, <1>6, <1>8, AskingDown
<1>10. PICK d \in ReqType : d = Asking(w)
  BY <1>8, AskingFacts
<1>11. /\ d.pc = "ask" /\ ~d.inflight /\ Kin(d, w)
       /\ d.gen = w.gen /\ d.key = w.key /\ d.l2gen = w.l2gen
  BY <1>8, <1>10, AskingFacts
<1>12. req' = [req EXCEPT ![r] = d]
  <2>1. d = [h EXCEPT !.pc = "ask", !.tried = FALSE, !.inflight = FALSE,
                      !.down = b]
    BY <1>2, <1>6, <1>8, <1>10, AskingDown
  <2>2. h = IF Gone(q) THEN [c EXCEPT !.gen = 0, !.key = Base, !.l2gen = -1] ELSE c
    BY <1>5, <1>6 DEF Moved
  <2> QED  BY <1>1, <1>2, <1>3, <2>1, <2>2 DEF RefuseAnswer, Gone
<1>13. Settled(d, q) /\ d.node = q.node /\ d.cls = q.cls
  BY <1>1, <1>3, <1>7, <1>9, <1>11, CleanFacts DEF Settled, There, Kin
<1>14. IF Gone(q) THEN d.gen = 0 /\ d.key = Base /\ d.l2gen = -1
       ELSE d.gen = q.gen /\ d.key = q.key /\ d.l2gen = q.l2gen
  BY <1>1, <1>3, <1>7, <1>9, <1>11, CleanFacts DEF There
<1>15. Becomes(r, d)
  BY <1>1, <1>10, <1>12, <1>13 DEF Becomes
<1> QED  BY <1>1, <1>10, <1>13, <1>14, <1>15

(* A request asks L2 for the marker or for the page, see RequestStep.       *)
Ask(r) == AskMarker(r) \/ AskPage(r)

(* What d, which was q, has of its marker's confirmation.                   *)
Sent(d, q) ==
    d.inflight => \/ d.pc \in {"ask", "marker"} /\ d.tried
                  \/ /\ q.inflight /\ d.tried = q.tried
                     /\ \/ d.pc \in {"ask", "object"}
                        \/ d.pc = "l2 result" /\ d.unsent = q.tried

(* What a request keeps that asks.                                          *)
Asks(d, q) ==
    /\ d.key = q.key /\ d.gen = q.gen /\ d.l2gen = q.l2gen
    /\ d.got = q.got /\ d.out = q.out /\ d.epoch = q.epoch
    /\ d.spans = q.spans /\ d.since = q.since
    /\ d.node = q.node /\ d.cls = q.cls

LEMMA Parking ==
    ASSUME NEW q \in ReqType, NEW b \in BOOLEAN, NEW p \in {"ask", "marker"}
    PROVE  \E d \in ReqType :
             /\ d = [q EXCEPT !.pc = p, !.inflight = b, !.miss = FALSE,
                              !.tried = TRUE, !.asked = TRUE]
             /\ Asks(d, q) /\ d.pc = p /\ ~d.miss /\ d.tried
<1>1. [q EXCEPT !.pc = p, !.inflight = b] \in ReqType
  BY DEF ReqType
<1>2. PICK s \in ReqType : s = [q EXCEPT !.pc = p, !.inflight = b]
  BY <1>1
<1>3. s \in ReqType
  OBVIOUS
<1>4. [s EXCEPT !.miss = FALSE, !.tried = TRUE, !.asked = TRUE] \in ReqType
  BY <1>3 DEF ReqType
<1>5. PICK d \in ReqType : d = [q EXCEPT !.pc = p, !.inflight = b, !.miss = FALSE,
                                          !.tried = TRUE, !.asked = TRUE]
  BY <1>2, <1>4
<1>6. d.pc = p /\ d.tried = TRUE /\ d.miss = FALSE
  BY ZenonT(40), <1>5 DEF ReqType
<1>7. d.node = q.node /\ d.cls = q.cls /\ d.key = q.key /\ d.gen = q.gen
  BY <1>5 DEF ReqType
<1>8. d.l2gen = q.l2gen /\ d.got = q.got /\ d.out = q.out
  BY ZenonT(40), <1>5 DEF ReqType
<1>9. d.epoch = q.epoch /\ d.spans = q.spans /\ d.since = q.since
  BY <1>5 DEF ReqType
<1> QED  BY <1>5, <1>6, <1>7, <1>8, <1>9 DEF Asks

(* A request goes to wait for L2, or has no need to, or cannot.             *)
LEMMA AskEffect ==
    ASSUME TypeOK, NEW r \in Requests, Ask(r)
    PROVE  \E d \in ReqType :
             /\ Becomes(r, d) /\ d.pc \in {"ask", "marker", "object", "l2 result"}
             /\ Asks(d, req[r]) /\ Sent(d, req[r])
             /\ d.miss => req[r].miss
<1>1. PICK q \in ReqType : q = req[r]
  BY DEF TypeOK
<1>2. CASE AskPage(r)
  <2>1. CASE req' = [req EXCEPT ![r].pc = "object"]
    <3>1. [q EXCEPT !.pc = "object"] \in ReqType
      BY <1>1 DEF ReqType
    <3>2. PICK d \in ReqType : d = [q EXCEPT !.pc = "object"]
      BY <3>1
    <3>3. d.pc = "object" /\ d.miss = q.miss /\ Asks(d, q)
      BY ZenonT(40), <1>1, <3>2 DEF ReqType, Asks
    <3>4. d.inflight = q.inflight /\ d.tried = q.tried
      BY <1>1, <3>2 DEF ReqType
    <3>5. req' = [req EXCEPT ![r] = d]
      BY <1>1, <2>1, <3>2 DEF TypeOK
    <3> QED  BY <1>1, <3>2, <3>3, <3>4, <3>5 DEF Becomes, Asks, Sent
  <2>2. CASE req' = [req EXCEPT ![r].pc = "l2 result", ![r].unsent = req[r].tried]
    <3>1. q.tried \in BOOLEAN
      BY <1>1 DEF ReqType
    <3>2. [q EXCEPT !.pc = "l2 result", !.unsent = q.tried] \in ReqType
      BY <1>1, <3>1 DEF ReqType
    <3>3. PICK d \in ReqType : d = [q EXCEPT !.pc = "l2 result", !.unsent = q.tried]
      BY <3>2
    <3>4. d.pc = "l2 result" /\ d.miss = q.miss /\ Asks(d, q)
      BY ZenonT(40), <1>1, <3>3 DEF ReqType, Asks
    <3>5. d.inflight = q.inflight /\ d.tried = q.tried /\ d.unsent = q.tried
      BY <1>1, <3>3 DEF ReqType
    <3>6. req' = [req EXCEPT ![r] = d]
      BY <1>1, <2>2, <3>3 DEF TypeOK
    <3> QED  BY <1>1, <3>3, <3>4, <3>5, <3>6 DEF Becomes, Asks, Sent
  <2> QED  BY <1>2, <2>1, <2>2 DEF AskPage
<1>3. CASE AskMarker(r)
  <2>1. PICK b \in BOOLEAN : b = (q.inflight \/ q.reval)
    BY <1>1 DEF ReqType
  <2>2. CASE \E p \in {"ask", "marker"} :
               req' = [req EXCEPT ![r] =
                  [q EXCEPT !.pc = p, !.inflight = b, !.miss = FALSE,
                            !.tried = TRUE, !.asked = TRUE]]
    <3>1. PICK p \in {"ask", "marker"} :
               req' = [req EXCEPT ![r] =
                  [q EXCEPT !.pc = p, !.inflight = b, !.miss = FALSE,
                            !.tried = TRUE, !.asked = TRUE]]
      BY <2>2
    <3>2. PICK d \in ReqType :
            /\ d = [q EXCEPT !.pc = p, !.inflight = b, !.miss = FALSE,
                             !.tried = TRUE, !.asked = TRUE]
            /\ Asks(d, q) /\ d.pc = p /\ ~d.miss /\ d.tried
      BY <1>1, <2>1, <3>1, Parking
    <3> QED  BY <1>1, <3>1, <3>2 DEF Becomes, Asks, Sent
  <2>3. CASE req' = [req EXCEPT ![r] = [q EXCEPT !.miss = FALSE, !.asked = TRUE]]
    <3>1. [q EXCEPT !.miss = FALSE, !.asked = TRUE] \in ReqType
      BY <1>1 DEF ReqType
    <3>2. PICK d \in ReqType : d = [q EXCEPT !.miss = FALSE, !.asked = TRUE]
      BY <3>1
    <3>3. d.pc = q.pc /\ ~d.miss /\ d.inflight = q.inflight /\ d.tried = q.tried
      BY <1>1, <3>2 DEF ReqType
    <3>4. Asks(d, q)
      BY ZenonT(40), <1>1, <3>2 DEF ReqType, Asks
    <3>5. q.pc = "ask"
      BY <1>1, <1>3 DEF AskMarker
    <3> QED  BY <1>1, <2>3, <3>2, <3>3, <3>4, <3>5 DEF Becomes, Asks, Sent
  <2>4. \/ req' = [req EXCEPT ![r] = [ForMarker(q) EXCEPT !.pc = "marker"]]
        \/ req' = [req EXCEPT ![r] = ForMarker(q)]
        \/ req' = [req EXCEPT ![r] = [q EXCEPT !.miss = FALSE, !.asked = TRUE]]
    BY <1>1, <1>3 DEF AskMarker
  <2>5. q.pc = "ask"
    BY <1>1, <1>3 DEF AskMarker
  <2>6. /\ [ForMarker(q) EXCEPT !.pc = "marker"] =
           [q EXCEPT !.pc = "marker", !.inflight = b, !.miss = FALSE,
                     !.tried = TRUE, !.asked = TRUE]
        /\ ForMarker(q) =
           [q EXCEPT !.pc = "ask", !.inflight = b, !.miss = FALSE,
                     !.tried = TRUE, !.asked = TRUE]
    BY <1>1, <2>1, <2>5 DEF ForMarker, ReqType
  <2> QED  BY <2>2, <2>3, <2>4, <2>6
<1> QED  BY <1>2, <1>3 DEF Ask

(* The answer of L2: what it has under the key, or that it failed.          *)
LEMMA AnswerEffect ==
    ASSUME TypeOK, NEW r \in Requests, Answer(r)
    PROVE  LET there == IF req[r].pc = "marker" THEN l2marker ELSE l2[req[r].key]
           IN \E d \in ReqType :
                /\ Becomes(r, d) /\ d.pc = "lookup" /\ There(d, req[r])
                /\ d.l2gen = req[r].l2gen /\ d.inflight = req[r].inflight
                /\ d.tried = req[r].tried
                /\ d.epoch = req[r].epoch /\ d.spans = req[r].spans
                /\ d.since = req[r].since /\ d.got.res # "none"
                /\ d.got.blob = there \/ d.got.blob = req[r].got.blob
<1>1. PICK q \in ReqType : q = req[r]
  BY DEF TypeOK
<1>2. PICK there \in Blobs :
        there = IF q.pc = "marker" THEN l2marker ELSE l2[q.key]
  <2>1. q.key \in Keys
    BY <1>1 DEF ReqType
  <2>2. l2[q.key] \in PageType \cup {None} /\ l2marker \in MarkerType
    BY <2>1 DEF TypeOK
  <2> QED  BY <2>2, BlobFacts
<1>3. PICK g \in [res : {"none", "ok", "declined", "error"}, blob : Blobs] :
        /\ req' = [req EXCEPT ![r] = [q EXCEPT !.pc = "lookup", !.got = g]]
        /\ g.res # "none" /\ g.blob \in {there, q.got.blob}
  <2>1. CASE req' = [req EXCEPT ![r].pc = "lookup", ![r].got =
                 [res |-> IF there = None THEN "declined" ELSE "ok",
                  blob |-> there]]
    <3>1. PICK a \in {"declined", "ok"} : a = IF there = None THEN "declined" ELSE "ok"
      OBVIOUS
    <3>2. PICK g \in [res : {"none", "ok", "declined", "error"}, blob : Blobs] :
            g = [res |-> a, blob |-> there]
      BY <1>2, <3>1
    <3>3. g.res # "none" /\ g.blob = there
      BY <3>1, <3>2
    <3>4. req' = [req EXCEPT ![r] = [q EXCEPT !.pc = "lookup", !.got = g]]
      BY <1>1, <2>1, <3>1, <3>2 DEF TypeOK
    <3> QED  BY <3>2, <3>3, <3>4
  <2>2. CASE req' = [req EXCEPT ![r].pc = "lookup", ![r].got.res = "error"]
    <3>1. q.got \in [res : {"none", "ok", "declined", "error"}, blob : Blobs]
      BY <1>1 DEF ReqType
    <3>2. PICK g \in [res : {"none", "ok", "declined", "error"}, blob : Blobs] :
            g = [q.got EXCEPT !.res = "error"]
      BY <3>1
    <3>3. g.res # "none" /\ g.blob = q.got.blob
      BY <3>1, <3>2
    <3>4. [q EXCEPT !.pc = "lookup", !.got.res = "error"] =
          [q EXCEPT !.pc = "lookup", !.got = g]
      BY <1>1, <3>2 DEF ReqType
    <3>5. req' = [req EXCEPT ![r] = [q EXCEPT !.pc = "lookup", !.got.res = "error"]]
      BY ZenonT(40), <1>1, <2>2 DEF TypeOK
    <3> QED  BY <3>2, <3>3, <3>4, <3>5
  <2> QED  BY <1>1, <1>2, <2>1, <2>2 DEF Answer
<1>4. [q EXCEPT !.pc = "lookup", !.got = g] \in ReqType
  BY <1>1, <1>3 DEF ReqType
<1>5. PICK d \in ReqType : d = [q EXCEPT !.pc = "lookup", !.got = g]
  BY <1>4
<1>6. d.pc = "lookup" /\ d.got = g /\ d.node = q.node /\ d.cls = q.cls
  BY <1>1, <1>5 DEF ReqType
<1>7. There(d, q) /\ d.l2gen = q.l2gen /\ d.inflight = q.inflight
      /\ d.tried = q.tried
  BY <1>1, <1>5 DEF ReqType, There
<1>8. d.epoch = q.epoch /\ d.spans = q.spans /\ d.since = q.since
  BY <1>1, <1>5 DEF ReqType
<1>9. Becomes(r, d)
  BY <1>1, <1>3, <1>5, <1>6 DEF Becomes
<1> QED  BY <1>1, <1>2, <1>3, <1>5, <1>6, <1>7, <1>8, <1>9

(* What r finds in its L1 now, under its key.                               *)
LEMMA PromoteEffect ==
    ASSUME TypeOK, NEW r \in Requests, Promote(r)
    PROVE  \E d \in ReqType : Becomes(r, d) /\ IsServed(d, req[r], req[r].got.blob)
<1>1. req[r] \in ReqType /\ req[r].got.blob \in Blobs
  BY DEF TypeOK, ReqType
<1>2. req' = [req EXCEPT ![r] = Served(req[r], req[r].got.blob)]
  BY DEF Promote
<1>3. PICK d : d = Served(req[r], req[r].got.blob)
  OBVIOUS
<1>4. Becomes(r, d) /\ IsServed(d, req[r], req[r].got.blob)
  BY <1>1, <1>2, <1>3, Ending
<1> QED  BY <1>4 DEF Becomes

LEMMA MissEffect ==
    ASSUME TypeOK, NEW r \in Requests, Miss(r)
    PROVE  \E d \in ReqType :
             /\ Becomes(r, d)
             /\ \/ IsServed(d, req[r], l1[req[r].node][req[r].key])
                \/ /\ d.pc = "origin" /\ d.got = NoBlob /\ d.epoch = begun
                   /\ d.key = req[r].key /\ d.gen = req[r].gen
                   /\ d.l2gen = req[r].l2gen /\ d.inflight = req[r].inflight
                   /\ d.spans = req[r].spans /\ d.since = req[r].since
                   /\ d.miss = req[r].miss /\ d.unsent = req[r].unsent
<1>1. PICK q \in ReqType : q = req[r]
  BY DEF TypeOK
<1>2. PICK here \in Blobs : here = l1[q.node][q.key]
  <2>1. q.key \in Keys
    BY <1>1 DEF ReqType
  <2> QED  BY <1>1, <2>1, HereTyped
<1>3. CASE req' = [req EXCEPT ![r] = Served(q, here)]
  <2>1. PICK d : d = Served(q, here)
    OBVIOUS
  <2>2. Becomes(r, d) /\ IsServed(d, q, here)
    BY <1>1, <1>2, <1>3, <2>1, Ending
  <2> QED  BY <1>1, <1>2, <2>2 DEF Becomes
<1>4. CASE req' = [req EXCEPT ![r] = [Clean(q) EXCEPT !.pc = "origin",
                                                      !.epoch = begun]]
  <2>1. PICK c \in ReqType : c = Clean(q)
    BY <1>1, CleanFacts
  <2>2. begun \in 0..MaxPurges
    BY DEF TypeOK
  <2>3. [c EXCEPT !.pc = "origin", !.epoch = begun] \in ReqType
    BY <2>1, <2>2 DEF ReqType
  <2>4. PICK d \in ReqType : d = [c EXCEPT !.pc = "origin", !.epoch = begun]
    BY <2>3
  <2>5. /\ d.pc = "origin" /\ d.epoch = begun /\ d.got = c.got /\ d.node = c.node
        /\ d.cls = c.cls /\ d.key = c.key /\ d.gen = c.gen
    BY <2>1, <2>4 DEF ReqType
  <2>6. /\ d.l2gen = c.l2gen /\ d.inflight = c.inflight /\ d.spans = c.spans
        /\ d.since = c.since /\ d.miss = c.miss /\ d.unsent = c.unsent
    BY <2>1, <2>4 DEF ReqType
  <2>7. /\ c.got = NoBlob /\ c.node = q.node /\ c.cls = q.cls /\ c.key = q.key
        /\ c.gen = q.gen /\ c.l2gen = q.l2gen /\ c.inflight = q.inflight
        /\ c.spans = q.spans /\ c.since = q.since /\ c.miss = q.miss
        /\ c.unsent = q.unsent
    BY <1>1, <2>1, CleanFacts DEF There
  <2>8. Becomes(r, d)
    BY <1>1, <1>4, <2>1, <2>4, <2>5, <2>7 DEF Becomes
  <2> QED  BY <1>1, <2>4, <2>5, <2>6, <2>7, <2>8
<1> QED  BY <1>1, <1>2, <1>3, <1>4 DEF Miss

(* What StorePage(r) does: the page is kept in L1, written through to L2,   *)
(* both or neither, and the request goes on to its marker or is done.       *)
PageStored(r, d, varies, kept, through) ==
    LET k == StoreKey(req[r], varies) IN
    /\ k \in Keys /\ (varies => k = <<req[r].gen, req[r].cls>>)
    /\ (~varies => k = req[r].key)
    /\ Becomes(r, d)
    /\ l1' = IF kept THEN [l1 EXCEPT ![req[r].node][k] = Page(r, varies)]
             ELSE l1
    /\ l2' = IF through THEN [l2 EXCEPT ![k] = Page(r, varies)] ELSE l2
    /\ varies => ~through
    /\ IF varies
       THEN /\ d.pc = "store" /\ d.key = k /\ d.out = Page(r, TRUE)
            /\ d.gen = req[r].gen /\ d.got = req[r].got
            /\ d.l2gen = req[r].l2gen /\ d.inflight = req[r].inflight
            /\ d.spans = req[r].spans /\ d.since = req[r].since
            /\ d.miss = req[r].miss /\ d.unsent = req[r].unsent
       ELSE IsDone(d)

LEMMA StorePageEffect ==
    ASSUME TypeOK, NEW r \in Requests, StorePage(r)
    PROVE  \E d \in ReqType, varies \in BOOLEAN, kept \in BOOLEAN,
              through \in BOOLEAN : PageStored(r, d, varies, kept, through)
<1>1. PICK q \in ReqType : q = req[r]
  BY DEF TypeOK
<1>2. PICK varies \in BOOLEAN, failed \in SUBSET {"l1", "l2"} :
        /\ l1' = IF "l1" \in failed THEN l1
                 ELSE [l1 EXCEPT ![q.node][StoreKey(q, varies)] = Page(r, varies)]
        /\ l2' = IF varies \/ "l2" \in failed THEN l2
                 ELSE [l2 EXCEPT ![StoreKey(q, varies)] = Page(r, varies)]
        /\ req' = [req EXCEPT ![r] =
              IF varies THEN [q EXCEPT !.pc = "store",
                                       !.key = StoreKey(q, varies),
                                       !.out = Page(r, varies)]
              ELSE Done(q)]
  BY <1>1 DEF StorePage
<1>3. q.gen \in 0..Gens - 1 /\ q.cls \in Classes /\ q.key \in Keys
  BY <1>1 DEF ReqType
<1>4. PICK k \in Keys : /\ k = StoreKey(q, varies)
                        /\ varies => k = <<q.gen, q.cls>>
                        /\ ~varies => k = q.key
  BY <1>2, <1>3, KeyFacts DEF StoreKey
<1>5. PICK page \in Blobs : page = Page(r, varies)
  BY <1>2, Made, BlobFacts
<1>6. PICK kept \in BOOLEAN : kept = ("l1" \notin failed)
  OBVIOUS
<1>7. PICK through \in BOOLEAN : through = (~varies /\ "l2" \notin failed)
  OBVIOUS
<1>8. /\ l1' = IF kept THEN [l1 EXCEPT ![q.node][k] = Page(r, varies)] ELSE l1
      /\ l2' = IF through THEN [l2 EXCEPT ![k] = Page(r, varies)] ELSE l2
      /\ varies => ~through
  BY <1>2, <1>4, <1>6, <1>7
<1>9. LET c == StoreKey(req[r], varies) IN
       /\ l1' = IF kept THEN [l1 EXCEPT ![req[r].node][c] = Page(r, varies)]
                ELSE l1
       /\ l2' = IF through THEN [l2 EXCEPT ![c] = Page(r, varies)] ELSE l2
       /\ varies => ~through
  BY <1>1, <1>4, <1>8
<1>10. CASE varies
  <2>1. [q EXCEPT !.pc = "store", !.key = k, !.out = page] \in ReqType
    BY ZenonT(40), <1>1, <1>4, <1>5 DEF ReqType
  <2>2. PICK d \in ReqType : d = [q EXCEPT !.pc = "store", !.key = k, !.out = page]
    BY <2>1
  <2>3. /\ d.pc = "store" /\ d.key = k /\ d.out = page /\ d.gen = q.gen
        /\ d.got = q.got /\ d.node = q.node /\ d.cls = q.cls
    BY <1>1, <2>2 DEF ReqType
  <2>4. /\ d.l2gen = q.l2gen /\ d.inflight = q.inflight
        /\ d.spans = q.spans /\ d.since = q.since /\ d.miss = q.miss
        /\ d.unsent = q.unsent
    BY <1>1, <2>2 DEF ReqType
  <2>5. Becomes(r, d)
    BY <1>1, <1>2, <1>4, <1>5, <1>10, <2>2, <2>3 DEF Becomes
  <2>6. Page(r, varies) = Page(r, TRUE)
    BY <1>2, <1>10
  <2>7. d.out = Page(r, TRUE)
    BY <1>5, <2>3, <2>6
  <2>8. PageStored(r, d, varies, kept, through)
    BY <1>1, <1>4, <1>9, <1>10, <2>3, <2>4, <2>5, <2>7 DEF PageStored
  <2> QED  BY <1>2, <1>6, <1>7, <2>2, <2>8
<1>11. CASE ~varies
  <2>1. PICK d : d = Done(q)
    OBVIOUS
  <2>2. Becomes(r, d) /\ IsDone(d)
    BY <1>1, <1>2, <1>5, <1>11, <2>1, Ending
  <2>3. PageStored(r, d, varies, kept, through)
    BY <1>1, <1>4, <1>9, <1>11, <2>2 DEF PageStored
  <2> QED  BY <1>2, <1>6, <1>7, <2>2, <2>3 DEF Becomes
<1> QED  BY <1>10, <1>11

LEMMA DoneEffect ==
    ASSUME TypeOK, NEW r \in Requests, req' = [req EXCEPT ![r] = Done(req[r])]
    PROVE  \E d \in ReqType : Becomes(r, d) /\ IsDone(d)
<1>1. req[r] \in ReqType /\ None \in Blobs
  BY BlobFacts DEF TypeOK
<1> QED  BY <1>1, Ending DEF Becomes

-----------------------------------------------------------------------------
(* What the actions share, and the types. *)

LEMMA LoseFacts ==
    ASSUME TypeOK
    PROVE  /\ \A k \in Nat : Lose(k) => losses' \in 0..MaxLosses
           /\ Works => losses' \in 0..MaxLosses
BY VaryMarkersAssumption DEF TypeOK, Lose, Works

LEMMA CardinalityOfSome ==
    ASSUME NEW a, NEW b, NEW s \in SUBSET {a, b}
    PROVE  Cardinality(s) \in Nat
<1>1. IsFiniteSet({}) /\ IsFiniteSet({} \cup {a}) /\ IsFiniteSet(({} \cup {a}) \cup {b})
  BY FS_EmptySet, FS_AddElement
<1>2. {a, b} = ({} \cup {a}) \cup {b}
  OBVIOUS
<1> QED  BY <1>1, <1>2, FS_Subset, FS_CardinalityType

PurgeType == [pc : {"idle", "read", "walk", "bump"}, node : Nodes,
              found : MarkerType, clean : BOOLEAN]

LEMMA WroteFacts ==
    ASSUME TypeOK, NEW q \in ReqType, Wrote(q)
    PROVE  /\ holds' \subseteq Nodes /\ holds' \subseteq holds
           /\ q.spans => holds' = {}
           /\ ~q.spans => holds' = holds
           /\ purge' \in PurgeType /\ purge'.pc = purge.pc
           /\ purge'.node = purge.node /\ purge'.found = purge.found
           /\ purge'.clean => purge.clean /\ ~q.spans
<1>1. PICK p \in PurgeType : p = purge
  BY DEF TypeOK, PurgeType
<1>2. PICK b \in BOOLEAN : b = (p.clean /\ ~q.spans)
  BY <1>1 DEF PurgeType, ReqType
<1>3. purge' = [p EXCEPT !.clean = b]
  BY <1>1, <1>2 DEF Wrote, PurgeType
<1>4. /\ purge' \in PurgeType /\ purge'.pc = p.pc /\ purge'.node = p.node
      /\ purge'.found = p.found /\ purge'.clean = b
  BY <1>1, <1>2, <1>3 DEF PurgeType
<1>5. holds' = IF q.spans THEN {} ELSE holds
  BY DEF Wrote
<1> QED  BY <1>1, <1>2, <1>4, <1>5 DEF TypeOK

LEMMA PartedFacts ==
    ASSUME TypeOK, NEW n \in Nodes, NEW over, Parted(n, over)
    PROVE  /\ parted' \subseteq Nodes /\ parted \subseteq parted'
           /\ \A r \in Requests \ over :
                /\ req[r].node = n /\ req[r].key # Base
                /\ req[r].pc \in {"lookup", "l2", "ask", "marker", "object"}
                => n \in parted'
BY DEF TypeOK, Parted

LEMMA SetMarkerFacts ==
    ASSUME TypeOK, NEW n \in Nodes, NEW g \in 0..Gens - 1, NEW fails \in BOOLEAN,
           SetMarker(n, g, fails)
    PROVE  /\ marker' \in [Nodes -> MarkerType] /\ l2marker' \in MarkerType
           /\ memo' \subseteq Nodes
           /\ marker'[n] = Marker(g) /\ marker'[n] # None /\ marker'[n].gen = g
           /\ \A m \in Nodes : m # n => marker'[m] = marker[m]
           /\ l2marker' = l2marker
              \/ (l2marker' = Marker(g) /\ l2marker'.gen = g)
BY Made DEF TypeOK, SetMarker

LEMMA PurgeFacts ==
    ASSUME TypeOK
    PROVE  /\ NoPurge \in PurgeType /\ NoPurge.pc = "idle" /\ NoPurge.found = None
           /\ \A n \in Nodes :
                LET p == [NoPurge EXCEPT !.pc = "read", !.node = n] IN
                /\ p \in PurgeType /\ p.pc = "read" /\ p.node = n
                /\ p.clean /\ p.found = None
           /\ LET p == [purge EXCEPT !.pc = "walk"] IN
                /\ p \in PurgeType /\ p.pc = "walk" /\ p.node = purge.node
                /\ p.clean = purge.clean /\ p.found = purge.found
           /\ \A m \in MarkerType :
                LET p == [purge EXCEPT !.pc = "bump", !.found = m] IN
                /\ p \in PurgeType /\ p.pc = "bump" /\ p.node = purge.node
                /\ p.clean = purge.clean /\ p.found = m
<1>1. (CHOOSE n \in Nodes : TRUE) \in Nodes
  BY VaryMarkersAssumption
<1>2. NoPurge \in PurgeType /\ NoPurge.pc = "idle" /\ NoPurge.clean
      /\ NoPurge.found = None
  BY <1>1, BlobFacts DEF NoPurge, PurgeType
<1>3. purge \in PurgeType
  BY DEF TypeOK, PurgeType
<1> HIDE DEF NoPurge
<1> QED  BY <1>2, <1>3 DEF PurgeType

(* What a request that a purge overtakes keeps: all but the mark.           *)
LEMMA OvertakenFacts ==
    ASSUME TypeOK
    PROVE  /\ Overtaken \in [Requests -> ReqType]
           /\ \A r \in Requests :
                /\ Overtaken[r].pc = req[r].pc /\ Overtaken[r].node = req[r].node
                /\ Overtaken[r].cls = req[r].cls /\ There(Overtaken[r], req[r])
                /\ Overtaken[r].tried = req[r].tried
                /\ Overtaken[r].l2gen = req[r].l2gen
                /\ Overtaken[r].got = req[r].got
                /\ Overtaken[r].inflight = req[r].inflight
                /\ Overtaken[r].unsent = req[r].unsent
                /\ Overtaken[r].out = req[r].out
                /\ Overtaken[r].epoch = req[r].epoch
                /\ Overtaken[r].since = req[r].since
                /\ r \in InFlight => Overtaken[r].spans
                /\ r \notin InFlight => Overtaken[r] = req[r]
<1>1. ASSUME NEW q \in ReqType
      PROVE  LET d == [q EXCEPT !.spans = TRUE] IN
             /\ d \in ReqType /\ d.spans /\ d.pc = q.pc /\ d.node = q.node
             /\ d.cls = q.cls /\ There(d, q) /\ d.tried = q.tried
             /\ d.l2gen = q.l2gen /\ d.got = q.got /\ d.inflight = q.inflight
             /\ d.out = q.out /\ d.epoch = q.epoch /\ d.since = q.since
             /\ d.unsent = q.unsent
  <2>1. [q EXCEPT !.spans = TRUE] \in ReqType
    BY DEF ReqType
  <2>2. PICK d \in ReqType : d = [q EXCEPT !.spans = TRUE]
    BY <2>1
  <2>3. d.spans /\ d.pc = q.pc /\ d.node = q.node /\ d.cls = q.cls
    BY <2>2 DEF ReqType
  <2>4. There(d, q) /\ d.tried = q.tried /\ d.l2gen = q.l2gen /\ d.got = q.got
    BY <2>2 DEF ReqType, There
  <2>5. d.inflight = q.inflight /\ d.out = q.out /\ d.epoch = q.epoch
        /\ d.since = q.since /\ d.unsent = q.unsent
    BY <2>2 DEF ReqType
  <2> QED  BY <2>1, <2>2, <2>3, <2>4, <2>5
<1>2. ASSUME NEW r \in Requests
      PROVE  /\ Overtaken[r] \in ReqType
             /\ Overtaken[r].pc = req[r].pc /\ Overtaken[r].node = req[r].node
             /\ Overtaken[r].cls = req[r].cls /\ There(Overtaken[r], req[r])
             /\ Overtaken[r].tried = req[r].tried
             /\ Overtaken[r].l2gen = req[r].l2gen
             /\ Overtaken[r].got = req[r].got
             /\ Overtaken[r].inflight = req[r].inflight
             /\ Overtaken[r].unsent = req[r].unsent
             /\ Overtaken[r].out = req[r].out
             /\ Overtaken[r].epoch = req[r].epoch
             /\ Overtaken[r].since = req[r].since
             /\ r \in InFlight => Overtaken[r].spans
             /\ r \notin InFlight => Overtaken[r] = req[r]
  <2>1. req[r] \in ReqType
    BY DEF TypeOK
  <2>2. CASE r \in InFlight
    <3>1. Overtaken[r] = [req[r] EXCEPT !.spans = TRUE]
      BY <2>2 DEF Overtaken
    <3> QED  BY <1>1, <2>1, <2>2, <3>1
  <2>3. CASE r \notin InFlight
    <3>1. Overtaken[r] = req[r]
      BY <2>3 DEF Overtaken
    <3> QED  BY <2>1, <2>3, <3>1 DEF There
  <2> QED  BY <2>2, <2>3
<1>3. Overtaken \in [Requests -> ReqType]
  BY <1>2 DEF Overtaken
<1> QED  BY <1>2, <1>3

LEMMA InitTypes == Init => TypeOK
<1> SUFFICES ASSUME Init PROVE TypeOK
  OBVIOUS
<1>1. 0 \in 0..MaxTime /\ 0 \in 0..MaxLosses /\ 0 \in 0..MaxPurges /\ 0 \in 0..Gens - 1
  BY VaryMarkersAssumption
<1>2. req \in [Requests -> ReqType]
  <2>1. {Idle(n, c) : n \in Nodes, c \in Classes} \subseteq ReqType
    BY IdleFacts
  <2> QED  BY <2>1 DEF Init
<1>3. [kind |-> "marker", gen |-> 0, at |-> 0] \in MarkerType
  BY <1>1 DEF MarkerType
<1>4. l2marker \in MarkerType
  BY <1>3, BlobFacts DEF Init
<1>5. /\ l1 \in [Nodes -> [Keys -> Blobs]] /\ l2 \in [Keys -> PageType \cup {None}]
      /\ marker \in [Nodes -> MarkerType]
  BY BlobFacts DEF Init
<1>6. purge \in PurgeType
  <2>1. purge = NoPurge
    BY DEF Init
  <2>2. (CHOOSE n \in Nodes : TRUE) \in Nodes
    BY VaryMarkersAssumption
  <2> QED  BY <2>1, <2>2, BlobFacts DEF NoPurge, PurgeType
<1> QED  BY <1>1, <1>2, <1>4, <1>5, <1>6 DEF Init, TypeOK, PurgeType

LEMMA RequestTypes ==
    ASSUME TypeOK, NEW r \in Requests,
           Start(r) \/ Lookup(r) \/ Ask(r) \/ Answer(r) \/ Miss(r)
           \/ NotStored(r) \/ Rollback(r) \/ Promote(r)
    PROVE  TypeOK'
<1>1. req[r] \in ReqType /\ req[r].node \in Nodes /\ req[r].key \in Keys
      /\ req[r].got.blob \in Blobs
  BY DEF TypeOK, ReqType
<1>2. req' \in [Requests -> ReqType]
  <2>1. CASE Start(r)
    BY <2>1, StartEffect, Requested
  <2>2. CASE Lookup(r)
    BY <2>2, LookupEffect, Requested
  <2>3. CASE Ask(r)
    BY <2>3, AskEffect, Requested
  <2>4. CASE Answer(r)
    BY <2>4, AnswerEffect, Requested
  <2>5. CASE Miss(r)
    BY <2>5, MissEffect, Requested
  <2>6. CASE NotStored(r) \/ Rollback(r)
    <3>1. req' = [req EXCEPT ![r] = Done(req[r])]
      BY <2>6 DEF NotStored, Rollback, TypeOK
    <3> QED  BY <3>1, DoneEffect, Requested
  <2>7. CASE Promote(r)
    BY <2>7, PromoteEffect, Requested
  <2> QED  BY <2>1, <2>2, <2>3, <2>4, <2>5, <2>6, <2>7
<1>3. losses' \in 0..MaxLosses
  BY LoseFacts DEF Start, Lookup, Ask, AskMarker, AskPage, Answer, Miss,
                   NotStored, Rollback, Promote
<1>4. /\ UNCHANGED <<deploy, time, marker, memo, remote, begun, ended, parted, top>>
      /\ Promote(r) \/ UNCHANGED <<purge, holds>>
      /\ Promote(r) \/ Rollback(r) \/ UNCHANGED l1
  BY DEF Start, Lookup, Ask, AskMarker, AskPage, Answer, Miss, NotStored,
         Rollback, Promote, shm, hist, remote
<1>5. l1' \in [Nodes -> [Keys -> Blobs]]
  <2>1. l1 \in [Nodes -> [Keys -> Blobs]]
    BY DEF TypeOK
  <2>2. CASE Promote(r)
    <3>1. l1' = l1 \/ l1' = [l1 EXCEPT ![req[r].node][req[r].key] = req[r].got.blob]
      BY <2>2 DEF Promote
    <3> QED  BY <1>1, <2>1, <3>1
  <2>3. CASE Rollback(r)
    <3>1. l1' = l1 \/ l1' = [l1 EXCEPT ![req[r].node][req[r].key] = None]
      BY <2>3 DEF Rollback
    <3> QED  BY <1>1, <2>1, <3>1, BlobFacts
  <2> QED  BY <1>4, <2>1, <2>2, <2>3
<1>6. purge' \in PurgeType /\ holds' \subseteq Nodes
  <2>1. CASE Promote(r)
    BY <1>1, <2>1, WroteFacts DEF Promote
  <2> QED  BY <1>4, <2>1 DEF TypeOK, PurgeType
<1> QED  BY <1>2, <1>3, <1>4, <1>5, <1>6 DEF TypeOK, PurgeType, remote

LEMMA ConsumeTypes ==
    ASSUME TypeOK, NEW r \in Requests, Consume(r)
    PROVE  TypeOK'
<1>1. req[r] \in ReqType /\ req[r].node \in Nodes
  BY DEF TypeOK, ReqType
<1>2. UNCHANGED <<deploy, time, l2, begun, ended, top>>
  BY DEF Consume
<1>3. CASE DropAnswer(r)
  <2>1. req' \in [Requests -> ReqType]
    BY <1>3, DropEffect, Requested
  <2>2. losses' \in 0..MaxLosses
    BY <1>3, LoseFacts DEF DropAnswer
  <2> QED  BY <1>2, <1>3, <2>1, <2>2 DEF TypeOK, DropAnswer, shm
<1>4. CASE TakeAnswer(r)
  <2>1. req' \in [Requests -> ReqType] /\ req[r].got.blob.gen \in 0..Gens - 1
    BY <1>4, TakeEffect, Requested
  <2>2. losses' \in 0..MaxLosses
    BY <1>4, LoseFacts DEF TakeAnswer
  <2>3. purge' \in PurgeType /\ holds' \subseteq Nodes
    BY <1>1, <1>4, WroteFacts DEF TakeAnswer
  <2>4. /\ marker' \in [Nodes -> MarkerType] /\ l2marker' \in MarkerType
        /\ memo' \subseteq Nodes /\ l1' = l1 /\ parted' = parted
    <3>1. CASE \E fails \in BOOLEAN :
                 SetMarker(req[r].node, req[r].got.blob.gen, fails) /\ UNCHANGED l1
      BY <1>1, <1>4, <2>1, <3>1, SetMarkerFacts DEF TakeAnswer
    <3>2. CASE UNCHANGED <<shm, l2marker>>
      BY <1>4, <3>2 DEF TakeAnswer, TypeOK, shm
    <3> QED  BY <1>4, <3>1, <3>2 DEF TakeAnswer
  <2> QED  BY <1>2, <2>1, <2>2, <2>3, <2>4 DEF TypeOK, PurgeType
<1>5. CASE RefuseAnswer(r)
  <2>1. req' \in [Requests -> ReqType]
    BY <1>5, RefuseEffect, Requested
  <2>2. losses' \in 0..MaxLosses
    BY <1>5, LoseFacts DEF RefuseAnswer
  <2>3. marker' \in [Nodes -> MarkerType]
    <3>1. marker' = marker \/ marker' = [marker EXCEPT ![req[r].node] = None]
      BY <1>5 DEF RefuseAnswer
    <3> QED  BY <1>1, <3>1, BlobFacts DEF TypeOK
  <2>4. holds' \subseteq Nodes /\ memo' \subseteq Nodes
    <3>1. holds' \subseteq holds /\ memo' \subseteq memo \cup {req[r].node}
      BY <1>5 DEF RefuseAnswer
    <3> QED  BY <1>1, <3>1 DEF TypeOK
  <2>5. parted' \subseteq Nodes
    <3>1. Parted(req[r].node, {r}) \/ parted' = parted
      BY <1>5 DEF RefuseAnswer
    <3> QED  BY <1>1, <3>1, PartedFacts DEF TypeOK
  <2>6. UNCHANGED <<l1, l2marker, purge>>
    BY <1>5 DEF RefuseAnswer
  <2> QED  BY <1>2, <2>1, <2>2, <2>3, <2>4, <2>5, <2>6 DEF TypeOK
<1> QED  BY <1>3, <1>4, <1>5 DEF Consume

LEMMA StoreTypes ==
    ASSUME TypeOK, NEW r \in Requests,
           StorePage(r) \/ (StoreMarker(r) /\ req[r].out \in PageType)
    PROVE  TypeOK'
<1>1. req[r] \in ReqType /\ req[r].node \in Nodes /\ req[r].gen \in 0..Gens - 1
      /\ req[r].key \in Keys
  BY DEF TypeOK, ReqType
<1>2. l1 \in [Nodes -> [Keys -> Blobs]] /\ l2 \in [Keys -> PageType \cup {None}]
  BY DEF TypeOK
<1>3. losses' \in 0..MaxLosses
  BY LoseFacts, CardinalityOfSome DEF StorePage, StoreMarker
<1>4. purge' \in PurgeType /\ holds' \subseteq Nodes
  BY <1>1, WroteFacts DEF StorePage, StoreMarker
<1>5. CASE StorePage(r)
  <2>1. /\ req' \in [Requests -> ReqType] /\ l1' \in [Nodes -> [Keys -> Blobs]]
        /\ l2' \in [Keys -> PageType \cup {None}]
    <3>0. PICK d \in ReqType, varies \in BOOLEAN, kept \in BOOLEAN,
               through \in BOOLEAN : PageStored(r, d, varies, kept, through)
      BY <1>5, StorePageEffect
    <3>1. PICK k \in Keys :
            /\ Becomes(r, d)
            /\ l1' = l1 \/ l1' = [l1 EXCEPT ![req[r].node][k] = Page(r, varies)]
            /\ l2' = l2 \/ l2' = [l2 EXCEPT ![k] = Page(r, varies)]
      BY <3>0 DEF PageStored
    <3>2. Page(r, varies) \in PageType /\ Page(r, varies) \in Blobs
      BY Made, BlobFacts
    <3>3. l1' \in [Nodes -> [Keys -> Blobs]]
      BY <1>1, <1>2, <3>1, <3>2
    <3>4. l2' \in [Keys -> PageType \cup {None}]
      BY <1>1, <1>2, <3>1, <3>2
    <3> QED  BY <3>1, <3>3, <3>4, Requested
  <2> QED  BY <1>3, <1>4, <1>5, <2>1 DEF StorePage, TypeOK, PurgeType
<1>6. CASE StoreMarker(r) /\ req[r].out \in PageType
  <2>1. req' \in [Requests -> ReqType]
    <3>1. req' = [req EXCEPT ![r] = Done(req[r])]
      BY <1>6 DEF StoreMarker
    <3> QED  BY <3>1, DoneEffect, Requested
  <2>2. /\ marker' \in [Nodes -> MarkerType] /\ l2marker' \in MarkerType
        /\ memo' \subseteq Nodes
    <3>1. PICK failed \in SUBSET {"marker", "page"} :
            SetMarker(req[r].node, req[r].gen, "marker" \in failed)
      BY <1>6 DEF StoreMarker
    <3>2. ("marker" \in failed) \in BOOLEAN
      OBVIOUS
    <3> QED  BY <1>1, <3>1, <3>2, SetMarkerFacts
  <2>3. l2' \in [Keys -> PageType \cup {None}]
    <3>1. l2' = l2 \/ l2' = [l2 EXCEPT ![req[r].key] = req[r].out]
      BY <1>6 DEF StoreMarker
    <3> QED  BY <1>1, <1>2, <1>6, <3>1
  <2> QED  BY <1>3, <1>4, <1>6, <2>1, <2>2, <2>3 DEF StoreMarker, TypeOK, PurgeType
<1> QED  BY <1>5, <1>6

(* What a walk leaves: it only takes pages away, and under the base key     *)
(* none; one that ends and missed nothing leaves no variant.                *)
LEMMA WalkEffect ==
    ASSUME TypeOK, PurgeWalk
    PROVE  /\ purge.pc = "walk" /\ purge' = NoPurge /\ losses' \in 0..MaxLosses
           /\ UNCHANGED <<deploy, time, marker, memo, l2marker, req, begun,
                          parted, top>>
           /\ l1' \in [Nodes -> [Keys -> Blobs]]
           /\ l2' \in [Keys -> PageType \cup {None}]
           /\ \A n \in Nodes, k \in Keys : l1'[n][k] \in {l1[n][k], None}
           /\ \A k \in Keys : l2'[k] \in {l2[k], None}
           /\ \A n \in Nodes : l1'[n][Base] = l1[n][Base]
           /\ l2'[Base] = l2[Base]
           /\ \/ /\ ended' = begun
                 /\ \/ holds' = {}
                    \/ /\ holds' = Kept
                       /\ \A k \in Keys : k # Base =>
                            l1'[purge.node][k] = None /\ l2'[k] = None
              \/ UNCHANGED <<ended, holds>>
<1> DEFINE n == purge.node
           variants == {k \in VariantKeys : l1[n][k] # None \/ l2[k] # None}
           only(cells, ks) ==
             [k \in Keys |-> IF k \in {Base} \cup ks THEN cells[k] ELSE None]
<1>1. /\ n \in Nodes /\ None \in Blobs /\ Base \in Keys
      /\ l1 \in [Nodes -> [Keys -> Blobs]] /\ l2 \in [Keys -> PageType \cup {None}]
  BY KeyFacts, BlobFacts DEF TypeOK
<1>2. /\ purge.pc = "walk" /\ purge' = NoPurge
      /\ UNCHANGED <<deploy, time, marker, memo, l2marker, req, begun, parted, top>>
  BY DEF PurgeWalk
<1>3. PICK here \in SUBSET variants, there \in SUBSET variants :
        /\ l1' = [l1 EXCEPT ![n] = only(l1[n], here)]
        /\ l2' = only(l2, there)
        /\ \/ /\ here = there
              /\ ended' = begun /\ holds' = IF here = {} THEN Kept ELSE {}
              /\ Lose(IF here = {} THEN 0 ELSE 1)
           \/ Lose(1) /\ UNCHANGED <<ended, holds>>
  BY DEF PurgeWalk
<1>4. losses' \in 0..MaxLosses
  <2>1. Lose(0) \/ Lose(1)
    BY <1>3
  <2> QED  BY <2>1, LoseFacts
<1>5. \A cells, ks : \A k \in Keys :
        only(cells, ks)[k] = IF k \in {Base} \cup ks THEN cells[k] ELSE None
  OBVIOUS
<1>6. /\ only(l1[n], here) \in [Keys -> Blobs]
      /\ only(l2, there) \in [Keys -> PageType \cup {None}]
  BY <1>1
<1> HIDE DEF only, variants
<1>7. /\ l1' \in [Nodes -> [Keys -> Blobs]]
      /\ l2' \in [Keys -> PageType \cup {None}]
  BY <1>1, <1>3, <1>6
<1>8. /\ \A k \in Keys : l1'[n][k] =
                           IF k \in {Base} \cup here THEN l1[n][k] ELSE None
      /\ \A m \in Nodes : m # n => l1'[m] = l1[m]
      /\ \A k \in Keys : l2'[k] = IF k \in {Base} \cup there THEN l2[k] ELSE None
  BY <1>1, <1>3, <1>5
<1>9. /\ \A m \in Nodes, k \in Keys : l1'[m][k] \in {l1[m][k], None}
      /\ \A m \in Nodes : l1'[m][Base] = l1[m][Base]
  BY <1>1, <1>8
<1>10. (\A k \in Keys : l2'[k] \in {l2[k], None}) /\ l2'[Base] = l2[Base]
  BY <1>1, <1>8
<1>11. here = {} /\ there = {} => \A k \in Keys : k # Base =>
                                     l1'[n][k] = None /\ l2'[k] = None
  BY <1>8
<1> QED  BY <1>2, <1>3, <1>4, <1>7, <1>9, <1>10, <1>11

LEMMA MarkerPurged ==
    ASSUME TypeOK, PurgeMarker
    PROVE  /\ purge.pc = "read" /\ deploy = "tagged" /\ Parted(purge.node, {})
           /\ marker' = [marker EXCEPT ![purge.node] = None]
           /\ l2marker' \in {l2marker, None} /\ losses' \in 0..MaxLosses
           /\ UNCHANGED <<deploy, time, l1, memo, l2, req, begun, top>>
           /\ \/ purge' = NoPurge /\ ended' = begun /\ holds' = {}
              \/ /\ purge' = [purge EXCEPT !.pc = "walk"]
                 /\ UNCHANGED <<ended, holds>>
<1>1. PICK failed \in SUBSET {"del", "walk"} :
        /\ l2marker' = IF "del" \in failed THEN l2marker ELSE None
        /\ IF "walk" \in failed
           THEN purge' = NoPurge /\ ended' = begun /\ holds' = {}
           ELSE purge' = [purge EXCEPT !.pc = "walk"] /\ UNCHANGED <<ended, holds>>
        /\ Lose(IF failed = {} THEN 0 ELSE 1)
  BY DEF PurgeMarker
<1>2. losses' \in 0..MaxLosses
  <2>1. Lose(0) \/ Lose(1)
    BY <1>1
  <2> QED  BY <2>1, LoseFacts
<1> QED  BY <1>1, <1>2 DEF PurgeMarker

LEMMA PurgeTypes ==
    ASSUME TypeOK,
           (\E n \in Purgers : PurgeBase(n)) \/ PurgeMarker \/ PurgeWalk
           \/ PurgeRead \/ (PurgeBump /\ purge.found # None) \/ PurgeFails
    PROVE  TypeOK'
<1>1. /\ purge \in PurgeType /\ purge.node \in Nodes /\ purge.found \in MarkerType
      /\ marker[purge.node] \in MarkerType
      /\ l1 \in [Nodes -> [Keys -> Blobs]] /\ l2 \in [Keys -> PageType \cup {None}]
      /\ Base \in Keys /\ None \in Blobs /\ None \in MarkerType
      /\ begun \in 0..MaxPurges /\ ended \in 0..MaxPurges
  BY KeyFacts, BlobFacts DEF TypeOK, PurgeType
<1>2. ASSUME NEW n \in Purgers, PurgeBase(n) PROVE TypeOK'
  <2>1. n \in Nodes
    BY VaryMarkersAssumption
  <2>2. begun' \in 0..MaxPurges
    <3>1. begun' = begun + 1 /\ begun < MaxPurges
      BY <1>2 DEF PurgeBase
    <3> QED  BY <1>1, <3>1, VaryMarkersAssumption
  <2>3. req' \in [Requests -> ReqType]
    BY <1>2, OvertakenFacts DEF PurgeBase
  <2>4. l1' \in [Nodes -> [Keys -> Blobs]]
    BY <1>1, <1>2, <2>1 DEF PurgeBase
  <2>5. l2' \in [Keys -> PageType \cup {None}]
    BY <1>1, <1>2 DEF PurgeBase
  <2>6. purge' \in PurgeType
    <3>1. purge' = purge \/ purge' = [NoPurge EXCEPT !.pc = "read", !.node = n]
      BY <1>2 DEF PurgeBase
    <3>2. [NoPurge EXCEPT !.pc = "read", !.node = n] \in PurgeType
      BY <2>1, PurgeFacts
    <3> QED  BY <1>1, <3>1, <3>2
  <2>7. losses' \in 0..MaxLosses
    BY <1>2, LoseFacts DEF PurgeBase
  <2>8. UNCHANGED <<deploy, time, marker, memo, l2marker, ended, holds, parted, top>>
    BY <1>2 DEF PurgeBase
  <2> QED  BY <2>2, <2>3, <2>4, <2>5, <2>6, <2>7, <2>8 DEF TypeOK, PurgeType
<1>3. CASE PurgeMarker
  <2>1. purge' \in PurgeType
    BY <1>3, MarkerPurged, PurgeFacts
  <2>2. marker' \in [Nodes -> MarkerType] /\ l2marker' \in MarkerType
    <3>1. marker \in [Nodes -> MarkerType] /\ l2marker \in MarkerType
      BY DEF TypeOK
    <3> QED  BY <1>1, <1>3, <3>1, MarkerPurged
  <2>3. parted' \subseteq Nodes
    BY <1>1, <1>3, MarkerPurged, PartedFacts
  <2>4. holds' \subseteq Nodes /\ ended' \in 0..MaxPurges
    <3>1. holds' \in {{}, holds} /\ ended' \in {begun, ended}
      BY <1>3, MarkerPurged
    <3> QED  BY <1>1, <3>1 DEF TypeOK
  <2>5. /\ losses' \in 0..MaxLosses
        /\ UNCHANGED <<deploy, time, l1, memo, l2, req, begun, top>>
    BY <1>3, MarkerPurged
  <2> QED  BY <2>1, <2>2, <2>3, <2>4, <2>5 DEF TypeOK, PurgeType
<1>7. CASE PurgeWalk
  <2>1. purge' \in PurgeType
    BY <1>7, WalkEffect, PurgeFacts
  <2>2. holds' \subseteq Nodes /\ ended' \in 0..MaxPurges
    <3>1. holds' \in {{}, Kept, holds} /\ ended' \in {begun, ended}
      BY <1>7, WalkEffect
    <3>2. Kept \subseteq Nodes
      BY <1>1 DEF Kept
    <3> QED  BY <1>1, <3>1, <3>2 DEF TypeOK
  <2>3. /\ losses' \in 0..MaxLosses
        /\ UNCHANGED <<deploy, time, marker, memo, l2marker, req, begun, parted, top>>
        /\ l1' \in [Nodes -> [Keys -> Blobs]]
        /\ l2' \in [Keys -> PageType \cup {None}]
    BY <1>7, WalkEffect
  <2> QED  BY <2>1, <2>2, <2>3 DEF TypeOK, PurgeType
<1>4. CASE PurgeRead
  <2>1. req' \in [Requests -> ReqType]
    BY <1>4 DEF PurgeRead, TypeOK
  <2>2. purge' \in PurgeType
    BY <1>1, <1>4, PurgeFacts DEF PurgeRead
  <2>3. holds' \subseteq Nodes /\ ended' \in 0..MaxPurges
    BY <1>1, <1>4 DEF PurgeRead, TypeOK
  <2>4. losses' \in 0..MaxLosses
    BY <1>4, LoseFacts DEF PurgeRead
  <2>5. UNCHANGED <<deploy, time, shm, remote, begun, parted, top>>
    BY <1>4 DEF PurgeRead
  <2> QED  BY <2>1, <2>2, <2>3, <2>4, <2>5 DEF TypeOK, PurgeType, shm, remote
<1>5. CASE PurgeBump /\ purge.found # None
  <2>1. purge.found.gen \in 0..Gens - 1
    BY <1>1, <1>5, BlobFacts
  <2>2. PICK g \in 0..Gens - 1 : g = NextGen(purge.found.gen)
    BY <2>1, VaryMarkersAssumption DEF NextGen
  <2>3. PICK fails \in BOOLEAN : SetMarker(purge.node, g, fails)
    BY <1>5, <2>2 DEF PurgeBump
  <2>4. /\ marker' \in [Nodes -> MarkerType] /\ l2marker' \in MarkerType
        /\ memo' \subseteq Nodes
    BY <1>1, <2>2, <2>3, SetMarkerFacts
  <2>5. top' \in 0..Gens - 1
    BY <1>5, <2>2 DEF PurgeBump, TypeOK
  <2>6. req' \in [Requests -> ReqType] /\ purge' \in PurgeType
    BY <1>5, PurgeFacts DEF PurgeBump, TypeOK
  <2>7. holds' \subseteq Nodes /\ ended' \in 0..MaxPurges
    BY <1>1, <1>5 DEF PurgeBump, Kept
  <2>8. losses' \in 0..MaxLosses
    BY <1>5, LoseFacts DEF PurgeBump
  <2>9. UNCHANGED <<deploy, time, l1, l2, begun, parted>>
    BY <1>5 DEF PurgeBump
  <2> QED  BY <2>4, <2>5, <2>6, <2>7, <2>8, <2>9 DEF TypeOK, PurgeType
<1>6. CASE PurgeFails
  <2>1. purge' \in PurgeType
    BY <1>6, PurgeFacts DEF PurgeFails
  <2>2. losses' \in 0..MaxLosses
    BY <1>6, LoseFacts DEF PurgeFails
  <2>3. UNCHANGED <<deploy, time, shm, remote, req, hist>>
    BY <1>6 DEF PurgeFails
  <2> QED  BY <2>1, <2>2, <2>3 DEF TypeOK, PurgeType, shm, remote, hist
<1> QED  BY <1>2, <1>3, <1>4, <1>5, <1>6, <1>7

(* The surroundings: the clock, what is evicted, what L2 forgets.           *)
Surroundings ==
    \/ Tick \/ L2Forgets
    \/ \E n \in Nodes : EvictMarker(n) \/ EvictPage(n) \/ MemoEnds(n)

LEMMA SurroundingTypes ==
    ASSUME TypeOK, Surroundings
    PROVE  TypeOK'
<1>1. /\ l1 \in [Nodes -> [Keys -> Blobs]] /\ marker \in [Nodes -> MarkerType]
      /\ None \in Blobs /\ None \in MarkerType /\ time \in 0..MaxTime
  BY BlobFacts DEF TypeOK
<1>2. CASE Tick
  <2>1. time' \in 0..MaxTime
    BY <1>1, <1>2, VaryMarkersAssumption DEF Tick
  <2>2. losses' \in 0..MaxLosses
    BY <1>2, LoseFacts DEF Tick
  <2> QED  BY <1>2, <2>1, <2>2 DEF Tick, TypeOK, shm, remote, hist
<1>3. CASE L2Forgets
  <2>1. losses' \in 0..MaxLosses
    BY <1>3, LoseFacts DEF L2Forgets
  <2> QED  BY <1>1, <1>3, <2>1 DEF L2Forgets, TypeOK, shm, hist
<1>4. ASSUME NEW n \in Nodes, EvictMarker(n) PROVE TypeOK'
  <2>1. losses' \in 0..MaxLosses
    BY <1>4, LoseFacts DEF EvictMarker
  <2>2. marker' \in [Nodes -> MarkerType]
    BY <1>1, <1>4 DEF EvictMarker
  <2>3. parted' \subseteq Nodes
    BY <1>4, PartedFacts DEF EvictMarker
  <2>4. holds' \subseteq Nodes
    BY <1>4 DEF EvictMarker, TypeOK
  <2> QED  BY <1>4, <2>1, <2>2, <2>3, <2>4 DEF EvictMarker, TypeOK, remote
<1>5. ASSUME NEW n \in Nodes, EvictPage(n) PROVE TypeOK'
  <2>1. losses' \in 0..MaxLosses
    BY <1>5, LoseFacts DEF EvictPage
  <2>2. l1' \in [Nodes -> [Keys -> Blobs]]
    BY <1>1, <1>5 DEF EvictPage
  <2> QED  BY <1>5, <2>1, <2>2 DEF EvictPage, TypeOK, remote, hist
<1>6. ASSUME NEW n \in Nodes, MemoEnds(n) PROVE TypeOK'
  <2>1. losses' \in 0..MaxLosses
    BY <1>6, LoseFacts DEF MemoEnds
  <2> QED  BY <1>6, <2>1 DEF MemoEnds, TypeOK, remote, hist
<1> QED  BY <1>2, <1>3, <1>4, <1>5, <1>6 DEF Surroundings

-----------------------------------------------------------------------------
(* Whom a page that varies can come to. *)

Varying(b) == b.kind = "page" /\ b.varies
Listening == {"lookup", "l2", "ask", "marker", "object"}

(* A key other than the base is one of the request's own class, and there   *)
(* is a marker behind it.  A page at hand is of the request's class, and    *)
(* was not found under the base key but for the nodes that were parted.     *)
RequestSuits(r) ==
    LET q == req[r] IN
    /\ q.pc = "idle" => q.key = Base
    /\ q.key # Base => q.key[2] = q.cls
    /\ q.pc \in Listening /\ q.key # Base =>
         marker[q.node] # None \/ q.l2gen >= 0 \/ q.node \in parted
    /\ Varying(q.got.blob) =>
         /\ req[q.got.blob.by].cls = q.cls
         /\ q.key = Base => q.node \in parted
    /\ q.pc = "store" =>
         q.out \in PageType /\ q.out.by = r /\ q.key = <<q.gen, q.cls>>
    /\ q.pc = "served" /\ Varying(q.out) /\ q.node \notin parted =>
         req[q.out.by].cls = q.cls

(* A page that varies is under a key of its class, in L2 and in L1; in L1   *)
(* also under the base key where the node was parted.                       *)
CellSuits(n, k) ==
    Varying(l1[n][k]) =>
      IF k = Base THEN n \in parted ELSE req[l1[n][k].by].cls = k[2]

L2Suits(k) == Varying(l2[k]) => k # Base /\ req[l2[k].by].cls = k[2]

PagesSuit ==
    /\ \A r \in Requests : RequestSuits(r)
    /\ \A n \in Nodes, k \in Keys : CellSuits(n, k)
    /\ \A k \in Keys : L2Suits(k)
    /\ purge.pc = "bump" => purge.found # None

Who == \A r \in Requests : req'[r].cls = req[r].cls /\ req'[r].node = req[r].node

(* A request that a step leaves where it is.                                *)
Stays(r) ==
    /\ req'[r].pc = req[r].pc /\ req'[r].key = req[r].key
    /\ req'[r].gen = req[r].gen /\ req'[r].l2gen = req[r].l2gen
    /\ req'[r].got = req[r].got /\ req'[r].out = req[r].out

(* The marker of r's node is still there, or its going is on record.        *)
Minded(r) ==
    req[r].pc \in Listening /\ req[r].key # Base =>
      \/ marker'[req[r].node] # None \/ marker'[req[r].node] = marker[req[r].node]
      \/ req[r].node \in parted'

LEMMA StayingSuits ==
    ASSUME TypeOK, NEW r \in Requests, RequestSuits(r), Who, Stays(r), Minded(r),
           parted \subseteq parted'
    PROVE  RequestSuits(r)'
<1>1. /\ req'[r].cls = req[r].cls /\ req'[r].node = req[r].node
      /\ req'[r].pc = req[r].pc /\ req'[r].key = req[r].key
      /\ req'[r].gen = req[r].gen /\ req'[r].l2gen = req[r].l2gen
      /\ req'[r].got = req[r].got /\ req'[r].out = req[r].out
  BY DEF Who, Stays
<1>2. req[r].got.blob \in Blobs /\ req[r].out \in Blobs
  BY DEF TypeOK, ReqType
<1>3. /\ Varying(req[r].got.blob) => req[r].got.blob.by \in Requests
      /\ Varying(req[r].out) => req[r].out.by \in Requests
  BY <1>2, BlobFacts DEF Varying
<1>4. /\ Varying(req[r].got.blob) =>
           req'[req[r].got.blob.by].cls = req[req[r].got.blob.by].cls
      /\ Varying(req[r].out) => req'[req[r].out.by].cls = req[req[r].out.by].cls
  BY <1>3 DEF Who
<1> QED  BY <1>1, <1>4 DEF RequestSuits, Minded, Varying

LEMMA CellsKept ==
    ASSUME TypeOK, PagesSuit, Who, parted \subseteq parted'
    PROVE  /\ \A n \in Nodes, k \in Keys :
                l1'[n][k] \in {l1[n][k], None} => CellSuits(n, k)'
           /\ \A k \in Keys : l2'[k] \in {l2[k], None} => L2Suits(k)'
<1>1. None.kind = "none"
  BY BlobFacts
<1>2. \A n \in Nodes, k \in Keys : /\ l1[n][k] \in Blobs
                                   /\ Varying(l1[n][k]) => l1[n][k].by \in Requests
  BY BlobFacts DEF TypeOK, Varying
<1>3. \A k \in Keys : /\ l2[k] \in Blobs
                      /\ Varying(l2[k]) => l2[k].by \in Requests
  BY BlobFacts DEF TypeOK, Varying
<1>4. ASSUME NEW n \in Nodes, NEW k \in Keys, l1'[n][k] \in {l1[n][k], None}
      PROVE  CellSuits(n, k)'
  <2>1. CellSuits(n, k)
    BY DEF PagesSuit
  <2>2. Varying(l1[n][k]) => req'[l1[n][k].by].cls = req[l1[n][k].by].cls
    BY <1>2 DEF Who
  <2> QED  BY <1>1, <1>4, <2>1, <2>2 DEF CellSuits, Varying
<1>5. ASSUME NEW k \in Keys, l2'[k] \in {l2[k], None}
      PROVE  L2Suits(k)'
  <2>1. L2Suits(k)
    BY DEF PagesSuit
  <2>2. Varying(l2[k]) => req'[l2[k].by].cls = req[l2[k].by].cls
    BY <1>3 DEF Who
  <2> QED  BY <1>1, <1>5, <2>1, <2>2 DEF L2Suits, Varying
<1> QED  BY <1>4, <1>5

(* A step of one request is sound when that request, the cells it has       *)
(* written and the others' markers are.                                     *)
LEMMA RequestStepSuits ==
    ASSUME TypeOK, PagesSuit, NEW r \in Requests, NEW d, Becomes(r, d),
           RequestSuits(r)', parted \subseteq parted',
           \A q \in Requests \ {r} : Minded(q),
           \A n \in Nodes, k \in Keys :
             l1'[n][k] \in {l1[n][k], None} \/ CellSuits(n, k)',
           \A k \in Keys : l2'[k] \in {l2[k], None} \/ L2Suits(k)',
           purge'.pc = purge.pc, purge'.found = purge.found
    PROVE  PagesSuit'
<1>1. Who
  BY Requested DEF Who
<1>2. ASSUME NEW q \in Requests PROVE RequestSuits(q)'
  <2>1. CASE q = r
    BY <2>1
  <2>2. CASE q # r
    <3>1. Stays(q) /\ Minded(q) /\ RequestSuits(q)
      BY <2>2, Requested DEF Stays, PagesSuit
    <3> QED  BY <1>1, <3>1, StayingSuits
  <2> QED  BY <2>1, <2>2
<1>3. \A n \in Nodes, k \in Keys : CellSuits(n, k)'
  BY <1>1, CellsKept
<1>4. \A k \in Keys : L2Suits(k)'
  BY <1>1, CellsKept
<1> QED  BY <1>2, <1>3, <1>4 DEF PagesSuit

(* The same of the request that r becomes, in terms of the classes before.  *)
Becoming(r, d) ==
    /\ d.pc # "idle"
    /\ d.key # Base => d.key[2] = d.cls
    /\ d.pc \in Listening /\ d.key # Base =>
         marker'[d.node] # None \/ d.l2gen >= 0 \/ d.node \in parted'
    /\ Varying(d.got.blob) =>
         /\ req[d.got.blob.by].cls = d.cls
         /\ d.key = Base => d.node \in parted'
    /\ d.pc = "store" =>
         d.out \in PageType /\ d.out.by = r /\ d.key = <<d.gen, d.cls>>
    /\ d.pc = "served" /\ Varying(d.out) /\ d.node \notin parted' =>
         req[d.out.by].cls = d.cls

LEMMA BecomingSuits ==
    ASSUME TypeOK, NEW r \in Requests, NEW d, Becomes(r, d), Becoming(r, d)
    PROVE  RequestSuits(r)'
<1>1. d \in ReqType /\ req'[r] = d /\ Who
  BY Requested DEF Becomes, Who
<1>2. d.got.blob \in Blobs /\ d.out \in Blobs
  BY <1>1 DEF ReqType
<1>3. /\ Varying(d.got.blob) => d.got.blob.by \in Requests
      /\ Varying(d.out) => d.out.by \in Requests
  BY <1>2, BlobFacts DEF Varying
<1>4. /\ Varying(d.got.blob) => req'[d.got.blob.by].cls = req[d.got.blob.by].cls
      /\ Varying(d.out) => req'[d.out.by].cls = req[d.out.by].cls
  BY <1>1, <1>3 DEF Who
<1> QED  BY <1>1, <1>4 DEF RequestSuits, Becoming, Varying

(* What is over asks for nothing.                                           *)
LEMMA OverSuits ==
    ASSUME NEW r \in Requests, NEW d, NEW q,
           IsDone(d) \/ (IsServed(d, q, d.out)
              /\ (Varying(d.out) /\ d.node \notin parted' => req[d.out.by].cls = d.cls))
    PROVE  Becoming(r, d)
<1>1. ~Varying(NoBlob.blob)
  BY BlobFacts DEF NoBlob, Varying
<1>2. d.key = Base /\ d.got = NoBlob /\ d.pc \in {"served", "done"}
      /\ (d.pc = "served" /\ Varying(d.out) /\ d.node \notin parted'
          => req[d.out.by].cls = d.cls)
  BY DEF IsDone, IsServed, Over
<1> QED  BY <1>1, <1>2 DEF Becoming

(* What a request finds in L1 under a key of its own class is for it.       *)
LEMMA HereSuits ==
    ASSUME TypeOK, PagesSuit, NEW r \in Requests, NEW k \in Keys,
           k # Base => k[2] = req[r].cls
    PROVE  LET b == l1[req[r].node][k] IN
           Varying(b) /\ req[r].node \notin parted => req[b.by].cls = req[r].cls
<1>1. req[r].node \in Nodes
  BY HereTyped
<1>2. CellSuits(req[r].node, k)
  BY <1>1 DEF PagesSuit
<1> QED  BY <1>2 DEF CellSuits

LEMMA LookupSuits ==
    ASSUME TypeOK, PagesSuit, NEW r \in Requests, Lookup(r)
    PROVE  PagesSuit'
<1>1. UNCHANGED <<l1, l2, marker, parted, purge>>
  BY DEF Lookup, shm, remote, hist
<1>2. PICK q \in ReqType : q = req[r]
  BY DEF TypeOK
<1>3. RequestSuits(r)
  BY DEF PagesSuit
<1>4. PICK o \in ReqType : o = Resolved(r)
  BY ResolvedFacts
<1>5. o.node = q.node /\ o.cls = q.cls /\ Alike(o, q)
  BY <1>2, <1>4, ResolvedFacts
<1>6. /\ o.key # Base => o.key[2] = q.cls
      /\ o.key # Base => marker[q.node] # None \/ q.l2gen >= 0
      /\ o.key = Base => marker[q.node] = None /\ ~(q.l2gen >= 0)
  <2>1. /\ marker[q.node] \in MarkerType /\ q.cls \in Classes
        /\ q.l2gen \in -1..Gens - 1
    BY <1>2 DEF TypeOK, ReqType
  <2>2. CASE marker[q.node] # None
    <3>1. marker[q.node].gen \in 0..Gens - 1
      BY <2>1, <2>2, BlobFacts
    <3>2. o.key = <<marker[q.node].gen, q.cls>>
      BY <1>2, <1>4, <2>2, ResolvedFacts
    <3>3. o.key # Base /\ o.key[2] = q.cls
      BY <2>1, <3>1, <3>2, KeyFacts
    <3> QED  BY <2>2, <3>3
  <2>3. CASE marker[q.node] = None /\ q.l2gen >= 0
    <3>1. q.l2gen \in 0..Gens - 1
      BY <2>1, <2>3, VaryMarkersAssumption
    <3>2. o.key = <<q.l2gen, q.cls>>
      BY <1>2, <1>4, <2>3, ResolvedFacts
    <3>3. o.key # Base /\ o.key[2] = q.cls
      BY <2>1, <3>1, <3>2, KeyFacts
    <3> QED  BY <2>3, <3>3
  <2>4. CASE marker[q.node] = None /\ ~(q.l2gen >= 0)
    <3>1. o.key = Base
      BY <1>2, <1>4, <2>4, ResolvedFacts
    <3> QED  BY <2>4, <3>1
  <2> QED  BY <2>2, <2>3, <2>4
<1>7. PICK d \in ReqType :
        /\ Becomes(r, d)
        /\ \/ IsServed(d, q, l1[q.node][o.key])
           \/ /\ d.pc \in {"l2", "ask"} /\ Alike(d, q) /\ d.key = o.key
  BY <1>2, <1>4, LookupEffect
<1>8. d.node = q.node /\ d.cls = q.cls
  BY <1>2, <1>7 DEF Becomes
<1>9. Becoming(r, d)
  <2>1. CASE IsServed(d, q, l1[q.node][o.key])
    <3>1. o.key \in Keys
      BY <1>4 DEF ReqType
    <3>2. Varying(l1[q.node][o.key]) /\ q.node \notin parted
            => req[l1[q.node][o.key].by].cls = q.cls
      BY <1>2, <1>6, <3>1, HereSuits
    <3>3. d.out = l1[q.node][o.key]
      BY <2>1 DEF IsServed
    <3> QED  BY <1>1, <1>8, <2>1, <3>2, <3>3, OverSuits
  <2>2. CASE d.pc \in {"l2", "ask"} /\ Alike(d, q) /\ d.key = o.key
    <3>1. /\ q.pc = "lookup" /\ d.got = q.got /\ d.l2gen = q.l2gen
      BY <1>2, <2>2 DEF Lookup, Alike
    <3>2. Varying(q.got.blob) => req[q.got.blob.by].cls = q.cls
      BY <1>2, <1>3 DEF RequestSuits
    <3>3. Varying(q.got.blob) /\ o.key = Base => q.node \in parted
      BY <1>2, <1>3, <1>6, <3>1 DEF RequestSuits, Listening
    <3> QED  BY <1>1, <1>6, <1>8, <2>2, <3>1, <3>2, <3>3 DEF Becoming
  <2> QED  BY <1>7, <2>1, <2>2
<1>10. \A x \in Requests : Minded(x)
  BY <1>1 DEF Minded
<1> QED  BY <1>1, <1>7, <1>9, <1>10, BecomingSuits, RequestStepSuits

(* A step of r that changes nothing but r.                                  *)
LEMMA QuietSuits ==
    ASSUME TypeOK, PagesSuit, NEW r \in Requests, NEW d, Becomes(r, d),
           Becoming(r, d), UNCHANGED <<l1, l2, marker, parted, purge>>
    PROVE  PagesSuit'
<1>1. \A x \in Requests : Minded(x)
  BY DEF Minded
<1> QED  BY <1>1, BecomingSuits, RequestStepSuits

LEMMA QuietlySuits ==
    ASSUME TypeOK, PagesSuit, NEW r \in Requests,
           Start(r) \/ Ask(r) \/ Answer(r) \/ Miss(r) \/ NotStored(r)
    PROVE  PagesSuit'
<1>1. UNCHANGED <<l1, l2, marker, parted, purge>>
  BY DEF Start, Ask, AskMarker, AskPage, Answer, Miss, NotStored, shm, remote, hist
<1>2. PICK q \in ReqType : q = req[r]
  BY DEF TypeOK
<1>3. /\ q.key # Base => q.key[2] = q.cls
      /\ q.pc \in Listening /\ q.key # Base =>
           marker[q.node] # None \/ q.l2gen >= 0 \/ q.node \in parted
      /\ Varying(q.got.blob) =>
           /\ req[q.got.blob.by].cls = q.cls
           /\ q.key = Base => q.node \in parted
  BY <1>2 DEF PagesSuit, RequestSuits
<1>4. ~Varying(NoBlob.blob)
  BY BlobFacts DEF NoBlob, Varying
<1>5. CASE Start(r)
  <2>1. PICK d \in ReqType :
          Becomes(r, d) /\ d.pc = "lookup" /\ d.key = q.key /\ d.got = q.got
    BY <1>2, <1>5, StartEffect
  <2>2. d.node = q.node /\ d.cls = q.cls
    BY <1>2, <2>1 DEF Becomes
  <2>3. Becoming(r, d)
    <3>1. q.key = Base
      BY <1>2, <1>5 DEF PagesSuit, RequestSuits, Start
    <3> QED  BY <1>1, <1>3, <2>1, <2>2, <3>1 DEF Becoming
  <2> QED  BY <1>1, <2>1, <2>3, QuietSuits
<1>6. CASE Ask(r)
  <2>1. PICK d \in ReqType :
          /\ Becomes(r, d) /\ d.pc \in {"ask", "marker", "object", "l2 result"}
          /\ d.key = q.key /\ d.l2gen = q.l2gen /\ d.got = q.got
    BY <1>2, <1>6, AskEffect DEF Asks
  <2>2. d.node = q.node /\ d.cls = q.cls /\ q.pc = "ask"
    BY <1>2, <1>6, <2>1 DEF Becomes, Ask, AskMarker, AskPage
  <2>3. Becoming(r, d)
    BY <1>1, <1>3, <2>1, <2>2 DEF Becoming, Listening
  <2> QED  BY <1>1, <2>1, <2>3, QuietSuits
<1>7. CASE Answer(r)
  <2>1. PICK d \in ReqType :
          /\ Becomes(r, d) /\ d.pc = "lookup" /\ d.key = q.key
          /\ d.l2gen = q.l2gen
          /\ d.got.blob = (IF q.pc = "marker" THEN l2marker ELSE l2[q.key])
             \/ d.got.blob = q.got.blob
    BY <1>2, <1>7, AnswerEffect DEF There
  <2>2. d.node = q.node /\ d.cls = q.cls /\ q.pc \in {"marker", "object"}
    BY <1>2, <1>7, <2>1 DEF Becomes, Answer
  <2>3. Varying(d.got.blob) =>
           /\ req[d.got.blob.by].cls = q.cls
           /\ q.key = Base => q.node \in parted
    <3>1. CASE d.got.blob = q.got.blob
      BY <1>3, <3>1
    <3>2. CASE q.pc = "marker" /\ d.got.blob = l2marker
      BY <3>2, BlobFacts DEF TypeOK, Varying
    <3>3. CASE d.got.blob = l2[q.key]
      <4>1. q.key \in Keys
        BY <1>2 DEF ReqType
      <4>2. L2Suits(q.key)
        BY <4>1 DEF PagesSuit
      <4> QED  BY <1>3, <3>3, <4>2 DEF L2Suits
    <3> QED  BY <2>1, <2>2, <3>1, <3>2, <3>3
  <2>4. Becoming(r, d)
    BY <1>1, <1>3, <2>1, <2>2, <2>3 DEF Becoming, Listening
  <2> QED  BY <1>1, <2>1, <2>4, QuietSuits
<1>8. CASE Miss(r)
  <2>1. PICK d \in ReqType :
          /\ Becomes(r, d)
          /\ \/ IsServed(d, q, l1[q.node][q.key])
             \/ d.pc = "origin" /\ d.got = NoBlob /\ d.key = q.key
    BY <1>2, <1>8, MissEffect
  <2>2. d.node = q.node /\ d.cls = q.cls
    BY <1>2, <2>1 DEF Becomes
  <2>3. CASE IsServed(d, q, l1[q.node][q.key])
    <3>1. q.key \in Keys
      BY <1>2 DEF ReqType
    <3>2. Varying(l1[q.node][q.key]) /\ q.node \notin parted
            => req[l1[q.node][q.key].by].cls = q.cls
      BY <1>2, <1>3, <3>1, HereSuits
    <3>3. d.out = l1[q.node][q.key]
      BY <2>3 DEF IsServed
    <3>4. Becoming(r, d)
      BY <1>1, <2>2, <2>3, <3>2, <3>3, OverSuits
    <3> QED  BY <1>1, <2>1, <3>4, QuietSuits
  <2>4. CASE d.pc = "origin" /\ d.got = NoBlob /\ d.key = q.key
    <3>1. Becoming(r, d)
      BY <1>3, <1>4, <2>2, <2>4 DEF Becoming, Listening
    <3> QED  BY <1>1, <2>1, <3>1, QuietSuits
  <2> QED  BY <2>1, <2>3, <2>4
<1>9. CASE NotStored(r)
  <2>1. req' = [req EXCEPT ![r] = Done(req[r])]
    BY <1>9 DEF NotStored, TypeOK
  <2>2. PICK d \in ReqType : Becomes(r, d) /\ IsDone(d)
    BY <2>1, DoneEffect
  <2>3. Becoming(r, d)
    BY <2>2, OverSuits
  <2> QED  BY <1>1, <2>2, <2>3, QuietSuits
<1> QED  BY <1>2, <1>5, <1>6, <1>7, <1>8, <1>9

LEMMA ConsumeSuits ==
    ASSUME TypeOK, PagesSuit, NEW r \in Requests, Consume(r)
    PROVE  PagesSuit'
<1>1. UNCHANGED <<l1, l2>>
  BY DEF Consume, DropAnswer, TakeAnswer, RefuseAnswer, shm
<1>2. PICK q \in ReqType : q = req[r]
  BY DEF TypeOK
<1>3. /\ q.key # Base => q.key[2] = q.cls
      /\ q.pc = "l2" /\ q.key # Base =>
           marker[q.node] # None \/ q.l2gen >= 0 \/ q.node \in parted
      /\ Varying(q.got.blob) =>
           /\ req[q.got.blob.by].cls = q.cls
           /\ q.key = Base => q.node \in parted
      /\ q.pc = "l2" /\ q.node \in Nodes /\ q.cls \in Classes
  BY <1>2 DEF PagesSuit, RequestSuits, Listening, Consume, ReqType
<1>4. ~Varying(NoBlob.blob)
  BY BlobFacts DEF NoBlob, Varying
<1>5. CASE DropAnswer(r)
  <2>1. PICK d \in ReqType :
          /\ Becomes(r, d) /\ d.pc = "ask" /\ Alike(d, q) /\ There(d, q)
    BY <1>2, <1>5, DropEffect
  <2>2. d.node = q.node /\ d.cls = q.cls /\ d.key = q.key /\ d.l2gen = q.l2gen
        /\ d.got = q.got
    BY <1>2, <2>1 DEF Becomes, Alike, There
  <2>3. UNCHANGED <<l1, l2, marker, parted, purge>>
    BY <1>1, <1>5 DEF DropAnswer, shm
  <2>4. Becoming(r, d)
    BY <1>3, <2>1, <2>2, <2>3 DEF Becoming
  <2> QED  BY <2>1, <2>3, <2>4, QuietSuits
<1>6. CASE TakeAnswer(r)
  <2>1. PICK g \in 0..Gens - 1 : g = q.got.blob.gen
    BY <1>2, <1>6, TakeEffect
  <2>2. PICK d \in ReqType :
          Becomes(r, d) /\ Settled(d, q) /\ d.l2gen = g /\ d.key = <<g, q.cls>>
    BY <1>2, <1>6, <2>1, TakeEffect
  <2>3. /\ d.node = q.node /\ d.cls = q.cls /\ d.pc = "ask" /\ d.got = NoBlob
        /\ d.key[2] = q.cls /\ d.l2gen >= 0
    BY <1>2, <1>3, <2>1, <2>2, KeyFacts, VaryMarkersAssumption DEF Becomes, Settled
  <2>4. Becoming(r, d)
    BY <1>4, <2>3 DEF Becoming
  <2>5. parted' = parted
    BY <1>6 DEF TakeAnswer
  <2>6. \A x \in Requests : Minded(x)
    <3>1. CASE \E fails \in BOOLEAN : SetMarker(q.node, g, fails)
      <4>1. PICK fails \in BOOLEAN : SetMarker(q.node, g, fails)
        BY <3>1
      <4>2. marker'[q.node] # None /\ \A m \in Nodes : m # q.node => marker'[m] = marker[m]
        BY <1>3, <2>1, <4>1, SetMarkerFacts
      <4>3. \A x \in Requests : req[x].node \in Nodes
        BY DEF TypeOK, ReqType
      <4> QED  BY <4>2, <4>3 DEF Minded
    <3>2. CASE UNCHANGED marker
      BY <3>2 DEF Minded
    <3> QED  BY <1>2, <1>6, <2>1, <3>1, <3>2 DEF TakeAnswer, shm
  <2>7. purge'.pc = purge.pc /\ purge'.found = purge.found
    BY <1>2, <1>6, WroteFacts DEF TakeAnswer
  <2> QED  BY <1>1, <2>2, <2>4, <2>5, <2>6, <2>7, BecomingSuits, RequestStepSuits
<1>7. CASE RefuseAnswer(r)
  <2>1. PICK d \in ReqType :
             /\ Becomes(r, d) /\ Settled(d, q)
             /\ IF Gone(q) THEN d.key = Base
                ELSE d.key = q.key /\ d.l2gen = q.l2gen
    BY <1>2, <1>7, RefuseEffect
  <2>2. d.node = q.node /\ d.cls = q.cls /\ d.pc = "ask" /\ d.got = NoBlob
    BY <1>2, <2>1 DEF Becomes, Settled
  <2>3. CASE Gone(q)
    <3>1. marker' = [marker EXCEPT ![q.node] = None] /\ Parted(q.node, {r})
      BY <1>2, <1>7, <2>3 DEF RefuseAnswer, Gone
    <3>2. parted \subseteq parted'
      BY <1>3, <3>1, PartedFacts
    <3>3. Becoming(r, d)
      BY <1>4, <2>1, <2>2, <2>3 DEF Becoming
    <3>4. ASSUME NEW x \in Requests \ {r} PROVE Minded(x)
      <4>1. req[x].node \in Nodes
        BY DEF TypeOK, ReqType
      <4>2. CASE req[x].node = q.node
        BY <1>3, <3>1, <4>2, PartedFacts DEF Minded, Listening
      <4>3. CASE req[x].node # q.node
        BY <3>1, <4>1, <4>3 DEF Minded, TypeOK
      <4> QED  BY <4>2, <4>3
    <3>5. purge' = purge
      BY <1>7 DEF RefuseAnswer
    <3> QED  BY <1>1, <2>1, <3>2, <3>3, <3>4, <3>5, BecomingSuits, RequestStepSuits
  <2>4. CASE ~Gone(q)
    <3>1. UNCHANGED <<marker, parted, purge>>
      BY <1>2, <1>7, <2>4 DEF RefuseAnswer, Gone
    <3>2. Becoming(r, d)
      BY <1>3, <1>4, <2>1, <2>2, <2>4, <3>1 DEF Becoming
    <3> QED  BY <1>1, <2>1, <3>1, <3>2, QuietSuits
  <2> QED  BY <2>3, <2>4
<1> QED  BY <1>5, <1>6, <1>7 DEF Consume

LEMMA PromoteSuits ==
    ASSUME TypeOK, PagesSuit, NEW r \in Requests, Promote(r)
    PROVE  PagesSuit'
<1>1. UNCHANGED <<l2, marker, parted>>
  BY DEF Promote, remote
<1>2. PICK q \in ReqType : q = req[r]
  BY DEF TypeOK
<1>3. /\ q.key # Base => q.key[2] = q.cls
      /\ Varying(q.got.blob) =>
           /\ req[q.got.blob.by].cls = q.cls
           /\ q.key = Base => q.node \in parted
      /\ q.node \in Nodes /\ q.key \in Keys /\ q.got.blob \in Blobs
  BY <1>2 DEF PagesSuit, RequestSuits, ReqType
<1>4. PICK d \in ReqType : Becomes(r, d) /\ IsServed(d, q, q.got.blob)
  BY <1>2, PromoteEffect
<1>5. Becoming(r, d)
  <2>1. d.out = q.got.blob /\ d.node = q.node /\ d.cls = q.cls
    BY <1>2, <1>4 DEF IsServed, Becomes
  <2> QED  BY <1>3, <1>4, <2>1, OverSuits
<1>6. ASSUME NEW n \in Nodes, NEW k \in Keys
      PROVE  l1'[n][k] \in {l1[n][k], None} \/ CellSuits(n, k)'
  <2>1. l1' = l1 \/ l1' = [l1 EXCEPT ![q.node][q.key] = q.got.blob]
    BY <1>2 DEF Promote
  <2>2. CASE l1'[n][k] # l1[n][k]
    <3>1. n = q.node /\ k = q.key /\ l1'[n][k] = q.got.blob
      BY <1>3, <2>1, <2>2 DEF TypeOK
    <3>2. Varying(q.got.blob) => req'[q.got.blob.by].cls = req[q.got.blob.by].cls
      BY <1>3, <1>4, BlobFacts, Requested DEF Varying
    <3> QED  BY <1>1, <1>3, <3>1, <3>2 DEF CellSuits, Varying
  <2> QED  BY <2>2
<1>7. purge'.pc = purge.pc /\ purge'.found = purge.found
  BY <1>2, WroteFacts DEF Promote
<1>8. \A x \in Requests : Minded(x)
  BY <1>1 DEF Minded
<1> QED  BY <1>1, <1>4, <1>5, <1>6, <1>7, <1>8, BecomingSuits, RequestStepSuits

LEMMA StoreSuits ==
    ASSUME TypeOK, PagesSuit, NEW r \in Requests, StorePage(r)
    PROVE  PagesSuit'
<1>1. UNCHANGED <<marker, parted>>
  BY DEF StorePage
<1>2. PICK q \in ReqType : q = req[r]
  BY DEF TypeOK
<1>3. /\ q.key # Base => q.key[2] = q.cls
      /\ Varying(q.got.blob) =>
           /\ req[q.got.blob.by].cls = q.cls
           /\ q.key = Base => q.node \in parted
      /\ q.node \in Nodes /\ q.key \in Keys /\ q.gen \in 0..Gens - 1
      /\ q.cls \in Classes
  BY <1>2 DEF PagesSuit, RequestSuits, ReqType
<1>3a. PICK d \in ReqType, varies \in BOOLEAN, kept \in BOOLEAN,
            through \in BOOLEAN : PageStored(r, d, varies, kept, through)
  BY <1>2, StorePageEffect
<1>4. LET k == StoreKey(q, varies) IN
      /\ k \in Keys /\ (varies => k = <<q.gen, q.cls>>)
      /\ Becomes(r, d)
      /\ l1' = IF kept THEN [l1 EXCEPT ![q.node][k] = Page(r, varies)] ELSE l1
      /\ l2' = IF through THEN [l2 EXCEPT ![k] = Page(r, varies)] ELSE l2
      /\ varies => ~through
      /\ IF varies THEN /\ d.pc = "store" /\ d.key = k /\ d.out = Page(r, TRUE)
                        /\ d.gen = q.gen /\ d.got = q.got
         ELSE IsDone(d)
  BY <1>2, <1>3a DEF PageStored
<1>5. PICK k \in Keys : k = StoreKey(q, varies)
  BY <1>4
<1>6. varies => (k = <<q.gen, q.cls>> /\ k # Base /\ k[2] = q.cls)
  <2>1. varies => k = <<q.gen, q.cls>>
    BY <1>5 DEF StoreKey
  <2>2. <<q.gen, q.cls>> # Base /\ <<q.gen, q.cls>>[2] = q.cls
    BY <1>3, KeyFacts
  <2> QED  BY <2>1, <2>2
<1>7. PICK page \in PageType : page = Page(r, varies)
  BY <1>4, Made
<1>8. page.by = r /\ page.varies = varies
  BY <1>4, <1>7, Made
<1>9. Becoming(r, d)
  <2>1. CASE varies
    <3>1. d.node = q.node /\ d.cls = q.cls
      BY <1>2, <1>4 DEF Becomes
    <3>2. /\ d.pc = "store" /\ d.key = k /\ d.gen = q.gen /\ d.got = q.got
          /\ d.out \in PageType /\ d.out.by = r
      BY <1>4, <1>5, <2>1, Made
    <3> QED  BY <1>3, <1>6, <2>1, <3>1, <3>2 DEF Becoming, Listening
  <2>2. CASE ~varies
    BY <1>4, <2>2, OverSuits
  <2> QED  BY <2>1, <2>2
<1>10. req'[r].cls = q.cls /\ page.by \in Requests
  BY <1>2, <1>4, <1>8, Requested
<1>11. ASSUME NEW n \in Nodes, NEW c \in Keys
       PROVE  l1'[n][c] \in {l1[n][c], None} \/ CellSuits(n, c)'
  <2>1. l1' = l1 \/ l1' = [l1 EXCEPT ![q.node][k] = page]
    BY <1>4, <1>5, <1>7
  <2>2. CASE l1'[n][c] # l1[n][c]
    <3>1. n = q.node /\ c = k /\ l1'[n][c] = page
      BY <1>3, <2>1, <2>2 DEF TypeOK
    <3> QED  BY <1>6, <1>8, <1>10, <3>1 DEF CellSuits, Varying
  <2> QED  BY <2>2
<1>12. ASSUME NEW c \in Keys
       PROVE  l2'[c] \in {l2[c], None} \/ L2Suits(c)'
  <2>1. l2' = l2 \/ (l2' = [l2 EXCEPT ![k] = page] /\ ~varies)
    BY <1>4, <1>5, <1>7
  <2>2. CASE l2'[c] # l2[c]
    <3>1. l2'[c] = page /\ ~varies
      BY <2>1, <2>2 DEF TypeOK
    <3> QED  BY <1>8, <3>1 DEF L2Suits, Varying
  <2> QED  BY <2>2
<1>13. purge'.pc = purge.pc /\ purge'.found = purge.found
  BY <1>2, WroteFacts DEF StorePage
<1>14. \A x \in Requests : Minded(x)
  BY <1>1 DEF Minded
<1> QED  BY <1>1, <1>4, <1>9, <1>11, <1>12, <1>13, <1>14, BecomingSuits,
            RequestStepSuits

LEMMA StoredSuits ==
    ASSUME TypeOK, PagesSuit, NEW r \in Requests, StoreMarker(r) \/ Rollback(r)
    PROVE  PagesSuit'
<1>1. PICK q \in ReqType : q = req[r]
  BY DEF TypeOK
<1>2. /\ q.out \in PageType /\ q.out.by = r /\ q.key = <<q.gen, q.cls>>
      /\ q.node \in Nodes /\ q.key \in Keys /\ q.gen \in 0..Gens - 1
      /\ q.cls \in Classes
  BY <1>1 DEF PagesSuit, RequestSuits, ReqType, StoreMarker, Rollback
<1>3. q.key # Base /\ q.key[2] = q.cls
  BY <1>2, KeyFacts
<1>4. PICK d \in ReqType : Becomes(r, d) /\ IsDone(d)
  <2>1. req' = [req EXCEPT ![r] = Done(req[r])]
    BY DEF StoreMarker, Rollback
  <2> QED  BY <2>1, DoneEffect
<1>5. Becoming(r, d)
  BY <1>4, OverSuits
<1>6. parted' = parted
  BY DEF StoreMarker, Rollback, hist
<1>7. \A x \in Requests : Minded(x)
  <2>1. CASE StoreMarker(r)
    <3>1. PICK fails \in BOOLEAN : SetMarker(q.node, q.gen, fails)
      <4>1. PICK failed \in SUBSET {"marker", "page"} :
              SetMarker(q.node, q.gen, "marker" \in failed)
        BY <1>1, <2>1 DEF StoreMarker
      <4>2. ("marker" \in failed) \in BOOLEAN
        OBVIOUS
      <4> QED  BY <4>1, <4>2
    <3>2. marker'[q.node] # None /\ \A m \in Nodes : m # q.node => marker'[m] = marker[m]
      BY <1>2, <3>1, SetMarkerFacts
    <3>3. \A x \in Requests : req[x].node \in Nodes
      BY DEF TypeOK, ReqType
    <3> QED  BY <3>2, <3>3 DEF Minded
  <2>2. CASE Rollback(r)
    BY <2>2 DEF Rollback, Minded
  <2> QED  BY <2>1, <2>2
<1>8. ASSUME NEW n \in Nodes, NEW c \in Keys
      PROVE  l1'[n][c] \in {l1[n][c], None}
  <2>1. l1' = l1 \/ l1' = [l1 EXCEPT ![q.node][q.key] = None]
    BY <1>1 DEF StoreMarker, Rollback
  <2> QED  BY <2>1 DEF TypeOK
<1>9. ASSUME NEW c \in Keys
      PROVE  l2'[c] \in {l2[c], None} \/ L2Suits(c)'
  <2>1. l2' = l2 \/ l2' = [l2 EXCEPT ![q.key] = q.out]
    BY <1>1 DEF StoreMarker, Rollback, remote
  <2>2. CASE l2'[c] # l2[c]
    <3>1. c = q.key /\ l2'[c] = q.out
      BY <2>1, <2>2 DEF TypeOK
    <3>2. req'[r].cls = q.cls
      BY <1>1, <1>4, Requested
    <3> QED  BY <1>2, <1>3, <3>1, <3>2 DEF L2Suits
  <2> QED  BY <2>2
<1>10. purge'.pc = purge.pc /\ purge'.found = purge.found
  BY <1>1, WroteFacts DEF StoreMarker, Rollback
<1> QED  BY <1>4, <1>5, <1>6, <1>7, <1>8, <1>9, <1>10, BecomingSuits,
            RequestStepSuits

(* A step that moves no request: L1 and L2 lose pages, markers go on record. *)
LEMMA OtherSuits ==
    ASSUME TypeOK, PagesSuit, req' \in {req, Overtaken},
           parted \subseteq parted', \A r \in Requests : Minded(r),
           \A n \in Nodes, k \in Keys : l1'[n][k] \in {l1[n][k], None},
           \A k \in Keys : l2'[k] \in {l2[k], None},
           purge'.pc = "bump" => purge'.found # None
    PROVE  PagesSuit'
<1>1. Who /\ \A r \in Requests : Stays(r)
  BY OvertakenFacts DEF Who, Stays, There
<1>2. \A r \in Requests : RequestSuits(r)'
  BY <1>1, StayingSuits DEF PagesSuit
<1>3. \A n \in Nodes, k \in Keys : CellSuits(n, k)'
  BY <1>1, CellsKept
<1>4. \A k \in Keys : L2Suits(k)'
  BY <1>1, CellsKept
<1> QED  BY <1>2, <1>3, <1>4 DEF PagesSuit

LEMMA PurgeSuits ==
    ASSUME TypeOK, PagesSuit,
           (\E n \in Purgers : PurgeBase(n)) \/ PurgeMarker \/ PurgeWalk
           \/ PurgeRead \/ PurgeBump \/ PurgeFails
    PROVE  PagesSuit'
<1>1. /\ purge.node \in Nodes /\ purge.found \in MarkerType
      /\ marker[purge.node] \in MarkerType /\ Purgers \subseteq Nodes
      /\ \A r \in Requests : req[r].node \in Nodes
  BY VaryMarkersAssumption DEF TypeOK, ReqType
<1>2. ASSUME NEW n \in Purgers, PurgeBase(n) PROVE PagesSuit'
  <2>1. UNCHANGED <<marker, parted>> /\ req' = Overtaken
    BY <1>2 DEF PurgeBase
  <2>2. \A r \in Requests : Minded(r)
    BY <2>1 DEF Minded
  <2>3. \A m \in Nodes, k \in Keys : l1'[m][k] \in {l1[m][k], None}
    BY <1>2 DEF PurgeBase, TypeOK
  <2>4. \A k \in Keys : l2'[k] \in {l2[k], None}
    BY <1>2 DEF PurgeBase, TypeOK
  <2>5. purge'.pc # "bump"
    <3>1. \/ purge' = purge /\ purge.pc = "idle"
          \/ purge' = [NoPurge EXCEPT !.pc = "read", !.node = n]
      BY <1>2 DEF PurgeBase
    <3> QED  BY <1>1, <3>1, PurgeFacts
  <2> QED  BY <2>1, <2>2, <2>3, <2>4, <2>5, OtherSuits
<1>3. CASE PurgeMarker
  <2>1. /\ req' = req /\ Parted(purge.node, {})
        /\ marker' = [marker EXCEPT ![purge.node] = None]
        /\ UNCHANGED <<l1, l2>>
    BY <1>3, MarkerPurged
  <2>2. parted \subseteq parted'
    BY <1>1, <2>1, PartedFacts
  <2>3. ASSUME NEW r \in Requests PROVE Minded(r)
    <3>1. CASE req[r].node = purge.node
      BY <1>1, <2>1, <3>1, PartedFacts DEF Minded, Listening
    <3>2. CASE req[r].node # purge.node
      BY <1>1, <2>1, <3>2 DEF Minded, TypeOK
    <3> QED  BY <3>1, <3>2
  <2>4. purge'.pc # "bump"
    BY <1>3, MarkerPurged, PurgeFacts
  <2> QED  BY <2>1, <2>2, <2>3, <2>4, OtherSuits
<1>7. CASE PurgeWalk
  <2>1. UNCHANGED <<marker, parted, req>> /\ purge'.pc # "bump"
    BY <1>7, WalkEffect, PurgeFacts
  <2>2. \A r \in Requests : Minded(r)
    BY <2>1 DEF Minded
  <2> QED  BY <1>7, <2>1, <2>2, WalkEffect, OtherSuits
<1>4. CASE PurgeRead
  <2>1. UNCHANGED <<marker, parted, l1, l2>> /\ req' \in {req, Overtaken}
    BY <1>4 DEF PurgeRead, shm, remote
  <2>2. \A r \in Requests : Minded(r)
    BY <2>1 DEF Minded
  <2>3. purge'.pc = "bump" => purge'.found # None
    BY <1>1, <1>4, PurgeFacts DEF PurgeRead
  <2> QED  BY <2>1, <2>2, <2>3, OtherSuits
<1>5. CASE PurgeBump
  <2>1. purge.found # None
    BY <1>5 DEF PurgeBump, PagesSuit
  <2>2. PICK g \in 0..Gens - 1 : g = NextGen(purge.found.gen)
    <3>1. purge.found.gen \in 0..Gens - 1
      BY <1>1, <2>1, BlobFacts
    <3> QED  BY <3>1, VaryMarkersAssumption DEF NextGen
  <2>3. PICK fails \in BOOLEAN : SetMarker(purge.node, g, fails)
    BY <1>5, <2>2 DEF PurgeBump
  <2>4. UNCHANGED <<l1, l2, parted, req>> /\ purge' = NoPurge
    BY <1>5 DEF PurgeBump
  <2>5. \A r \in Requests : Minded(r)
    <3>1. marker'[purge.node] # None
          /\ \A m \in Nodes : m # purge.node => marker'[m] = marker[m]
      BY <1>1, <2>2, <2>3, SetMarkerFacts
    <3> QED  BY <1>1, <3>1 DEF Minded
  <2>6. purge'.pc # "bump"
    BY <2>4, PurgeFacts
  <2> QED  BY <2>4, <2>5, <2>6, OtherSuits
<1>6. CASE PurgeFails
  <2>1. UNCHANGED <<marker, parted, l1, l2, req>> /\ purge' = NoPurge
    BY <1>6 DEF PurgeFails, shm, remote, hist
  <2>2. \A r \in Requests : Minded(r)
    BY <2>1 DEF Minded
  <2> QED  BY <2>1, <2>2, PurgeFacts, OtherSuits
<1> QED  BY <1>2, <1>3, <1>4, <1>5, <1>6, <1>7

LEMMA SurroundingSuits ==
    ASSUME TypeOK, PagesSuit, Surroundings
    PROVE  PagesSuit'
<1>1. \A r \in Requests : req[r].node \in Nodes
  BY DEF TypeOK, ReqType
<1>2. req' = req /\ purge' = purge
  BY DEF Surroundings, Tick, L2Forgets, EvictMarker, EvictPage, MemoEnds
<1>3. CASE Tick \/ L2Forgets \/ \E n \in Nodes : MemoEnds(n)
  <2>1. UNCHANGED <<l1, l2, marker, parted>>
    BY <1>3 DEF Tick, L2Forgets, MemoEnds, shm, remote, hist
  <2>2. \A r \in Requests : Minded(r)
    BY <2>1 DEF Minded
  <2> QED  BY <1>2, <2>1, <2>2, OtherSuits DEF PagesSuit
<1>4. ASSUME NEW n \in Nodes, EvictMarker(n) PROVE PagesSuit'
  <2>1. /\ UNCHANGED <<l1, l2>> /\ Parted(n, {})
        /\ marker' = [marker EXCEPT ![n] = None]
    BY <1>4 DEF EvictMarker, remote
  <2>2. parted \subseteq parted'
    BY <2>1, PartedFacts
  <2>3. ASSUME NEW r \in Requests PROVE Minded(r)
    <3>1. CASE req[r].node = n
      BY <2>1, <3>1, PartedFacts DEF Minded, Listening
    <3>2. CASE req[r].node # n
      BY <1>1, <2>1, <3>2 DEF Minded, TypeOK
    <3> QED  BY <3>1, <3>2
  <2> QED  BY <1>2, <2>1, <2>2, <2>3, OtherSuits DEF PagesSuit
<1>5. ASSUME NEW n \in Nodes, EvictPage(n) PROVE PagesSuit'
  <2>1. UNCHANGED <<l2, marker, parted>>
    BY <1>5 DEF EvictPage, remote, hist
  <2>2. \A m \in Nodes, k \in Keys : l1'[m][k] \in {l1[m][k], None}
    BY <1>5 DEF EvictPage, TypeOK
  <2>3. \A r \in Requests : Minded(r)
    BY <2>1 DEF Minded
  <2> QED  BY <1>2, <2>1, <2>2, <2>3, OtherSuits DEF PagesSuit
<1> QED  BY <1>3, <1>4, <1>5 DEF Surroundings

LEMMA InitSuits == Init => PagesSuit
<1> SUFFICES ASSUME Init PROVE PagesSuit
  OBVIOUS
<1>1. ~Varying(None) /\ ~Varying(NoBlob.blob)
  BY BlobFacts DEF NoBlob, Varying
<1>2. ASSUME NEW r \in Requests PROVE RequestSuits(r)
  <2>1. PICK n \in Nodes, c \in Classes : req[r] = Idle(n, c)
    BY DEF Init
  <2> QED  BY <1>1, <2>1, IdleFacts DEF RequestSuits, Listening
<1>3. \A n \in Nodes, k \in Keys : CellSuits(n, k)
  BY <1>1 DEF Init, CellSuits
<1>4. \A k \in Keys : L2Suits(k)
  BY <1>1 DEF Init, L2Suits
<1>5. purge.pc # "bump"
  BY DEF Init, NoPurge
<1> QED  BY <1>2, <1>3, <1>4, <1>5 DEF PagesSuit

(* The steps of the specification, as the lemmas above take them apart.     *)
RequestStep(r) ==
    \/ Start(r) \/ Lookup(r) \/ Consume(r) \/ Ask(r) \/ Answer(r)
    \/ Promote(r) \/ Miss(r) \/ StorePage(r) \/ NotStored(r)
    \/ StoreMarker(r) \/ Rollback(r)

PurgeStep ==
    \/ \E n \in Purgers : PurgeBase(n)
    \/ PurgeMarker \/ PurgeWalk \/ PurgeRead \/ PurgeBump \/ PurgeFails

LEMMA Steps ==
    Next <=> (\E r \in Requests : RequestStep(r)) \/ PurgeStep \/ Surroundings
BY DEF Next, RequestStep, Ask, PurgeStep, Surroundings

LEMMA RequestSound ==
    ASSUME TypeOK, PagesSuit, NEW r \in Requests, RequestStep(r)
    PROVE  TypeOK' /\ PagesSuit'
<1>1. CASE Start(r) \/ Lookup(r) \/ Ask(r) \/ Answer(r) \/ Miss(r) \/ NotStored(r)
           \/ Rollback(r) \/ Promote(r)
  <2>1. TypeOK'
    BY <1>1, RequestTypes
  <2>2. PagesSuit'
    BY <1>1, LookupSuits, QuietlySuits, PromoteSuits, StoredSuits
  <2> QED  BY <2>1, <2>2
<1>2. CASE Consume(r)
  BY <1>2, ConsumeTypes, ConsumeSuits
<1>3. CASE StorePage(r)
  BY <1>3, StoreTypes, StoreSuits
<1>4. CASE StoreMarker(r)
  <2>1. req[r].out \in PageType
    BY <1>4 DEF StoreMarker, PagesSuit, RequestSuits
  <2> QED  BY <1>4, <2>1, StoreTypes, StoredSuits
<1> QED  BY <1>1, <1>2, <1>3, <1>4 DEF RequestStep

LEMMA PurgeSound ==
    ASSUME TypeOK, PagesSuit, PurgeStep
    PROVE  TypeOK' /\ PagesSuit'
<1>1. PurgeBump => purge.found # None
  BY DEF PurgeBump, PagesSuit
<1>2. TypeOK'
  BY <1>1, PurgeTypes DEF PurgeStep
<1>3. PagesSuit'
  BY PurgeSuits DEF PurgeStep
<1> QED  BY <1>2, <1>3

LEMMA IdleSound ==
    ASSUME TypeOK, PagesSuit, UNCHANGED vars
    PROVE  TypeOK' /\ PagesSuit'
<1>1. UNCHANGED <<deploy, time, l1, marker, memo, l2, l2marker, req, purge,
                  losses, begun, ended, holds, parted, top>>
  BY DEF vars, shm, remote, hist
<1>2. TypeOK'
  BY <1>1 DEF TypeOK
<1>3. \A r \in Requests : Minded(r)
  BY <1>1 DEF Minded
<1>4. PagesSuit'
  BY <1>1, <1>3, OtherSuits DEF PagesSuit
<1> QED  BY <1>2, <1>4

LEMMA NextSound == TypeOK /\ PagesSuit /\ [Next]_vars => TypeOK' /\ PagesSuit'
BY Steps, RequestSound, PurgeSound, SurroundingTypes, SurroundingSuits, IdleSound

LEMMA SpecSound == Spec => [](TypeOK /\ PagesSuit)
BY InitTypes, InitSuits, NextSound, PTL DEF Spec

(* Markers, pages, memos and requests keep their types.                     *)
THEOREM MarkerTypes == Spec => []TypeOK
BY SpecSound, PTL

(* A page whose response varied on the header is served only to requests of *)
(* the class it was made for, but for the nodes that lost the marker under  *)
(* a request on its way (vary_apply(), access_l2_promote_serve(),           *)
(* body_filter_store_tail()).                                               *)
THEOREM EveryPageSuits == Spec => []RightRepresentation
<1>1. TypeOK /\ PagesSuit => RightRepresentation
  BY DEF PagesSuit, RequestSuits, RightRepresentation, Pages, Varying
<1> QED  BY <1>1, SpecSound, PTL

-----------------------------------------------------------------------------
(* What a request that went to confirm a marker hears. *)

(* A confirmation on its way is known as one, and is with the backend, or   *)
(* its answer is at hand and not yet looked at, or could not be sent.       *)
Waits(q) ==
    /\ q.inflight =>
         /\ q.pc \in {"lookup", "l2"} => q.tried /\ q.got.res # "none"
         /\ q.pc \in {"ask", "marker", "object"} => q.tried
         /\ q.pc \in {"l2 result", "origin", "store", "served"} => q.unsent
    /\ q.pc = "idle" => ~q.inflight

Awaited == \A r \in Requests : Waits(req[r])

LEMMA WaitsStep ==
    ASSUME TypeOK, NEW r \in Requests, Waits(req[r]), RequestStep(r)
    PROVE  \E d \in ReqType : Becomes(r, d) /\ Waits(d)
<1>1. CASE Start(r)
  BY <1>1, StartEffect DEF Waits, Start
<1>2. CASE Lookup(r)
  <2>1. PICK d \in ReqType :
          /\ Becomes(r, d)
          /\ \/ ~d.inflight
             \/ /\ Alike(d, req[r]) /\ d.tried = req[r].tried
                /\ d.tried /\ d.got.res # "none" => d.pc = "l2"
    BY <1>2, LookupEffect
  <2>2. Waits(d)
    BY <1>2, <2>1 DEF Waits, Lookup, Alike
  <2> QED  BY <2>1, <2>2
<1>3. CASE Consume(r)
  <2>1. CASE DropAnswer(r)
    BY <2>1, DropEffect DEF Waits, Alike
  <2>2. CASE TakeAnswer(r)
    BY <2>2, TakeEffect DEF Waits, Settled
  <2>3. CASE RefuseAnswer(r)
    BY <2>3, RefuseEffect DEF Waits, Settled
  <2> QED  BY <1>3, <2>1, <2>2, <2>3 DEF Consume
<1>4. CASE Ask(r)
  <2>1. req[r].inflight => req[r].tried
    BY <1>4 DEF Waits, Ask, AskMarker, AskPage
  <2>2. PICK d \in ReqType :
          /\ Becomes(r, d) /\ Sent(d, req[r])
          /\ d.pc \in {"ask", "marker", "object", "l2 result"}
    BY <1>4, AskEffect
  <2>3. Waits(d)
    BY <2>1, <2>2 DEF Waits, Sent
  <2> QED  BY <2>2, <2>3
<1>5. CASE Answer(r)
  <2>1. PICK d \in ReqType :
          /\ Becomes(r, d) /\ d.pc = "lookup" /\ d.inflight = req[r].inflight
          /\ d.tried = req[r].tried /\ d.got.res # "none"
    BY <1>5, AnswerEffect
  <2>2. Waits(d)
    BY <1>5, <2>1 DEF Waits, Answer
  <2> QED  BY <2>1, <2>2
<1>6. CASE Promote(r) \/ Miss(r)
  <2>1. PICK d \in ReqType :
          /\ Becomes(r, d) /\ d.pc \in {"served", "origin"}
          /\ d.inflight = req[r].inflight /\ d.unsent = req[r].unsent
    BY <1>6, PromoteEffect, MissEffect DEF IsServed
  <2>2. Waits(d)
    BY <1>6, <2>1 DEF Waits, Promote, Miss
  <2> QED  BY <2>1, <2>2
<1>7. CASE StorePage(r)
  <2>1. PICK d \in ReqType :
          /\ Becomes(r, d)
          /\ \/ IsDone(d)
             \/ /\ d.pc = "store" /\ d.inflight = req[r].inflight
                /\ d.unsent = req[r].unsent
    BY <1>7, StorePageEffect DEF PageStored
  <2>2. Waits(d)
    BY <1>7, <2>1 DEF Waits, StorePage, IsDone
  <2> QED  BY <2>1, <2>2
<1>8. CASE NotStored(r) \/ StoreMarker(r) \/ Rollback(r)
  <2>1. req' = [req EXCEPT ![r] = Done(req[r])]
    BY <1>8 DEF NotStored, StoreMarker, Rollback, TypeOK
  <2> QED  BY <2>1, DoneEffect DEF Waits, IsDone
<1> QED  BY <1>1, <1>2, <1>3, <1>4, <1>5, <1>6, <1>7, <1>8 DEF RequestStep

(* A step that is no request's moves none.                                  *)
LEMMA Unmoved ==
    ASSUME PurgeStep \/ Surroundings \/ UNCHANGED vars
    PROVE  req' \in {req, Overtaken}
BY DEF PurgeStep, PurgeBase, PurgeMarker, PurgeWalk, PurgeRead, PurgeBump,
       PurgeFails, Surroundings, Tick, L2Forgets, EvictMarker, EvictPage, MemoEnds, vars

LEMMA NextAwaited == TypeOK /\ Awaited /\ [Next]_vars => Awaited'
<1> SUFFICES ASSUME TypeOK, Awaited, [Next]_vars PROVE Awaited'
  OBVIOUS
<1>1. ASSUME NEW r \in Requests, RequestStep(r) PROVE Awaited'
  <2>1. PICK d \in ReqType : Becomes(r, d) /\ Waits(d)
    BY <1>1, WaitsStep DEF Awaited
  <2> QED  BY <2>1, Requested DEF Awaited
<1>2. CASE PurgeStep \/ Surroundings \/ UNCHANGED vars
  <2>1. \A r \in Requests :
          /\ req'[r].inflight = req[r].inflight /\ req'[r].tried = req[r].tried
          /\ req'[r].pc = req[r].pc /\ req'[r].got = req[r].got
          /\ req'[r].unsent = req[r].unsent
    BY <1>2, Unmoved, OvertakenFacts
  <2> QED  BY <2>1 DEF Awaited, Waits
<1> QED  BY <1>1, <1>2, Steps

LEMMA InitAwaited == Init => Awaited
<1> SUFFICES ASSUME Init, NEW r \in Requests PROVE Waits(req[r])
  BY DEF Awaited
<1>1. PICK n \in Nodes, c \in Classes : req[r] = Idle(n, c)
  BY DEF Init
<1> QED  BY <1>1, IdleFacts DEF Waits

(* A request that went to confirm its marker is not answered before it has  *)
(* heard what L2 says, but for one that could send nothing (access_l1(),    *)
(* access_l2_marker_get(), the trigger reset at the top of the handler).    *)
THEOREM NobodyServedUnheard == Spec => []HeardBeforeServed
<1>1. Awaited => HeardBeforeServed
  BY DEF Awaited, Waits, HeardBeforeServed
<1> QED  BY <1>1, SpecSound, InitAwaited, NextAwaited, PTL DEF Spec

(* What a lookup saw of its node's marker is what the request goes by until *)
(* it has dealt with the answer at hand.                                    *)
SeesItsOwn(q) == q.pc = "l2" /\ q.seen >= 0 => q.seen = q.gen /\ ~q.miss

SeenNow == \A r \in Requests : SeesItsOwn(req[r])

LEMMA NextSeen == TypeOK /\ SeenNow /\ [Next]_vars => SeenNow'
<1> SUFFICES ASSUME TypeOK, SeenNow, [Next]_vars PROVE SeenNow'
  OBVIOUS
<1>1. ASSUME NEW r \in Requests, RequestStep(r) PROVE SeenNow'
  <2>1. PICK d \in ReqType : Becomes(r, d) /\ SeesItsOwn(d)
    <3>1. CASE Lookup(r)
      <4>1. PICK o \in ReqType : o = Resolved(r)
        BY ResolvedFacts
      <4>2. o.seen = -1 \/ (o.seen = o.gen /\ ~o.miss)
        BY <4>1, ResolvedFacts
      <4>3. PICK d \in ReqType :
              /\ Becomes(r, d)
              /\ d.pc = "served" \/ (d.gen = o.gen /\ d.miss = o.miss /\ d.seen = o.seen)
        BY <3>1, <4>1, LookupEffect DEF IsServed
      <4> QED  BY <4>2, <4>3 DEF SeesItsOwn
    <3>2. CASE ~Lookup(r)
      <4>1. \E d \in ReqType : Becomes(r, d) /\ d.pc # "l2"
        <5>1. CASE Start(r) \/ Ask(r) \/ Answer(r)
          BY <5>1, StartEffect, AskEffect, AnswerEffect
        <5>2. CASE Consume(r)
          BY <5>2, DropEffect, TakeEffect, RefuseEffect DEF Consume, Settled
        <5>3. CASE Promote(r) \/ Miss(r)
          BY <5>3, PromoteEffect, MissEffect DEF IsServed
        <5>4. CASE StorePage(r)
          BY <5>4, StorePageEffect DEF PageStored, IsDone
        <5>5. CASE NotStored(r) \/ StoreMarker(r) \/ Rollback(r)
          <6>1. req' = [req EXCEPT ![r] = Done(req[r])]
            BY <5>5 DEF NotStored, StoreMarker, Rollback, TypeOK
          <6> QED  BY <6>1, DoneEffect DEF IsDone
        <5> QED  BY <1>1, <3>2, <5>1, <5>2, <5>3, <5>4, <5>5 DEF RequestStep
      <4> QED  BY <4>1 DEF SeesItsOwn
    <3> QED  BY <3>1, <3>2
  <2> QED  BY <2>1, Requested DEF SeenNow
<1>2. CASE PurgeStep \/ Surroundings \/ UNCHANGED vars
  <2>1. \A r \in Requests :
          /\ req'[r].pc = req[r].pc /\ req'[r].seen = req[r].seen
          /\ req'[r].gen = req[r].gen /\ req'[r].miss = req[r].miss
    BY <1>2, Unmoved, OvertakenFacts DEF There
  <2> QED  BY <2>1 DEF SeenNow, SeesItsOwn
<1> QED  BY <1>1, <1>2, Steps

LEMMA InitSeen == Init => SeenNow
BY IdleFacts DEF Init, SeenNow, SeesItsOwn

LEMMA LateAnswer ==
    ASSUME TypeOK, SeenNow, NEW r \in Requests, Consume(r),
           req[r].seen >= 0, req'[r].key # Base
    PROVE  /\ req'[r].gen >= req[r].seen
           /\ marker'[req[r].node] # marker[req[r].node]
              => marker'[req[r].node].gen >= req[r].seen
<1>1. /\ req[r].seen = req[r].gen /\ ~req[r].miss
      /\ req[r].gen \in 0..Gens - 1 /\ req[r].node \in Nodes
  BY DEF SeenNow, SeesItsOwn, Consume, TypeOK, ReqType
<1>2. CASE DropAnswer(r)
  <2>1. PICK d \in ReqType : Becomes(r, d) /\ d.gen = req[r].gen
    BY <1>2, DropEffect DEF There
  <2>2. req'[r].gen = req[r].gen
    BY <2>1, Requested
  <2>3. marker' = marker
    BY <1>2 DEF DropAnswer, shm
  <2> QED  BY <1>1, <2>2, <2>3, VaryMarkersAssumption
<1>3. CASE TakeAnswer(r)
  <2>1. PICK g \in 0..Gens - 1 : g = req[r].got.blob.gen /\ req'[r].gen = g
    BY <1>3, TakeEffect, Requested
  <2>2. g >= req[r].gen
    BY <1>1, <1>3, <2>1 DEF TakeAnswer, Usable, Acceptable
  <2>3. marker' = marker \/ \E fails \in BOOLEAN : SetMarker(req[r].node, g, fails)
    BY <1>3, <2>1 DEF TakeAnswer, shm
  <2>4. marker'[req[r].node] = marker[req[r].node] \/ marker'[req[r].node].gen = g
    BY <1>1, <2>3, SetMarkerFacts
  <2> QED  BY <1>1, <2>1, <2>2, <2>4
<1>4. CASE RefuseAnswer(r)
  <2>1. ~Gone(req[r]) /\ req'[r].gen = req[r].gen
    BY <1>4, RefuseEffect, Requested
  <2>2. marker' = marker
    BY <1>4, <2>1 DEF RefuseAnswer, Gone
  <2> QED  BY <1>1, <2>1, <2>2, VaryMarkersAssumption
<1> QED  BY <1>2, <1>3, <1>4 DEF Consume

(* An answer that comes after the marker was purged or renewed puts neither *)
(* the request nor the marker it stores behind what its lookup saw          *)
(* (access_l2_marker_consume()).                                            *)
THEOREM NoLateAnswer == Spec => LateAnswerDropped
<1> DEFINE Dropped ==
      \A r \in Requests :
         /\ req[r].pc = "l2" /\ req'[r].pc = "ask"
         /\ req[r].seen >= 0 /\ req'[r].key # Base
         => /\ req'[r].gen >= req[r].seen
            /\ marker'[req[r].node] # marker[req[r].node]
               => marker'[req[r].node].gen >= req[r].seen
<1>1. ASSUME TypeOK, SeenNow, Next, NEW r \in Requests,
             req[r].pc = "l2", req'[r].pc = "ask"
      PROVE  Consume(r)
  <2>1. ASSUME NEW q \in Requests, RequestStep(q) PROVE q = r
    <3>1. \E d \in ReqType : Becomes(q, d)
      <4>1. CASE StoreMarker(q) \/ NotStored(q) \/ Rollback(q)
        <5>1. req' = [req EXCEPT ![q] = Done(req[q])]
          BY <1>1, <4>1 DEF NotStored, StoreMarker, Rollback, TypeOK
        <5> QED  BY <1>1, <5>1, DoneEffect
      <4>2. CASE Consume(q)
        BY <1>1, <4>2, DropEffect, TakeEffect, RefuseEffect DEF Consume
      <4>3. CASE ~(StoreMarker(q) \/ NotStored(q) \/ Rollback(q) \/ Consume(q))
        BY <1>1, <2>1, <4>3, StartEffect, LookupEffect, AskEffect, AnswerEffect,
           PromoteEffect, MissEffect, StorePageEffect DEF PageStored, RequestStep
      <4> QED  BY <4>1, <4>2, <4>3
    <3> QED  BY <1>1, <3>1, Requested
  <2>2. \A x \in Requests : req'[x].pc # req[x].pc => \E q \in Requests : RequestStep(q)
    BY <1>1, Steps, Unmoved, OvertakenFacts
  <2>3. RequestStep(r)
    BY <1>1, <2>1, <2>2
  <2> QED  BY <1>1, <2>3 DEF RequestStep, Start, Lookup, Ask, AskMarker,
       AskPage, Answer, Promote, Miss, StorePage, NotStored, StoreMarker,
       Rollback
<1>2. TypeOK /\ SeenNow /\ Next => Dropped
  BY <1>1, LateAnswer
<1>3. TypeOK /\ SeenNow /\ [Next]_vars => [Dropped]_vars
  BY <1>2
<1>4. LateAnswerDropped <=> [][Dropped]_vars
  BY DEF LateAnswerDropped
<1> HIDE DEF Dropped
<1> QED  BY <1>3, <1>4, SpecSound, InitSeen, NextSeen, PTL DEF Spec

-----------------------------------------------------------------------------
(* What a step of a request writes. *)

(* The steps that write to L1 or to L2, or take over a marker.              *)
Taking(r) == req[r].pc = "l2" /\ TakeAnswer(r)
Writing(r) == Promote(r) \/ StorePage(r) \/ StoreMarker(r) \/ Taking(r)

(* What every step of a request r keeps.                                    *)
Backdrop(r) ==
    /\ UNCHANGED <<deploy, begun, ended, top>>
    /\ parted \subseteq parted' /\ holds' \subseteq holds
    /\ purge'.pc = purge.pc /\ purge'.node = purge.node
    /\ purge'.found = purge.found
    /\ purge'.clean => purge.clean
    /\ Writing(r) /\ req[r].spans => holds' = {} /\ ~purge'.clean

LEMMA StepBackdrop ==
    ASSUME TypeOK, NEW r \in Requests, RequestStep(r)
    PROVE  Backdrop(r)
<1>1. req[r] \in ReqType /\ req[r].node \in Nodes /\ holds \subseteq Nodes
  BY DEF TypeOK, ReqType
<1>2. UNCHANGED <<deploy, begun, ended, top>>
  BY DEF RequestStep, Start, Lookup, Consume, Ask, AskMarker, AskPage, Answer,
         Promote, Miss, StorePage, NotStored, StoreMarker, Rollback, hist
<1>3. CASE Writing(r)
  <2>1. Wrote(req[r]) /\ parted' = parted
    BY <1>3 DEF Writing, Taking, Promote, StorePage, StoreMarker, TakeAnswer
  <2> QED  BY <1>1, <1>2, <2>1, WroteFacts DEF Backdrop
<1>4. CASE ~Writing(r)
  <2>1. purge' = purge /\ holds' \subseteq holds
    BY <1>4 DEF Writing, Taking, RequestStep, Start, Lookup, Consume, DropAnswer,
         RefuseAnswer, Ask, AskMarker, AskPage, Answer, Miss, NotStored, Rollback, hist
  <2>2. parted \subseteq parted'
    <3>1. CASE Consume(r)
      <4>1. parted' = parted \/ Parted(req[r].node, {r})
        BY <1>4, <3>1 DEF Writing, Taking, Consume, DropAnswer, RefuseAnswer
      <4> QED  BY <1>1, <4>1, PartedFacts
    <3>2. CASE ~Consume(r)
      BY <1>4, <3>2 DEF Writing, Taking, RequestStep, Start, Lookup, Ask,
           AskMarker, AskPage, Answer, Miss, NotStored, Rollback, hist
    <3> QED  BY <3>1, <3>2
  <2> QED  BY <1>2, <1>4, <2>1, <2>2 DEF Backdrop
<1> QED  BY <1>3, <1>4

(* The page that r makes.                                                   *)
Makes(r, b) == b \in PageType /\ b.epoch = req[r].epoch

LEMMA L1Writes ==
    ASSUME TypeOK, NEW r \in Requests, RequestStep(r), NEW n \in Nodes, NEW k \in Keys,
           l1'[n][k] \notin {l1[n][k], None}
    PROVE  LET q == req[r] IN
           /\ n = q.node
           /\ \/ Promote(r) /\ k = q.key /\ l1'[n][k] = q.got.blob
              \/ /\ StorePage(r) /\ Makes(r, l1'[n][k])
                 /\ k = q.key \/ k = <<q.gen, q.cls>>
<1>1. PICK q \in ReqType : q = req[r] /\ q.node \in Nodes /\ q.key \in Keys
  BY DEF TypeOK, ReqType
<1>2. l1 \in [Nodes -> [Keys -> Blobs]]
  BY DEF TypeOK
<1>3. CASE Promote(r)
  <2>1. l1' = l1 \/ l1' = [l1 EXCEPT ![q.node][q.key] = q.got.blob]
    BY <1>1, <1>3 DEF Promote
  <2>2. n = q.node /\ k = q.key /\ l1'[n][k] = q.got.blob
    BY <1>1, <1>2, <2>1
  <2> QED  BY <1>1, <1>3, <2>2
<1>4. CASE StorePage(r)
  <2>1. PICK varies \in BOOLEAN, c \in Keys :
          /\ c = StoreKey(q, varies)
          /\ l1' = l1 \/ l1' = [l1 EXCEPT ![q.node][c] = Page(r, varies)]
    BY <1>1, <1>4, StorePageEffect DEF PageStored
  <2>2. c = q.key \/ c = <<q.gen, q.cls>>
    BY <2>1 DEF StoreKey
  <2>3. PICK page \in PageType : page = Page(r, varies) /\ page.epoch = q.epoch
    BY <1>1, Made
  <2>4. n = q.node /\ k = c /\ l1'[n][k] = page
    BY <1>1, <1>2, <2>1, <2>3
  <2> QED  BY <1>1, <1>4, <2>2, <2>3, <2>4 DEF Makes
<1>5. CASE Rollback(r)
  <2>1. l1' = l1 \/ l1' = [l1 EXCEPT ![q.node][q.key] = None]
    BY <1>1, <1>5 DEF Rollback
  <2> QED  BY <1>1, <1>2, <2>1
<1>6. CASE ~(Promote(r) \/ StorePage(r) \/ Rollback(r))
  <2>1. l1' = l1
    BY <1>6 DEF RequestStep, Start, Lookup, Consume, DropAnswer, TakeAnswer,
         RefuseAnswer, Ask, AskMarker, AskPage, Answer, Miss, NotStored, StoreMarker, shm
  <2> QED  BY <2>1
<1> QED  BY <1>3, <1>4, <1>5, <1>6

LEMMA L2Writes ==
    ASSUME TypeOK, PagesSuit, NEW r \in Requests, RequestStep(r), NEW k \in Keys,
           l2'[k] \notin {l2[k], None}
    PROVE  LET q == req[r] IN
           /\ k = q.key
           /\ \/ StorePage(r) /\ Makes(r, l2'[k])
              \/ StoreMarker(r) /\ l2'[k] = q.out /\ q.pc = "store" /\ k # Base
<1>1. PICK q \in ReqType : q = req[r] /\ q.node \in Nodes /\ q.key \in Keys
  BY DEF TypeOK, ReqType
<1>2. l2 \in [Keys -> PageType \cup {None}]
  BY DEF TypeOK
<1>3. CASE StorePage(r)
  <2>1. PICK varies \in BOOLEAN, c \in Keys :
          /\ ~varies => c = q.key
          /\ l2' = l2 \/ (~varies /\ l2' = [l2 EXCEPT ![c] = Page(r, varies)])
    BY <1>1, <1>3, StorePageEffect DEF PageStored
  <2>2. PICK page \in PageType : page = Page(r, varies) /\ page.epoch = q.epoch
    BY <1>1, Made
  <2>3. k = c /\ ~varies /\ l2'[k] = page
    BY <1>2, <2>1, <2>2
  <2> QED  BY <1>1, <1>3, <2>1, <2>2, <2>3 DEF Makes
<1>4. CASE StoreMarker(r)
  <2>1. l2' = l2 \/ l2' = [l2 EXCEPT ![q.key] = q.out]
    BY <1>1, <1>4 DEF StoreMarker
  <2>2. k = q.key /\ l2'[k] = q.out
    BY <1>1, <1>2, <2>1
  <2>3. q.pc = "store" /\ q.key = <<q.gen, q.cls>>
    BY <1>1, <1>4 DEF StoreMarker, PagesSuit, RequestSuits
  <2>4. q.key # Base
    <3>1. q.gen \in 0..Gens - 1 /\ q.cls \in Classes
      BY <1>1 DEF ReqType
    <3> QED  BY <2>3, <3>1, KeyFacts
  <2> QED  BY <1>1, <1>4, <2>2, <2>3, <2>4
<1>5. CASE ~(StorePage(r) \/ StoreMarker(r))
  <2>1. l2' = l2
    BY <1>5 DEF RequestStep, Start, Lookup, Consume, Ask, AskMarker, AskPage,
                Answer, Miss, NotStored, Promote, Rollback, remote
  <2> QED  BY <2>1
<1> QED  BY <1>3, <1>4, <1>5

(* The marker that r writes has generation g.                               *)
MarkerWritten(r, g) ==
    \/ Taking(r) /\ g = req[r].got.blob.gen /\ req[r].got.blob.kind = "marker"
    \/ StoreMarker(r) /\ g = req[r].gen

LEMMA MarkerWrites ==
    ASSUME TypeOK, NEW r \in Requests, RequestStep(r)
    PROVE  \/ UNCHANGED <<marker, l2marker>>
           \/ /\ \A n \in Nodes : n # req[r].node => marker'[n] = marker[n]
              /\ marker'[req[r].node] = None /\ req[r].node \notin holds'
              /\ UNCHANGED l2marker
           \/ \E g \in 0..Gens - 1 :
                /\ MarkerWritten(r, g)
                /\ marker'[req[r].node] # None /\ marker'[req[r].node].gen = g
                /\ marker'[req[r].node].kind = "marker"
                /\ \A n \in Nodes : n # req[r].node => marker'[n] = marker[n]
                /\ \/ l2marker' = l2marker
                   \/ l2marker'.gen = g /\ l2marker'.kind = "marker"
<1>1. PICK q \in ReqType : q = req[r] /\ q.node \in Nodes /\ q.gen \in 0..Gens - 1
  BY DEF TypeOK, ReqType
<1>2. ASSUME NEW g \in 0..Gens - 1, NEW fails \in BOOLEAN, SetMarker(q.node, g, fails)
      PROVE  /\ marker'[q.node] # None /\ marker'[q.node].gen = g
             /\ marker'[q.node].kind = "marker"
             /\ \A n \in Nodes : n # q.node => marker'[n] = marker[n]
             /\ l2marker' = l2marker \/ (l2marker'.gen = g /\ l2marker'.kind = "marker")
  <2>1. Marker(g).kind = "marker" /\ Marker(g).gen = g
    BY DEF Marker
  <2> QED  BY <1>1, <1>2, <2>1, SetMarkerFacts
<1>3. CASE Taking(r)
  <2>1. PICK g \in 0..Gens - 1 : g = q.got.blob.gen /\ q.got.blob.kind = "marker"
    BY <1>1, <1>3, TakeEffect DEF Taking
  <2>2. UNCHANGED <<marker, l2marker>>
        \/ \E fails \in BOOLEAN : SetMarker(q.node, g, fails)
    BY <1>1, <1>3, <2>1 DEF Taking, TakeAnswer, shm
  <2> QED  BY <1>1, <1>2, <1>3, <2>1, <2>2 DEF MarkerWritten
<1>4. CASE StoreMarker(r)
  <2>1. PICK failed \in SUBSET {"marker", "page"} :
          SetMarker(q.node, q.gen, "marker" \in failed)
    BY <1>1, <1>4 DEF StoreMarker
  <2>2. ("marker" \in failed) \in BOOLEAN
    OBVIOUS
  <2>3. PICK fails \in BOOLEAN : SetMarker(q.node, q.gen, fails)
    BY <2>1, <2>2
  <2> QED  BY <1>1, <1>2, <1>4, <2>3 DEF MarkerWritten
<1>5. CASE RefuseAnswer(r)
  <2>1. CASE Gone(q)
    <3>1. /\ marker' = [marker EXCEPT ![q.node] = None] /\ q.node \notin holds'
          /\ UNCHANGED l2marker
      BY <1>1, <1>5, <2>1 DEF RefuseAnswer, Gone
    <3> QED  BY <1>1, <3>1 DEF TypeOK
  <2>2. CASE ~Gone(q)
    BY <1>1, <1>5, <2>2 DEF RefuseAnswer, Gone
  <2> QED  BY <2>1, <2>2
<1>6. CASE ~(Taking(r) \/ StoreMarker(r) \/ RefuseAnswer(r))
  BY <1>6 DEF Taking, RequestStep, Start, Lookup, Consume, DropAnswer, Ask,
              AskMarker, AskPage, Answer, Miss, NotStored, Promote, StorePage,
              Rollback, shm, remote
<1> QED  BY <1>3, <1>4, <1>5, <1>6

-----------------------------------------------------------------------------
(* Generations: none is above the highest there has been. *)

AtMost(b, t) == b.kind = "marker" => b.gen <= t
KeyUpTo(k, t) == k # Base => k[1] <= t

NumberedRequest(q, t) ==
    KeyUpTo(q.key, t) /\ q.gen <= t /\ q.l2gen <= t /\ AtMost(q.got.blob, t)

Numbered(t) ==
    /\ \A n \in Nodes : AtMost(marker[n], t)
    /\ AtMost(l2marker, t) /\ AtMost(purge.found, t)
    /\ \A n \in Nodes, k \in Keys : l1[n][k] # None => KeyUpTo(k, t)
    /\ \A k \in Keys : l2[k] # None => KeyUpTo(k, t)
    /\ \A r \in Requests : NumberedRequest(req[r], t)

LEMMA NumberedStep ==
    ASSUME TypeOK, NEW r \in Requests, Numbered(top), RequestStep(r)
    PROVE  \E d \in ReqType : Becomes(r, d) /\ NumberedRequest(d, top)
<1>1. PICK q \in ReqType : q = req[r] /\ q.node \in Nodes /\ q.key \in Keys
                           /\ q.gen \in 0..Gens - 1 /\ q.cls \in Classes
  BY DEF TypeOK, ReqType
<1>2. NumberedRequest(q, top) /\ AtMost(NoBlob.blob, top) /\ 0 <= top /\ -1 <= top
      /\ ~(Base # Base) /\ top \in Nat
  BY <1>1, BlobFacts, VaryMarkersAssumption DEF Numbered, AtMost, NoBlob, TypeOK
<1>3. \A g \in 0..Gens - 1 : g <= top => KeyUpTo(<<g, q.cls>>, top)
  BY <1>1, KeyFacts DEF KeyUpTo
<1>4. ASSUME NEW d, Over(d) PROVE NumberedRequest(d, top)
  BY <1>2, <1>4 DEF Over, NumberedRequest, KeyUpTo
<1>5. CASE Start(r)
  BY <1>1, <1>2, <1>5, StartEffect DEF NumberedRequest
<1>6. CASE Lookup(r)
  <2>1. PICK o \in ReqType : o = Resolved(r)
    BY ResolvedFacts
  <2>2. KeyUpTo(o.key, top) /\ o.gen <= top
    <3>1. marker[q.node] \in MarkerType /\ AtMost(marker[q.node], top)
      BY <1>1 DEF TypeOK, Numbered
    <3>2. CASE marker[q.node] # None
      <4>1. marker[q.node].gen \in 0..Gens - 1 /\ marker[q.node].gen <= top
        BY <3>1, <3>2, BlobFacts DEF AtMost
      <4> QED  BY <1>1, <1>3, <2>1, <3>2, <4>1, ResolvedFacts
    <3>3. CASE marker[q.node] = None /\ q.l2gen >= 0
      <4>1. q.l2gen \in 0..Gens - 1 /\ q.l2gen <= top
        <5>1. q.l2gen \in -1..Gens - 1
          BY <1>1 DEF ReqType
        <5> QED  BY <1>2, <3>3, <5>1, VaryMarkersAssumption DEF NumberedRequest
      <4> QED  BY <1>1, <1>3, <2>1, <3>3, <4>1, ResolvedFacts
    <3>4. CASE marker[q.node] = None /\ ~(q.l2gen >= 0)
      BY <1>1, <1>2, <2>1, <3>4, ResolvedFacts DEF KeyUpTo
    <3> QED  BY <3>2, <3>3, <3>4
  <2>3. PICK d \in ReqType :
          /\ Becomes(r, d)
          /\ Over(d) \/ (Alike(d, q) /\ d.key = o.key /\ d.gen = o.gen)
    BY <1>1, <1>6, <2>1, LookupEffect DEF IsServed
  <2> QED  BY <1>2, <1>4, <2>2, <2>3 DEF NumberedRequest, Alike
<1>7. CASE DropAnswer(r)
  BY <1>1, <1>2, <1>7, DropEffect DEF NumberedRequest, Alike, There
<1>8. CASE TakeAnswer(r)
  <2>1. PICK g \in 0..Gens - 1 : g = q.got.blob.gen /\ g <= top
    BY <1>1, <1>2, <1>8, TakeEffect DEF NumberedRequest, AtMost
  <2> QED  BY <1>1, <1>2, <1>3, <1>8, <2>1, TakeEffect DEF NumberedRequest, Settled
<1>9. CASE RefuseAnswer(r)
  BY <1>1, <1>2, <1>9, RefuseEffect DEF NumberedRequest, Settled, KeyUpTo
<1>10. CASE Ask(r)
  BY <1>1, <1>2, <1>10, AskEffect DEF NumberedRequest, Asks
<1>11. CASE Answer(r)
  <2>1. AtMost(l2marker, top) /\ AtMost(l2[q.key], top)
    BY <1>1, BlobFacts DEF Numbered, AtMost, TypeOK
  <2> QED  BY <1>1, <1>2, <1>11, <2>1, AnswerEffect DEF NumberedRequest, There
<1>12. CASE Promote(r)
  BY <1>4, <1>12, PromoteEffect DEF IsServed
<1>13. CASE Miss(r)
  <2>1. PICK d \in ReqType :
          /\ Becomes(r, d)
          /\ \/ Over(d)
             \/ /\ d.got = NoBlob /\ d.key = q.key /\ d.gen = q.gen
                /\ d.l2gen = q.l2gen
    BY <1>1, <1>13, MissEffect DEF IsServed
  <2> QED  BY <1>2, <1>4, <2>1 DEF NumberedRequest
<1>14. CASE StorePage(r)
  <2>1. PICK d \in ReqType :
          /\ Becomes(r, d)
          /\ \/ Over(d)
             \/ /\ d.got = q.got /\ d.key = <<q.gen, q.cls>> /\ d.gen = q.gen
                /\ d.l2gen = q.l2gen
    BY <1>1, <1>14, StorePageEffect DEF PageStored, IsDone
  <2>2. KeyUpTo(<<q.gen, q.cls>>, top)
    BY <1>1, <1>2, <1>3 DEF NumberedRequest
  <2> QED  BY <1>2, <1>4, <2>1, <2>2 DEF NumberedRequest
<1>15. CASE NotStored(r) \/ StoreMarker(r) \/ Rollback(r)
  <2>1. req' = [req EXCEPT ![r] = Done(req[r])]
    BY <1>15 DEF NotStored, StoreMarker, Rollback, TypeOK
  <2> QED  BY <1>4, <2>1, DoneEffect DEF IsDone
<1> QED  BY <1>5, <1>6, <1>7, <1>8, <1>9, <1>10, <1>11, <1>12, <1>13, <1>14, <1>15
         DEF RequestStep, Consume

LEMMA RequestNumbered ==
    ASSUME TypeOK, PagesSuit, NEW r \in Requests, Numbered(top), RequestStep(r)
    PROVE  Numbered(top)' /\ top' = top
<1>1. PICK q \in ReqType : q = req[r] /\ q.node \in Nodes /\ q.key \in Keys
                           /\ q.gen \in 0..Gens - 1 /\ q.cls \in Classes
  BY DEF TypeOK, ReqType
<1>2. Backdrop(r)
  BY StepBackdrop
<1>3. top' = top /\ purge'.found = purge.found
  BY <1>2 DEF Backdrop
<1>4. \A x \in Requests : NumberedRequest(req'[x], top)
  BY NumberedStep, Requested DEF Numbered
<1>5. KeyUpTo(q.key, top) /\ KeyUpTo(<<q.gen, q.cls>>, top) /\ q.gen <= top
      /\ AtMost(q.got.blob, top)
  BY <1>1, KeyFacts DEF Numbered, NumberedRequest, KeyUpTo
<1>6. \A n \in Nodes, k \in Keys : l1'[n][k] # None => KeyUpTo(k, top)
  <2>1. ASSUME NEW n \in Nodes, NEW k \in Keys, l1'[n][k] \notin {l1[n][k], None}
        PROVE  KeyUpTo(k, top)
    BY <1>1, <1>5, <2>1, L1Writes
  <2> QED  BY <2>1 DEF Numbered
<1>7. \A k \in Keys : l2'[k] # None => KeyUpTo(k, top)
  <2>1. ASSUME NEW k \in Keys, l2'[k] \notin {l2[k], None}
        PROVE  KeyUpTo(k, top)
    BY <1>1, <1>5, <2>1, L2Writes
  <2> QED  BY <2>1 DEF Numbered
<1>8. (\A n \in Nodes : AtMost(marker'[n], top)) /\ AtMost(l2marker', top)
  <2>1. AtMost(l2marker, top) /\ (\A n \in Nodes : AtMost(marker[n], top))
        /\ AtMost(None, top)
    BY BlobFacts DEF Numbered, AtMost
  <2>2. ASSUME NEW g \in 0..Gens - 1, MarkerWritten(r, g)
        PROVE  g <= top
    BY <1>1, <1>5, <2>2 DEF MarkerWritten, AtMost
  <2> QED  BY <1>1, <2>1, <2>2, MarkerWrites DEF AtMost
<1> QED  BY <1>3, <1>4, <1>6, <1>7, <1>8 DEF Numbered

LEMMA NextGenFacts ==
    ASSUME NEW g \in 0..Gens - 1
    PROVE  /\ NextGen(g) \in 0..Gens - 1 /\ NextGen(g) # 0
           /\ g < Gens - 1 => NextGen(g) = g + 1
BY VaryMarkersAssumption DEF NextGen

(* Requests that only a purge overtakes, caches that only lose.             *)
LEMMA LosingNumbered ==
    ASSUME TypeOK, Numbered(top), NEW t \in Nat, top <= t,
           req' \in {req, Overtaken},
           \A n \in Nodes, k \in Keys : l1'[n][k] \in {l1[n][k], None},
           \A k \in Keys : l2'[k] \in {l2[k], None},
           \A n \in Nodes : AtMost(marker'[n], top) \/ AtMost(marker'[n], t),
           AtMost(l2marker', top) \/ AtMost(l2marker', t),
           AtMost(purge'.found, top),
           \A n \in Nodes : marker'[n] \in MarkerType,
           l2marker' \in MarkerType, purge'.found \in MarkerType
    PROVE  /\ \A n \in Nodes : AtMost(marker'[n], t)
           /\ AtMost(l2marker', t) /\ AtMost(purge'.found, t)
           /\ \A n \in Nodes, k \in Keys : l1'[n][k] # None => KeyUpTo(k, t)
           /\ \A k \in Keys : l2'[k] # None => KeyUpTo(k, t)
           /\ \A r \in Requests : NumberedRequest(req'[r], t)
<1>1. top \in Nat
  BY VaryMarkersAssumption DEF TypeOK
<1>2. ASSUME NEW b \in Blobs, AtMost(b, top) PROVE AtMost(b, t)
  <2>1. b.kind = "marker" => b.gen \in 0..Gens - 1
    BY BlobFacts
  <2> QED  BY <1>1, <1>2, <2>1, VaryMarkersAssumption DEF AtMost
<1>3. ASSUME NEW k \in Keys, KeyUpTo(k, top) PROVE KeyUpTo(k, t)
  <2>1. k # Base => k[1] \in 0..Gens - 1
    BY KeyFacts
  <2> QED  BY <1>1, <1>3, <2>1, VaryMarkersAssumption DEF KeyUpTo
<1>4. ASSUME NEW r \in Requests PROVE NumberedRequest(req'[r], t)
  <2>1. NumberedRequest(req[r], top) /\ req[r] \in ReqType
    BY DEF Numbered, TypeOK
  <2>2. /\ req[r].key \in Keys /\ req[r].gen \in 0..Gens - 1
        /\ req[r].l2gen \in -1..Gens - 1 /\ req[r].got.blob \in Blobs
    BY <2>1 DEF ReqType
  <2>3. KeyUpTo(req[r].key, t) /\ AtMost(req[r].got.blob, t)
    BY <1>2, <1>3, <2>1, <2>2 DEF NumberedRequest
  <2>4. req[r].gen <= t /\ req[r].l2gen <= t
    BY <1>1, <2>1, <2>2, VaryMarkersAssumption DEF NumberedRequest
  <2>5. /\ req'[r].key = req[r].key /\ req'[r].gen = req[r].gen
        /\ req'[r].l2gen = req[r].l2gen /\ req'[r].got = req[r].got
    BY OvertakenFacts DEF There
  <2> QED  BY <2>3, <2>4, <2>5 DEF NumberedRequest
<1>5. \A n \in Nodes, k \in Keys : l1'[n][k] # None => KeyUpTo(k, t)
  BY <1>3 DEF Numbered
<1>6. \A k \in Keys : l2'[k] # None => KeyUpTo(k, t)
  BY <1>3 DEF Numbered
<1>7. (\A n \in Nodes : AtMost(marker'[n], t)) /\ AtMost(l2marker', t)
      /\ AtMost(purge'.found, t)
  BY <1>2, BlobFacts
<1> QED  BY <1>4, <1>5, <1>6, <1>7

LEMMA PurgeNumbered ==
    ASSUME TypeOK, PagesSuit, Numbered(top), PurgeStep, TypeOK'
    PROVE  Numbered(top)' /\ top <= top'
<1>1. /\ purge.node \in Nodes /\ purge.found \in MarkerType
      /\ marker \in [Nodes -> MarkerType] /\ l1 \in [Nodes -> [Keys -> Blobs]]
      /\ l2 \in [Keys -> PageType \cup {None}]
      /\ top \in Nat /\ top' \in Nat /\ Purgers \subseteq Nodes
  BY VaryMarkersAssumption DEF TypeOK
<1>2. (\A n \in Nodes : marker'[n] \in MarkerType) /\ l2marker' \in MarkerType
      /\ purge'.found \in MarkerType
  BY DEF TypeOK
<1>3. AtMost(None, top) /\ (\A n \in Nodes : AtMost(marker[n], top))
      /\ AtMost(l2marker, top) /\ AtMost(purge.found, top)
  BY BlobFacts DEF AtMost, Numbered
<1>4. NoPurge.found = None
  BY PurgeFacts
<1>5. req' \in {req, Overtaken}
  BY Unmoved
<1>6. \A n \in Nodes, k \in Keys : l1'[n][k] \in {l1[n][k], None}
  <2>1. ASSUME NEW p \in Purgers, PurgeBase(p)
        PROVE  \A n \in Nodes, k \in Keys : l1'[n][k] \in {l1[n][k], None}
    BY <1>1, <2>1 DEF PurgeBase
  <2>2. CASE PurgeWalk
    BY <2>2, WalkEffect
  <2>3. CASE PurgeMarker \/ PurgeRead \/ PurgeBump \/ PurgeFails
    BY <2>3 DEF PurgeMarker, PurgeRead, PurgeBump, PurgeFails, shm
  <2> QED  BY <2>1, <2>2, <2>3 DEF PurgeStep
<1>7. \A k \in Keys : l2'[k] \in {l2[k], None}
  <2>1. ASSUME NEW p \in Purgers, PurgeBase(p)
        PROVE  \A k \in Keys : l2'[k] \in {l2[k], None}
    BY <1>1, <2>1 DEF PurgeBase
  <2>2. CASE PurgeWalk
    BY <2>2, WalkEffect
  <2>3. CASE PurgeMarker \/ PurgeRead \/ PurgeBump \/ PurgeFails
    BY <2>3 DEF PurgeMarker, PurgeRead, PurgeBump, PurgeFails, remote
  <2> QED  BY <2>1, <2>2, <2>3 DEF PurgeStep
<1>8. AtMost(purge'.found, top)
  <2>1. purge'.found \in {purge.found, None, marker[purge.node]}
    <3>1. ASSUME NEW p \in Purgers, PurgeBase(p)
          PROVE  purge'.found \in {purge.found, None}
      <4>1. purge' = purge \/ purge' = [NoPurge EXCEPT !.pc = "read", !.node = p]
        BY <3>1 DEF PurgeBase
      <4>2. p \in Nodes
        BY <1>1
      <4>3. [NoPurge EXCEPT !.pc = "read", !.node = p].found = None
        BY <4>2, PurgeFacts
      <4> QED  BY <4>1, <4>3
    <3>2. CASE PurgeRead
      BY <1>1, <3>2, PurgeFacts DEF PurgeRead
    <3>3. CASE PurgeWalk \/ PurgeBump \/ PurgeFails
      BY <1>4, <3>3 DEF PurgeWalk, PurgeBump, PurgeFails
    <3>4. CASE PurgeMarker
      BY <1>4, <3>4, MarkerPurged, PurgeFacts
    <3> QED  BY <3>1, <3>2, <3>3, <3>4 DEF PurgeStep
  <2> QED  BY <1>1, <1>3, <2>1
<1>9. /\ top <= top'
      /\ \A n \in Nodes : AtMost(marker'[n], top) \/ AtMost(marker'[n], top')
      /\ AtMost(l2marker', top) \/ AtMost(l2marker', top')
  <2>1. CASE PurgeBump
    <3>1. PICK g \in 0..Gens - 1 : g = NextGen(purge.found.gen)
      <4>1. purge.found.gen \in 0..Gens - 1
        BY <1>1, <2>1, BlobFacts DEF PurgeBump, PagesSuit
      <4> QED  BY <4>1, NextGenFacts
    <3>2. g <= top' /\ top <= top'
      BY <1>1, <2>1, <3>1, VaryMarkersAssumption DEF PurgeBump
    <3>3. PICK fails \in BOOLEAN : SetMarker(purge.node, g, fails)
      BY <2>1, <3>1 DEF PurgeBump
    <3>4. /\ \A n \in Nodes : marker'[n] = marker[n] \/ marker'[n].gen = g
          /\ l2marker' = l2marker \/ l2marker'.gen = g
      BY <1>1, <3>1, <3>3, SetMarkerFacts
    <3> QED  BY <1>3, <3>2, <3>4 DEF AtMost
  <2>2. CASE ~PurgeBump
    <3> DEFINE Less == /\ top' = top /\ l2marker' \in {l2marker, None}
                       /\ \A n \in Nodes : marker'[n] \in {marker[n], None}
    <3>1. PurgeMarker => Less
      BY <1>1, MarkerPurged
    <3>2. PurgeWalk => Less
      BY WalkEffect
    <3>3. (\E p \in Purgers : PurgeBase(p)) \/ PurgeRead \/ PurgeFails => Less
      BY DEF PurgeBase, PurgeRead, PurgeFails, hist, shm, remote
    <3>4. Less
      BY <2>2, <3>1, <3>2, <3>3 DEF PurgeStep
    <3> QED  BY <1>1, <1>3, <3>4
  <2> QED  BY <2>1, <2>2
<1>10. PICK t \in Nat : t = top' /\ top <= t
  BY <1>1, <1>9
<1>11. /\ \A n \in Nodes : AtMost(marker'[n], t)
       /\ AtMost(l2marker', t) /\ AtMost(purge'.found, t)
       /\ \A n \in Nodes, k \in Keys : l1'[n][k] # None => KeyUpTo(k, t)
       /\ \A k \in Keys : l2'[k] # None => KeyUpTo(k, t)
       /\ \A r \in Requests : NumberedRequest(req'[r], t)
  BY <1>2, <1>5, <1>6, <1>7, <1>8, <1>9, <1>10, LosingNumbered
<1> QED  BY <1>10, <1>11 DEF Numbered

LEMMA SurroundingNumbered ==
    ASSUME TypeOK, Numbered(top), Surroundings \/ UNCHANGED vars
    PROVE  Numbered(top)' /\ top' = top
<1>1. /\ req' = req /\ purge' = purge /\ top' = top
  BY DEF Surroundings, Tick, L2Forgets, EvictMarker, EvictPage, MemoEnds, vars, hist
<1>2. \A n \in Nodes, k \in Keys : l1'[n][k] \in {l1[n][k], None}
  BY DEF Surroundings, Tick, L2Forgets, EvictMarker, EvictPage, MemoEnds, vars, shm,
         TypeOK
<1>3. UNCHANGED l2
  BY DEF Surroundings, Tick, L2Forgets, EvictMarker, EvictPage, MemoEnds, vars,
         remote
<1>4. (\A n \in Nodes : marker'[n] \in {marker[n], None})
      /\ l2marker' \in {l2marker, None}
  BY DEF Surroundings, Tick, L2Forgets, EvictMarker, EvictPage, MemoEnds, vars, shm,
         remote, TypeOK
<1>5. None.kind # "marker"
  BY BlobFacts
<1>6. \A r \in Requests : NumberedRequest(req'[r], top)
  BY <1>1 DEF Numbered
<1> QED  BY <1>1, <1>2, <1>3, <1>4, <1>5, <1>6 DEF Numbered, AtMost

-----------------------------------------------------------------------------
(* When requests and purges began. *)

Since(b, m) == b.kind = "page" => b.epoch >= m

(* A request of before the end of the last purge is marked, and while a     *)
(* purge runs all that are on the way are; what a request fetches is no     *)
(* older than itself.                                                       *)
TimelyRequest(q, last, busy) ==
    /\ q.since <= last
    /\ q.pc \notin {"idle", "served", "done"} /\ (busy \/ q.since < last) => q.spans
    /\ q.pc = "origin" => q.epoch >= q.since
    /\ q.pc = "store" => Since(q.out, q.since)
    /\ q.pc = "idle" => q.got = NoBlob

TimelyPurge ==
    /\ ended <= begun
    /\ purge.pc # "idle" => ended < begun
    /\ purge.pc = "bump" => deploy = "plain"
    /\ purge.pc = "walk" => deploy = "tagged"

Busy == purge.pc # "idle"

Timely == TimelyPurge /\ \A r \in Requests : TimelyRequest(req[r], ended, Busy)

LEMMA Times ==
    ASSUME TypeOK
    PROVE  /\ ended \in Nat /\ begun \in Nat
           /\ \A r \in Requests : req[r].since \in Nat /\ req[r].epoch \in Nat
<1>1. ended \in Nat /\ begun \in Nat
  BY VaryMarkersAssumption DEF TypeOK
<1>2. ASSUME NEW r \in Requests
      PROVE  req[r].since \in Nat /\ req[r].epoch \in Nat
  <2>1. req[r] \in ReqType
    BY DEF TypeOK
  <2>2. req[r].since \in 0..MaxPurges /\ req[r].epoch \in 0..MaxPurges
    BY <2>1 DEF ReqType
  <2> QED  BY <2>2, VaryMarkersAssumption
<1> QED  BY <1>1, <1>2

LEMMA TimelyStep ==
    ASSUME TypeOK, NEW r \in Requests, Timely, RequestStep(r)
    PROVE  \E d \in ReqType : Becomes(r, d) /\ TimelyRequest(d, ended, Busy)
<1>1. PICK q \in ReqType : q = req[r]
  BY DEF TypeOK
<1>2. TimelyRequest(q, ended, Busy) /\ ended <= begun /\ ended \in Nat /\ begun \in Nat
      /\ q.since \in Nat /\ q.epoch \in Nat /\ 0 <= ended
  BY <1>1, Times DEF Timely, TimelyPurge
<1>3. CASE Start(r)
  BY <1>1, <1>2, <1>3, StartEffect DEF TimelyRequest, Busy
<1>4. CASE Lookup(r)
  <2>1. q.pc = "lookup"
    BY <1>1, <1>4 DEF Lookup
  <2>2. PICK d \in ReqType :
          /\ Becomes(r, d) /\ d.since = q.since
          /\ d.pc = "served" \/ (d.pc \in {"l2", "ask"} /\ d.spans = q.spans)
    BY <1>1, <1>4, LookupEffect DEF IsServed, Alike
  <2> QED  BY <1>2, <2>1, <2>2 DEF TimelyRequest
<1>5. CASE Consume(r) \/ Ask(r) \/ Answer(r)
  <2>1. q.pc \in {"l2", "ask", "marker", "object"}
    BY <1>1, <1>5 DEF Consume, Ask, AskMarker, AskPage, Answer
  <2>2. PICK d \in ReqType :
          /\ Becomes(r, d) /\ d.since = q.since /\ d.spans = q.spans
          /\ d.pc \notin {"idle", "origin", "store"}
    BY <1>1, <1>5, DropEffect, TakeEffect, RefuseEffect, AskEffect, AnswerEffect
    DEF Consume, Alike, Settled, Asks
  <2> QED  BY <1>2, <2>1, <2>2 DEF TimelyRequest
<1>6. CASE Promote(r)
  BY <1>1, <1>2, <1>6, PromoteEffect DEF IsServed, TimelyRequest
<1>7. CASE Miss(r)
  <2>1. q.pc = "l2 result"
    BY <1>1, <1>7 DEF Miss
  <2>2. PICK d \in ReqType :
          /\ Becomes(r, d) /\ d.since = q.since
          /\ \/ d.pc = "served"
             \/ d.pc = "origin" /\ d.epoch = begun /\ d.spans = q.spans
    BY <1>1, <1>7, MissEffect DEF IsServed
  <2>3. q.since <= ended /\ (Busy \/ q.since < ended => q.spans)
    BY <1>2, <2>1 DEF TimelyRequest
  <2>4. begun >= q.since
    BY <1>2, <2>3
  <2> QED  BY <2>2, <2>3, <2>4 DEF TimelyRequest
<1>8. CASE StorePage(r)
  <2>1. q.pc = "origin" /\ Since(Page(r, TRUE), q.since)
    BY <1>1, <1>2, <1>8, Made DEF StorePage, TimelyRequest, Since
  <2>2. PICK d \in ReqType :
          /\ Becomes(r, d)
          /\ \/ d.pc = "done" /\ d.since = 0
             \/ /\ d.pc = "store" /\ d.out = Page(r, TRUE) /\ d.since = q.since
                /\ d.spans = q.spans
    BY <1>1, <1>8, StorePageEffect DEF PageStored, IsDone
  <2> QED  BY <1>2, <2>1, <2>2 DEF TimelyRequest
<1>9. CASE NotStored(r) \/ StoreMarker(r) \/ Rollback(r)
  <2>1. req' = [req EXCEPT ![r] = Done(req[r])]
    BY <1>9 DEF NotStored, StoreMarker, Rollback, TypeOK
  <2>2. PICK d \in ReqType : Becomes(r, d) /\ d.pc = "done" /\ d.since = 0
    BY <2>1, DoneEffect DEF IsDone
  <2> QED  BY <1>2, <2>2 DEF TimelyRequest
<1> QED  BY <1>3, <1>4, <1>5, <1>6, <1>7, <1>8, <1>9 DEF RequestStep

LEMMA RequestTimely ==
    ASSUME TypeOK, NEW r \in Requests, Timely, RequestStep(r)
    PROVE  Timely'
<1>1. Backdrop(r)
  BY StepBackdrop
<1>2. \A x \in Requests : TimelyRequest(req'[x], ended, Busy)
  BY TimelyStep, Requested DEF Timely
<1>3. Busy' <=> Busy
  BY <1>1 DEF Backdrop, Busy
<1> QED  BY <1>1, <1>2, <1>3 DEF Timely, TimelyPurge, Backdrop, TimelyRequest

(* A purge that begins marks who is on the way.                             *)
LEMMA OvertakenTimely ==
    ASSUME TypeOK, Timely, req' = Overtaken, NEW busy
    PROVE  \A r \in Requests : TimelyRequest(req'[r], ended, busy)
<1>1. ASSUME NEW r \in Requests PROVE TimelyRequest(req'[r], ended, busy)
  <2>1. TimelyRequest(req[r], ended, Busy)
    BY DEF Timely
  <2>2. /\ req'[r].pc = req[r].pc /\ req'[r].since = req[r].since
        /\ req'[r].epoch = req[r].epoch /\ req'[r].out = req[r].out
        /\ req'[r].got = req[r].got
        /\ r \in InFlight => req'[r].spans
    BY OvertakenFacts
  <2> QED  BY <2>1, <2>2 DEF TimelyRequest, InFlight
<1> QED  BY <1>1

LEMMA OtherTimely ==
    ASSUME TypeOK, Timely, PurgeStep \/ Surroundings \/ UNCHANGED vars
    PROVE  Timely'
<1>1. ended \in Nat /\ begun \in Nat /\ ended <= begun /\ purge \in PurgeType
      /\ Purgers \subseteq Nodes /\ marker[purge.node] \in MarkerType
      /\ \A r \in Requests : req[r].since \in Nat /\ req[r].since <= ended
  BY Times, VaryMarkersAssumption
  DEF Timely, TimelyPurge, TimelyRequest, TypeOK, PurgeType
<1>2. NoPurge.pc = "idle"
  BY PurgeFacts
<1>3. ASSUME NEW n \in Purgers, PurgeBase(n) PROVE Timely'
  <2>1. /\ req' = Overtaken /\ ended' = ended /\ begun' = begun + 1
        /\ deploy' = deploy /\ purge.pc = "idle"
        /\ purge' = purge \/ purge' = [NoPurge EXCEPT !.pc = "read", !.node = n]
    BY <1>3 DEF PurgeBase
  <2>2. TimelyPurge'
    <3>1. n \in Nodes
      BY <1>1
    <3>2. purge'.pc = "idle" \/ purge'.pc = "read"
      <4>1. [NoPurge EXCEPT !.pc = "read", !.node = n].pc = "read"
        BY <3>1, PurgeFacts
      <4> QED  BY <2>1, <4>1
    <3> QED  BY <1>1, <2>1, <3>2 DEF TimelyPurge
  <2>3. \A r \in Requests : TimelyRequest(req'[r], ended, Busy')
    BY <1>1, <2>1, OvertakenTimely
  <2> QED  BY <2>1, <2>2, <2>3 DEF Timely
<1>4. ASSUME Busy, req' = req, ended' = begun, begun' = begun, purge' = NoPurge
      PROVE  Timely'
  <2>1. ASSUME NEW r \in Requests PROVE TimelyRequest(req[r], begun, FALSE)
    <3>1. TimelyRequest(req[r], ended, Busy)
      BY DEF Timely
    <3> QED  BY <1>1, <1>4, <3>1 DEF TimelyRequest
  <2>2. ~Busy'
    BY <1>2, <1>4 DEF Busy
  <2>3. TimelyPurge'
    BY <1>1, <1>2, <1>4 DEF TimelyPurge
  <2> QED  BY <1>4, <2>1, <2>2, <2>3 DEF Timely, TimelyRequest
<1>5. ASSUME req' = req, UNCHANGED <<ended, begun, deploy>>,
             purge'.pc = "idle" \/ purge'.pc = purge.pc
             \/ (purge'.pc = "bump" /\ deploy = "plain" /\ purge.pc # "idle")
             \/ (purge'.pc = "walk" /\ deploy = "tagged" /\ purge.pc # "idle")
      PROVE  Timely'
  <2>1. Busy' => Busy
    BY <1>5 DEF Busy
  <2>2. TimelyPurge'
    BY <1>1, <1>5 DEF Timely, TimelyPurge
  <2> QED  BY <1>5, <2>1, <2>2 DEF Timely, TimelyRequest
<1>6. CASE PurgeBump
  BY <1>4, <1>6 DEF PurgeBump, Busy
<1>9. CASE PurgeMarker
  <2>1. CASE purge' = NoPurge /\ ended' = begun
    BY <1>4, <1>9, <2>1, MarkerPurged DEF Busy
  <2>2. CASE purge' = [purge EXCEPT !.pc = "walk"] /\ ended' = ended
    <3>1. purge'.pc = "walk" /\ purge.pc = "read"
      BY <1>9, <2>2, MarkerPurged, PurgeFacts
    <3> QED  BY <1>5, <1>9, <2>2, <3>1, MarkerPurged
  <2> QED  BY <1>9, <2>1, <2>2, MarkerPurged
<1>10. CASE PurgeWalk
  <2>1. CASE ended' = begun
    BY <1>4, <1>10, <2>1, WalkEffect DEF Busy
  <2>2. CASE ended' = ended
    BY <1>2, <1>5, <1>10, <2>2, WalkEffect
  <2> QED  BY <1>10, <2>1, <2>2, WalkEffect
<1>7. CASE PurgeRead
  <2>1. CASE marker[purge.node] = None
    BY <1>4, <1>7, <2>1 DEF PurgeRead, Busy
  <2>2. CASE marker[purge.node] # None
    <3>1. purge'.pc = "bump" /\ deploy = "plain" /\ purge.pc = "read"
      BY <1>1, <1>7, <2>2, PurgeFacts DEF PurgeRead
    <3> QED  BY <1>5, <1>7, <2>2, <3>1 DEF PurgeRead
  <2> QED  BY <2>1, <2>2
<1>8. CASE PurgeFails \/ Surroundings \/ UNCHANGED vars
  <2>1. req' = req /\ UNCHANGED <<ended, begun, deploy>> /\ purge' \in {purge, NoPurge}
    BY <1>8 DEF PurgeFails, Surroundings, Tick, L2Forgets, EvictMarker, EvictPage,
       MemoEnds, vars, hist
  <2> QED  BY <1>2, <1>5, <2>1
<1> QED  BY <1>3, <1>6, <1>7, <1>8, <1>9, <1>10 DEF PurgeStep

-----------------------------------------------------------------------------
(* What a purge keeps away. *)

(* The keys that requests at a node with the last purge's marker go by.     *)
Live(k) == deploy = "tagged" \/ (k # Base /\ k[1] = top)

(* A request begun since the last purge, at a node that keeps it.           *)
Current(q) == q.node \in holds /\ q.since = ended

OnItsWay(q) == q.pc \notin {"idle", "served", "done"}

(* It carries no page of before and goes by the highest generation.         *)
FreshRequest(q) ==
    Current(q) =>
      /\ OnItsWay(q) => Since(q.got.blob, ended)
      /\ OnItsWay(q) /\ q.pc # "lookup" /\ deploy = "plain" =>
           ~q.miss /\ q.gen = top /\ q.key = <<top, q.cls>>
      /\ q.pc = "served" => Since(q.out, ended)

FreshCell(n, k) == Live(k) => Since(l1[n][k], ended) /\ Since(l2[k], ended)

KeptMarker(n) == deploy = "plain" => marker[n] # None /\ marker[n].gen = top

KeptAway ==
    /\ \A r \in Requests : FreshRequest(req[r])
    /\ \A n \in holds : KeptMarker(n) /\ \A k \in Keys : FreshCell(n, k)

(* A tagged purge that nothing has been written behind leaves no older page *)
(* under the base key, which it deletes first.                              *)
Purging == purge.pc \in {"read", "walk"} /\ deploy = "tagged" /\ purge.clean

FreshBase ==
    Purging => Since(l1[purge.node][Base], begun) /\ Since(l2[Base], begun)

(* What a current request can find under its key.                           *)
LEMMA Findings ==
    ASSUME TypeOK, KeptAway, NEW r \in Requests, Current(req[r]), NEW k \in Keys,
           deploy = "plain" => k = <<top, req[r].cls>>
    PROVE  Since(l1[req[r].node][k], ended) /\ Since(l2[k], ended)
<1>1. req[r].node \in holds /\ deploy \in {"tagged", "plain"}
      /\ top \in 0..Gens - 1 /\ req[r].cls \in Classes
  BY VaryMarkersAssumption DEF Current, TypeOK, ReqType
<1>2. Live(k)
  BY <1>1, KeyFacts DEF Live
<1> QED  BY <1>1, <1>2 DEF KeptAway, FreshCell

LEMMA ResolvesFresh ==
    ASSUME TypeOK, KeptAway, NEW r \in Requests, Current(req[r])
    PROVE  deploy = "plain" =>
             /\ ~Resolved(r).miss /\ Resolved(r).gen = top
             /\ Resolved(r).key = <<top, req[r].cls>>
BY ResolvedFacts DEF KeptAway, KeptMarker, Current

(* A current request takes over no marker but of the highest generation.    *)
LEMMA TakesTheHighest ==
    ASSUME TypeOK, KeptAway, Numbered(top), NEW r \in Requests, Current(req[r]),
           Taking(r), deploy = "plain"
    PROVE  req[r].got.blob.gen = top
<1>1. FreshRequest(req[r]) /\ NumberedRequest(req[r], top)
      /\ req[r].gen \in 0..Gens - 1 /\ req[r].got.blob.gen \in 0..Gens - 1
  BY TakeEffect DEF Taking, KeptAway, Numbered, TypeOK, ReqType
<1>2. ~req[r].miss /\ req[r].gen = top
  BY <1>1 DEF FreshRequest, OnItsWay, Taking
<1>3. req[r].got.blob.gen >= top /\ req[r].got.blob.kind = "marker"
  BY <1>2 DEF Taking, TakeAnswer, Usable, Acceptable
<1>4. req[r].got.blob.gen <= top
  BY <1>1, <1>3 DEF NumberedRequest, AtMost
<1> QED  BY <1>1, <1>2, <1>3, <1>4, VaryMarkersAssumption

LEMMA FreshStep ==
    ASSUME TypeOK, KeptAway, Numbered(top), Timely, NEW r \in Requests, RequestStep(r)
    PROVE  \E d \in ReqType :
             Becomes(r, d) /\ (req[r].node \in holds' => FreshRequest(d))
<1>1. PICK q \in ReqType : q = req[r] /\ q.node \in Nodes /\ q.key \in Keys
                           /\ q.cls \in Classes
  BY DEF TypeOK, ReqType
<1>2. FreshRequest(q) /\ Since(NoBlob.blob, ended)
  BY <1>1, BlobFacts DEF KeptAway, Since, NoBlob
<1>3. ASSUME NEW d, d.pc = "done" PROVE FreshRequest(d)
  BY <1>3 DEF FreshRequest, OnItsWay
(* A request served with b.                                                 *)
<1>4. ASSUME NEW d, NEW b, IsServed(d, q, b), Becomes(r, d),
             Current(q) => Since(b, ended)
      PROVE  FreshRequest(d)
  BY <1>1, <1>4 DEF FreshRequest, OnItsWay, IsServed, Becomes, Current
<1>5. CASE Start(r)
  <2>1. q.got = NoBlob
    BY <1>1, <1>5 DEF Start, Timely, TimelyRequest
  <2> QED  BY <1>1, <1>2, <1>5, <2>1, StartEffect DEF FreshRequest
<1>6. CASE Lookup(r)
  <2>1. PICK o \in ReqType : o = Resolved(r) /\ o.key \in Keys
    BY ResolvedFacts DEF ReqType
  <2>2. Current(q) => /\ Since(q.got.blob, ended)
                      /\ Since(l1[q.node][o.key], ended)
                      /\ deploy = "plain" =>
                           ~o.miss /\ o.gen = top /\ o.key = <<top, q.cls>>
    <3>1. Current(q) => Since(q.got.blob, ended)
      BY <1>1, <1>2, <1>6 DEF FreshRequest, OnItsWay, Lookup
    <3> QED  BY <1>1, <2>1, <3>1, ResolvesFresh, Findings
  <2>3. PICK d \in ReqType :
          /\ Becomes(r, d)
          /\ \/ IsServed(d, q, l1[q.node][o.key])
             \/ /\ Alike(d, q) /\ d.key = o.key /\ d.gen = o.gen /\ d.miss = o.miss
                /\ d.pc \in {"l2", "ask"}
    BY <1>1, <1>6, <2>1, LookupEffect
  <2>4. CASE IsServed(d, q, l1[q.node][o.key])
    BY <1>4, <2>2, <2>3, <2>4
  <2>5. CASE /\ Alike(d, q) /\ d.key = o.key /\ d.gen = o.gen /\ d.miss = o.miss
             /\ d.pc \in {"l2", "ask"}
    <3>1. d.node = q.node /\ d.cls = q.cls /\ d.since = q.since /\ d.got = q.got
      BY <1>1, <2>3, <2>5 DEF Becomes, Alike
    <3> QED  BY <2>2, <2>3, <2>5, <3>1 DEF FreshRequest, Current
  <2> QED  BY <2>3, <2>4, <2>5
(* Requests that stay under their key.                                      *)
<1>7. ASSUME NEW d, Becomes(r, d), q.pc # "lookup", OnItsWay(q), d.pc # "served",
             d.since = q.since, d.gen = q.gen, d.key = q.key, d.miss => q.miss,
             d.got = NoBlob \/ d.got = q.got
      PROVE  FreshRequest(d)
  BY <1>1, <1>2, <1>7 DEF FreshRequest, Becomes, Current
<1>8. CASE Consume(r)
  <2>0. q.pc = "l2" /\ OnItsWay(q)
    BY <1>1, <1>8 DEF Consume, OnItsWay
  <2>1. CASE DropAnswer(r)
    <3>1. PICK d \in ReqType :
            Becomes(r, d) /\ d.pc = "ask" /\ Alike(d, q) /\ There(d, q)
      BY <1>1, <2>1, DropEffect
    <3> QED  BY <1>7, <2>0, <3>1 DEF Alike, There
  <2>2. CASE TakeAnswer(r)
    <3>1. PICK d \in ReqType :
            /\ Becomes(r, d) /\ Settled(d, q) /\ d.gen = q.got.blob.gen
            /\ d.key = <<q.got.blob.gen, q.cls>>
      BY <1>1, <2>2, TakeEffect
    <3>2. Current(q) /\ deploy = "plain" => q.got.blob.gen = top /\ ~q.miss
      BY <1>1, <1>2, <2>0, <2>2, TakesTheHighest DEF Taking, FreshRequest
    <3>3. d.node = q.node /\ d.cls = q.cls /\ d.since = q.since /\ d.got = NoBlob
          /\ d.miss = q.miss /\ d.pc = "ask"
      BY <1>1, <3>1 DEF Becomes, Settled
    <3> QED  BY <1>2, <3>1, <3>2, <3>3 DEF FreshRequest, Current
  <2>3. CASE RefuseAnswer(r)
    <3>1. PICK d \in ReqType :
            /\ Becomes(r, d) /\ Settled(d, q)
            /\ ~Gone(q) => d.gen = q.gen /\ d.key = q.key
      BY <1>1, <2>3, RefuseEffect
    <3>2. Gone(q) => q.node \notin holds'
      BY <1>1, <2>3 DEF RefuseAnswer, Gone
    <3>3. ~Gone(q) => FreshRequest(d)
      BY <1>7, <2>0, <3>1 DEF Settled
    <3> QED  BY <1>1, <3>1, <3>2, <3>3
  <2> QED  BY <1>8, <2>1, <2>2, <2>3 DEF Consume
<1>9. CASE Ask(r)
  <2>1. q.pc = "ask" /\ OnItsWay(q)
    BY <1>1, <1>9 DEF Ask, AskMarker, AskPage, OnItsWay
  <2> QED  BY <1>1, <1>7, <1>9, <2>1, AskEffect DEF Asks
<1>10. CASE Answer(r)
  <2>1. q.pc \in {"marker", "object"} /\ OnItsWay(q)
    BY <1>1, <1>10 DEF Answer, OnItsWay
  <2>2. Current(q) => Since(l2[q.key], ended) /\ Since(q.got.blob, ended)
    BY <1>1, <1>2, <2>1, Findings DEF FreshRequest
  <2>3. Since(l2marker, ended)
    BY BlobFacts DEF TypeOK, Since
  <2>4. PICK d \in ReqType :
          /\ Becomes(r, d) /\ d.pc = "lookup" /\ d.since = q.since
          /\ d.got.blob \in {l2marker, l2[q.key], q.got.blob}
    BY <1>1, <1>10, AnswerEffect
  <2>5. d.node = q.node
    BY <1>1, <2>4 DEF Becomes
  <2> QED  BY <2>2, <2>3, <2>4, <2>5 DEF FreshRequest, Current
<1>11. CASE Promote(r)
  <2>1. PICK d \in ReqType : Becomes(r, d) /\ IsServed(d, q, q.got.blob)
    BY <1>1, <1>11, PromoteEffect
  <2>2. Current(q) => Since(q.got.blob, ended)
    BY <1>1, <1>2, <1>11 DEF FreshRequest, OnItsWay, Promote
  <2> QED  BY <1>4, <2>1, <2>2
<1>12. CASE Miss(r)
  <2>1. q.pc = "l2 result" /\ OnItsWay(q)
    BY <1>1, <1>12 DEF Miss, OnItsWay
  <2>2. Current(q) => Since(l1[q.node][q.key], ended)
    BY <1>1, <1>2, <2>1, Findings DEF FreshRequest
  <2>3. PICK d \in ReqType :
          /\ Becomes(r, d)
          /\ \/ IsServed(d, q, l1[q.node][q.key])
             \/ /\ d.pc = "origin" /\ d.got = NoBlob /\ d.key = q.key
                /\ d.gen = q.gen /\ d.since = q.since /\ d.miss = q.miss
    BY <1>1, <1>12, MissEffect
  <2> QED  BY <1>4, <1>7, <2>1, <2>2, <2>3
<1>13. CASE StorePage(r)
  <2>1. q.pc = "origin" /\ OnItsWay(q)
    BY <1>1, <1>13 DEF StorePage, OnItsWay
  <2>2. PICK d \in ReqType :
          /\ Becomes(r, d)
          /\ \/ d.pc = "done"
             \/ /\ d.pc = "store" /\ d.got = q.got /\ d.key = <<q.gen, q.cls>>
                /\ d.gen = q.gen /\ d.since = q.since /\ d.miss = q.miss
    BY <1>1, <1>13, StorePageEffect DEF PageStored, IsDone
  <2>3. CASE d.pc = "done"
    BY <1>3, <2>2, <2>3
  <2>4. CASE /\ d.pc = "store" /\ d.got = q.got /\ d.key = <<q.gen, q.cls>>
             /\ d.gen = q.gen /\ d.since = q.since /\ d.miss = q.miss
    <3>1. d.node = q.node /\ d.cls = q.cls
      BY <1>1, <2>2 DEF Becomes
    <3> QED  BY <1>2, <2>1, <2>2, <2>4, <3>1 DEF FreshRequest, Current
  <2> QED  BY <2>2, <2>3, <2>4
<1>14. CASE NotStored(r) \/ StoreMarker(r) \/ Rollback(r)
  <2>1. req' = [req EXCEPT ![r] = Done(req[r])]
    BY <1>14 DEF NotStored, StoreMarker, Rollback, TypeOK
  <2> QED  BY <1>3, <2>1, DoneEffect DEF IsDone
<1> QED  BY <1>5, <1>6, <1>8, <1>9, <1>10, <1>11, <1>12, <1>13, <1>14 DEF RequestStep

(* Who writes while a node holds the purge, or one is under way with        *)
(* nothing written behind it, began since the last purge.                   *)
LEMMA WriterCurrent ==
    ASSUME TypeOK, Timely, NEW r \in Requests, RequestStep(r), Writing(r),
           holds' # {} \/ purge'.clean
    PROVE  /\ OnItsWay(req[r]) /\ ~req[r].spans /\ req[r].since = ended
           /\ req[r].pc = "origin" => req[r].epoch >= ended
           /\ req[r].pc = "store" => Since(req[r].out, ended)
<1>1. OnItsWay(req[r])
  BY DEF Writing, Taking, Promote, StorePage, StoreMarker, OnItsWay
<1>2. ~req[r].spans
  BY StepBackdrop DEF Backdrop
<1>3. TimelyRequest(req[r], ended, Busy) /\ ended \in Nat /\ req[r].since \in Nat
  BY Times DEF Timely
<1>4. req[r].since = ended
  BY <1>1, <1>2, <1>3 DEF TimelyRequest, OnItsWay
<1> QED  BY <1>1, <1>2, <1>3, <1>4 DEF TimelyRequest

LEMMA MarkersKept ==
    ASSUME TypeOK, KeptAway, Numbered(top), Timely, NEW r \in Requests,
           RequestStep(r), NEW n \in holds'
    PROVE  KeptMarker(n)'
<1>1. PICK q \in ReqType : q = req[r] /\ q.node \in Nodes
  BY DEF TypeOK, ReqType
<1>2. Backdrop(r)
  BY StepBackdrop
<1>3. /\ n \in holds /\ n \in Nodes /\ KeptMarker(n)
      /\ top' = top /\ deploy' = deploy
  BY <1>2 DEF Backdrop, KeptAway, TypeOK
<1>4. ASSUME NEW g \in 0..Gens - 1, MarkerWritten(r, g), n = q.node,
             deploy = "plain"
      PROVE  g = top
  <2>1. Writing(r)
    BY <1>4 DEF MarkerWritten, Writing
  <2>2. OnItsWay(q) /\ Current(q)
    BY <1>1, <1>3, <1>4, <2>1, WriterCurrent DEF Current
  <2>3. CASE Taking(r)
    BY <1>1, <1>4, <2>2, <2>3, TakesTheHighest
    DEF MarkerWritten, StoreMarker, Taking
  <2>4. CASE StoreMarker(r)
    <3>1. FreshRequest(q) /\ q.pc = "store"
      BY <1>1, <2>4 DEF KeptAway, StoreMarker
    <3>2. q.gen = top
      BY <1>4, <2>2, <3>1 DEF FreshRequest
    <3>3. g = q.gen \/ Taking(r)
      BY <1>1, <1>4 DEF MarkerWritten
    <3> QED  BY <2>3, <3>2, <3>3
  <2> QED  BY <1>4, <2>3, <2>4 DEF MarkerWritten
<1>5. \/ UNCHANGED marker
      \/ n # q.node /\ marker'[n] = marker[n]
      \/ n = q.node /\ \E g \in 0..Gens - 1 :
           /\ MarkerWritten(r, g) /\ marker'[n] # None /\ marker'[n].gen = g
  BY <1>1, <1>3, MarkerWrites
<1> QED  BY <1>3, <1>4, <1>5 DEF KeptMarker

LEMMA CellsFresh ==
    ASSUME TypeOK, PagesSuit, KeptAway, Timely, NEW r \in Requests, RequestStep(r),
           NEW n \in holds', NEW k \in Keys
    PROVE  FreshCell(n, k)'
<1>1. PICK q \in ReqType : q = req[r]
  BY DEF TypeOK
<1>2. Backdrop(r)
  BY StepBackdrop
<1>3. /\ n \in holds /\ n \in Nodes /\ FreshCell(n, k)
      /\ top' = top /\ deploy' = deploy /\ ended' = ended
  BY <1>2 DEF Backdrop, KeptAway, TypeOK
<1>4. Since(None, ended)
  BY BlobFacts DEF Since
<1>5. Writing(r) => /\ OnItsWay(q) /\ q.since = ended
                    /\ q.pc = "origin" => q.epoch >= ended
                    /\ q.pc = "store" => Since(q.out, ended)
  BY <1>1, WriterCurrent
<1>6. ASSUME NEW b, StorePage(r), Makes(r, b) PROVE Since(b, ended)
  BY <1>1, <1>5, <1>6 DEF Makes, Since, StorePage, Writing
<1>7. l1'[n][k] \notin {l1[n][k], None} => Since(l1'[n][k], ended)
  <2> SUFFICES ASSUME l1'[n][k] \notin {l1[n][k], None} PROVE Since(l1'[n][k], ended)
    OBVIOUS
  <2>1. n = q.node /\ \/ Promote(r) /\ l1'[n][k] = q.got.blob
                      \/ StorePage(r) /\ Makes(r, l1'[n][k])
    BY <1>1, <1>3, L1Writes
  <2>2. CASE Promote(r) /\ l1'[n][k] = q.got.blob
    <3>1. FreshRequest(q) /\ Current(q) /\ OnItsWay(q)
      BY <1>1, <1>3, <1>5, <2>1, <2>2 DEF KeptAway, Current, Writing
    <3> QED  BY <2>2, <3>1 DEF FreshRequest
  <2> QED  BY <1>6, <2>1, <2>2
<1>8. l2'[k] \notin {l2[k], None} => Since(l2'[k], ended)
  <2> SUFFICES ASSUME l2'[k] \notin {l2[k], None} PROVE Since(l2'[k], ended)
    OBVIOUS
  <2>1. \/ StorePage(r) /\ Makes(r, l2'[k])
        \/ StoreMarker(r) /\ l2'[k] = q.out /\ q.pc = "store"
    BY <1>1, L2Writes
  <2> QED  BY <1>5, <1>6, <2>1 DEF Writing
<1> QED  BY <1>3, <1>4, <1>7, <1>8 DEF FreshCell, Live

LEMMA RequestKept ==
    ASSUME TypeOK, PagesSuit, KeptAway, Numbered(top), Timely, NEW r \in Requests,
           RequestStep(r)
    PROVE  KeptAway'
<1>1. Backdrop(r)
  BY StepBackdrop
<1>2. ASSUME NEW x \in Requests PROVE FreshRequest(req[x])'
  <2>1. PICK d \in ReqType :
          Becomes(r, d) /\ (req[r].node \in holds' => FreshRequest(d))
    BY FreshStep
  <2>2. req'[r] = d /\ d.node = req[r].node /\ (x # r => req'[x] = req[x])
    BY <2>1, Requested DEF Becomes
  <2>3. /\ req'[x].node \in holds' => FreshRequest(req'[x])
        /\ UNCHANGED <<ended, top, deploy>> /\ holds' \subseteq holds
    BY <1>1, <2>1, <2>2 DEF KeptAway, Backdrop
  <2> QED  BY <2>3 DEF FreshRequest, Current
<1> QED  BY <1>2, MarkersKept, CellsFresh DEF KeptAway

(* While a purge runs whoever writes is on record, so a purge still clean   *)
(* has had nothing written.                                                 *)
LEMMA RequestBase ==
    ASSUME TypeOK, PagesSuit, Timely, FreshBase, NEW r \in Requests, RequestStep(r)
    PROVE  FreshBase'
<1> SUFFICES ASSUME Purging' PROVE
      Since(l1[purge.node][Base], begun)' /\ Since(l2[Base], begun)'
  BY DEF FreshBase
<1>1. Backdrop(r)
  BY StepBackdrop
<1>2. /\ Purging /\ purge'.node = purge.node /\ begun' = begun /\ Busy
      /\ purge.node \in Nodes /\ Base \in Keys
  BY <1>1, KeyFacts DEF Backdrop, Purging, TypeOK, Busy
<1>3. ~Writing(r)
  <2>1. Writing(r) => OnItsWay(req[r]) /\ req[r].spans
    BY <1>2 DEF Writing, Taking, Promote, StorePage, StoreMarker, OnItsWay, Timely,
       TimelyRequest
  <2> QED  BY <1>1, <2>1 DEF Backdrop, Purging
<1>4. l1'[purge.node][Base] \in {l1[purge.node][Base], None}
  BY <1>2, <1>3, L1Writes DEF Writing
<1>5. l2'[Base] \in {l2[Base], None}
  BY <1>2, <1>3, L2Writes DEF Writing
<1>6. None.kind # "page"
  BY BlobFacts
<1> QED  BY <1>2, <1>4, <1>5, <1>6 DEF FreshBase, Since

LEMMA OvertakenFresh ==
    ASSUME TypeOK, NEW r \in Requests, req' = Overtaken
    PROVE  /\ req'[r].pc = req[r].pc /\ req'[r].node = req[r].node
           /\ req'[r].cls = req[r].cls /\ req'[r].since = req[r].since
           /\ req'[r].got = req[r].got /\ req'[r].out = req[r].out
           /\ req'[r].epoch = req[r].epoch
           /\ req'[r].key = req[r].key /\ req'[r].gen = req[r].gen
           /\ req'[r].miss = req[r].miss
           /\ OnItsWay(req[r]) => req'[r].spans
BY OvertakenFacts DEF There, InFlight, OnItsWay

(* No request is of after a purge that ends now.                            *)
LEMMA NoneCurrent ==
    ASSUME TypeOK, Timely, purge.pc # "idle", req' = req, ended' = begun,
           NEW r \in Requests
    PROVE  FreshRequest(req[r])'
<1>1. ended < begun /\ TimelyRequest(req[r], ended, Busy)
      /\ ended \in Nat /\ begun \in Nat /\ req[r].since \in Nat
  BY Times DEF Timely, TimelyPurge
<1>2. req'[r].since # ended'
  BY <1>1 DEF TimelyRequest
<1> QED  BY <1>2 DEF FreshRequest, Current

(* Caches that only lose what they have.                                    *)
LEMMA LosingKept ==
    ASSUME TypeOK, KeptAway, req' \in {req, Overtaken},
           UNCHANGED <<deploy, top, ended>>, holds' \subseteq holds,
           \A n \in Nodes, k \in Keys : l1'[n][k] \in {l1[n][k], None},
           \A k \in Keys : l2'[k] \in {l2[k], None},
           \A n \in holds' : deploy = "plain" => marker'[n] = marker[n]
    PROVE  KeptAway'
<1>1. Since(None, ended) /\ holds \subseteq Nodes
  BY BlobFacts DEF Since, TypeOK
<1>2. ASSUME NEW r \in Requests PROVE FreshRequest(req[r])'
  <2>1. FreshRequest(req[r])
    BY DEF KeptAway
  <2>2. /\ req'[r].pc = req[r].pc /\ req'[r].node = req[r].node
        /\ req'[r].cls = req[r].cls /\ req'[r].since = req[r].since
        /\ req'[r].got = req[r].got /\ req'[r].out = req[r].out
        /\ req'[r].key = req[r].key /\ req'[r].gen = req[r].gen
        /\ req'[r].miss = req[r].miss
    BY OvertakenFresh
  <2> QED  BY <2>1, <2>2 DEF FreshRequest, Current, OnItsWay
<1>3. ASSUME NEW n \in holds' PROVE KeptMarker(n)'
  BY <1>3 DEF KeptAway, KeptMarker
<1>4. ASSUME NEW n \in holds', NEW k \in Keys PROVE FreshCell(n, k)'
  <2>1. FreshCell(n, k) /\ n \in Nodes
    BY <1>1, <1>4 DEF KeptAway
  <2>2. l1'[n][k] \in {l1[n][k], None} /\ l2'[k] \in {l2[k], None}
    BY <2>1
  <2> QED  BY <1>1, <2>1, <2>2 DEF FreshCell, Live
<1> QED  BY <1>2, <1>3, <1>4 DEF KeptAway

LEMMA TaggedKept ==
    ASSUME TypeOK, Timely, KeptAway, FreshBase, PurgeMarker \/ PurgeWalk
    PROVE  KeptAway'
<1>1. /\ req' = req /\ purge.pc # "idle" /\ UNCHANGED <<deploy, top>>
      /\ deploy = "tagged"
  BY MarkerPurged, WalkEffect DEF Timely, TimelyPurge
<1>2. /\ \A n \in Nodes, k \in Keys : l1'[n][k] \in {l1[n][k], None}
      /\ \A k \in Keys : l2'[k] \in {l2[k], None}
  <2>1. CASE PurgeMarker
    BY <2>1, MarkerPurged
  <2>2. CASE PurgeWalk
    BY <2>2, WalkEffect
  <2> QED  BY <2>1, <2>2
<1>3. CASE UNCHANGED <<ended, holds>>
  BY <1>1, <1>2, <1>3, LosingKept
<1>4. CASE ended' = begun /\ holds' = {}
  <2>1. \A r \in Requests : FreshRequest(req[r])'
    BY <1>1, <1>4, NoneCurrent
  <2> QED  BY <1>4, <2>1 DEF KeptAway
<1>5. CASE /\ PurgeWalk /\ ended' = begun /\ holds' = Kept
           /\ \A k \in Keys : k # Base =>
                 l1'[purge.node][k] = None /\ l2'[k] = None
  <2>1. \A r \in Requests : FreshRequest(req[r])'
    BY <1>1, <1>5, NoneCurrent
  <2>2. ASSUME NEW n \in holds' PROVE n = purge.node /\ Purging
    BY <1>1, <1>5, <2>2, WalkEffect DEF Kept, Purging
  <2>3. ASSUME NEW n \in holds', NEW k \in Keys PROVE FreshCell(n, k)'
    <3>1. n = purge.node /\ Since(l1[n][Base], begun) /\ Since(l2[Base], begun)
          /\ n \in Nodes
      BY <2>2, <2>3 DEF FreshBase, TypeOK
    <3>2. l1'[n][Base] = l1[n][Base] /\ l2'[Base] = l2[Base]
      BY <1>5, <3>1, WalkEffect
    <3>3. Since(None, begun)
      BY BlobFacts DEF Since
    <3>4. Since(l1'[n][k], begun) /\ Since(l2'[k], begun)
      BY <1>5, <3>1, <3>2, <3>3
    <3> QED  BY <1>5, <3>4 DEF FreshCell
  <2> QED  BY <1>1, <2>1, <2>3 DEF KeptAway, KeptMarker
<1> QED  BY <1>3, <1>4, <1>5, MarkerPurged, WalkEffect

LEMMA BumpKept ==
    ASSUME TypeOK, PagesSuit, Timely, Numbered(top), PurgeBump
    PROVE  KeptAway'
<1>1. /\ req' = req /\ ended' = begun /\ purge.pc = "bump"
      /\ deploy' = deploy /\ deploy = "plain" /\ holds' = Kept
      /\ UNCHANGED <<l1, l2>> /\ purge.node \in Nodes
      /\ purge.found.gen \in 0..Gens - 1 /\ top \in 0..Gens - 1
  BY BlobFacts DEF PurgeBump, TypeOK, Timely, TimelyPurge, PagesSuit
<1>2. \A r \in Requests : FreshRequest(req[r])'
  BY <1>1, NoneCurrent
<1>3. ASSUME NEW n \in holds'
      PROVE  n = purge.node /\ purge.found.gen = top /\ top < Gens - 1
  BY <1>1, <1>3 DEF Kept
<1>4. PICK g \in 0..Gens - 1 : g = NextGen(purge.found.gen)
                               /\ (purge.found.gen < Gens - 1 => g = purge.found.gen + 1)
  BY <1>1, NextGenFacts
<1>5. ASSUME NEW n \in holds' PROVE g = top + 1 /\ top' = top + 1
  <2>1. g = top + 1
    BY <1>3, <1>4, <1>5
  <2> QED  BY <1>1, <1>4, <2>1 DEF PurgeBump
<1>6. ASSUME NEW n \in holds' PROVE KeptMarker(n)'
  <2>1. PICK fails \in BOOLEAN : SetMarker(purge.node, g, fails)
    BY <1>4 DEF PurgeBump
  <2>2. marker'[purge.node] # None /\ marker'[purge.node].gen = g
    BY <1>1, <2>1, SetMarkerFacts
  <2> QED  BY <1>3, <1>5, <1>6, <2>2 DEF KeptMarker
<1>7. ASSUME NEW n \in holds', NEW k \in Keys PROVE FreshCell(n, k)'
  <2>1. SUFFICES ASSUME Live(k)'
                 PROVE  l1[n][k] = None /\ l2[k] = None
    BY <1>1, BlobFacts DEF FreshCell, Since
  <2>2. k # Base /\ k[1] = top + 1
    BY <1>1, <1>5, <1>7, <2>1 DEF Live
  <2>3. ~KeyUpTo(k, top)
    BY <1>1, <2>2 DEF KeyUpTo
  <2>4. n \in Nodes
    BY <1>1, <1>3, <1>7
  <2> QED  BY <2>3, <2>4 DEF Numbered
<1> QED  BY <1>2, <1>6, <1>7 DEF KeptAway

LEMMA PurgeKept ==
    ASSUME TypeOK, PagesSuit, Timely, Numbered(top), KeptAway, FreshBase, PurgeStep
    PROVE  KeptAway'
<1>1. l1 \in [Nodes -> [Keys -> Blobs]] /\ Purgers \subseteq Nodes
  BY VaryMarkersAssumption DEF TypeOK
<1>2. ASSUME NEW n \in Purgers, PurgeBase(n) PROVE KeptAway'
  <2>1. /\ \A m \in Nodes, k \in Keys : l1'[m][k] \in {l1[m][k], None}
        /\ \A k \in Keys : l2'[k] \in {l2[k], None}
    BY <1>1, <1>2 DEF PurgeBase, TypeOK
  <2> QED  BY <1>2, <2>1, LosingKept DEF PurgeBase
<1>3. CASE PurgeRead
  <2>1. CASE marker[purge.node] = None
    <3>1. holds' = {} /\ req' = req /\ ended' = begun /\ purge.pc # "idle"
      BY <1>3, <2>1 DEF PurgeRead
    <3>2. \A r \in Requests : FreshRequest(req[r])'
      BY <3>1, NoneCurrent
    <3> QED  BY <3>1, <3>2 DEF KeptAway
  <2>2. CASE marker[purge.node] # None
    BY <1>3, <2>2, LosingKept DEF PurgeRead, shm, remote
  <2> QED  BY <2>1, <2>2
<1>4. CASE PurgeFails
  BY <1>4, LosingKept DEF PurgeFails, shm, remote, hist
<1> QED  BY <1>2, <1>3, <1>4, TaggedKept, BumpKept DEF PurgeStep

LEMMA PurgeBaseline ==
    ASSUME TypeOK, FreshBase, PurgeStep
    PROVE  FreshBase'
<1>1. /\ purge \in PurgeType /\ Purgers \subseteq Nodes /\ Base \in Keys
      /\ l1 \in [Nodes -> [Keys -> Blobs]] /\ l2 \in [Keys -> PageType \cup {None}]
      /\ NoPurge.pc = "idle" /\ None.kind # "page"
  BY VaryMarkersAssumption, KeyFacts, BlobFacts, PurgeFacts DEF TypeOK, PurgeType
<1>2. ASSUME NEW n \in Purgers, PurgeBase(n) PROVE FreshBase'
  <2>1. CASE purge' = purge
    BY <1>2, <2>1 DEF PurgeBase, FreshBase, Purging
  <2>2. CASE purge' # purge
    <3>1. /\ purge' = [NoPurge EXCEPT !.pc = "read", !.node = n] /\ n \in Nodes
          /\ req' = Overtaken /\ l2' = [l2 EXCEPT ![Base] = None]
          /\ l1' = [l1 EXCEPT ![n][Base] = None]
      BY <1>1, <1>2, <2>2 DEF PurgeBase
    <3>2. purge'.node = n
      BY <3>1, PurgeFacts
    <3>3. l1'[n][Base] = None /\ l2'[Base] = None
      BY <1>1, <3>1
    <3> QED  BY <1>1, <3>2, <3>3 DEF FreshBase, Since
  <2> QED  BY <2>1, <2>2
<1>3. CASE PurgeMarker
  <2>1. CASE purge' = NoPurge
    BY <1>1, <2>1 DEF FreshBase, Purging
  <2>2. CASE purge' = [purge EXCEPT !.pc = "walk"]
    <3>1. purge'.node = purge.node /\ purge'.clean = purge.clean
      BY <2>2, PurgeFacts
    <3>2. purge.pc = "read" /\ UNCHANGED <<deploy, l1, l2, begun>>
      BY <1>3, MarkerPurged
    <3> QED  BY <3>1, <3>2 DEF FreshBase, Purging, Since
  <2> QED  BY <1>3, <2>1, <2>2, MarkerPurged
<1>4. CASE PurgeRead
  BY <1>4 DEF PurgeRead, FreshBase, Purging
<1>5. CASE PurgeWalk \/ PurgeBump \/ PurgeFails
  BY <1>1, <1>5 DEF PurgeWalk, PurgeBump, PurgeFails, FreshBase, Purging
<1> QED  BY <1>2, <1>3, <1>4, <1>5 DEF PurgeStep

LEMMA SurroundingKept ==
    ASSUME TypeOK, KeptAway, FreshBase, Surroundings \/ UNCHANGED vars
    PROVE  KeptAway' /\ FreshBase'
<1>1. /\ req' = req /\ purge' = purge
      /\ UNCHANGED <<deploy, top, ended, begun>> /\ holds' \subseteq holds
  BY DEF Surroundings, Tick, L2Forgets, EvictMarker, EvictPage, MemoEnds, vars, hist
<1>2. \A n \in Nodes, k \in Keys : l1'[n][k] \in {l1[n][k], None}
  BY DEF Surroundings, Tick, L2Forgets, EvictMarker, EvictPage, MemoEnds, vars, shm,
         TypeOK
<1>3. UNCHANGED l2
  BY DEF Surroundings, Tick, L2Forgets, EvictMarker, EvictPage, MemoEnds, vars,
         remote
<1>5. \A n \in holds' : deploy = "plain" => marker'[n] = marker[n]
  <2>1. ASSUME NEW m \in Nodes, EvictMarker(m)
        PROVE  \A n \in holds' : deploy = "plain" => marker'[n] = marker[n]
    BY <2>1 DEF EvictMarker, TypeOK
  <2>2. CASE ~\E m \in Nodes : EvictMarker(m)
    BY <2>2 DEF Surroundings, Tick, L2Forgets, EvictPage, MemoEnds, vars, shm
  <2> QED  BY <2>1, <2>2
<1>6. KeptAway'
  BY <1>1, <1>2, <1>3, <1>5, LosingKept
<1>7. FreshBase'
  <2>1. Purging' => Purging /\ purge.node \in Nodes
    BY <1>1 DEF Purging, TypeOK
  <2>2. Base \in Keys /\ None.kind # "page"
    BY KeyFacts, BlobFacts
  <2>3. Purging' => l1'[purge.node][Base] \in {l1[purge.node][Base], None}
    BY <1>2, <2>1, <2>2
  <2> QED  BY <1>1, <1>3, <2>1, <2>2, <2>3 DEF FreshBase, Since
<1> QED  BY <1>6, <1>7

(* The parts of the invariant, one resting on the other.                    *)
PurgesTold == Numbered(top) /\ Timely /\ KeptAway /\ FreshBase

LEMMA NextTold == TypeOK /\ PagesSuit /\ PurgesTold /\ [Next]_vars => PurgesTold'
<1> SUFFICES ASSUME TypeOK, PagesSuit, PurgesTold, [Next]_vars PROVE PurgesTold'
  OBVIOUS
<1>1. ASSUME NEW r \in Requests, RequestStep(r) PROVE PurgesTold'
  BY <1>1, RequestNumbered, RequestTimely, RequestKept, RequestBase DEF PurgesTold
<1>2. CASE PurgeStep
  <2>1. TypeOK'
    BY <1>2, PurgeSound
  <2> QED  BY <1>2, <2>1, PurgeNumbered, OtherTimely, PurgeKept, PurgeBaseline
           DEF PurgesTold
<1>3. CASE Surroundings \/ UNCHANGED vars
  BY <1>3, SurroundingNumbered, OtherTimely, SurroundingKept DEF PurgesTold
<1> QED  BY <1>1, <1>2, <1>3, Steps

LEMMA InitTold == Init => PurgesTold
<1> SUFFICES ASSUME Init PROVE PurgesTold
  OBVIOUS
<1>1. TypeOK
  BY InitTypes
<1>2. NoPurge.found = None /\ NoPurge.pc = "idle" /\ None.kind = "none"
      /\ NoBlob.blob = None
  BY <1>1, PurgeFacts, BlobFacts DEF NoBlob
<1>3. ASSUME NEW r \in Requests
      PROVE  /\ req[r].pc = "idle" /\ req[r].key = Base /\ req[r].gen = 0
             /\ req[r].l2gen = -1 /\ req[r].got = NoBlob /\ req[r].since = 0
  <2>1. PICK n \in Nodes, c \in Classes : req[r] = Idle(n, c)
    BY DEF Init
  <2> QED  BY <2>1, IdleFacts
<1>4. Numbered(top)
  <2>1. AtMost(l2marker, 0)
    BY <1>2 DEF Init, AtMost
  <2> QED  BY <1>2, <1>3, <2>1 DEF Init, Numbered, NumberedRequest, AtMost, KeyUpTo
<1>5. Timely
  BY <1>2, <1>3 DEF Init, Timely, TimelyPurge, TimelyRequest
<1>6. KeptAway
  BY <1>3 DEF Init, KeptAway, FreshRequest, Current
<1>7. FreshBase
  BY <1>2 DEF Init, FreshBase, Purging
<1> QED  BY <1>4, <1>5, <1>6, <1>7 DEF PurgesTold

(* At a node that answered a PURGE no request begun since is served a page  *)
(* of before, if its walk ended and missed no variant (tagged) or as long   *)
(* as the node keeps the marker and the generation is new (plain), and      *)
(* nothing of before is written after it began (purge_request(),            *)
(* purge_auto_vary(), tag_purge_complete()).                                *)
THEOREM PurgesKeepAway == Spec => []PurgedStaysAway
<1>1. TypeOK /\ PurgesTold => PurgedStaysAway
  <2> SUFFICES ASSUME TypeOK, PurgesTold, NEW r \in Pages,
                      req[r].node \in holds, ended = req[r].since
               PROVE  req[r].out.epoch >= req[r].since
    BY DEF PurgedStaysAway
  <2>1. r \in Requests /\ req[r].pc = "served" /\ req[r].out.kind = "page"
    BY DEF Pages
  <2>2. FreshRequest(req[r])
    BY <2>1 DEF PurgesTold, KeptAway
  <2> QED  BY <2>1, <2>2 DEF FreshRequest, Current, Since
<1> QED  BY <1>1, SpecSound, InitTold, NextTold, PTL DEF Spec

=============================================================================
