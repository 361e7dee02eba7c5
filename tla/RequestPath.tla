---------------------------- MODULE RequestPath ----------------------------
(***************************************************************************)
(* The way of a request through the module: the phases of the access       *)
(* handler (prologue, L1, L2, only-if-cached, breaker gate, min_uses, cold *)
(* miss), run again from the top each time the request was parked, then    *)
(* the header filter on what the origin answered.  What other workers do   *)
(* to the zone, to L2 and to the breaker may come between any two phases.  *)
(*                                                                         *)
(* One key.  Of a stored body its age and the marks of its blob flags are  *)
(* kept.  The breaker is module Breaker's seen from one request, leases    *)
(* and stubs are module SingleFlight's: here a claim may end in any way    *)
(* they allow.  Whether a response may be stored is module StorePolicy's.  *)
(***************************************************************************)
EXTENDS Integers, FiniteSets

CONSTANTS
    Requests,       \* requests to the key
    Kinds,          \* what a request may ask, records of KindType
    Confs,          \* locations it may be in, records of ConfType
    Stored,         \* marks of bodies that peers and earlier requests store
    MaxBackground,  \* cache_turbo_background_update_max, 0 for no limit
    MaxPolls,       \* bound: polls of a cold wait within lock_timeout
    MaxMoves        \* bound: what other workers and peers do

\* The blob flags: stored for the breaker only, not for requests with an
\* Authorization, made for a HEAD, encoded by the origin.
Marks == {"only", "private", "head", "coded"}

KindType == [auth : BOOLEAN, head : BOOLEAN, decodes : BOOLEAN,
             cachedOnly : BOOLEAN, noStore : BOOLEAN, reval : BOOLEAN,
             oldest : 0..2, class : {"plain", "rule", "dynamic"}]

ConfType == [lock : BOOLEAN, backend : BOOLEAN, background : BOOLEAN,
             minUses : BOOLEAN, serveAuth : BOOLEAN, fallback : BOOLEAN,
             keepStale : BOOLEAN, storeHead : BOOLEAN]

ASSUME RequestPathAssumption ==
    /\ Kinds \subseteq KindType /\ Confs \subseteq ConfType
    /\ Stored \subseteq SUBSET (Marks \ {"only"})
    /\ MaxBackground \in Nat /\ MaxPolls \in Nat /\ MaxMoves \in Nat

VARIABLES
    conf,           \* the location
    breaker,        \* state of the breaker
    holder,         \* request that holds the probe's lease, or NoOne
    l1,             \* entry in the zone
    l2,             \* entry in L2
    req,            \* the requests
    inflight,       \* bg_inflight
    moves           \* what others have done so far

vars == <<conf, breaker, holder, l1, l2, req, inflight, moves>>

None == [age |-> -1]
NoOne == "no one"

\* Ages: 0 just made, 1 fresh, 2 stale but serveable, 3 expired but within
\* stale-if-error or keep_stale, 4 past everything.
Entry(marks) == [age |-> 0, marks |-> marks]
Fresh(e) == e.age \in {0, 1}
Stale(e) == e.age = 2
OnError(e) == e.age \in 0..3 /\ conf.keepStale

Start(k) ==
    [pc |-> "prologue", kind |-> k, known |-> FALSE, only |-> FALSE,
     reval |-> FALSE, l2 |-> "unasked", got |-> None, present |-> FALSE,
     lock |-> "none", armed |-> None, armDone |-> FALSE, sie |-> None,
     verdict |-> "none", probe |-> FALSE, minPassed |-> FALSE,
     skip |-> FALSE, polls |-> 0, warm |-> {},
     slots |-> 0, by |-> "none", body |-> None, saw |-> FALSE]

-----------------------------------------------------------------------------
\* max-age, min-fresh and max-stale of the request: the oldest age it takes.
Tolerates(k, e) == e.age <= k.oldest

\* What serve() and sie_rewrite() both look at.
ClientRefuses(k, e) ==
    \/ k.auth /\ "private" \in e.marks
    \/ ~k.head /\ "head" \in e.marks
    \/ ~k.decodes /\ "coded" \in e.marks

(* Mutant of ServeRefuses: the mark of the breaker is not looked at. *)
ServeRefusesNoMark(k, e, by) == ClientRefuses(k, e)

ServeRefuses(k, e, by) ==
    \/ "only" \in e.marks /\ by # "breaker"
    \/ ClientRefuses(k, e)

(* Mutant of SieRefuses: stale-if-error overlooks for whom the body is. *)
SieRefusesNothing(k, e) == FALSE

SieRefuses(k, e) == ClientRefuses(k, e)

\* The ends of a phase, a pair of the request and of bg_inflight each.
Goto(q, pc) == {<<[q EXCEPT !.pc = pc], inflight>>}

\* The handler is done with a request: of its context only what is asked from
\* here on, of one that goes to the origin and of one that has its answer.
Kept(q) ==
    [Start(q.kind) EXCEPT !.probe = q.probe, !.saw = q.saw,
                          !.warm = q.warm, !.slots = q.slots]

ToOrigin(q) ==
    [Kept(q) EXCEPT !.pc = "origin", !.known = q.known, !.only = q.only,
                    !.sie = q.sie, !.skip = q.skip, !.verdict = q.verdict]

Over(q, by, e) == [Kept(q) EXCEPT !.pc = "done", !.by = by, !.body = e]

End(q, by) == {<<Over(q, by, None), inflight>>}

(* Mutant of Warmed: a subrequest that fails on the way keeps its slot. *)
WarmedLeaky(q, n, why) ==
    IF MaxBackground # 0 /\ n >= MaxBackground
    THEN {<<q, n>>}
    ELSE {<<q, n + 1>>, <<[q EXCEPT !.warm = @ \cup {why},
                                    !.slots = @ + 1], n + 1>>}

\* warm_one(): no slot, or failing on the way, or a subrequest whose pool
\* gives the slot back, or one that could not register for that.
Warmed(q, n, why) ==
    LET counted == MaxBackground # 0
        running == [q EXCEPT !.warm = @ \cup {why}]
    IN  IF counted /\ n >= MaxBackground
        THEN {<<q, n>>}
        ELSE {<<q, n>>, <<running, n>>}
             \cup IF counted
                  THEN {<<[running EXCEPT !.slots = @ + 1], n + 1>>}
                  ELSE {}

\* The handler gives the request up to the origin: a HEAD may be warmed.
DeclinedFrom(q, n) ==
    IF conf.storeHead /\ q.kind.head
    THEN Warmed(ToOrigin(q), n, "head")
    ELSE {<<ToOrigin(q), n>>}
Declined(q) == DeclinedFrom(q, inflight)

ServedFrom(q, n, e, by) ==
    IF ServeRefuses(q.kind, e, by)
    THEN DeclinedFrom(q, n)
    ELSE {<<Over(q, by, e), n>>}
Served(q, e, by) == ServedFrom(q, inflight, e, by)

Step(r, outs) ==
    \E out \in outs :
        req' = [req EXCEPT ![r] = out[1]] /\ inflight' = out[2]

Unshared == UNCHANGED <<conf, breaker, holder, l1, l2, moves>>

-----------------------------------------------------------------------------
\* access_prologue(): where the request goes first.  A breaker that is
\* half-open is not OPEN here.
PrologueTo(k) ==
    LET down == breaker = "open" IN
    IF k.auth /\ ~conf.serveAuth                 THEN "aside"
    ELSE IF conf.fallback /\ ~down               THEN "fallback"
    ELSE IF k.class = "dynamic"                  THEN "dynamic"
    ELSE IF k.reval /\ k.cachedOnly              THEN "504"
    ELSE IF (k.reval /\ ~down) \/ k.class = "rule" THEN "bypass"
    ELSE "l1"

\* auto_skip, and the no-store of a request that gets as far as where its
\* Cache-Control is read: one that leaves for the fallback's sake does not.
StoresNothing(k, to) ==
    to = "dynamic" \/ (k.noStore /\ to \notin {"aside", "fallback"})

Prologue(r) ==
    LET q == req[r]
        to == PrologueTo(q.kind)
        p == [q EXCEPT !.known = to # "aside",
                       !.only = @ \/ (to # "aside" /\ conf.fallback),
                       !.skip = @ \/ StoresNothing(q.kind, to)]
    IN  /\ q.pc = "prologue"
        /\ \/ to \in {"aside", "fallback", "dynamic", "bypass"}
              /\ Step(r, {<<ToOrigin(p), inflight>>})
           \/ to = "504" /\ Step(r, End(p, "504"))
           \/ to = "l1" /\ Step(r, Goto(p, "l1"))
        /\ Unshared

(* Mutant of Armed: only a body past its window is armed. *)
ArmedExpired(q, e) ==
    [q EXCEPT !.armed = IF q.armDone \/ e.age <= 2 THEN @ ELSE e,
              !.armDone = TRUE,
              !.sie = IF @ = None /\ OnError(e) THEN e ELSE @]

\* access_l1_breaker_arm() and access_l1_sie_arm().
Armed(q, e) ==
    [q EXCEPT !.armed = IF q.armDone THEN @ ELSE e,
              !.armDone = TRUE,
              !.sie = IF @ = None /\ OnError(e) THEN e ELSE @]

\* access_l1_serve_stale(): a refresh in the background leaves the answer
\* stale, one in the foreground is this request.
Refreshed(q, e) ==
    IF conf.background
    THEN UNION {ServedFrom(w[1], w[2], e, "stale") :
                    w \in Warmed(q, inflight, "refresh")}
    ELSE Declined(q)

StaleArm(q, e) ==
    IF q.lock \in {"won", "down"}
    THEN Refreshed(q, e)
    ELSE Served(q, e, "stale")
         \cup IF q.lock = "none"
              THEN Refreshed(q, e)
                   \cup IF conf.backend THEN Goto(q, "locking") ELSE {}
              ELSE {}

\* access_l1_req_bounds(): an entry too old for the request, but not for us.
Bounded(q, e) ==
    [q EXCEPT !.reval = @ \/ (e.age \in 0..2 /\ ~Tolerates(q.kind, e))]

L1(r) ==
    LET q == Bounded(req[r], l1)
        serveable == ~q.only /\ Tolerates(q.kind, l1)
    IN  /\ req[r].pc = "l1"
        /\ \/ l1 = None /\ Step(r, Goto(req[r], "l2"))
           \/ l1 # None /\ serveable /\ Fresh(l1) /\ Step(r, Served(q, l1, "fresh"))
           \/ l1 # None /\ serveable /\ Stale(l1) /\ Step(r, StaleArm(q, l1))
           \/ /\ l1 # None /\ ~(serveable /\ l1.age \in 0..2)
              /\ Step(r, Goto([Armed(q, l1) EXCEPT !.saw = TRUE], "l2"))
        /\ Unshared

\* access_l2_neg_memo() and access_l2_get(): the memo answers, the request is
\* parked, or the client cannot ask.
AskL2(r) ==
    LET q == req[r] IN
    /\ q.pc = "l2" /\ conf.backend /\ q.l2 = "unasked"
    /\ \/ Step(r, Goto(q, "asking"))
       \/ q.polls = 0 /\ Step(r, Goto([q EXCEPT !.l2 = "declined"], "oic"))
       \/ Step(r, Goto(q, "oic"))
    /\ Unshared

PassL2(r) ==
    LET q == req[r] IN
    /\ q.pc = "l2"
    /\ ~conf.backend \/ q.l2 = "declined"
    /\ Step(r, Goto(q, "oic"))
    /\ Unshared

\* access_l2_expired_arm(): a copy past its window arms, and a wait that has
\* been polling for it need not go on.
ExpiredInL2(r) ==
    LET q == req[r] IN
    /\ q.pc = "l2" /\ conf.backend /\ q.l2 = "hit" /\ q.got.age > 2
    /\ Step(r, Goto([Armed(q, q.got) EXCEPT !.present = TRUE, !.saw = TRUE],
                    "oic"))
    /\ Unshared

\* access_l2_promote_serve(): an entry no older than L1's goes into L1 and is
\* served; one outside the request's bounds is not looked at again.
PromoteServe(r) ==
    LET q == req[r]
        e == q.got
    IN  /\ q.pc = "l2" /\ conf.backend /\ q.l2 = "hit" /\ e.age \in 0..2
        /\ \/ /\ Tolerates(q.kind, e)
              /\ l1' = IF l1 # None /\ l1.age < e.age THEN l1 ELSE e
              /\ Step(r, Served([q EXCEPT !.saw = TRUE], e,
                                IF Fresh(e) THEN "fresh" ELSE "stale"))
           \/ /\ ~Tolerates(q.kind, e)
              /\ Step(r, Goto([q EXCEPT !.reval = TRUE], "oic"))
              /\ UNCHANGED l1
        /\ UNCHANGED <<conf, breaker, holder, l2, moves>>

\* access_only_if_cached().
OnlyIfCached(r) ==
    LET q == req[r] IN
    /\ q.pc = "oic"
    /\ \/ ~q.kind.cachedOnly /\ Step(r, Goto(q, "gate"))
       \/ /\ q.kind.cachedOnly /\ q.armed # None /\ breaker = "open"
          /\ Step(r, Served(q, q.armed, "breaker"))
       \/ /\ q.kind.cachedOnly /\ (q.armed = None \/ breaker # "open")
          /\ Step(r, End(q, "504"))
    /\ Unshared
-----------------------------------------------------------------------------
\* shm_breaker_state(): closed; or OPEN, which after breaker_open, or after a
\* probe whose lease ran out, makes this request the probe.
Consult(r) ==
    LET q == req[r] IN
    /\ q.pc = "gate" /\ q.verdict = "none"
    /\ \/ /\ breaker = "closed"
          /\ req' = [req EXCEPT ![r].verdict = "pass"]
          /\ UNCHANGED <<breaker, holder>>
       \/ /\ breaker # "closed"
          /\ breaker' = "half" /\ holder' = r
          /\ req' = [req EXCEPT ![r].verdict = "probe", ![r].probe = TRUE]
       \/ /\ breaker # "closed"
          /\ req' = [req EXCEPT ![r].verdict =
                                    IF q.armed # None THEN "serve" ELSE "fail"]
          /\ UNCHANGED <<breaker, holder>>
    /\ UNCHANGED <<conf, l1, l2, inflight, moves>>

\* brk_ref_drop(): a fallback nobody will want is let go of.
Dropped(q) == [q EXCEPT !.armed = None]

(* Mutant of AfterProbe: the probe joins the queue for the lock. *)
AfterProbeQueues(q) == Goto(Dropped(q), "minuses")

\* access_breaker_gate() once the verdict is known: the probe does not wait
\* for anybody.

AfterProbe(q) == Declined(Dropped(q))

Gate(r) ==
    LET q == req[r] IN
    /\ q.pc = "gate"
    /\ \/ q.verdict = "probe" /\ Step(r, AfterProbe(q))
       \/ q.verdict = "pass" /\ Step(r, Goto(Dropped(q), "minuses"))
       \/ q.verdict = "serve" /\ Step(r, Served(q, q.armed, "breaker"))
       \/ q.verdict = "fail" /\ Step(r, End(q, "503"))
    /\ Unshared

\* A miss below min_uses goes to the origin and is not stored.
BelowMinUses(q) == Declined([q EXCEPT !.skip = TRUE])

\* access_min_uses(), where there is no lock to do the counting with.
MinUses(r) ==
    LET q == req[r]
        counts == conf.minUses /\ ~q.minPassed /\ ~conf.lock
    IN  /\ q.pc = "minuses"
        /\ \/ counts /\ Step(r, BelowMinUses(q))
           \/ Step(r, Goto([q EXCEPT !.minPassed = @ \/ counts], "cold"))
        /\ Unshared

\* cold_wait(): go to the origin when L2 has only an expired copy, or when
\* lock_timeout is over, then with the copy for errors if there is one.
TimedOut(q) ==
    IF q.sie # None THEN Served(q, q.sie, "sie") ELSE Declined(q)

Polling(q) ==
    Goto([q EXCEPT !.polls = @ + 1, !.l2 = "unasked", !.got = None], "waiting")

(* Mutant of ColdWait: every wait gets a lock_timeout of its own. *)
ColdWaitAnew(q) ==
    IF q.polls > 0 /\ q.present
    THEN Declined(q)
    ELSE Polling([q EXCEPT !.polls = 0])

ColdWait(q) ==
    IF q.polls > 0 /\ q.present
    THEN Declined(q)
    ELSE TimedOut(q) \cup IF q.polls < MaxPolls THEN Polling(q) ELSE {}

\* access_cold(): whatever claim() or resolve_miss() can say of the entry.
Claim(q) ==
    LET n == [q EXCEPT !.minPassed = @ \/ conf.minUses]
        raced == l1 # None /\ Fresh(l1)
    IN  (IF conf.minUses /\ ~q.minPassed THEN BelowMinUses(q) ELSE {})
        \cup (IF raced /\ ~q.reval THEN Served(n, l1, "fresh") ELSE {})
        \cup (IF raced /\ q.reval THEN Declined(n) ELSE {})
        \cup (IF raced THEN {}
              ELSE ColdWait(n) \cup Declined(n)
                   \cup IF conf.backend THEN Goto(n, "locking") ELSE {})

Cold(r) ==
    LET q == req[r] IN
    /\ q.pc = "cold"
    /\ \/ ~conf.lock /\ Step(r, Declined(q))
       \/ conf.lock /\ q.lock \in {"won", "down"} /\ Step(r, Declined(q))
       \/ conf.lock /\ q.lock = "lost" /\ Step(r, ColdWait(q))
       \/ conf.lock /\ q.lock = "none" /\ Step(r, Claim(q))
    /\ Unshared

-----------------------------------------------------------------------------
\* What a parked request waits for; each resumes the handler from the top.
Resume(r, q) ==
    /\ req' = [req EXCEPT ![r] = [q EXCEPT !.pc = "prologue"]]
    /\ UNCHANGED inflight /\ Unshared

L2Answers(r) ==
    LET q == req[r] IN
    /\ q.pc = "asking"
    /\ \/ l2 # None /\ Resume(r, [q EXCEPT !.l2 = "hit", !.got = l2])
       \/ Resume(r, [q EXCEPT !.l2 = "declined"])

LockAnswers(r) ==
    LET q == req[r] IN
    /\ q.pc = "locking"
    /\ \E res \in {"won", "lost", "down"} : Resume(r, [q EXCEPT !.lock = res])

WaitEnds(r) == req[r].pc = "waiting" /\ Resume(r, req[r])

-----------------------------------------------------------------------------
\* header_filter_record_breaker(): the holder of the lease moves the breaker,
\* a failure of anybody may be the one that trips it.
Recorded(q, r, bad) ==
    IF q.probe /\ holder = r
    THEN breaker' = (IF bad THEN "open" ELSE "closed") /\ holder' = NoOne
    ELSE /\ holder' = holder
         /\ breaker' \in {breaker} \cup IF bad /\ ~q.probe /\ breaker = "closed"
                                        THEN {"open"} ELSE {}

\* What the store writes: the marks the request gives it and those the
\* response does.
Writes(marks) ==
    /\ l1' = Entry(marks)
    /\ l2' = IF conf.backend THEN Entry(marks) ELSE l2

\* header_filter_capture(): the gates that are about the request.
MayStore(q) ==
    q.known /\ ~q.kind.head /\ ~q.skip /\ ~q.kind.auth

OriginFails(r) ==
    LET q == req[r]
        rescued == q.sie # None /\ ~SieRefuses(q.kind, q.sie)
    IN  /\ q.pc = "origin"
        /\ IF q.known THEN Recorded(q, r, TRUE) ELSE UNCHANGED <<breaker, holder>>
        /\ req' = [req EXCEPT ![r] = IF rescued THEN Over(q, "sie", q.sie)
                                               ELSE Over(q, "origin", None)]
        /\ UNCHANGED <<conf, l1, l2, inflight, moves>>

OriginAnswers(r) ==
    LET q == req[r]
        own == IF q.only THEN {"only"} ELSE {}
    IN  /\ q.pc = "origin"
        /\ IF q.known THEN Recorded(q, r, FALSE) ELSE UNCHANGED <<breaker, holder>>
        /\ req' = [req EXCEPT ![r] = Over(q, "origin", None)]
        /\ \/ MayStore(q) /\ \E m \in Stored : "head" \notin m /\ Writes(own \cup m)
           \/ UNCHANGED <<l1, l2>>
        /\ UNCHANGED <<conf, inflight, moves>>

\* A background subrequest: it has a context of its own, and the headers of
\* the request without its cookies.
WarmEnds(r, why) ==
    LET q == req[r] IN
    /\ why \in q.warm
    /\ req' = [req EXCEPT ![r].warm = @ \ {why}]
    /\ \/ ~q.kind.auth /\ \E m \in Stored : 
             ("head" \in m <=> why = "head") /\ Writes(m)
       \/ UNCHANGED <<l1, l2>>
    /\ UNCHANGED <<conf, breaker, holder, inflight, moves>>

\* The pool of the request and of its subrequests goes, with the slots.
PoolGone(r) ==
    /\ req[r].pc = "done" /\ req[r].warm = {}
    /\ req' = [req EXCEPT ![r].pc = "gone", ![r].slots = 0]
    /\ inflight' = inflight - req[r].slots
    /\ Unshared

-----------------------------------------------------------------------------
\* Bodies that others store: in a location of the fallback every request
\* stores for the breaker only.
StoredBefore ==
    {None} \cup {Entry(m \cup IF conf.fallback THEN {"only"} ELSE {}) :
                    m \in Stored}

\* Other workers, other keys, peers: an entry is stored, evicted or purged,
\* the breaker moves.
Others ==
    /\ moves < MaxMoves /\ moves' = moves + 1
    /\ \/ /\ breaker' \in {"closed", "open", "half"} \ {breaker}
          /\ holder' = NoOne
          /\ UNCHANGED <<l1, l2>>
       \/ l1' \in StoredBefore \ {l1} /\ UNCHANGED <<breaker, holder, l2>>
       \/ /\ conf.backend /\ l2' \in StoredBefore \ {l2}
          /\ UNCHANGED <<breaker, holder, l1>>
    /\ UNCHANGED <<conf, req, inflight>>

Older(e) == IF e.age \in 0..3 THEN [e EXCEPT !.age = @ + 1] ELSE e

Time ==
    /\ l1.age \in 0..3 \/ l2.age \in 0..3
    /\ l1' = Older(l1) /\ l2' = Older(l2)
    /\ UNCHANGED <<conf, breaker, holder, req, inflight, moves>>

-----------------------------------------------------------------------------
Init ==
    /\ conf \in Confs
    /\ breaker \in {"closed", "open"} /\ holder = NoOne
    /\ l1 \in StoredBefore
    /\ l2 \in IF conf.backend THEN StoredBefore ELSE {None}
    /\ req \in [Requests -> {Start(k) : k \in Kinds}]
    /\ inflight = 0 /\ moves = 0

Parked(r) == L2Answers(r) \/ LockAnswers(r) \/ WaitEnds(r)
Phase(r) ==
    \/ Prologue(r) \/ L1(r) \/ AskL2(r) \/ PassL2(r) \/ ExpiredInL2(r)
    \/ PromoteServe(r) \/ OnlyIfCached(r) \/ Consult(r) \/ Gate(r)
    \/ MinUses(r) \/ Cold(r)
Origin(r) ==
    \/ OriginFails(r) \/ OriginAnswers(r) \/ \E why \in {"head", "refresh"} : WarmEnds(r, why)
    \/ PoolGone(r)

Next == Others \/ Time \/ \E r \in Requests : Parked(r) \/ Phase(r) \/ Origin(r)

\* A worker runs what is ready; L2 answers or its timers do; the origin
\* answers or proxy_read_timeout does.
Spec ==
    /\ Init /\ [][Next]_vars
    /\ \A r \in Requests : WF_vars(Parked(r) \/ Phase(r) \/ Origin(r))

-----------------------------------------------------------------------------
EntryType == [age : 0..4, marks : SUBSET Marks]
MaybeEntry == EntryType \cup {None}

Pcs == {"prologue", "l1", "l2", "oic", "gate", "minuses", "cold", "asking",
        "locking", "waiting", "origin", "done", "gone"}

ReqType ==
    [pc : Pcs, kind : KindType, known : BOOLEAN, only : BOOLEAN,
     reval : BOOLEAN, l2 : {"unasked", "hit", "declined"}, got : MaybeEntry,
     present : BOOLEAN, lock : {"none", "won", "lost", "down"},
     armed : MaybeEntry, armDone : BOOLEAN, sie : MaybeEntry,
     verdict : {"none", "pass", "probe", "serve", "fail"}, probe : BOOLEAN,
     minPassed : BOOLEAN, skip : BOOLEAN, polls : Nat,
     warm : SUBSET {"head", "refresh"}, slots : Nat,
     by : {"none", "fresh", "stale", "breaker", "sie", "origin", "503", "504"},
     body : MaybeEntry, saw : BOOLEAN]

TypeOK ==
    /\ conf \in ConfType /\ breaker \in {"closed", "open", "half"}
    /\ holder \in Requests \cup {NoOne}
    /\ l1 \in MaybeEntry /\ l2 \in MaybeEntry
    /\ req \in [Requests -> ReqType]
    /\ inflight \in Nat /\ moves \in Nat

\* Whichever way a stored body reaches a client (L1, L2, a race, the breaker,
\* an error of the origin), it is one this client may have: credentials only
\* with a response that allows it, a HEAD's body only to a HEAD, an encoding
\* only to who decodes it.
AnswerAllowed ==
    \A r \in Requests :
        req[r].body # None => ~ClientRefuses(req[r].kind, req[r].body)

\* A body stored for the breaker only answers nobody while the origin works:
\* it comes from the gate, or instead of an error of the origin.
OnlyWhenOriginDown ==
    \A r \in Requests :
        req[r].body # None /\ "only" \in req[r].body.marks
            => req[r].by \in {"breaker", "sie"}

\* A request that took the probe's lease goes to the origin: it does not
\* wait for another request, and is not answered before the origin was asked.
ProbeReachesOrigin ==
    \A r \in Requests :
        req[r].probe =>
            \/ req[r].pc \in {"gate", "origin"}
            \/ req[r].pc \in {"done", "gone"} /\ req[r].by \in {"origin", "sie"}

\* "Any body beats a 503": a request that the breaker turns away with a 503
\* did not leave a body behind in L1, or an expired one in L2, in any of its
\* passes.
CopyBeats503 == \A r \in Requests : req[r].by = "503" => ~req[r].saw

\* The slots of background subrequests come back whatever failed.
SlotsReturned ==
    (\A r \in Requests : req[r].warm = {} /\ req[r].pc \in {"prologue", "gone"})
        => inflight = 0

\* However often a request is parked and run again, it ends.
RequestsEnd == \A r \in Requests : <>(req[r].pc = "gone")

-----------------------------------------------------------------------------
(* What comments and the README say, and the code does not do.             *)

\* A request of a fallback location that finds a stored body while the
\* breaker is OPEN is not sent to the origin before the gate was asked.
FallbackReachesGate ==
    \A r \in Requests :
        req[r].only /\ req[r].saw /\ req[r].pc = "origin"
            => req[r].verdict # "none"

\* A body stored for the breaker only is served by the breaker only.
OnlyFromBreaker ==
    \A r \in Requests :
        req[r].body # None /\ "only" \in req[r].body.marks
            => req[r].by = "breaker"

\* A request with only-if-cached is never sent to the origin.
CachedOnlyStays ==
    \A r \in Requests : req[r].kind.cachedOnly => req[r].pc # "origin"

\* A request that the gate answers OPEN is not sent to the origin.
OpenIsNoOrigin ==
    \A r \in Requests :
        req[r].verdict \in {"serve", "fail"} => req[r].pc # "origin"

\* A body served as a HIT is within the bounds the request set.
BoundsKept ==
    [][\A r \in Requests :
            req'[r].by = "fresh" /\ req[r].by # "fresh"
                => Tolerates(req[r].kind, req'[r].body)]_vars
=============================================================================
