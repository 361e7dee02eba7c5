---------------------------- MODULE StorePolicy ----------------------------
(***************************************************************************)
(* What becomes of an answer of the origin: the header filter judges its   *)
(* headers and copies them, the body filter gathers the body piece by      *)
(* piece, and the last piece computes the windows from the copied headers  *)
(* and stores.  A 304 moves the windows of what is stored already.         *)
(*                                                                         *)
(* One key.  The time and the origin's page may move between any two       *)
(* pieces.  Which requests get this far is module RequestPath's, the zone  *)
(* module LruZone's.                                                       *)
(***************************************************************************)
EXTENDS Integers, Sequences, SequencesExt

CONSTANTS
    Requests,       \* requests at the origin
    Confs,          \* locations, records of ConfType
    Headers,        \* what the origin may say, records of HeaderType
    TtlMax,         \* the largest TTL a blob holds
    Forever,        \* TTL that cache_turbo_valid 0 stands for
    MaxSize,        \* cache_turbo_max_size, in pieces of body
    MaxTime,        \* bound: the clock
    MaxPieces,      \* bound: pieces of a body
    MaxVersion      \* bound: versions of the origin's page

\* A time to live that a header does not give, or cannot: the parsers take
\* digits only.
Unsaid == -1
Said == Nat \cup {Unsaid}

ConfType ==
    [mode : {"respect", "honor", "ignore"}, valid : Nat, mult : 1..8,
     keep : Nat, listed : BOOLEAN, keyed : BOOLEAN, errors : BOOLEAN]

\* Freshness in the order in which it is looked for; "expires" is how far
\* off the date is when the headers come.
HeaderType ==
    [surrogate : Said, cdnShared : Said, cdn : Said, shared : Said, max : Said,
     expires : Int, swr : Said, sie : Said, must : BOOLEAN, forbids : BOOLEAN,
     cookie : {"none", "listed", "other"}, plain : BOOLEAN, error : BOOLEAN]

ASSUME StorePolicyAssumption ==
    /\ \A c \in Confs : c \in ConfType
    /\ \A h \in Headers : h \in HeaderType
    /\ TtlMax \in Nat /\ Forever \in 1..TtlMax /\ MaxSize \in Nat
    /\ MaxTime \in Nat /\ MaxPieces \in Nat /\ MaxVersion \in Nat

VARIABLES
    conf,           \* the location
    now,            \* time
    version,        \* version of the page at the origin
    entry,          \* what is stored, or Nothing
    req             \* the requests

policyVars == <<conf, now, version, entry, req>>

Nothing == [version |-> 0]
Idle == [pc |-> "idle"]

-----------------------------------------------------------------------------
\* add_ttl_clamped() and stale_ttl(): both stay within what a blob holds.
AddClamped(t, d) == IF d > TtlMax - t THEN TtlMax ELSE t + d

StaleTtl(t) ==
    IF t <= 0 THEN 0
    ELSE IF t > TtlMax \div conf.mult THEN TtlMax ELSE t * conf.mult

\* status_ttl(): an error is stored where the location gives its status a TTL.
StatusTtl(h) == IF h.error /\ ~conf.errors THEN Unsaid
                ELSE IF conf.valid = 0 THEN Forever ELSE conf.valid

\* upstream_ttl() and the end of response_policy(): the first that is said.
\* Of an Expires only what is left counts, and a date gone by is 0.
UpstreamTtl(h, seen) ==
    LET left == IF seen + h.expires > now THEN seen + h.expires - now ELSE 0
        said == <<h.surrogate, h.cdnShared, h.cdn, h.shared, h.max>>
                \o <<IF h.expires = Unsaid THEN Unsaid ELSE left>>
        i == SelectInSeq(said, LAMBDA t : t # Unsaid)
    IN  IF i = 0 THEN Unsaid ELSE said[i]

\* response_policy(), cacheable: Set-Cookie and Authorization count in every
\* mode, Cache-Control and the targeted headers unless they are ignored.
CookieRefuses(h) ==
    \/ h.cookie = "other"
    \/ h.cookie = "listed" /\ (~conf.listed \/ conf.keyed)

ControlRefuses(h) ==
    /\ conf.mode # "ignore"
    /\ h.forbids \/ 0 \in {h.surrogate, h.cdnShared, h.cdn, h.shared, h.max}

Cacheable(h, auth) == ~auth /\ ~CookieRefuses(h) /\ ~ControlRefuses(h)

\* header_filter_capture(): "plain" are the gates on the message itself: an
\* encoding, a trailer, ambiguous framing, a Vary it cannot key.
Captured(h, auth) ==
    StatusTtl(h) # Unsaid /\ h.plain /\ Cacheable(h, auth)

\* body_filter_windows(): the TTL, and how long after now the body may be
\* served stale and served instead of an error.
Windows(h, seen) ==
    LET honored == conf.mode = "honor" /\ UpstreamTtl(h, seen) # Unsaid
        said == IF honored THEN UpstreamTtl(h, seen) ELSE StatusTtl(h)
        ttl == IF said > TtlMax THEN TtlMax ELSE said
        heeds == ttl > 0 /\ conf.mode # "ignore"
        stale == IF heeds /\ h.must THEN ttl
                 ELSE IF heeds /\ h.swr # Unsaid THEN AddClamped(ttl, h.swr)
                 ELSE StaleTtl(ttl)
        sie == IF ttl = 0 \/ (heeds /\ h.must) THEN 0
               ELSE IF heeds /\ h.sie # Unsaid THEN AddClamped(ttl, h.sie)
               ELSE IF conf.keep > 0 THEN AddClamped(ttl, conf.keep)
               ELSE 0
    IN  [ttl |-> ttl, stale |-> stale, sie |-> sie]

\* The deadline of L1: no window is no deadline.
Until(window) == IF window = 0 THEN 0 ELSE now + window

Fresh(e) == now < e.fresh
StaleServed(e) ==
    e # Nothing /\ ~Fresh(e) /\ (e.stale = 0 \/ now < e.stale)
Serveable(e) == e # Nothing /\ (e.stale = 0 \/ now < e.stale)

-----------------------------------------------------------------------------
\* A request gets to the origin, perhaps with a version its client has.
Ask(r) ==
    /\ req[r].pc = "idle"
    /\ \E have \in 0..version, auth \in BOOLEAN :
          req' = [req EXCEPT ![r] = [pc |-> "asked", have |-> have, auth |-> auth]]
    /\ UNCHANGED <<conf, now, version, entry>>

\* The header filter on a response with a body.
Answered(r) ==
    /\ req[r].pc = "asked" /\ req[r].have # version
    /\ \E h \in Headers :
          req' = [req EXCEPT ![r] =
                     [pc |-> "body", head |-> h, auth |-> req[r].auth,
                      seen |-> now, version |-> version,
                      captured |-> Captured(h, req[r].auth),
                      kept |-> 0, sent |-> 0]]
    /\ UNCHANGED <<conf, now, version, entry>>

\* header_filter_freshen_304(), and shm_freshen().
Confirmed(r) ==
    /\ req[r].pc = "asked" /\ req[r].have = version
    /\ \E h \in Headers :
          LET honored == conf.mode = "honor" /\ UpstreamTtl(h, now) # Unsaid
              said == IF honored THEN UpstreamTtl(h, now)
                      ELSE IF conf.valid = 0 THEN Forever ELSE conf.valid
              ttl == IF said > TtlMax THEN TtlMax ELSE said
          IN  entry' = IF entry = Nothing THEN Nothing
                       ELSE [entry EXCEPT !.fresh = now + ttl,
                                          !.stale = Until(StaleTtl(ttl)),
                                          !.confirmed = version]
    /\ req' = [req EXCEPT ![r] = Idle]
    /\ UNCHANGED <<conf, now, version>>

\* body_filter_capture(): a piece in a file, or beyond max_size, ends the
\* capture of the whole.
(* Mutant of Gathered: a piece that cannot be kept is left out. *)
GatheredInPart(q, kind) ==
    IF q.captured /\ kind = "memory" /\ q.kept < MaxSize
    THEN [q EXCEPT !.kept = @ + 1, !.sent = @ + 1]
    ELSE [q EXCEPT !.sent = @ + 1]

Gathered(q, kind) ==
    IF q.captured /\ kind = "memory" /\ q.kept < MaxSize
    THEN [q EXCEPT !.kept = @ + 1, !.sent = @ + 1]
    ELSE [q EXCEPT !.captured = FALSE, !.kept = 0, !.sent = @ + 1]

Piece(r) ==
    /\ req[r].pc = "body" /\ req[r].sent < MaxPieces
    /\ \E kind \in {"memory", "file"} :
          req' = [req EXCEPT ![r] = Gathered(@, kind)]
    /\ UNCHANGED <<conf, now, version, entry>>

\* body_filter_store_tail(): an error does not take the place of a body that
\* is still served; an allocation may fail.
Stored(q) ==
    LET w == Windows(q.head, q.seen) IN
    [version |-> q.version, fresh |-> now + w.ttl, stale |-> Until(w.stale),
     blob |-> w, must |-> q.head.must, auth |-> q.auth,
     cookie |-> CookieRefuses(q.head), whole |-> q.kept = q.sent,
     confirmed |-> q.version]

LastPiece(r) ==
    LET q == req[r] IN
    /\ q.pc = "body"
    /\ \/ /\ q.captured /\ ~(q.head.error /\ Serveable(entry))
          /\ entry' = Stored(q)
       \/ UNCHANGED entry
    /\ req' = [req EXCEPT ![r] = Idle]
    /\ UNCHANGED <<conf, now, version>>

\* The connection to the origin ends early: there is no last piece.
Broken(r) ==
    /\ req[r].pc \in {"asked", "body"}
    /\ req' = [req EXCEPT ![r] = Idle]
    /\ UNCHANGED <<conf, now, version, entry>>

Time ==
    /\ now < MaxTime /\ now' = now + 1
    /\ UNCHANGED <<conf, version, entry, req>>

Publish ==
    /\ version < MaxVersion /\ version' = version + 1
    /\ UNCHANGED <<conf, now, entry, req>>

Evicted ==
    /\ entry # Nothing /\ entry' = Nothing
    /\ UNCHANGED <<conf, now, version, req>>

-----------------------------------------------------------------------------
PolicyInit ==
    /\ conf \in Confs /\ now = 0 /\ version = 1 /\ entry = Nothing
    /\ req = [r \in Requests |-> Idle]

PolicyNext ==
    \/ Time \/ Publish \/ Evicted
    \/ \E r \in Requests :
          \/ Ask(r) \/ Answered(r) \/ Confirmed(r)
          \/ Piece(r) \/ LastPiece(r) \/ Broken(r)

PolicySpec == PolicyInit /\ [][PolicyNext]_policyVars

-----------------------------------------------------------------------------
\* A stored body is all of the body the origin sent: whatever was in a file,
\* too large or cut off on the way is not stored in part.
StoredIsWhole == entry # Nothing => entry.whole

\* The windows written into a blob are ones that blob_validate() of a peer
\* accepts: each fits its field, and the stale one includes the fresh one.
PeersAccept ==
    entry # Nothing =>
        /\ entry.blob.ttl \in 0..TtlMax
        /\ entry.blob.stale \in entry.blob.ttl..TtlMax
        /\ entry.blob.sie \in 0..TtlMax

\* In every mode: an answer to a request with credentials, or one that sets a
\* cookie the location does not disregard, is not stored.
FloorsHold == entry # Nothing => ~entry.auth /\ ~entry.cookie

\* What is stored is all of an answer that may be stored, with windows that
\* every node takes (body_filter_store_tail(), header_filter_capture()).
StoredIsSound == StoredIsWhole /\ PeersAccept /\ FloorsHold

-----------------------------------------------------------------------------
(* What comments say, and the code does not do.                            *)

\* "must-revalidate forbids ANY stale serve."
RevalidateHolds ==
    entry # Nothing /\ entry.must /\ conf.mode # "ignore" => ~StaleServed(entry)

\* A 304 is the origin's confirmation that the stored body is still correct.
FreshenedIsCurrent == entry # Nothing => entry.confirmed = entry.version
=============================================================================
