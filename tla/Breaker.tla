------------------------------ MODULE Breaker ------------------------------
(***************************************************************************)
(* The per-zone circuit breaker of ngx_http_cache_turbo_shm.c: two packed  *)
(* atomic words (breaker_state, breaker_probe) and three plain ones,       *)
(* shared by every nginx worker without a lock.  Each load, store and      *)
(* compare-and-set of breaker_state() and breaker_record() is one action,  *)
(* so that the interleavings of the workers are all there.                 *)
(*                                                                         *)
(* A member of Requests is a request slot: it consults the breaker, may go *)
(* to the origin, reports the outcome, and is reused.  Two requests of one *)
(* worker never interleave inside a call; allowing it adds nothing that    *)
(* two workers could not do.                                               *)
(***************************************************************************)
EXTENDS Integers, FiniteSets

CONSTANTS
    Requests,       \* request slots
    OpenFor,        \* cache_turbo_breaker_open, seconds
    Lease,          \* NGX_HTTP_CACHE_TURBO_BREAKER_PROBE_LEASE
    Threshold,      \* failures in one window that trip the breaker
    Window,         \* cache_turbo_breaker_window, seconds
    StampMod,       \* 2^PROBE_STAMP_BITS
    Epoch,          \* breaker_epoch: the clock when the zone was created
    SplitLoads,     \* TRUE: a worker may be descheduled between its load of
                    \* breaker_state and its load of breaker_probe (the code)
    ClockBack,      \* TRUE: the wall clock may be stepped backwards
    MaxRetries,     \* bound: failed upstream tries before the final answer
    MaxTime,        \* bound: last second of the clock
    MaxGen,         \* bound: last lease generation handed out
    MaxKills        \* bound: workers killed in the middle of a call

ASSUME BreakerAssumption ==
    /\ OpenFor \in Nat /\ Lease \in Nat \ {0} /\ Threshold \in Nat
    /\ Window \in Nat /\ StampMod \in Nat /\ Epoch \in Nat
    /\ SplitLoads \in BOOLEAN /\ ClockBack \in BOOLEAN
    /\ MaxRetries \in Nat /\ MaxTime \in Nat /\ MaxGen \in Nat
    /\ MaxKills \in Nat
    /\ Epoch <= MaxTime
    /\ MaxTime < StampMod

NoProbe == 0        \* NGX_HTTP_CACHE_TURBO_BREAKER_NO_PROBE

VARIABLES
    brk,            \* breaker_state: [gen, st]
    probe,          \* breaker_probe: [gen, stamp], stamp relative to Epoch
    opened_at,      \* breaker_opened_at
    fails,          \* breaker_fails
    window_start,   \* breaker_window_start
    opens,          \* breaker_opens
    clock,          \* ngx_time()
    kills,          \* workers killed so far
    pc,             \* where each request is
    word,           \* its copy of breaker_state
    pword,          \* its copy of breaker_probe
    now,            \* its copy of ngx_time()
    anchor,         \* its copy of breaker_window_start
    token,          \* ctx->brk_probe, the generation of the lease it holds
    ok,             \* outcome it has to report
    left,           \* retry failures it still has to report first
    healthy,        \* history: the generations whose probe was answered
    armed           \* history: the time the present OPEN period starts from

shared == <<brk, probe, opened_at, fails, window_start, opens>>
locals == <<word, pword, now, anchor, token, ok, left>>
history == <<healthy, armed>>
env == <<clock, kills>>
vars == <<brk, probe, opened_at, fails, window_start, opens, clock, kills, pc,
          word, pword, now, anchor, token, ok, left, healthy, armed>>

States == {"CLOSED", "OPEN", "HALF_OPEN"}
Pcs == {"idle", "load_probe", "reclaim", "stamp_reclaimed", "check_window",
        "publish", "promote", "origin", "record", "clear_run", "close",
        "stamp_failed", "reopen", "load_anchor", "anchor", "clear_window",
        "count", "stamp_trip", "trip", "tripped"}
Words == [gen : Nat, st : States]
ProbeWords == [gen : Nat, stamp : Int]
Word0 == [gen |-> 0, st |-> "CLOSED"]
ProbeWord0 == [gen |-> NoProbe, stamp |-> 0]

TypeOK ==
    /\ brk \in Words /\ probe \in ProbeWords
    /\ opened_at \in Int /\ fails \in Nat /\ window_start \in Int
    /\ opens \in Nat /\ clock \in Nat /\ kills \in Nat
    /\ pc \in [Requests -> Pcs]
    /\ word \in [Requests -> Words] /\ pword \in [Requests -> ProbeWords]
    /\ now \in [Requests -> Nat] /\ anchor \in [Requests -> Int]
    /\ token \in [Requests -> Nat]
    /\ ok \in [Requests -> BOOLEAN] /\ left \in [Requests -> Nat]
    /\ healthy \in SUBSET Nat /\ armed \in Int

(* ngx_http_cache_turbo_shm_init_zone(): a zeroed breaker, epoch = now *)
Init ==
    /\ brk = Word0
    /\ probe = ProbeWord0
    /\ opened_at = 0 /\ fails = 0 /\ window_start = 0 /\ opens = 0
    /\ clock = Epoch /\ kills = 0
    /\ pc = [r \in Requests |-> "idle"]
    /\ word = [r \in Requests |-> Word0]
    /\ pword = [r \in Requests |-> ProbeWord0]
    /\ now = [r \in Requests |-> 0]
    /\ anchor = [r \in Requests |-> 0]
    /\ token = [r \in Requests |-> NoProbe]
    /\ ok = [r \in Requests |-> FALSE]
    /\ left = [r \in Requests |-> 0]
    /\ healthy = {} /\ armed = 0

-----------------------------------------------------------------------------
(* ngx_http_cache_turbo_shm_brk_probe_age(): the difference is taken in the *)
(* stamp field, so a stamp in the future reads as almost a full field old.  *)
ProbeAge(p, t) == IF t < Epoch THEN 0 ELSE ((t - Epoch) - p.stamp) % StampMod

(* Mutant of Reclaimable: the lease ends a second early. *)
ReclaimableEarly(w, p, t) ==
    OpenFor > 0 /\ p.gen # NoProbe /\ p.gen = w.gen /\ ProbeAge(p, t) + 1 >= Lease

(* The three-part test that lets a caller take an abandoned lease away.  *)
Reclaimable(w, p, t) ==
    /\ OpenFor > 0
    /\ p.gen # NoProbe
    /\ p.gen = w.gen
    /\ ProbeAge(p, t) >= Lease

Goto(r, l) == pc' = [pc EXCEPT ![r] = l]

(* The stack variables of a call that has returned. *)
Forget(r) ==
    /\ word' = [word EXCEPT ![r] = Word0]
    /\ pword' = [pword EXCEPT ![r] = ProbeWord0]
    /\ now' = [now EXCEPT ![r] = 0]
    /\ anchor' = [anchor EXCEPT ![r] = 0]

(* The request is over, its slot free. *)
Done(r) ==
    /\ Goto(r, "idle")
    /\ Forget(r)
    /\ token' = [token EXCEPT ![r] = NoProbe]
    /\ ok' = [ok EXCEPT ![r] = FALSE]
    /\ left' = [left EXCEPT ![r] = 0]

(* Mutant of AfterLoads: a half-open breaker refuses whatever its lease. *)
AfterLoadsNoReclaim(w, p, t) ==
    CASE w.st = "HALF_OPEN" -> "idle"
      [] w.st = "CLOSED" -> "origin"
      [] w.st = "OPEN" -> IF OpenFor > 0 THEN "check_window" ELSE "idle"

(* The part of breaker_state() between its loads and its first shared      *)
(* write: where a request that holds w, p and t goes next.  An OPEN        *)
(* verdict is answered from the cache or with a 503, a CLOSED one goes to  *)
(* the origin without a token.                                             *)
AfterLoads(w, p, t) ==
    CASE w.st = "HALF_OPEN" -> IF Reclaimable(w, p, t) THEN "reclaim"
                                                       ELSE "idle"
      [] w.st = "CLOSED" -> "origin"
      [] w.st = "OPEN" -> IF OpenFor > 0 THEN "check_window" ELSE "idle"

(* Both loads have been made: go on, or be refused. *)
Loaded(r, w, p) ==
    LET next == AfterLoads(w, p, clock)
    IN  IF next = "idle"
        THEN Done(r)
        ELSE /\ Goto(r, next)
             /\ word' = [word EXCEPT ![r] = w]
             /\ IF next = "origin"
                THEN UNCHANGED <<pword, now>>
                ELSE /\ pword' = [pword EXCEPT ![r] = p]
                     /\ now' = [now EXCEPT ![r] = clock]
             /\ UNCHANGED <<anchor, token, ok, left>>

(* breaker_state(): load of breaker_state.  With SplitLoads FALSE the load *)
(* of breaker_probe that follows is part of the same step.                 *)
LoadWord(r) ==
    /\ pc[r] = "idle"
    /\ IF SplitLoads
       THEN /\ Goto(r, "load_probe")
            /\ word' = [word EXCEPT ![r] = brk]
            /\ UNCHANGED <<pword, now, anchor, token, ok, left>>
       ELSE Loaded(r, brk, probe)
    /\ UNCHANGED <<shared, env, history>>

(* breaker_state(): load of breaker_probe and of the clock. *)
LoadProbe(r) ==
    /\ pc[r] = "load_probe"
    /\ Loaded(r, word[r], probe)
    /\ UNCHANGED <<shared, env, history>>

(* An abandoned lease is demoted to OPEN, by one caller only. *)
Reclaim(r) ==
    /\ pc[r] = "reclaim"
    /\ IF brk = word[r]
       THEN /\ brk' = [brk EXCEPT !.st = "OPEN"]
            /\ word' = [word EXCEPT ![r].st = "OPEN"]
            /\ armed' = 0
            /\ Goto(r, "stamp_reclaimed")
            /\ UNCHANGED <<pword, now, anchor, token, ok, left>>
       ELSE Done(r) /\ UNCHANGED <<brk, armed>>
    /\ UNCHANGED <<probe, opened_at, fails, window_start, opens, env, healthy>>

(* ... which then makes the open window read as elapsed. *)
StampReclaimed(r) ==
    /\ pc[r] = "stamp_reclaimed"
    /\ opened_at' = now[r] - OpenFor
    /\ Goto(r, "check_window")
    /\ UNCHANGED <<brk, probe, fails, window_start, opens, env, locals, history>>

(* Mutant of CheckWindow: the window is still closed at its last second. *)
CheckWindowInclusive(r) ==
    /\ pc[r] = "check_window"
    /\ IF now[r] - opened_at <= OpenFor \/ word[r].gen >= MaxGen
       THEN Done(r)
       ELSE Goto(r, "publish") /\ UNCHANGED locals
    /\ UNCHANGED <<shared, env, history>>

(* An OPEN breaker refuses until open_for has elapsed (and, in the model,  *)
(* once MaxGen leases have been handed out).                               *)
CheckWindow(r) ==
    /\ pc[r] = "check_window"
    /\ IF now[r] - opened_at < OpenFor \/ word[r].gen >= MaxGen
       THEN Done(r)
       ELSE Goto(r, "publish") /\ UNCHANGED locals
    /\ UNCHANGED <<shared, env, history>>

(* The probe word of the next generation is published first ... *)
Publish(r) ==
    /\ pc[r] = "publish"
    /\ IF probe = pword[r]
       THEN /\ probe' = [gen |-> word[r].gen + 1, stamp |-> (now[r] - Epoch) % StampMod]
            /\ Goto(r, "promote")
            /\ UNCHANGED locals
       ELSE Done(r) /\ UNCHANGED probe
    /\ UNCHANGED <<brk, opened_at, fails, window_start, opens, env, history>>

(* Mutant of Promote: a plain store instead of the compare-and-set. *)
PromoteBlind(r) ==
    /\ pc[r] = "promote"
    /\ brk' = [gen |-> word[r].gen + 1, st |-> "HALF_OPEN"]
    /\ token' = [token EXCEPT ![r] = word[r].gen + 1]
    /\ armed' = 0
    /\ Goto(r, "origin")
    /\ pword' = [pword EXCEPT ![r] = ProbeWord0]
    /\ UNCHANGED <<word, now, anchor, ok, left, probe, opened_at, fails,
                   window_start, opens, env, healthy>>

(* ... then the state word: the winner is the probe and goes to the origin. *)
Promote(r) ==
    /\ pc[r] = "promote"
    /\ IF brk = word[r]
       THEN /\ brk' = [gen |-> word[r].gen + 1, st |-> "HALF_OPEN"]
            /\ token' = [token EXCEPT ![r] = word[r].gen + 1]
            /\ armed' = 0
            /\ Goto(r, "origin")
            /\ pword' = [pword EXCEPT ![r] = ProbeWord0]
            /\ UNCHANGED <<word, now, anchor, ok, left>>
       ELSE Done(r) /\ UNCHANGED <<brk, armed>>
    /\ UNCHANGED <<probe, opened_at, fails, window_start, opens, env, healthy>>

-----------------------------------------------------------------------------
(* header_filter_record_breaker(): the origin has answered, after n failed *)
(* upstream tries which are reported first, each without the token.        *)
Respond(r, good, n) ==
    /\ pc[r] = "origin"
    /\ Goto(r, "record")
    /\ ok' = [ok EXCEPT ![r] = good]
    /\ left' = [left EXCEPT ![r] = n]
    /\ healthy' = IF good /\ token[r] # NoProbe THEN healthy \cup {token[r]}
                                                ELSE healthy
    /\ Forget(r)
    /\ UNCHANGED <<shared, env, armed, token>>

(* Mutant of Success: any answer to a probe is a success. *)
SuccessOfProbe(r) == left[r] = 0 /\ (ok[r] \/ token[r] # NoProbe)

(* The arguments of the breaker_record() call under way. *)
Success(r) == ok[r] /\ left[r] = 0
Lent(r) == IF left[r] = 0 THEN token[r] ELSE NoProbe

(* Mutant of OwnsLease: no token matches generation zero. *)
ZeroOwns(r, w) == w.st # "CLOSED" /\ Lent(r) = w.gen

(* The report of the probe whose lease the breaker is in. *)
OwnsLease(r, w) ==
    /\ w.st = "HALF_OPEN"
    /\ Lent(r) # NoProbe
    /\ Lent(r) = w.gen

(* The call returns: to the next one of the same response, or to idle. *)
Return(r) ==
    IF left[r] > 0
    THEN /\ Goto(r, "record")
         /\ left' = [left EXCEPT ![r] = left[r] - 1]
         /\ Forget(r)
         /\ UNCHANGED <<token, ok>>
    ELSE Done(r)

(* breaker_record(): the clock and breaker_state are loaded. *)
Record(r) ==
    /\ pc[r] = "record"
    /\ LET next == CASE Success(r) -> "clear_run"
                     [] ~Success(r) /\ OwnsLease(r, brk) -> "stamp_failed"
                     [] ~Success(r) /\ ~OwnsLease(r, brk) ->
                          IF brk.st = "CLOSED" /\ Threshold > 0 /\ Window > 0
                          THEN "load_anchor" ELSE "return"
       IN  IF next = "return"
           THEN Return(r)
           ELSE /\ Goto(r, next)
                /\ word' = [word EXCEPT ![r] = brk]
                /\ now' = [now EXCEPT ![r] = clock]
                /\ UNCHANGED <<pword, anchor, token, ok, left>>
    /\ UNCHANGED <<shared, env, history>>

(* Success: the failure run is cleared, ... *)
ClearRun(r) ==
    /\ pc[r] = "clear_run"
    /\ fails' = 0
    /\ IF OwnsLease(r, word[r]) THEN Goto(r, "close") /\ UNCHANGED locals
                                ELSE Return(r)
    /\ UNCHANGED <<brk, probe, opened_at, window_start, opens, env, history>>

(* ... and the lease holder closes the breaker. *)
Close(r) ==
    /\ pc[r] = "close"
    /\ brk' = IF brk = word[r] THEN [gen |-> token[r], st |-> "CLOSED"] ELSE brk
    /\ Return(r)
    /\ UNCHANGED <<probe, opened_at, fails, window_start, opens, env, history>>

(* A failed probe: a fresh window is stamped, ... *)
StampFailed(r) ==
    /\ pc[r] = "stamp_failed"
    /\ opened_at' = now[r]
    /\ Goto(r, "reopen")
    /\ UNCHANGED <<brk, probe, fails, window_start, opens, env, locals, history>>

(* ... then the breaker reopened. *)
Reopen(r) ==
    /\ pc[r] = "reopen"
    /\ IF brk = word[r]
       THEN /\ brk' = [gen |-> token[r], st |-> "OPEN"]
            /\ armed' = now[r]
       ELSE UNCHANGED <<brk, armed>>
    /\ Return(r)
    /\ UNCHANGED <<probe, opened_at, fails, window_start, opens, env, healthy>>

(* A failure while CLOSED: the rolling window, re-anchored by one worker. *)
LoadAnchor(r) ==
    /\ pc[r] = "load_anchor"
    /\ anchor' = [anchor EXCEPT ![r] = window_start]
    /\ Goto(r, IF now[r] - window_start >= Window THEN "anchor" ELSE "count")
    /\ UNCHANGED <<shared, env, history, word, pword, now, token, ok, left>>

Anchor(r) ==
    /\ pc[r] = "anchor"
    /\ IF window_start = anchor[r]
       THEN window_start' = now[r] /\ Goto(r, "clear_window")
       ELSE UNCHANGED window_start /\ Goto(r, "count")
    /\ UNCHANGED <<brk, probe, opened_at, fails, opens, env, locals, history>>

ClearWindow(r) ==
    /\ pc[r] = "clear_window"
    /\ fails' = 0
    /\ Goto(r, "count")
    /\ UNCHANGED <<brk, probe, opened_at, window_start, opens, env, locals,
                   history>>

Count(r) ==
    /\ pc[r] = "count"
    /\ fails' = fails + 1
    /\ IF fails + 1 < Threshold THEN Return(r)
                                ELSE Goto(r, "stamp_trip") /\ UNCHANGED locals
    /\ UNCHANGED <<brk, probe, opened_at, window_start, opens, env, history>>

StampTrip(r) ==
    /\ pc[r] = "stamp_trip"
    /\ opened_at' = now[r]
    /\ Goto(r, "trip")
    /\ UNCHANGED <<brk, probe, fails, window_start, opens, env, locals, history>>

(* Mutant of Trip: a plain store instead of the compare-and-set. *)
TripBlind(r) ==
    /\ pc[r] = "trip"
    /\ brk' = [gen |-> word[r].gen, st |-> "OPEN"]
    /\ armed' = now[r]
    /\ Goto(r, "tripped")
    /\ UNCHANGED <<probe, opened_at, fails, window_start, opens, env, healthy,
                   locals>>

(* ... and CLOSED becomes OPEN in the generation that was loaded. *)
Trip(r) ==
    /\ pc[r] = "trip"
    /\ IF brk = [gen |-> word[r].gen, st |-> "CLOSED"]
       THEN /\ brk' = [gen |-> word[r].gen, st |-> "OPEN"]
            /\ armed' = now[r]
            /\ Goto(r, "tripped")
            /\ UNCHANGED locals
       ELSE Return(r) /\ UNCHANGED <<brk, armed>>
    /\ UNCHANGED <<probe, opened_at, fails, window_start, opens, env, healthy>>

(* The trip's winner clears the counter and counts the trip. *)
Tripped(r) ==
    /\ pc[r] = "tripped"
    /\ fails' = 0
    /\ opens' = opens + 1
    /\ Return(r)
    /\ UNCHANGED <<brk, probe, opened_at, window_start, env, history>>

-----------------------------------------------------------------------------
(* The request is aborted or its answer is not the origin's: nothing is    *)
(* reported, a lease it holds is abandoned.                                *)
Abandon(r) ==
    /\ pc[r] = "origin"
    /\ Done(r)
    /\ UNCHANGED <<shared, env, history>>

(* A worker is killed in the middle of a call. *)
Kill(r) ==
    /\ pc[r] \notin {"idle", "origin"}
    /\ kills < MaxKills
    /\ kills' = kills + 1
    /\ Done(r)
    /\ UNCHANGED <<shared, clock, history>>

Tick ==
    /\ clock < MaxTime
    /\ clock' = clock + 1
    /\ UNCHANGED <<shared, kills, pc, locals, history>>

(* settimeofday() or an NTP step. *)
StepBack ==
    /\ ClockBack
    /\ \E t \in 0..(clock - 1) : clock' = t
    /\ UNCHANGED <<shared, kills, pc, locals, history>>

Call(r) ==
    \/ LoadProbe(r) \/ Reclaim(r) \/ StampReclaimed(r) \/ CheckWindow(r)
    \/ Publish(r) \/ Promote(r)
    \/ Record(r) \/ ClearRun(r) \/ Close(r) \/ StampFailed(r) \/ Reopen(r)
    \/ LoadAnchor(r) \/ Anchor(r) \/ ClearWindow(r) \/ Count(r)
    \/ StampTrip(r) \/ Trip(r) \/ Tripped(r)

Answer(r) == \E good \in BOOLEAN, n \in 0..MaxRetries : Respond(r, good, n)

Next ==
    \/ \E r \in Requests : LoadWord(r) \/ Call(r) \/ Answer(r) \/ Abandon(r)
                           \/ Kill(r)
    \/ Tick
    \/ StepBack

Spec == Init /\ [][Next]_vars

(* A worker inside a call runs on, requests keep arriving, time passes, and *)
(* no request stays at the origin for ever: it is answered or given up.     *)
Fairness ==
    /\ \A r \in Requests : WF_vars(LoadWord(r))
    /\ \A r \in Requests : WF_vars(Call(r))
    /\ \A r \in Requests : WF_vars(Answer(r) \/ Abandon(r))
    /\ WF_vars(Tick)

FairSpec == Spec /\ Fairness

-----------------------------------------------------------------------------
(* The refinement: the leases that are out are the tokens requests hold. *)
Abs == INSTANCE AbstractBreaker WITH
           st <- brk.st, gen <- brk.gen,
           out <- {token[r] : r \in Requests} \ {NoProbe}, good <- healthy

(* The lock-free words implement the numbered leases of AbstractBreaker:   *)
(* every step of every interleaving is a step of the state diagram or      *)
(* leaves it alone.                                                        *)
Refines == Abs!Spec

(* One probe per lease.  Requests that were let through to the origin      *)
(* although the breaker was not CLOSED when they looked each hold a lease  *)
(* token of their own: no herd walks past an open breaker, and no two      *)
(* requests can resolve the same lease.                                    *)
OneProbePerLease ==
    /\ \A r \in Requests : pc[r] = "origin" /\ word[r].st # "CLOSED"
                             => token[r] \in 1..brk.gen
    /\ \A r, s \in Requests : r # s /\ token[r] # NoProbe => token[r] # token[s]

(* A breaker that has been open is closed only by the success of the probe *)
(* of the very lease it is in: not by a request that started before the    *)
(* trip, by a superseded probe, or by a failure.                           *)
ClosedByItsProbe ==
    brk.st = "CLOSED" /\ brk.gen # 0 => brk.gen \in healthy

(* A probe at the origin keeps its lease for PROBE_LEASE seconds: until    *)
(* then the breaker stays half-open in the probe's generation, whatever    *)
(* other callers observe, publish or report.  For a clock that is not set  *)
(* back.                                                                   *)
LeaseHonoured ==
    \A r \in Requests :
        pc[r] = "origin" /\ token[r] # NoProbe /\ clock < now[r] + Lease
        => brk = [gen |-> token[r], st |-> "HALF_OPEN"]

(* A caller about to take a lease away from a probe that is still at the    *)
(* origin has seen the clock PROBE_LEASE seconds past the grant ("a        *)
(* BACKWARDS wall-clock step must not reclaim a live lease").              *)
ReclaimsOnlyExpired ==
    \A r, s \in Requests :
        /\ pc[r] = "origin" /\ token[r] # NoProbe /\ brk.gen = token[r]
        /\ pc[s] = "reclaim" /\ word[s] = brk
        => now[s] >= now[r] + Lease

(* breaker_opens counts each outage once: there is one trip between two    *)
(* probe leases, however many workers reach the threshold together.        *)
OneTripPerLease == opens <= brk.gen + 1

(* A half-open breaker has the probe word of its own generation, so that   *)
(* an abandoned lease can be reclaimed ("the fix is making that mismatch   *)
(* unreachable", comment H-2 in breaker_state()).                          *)
HalfOpenPaired == brk.st = "HALF_OPEN" => probe.gen = brk.gen

(* Whoever sees OPEN sees a deadline at least as new as the outage: the    *)
(* publish-before-CAS rule of breaker_record().                            *)
OpenDeadlineFresh == brk.st = "OPEN" => opened_at >= armed

(* A half-open breaker does not stay so: the probe reports, or its lease   *)
(* runs out and is taken over.  Stated for leases that can run out before  *)
(* the clock's bound.                                                      *)
HalfOpenResolves ==
    \A g \in 1..MaxGen :
        brk = [gen |-> g, st |-> "HALF_OPEN"] /\ clock + Lease <= MaxTime
        ~> brk # [gen |-> g, st |-> "HALF_OPEN"]

(* An open breaker is probed once its window has passed. *)
OpenIsProbed ==
    \A g \in 0..(MaxGen - 1) :
        brk = [gen |-> g, st |-> "OPEN"] /\ clock + OpenFor <= MaxTime
        ~> brk # [gen |-> g, st |-> "OPEN"]

=============================================================================
