--------------------------- MODULE BreakerProofs ---------------------------
(***************************************************************************)
(* Proofs about Breaker for any number of requests, any timing parameters  *)
(* and both values of SplitLoads and ClockBack: type correctness, the      *)
(* lease invariant, the refinement of AbstractBreaker, the count of        *)
(* outages, and what ends a lease; and for the behaviours in which the     *)
(* clock is not set back, that a live lease is honoured.                   *)
(***************************************************************************)
EXTENDS Breaker, FiniteSetTheorems, TLAPS

(* The two halves of TypeOK: the zone's words and the requests' variables. *)
SharedOK ==
    /\ brk \in Words /\ probe \in ProbeWords
    /\ opened_at \in Int /\ fails \in Nat /\ window_start \in Int
    /\ opens \in Nat /\ clock \in Nat /\ kills \in Nat
    /\ healthy \in SUBSET Nat /\ armed \in Int

LocalsOK ==
    /\ pc \in [Requests -> Pcs]
    /\ word \in [Requests -> Words] /\ pword \in [Requests -> ProbeWords]
    /\ now \in [Requests -> Nat] /\ anchor \in [Requests -> Int]
    /\ token \in [Requests -> Nat]
    /\ ok \in [Requests -> BOOLEAN] /\ left \in [Requests -> Nat]

(* TypeOK is its two halves. *)
LEMMA TypeSplit == TypeOK <=> SharedOK /\ LocalsOK
  BY DEF TypeOK, SharedOK, LocalsOK

(* What is left of a request that is over is well typed. *)
LEMMA DoneType ==
    ASSUME LocalsOK, NEW r \in Requests, Done(r)
    PROVE  LocalsOK'
  BY DEF LocalsOK, Done, Goto, Forget, Pcs, Words, States, ProbeWords, Word0,
         ProbeWord0, NoProbe

(* A breaker_record() call that returns leaves a well-typed request. *)
LEMMA ReturnType ==
    ASSUME LocalsOK, NEW r \in Requests, Return(r)
    PROVE  LocalsOK'
<1>1. CASE left[r] > 0
  <2>1. left' \in [Requests -> Nat]
    <3>1. left[r] - 1 \in Nat
      BY <1>1 DEF LocalsOK
    <3>2. left' = [left EXCEPT ![r] = left[r] - 1]
      BY <1>1 DEF Return
    <3> QED  BY <3>1, <3>2 DEF LocalsOK
  <2>2. pc' = [pc EXCEPT ![r] = "record"] /\ Forget(r) /\ UNCHANGED <<token, ok>>
    BY <1>1 DEF Return, Goto
  <2> QED  BY <2>1, <2>2 DEF LocalsOK, Forget, Pcs, Words, States, ProbeWords,
                             Word0, ProbeWord0, NoProbe
<1>2. CASE ~(left[r] > 0)
  BY <1>2, DoneType DEF Return
<1> QED  BY <1>1, <1>2

(* So does the end of the loads of breaker_state(). *)
LEMMA LoadedType ==
    ASSUME LocalsOK, clock \in Nat, NEW r \in Requests, NEW w \in Words,
           NEW p \in ProbeWords, Loaded(r, w, p)
    PROVE  LocalsOK'
<1> DEFINE next == AfterLoads(w, p, clock)
<1>1. next \in {"reclaim", "idle", "origin", "check_window"}
  BY DEF AfterLoads, Words, States
<1>2. CASE next = "idle"
  BY <1>2, DoneType DEF Loaded
<1>3. CASE next # "idle"
  <2>1. pc' = [pc EXCEPT ![r] = next] /\ word' = [word EXCEPT ![r] = w]
        /\ UNCHANGED <<anchor, token, ok, left>>
    BY <1>3 DEF Loaded, Goto
  <2>2. /\ pword' = pword \/ pword' = [pword EXCEPT ![r] = p]
        /\ now' = now \/ now' = [now EXCEPT ![r] = clock]
    BY <1>3 DEF Loaded
  <2> HIDE DEF next
  <2> QED  BY <1>1, <2>1, <2>2 DEF LocalsOK, Pcs
<1> QED  BY <1>2, <1>3

(* Init *)
LEMMA TypeInit == Init => TypeOK
<1> SUFFICES ASSUME Init PROVE TypeOK
  OBVIOUS
<1>1. SharedOK
  BY BreakerAssumption DEF Init, SharedOK, Words, States, ProbeWords, Word0,
                           ProbeWord0, NoProbe
<1>2. LocalsOK
  BY DEF Init, LocalsOK, Pcs, Words, States, ProbeWords, Word0, ProbeWord0, NoProbe
<1> QED  BY <1>1, <1>2, TypeSplit

(* A step of breaker_state(). *)
LEMMA TypeState ==
    ASSUME SharedOK, LocalsOK, NEW r \in Requests,
           LoadWord(r) \/ LoadProbe(r) \/ Reclaim(r) \/ StampReclaimed(r)
             \/ CheckWindow(r) \/ Publish(r) \/ Promote(r)
    PROVE  SharedOK' /\ LocalsOK'
<1>1. CASE LoadWord(r)
  <2>1. SharedOK'
    BY <1>1 DEF LoadWord, SharedOK, shared, env, history
  <2>2. CASE SplitLoads
    BY <1>1, <2>1, <2>2 DEF LoadWord, SharedOK, LocalsOK, Goto, Pcs
  <2>3. CASE ~SplitLoads
    BY <1>1, <2>1, <2>3, LoadedType DEF LoadWord, SharedOK
  <2> QED  BY <2>1, <2>2, <2>3
<1>2. CASE LoadProbe(r)
  <2>1. SharedOK'
    BY <1>2 DEF LoadProbe, SharedOK, shared, env, history
  <2>2. word[r] \in Words
    BY DEF LocalsOK
  <2>3. LocalsOK'
    BY <1>2, <2>2, LoadedType DEF LoadProbe, SharedOK
  <2> QED  BY <2>1, <2>3
<1>3. CASE Reclaim(r)
  <2>1. SharedOK'
    BY <1>3 DEF Reclaim, SharedOK, env, Words, States
  <2>2. CASE brk = word[r]
    BY SMTT(30), <1>3, <2>1, <2>2 DEF Reclaim, LocalsOK, Goto, Pcs, Words, States
  <2>3. CASE brk # word[r]
    BY <1>3, <2>1, <2>3, DoneType DEF Reclaim
  <2> QED  BY <2>1, <2>2, <2>3
<1>4. CASE StampReclaimed(r)
  <2>1. now[r] - OpenFor \in Int
    BY BreakerAssumption DEF LocalsOK
  <2>2. SharedOK'
    BY <1>4, <2>1 DEF StampReclaimed, SharedOK, env, history
  <2>3. LocalsOK'
    BY <1>4 DEF StampReclaimed, LocalsOK, locals, Goto, Pcs
  <2> QED  BY <2>2, <2>3
<1>5. CASE CheckWindow(r)
  <2>1. SharedOK'
    BY <1>5 DEF CheckWindow, SharedOK, shared, env, history
  <2>2. LocalsOK'
    <3>1. CASE Done(r)
      BY <3>1, DoneType
    <3>2. CASE Goto(r, "publish") /\ UNCHANGED locals
      BY <3>2 DEF LocalsOK, locals, Goto, Pcs
    <3> QED  BY <1>5, <3>1, <3>2 DEF CheckWindow
  <2> QED  BY <2>1, <2>2
<1>6. CASE Publish(r)
  <2>1. [gen |-> word[r].gen + 1, stamp |-> (now[r] - Epoch) % StampMod]
          \in ProbeWords
    <3>1. word[r].gen \in Nat /\ now[r] \in Nat
      BY DEF LocalsOK, Words
    <3>2. StampMod \in Nat /\ StampMod > 0 /\ Epoch \in Nat
      BY BreakerAssumption
    <3>3. (now[r] - Epoch) % StampMod \in Int
      BY <3>1, <3>2
    <3> QED  BY <3>1, <3>3 DEF ProbeWords
  <2>2. SharedOK'
    BY <1>6, <2>1 DEF Publish, SharedOK, env, history
  <2>3. LocalsOK'
    <3>1. CASE Done(r)
      BY <3>1, DoneType
    <3>2. CASE Goto(r, "promote") /\ UNCHANGED locals
      BY <3>2 DEF LocalsOK, locals, Goto, Pcs
    <3> QED  BY <1>6, <3>1, <3>2 DEF Publish
  <2> QED  BY <2>2, <2>3
<1>7. CASE Promote(r)
  <2>1. word[r].gen \in Nat
    BY DEF LocalsOK, Words
  <2>2. SharedOK'
    BY <1>7, <2>1 DEF Promote, SharedOK, env, Words, States
  <2>3. CASE brk = word[r]
    <3>1. token' \in [Requests -> Nat]
      BY <1>7, <2>1, <2>3 DEF Promote, LocalsOK
    <3>2. pc' \in [Requests -> Pcs]
      BY <1>7, <2>3 DEF Promote, LocalsOK, Goto, Pcs
    <3>3. pword' \in [Requests -> ProbeWords]
      <4>1. ProbeWord0 \in ProbeWords
        BY DEF ProbeWords, ProbeWord0, NoProbe
      <4> QED  BY <1>7, <2>3, <4>1 DEF Promote, LocalsOK
    <3>4. UNCHANGED <<word, now, anchor, ok, left>>
      BY <1>7, <2>3 DEF Promote
    <3> QED  BY <2>2, <3>1, <3>2, <3>3, <3>4 DEF LocalsOK
  <2>4. CASE brk # word[r]
    BY <1>7, <2>2, <2>4, DoneType DEF Promote
  <2> QED  BY <2>2, <2>3, <2>4
<1> QED  BY <1>1, <1>2, <1>3, <1>4, <1>5, <1>6, <1>7

(* A step of breaker_record(). *)
LEMMA TypeRecord ==
    ASSUME SharedOK, LocalsOK, NEW r \in Requests,
           Record(r) \/ ClearRun(r) \/ Close(r) \/ StampFailed(r) \/ Reopen(r)
             \/ LoadAnchor(r) \/ Anchor(r) \/ ClearWindow(r) \/ Count(r)
             \/ StampTrip(r) \/ Trip(r) \/ Tripped(r)
    PROVE  SharedOK' /\ LocalsOK'
<1>0. /\ word[r] \in Words /\ now[r] \in Int /\ token[r] \in Nat
      /\ \A l \in Pcs : Goto(r, l) /\ UNCHANGED locals => LocalsOK'
  BY DEF LocalsOK, locals, Goto
<1>1. CASE Record(r)
  <2>1. SharedOK'
    BY <1>1 DEF Record, SharedOK, shared, env, history
  <2>2. CASE Return(r)
    BY <2>1, <2>2, ReturnType
  <2>3. CASE ~Return(r)
    <3>1. PICK l \in {"clear_run", "stamp_failed", "load_anchor", "return"} :
             IF l = "return" THEN Return(r)
             ELSE /\ Goto(r, l)
                  /\ word' = [word EXCEPT ![r] = brk]
                  /\ now' = [now EXCEPT ![r] = clock]
                  /\ UNCHANGED <<pword, anchor, token, ok, left>>
      BY <1>1 DEF Record
    <3> QED  BY <2>1, <2>3, <3>1 DEF LocalsOK, SharedOK, Goto, Pcs
  <2> QED  BY <2>2, <2>3
<1>2. CASE ClearRun(r)
  <2>1. SharedOK'
    BY <1>2 DEF ClearRun, SharedOK, env, history
  <2> QED  BY <1>0, <1>2, <2>1, ReturnType DEF ClearRun, Pcs
<1>3. CASE Close(r)
  <2>1. SharedOK'
    BY <1>0, <1>3 DEF Close, SharedOK, env, history, Words, States
  <2> QED  BY <1>3, <2>1, ReturnType DEF Close
<1>4. CASE StampFailed(r)
  <2>1. SharedOK'
    BY <1>0, <1>4 DEF StampFailed, SharedOK, env, history
  <2> QED  BY <1>0, <1>4, <2>1 DEF StampFailed, Pcs
<1>5. CASE Reopen(r)
  <2>1. SharedOK'
    BY <1>0, <1>5 DEF Reopen, SharedOK, env, Words, States
  <2> QED  BY <1>5, <2>1, ReturnType DEF Reopen
<1>6. CASE LoadAnchor(r)
  <2>1. SharedOK'
    BY <1>6 DEF LoadAnchor, SharedOK, shared, env, history
  <2>2. LocalsOK'
    BY <1>6 DEF LoadAnchor, SharedOK, LocalsOK, Goto, Pcs
  <2> QED  BY <2>1, <2>2
<1>7. CASE Anchor(r)
  <2>1. SharedOK'
    BY <1>0, <1>7 DEF Anchor, SharedOK, env, history
  <2> QED  BY <1>0, <1>7, <2>1 DEF Anchor, Pcs
<1>8. CASE ClearWindow(r)
  <2>1. SharedOK'
    BY <1>8 DEF ClearWindow, SharedOK, env, history
  <2> QED  BY <1>0, <1>8, <2>1 DEF ClearWindow, Pcs
<1>9. CASE Count(r)
  <2>1. SharedOK'
    BY <1>9 DEF Count, SharedOK, env, history
  <2> QED  BY <1>0, <1>9, <2>1, ReturnType DEF Count, Pcs
<1>10. CASE StampTrip(r)
  <2>1. SharedOK'
    BY <1>0, <1>10 DEF StampTrip, SharedOK, env, history
  <2> QED  BY <1>0, <1>10, <2>1 DEF StampTrip, Pcs
<1>11. CASE Trip(r)
  <2>1. SharedOK'
    BY <1>0, <1>11 DEF Trip, SharedOK, env, Words, States
  <2> QED  BY <1>0, <1>11, <2>1, ReturnType DEF Trip, Pcs
<1>12. CASE Tripped(r)
  <2>1. SharedOK'
    BY <1>12 DEF Tripped, SharedOK, env, history
  <2> QED  BY <1>12, <2>1, ReturnType DEF Tripped
<1> QED  BY <1>1, <1>2, <1>3, <1>4, <1>5, <1>6, <1>7, <1>8, <1>9, <1>10,
            <1>11, <1>12

(* The other steps: the answers, the aborted and killed, the clock. *)
LEMMA TypeOther ==
    ASSUME SharedOK, LocalsOK,
           \/ \E r \in Requests : Answer(r) \/ Abandon(r) \/ Kill(r)
           \/ Tick \/ StepBack
    PROVE  SharedOK' /\ LocalsOK'
<1>1. ASSUME NEW r \in Requests, Answer(r) PROVE SharedOK' /\ LocalsOK'
  <2>1. PICK good \in BOOLEAN, n \in 0..MaxRetries : Respond(r, good, n)
    BY <1>1 DEF Answer
  <2>2. n \in Nat /\ token[r] \in Nat
    BY BreakerAssumption DEF LocalsOK
  <2>3. SharedOK'
    BY <2>1, <2>2 DEF Respond, SharedOK, shared, env
  <2>4. LocalsOK'
    BY <2>1, <2>2 DEF Respond, LocalsOK, Goto, Forget, Pcs, Words, States,
                      ProbeWords, Word0, ProbeWord0, NoProbe
  <2> QED  BY <2>3, <2>4
<1>2. ASSUME NEW r \in Requests, Abandon(r) PROVE SharedOK' /\ LocalsOK'
  BY <1>2, DoneType DEF Abandon, SharedOK, shared, env, history
<1>3. ASSUME NEW r \in Requests, Kill(r) PROVE SharedOK' /\ LocalsOK'
  BY <1>3, DoneType DEF Kill, SharedOK, shared, history
<1>4. CASE Tick
  BY <1>4 DEF Tick, SharedOK, LocalsOK, shared, locals, history
<1>5. CASE StepBack
  <2>1. clock' \in Nat
    BY <1>5 DEF StepBack, SharedOK
  <2> QED  BY <1>5, <2>1 DEF StepBack, SharedOK, LocalsOK, shared, locals, history
<1> QED  BY <1>1, <1>2, <1>3, <1>4, <1>5

(* Type correctness is inductive. *)
LEMMA TypeNext == TypeOK /\ [Next]_vars => TypeOK'
<1> SUFFICES ASSUME TypeOK, [Next]_vars PROVE TypeOK'
  OBVIOUS
<1>1. SharedOK /\ LocalsOK
  BY DEF TypeOK, SharedOK, LocalsOK
<1>2. SharedOK' /\ LocalsOK'
  <2>1. CASE UNCHANGED vars
    BY <1>1, <2>1 DEF vars, SharedOK, LocalsOK
  <2>2. CASE Next
    BY <1>1, <2>2, TypeState, TypeRecord, TypeOther DEF Next, Call
  <2> QED  BY <2>1, <2>2
<1> QED  BY <1>2 DEF TypeOK, SharedOK, LocalsOK

(* Every variable keeps its type: the words stay packed words, and no       *)
(* counter of breaker_state() or breaker_record() goes below zero.          *)
THEOREM TypeCorrect == Spec => []TypeOK
  BY TypeInit, TypeNext, PTL DEF Spec

-----------------------------------------------------------------------------
(* The lease invariant.  Inside breaker_state() a request has no token;     *)
(* where it is about to promote, close or reopen, its copy of the word and  *)
(* its token fit what it does; and a successful report is in the history.   *)
Asking == {"idle", "load_probe", "reclaim", "stamp_reclaimed", "check_window",
           "publish", "promote"}

Holds(r) == token[r] # NoProbe /\ word[r].st = "HALF_OPEN"
            /\ word[r].gen = token[r] /\ left[r] = 0

RequestInv(r) ==
    /\ token[r] <= brk.gen /\ word[r].gen <= brk.gen
    /\ ok[r] /\ token[r] # NoProbe => token[r] \in healthy
    /\ pc[r] \in Asking => token[r] = NoProbe /\ ~ok[r]
    /\ pc[r] \in {"stamp_reclaimed", "check_window", "publish", "promote"}
         => word[r].st = "OPEN"
    /\ pc[r] = "reclaim" => word[r].st = "HALF_OPEN"
    /\ pc[r] = "origin" /\ word[r].st # "CLOSED" => token[r] # NoProbe
    /\ pc[r] = "clear_run" => ok[r] /\ left[r] = 0
    /\ pc[r] = "close" => ok[r] /\ Holds(r)
    /\ pc[r] \in {"stamp_failed", "reopen"} => Holds(r)

TokensDistinct ==
    \A r, s \in Requests : r # s /\ token[r] # NoProbe => token[r] # token[s]

LeaseInv ==
    /\ TokensDistinct
    /\ ClosedByItsProbe
    /\ \A r \in Requests : RequestInv(r)

(* What a step of request r leaves to the others. *)
Same(r) ==
    \A s \in Requests \ {r} :
        /\ pc'[s] = pc[s] /\ word'[s] = word[s] /\ token'[s] = token[s]
        /\ ok'[s] = ok[s] /\ left'[s] = left[s]

(* A step of one request keeps LeaseInv if it does not take the generation  *)
(* or the history back, gives the request no token but the next, and keeps  *)
(* what is said of the request itself.                                      *)
LEMMA LeaseFrame ==
    ASSUME SharedOK, SharedOK', LocalsOK, LocalsOK', LeaseInv,
           NEW r \in Requests, Same(r),
           brk'.gen >= brk.gen, healthy \subseteq healthy',
           token'[r] \in {NoProbe, token[r], brk.gen + 1},
           ClosedByItsProbe', RequestInv(r)'
    PROVE  LeaseInv'
<1>1. /\ brk.gen \in Nat /\ brk'.gen \in Nat
      /\ \A q \in Requests : /\ token[q] \in Nat /\ token'[q] \in Nat
                             /\ word[q].gen \in Nat
  BY DEF SharedOK, LocalsOK, Words
<1>2. \A q \in Requests : token[q] <= brk.gen
  BY DEF LeaseInv, RequestInv
<1>3. TokensDistinct'
  <2> SUFFICES ASSUME NEW p \in Requests, NEW q \in Requests, p # q,
                      token'[p] # NoProbe
               PROVE  token'[p] # token'[q]
    BY DEF TokensDistinct, NoProbe
  <2>1. \A s \in Requests \ {r} : token'[s] = token[s]
    BY DEF Same
  <2>2. token[p] # NoProbe => token[p] # token[q]
    BY DEF LeaseInv, TokensDistinct
  <2>3. token[q] # NoProbe => token[p] # token[q]
    BY DEF LeaseInv, TokensDistinct
  <2> QED  BY <1>1, <1>2, <2>1, <2>2, <2>3 DEF NoProbe
<1>4. ASSUME NEW s \in Requests \ {r} PROVE RequestInv(s)'
  <2>1. RequestInv(s)
    BY DEF LeaseInv
  <2>2. /\ pc'[s] = pc[s] /\ word'[s] = word[s] /\ token'[s] = token[s]
        /\ ok'[s] = ok[s] /\ left'[s] = left[s]
    BY DEF Same
  <2>3. /\ token'[s] <= brk'.gen /\ word'[s].gen <= brk'.gen
    BY <1>1, <2>1, <2>2 DEF RequestInv
  <2> QED  BY <2>1, <2>2, <2>3 DEF RequestInv, Holds, NoProbe
<1> QED  BY <1>3, <1>4 DEF LeaseInv

(* A request that is over says nothing. *)
LEMMA DoneLease ==
    ASSUME LocalsOK, SharedOK', NEW r \in Requests, Done(r)
    PROVE  Same(r) /\ RequestInv(r)' /\ token'[r] = NoProbe
<1>1. /\ pc'[r] = "idle" /\ word'[r] = Word0 /\ token'[r] = NoProbe
      /\ ok'[r] = FALSE /\ left'[r] = 0
  BY DEF Done, Forget, Goto, LocalsOK
<1>2. Same(r)
  BY DEF Done, Forget, Goto, LocalsOK, Same
<1>3. brk'.gen >= 0
  BY DEF SharedOK, Words
<1> QED  BY <1>1, <1>2, <1>3 DEF RequestInv, Asking, Word0, NoProbe

(* Nor does one that returns to its next report. *)
LEMMA ReturnLease ==
    ASSUME SharedOK, SharedOK', LocalsOK, LeaseInv, NEW r \in Requests,
           Return(r), brk'.gen >= brk.gen, healthy \subseteq healthy'
    PROVE  Same(r) /\ RequestInv(r)' /\ token'[r] \in {NoProbe, token[r]}
<1>1. CASE left[r] > 0
  <2>1. /\ pc'[r] = "record" /\ word'[r] = Word0 /\ token'[r] = token[r]
        /\ ok'[r] = ok[r]
    BY <1>1 DEF Return, Forget, Goto, LocalsOK
  <2>2. Same(r)
    BY <1>1 DEF Return, Forget, Goto, LocalsOK, Same
  <2>3. brk'.gen >= 0 /\ token[r] <= brk'.gen
    BY DEF SharedOK, LocalsOK, Words, LeaseInv, RequestInv
  <2>4. ok[r] /\ token[r] # NoProbe => token[r] \in healthy'
    BY DEF LeaseInv, RequestInv
  <2> QED  BY <2>1, <2>2, <2>3, <2>4 DEF RequestInv, Asking, Word0, NoProbe
<1>2. CASE ~(left[r] > 0)
  BY <1>2, DoneLease DEF Return
<1> QED  BY <1>1, <1>2

(* One that moves on within a call keeps its variables. *)
LEMMA MoveLease ==
    ASSUME LocalsOK, NEW r \in Requests, NEW l \in Pcs, Goto(r, l), UNCHANGED locals
    PROVE  /\ Same(r) /\ pc'[r] = l /\ word'[r] = word[r] /\ token'[r] = token[r]
           /\ ok'[r] = ok[r] /\ left'[r] = left[r]
  BY DEF LocalsOK, Goto, locals, Same

(* LeaseInv at the start *)
LEMMA LeaseInit == Init => LeaseInv
<1> SUFFICES ASSUME Init PROVE LeaseInv
  OBVIOUS
<1>1. TokensDistinct
  BY DEF Init, TokensDistinct
<1>2. ClosedByItsProbe
  BY DEF Init, ClosedByItsProbe, Word0
<1>3. ASSUME NEW r \in Requests PROVE RequestInv(r)
  BY DEF Init, RequestInv, Asking, Word0, NoProbe
<1> QED  BY <1>1, <1>2, <1>3 DEF LeaseInv

(* A step of breaker_state() keeps LeaseInv. *)
LEMMA LeaseState ==
    ASSUME SharedOK, SharedOK', LocalsOK, LocalsOK', LeaseInv, NEW r \in Requests,
           LoadWord(r) \/ LoadProbe(r) \/ Reclaim(r) \/ StampReclaimed(r)
             \/ CheckWindow(r) \/ Publish(r) \/ Promote(r)
    PROVE  LeaseInv'
<1>0. /\ brk.gen \in Nat /\ word[r].gen \in Nat /\ word[r].gen <= brk.gen
      /\ RequestInv(r) /\ ClosedByItsProbe
      /\ pc[r] \in Asking => token[r] = NoProbe /\ ~ok[r]
  BY DEF SharedOK, LocalsOK, Words, LeaseInv, RequestInv
<1>a. ASSUME NEW w \in Words, NEW p, w.gen <= brk.gen, Loaded(r, w, p),
             pc[r] \in Asking, UNCHANGED <<brk, healthy>>
      PROVE  LeaseInv'
  <2> DEFINE next == AfterLoads(w, p, clock)
  <2>1. CASE next = "idle"
    BY <1>0, <1>a, <2>1, DoneLease, LeaseFrame DEF Loaded, ClosedByItsProbe
  <2>2. CASE next # "idle"
    <3>1. /\ next \in {"reclaim", "origin", "check_window"}
          /\ next = "reclaim" => w.st = "HALF_OPEN"
          /\ next = "origin" => w.st = "CLOSED"
          /\ next = "check_window" => w.st = "OPEN"
      BY <2>2 DEF AfterLoads, Words, States
    <3>2. /\ pc' = [pc EXCEPT ![r] = next] /\ word' = [word EXCEPT ![r] = w]
          /\ UNCHANGED <<token, ok, left>>
      BY <1>a, <2>2 DEF Loaded, Goto
    <3> HIDE DEF next
    <3>3. Same(r) /\ pc'[r] = next /\ word'[r] = w /\ token'[r] = token[r]
          /\ ok'[r] = ok[r]
      BY <3>2 DEF Same, LocalsOK
    <3>4. RequestInv(r)'
      BY <1>0, <1>a, <3>1, <3>3 DEF RequestInv, Asking, NoProbe
    <3>5. ClosedByItsProbe'
      BY <1>0, <1>a DEF ClosedByItsProbe
    <3> QED  BY <1>0, <1>a, <3>3, <3>4, <3>5, LeaseFrame
  <2> QED  BY <2>1, <2>2
<1>1. CASE LoadWord(r)
  <2>1. pc[r] \in Asking /\ UNCHANGED <<brk, healthy>>
    BY <1>1 DEF LoadWord, Asking, shared, history
  <2>2. CASE SplitLoads
    <3>1. /\ Same(r) /\ pc'[r] = "load_probe" /\ word'[r] = brk
          /\ token'[r] = token[r] /\ ok'[r] = ok[r]
      BY <1>1, <2>2 DEF LoadWord, Goto, LocalsOK, Same
    <3>2. RequestInv(r)'
      BY <1>0, <2>1, <3>1 DEF RequestInv, Asking, NoProbe
    <3>3. ClosedByItsProbe'
      BY <1>0, <2>1 DEF ClosedByItsProbe
    <3> QED  BY <1>0, <2>1, <3>1, <3>2, <3>3, LeaseFrame
  <2>3. CASE ~SplitLoads
    <3>1. Loaded(r, brk, probe) /\ brk \in Words
      BY <1>1, <2>3 DEF LoadWord, SharedOK
    <3> QED  BY <1>0, <1>a, <2>1, <3>1
  <2> QED  BY <2>2, <2>3
<1>2. CASE LoadProbe(r)
  <2>1. /\ Loaded(r, word[r], probe) /\ word[r] \in Words
        /\ pc[r] \in Asking /\ UNCHANGED <<brk, healthy>>
    BY <1>2 DEF LoadProbe, Asking, shared, history, LocalsOK
  <2> QED  BY <1>0, <1>a, <2>1
<1>3. CASE Reclaim(r)
  <2>1. /\ brk'.gen = brk.gen /\ healthy' = healthy /\ pc[r] \in Asking
        /\ ClosedByItsProbe'
    BY <1>0, <1>3 DEF Reclaim, Asking, ClosedByItsProbe, SharedOK, Words
  <2>2. CASE brk = word[r]
    <3>1. /\ Same(r) /\ pc'[r] = "stamp_reclaimed"
          /\ word'[r].st = "OPEN" /\ word'[r].gen = word[r].gen
          /\ token'[r] = token[r] /\ ok'[r] = ok[r]
      BY <1>3, <2>2 DEF Reclaim, Goto, LocalsOK, Same, Words
    <3>2. RequestInv(r)'
      BY <1>0, <2>1, <3>1 DEF RequestInv, Asking, NoProbe
    <3> QED  BY <1>0, <2>1, <3>1, <3>2, LeaseFrame
  <2>3. CASE brk # word[r]
    BY <1>0, <1>3, <2>1, <2>3, DoneLease, LeaseFrame DEF Reclaim
  <2> QED  BY <2>2, <2>3
<1>b. ASSUME NEW l \in {"check_window", "publish", "promote"},
             Done(r) \/ (Goto(r, l) /\ UNCHANGED locals),
             pc[r] \in {"stamp_reclaimed", "check_window", "publish"},
             UNCHANGED <<brk, healthy>>
      PROVE  LeaseInv'
  <2>1. ClosedByItsProbe'
    BY <1>0, <1>b DEF ClosedByItsProbe
  <2>2. CASE Done(r)
    BY <1>0, <1>b, <2>1, <2>2, DoneLease, LeaseFrame
  <2>3. CASE Goto(r, l) /\ UNCHANGED locals
    <3>1. /\ Same(r) /\ pc'[r] = l /\ word'[r] = word[r] /\ token'[r] = token[r]
          /\ ok'[r] = ok[r] /\ left'[r] = left[r]
      BY <1>b, <2>3, MoveLease DEF Pcs
    <3>2. RequestInv(r)'
      BY <1>0, <1>b, <3>1 DEF RequestInv, Asking, NoProbe
    <3> QED  BY <1>0, <1>b, <2>1, <3>1, <3>2, LeaseFrame
  <2> QED  BY <1>b, <2>2, <2>3
<1>4. CASE StampReclaimed(r)
  BY <1>4, <1>b DEF StampReclaimed, history
<1>5. CASE CheckWindow(r)
  BY <1>5, <1>b DEF CheckWindow, shared, history
<1>6. CASE Publish(r)
  BY <1>6, <1>b DEF Publish, history
<1>7. CASE Promote(r)
  <2>1. healthy' = healthy /\ pc[r] \in Asking
    BY <1>7 DEF Promote, Asking
  <2>2. CASE brk = word[r]
    <3>1. /\ Same(r) /\ pc'[r] = "origin" /\ word'[r] = word[r]
          /\ token'[r] = brk.gen + 1 /\ ok'[r] = ok[r]
          /\ brk'.gen = brk.gen + 1 /\ brk'.st = "HALF_OPEN"
      BY <1>7, <2>2 DEF Promote, Goto, LocalsOK, Same
    <3>2. RequestInv(r)' /\ ClosedByItsProbe'
      BY <1>0, <2>1, <3>1 DEF RequestInv, Asking, NoProbe, ClosedByItsProbe
    <3> QED  BY <1>0, <2>1, <3>1, <3>2, LeaseFrame
  <2>3. CASE brk # word[r]
    <3>1. Done(r) /\ brk' = brk /\ ClosedByItsProbe'
      BY <1>0, <1>7, <2>1, <2>3 DEF Promote, ClosedByItsProbe
    <3> QED  BY <1>0, <2>1, <3>1, DoneLease, LeaseFrame
  <2> QED  BY <2>2, <2>3
<1> QED  BY <1>1, <1>2, <1>3, <1>4, <1>5, <1>6, <1>7

(* A step of breaker_record() keeps LeaseInv. *)
LEMMA LeaseRecord ==
    ASSUME SharedOK, SharedOK', LocalsOK, LocalsOK', LeaseInv, NEW r \in Requests,
           Record(r) \/ ClearRun(r) \/ Close(r) \/ StampFailed(r) \/ Reopen(r)
             \/ LoadAnchor(r) \/ Anchor(r) \/ ClearWindow(r) \/ Count(r)
             \/ StampTrip(r) \/ Trip(r) \/ Tripped(r)
    PROVE  LeaseInv'
<1>0. /\ brk.gen \in Nat /\ word[r].gen \in Nat /\ word[r].gen <= brk.gen
      /\ RequestInv(r) /\ ClosedByItsProbe
  BY DEF SharedOK, LocalsOK, Words, LeaseInv, RequestInv
<1>a. ASSUME Return(r), brk'.gen = brk.gen, healthy' = healthy, ClosedByItsProbe'
      PROVE  LeaseInv'
  BY <1>0, <1>a, ReturnLease, LeaseFrame
<1>b. ASSUME NEW l \in Pcs, Goto(r, l), UNCHANGED locals, brk'.gen = brk.gen,
             healthy' = healthy, ClosedByItsProbe', l \notin Asking,
             l \notin {"origin", "clear_run"},
             l = "close" => ok[r] /\ Holds(r),
             l \in {"stamp_failed", "reopen"} => Holds(r)
      PROVE  LeaseInv'
  <2>1. /\ Same(r) /\ pc'[r] = l /\ word'[r] = word[r] /\ token'[r] = token[r]
        /\ ok'[r] = ok[r] /\ left'[r] = left[r]
    BY <1>b, MoveLease
  <2>2. RequestInv(r)'
    BY <1>0, <1>b, <2>1 DEF RequestInv, Asking, Holds, NoProbe
  <2> QED  BY <1>0, <1>b, <2>1, <2>2, LeaseFrame
<1>c. UNCHANGED <<brk, healthy>> => ClosedByItsProbe'
  BY <1>0 DEF ClosedByItsProbe
<1>1. CASE Record(r)
  <2>1. UNCHANGED <<brk, healthy>> /\ pc[r] = "record"
    BY <1>1 DEF Record, shared, history
  <2>2. CASE Return(r)
    BY <1>a, <1>c, <2>1, <2>2
  <2>3. CASE ~Return(r)
    <3>1. PICK l \in {"clear_run", "stamp_failed", "load_anchor"} :
             /\ Goto(r, l) /\ word' = [word EXCEPT ![r] = brk]
             /\ UNCHANGED <<token, ok, left>>
             /\ l = "clear_run" => Success(r)
             /\ l = "stamp_failed" => OwnsLease(r, brk)
      BY <1>1, <2>3 DEF Record
    <3>2. /\ Same(r) /\ pc'[r] = l /\ word'[r] = brk /\ token'[r] = token[r]
          /\ ok'[r] = ok[r] /\ left'[r] = left[r]
      BY <3>1 DEF Goto, LocalsOK, Same
    <3>3. RequestInv(r)'
      BY <1>0, <2>1, <3>1, <3>2
         DEF RequestInv, Asking, Holds, Success, OwnsLease, Lent, NoProbe
    <3> QED  BY <1>0, <1>c, <2>1, <3>2, <3>3, LeaseFrame
  <2> QED  BY <2>2, <2>3
<1>2. CASE ClearRun(r)
  <2>1. UNCHANGED <<brk, healthy>> /\ ok[r] /\ left[r] = 0
    BY <1>0, <1>2 DEF ClearRun, history, RequestInv
  <2>2. CASE OwnsLease(r, word[r])
    <3>1. Holds(r)
      BY <2>1, <2>2 DEF Holds, OwnsLease, Lent
    <3>2. Goto(r, "close") /\ UNCHANGED locals
      BY <1>2, <2>2 DEF ClearRun
    <3> QED  BY <1>b, <1>c, <2>1, <3>1, <3>2 DEF Pcs, Asking
  <2>3. CASE ~OwnsLease(r, word[r])
    BY <1>2, <1>a, <1>c, <2>1, <2>3 DEF ClearRun
  <2> QED  BY <2>2, <2>3
<1>3. CASE Close(r)
  <2>1. /\ Return(r) /\ healthy' = healthy /\ token[r] = word[r].gen
        /\ token[r] \in healthy
    BY <1>0, <1>3 DEF Close, history, RequestInv, Holds
  <2>2. brk'.gen = brk.gen /\ ClosedByItsProbe'
    BY <1>0, <1>3, <2>1 DEF Close, ClosedByItsProbe
  <2> QED  BY <1>a, <2>1, <2>2
<1>4. CASE StampFailed(r)
  BY <1>0, <1>4, <1>b, <1>c DEF StampFailed, history, RequestInv, Pcs, Asking
<1>5. CASE Reopen(r)
  <2>1. Return(r) /\ healthy' = healthy /\ token[r] = word[r].gen
    BY <1>0, <1>5 DEF Reopen, RequestInv, Holds
  <2>2. brk'.gen = brk.gen /\ ClosedByItsProbe'
    BY <1>0, <1>5, <2>1 DEF Reopen, ClosedByItsProbe
  <2> QED  BY <1>a, <2>1, <2>2
<1>6. CASE LoadAnchor(r)
  <2>1. PICK l \in {"anchor", "count"} : Goto(r, l)
    BY <1>6 DEF LoadAnchor
  <2>2. /\ UNCHANGED <<brk, healthy, word, token, ok, left>>
    BY <1>6 DEF LoadAnchor, shared, history
  <2>3. Same(r) /\ pc'[r] = l
    BY <2>1, <2>2 DEF Goto, LocalsOK, Same
  <2>4. RequestInv(r)'
    BY <1>0, <2>2, <2>3 DEF RequestInv, Asking, Holds, NoProbe
  <2> QED  BY <1>0, <1>c, <2>2, <2>3, <2>4, LeaseFrame
<1>7. CASE Anchor(r)
  BY <1>7, <1>b, <1>c DEF Anchor, history, Pcs, Asking
<1>8. CASE ClearWindow(r)
  BY <1>8, <1>b, <1>c DEF ClearWindow, history, Pcs, Asking
<1>9. CASE Count(r)
  BY <1>9, <1>a, <1>b, <1>c DEF Count, history, Pcs, Asking
<1>10. CASE StampTrip(r)
  BY <1>10, <1>b, <1>c DEF StampTrip, history, Pcs, Asking
<1>11. CASE Trip(r)
  <2>1. brk'.gen = brk.gen /\ healthy' = healthy /\ ClosedByItsProbe'
    BY <1>0, <1>11 DEF Trip, ClosedByItsProbe
  <2> QED  BY <1>11, <1>a, <1>b, <2>1 DEF Trip, Pcs, Asking
<1>12. CASE Tripped(r)
  BY <1>12, <1>a, <1>c DEF Tripped, history
<1> QED  BY <1>1, <1>2, <1>3, <1>4, <1>5, <1>6, <1>7, <1>8, <1>9, <1>10,
            <1>11, <1>12

(* The other steps keep LeaseInv. *)
LEMMA LeaseOther ==
    ASSUME SharedOK, SharedOK', LocalsOK, LocalsOK', LeaseInv,
           \/ \E r \in Requests : Answer(r) \/ Abandon(r) \/ Kill(r)
           \/ Tick \/ StepBack
    PROVE  LeaseInv'
<1>1. ASSUME NEW r \in Requests, Answer(r) PROVE LeaseInv'
  <2>1. PICK good \in BOOLEAN, n \in 0..MaxRetries : Respond(r, good, n)
    BY <1>1 DEF Answer
  <2>2. /\ Same(r) /\ pc'[r] = "record" /\ word'[r] = Word0
        /\ token'[r] = token[r] /\ ok'[r] = good /\ brk' = brk
    BY <2>1 DEF Respond, Goto, Forget, LocalsOK, Same, shared
  <2>3. healthy \subseteq healthy'
        /\ (good /\ token[r] # NoProbe => token[r] \in healthy')
    BY <2>1 DEF Respond
  <2>4. RequestInv(r)'
    <3>1. token[r] <= brk.gen /\ brk.gen >= 0
      BY DEF LeaseInv, RequestInv, SharedOK, Words
    <3> QED  BY <2>2, <2>3, <3>1 DEF RequestInv, Asking, Word0
  <2>5. ClosedByItsProbe'
    BY <2>2, <2>3 DEF LeaseInv, ClosedByItsProbe
  <2>6. brk'.gen >= brk.gen
    BY <2>2 DEF SharedOK, Words
  <2> QED  BY <2>2, <2>3, <2>4, <2>5, <2>6, LeaseFrame
<1>2. ASSUME NEW r \in Requests, Abandon(r) \/ Kill(r) PROVE LeaseInv'
  <2>1. Done(r) /\ UNCHANGED <<brk, healthy>>
    BY <1>2 DEF Abandon, Kill, shared, history
  <2>2. ClosedByItsProbe' /\ brk'.gen >= brk.gen
    BY <2>1 DEF LeaseInv, ClosedByItsProbe, SharedOK, Words
  <2> QED  BY <2>1, <2>2, DoneLease, LeaseFrame
<1>3. CASE Tick \/ StepBack
  BY <1>3 DEF Tick, StepBack, shared, locals, history, LeaseInv, TokensDistinct,
              ClosedByItsProbe, RequestInv, Holds
<1> QED  BY <1>1, <1>2, <1>3

(* The lease invariant is inductive. *)
LEMMA LeaseNext == TypeOK /\ TypeOK' /\ LeaseInv /\ [Next]_vars => LeaseInv'
<1> SUFFICES ASSUME TypeOK, TypeOK', LeaseInv, [Next]_vars PROVE LeaseInv'
  OBVIOUS
<1>1. SharedOK /\ LocalsOK /\ SharedOK' /\ LocalsOK'
  BY DEF TypeOK, SharedOK, LocalsOK
<1>2. CASE UNCHANGED vars
  BY <1>2 DEF vars, LeaseInv, TokensDistinct, ClosedByItsProbe, RequestInv, Holds
<1>3. CASE Next
  BY <1>1, <1>3, LeaseState, LeaseRecord, LeaseOther DEF Next, Call
<1> QED  BY <1>2, <1>3

(* LeaseInv holds throughout. *)
LEMMA LeaseAlways == Spec => [](TypeOK /\ LeaseInv)
  BY TypeInit, TypeNext, LeaseInit, LeaseNext, PTL DEF Spec

(* One probe per lease, whatever the number of workers and the order of     *)
(* their loads, stores and compare-and-sets in breaker_state() and          *)
(* breaker_record(), and whatever the wall clock does.                      *)
THEOREM OneProbe == Spec => []OneProbePerLease
<1>1. TypeOK /\ LeaseInv => OneProbePerLease
  <2> SUFFICES ASSUME TypeOK, LeaseInv PROVE OneProbePerLease
    OBVIOUS
  <2>1. ASSUME NEW r \in Requests, pc[r] = "origin", word[r].st # "CLOSED"
        PROVE  token[r] \in 1..brk.gen
    <3>1. token[r] # 0 /\ token[r] \in Nat /\ brk.gen \in Nat /\ token[r] <= brk.gen
      BY <2>1 DEF TypeOK, Words, LeaseInv, RequestInv, NoProbe
    <3> QED  BY <3>1
  <2> QED  BY <2>1 DEF OneProbePerLease, LeaseInv, TokensDistinct
<1> QED  BY <1>1, LeaseAlways, PTL

(* Only the success of the probe of the lease the breaker is in closes it:  *)
(* the CAS in breaker_record() never closes it for anyone else.             *)
THEOREM ClosedOnlyByProbe == Spec => []ClosedByItsProbe
<1>1. LeaseInv => ClosedByItsProbe
  BY DEF LeaseInv
<1> QED  BY <1>1, LeaseAlways, PTL

-----------------------------------------------------------------------------
(* The leases that are out, as Refines maps them. *)
Out == {token[q] : q \in Requests} \ {NoProbe}

(* A request that is over takes its own lease, and no other, out of Out. *)
LEMMA OutDone ==
    ASSUME LocalsOK, TokensDistinct, NEW r \in Requests, Done(r)
    PROVE  Out' = Out \ {token[r]}
<1>1. token'[r] = NoProbe /\ \A s \in Requests \ {r} : token'[s] = token[s]
  BY DEF Done, LocalsOK
<1>2. \A s \in Requests \ {r} : token[s] # NoProbe => token[s] # token[r]
  BY DEF TokensDistinct
<1> QED  BY <1>1, <1>2 DEF Out

(* A step of one request that leaves brk and the history alone ends a lease *)
(* or stutters.                                                             *)
LEMMA QuietStep ==
    ASSUME LocalsOK, LeaseInv, NEW r \in Requests, UNCHANGED <<brk, healthy>>,
           Done(r) \/ UNCHANGED token
    PROVE  [Abs!Next]_(Abs!avars)
<1>1. CASE UNCHANGED token
  BY <1>1 DEF Abs!avars
<1>2. CASE Done(r)
  <2>1. Out' = Out \ {token[r]}
    BY <1>2, OutDone DEF LeaseInv
  <2>2. CASE token[r] = NoProbe
    <3>1. Out' = Out
      BY <2>1, <2>2 DEF Out
    <3> QED  BY <3>1 DEF Abs!avars, Out
  <2>3. CASE token[r] # NoProbe
    <3>1. PICK g \in Out : g = token[r]
      BY <2>3 DEF Out
    <3>2. Abs!Gone(g)
      BY <2>1, <3>1 DEF Abs!Gone, Out
    <3> QED  BY <3>1, <3>2 DEF Abs!Next, Out
  <2> QED  BY <2>2, <2>3
<1> QED  BY <1>1, <1>2

(* The initial states map to the initial state of AbstractBreaker. *)
LEMMA RefineInit == Init => Abs!Init
<1> SUFFICES ASSUME Init PROVE Abs!Init
  OBVIOUS
<1>1. Out = {}
  BY DEF Init, Out
<1> QED  BY <1>1 DEF Init, Abs!Init, Out, Word0

(* Every step maps to one of its steps or leaves it alone. *)
LEMMA RefineNext ==
    ASSUME TypeOK, LeaseInv, [Next]_vars
    PROVE  [Abs!Next]_(Abs!avars)
<1>0. SharedOK /\ LocalsOK
  BY DEF TypeOK, SharedOK, LocalsOK
<1>1. CASE UNCHANGED vars
  BY <1>1 DEF vars, Abs!avars
<1>2. CASE Tick \/ StepBack
  BY <1>2 DEF Tick, StepBack, shared, locals, history, Abs!avars
<1>3. ASSUME NEW r \in Requests,
             LoadWord(r) \/ Call(r) \/ Answer(r) \/ Abandon(r) \/ Kill(r)
      PROVE  [Abs!Next]_(Abs!avars)
  <2>0. RequestInv(r) /\ TokensDistinct
    BY DEF LeaseInv
  <2>a. Return(r) => Done(r) \/ UNCHANGED token
    BY DEF Return
  <2>1. CASE LoadWord(r) \/ LoadProbe(r)
    <3>1. UNCHANGED <<brk, healthy>>
      BY <2>1 DEF LoadWord, LoadProbe, shared, history
    <3>2. Done(r) \/ UNCHANGED token
      BY <2>1 DEF LoadWord, LoadProbe, Loaded
    <3> QED  BY <1>0, <3>1, <3>2, QuietStep
  <2>2. CASE Reclaim(r)
    <3>1. CASE brk = word[r]
      <4>1. brk.st = "HALF_OPEN" /\ brk'.st = "OPEN" /\ brk'.gen = brk.gen
        BY <1>0, <2>0, <2>2, <3>1 DEF Reclaim, RequestInv, SharedOK, Words
      <4>2. UNCHANGED <<token, healthy>>
        BY <2>2, <3>1 DEF Reclaim
      <4> QED  BY <4>1, <4>2 DEF Abs!Next, Abs!Revoke
    <3>2. CASE brk # word[r]
      BY <1>0, <2>2, <3>2, QuietStep DEF Reclaim
    <3> QED  BY <3>1, <3>2
  <2>3. CASE StampReclaimed(r) \/ CheckWindow(r) \/ Publish(r)
    <3>1. UNCHANGED <<brk, healthy>> /\ (Done(r) \/ UNCHANGED token)
      BY <2>3 DEF StampReclaimed, CheckWindow, Publish, shared, history, locals
    <3> QED  BY <1>0, <3>1, QuietStep
  <2>4. CASE Promote(r)
    <3>1. CASE brk = word[r]
      <4>1. /\ brk.st = "OPEN" /\ brk'.st = "HALF_OPEN" /\ brk'.gen = brk.gen + 1
            /\ token[r] = NoProbe /\ token' = [token EXCEPT ![r] = brk.gen + 1]
            /\ healthy' = healthy
        BY <2>0, <2>4, <3>1 DEF Promote, RequestInv, Asking
      <4>2. brk.gen + 1 # NoProbe
        BY <1>0 DEF SharedOK, Words, NoProbe
      <4>3. Out' = Out \cup {brk.gen + 1}
        BY <1>0, <4>1, <4>2 DEF Out, LocalsOK
      <4>4. Abs!Grant
        BY <4>1, <4>3 DEF Abs!Grant, Out
      <4> QED  BY <4>4 DEF Abs!Next
    <3>2. CASE brk # word[r]
      BY <1>0, <2>4, <3>2, QuietStep DEF Promote
    <3> QED  BY <3>1, <3>2
  <2>5. CASE Answer(r)
    <3>1. PICK good \in BOOLEAN, n \in 0..MaxRetries : Respond(r, good, n)
      BY <2>5 DEF Answer
    <3>2. UNCHANGED <<brk, token>>
      BY <3>1 DEF Respond, shared
    <3>3. CASE good /\ token[r] # NoProbe
      <4>1. PICK g \in Out : g = token[r]
        BY <3>3 DEF Out
      <4>2. Abs!Good(g)
        BY <3>1, <3>2, <3>3, <4>1 DEF Abs!Good, Respond, Out
      <4> QED  BY <4>1, <4>2 DEF Abs!Next, Out
    <3>4. CASE ~(good /\ token[r] # NoProbe)
      <4>1. healthy' = healthy
        BY <3>1, <3>4 DEF Respond
      <4> QED  BY <3>2, <4>1 DEF Abs!avars
    <3> QED  BY <3>3, <3>4
  <2>6. CASE \/ Record(r) \/ ClearRun(r) \/ StampFailed(r) \/ LoadAnchor(r)
             \/ Anchor(r) \/ ClearWindow(r) \/ Count(r) \/ StampTrip(r)
             \/ Tripped(r) \/ Abandon(r) \/ Kill(r)
    <3>1. UNCHANGED <<brk, healthy>>
      BY <2>6 DEF Record, ClearRun, StampFailed, LoadAnchor, Anchor, ClearWindow,
         Count, StampTrip, Tripped, Abandon, Kill, shared, history
    <3>2. Done(r) \/ UNCHANGED token
      BY <2>6, <2>a DEF Record, ClearRun, StampFailed, LoadAnchor, Anchor,
         ClearWindow, Count, StampTrip, Tripped, Abandon, Kill, locals
    <3> QED  BY <1>0, <3>1, <3>2, QuietStep
  <2>7. CASE Close(r) \/ Reopen(r)
    <3>1. Holds(r) /\ Done(r) /\ healthy' = healthy
      BY <2>0, <2>7 DEF Close, Reopen, RequestInv, Holds, Return, history
    <3>2. CASE brk # word[r]
      BY <1>0, <2>7, <3>1, <3>2, QuietStep DEF Close, Reopen
    <3>3. CASE brk = word[r]
      <4>1. /\ brk.st = "HALF_OPEN" /\ token[r] = brk.gen /\ token[r] # NoProbe
            /\ Out' = Out \ {brk.gen} /\ brk.gen \in Out
        <5>1. token[r] = brk.gen /\ token[r] # NoProbe /\ brk.st = "HALF_OPEN"
          BY <3>1, <3>3 DEF Holds
        <5>2. Out' = Out \ {token[r]}
          BY <1>0, <2>0, <3>1, OutDone
        <5>3. token[r] \in Out
          BY <5>1 DEF Out
        <5> QED  BY <5>1, <5>2, <5>3
      <4>2. CASE Close(r)
        <5>1. brk'.st = "CLOSED" /\ brk'.gen = brk.gen /\ brk.gen \in healthy
          BY <2>0, <3>3, <4>1, <4>2 DEF Close, RequestInv
        <5>2. Abs!Recover
          BY <3>1, <4>1, <5>1 DEF Abs!Recover, Out
        <5> QED  BY <5>2 DEF Abs!Next
      <4>3. CASE Reopen(r)
        <5>1. brk'.st = "OPEN" /\ brk'.gen = brk.gen
          BY <3>3, <4>1, <4>3 DEF Reopen
        <5>2. Abs!Refail
          BY <3>1, <4>1, <5>1 DEF Abs!Refail, Out
        <5> QED  BY <5>2 DEF Abs!Next
      <4> QED  BY <2>7, <4>2, <4>3
    <3> QED  BY <3>2, <3>3
  <2>8. CASE Trip(r)
    <3>1. CASE brk = [gen |-> word[r].gen, st |-> "CLOSED"]
      <4>1. /\ brk.st = "CLOSED" /\ brk'.st = "OPEN" /\ brk'.gen = brk.gen
            /\ UNCHANGED <<token, healthy>>
        BY <2>8, <3>1 DEF Trip, locals
      <4> QED  BY <4>1 DEF Abs!Next, Abs!Trip
    <3>2. CASE brk # [gen |-> word[r].gen, st |-> "CLOSED"]
      BY <1>0, <2>8, <2>a, <3>2, QuietStep DEF Trip
    <3> QED  BY <3>1, <3>2
  <2> QED  BY <1>3, <2>1, <2>2, <2>3, <2>4, <2>5, <2>6, <2>7, <2>8 DEF Call
<1> QED  BY <1>1, <1>2, <1>3 DEF Next

(* The lock-free words of breaker_state() and breaker_record() implement    *)
(* the numbered leases of AbstractBreaker.                                  *)
THEOREM ImplementsLeases == Spec => Refines
<1>1. TypeOK /\ LeaseInv /\ [Next]_vars => [Abs!Next]_(Abs!avars)
  BY RefineNext
<1> QED  BY <1>1, RefineInit, LeaseAlways, PTL DEF Spec, Refines, Abs!Spec

-----------------------------------------------------------------------------
(* One trip per lease.  A trip is counted after it has been made, by the    *)
(* one request whose compare-and-set made it; those still on their way to   *)
(* count are part of the invariant, and so is the trip that an open breaker *)
(* may be the result of.                                                    *)
Tripping == {r \in Requests : pc[r] = "tripped"}

TripsLimit(w) == IF w.st = "OPEN" THEN w.gen + 1 ELSE w.gen

TripsCounted ==
    /\ IsFiniteSet(Tripping)
    /\ opens + Cardinality(Tripping) <= TripsLimit(brk)

(* A request may leave Tripping if its trip is not lost from the sum. *)
LEMMA TripsFrame ==
    ASSUME SharedOK, SharedOK', LocalsOK, TripsCounted, NEW r \in Requests,
           NEW l \in Pcs, Goto(r, l), l # "tripped",
           opens' = opens \/ (pc[r] = "tripped" /\ opens' = opens + 1),
           TripsLimit(brk') >= TripsLimit(brk)
    PROVE  TripsCounted'
<1>1. Tripping' = Tripping \ {r}
  BY DEF Tripping, Goto, LocalsOK
<1>2. /\ IsFiniteSet(Tripping) /\ Cardinality(Tripping) \in Nat
      /\ IsFiniteSet(Tripping') /\ Cardinality(Tripping') \in Nat
      /\ Cardinality(Tripping') =
            IF r \in Tripping THEN Cardinality(Tripping) - 1 ELSE Cardinality(Tripping)
  BY <1>1, FS_RemoveElement, FS_CardinalityType DEF TripsCounted
<1>3. r \in Tripping <=> pc[r] = "tripped"
  BY DEF Tripping
<1>4. /\ TripsLimit(brk) \in Nat /\ TripsLimit(brk') \in Nat /\ opens \in Nat
      /\ opens + Cardinality(Tripping) <= TripsLimit(brk)
  BY DEF SharedOK, Words, TripsLimit, TripsCounted
<1>5. opens' + Cardinality(Tripping') <= TripsLimit(brk')
  BY <1>2, <1>3, <1>4
<1> QED  BY <1>2, <1>5 DEF TripsCounted, TripsLimit

(* Where a step that ends or continues a call leads. *)
LEMMA EndGoes ==
    ASSUME NEW r \in Requests, Done(r) \/ Return(r)
    PROVE  \E l \in Pcs : Goto(r, l) /\ l # "tripped"
  BY DEF Done, Return, Pcs

(* Every step but the winning one of Trip keeps the count. *)
LEMMA TripsStep ==
    ASSUME SharedOK, SharedOK', LocalsOK, LeaseInv, TripsCounted,
           NEW r \in Requests,
           LoadWord(r) \/ Call(r) \/ Answer(r) \/ Abandon(r) \/ Kill(r)
    PROVE  TripsCounted'
<1>0. /\ RequestInv(r) /\ brk.gen \in Nat /\ brk.st \in States
      /\ word[r].gen \in Nat
      /\ \A w : w = brk => TripsLimit(w) >= TripsLimit(brk)
  BY DEF LeaseInv, SharedOK, LocalsOK, Words, TripsLimit
<1>a. ASSUME NEW l \in Pcs, Goto(r, l), l # "tripped", opens' = opens,
             TripsLimit(brk') >= TripsLimit(brk)
      PROVE  TripsCounted'
  BY <1>a, TripsFrame
<1>b. ASSUME Done(r) \/ Return(r), opens' = opens,
             TripsLimit(brk') >= TripsLimit(brk)
      PROVE  TripsCounted'
  BY <1>a, <1>b, EndGoes
<1>1. CASE LoadWord(r) \/ LoadProbe(r)
  <2>1. opens' = opens /\ brk' = brk
    BY <1>1 DEF LoadWord, LoadProbe, shared
  <2>2. ASSUME NEW w \in Words, NEW p, Loaded(r, w, p) PROVE TripsCounted'
    <3> DEFINE next == AfterLoads(w, p, clock)
    <3>1. next \in {"idle", "origin", "reclaim", "check_window"}
      BY DEF AfterLoads, Words, States
    <3>2. Done(r) \/ Goto(r, next)
      BY <2>2 DEF Loaded
    <3> HIDE DEF next
    <3> QED  BY <1>0, <1>a, <1>b, <2>1, <3>1, <3>2 DEF Pcs
  <2>3. brk \in Words /\ word[r] \in Words
    BY DEF SharedOK, LocalsOK
  <2>4. CASE Goto(r, "load_probe")
    BY <1>0, <1>a, <2>1, <2>4 DEF Pcs
  <2> QED  BY <1>1, <2>2, <2>3, <2>4 DEF LoadWord, LoadProbe
<1>2. CASE Reclaim(r)
  <2>1. opens' = opens /\ (Done(r) \/ Goto(r, "stamp_reclaimed"))
    BY <1>2 DEF Reclaim
  <2>2. TripsLimit(brk') >= TripsLimit(brk)
    BY <1>0, <1>2 DEF Reclaim, TripsLimit, SharedOK, Words
  <2> QED  BY <1>a, <1>b, <2>1, <2>2 DEF Pcs
<1>3. CASE StampReclaimed(r) \/ CheckWindow(r) \/ Publish(r)
  <2>1. /\ opens' = opens /\ brk' = brk
        /\ \/ Done(r) \/ Goto(r, "check_window") \/ Goto(r, "publish")
           \/ Goto(r, "promote")
    BY <1>3 DEF StampReclaimed, CheckWindow, Publish, shared
  <2> QED  BY <1>0, <1>a, <1>b, <2>1 DEF Pcs
<1>4. CASE Promote(r)
  <2>1. opens' = opens /\ (Done(r) \/ Goto(r, "origin"))
    BY <1>4 DEF Promote
  <2>2. TripsLimit(brk') >= TripsLimit(brk)
    BY <1>0, <1>4 DEF Promote, TripsLimit, RequestInv
  <2> QED  BY <1>a, <1>b, <2>1, <2>2 DEF Pcs
<1>5. CASE Record(r)
  <2>1. /\ opens' = opens /\ brk' = brk
        /\ \/ Return(r) \/ Goto(r, "clear_run") \/ Goto(r, "stamp_failed")
           \/ Goto(r, "load_anchor")
    BY <1>5 DEF Record, shared
  <2> QED  BY <1>0, <1>a, <1>b, <2>1 DEF Pcs
<1>6. CASE Close(r) \/ Reopen(r)
  <2>1. opens' = opens /\ Return(r)
    BY <1>6 DEF Close, Reopen
  <2>2. TripsLimit(brk') >= TripsLimit(brk)
    BY <1>0, <1>6 DEF Close, Reopen, TripsLimit, RequestInv, Holds
  <2> QED  BY <1>b, <2>1, <2>2
<1>7. CASE \/ ClearRun(r) \/ StampFailed(r) \/ LoadAnchor(r) \/ Anchor(r)
           \/ ClearWindow(r) \/ Count(r) \/ StampTrip(r)
  <2>1. opens' = opens /\ brk' = brk
    BY <1>7 DEF ClearRun, StampFailed, LoadAnchor, Anchor, ClearWindow, Count,
                StampTrip, shared
  <2>2. \/ Return(r) \/ Goto(r, "close") \/ Goto(r, "reopen")
        \/ Goto(r, "anchor") \/ Goto(r, "count") \/ Goto(r, "clear_window")
        \/ Goto(r, "stamp_trip") \/ Goto(r, "trip")
    BY <1>7 DEF ClearRun, StampFailed, LoadAnchor, Anchor, ClearWindow, Count,
                StampTrip
  <2> QED  BY <1>0, <1>a, <1>b, <2>1, <2>2 DEF Pcs
<1>8. CASE Trip(r)
  <2>1. CASE brk # [gen |-> word[r].gen, st |-> "CLOSED"]
    BY <1>0, <1>8, <1>b, <2>1 DEF Trip
  <2>2. CASE brk = [gen |-> word[r].gen, st |-> "CLOSED"]
    <3>1. Tripping' = Tripping \cup {r}
      BY <1>8, <2>2 DEF Trip, Tripping, Goto, LocalsOK
    <3>2. /\ IsFiniteSet(Tripping') /\ Cardinality(Tripping') \in Nat
          /\ Cardinality(Tripping) \in Nat
          /\ Cardinality(Tripping') <= Cardinality(Tripping) + 1
      <4>1. IsFiniteSet(Tripping) /\ Cardinality(Tripping) \in Nat
        BY FS_CardinalityType DEF TripsCounted
      <4>2. /\ IsFiniteSet(Tripping')
            /\ Cardinality(Tripping') = IF r \in Tripping THEN Cardinality(Tripping)
                                        ELSE Cardinality(Tripping) + 1
        BY <3>1, <4>1, FS_AddElement
      <4> QED  BY <4>1, <4>2
    <3>3. /\ opens' = opens /\ opens \in Nat
          /\ TripsLimit(brk) = word[r].gen /\ TripsLimit(brk') = word[r].gen + 1
          /\ opens + Cardinality(Tripping) <= TripsLimit(brk)
      BY <1>8, <2>2 DEF Trip, TripsLimit, TripsCounted, SharedOK
    <3>4. opens' + Cardinality(Tripping') <= TripsLimit(brk')
      BY <1>0, <3>2, <3>3
    <3> QED  BY <3>2, <3>4 DEF TripsCounted, TripsLimit
  <2> QED  BY <2>1, <2>2
<1>9. CASE Tripped(r)
  <2>1. /\ brk' = brk /\ pc[r] = "tripped" /\ opens' = opens + 1 /\ Return(r)
    BY <1>9 DEF Tripped
  <2>2. PICK l \in Pcs : Goto(r, l) /\ l # "tripped"
    BY <2>1, EndGoes
  <2> QED  BY <1>0, <2>1, <2>2, TripsFrame
<1>10. CASE Answer(r) \/ Abandon(r) \/ Kill(r)
  <2>1. opens' = opens /\ brk' = brk /\ (Done(r) \/ Goto(r, "record"))
    BY <1>10 DEF Answer, Respond, Abandon, Kill, shared
  <2> QED  BY <1>0, <1>a, <1>b, <2>1 DEF Pcs
<1> QED  BY <1>1, <1>2, <1>3, <1>4, <1>5, <1>6, <1>7, <1>8, <1>9, <1>10 DEF Call

LEMMA TripsInit == Init => TripsCounted
<1> SUFFICES ASSUME Init PROVE TripsCounted
  OBVIOUS
<1>1. Tripping = {}
  BY DEF Init, Tripping
<1> QED  BY <1>1, FS_EmptySet DEF Init, TripsCounted, TripsLimit, Word0

LEMMA TripsNext ==
    TypeOK /\ TypeOK' /\ LeaseInv /\ TripsCounted /\ [Next]_vars => TripsCounted'
<1> SUFFICES ASSUME TypeOK, TypeOK', LeaseInv, TripsCounted, [Next]_vars
             PROVE  TripsCounted'
  OBVIOUS
<1>1. SharedOK /\ LocalsOK /\ SharedOK'
  BY DEF TypeOK, SharedOK, LocalsOK
<1>2. CASE UNCHANGED vars \/ Tick \/ StepBack
  <2>1. UNCHANGED <<opens, brk, pc>>
    BY <1>2 DEF vars, Tick, StepBack, shared
  <2> QED  BY <2>1 DEF TripsCounted, TripsLimit, Tripping
<1>3. CASE Next
  BY <1>1, <1>2, <1>3, TripsStep DEF Next
<1> QED  BY <1>2, <1>3

(* breaker_opens counts every outage once: between two leases there is one  *)
(* trip, however many workers reach the threshold of breaker_record()       *)
(* together and wherever they are between its loads and its stores.         *)
THEOREM OneTrip == Spec => []OneTripPerLease
<1>1. TypeOK /\ TripsCounted => OneTripPerLease
  <2> SUFFICES ASSUME TypeOK, TripsCounted PROVE OneTripPerLease
    OBVIOUS
  <2>1. /\ opens \in Nat /\ brk.gen \in Nat /\ Cardinality(Tripping) \in Nat
        /\ opens + Cardinality(Tripping) <= brk.gen + 1
    BY FS_CardinalityType DEF TypeOK, Words, TripsCounted, TripsLimit
  <2> QED  BY <2>1 DEF OneTripPerLease
<1> QED  BY <1>1, LeaseAlways, TripsInit, TripsNext, TypeNext, PTL DEF Spec

-----------------------------------------------------------------------------
(* The lease of a probe.  A caller about to take one away found it old      *)
(* enough, and nothing else ends it: a report has to own the lease, and a   *)
(* promotion and a trip compare the word they were decided on.              *)
AgedCaller(r) == pc[r] = "reclaim" => Reclaimable(word[r], pword[r], now[r])

OutOnLease(r) ==
    /\ pc[r] = "origin" /\ token[r] # NoProbe
    /\ brk = [gen |-> token[r], st |-> "HALF_OPEN"]

(* Both loads lead to "reclaim" only past the three-part test. *)
LEMMA LoadedAged ==
    ASSUME TypeOK, NEW r \in Requests, NEW w \in Words, NEW p \in ProbeWords,
           Loaded(r, w, p)
    PROVE  AgedCaller(r)'
<1> DEFINE next == AfterLoads(w, p, clock)
<1>1. CASE next = "idle"
  BY <1>1 DEF Loaded, Done, Goto, AgedCaller, TypeOK
<1>2. CASE next # "idle"
  <2>1. pc' = [pc EXCEPT ![r] = next]
    BY <1>2 DEF Loaded, Goto
  <2>2. pc'[r] = next
    BY <2>1 DEF TypeOK
  <2>3. CASE next # "reclaim"
    BY <2>2, <2>3 DEF AgedCaller
  <2>4. CASE next = "reclaim"
    <3>1. Reclaimable(w, p, clock)
      BY <2>4 DEF AfterLoads, Words, States
    <3>2. word'[r] = w /\ pword'[r] = p /\ now'[r] = clock
      BY <1>2, <2>4 DEF Loaded, TypeOK
    <3> QED  BY <3>1, <3>2 DEF AgedCaller, Reclaimable, ProbeAge
  <2> QED  BY <2>3, <2>4
<1> QED  BY <1>1, <1>2

LEMMA AgedNext ==
    ASSUME TypeOK, [Next]_vars, \A r \in Requests : AgedCaller(r)
    PROVE  (\A r \in Requests : AgedCaller(r))'
<1> SUFFICES ASSUME NEW q \in Requests, pc'[q] = "reclaim" PROVE AgedCaller(q)'
  BY DEF AgedCaller
<1> USE DEF TypeOK
<1>1. ASSUME pc'[q] = pc[q], word'[q] = word[q], pword'[q] = pword[q],
             now'[q] = now[q]
      PROVE  AgedCaller(q)'
  BY <1>1 DEF AgedCaller, Reclaimable, ProbeAge
<1>2. CASE UNCHANGED vars \/ Tick \/ StepBack
  BY <1>1, <1>2 DEF vars, Tick, StepBack, locals
<1>3. ASSUME NEW r \in Requests, LoadWord(r) \/ LoadProbe(r)
      PROVE  AgedCaller(q)'
  <2>1. CASE q # r
    BY <1>1, <1>3, <2>1 DEF LoadWord, LoadProbe, Loaded, Done, Goto, Forget
  <2>2. CASE q = r /\ (LoadProbe(r) \/ ~SplitLoads)
    BY <1>3, <2>2, LoadedAged DEF LoadWord, LoadProbe
  <2>3. CASE q = r /\ LoadWord(r) /\ SplitLoads
    BY <2>3 DEF LoadWord, Goto
  <2> QED  BY <1>3, <2>1, <2>2, <2>3
<1>4. ASSUME NEW r \in Requests,
             \/ Reclaim(r) \/ StampReclaimed(r) \/ CheckWindow(r)
             \/ Publish(r) \/ Promote(r) \/ Record(r) \/ ClearRun(r) \/ Close(r)
             \/ StampFailed(r) \/ Reopen(r) \/ LoadAnchor(r) \/ Anchor(r)
             \/ ClearWindow(r) \/ Count(r) \/ StampTrip(r) \/ Trip(r) \/ Tripped(r)
             \/ Answer(r) \/ Abandon(r) \/ Kill(r)
      PROVE  AgedCaller(q)'
  <2>1. /\ pc'[r] # "reclaim"
        /\ \A s \in Requests \ {r} :
              /\ pc'[s] = pc[s] /\ word'[s] = word[s] /\ pword'[s] = pword[s]
              /\ now'[s] = now[s]
    <3>1. CASE Done(r) \/ Return(r)
      BY <3>1 DEF Done, Return, Goto, Forget
    <3>2. CASE ~(Done(r) \/ Return(r))
      BY <1>4, <3>2
         DEF Reclaim, StampReclaimed, CheckWindow, Publish, Promote, Record, ClearRun,
             Close, StampFailed, Reopen, LoadAnchor, Anchor, ClearWindow, Count,
             StampTrip, Trip, Tripped, Answer, Respond, Abandon, Kill, Goto, Forget,
             locals
    <3> QED  BY <3>1, <3>2
  <2> QED  BY <1>1, <2>1
<1> QED  BY <1>2, <1>3, <1>4 DEF Next, Call

(* Whatever other callers load, publish, report and trip, and wherever the  *)
(* clock is set to: the breaker leaves the lease of a probe that is at the  *)
(* origin only by a caller that read the two words of this very lease, and  *)
(* an age of PROBE_LEASE seconds from them.                                 *)
THEOREM OnlyAgedTaken ==
    Spec => [][\A r \in Requests :
                OutOnLease(r) /\ brk' # brk
                => \E s \in Requests \ {r} :
                      Reclaim(s) /\ Reclaimable(brk, pword[s], now[s])]_vars
<1>1. Init => \A r \in Requests : AgedCaller(r)
  BY DEF Init, AgedCaller
<1>2. TypeOK /\ [Next]_vars /\ (\A r \in Requests : AgedCaller(r))
      => (\A r \in Requests : AgedCaller(r))'
  BY AgedNext
<1>3. TypeOK /\ LeaseInv /\ (\A r \in Requests : AgedCaller(r)) /\ [Next]_vars
      => [\A r \in Requests :
            OutOnLease(r) /\ brk' # brk
            => \E s \in Requests \ {r} :
                  Reclaim(s) /\ Reclaimable(brk, pword[s], now[s])]_vars
  <2> SUFFICES ASSUME TypeOK, LeaseInv, \A s \in Requests : AgedCaller(s),
                      [Next]_vars, NEW r \in Requests, OutOnLease(r), brk' # brk
               PROVE  \E s \in Requests \ {r} :
                         Reclaim(s) /\ Reclaimable(brk, pword[s], now[s])
    OBVIOUS
  <2>1. brk.gen = token[r] /\ brk.st = "HALF_OPEN" /\ token[r] # NoProbe
        /\ pc[r] = "origin"
    BY DEF OutOnLease
  <2>2. PICK s \in Requests : Reclaim(s) \/ Promote(s) \/ Close(s) \/ Reopen(s) \/ Trip(s)
    BY DEF Next, vars, Call, LoadWord, LoadProbe, StampReclaimed, CheckWindow, Publish,
           Record, ClearRun, StampFailed, LoadAnchor, Anchor, ClearWindow, Count,
           StampTrip, Tripped, Answer, Respond, Abandon, Kill, Tick, StepBack, shared
  <2>3. RequestInv(s) /\ TokensDistinct /\ s # r
    BY <2>1, <2>2 DEF LeaseInv, Reclaim, Promote, Close, Reopen, Trip
  <2>4. ~Promote(s)
    BY <2>1, <2>3 DEF Promote, RequestInv
  <2>5. ~(Close(s) \/ Reopen(s))
    <3>1. token[s] # token[r]
      BY <2>1, <2>3 DEF TokensDistinct
    <3> QED  BY <2>1, <2>3, <3>1 DEF Close, Reopen, RequestInv, Holds
  <2>6. ~Trip(s)
    BY <2>1 DEF Trip
  <2>7. Reclaim(s) /\ brk = word[s] /\ AgedCaller(s)
    BY <2>2, <2>4, <2>5, <2>6 DEF Reclaim
  <2> QED  BY <2>3, <2>7 DEF AgedCaller, Reclaim
<1> QED  BY <1>1, <1>2, <1>3, LeaseAlways, PTL DEF Spec

-----------------------------------------------------------------------------
(* The same in seconds of the wall clock, in the behaviours in which it is  *)
(* not set back; the two words may be loaded at any distance.  The stamp of *)
(* the probe word only ever moves on: who publishes one has read the clock  *)
(* no earlier than the word it replaces.  So the probe word is stamped no   *)
(* earlier than any lease that is out, and whoever takes one away has seen  *)
(* a stamp no older than its grant.                                         *)
ClockForward == [][clock <= clock']_clock

InTime(t) == Epoch <= t /\ t <= clock

StampInTime ==
    /\ InTime(clock) /\ clock <= MaxTime
    /\ 0 <= probe.stamp /\ probe.stamp <= clock - Epoch

Taking == {"reclaim", "stamp_reclaimed", "check_window", "publish", "promote"}

(* What a caller of breaker_state() has loaded. *)
CallerTimely(r) ==
    pc[r] \in Taking =>
        /\ InTime(now[r]) /\ pword[r].stamp <= now[r] - Epoch
        /\ pc[r] = "reclaim" => pword[r].stamp + Lease <= now[r] - Epoch
        /\ pc[r] = "promote" => now[r] - Epoch <= probe.stamp

(* A probe at the origin, and the callers that may take its lease. *)
ProbeTimely(r) ==
    pc[r] = "origin" /\ token[r] # NoProbe =>
        /\ InTime(now[r]) /\ now[r] - Epoch <= probe.stamp
        /\ \A s \in Requests : pc[s] = "reclaim" /\ word[s].gen = token[r]
                                 => pword[s].stamp >= now[r] - Epoch
        /\ brk # [gen |-> token[r], st |-> "HALF_OPEN"] => clock >= now[r] + Lease

TimelyInv ==
    /\ StampInTime
    /\ \A r \in Requests : CallerTimely(r) /\ ProbeTimely(r)

(* What a step of request r leaves to the others here. *)
Still(r) ==
    /\ clock' = clock
    /\ \A q \in Requests \ {r} :
          /\ pc'[q] = pc[q] /\ word'[q] = word[q] /\ pword'[q] = pword[q]
          /\ now'[q] = now[q] /\ token'[q] = token[q]

(* A step of one request keeps TimelyInv if the stamp moves on only, and it *)
(* disturbs no other probe.                                                 *)
LEMMA TimelyFrame ==
    ASSUME SharedOK, SharedOK', LocalsOK, TimelyInv, NEW r \in Requests, Still(r),
           probe.stamp <= probe'.stamp, probe'.stamp <= clock - Epoch,
           CallerTimely(r)', ProbeTimely(r)',
           \A q \in Requests \ {r} :
              pc[q] = "origin" /\ token[q] # NoProbe
              => /\ brk' # [gen |-> token[q], st |-> "HALF_OPEN"]
                    => clock >= now[q] + Lease
                 /\ pc'[r] = "reclaim" /\ word'[r].gen = token[q]
                    => pword'[r].stamp >= now[q] - Epoch
    PROVE  TimelyInv'
<1>1. /\ probe.stamp \in Int /\ probe'.stamp \in Int /\ clock' = clock
      /\ clock \in Nat /\ Epoch \in Nat /\ StampInTime
  BY BreakerAssumption DEF SharedOK, ProbeWords, Still, TimelyInv
<1>2. StampInTime'
  BY <1>1 DEF StampInTime, InTime
<1>3. ASSUME NEW q \in Requests \ {r} PROVE CallerTimely(q)'
  <2>1. /\ pc'[q] = pc[q] /\ word'[q] = word[q] /\ pword'[q] = pword[q]
        /\ now'[q] = now[q] /\ CallerTimely(q) /\ now[q] \in Nat
    BY DEF Still, TimelyInv, LocalsOK
  <2> QED  BY <1>1, <2>1 DEF CallerTimely, InTime, Taking
<1>4. ASSUME NEW q \in Requests \ {r}, pc[q] = "origin", token[q] # NoProbe
      PROVE  ProbeTimely(q)'
  <2>1. /\ pc'[q] = pc[q] /\ token'[q] = token[q] /\ now'[q] = now[q]
        /\ now[q] \in Nat
    BY DEF Still, LocalsOK
  <2>2. /\ InTime(now[q]) /\ now[q] - Epoch <= probe.stamp
        /\ \A s \in Requests : pc[s] = "reclaim" /\ word[s].gen = token[q]
                                => pword[s].stamp >= now[q] - Epoch
    BY <1>4 DEF TimelyInv, ProbeTimely
  <2>3. \A s \in Requests : pc'[s] = "reclaim" /\ word'[s].gen = token[q]
                             => pword'[s].stamp >= now[q] - Epoch
    BY <1>4, <2>2 DEF Still
  <2>4. now[q] - Epoch <= probe'.stamp
    BY <1>1, <2>1, <2>2
  <2> QED  BY <1>1, <1>4, <2>1, <2>2, <2>3, <2>4 DEF ProbeTimely, InTime
<1>5. ASSUME NEW q \in Requests \ {r} PROVE ProbeTimely(q)'
  BY <1>4 DEF ProbeTimely, Still
<1> QED  BY <1>2, <1>3, <1>5 DEF TimelyInv

(* A step that leaves both words alone. *)
LEMMA TimelyQuiet ==
    ASSUME SharedOK, SharedOK', LocalsOK, TimelyInv, NEW r \in Requests, Still(r),
           UNCHANGED <<brk, probe>>, CallerTimely(r)', ProbeTimely(r)',
           \A q \in Requests \ {r} :
              /\ pc[q] = "origin" /\ token[q] # NoProbe
              /\ pc'[r] = "reclaim" /\ word'[r].gen = token[q]
              => pword'[r].stamp >= now[q] - Epoch
    PROVE  TimelyInv'
<1>1. probe.stamp <= probe'.stamp /\ probe'.stamp <= clock - Epoch
  BY DEF SharedOK, ProbeWords, TimelyInv, StampInTime
<1>2. ASSUME NEW q \in Requests \ {r}
      PROVE  pc[q] = "origin" /\ token[q] # NoProbe
             => (brk' # [gen |-> token[q], st |-> "HALF_OPEN"]
                 => clock >= now[q] + Lease)
  BY DEF TimelyInv, ProbeTimely
<1> QED  BY <1>1, <1>2, TimelyFrame

(* A request that is neither taking a lease nor at the origin says nothing. *)
Elsewhere == Pcs \ (Taking \cup {"origin"})

LEMMA TimelyLeft ==
    ASSUME NEW r \in Requests, pc'[r] \in Elsewhere
    PROVE  CallerTimely(r)' /\ ProbeTimely(r)' /\ pc'[r] # "reclaim"
  BY DEF CallerTimely, ProbeTimely, Taking, Elsewhere

(* So does one that ends or returns, ... *)
LEMMA EndTimely ==
    ASSUME LocalsOK, NEW r \in Requests, Done(r) \/ Return(r), clock' = clock
    PROVE  Still(r) /\ pc'[r] \in Elsewhere
<1>1. /\ pc' = [pc EXCEPT ![r] = "idle"] \/ pc' = [pc EXCEPT ![r] = "record"]
      /\ Forget(r)
      /\ token' = token \/ token' = [token EXCEPT ![r] = NoProbe]
  BY DEF Done, Return, Goto
<1> QED  BY <1>1 DEF Still, Forget, LocalsOK, Elsewhere, Taking, Pcs

(* ... or moves on within a call. *)
LEMMA MoveTimely ==
    ASSUME LocalsOK, NEW r \in Requests, NEW l \in Pcs, Goto(r, l),
           UNCHANGED locals, clock' = clock
    PROVE  /\ Still(r) /\ pc'[r] = l /\ word'[r] = word[r]
           /\ pword'[r] = pword[r] /\ now'[r] = now[r] /\ token'[r] = token[r]
  BY DEF LocalsOK, Goto, locals, Still

(* Both loads of breaker_state() have been made, the first maybe long ago. *)
LEMMA TimelyLoaded ==
    ASSUME SharedOK, SharedOK', LocalsOK, TimelyInv, NEW r \in Requests,
           NEW w \in Words, Loaded(r, w, probe), token[r] = NoProbe,
           UNCHANGED <<brk, probe, clock>>
    PROVE  TimelyInv'
<1> DEFINE next == AfterLoads(w, probe, clock)
<1>2. /\ probe.stamp \in Int /\ clock \in Nat /\ StampInTime
  BY DEF SharedOK, ProbeWords, TimelyInv
<1>3. CASE next = "idle"
  <2>1. Done(r)
    BY <1>3 DEF Loaded
  <2> QED  BY <2>1, EndTimely, TimelyLeft, TimelyQuiet
<1>4. CASE next # "idle"
  <2>1. next \in {"reclaim", "origin", "check_window"}
    BY <1>4 DEF AfterLoads, Words, States
  <2>2. /\ pc' = [pc EXCEPT ![r] = next] /\ word' = [word EXCEPT ![r] = w]
        /\ next # "origin" => /\ pword' = [pword EXCEPT ![r] = probe]
                              /\ now' = [now EXCEPT ![r] = clock]
        /\ next = "origin" => UNCHANGED <<pword, now>>
        /\ token' = token
    BY <1>4 DEF Loaded, Goto
  <2>3. next = "reclaim" => Reclaimable(w, probe, clock)
    BY DEF AfterLoads, Words, States
  <2> HIDE DEF next
  <2>4. /\ Still(r) /\ pc'[r] = next /\ token'[r] = NoProbe
        /\ next # "origin" => pword'[r] = probe /\ now'[r] = clock
    BY <2>1, <2>2 DEF Still, LocalsOK
  <2>5. next = "reclaim" => probe.stamp + Lease <= clock - Epoch
    <3> SUFFICES ASSUME next = "reclaim" PROVE probe.stamp + Lease <= clock - Epoch
      OBVIOUS
    <3>1. ProbeAge(probe, clock) >= Lease
      BY <2>3 DEF Reclaimable
    <3>2. /\ Epoch \in Nat /\ StampMod \in Nat /\ Lease \in Nat
          /\ 0 <= (clock - Epoch) - probe.stamp
          /\ (clock - Epoch) - probe.stamp < StampMod /\ ~(clock < Epoch)
      BY <1>2, BreakerAssumption DEF StampInTime, InTime
    <3>3. ProbeAge(probe, clock) = (clock - Epoch) - probe.stamp
      <4>1. PICK d \in Nat : d = (clock - Epoch) - probe.stamp
        BY <1>2, <3>2
      <4>2. d % StampMod = d
        BY <3>2, <4>1
      <4> QED  BY <3>2, <4>1, <4>2 DEF ProbeAge
    <3> QED  BY <1>2, <3>1, <3>2, <3>3
  <2>6. CallerTimely(r)'
    BY <1>2, <2>1, <2>4, <2>5 DEF CallerTimely, Taking, StampInTime, InTime
  <2>7. ProbeTimely(r)'
    BY <2>4 DEF ProbeTimely
  <2>8. ASSUME NEW q \in Requests \ {r}, pc[q] = "origin", token[q] # NoProbe
        PROVE  probe.stamp >= now[q] - Epoch
    BY <1>2, <2>8, BreakerAssumption DEF TimelyInv, ProbeTimely, LocalsOK
  <2> QED  BY <2>1, <2>4, <2>6, <2>7, <2>8, TimelyQuiet
<1> QED  BY <1>3, <1>4

LEMMA TimelyLoad ==
    ASSUME SharedOK, SharedOK', LocalsOK, LeaseInv, TimelyInv, NEW r \in Requests,
           LoadWord(r) \/ LoadProbe(r)
    PROVE  TimelyInv'
<1>1. /\ token[r] = NoProbe /\ UNCHANGED <<brk, probe, clock>>
      /\ brk \in Words /\ word[r] \in Words
  BY DEF LoadWord, LoadProbe, LeaseInv, RequestInv, Asking, shared, env, SharedOK,
         LocalsOK
<1>2. CASE LoadProbe(r) \/ ~SplitLoads
  BY <1>1, <1>2, TimelyLoaded DEF LoadWord, LoadProbe
<1>3. CASE LoadWord(r) /\ SplitLoads
  <2>1. /\ pc' = [pc EXCEPT ![r] = "load_probe"] /\ word' = [word EXCEPT ![r] = brk]
        /\ UNCHANGED <<pword, now, token>>
    BY <1>3 DEF LoadWord, Goto
  <2>2. Still(r) /\ pc'[r] \in Elsewhere
    BY <1>1, <2>1 DEF Still, LocalsOK, Elsewhere, Taking, Pcs
  <2> QED  BY <1>1, <2>2, TimelyLeft, TimelyQuiet
<1> QED  BY <1>2, <1>3

(* The steps of breaker_state() after its loads. *)
LEMMA TimelyState ==
    ASSUME SharedOK, SharedOK', LocalsOK, LeaseInv, TimelyInv, NEW r \in Requests,
           Reclaim(r) \/ StampReclaimed(r) \/ CheckWindow(r)
             \/ Publish(r) \/ Promote(r)
    PROVE  TimelyInv'
<1>0. /\ brk.gen \in Nat /\ probe.stamp \in Int /\ now[r] \in Nat
      /\ clock \in Nat /\ pword[r].stamp \in Int /\ Epoch \in Nat
      /\ StampInTime /\ CallerTimely(r) /\ RequestInv(r)
  BY BreakerAssumption
     DEF SharedOK, LocalsOK, Words, ProbeWords, TimelyInv, LeaseInv
<1>a. ASSUME Done(r), UNCHANGED <<brk, probe, clock>> PROVE TimelyInv'
  BY <1>a, EndTimely, TimelyLeft, TimelyQuiet
<1>1. CASE Reclaim(r)
  <2>1. UNCHANGED <<probe, clock>> /\ pc[r] = "reclaim"
    BY <1>1 DEF Reclaim, env
  <2>2. CASE brk # word[r]
    BY <1>1, <1>a, <2>1, <2>2 DEF Reclaim
  <2>3. CASE brk = word[r]
    <3>1. /\ pc' = [pc EXCEPT ![r] = "stamp_reclaimed"]
          /\ word' = [word EXCEPT ![r].st = "OPEN"] /\ UNCHANGED <<pword, now, token>>
      BY <1>1, <2>3 DEF Reclaim, Goto
    <3>2. /\ Still(r) /\ pc'[r] = "stamp_reclaimed"
          /\ pword'[r] = pword[r] /\ now'[r] = now[r]
      BY <2>1, <3>1 DEF Still, LocalsOK, Words
    <3>3. probe.stamp <= probe'.stamp /\ probe'.stamp <= clock - Epoch
      BY <1>0, <2>1 DEF StampInTime
    <3>4. CallerTimely(r)' /\ ProbeTimely(r)'
      BY <1>0, <2>1, <3>2 DEF CallerTimely, ProbeTimely, Taking, InTime
    <3>5. ASSUME NEW q \in Requests \ {r}, pc[q] = "origin", token[q] # NoProbe
          PROVE  clock >= now[q] + Lease
      <4>1. now[q] \in Nat /\ Lease \in Nat
        BY BreakerAssumption DEF LocalsOK
      <4>2. CASE brk # [gen |-> token[q], st |-> "HALF_OPEN"]
        BY <3>5, <4>2 DEF TimelyInv, ProbeTimely
      <4>3. CASE brk = [gen |-> token[q], st |-> "HALF_OPEN"]
        <5>0. word[r].gen = token[q]
          BY <2>3, <4>3
        <5>1. pword[r].stamp >= now[q] - Epoch
          BY <2>1, <3>5, <5>0 DEF TimelyInv, ProbeTimely
        <5>2. pword[r].stamp + Lease <= now[r] - Epoch /\ now[r] <= clock
          BY <1>0, <2>1 DEF CallerTimely, Taking, InTime
        <5> QED  BY <1>0, <4>1, <5>1, <5>2
      <4> QED  BY <4>2, <4>3
    <3> QED  BY <3>2, <3>3, <3>4, <3>5, TimelyFrame
  <2> QED  BY <2>2, <2>3
<1>2. CASE StampReclaimed(r) \/ CheckWindow(r)
  <2>1. /\ UNCHANGED <<brk, probe, clock>>
        /\ pc[r] \in {"stamp_reclaimed", "check_window"}
    BY <1>2 DEF StampReclaimed, CheckWindow, shared, env
  <2>2. CASE Done(r)
    BY <1>a, <2>1, <2>2
  <2>3. CASE ~Done(r)
    <3>1. PICK l \in {"check_window", "publish"} : Goto(r, l) /\ UNCHANGED locals
      BY <1>2, <2>3 DEF StampReclaimed, CheckWindow
    <3>2. /\ Still(r) /\ pc'[r] = l /\ pword'[r] = pword[r] /\ now'[r] = now[r]
      BY <2>1, <3>1, MoveTimely DEF Pcs
    <3>3. CallerTimely(r)' /\ ProbeTimely(r)' /\ pc'[r] # "reclaim"
      BY <1>0, <2>1, <3>2 DEF CallerTimely, ProbeTimely, Taking, InTime
    <3> QED  BY <2>1, <3>2, <3>3, TimelyQuiet
  <2> QED  BY <2>2, <2>3
<1>3. CASE Publish(r)
  <2>1. UNCHANGED <<brk, clock>> /\ pc[r] = "publish"
    BY <1>3 DEF Publish, env
  <2>2. CASE probe # pword[r]
    BY <1>3, <1>a, <2>1, <2>2 DEF Publish
  <2>3. CASE probe = pword[r]
    <3>1. /\ StampMod \in Nat /\ InTime(now[r]) /\ 0 <= now[r] - Epoch
          /\ now[r] - Epoch < StampMod
      BY <1>0, <2>1, BreakerAssumption DEF CallerTimely, Taking, StampInTime, InTime
    <3>2. (now[r] - Epoch) % StampMod = now[r] - Epoch
      <4>1. PICK d \in Nat : d = now[r] - Epoch
        BY <1>0, <3>1
      <4> QED  BY <3>1, <4>1
    <3>3. /\ probe'.stamp = now[r] - Epoch /\ Goto(r, "promote") /\ UNCHANGED locals
      BY <1>3, <2>3, <3>2 DEF Publish
    <3>4. /\ Still(r) /\ pc'[r] = "promote"
          /\ pword'[r] = pword[r] /\ now'[r] = now[r]
      BY <2>1, <3>3, MoveTimely DEF Pcs
    <3>5. probe.stamp <= probe'.stamp /\ probe'.stamp <= clock - Epoch
      BY <1>0, <2>1, <2>3, <3>1, <3>3 DEF CallerTimely, Taking, InTime
    <3>6. CallerTimely(r)' /\ ProbeTimely(r)'
      BY <1>0, <2>1, <3>3, <3>4 DEF CallerTimely, ProbeTimely, Taking, InTime
    <3>7. ASSUME NEW q \in Requests \ {r}
          PROVE  pc[q] = "origin" /\ token[q] # NoProbe
                 => (brk' # [gen |-> token[q], st |-> "HALF_OPEN"]
                     => clock >= now[q] + Lease)
      BY <2>1 DEF TimelyInv, ProbeTimely
    <3> QED  BY <3>4, <3>5, <3>6, <3>7, TimelyFrame
  <2> QED  BY <2>2, <2>3
<1>4. CASE Promote(r)
  <2>1. UNCHANGED <<probe, clock>> /\ pc[r] = "promote"
    BY <1>4 DEF Promote, env
  <2>2. CASE brk # word[r]
    BY <1>4, <1>a, <2>1, <2>2 DEF Promote
  <2>3. CASE brk = word[r]
    <3>1. /\ brk' = [gen |-> brk.gen + 1, st |-> "HALF_OPEN"]
          /\ pc' = [pc EXCEPT ![r] = "origin"]
          /\ token' = [token EXCEPT ![r] = brk.gen + 1]
          /\ pword' = [pword EXCEPT ![r] = ProbeWord0] /\ UNCHANGED <<word, now>>
      BY <1>4, <2>3 DEF Promote, Goto
    <3>2. /\ Still(r) /\ pc'[r] = "origin" /\ token'[r] = brk.gen + 1
          /\ now'[r] = now[r]
      BY <2>1, <3>1 DEF Still, LocalsOK
    <3>3. InTime(now[r]) /\ now[r] - Epoch <= probe.stamp
      BY <1>0, <2>1 DEF CallerTimely, Taking
    <3>4. probe.stamp <= probe'.stamp /\ probe'.stamp <= clock - Epoch
      BY <1>0, <2>1 DEF StampInTime
    <3>5. \A s \in Requests : word[s].gen \in Nat /\ word[s].gen <= brk.gen
      BY DEF LeaseInv, RequestInv, LocalsOK, Words
    <3>6. CallerTimely(r)' /\ ProbeTimely(r)'
      <4>1. \A s \in Requests : word'[s].gen # brk.gen + 1
        BY <1>0, <3>1, <3>5
      <4> QED  BY <2>1, <3>1, <3>2, <3>3, <4>1
               DEF CallerTimely, ProbeTimely, Taking, InTime
    <3>7. ASSUME NEW q \in Requests \ {r}
          PROVE  pc[q] = "origin" /\ token[q] # NoProbe => clock >= now[q] + Lease
      <4>1. brk.st = "OPEN"
        BY <1>0, <2>1, <2>3 DEF RequestInv
      <4> QED  BY <4>1 DEF TimelyInv, ProbeTimely
    <3> QED  BY <3>2, <3>4, <3>6, <3>7, TimelyFrame
  <2> QED  BY <2>2, <2>3
<1> QED  BY <1>1, <1>2, <1>3, <1>4

(* The steps of breaker_record(): none of another request's moves the word  *)
(* while the lease of a probe is in it.                                     *)
LEMMA TimelyRecord ==
    ASSUME SharedOK, SharedOK', LocalsOK, LeaseInv, TimelyInv, NEW r \in Requests,
           Record(r) \/ ClearRun(r) \/ Close(r) \/ StampFailed(r) \/ Reopen(r)
             \/ LoadAnchor(r) \/ Anchor(r) \/ ClearWindow(r) \/ Count(r)
             \/ StampTrip(r) \/ Trip(r) \/ Tripped(r)
    PROVE  TimelyInv'
<1>0. /\ brk.gen \in Nat /\ probe.stamp \in Int /\ StampInTime
      /\ RequestInv(r) /\ TokensDistinct /\ UNCHANGED <<probe, clock>>
  BY DEF SharedOK, Words, ProbeWords, TimelyInv, LeaseInv, Record, ClearRun, Close,
         StampFailed, Reopen, LoadAnchor, Anchor, ClearWindow, Count, StampTrip,
         Trip, Tripped, shared, env
<1>1. Still(r) /\ pc'[r] \in Elsewhere
  <2>1. CASE Done(r) \/ Return(r)
    BY <1>0, <2>1, EndTimely
  <2>2. CASE ~(Done(r) \/ Return(r))
    <3>1. PICK l \in Elsewhere : Goto(r, l)
      BY <2>2 DEF Record, ClearRun, Close, StampFailed, Reopen, LoadAnchor, Anchor,
                  ClearWindow, Count, StampTrip, Trip, Tripped, Elsewhere, Taking,
                  Pcs
    <3>2. /\ UNCHANGED <<pword, token>>
          /\ word' = word \/ word' = [word EXCEPT ![r] = brk]
          /\ now' = now \/ now' = [now EXCEPT ![r] = clock]
      BY <2>2 DEF Record, ClearRun, Close, StampFailed, Reopen, LoadAnchor, Anchor,
                  ClearWindow, Count, StampTrip, Trip, Tripped, locals
    <3> QED  BY <1>0, <3>1, <3>2 DEF Still, Goto, LocalsOK, Elsewhere
  <2> QED  BY <2>1, <2>2
<1>2. CallerTimely(r)' /\ ProbeTimely(r)' /\ pc'[r] # "reclaim"
  BY <1>1, TimelyLeft
<1>3. CASE brk' = brk
  BY <1>0, <1>1, <1>2, <1>3, TimelyQuiet
<1>4. CASE brk' # brk
  <2>1. \/ brk.st = "CLOSED"
        \/ brk = [gen |-> token[r], st |-> "HALF_OPEN"] /\ token[r] # NoProbe
    <3>1. CASE Close(r) \/ Reopen(r)
      <4>1. brk = word[r] /\ Holds(r)
        BY <1>0, <1>4, <3>1 DEF Close, Reopen, RequestInv
      <4> QED  BY <4>1 DEF Holds, SharedOK, Words
    <3>2. CASE Trip(r)
      BY <1>4, <3>2 DEF Trip
    <3>3. CASE ~(Close(r) \/ Reopen(r) \/ Trip(r))
      BY <1>4, <3>3 DEF Record, ClearRun, StampFailed, LoadAnchor, Anchor,
                        ClearWindow, Count, StampTrip, Tripped, shared
    <3> QED  BY <3>1, <3>2, <3>3
  <2>2. probe.stamp <= probe'.stamp /\ probe'.stamp <= clock - Epoch
    BY <1>0 DEF StampInTime
  <2>3. ASSUME NEW q \in Requests \ {r}
        PROVE  pc[q] = "origin" /\ token[q] # NoProbe => clock >= now[q] + Lease
    <3>1. token[q] # NoProbe => brk # [gen |-> token[q], st |-> "HALF_OPEN"]
      BY <1>0, <2>1 DEF TokensDistinct
    <3> QED  BY <3>1 DEF TimelyInv, ProbeTimely
  <2> QED  BY <1>1, <1>2, <2>2, <2>3, TimelyFrame
<1> QED  BY <1>3, <1>4

(* The answers, the aborted and killed, and a clock that goes forward. *)
LEMMA TimelyOther ==
    ASSUME SharedOK, SharedOK', LocalsOK, TimelyInv, clock <= clock',
           \/ \E r \in Requests : Answer(r) \/ Abandon(r) \/ Kill(r)
           \/ Tick \/ StepBack
    PROVE  TimelyInv'
<1>1. ASSUME NEW r \in Requests, Answer(r) \/ Abandon(r) \/ Kill(r) PROVE TimelyInv'
  <2>1. UNCHANGED <<brk, probe, clock>>
    BY <1>1 DEF Answer, Respond, Abandon, Kill, shared, env
  <2>2. CASE Done(r)
    BY <2>1, <2>2, EndTimely, TimelyLeft, TimelyQuiet
  <2>3. CASE ~Done(r)
    <3>1. Goto(r, "record") /\ Forget(r) /\ token' = token
      BY <1>1, <2>3 DEF Answer, Respond, Abandon, Kill
    <3>2. Still(r) /\ pc'[r] \in Elsewhere
      BY <2>1, <3>1 DEF Still, Goto, Forget, LocalsOK, Elsewhere, Taking, Pcs
    <3> QED  BY <2>1, <3>2, TimelyLeft, TimelyQuiet
  <2> QED  BY <2>2, <2>3
<1>2. CASE Tick
  <2>1. /\ UNCHANGED <<brk, probe, pc, word, pword, now, token>>
        /\ clock' = clock + 1 /\ clock < MaxTime /\ clock \in Nat
    BY <1>2 DEF Tick, shared, locals, SharedOK
  <2>2. MaxTime \in Nat /\ Epoch \in Nat /\ Lease \in Nat /\ probe.stamp \in Int
    BY BreakerAssumption DEF SharedOK, ProbeWords
  <2>3. \A t \in Nat : InTime(t) => InTime(t)'
    BY <2>1 DEF InTime
  <2>4. StampInTime'
    BY <2>1, <2>2 DEF TimelyInv, StampInTime, InTime
  <2>5. ASSUME NEW q \in Requests PROVE CallerTimely(q)' /\ ProbeTimely(q)'
    <3>1. now[q] \in Nat /\ CallerTimely(q) /\ ProbeTimely(q)
      BY DEF LocalsOK, TimelyInv
    <3>2. CallerTimely(q)'
      BY <2>1, <2>3, <3>1 DEF CallerTimely
    <3>3. clock >= now[q] + Lease => clock' >= now[q] + Lease
      BY <2>1, <2>2, <3>1
    <3>4. ProbeTimely(q)'
      BY <2>1, <2>3, <3>1, <3>3 DEF ProbeTimely
    <3> QED  BY <3>2, <3>4
  <2> QED  BY <2>4, <2>5 DEF TimelyInv
<1>3. CASE StepBack
  BY <1>3 DEF StepBack, SharedOK
<1> QED  BY <1>1, <1>2, <1>3

LEMMA TimelyInit == Init => TimelyInv
<1> SUFFICES ASSUME Init PROVE TimelyInv
  OBVIOUS
<1>1. StampInTime
  BY BreakerAssumption DEF Init, StampInTime, InTime, ProbeWord0
<1>2. ASSUME NEW r \in Requests PROVE CallerTimely(r) /\ ProbeTimely(r)
  BY <1>2 DEF Init, CallerTimely, ProbeTimely, Taking
<1> QED  BY <1>1, <1>2 DEF TimelyInv

LEMMA TimelyNext ==
    ASSUME TypeOK, TypeOK', LeaseInv, TimelyInv, [Next]_vars,
           [clock <= clock']_clock
    PROVE  TimelyInv'
<1>1. /\ SharedOK /\ LocalsOK /\ SharedOK'
      /\ clock <= clock'
  BY DEF TypeOK, SharedOK, LocalsOK
<1>2. CASE UNCHANGED vars
  BY <1>2 DEF vars, TimelyInv, StampInTime, CallerTimely, ProbeTimely, InTime
<1>3. CASE Next
  BY <1>1, <1>3, TimelyLoad, TimelyState, TimelyRecord, TimelyOther DEF Next, Call
<1> QED  BY <1>2, <1>3

(* Where the clock is not set back, a probe at the origin keeps its lease   *)
(* for PROBE_LEASE seconds, and only a lease that has run out is reclaimed, *)
(* whatever other callers load, publish, reclaim and report meanwhile and   *)
(* however long they are descheduled between their two loads.               *)
THEOREM LeaseRespected ==
    Spec /\ ClockForward => [](LeaseHonoured /\ ReclaimsOnlyExpired)
<1>1. TypeOK /\ TimelyInv => LeaseHonoured
  <2> SUFFICES ASSUME TypeOK, TimelyInv, NEW r \in Requests, pc[r] = "origin",
                      token[r] # NoProbe, clock < now[r] + Lease
               PROVE  brk = [gen |-> token[r], st |-> "HALF_OPEN"]
    BY DEF LeaseHonoured
  <2>1. clock \in Nat /\ now[r] \in Nat /\ Lease \in Nat
    BY BreakerAssumption DEF TypeOK
  <2> QED  BY <2>1 DEF TimelyInv, ProbeTimely
<1>2. TypeOK /\ TimelyInv => ReclaimsOnlyExpired
  <2> SUFFICES ASSUME TypeOK, TimelyInv, NEW r \in Requests, NEW s \in Requests,
                      pc[r] = "origin", token[r] # NoProbe, brk.gen = token[r],
                      pc[s] = "reclaim", word[s] = brk
               PROVE  now[s] >= now[r] + Lease
    BY DEF ReclaimsOnlyExpired
  <2>1. /\ now[r] \in Nat /\ now[s] \in Nat /\ Lease \in Nat /\ Epoch \in Nat
        /\ pword[s].stamp \in Int
    BY BreakerAssumption DEF TypeOK, ProbeWords
  <2>2. pword[s].stamp >= now[r] - Epoch
    BY DEF TimelyInv, ProbeTimely
  <2>3. pword[s].stamp + Lease <= now[s] - Epoch
    BY DEF TimelyInv, CallerTimely, Taking
  <2> QED  BY <2>1, <2>2, <2>3
<1>3. TypeOK /\ TypeOK' /\ LeaseInv /\ TimelyInv /\ [Next]_vars
      /\ [clock <= clock']_clock => TimelyInv'
  BY TimelyNext
<1> QED  BY <1>1, <1>2, <1>3, LeaseAlways, TypeNext, TimelyInit, PTL
         DEF Spec, ClockForward

=============================================================================
