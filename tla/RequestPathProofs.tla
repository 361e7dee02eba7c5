------------------------- MODULE RequestPathProofs -------------------------
(***************************************************************************)
(* Proofs about RequestPath for any number of requests of any kinds in any *)
(* location: what may answer a request, where the probe of the breaker     *)
(* goes, whom the breaker may turn away, and that slots come back.         *)
(***************************************************************************)
EXTENDS RequestPath, FiniteSetTheorems, TLAPS

(* A body that answers is one the client may have, and one that was stored  *)
(* for the breaker came from it or replaced an error.                       *)
MayHave(k, e, by) ==
    e # None => /\ ~ClientRefuses(k, e)
                /\ "only" \in e.marks => by \in {"breaker", "sie"}

(* Nothing has answered a request that is not over. *)
Unanswered(q) == q.pc \notin {"done", "gone"} => q.by = "none" /\ q.body = None

(* The probe goes from the gate to the origin and ends there. *)
Probing(q) ==
    q.probe => \/ q.pc = "gate" /\ q.verdict = "probe"
               \/ q.pc = "origin"
               \/ q.pc \in {"done", "gone"} /\ q.by \in {"origin", "sie"}

(* What was seen has been armed until the gate was asked, and the gate fails *)
(* only who has seen nothing.                                               *)
Remembers(q) ==
    /\ q.pc \notin {"origin", "done", "gone"} =>
          /\ q.saw => q.armDone
          /\ q.armDone /\ q.verdict = "none" => q.armed # None
          /\ q.verdict = "fail" => q.pc = "gate" /\ ~q.saw
          /\ q.verdict = "serve" => q.pc = "gate" /\ q.armed # None
    /\ q.by = "503" => ~q.saw

(* Only a request on its way out has background subrequests that count. *)
Unslotted(q) == q.pc \notin {"origin", "done"} => q.slots = 0

Sound(q) ==
    /\ MayHave(q.kind, q.body, q.by) /\ Unanswered(q) /\ Probing(q)
    /\ Remembers(q) /\ Unslotted(q)

(* The slots that are out: as many of each request as it has. *)
Row(r, n) == {r} \X (1..n)
Taken == UNION {Row(r, req[r].slots) : r \in Requests}

PathInv ==
    /\ TypeOK
    /\ \A r \in Requests : Sound(req[r])
    /\ IsFiniteSet(Taken) /\ inflight = Cardinality(Taken)

-----------------------------------------------------------------------------
(* What a phase makes of a request. *)

(* One outcome of a phase: a sound request, and slots taken for it alone. *)
Outcome(q, n, out) ==
    /\ out[1] \in ReqType /\ Sound(out[1])
    /\ out[2] \in Nat /\ out[2] - n = out[1].slots - q.slots

(* An entry is not NULL. *)
LEMMA EntryIsSome == \A e \in EntryType : e # None
<1> SUFFICES ASSUME NEW e \in EntryType, e = None PROVE FALSE
  OBVIOUS
<1>1. e.age \in 0..4
  BY DEF EntryType
<1>2. e.age = -1
  BY DEF None
<1> QED  BY <1>1, <1>2

(* A request before its first phase. *)
LEMMA StartFacts ==
    ASSUME NEW k \in KindType
    PROVE  /\ Start(k) \in ReqType
           /\ Start(k).kind = k /\ Start(k).body = None /\ Start(k).by = "none"
           /\ Start(k).slots = 0 /\ ~Start(k).probe /\ ~Start(k).saw
           /\ ~Start(k).armDone /\ Start(k).verdict = "none"
           /\ Start(k).pc = "prologue"
  BY DEF Start, ReqType, Pcs, MaybeEntry

(* What is kept of a request the handler is done with. *)
LEMMA KeptFacts ==
    ASSUME NEW q \in ReqType
    PROVE  /\ Kept(q) \in ReqType
           /\ Kept(q).kind = q.kind /\ Kept(q).body = None
           /\ Kept(q).by = "none" /\ Kept(q).slots = q.slots
           /\ Kept(q).probe = q.probe /\ Kept(q).saw = q.saw
           /\ ~Kept(q).armDone /\ Kept(q).verdict = "none"
<1>1. PICK s \in ReqType : /\ s = Start(q.kind) /\ s.kind = q.kind
                           /\ s.body = None /\ s.by = "none"
                           /\ ~s.armDone /\ s.verdict = "none"
  BY StartFacts DEF ReqType
<1>2. PICK b \in BOOLEAN, c \in BOOLEAN, w \in SUBSET {"head", "refresh"}, n \in Nat :
        b = q.probe /\ c = q.saw /\ w = q.warm /\ n = q.slots
  BY DEF ReqType
<1>3. [s EXCEPT !.probe = b, !.saw = c, !.warm = w, !.slots = n] \in ReqType
  BY DEF ReqType
<1> QED  BY <1>1, <1>2, <1>3 DEF Kept, ReqType

(* Records of requests, after the updates that end a phase. *)
LEMMA OriginIsRequest ==
    ASSUME NEW s \in ReqType, NEW b \in BOOLEAN, NEW c \in BOOLEAN,
           NEW d \in BOOLEAN, NEW e \in MaybeEntry,
           NEW v \in {"none", "pass", "probe", "serve", "fail"}
    PROVE  [s EXCEPT !.pc = "origin", !.known = b, !.only = c, !.sie = e,
                     !.skip = d, !.verdict = v] \in ReqType
  BY ZenonT(40) DEF ReqType, Pcs

LEMMA DoneIsRequest ==
    ASSUME NEW s \in ReqType, NEW e \in MaybeEntry,
           NEW by \in {"fresh", "stale", "breaker", "sie", "origin", "503", "504"}
    PROVE  [s EXCEPT !.pc = "done", !.by = by, !.body = e] \in ReqType
  BY ZenonT(40) DEF ReqType, Pcs

(* A request that goes to the origin is sound, whatever it went through. *)
LEMMA ToOriginFacts ==
    ASSUME NEW q \in ReqType
    PROVE  /\ ToOrigin(q) \in ReqType /\ Sound(ToOrigin(q))
           /\ ToOrigin(q).slots = q.slots /\ ToOrigin(q).pc = "origin"
<1>1. PICK s \in ReqType : /\ s = Kept(q) /\ s.slots = q.slots
                           /\ s.body = None /\ s.by = "none"
  BY KeptFacts
<1>2. PICK b \in BOOLEAN, c \in BOOLEAN, d \in BOOLEAN, e \in MaybeEntry,
           v \in {"none", "pass", "probe", "serve", "fail"} :
        /\ b = q.known /\ c = q.only /\ d = q.skip /\ e = q.sie
        /\ v = q.verdict
  BY DEF ReqType
<1>3. PICK o \in ReqType :
        o = [s EXCEPT !.pc = "origin", !.known = b, !.only = c,
                      !.sie = e, !.skip = d, !.verdict = v]
  BY ZenonT(40), OriginIsRequest
<1>4. ToOrigin(q) = o
  BY <1>1, <1>2, <1>3 DEF ToOrigin
<1>5. /\ o.slots = q.slots /\ o.pc = "origin" /\ o.body = None /\ o.by = "none"
  BY <1>1, <1>3 DEF ReqType
<1> QED
  BY <1>4, <1>5 DEF Sound, MayHave, Unanswered, Probing, Remembers, Unslotted

(* A request that is over. *)
LEMMA OverFacts ==
    ASSUME NEW q \in ReqType, NEW e \in MaybeEntry,
           NEW by \in {"fresh", "stale", "breaker", "sie", "origin", "503", "504"},
           MayHave(q.kind, e, by), q.probe => by \in {"origin", "sie"},
           by = "503" => ~q.saw
    PROVE  /\ Over(q, by, e) \in ReqType /\ Sound(Over(q, by, e))
           /\ Over(q, by, e).slots = q.slots
<1>1. PICK s \in ReqType : /\ s = Kept(q) /\ s.slots = q.slots
                           /\ s.kind = q.kind /\ s.probe = q.probe
                           /\ s.saw = q.saw
  BY KeptFacts
<1>2. PICK o \in ReqType : o = [s EXCEPT !.pc = "done", !.by = by, !.body = e]
  BY DoneIsRequest
<1>3. Over(q, by, e) = o
  BY <1>1, <1>2 DEF Over
<1>4. /\ o.slots = q.slots /\ o.pc = "done" /\ o.body = e
      /\ o.by = by /\ o.saw = q.saw /\ o.probe = q.probe /\ o.kind = q.kind
  BY <1>1, <1>2 DEF ReqType
<1> QED
  BY <1>3, <1>4 DEF Sound, MayHave, Unanswered, Probing, Remembers, Unslotted

(* What the account of a request does not depend on but its slots. *)
SameCourse(q, o) ==
    /\ o.pc = q.pc /\ o.kind = q.kind /\ o.armed = q.armed
    /\ o.armDone = q.armDone /\ o.verdict = q.verdict /\ o.probe = q.probe
    /\ o.by = q.by /\ o.body = q.body /\ o.saw = q.saw

(* warm_one() touches nothing but the slots: it counts the one it takes. *)
LEMMA WarmedFacts ==
    ASSUME NEW q \in ReqType, NEW n \in Nat, NEW why \in {"head", "refresh"},
           NEW out \in Warmed(q, n, why)
    PROVE  /\ out[1] \in ReqType /\ SameCourse(q, out[1])
           /\ out[2] \in Nat /\ out[2] - n = out[1].slots - q.slots
<1>1. q.slots \in Nat
  BY DEF ReqType
<1>2. PICK w \in SUBSET {"head", "refresh"} : w = q.warm \cup {why}
  BY DEF ReqType
<1>3. \A s \in Nat : /\ [q EXCEPT !.warm = w, !.slots = s] \in ReqType
                     /\ [q EXCEPT !.warm = w, !.slots = s].slots = s
                     /\ SameCourse(q, [q EXCEPT !.warm = w, !.slots = s])
  BY DEF ReqType, SameCourse
<1>4. [q EXCEPT !.warm = @ \cup {why}]
        = [q EXCEPT !.warm = w, !.slots = q.slots]
  BY <1>2 DEF ReqType
<1>5. [[q EXCEPT !.warm = @ \cup {why}] EXCEPT !.slots = @ + 1]
        = [q EXCEPT !.warm = w, !.slots = q.slots + 1]
  BY <1>2 DEF ReqType
<1>6. \/ out = <<q, n>>
      \/ out = <<[q EXCEPT !.warm = w, !.slots = q.slots], n>>
      \/ out = <<[q EXCEPT !.warm = w, !.slots = q.slots + 1], n + 1>>
  BY <1>4, <1>5 DEF Warmed
<1>7. CASE out = <<q, n>>
  BY <1>1, <1>7 DEF SameCourse
<1>8. CASE out = <<[q EXCEPT !.warm = w, !.slots = q.slots], n>>
  <2>0. PICK s \in Nat : s = q.slots
    BY <1>1
  <2>1. PICK o \in ReqType : /\ o = [q EXCEPT !.warm = w, !.slots = s]
                             /\ o.slots = s /\ SameCourse(q, o)
    BY <1>3
  <2>2. out[1] = o /\ out[2] = n
    BY <1>8, <2>0, <2>1
  <2> QED  BY <2>0, <2>1, <2>2
<1>9. CASE out = <<[q EXCEPT !.warm = w, !.slots = q.slots + 1], n + 1>>
  <2>1. PICK s \in Nat : s = q.slots + 1
    BY <1>1
  <2>2. PICK o \in ReqType : /\ o = [q EXCEPT !.warm = w, !.slots = s]
                             /\ o.slots = s /\ SameCourse(q, o)
    BY <1>3
  <2>3. out[1] = o /\ out[2] = n + 1
    BY <1>9, <2>1, <2>2
  <2>4. out[2] \in Nat /\ out[2] - n = o.slots - q.slots
    BY <1>1, <2>1, <2>2, <2>3
  <2> QED  BY <2>2, <2>3, <2>4
<1> QED  BY <1>6, <1>7, <1>8, <1>9

(* Giving a request up to the origin. *)
LEMMA DeclinedFacts ==
    ASSUME NEW q \in ReqType, NEW n \in Nat, NEW out \in DeclinedFrom(q, n)
    PROVE  Outcome(q, n, out)
<1>1. PICK t \in ReqType : /\ t = ToOrigin(q) /\ Sound(t)
                           /\ t.slots = q.slots /\ t.pc = "origin"
  BY ToOriginFacts
<1>2. CASE out = <<t, n>>
  BY <1>1, <1>2 DEF Outcome, ReqType
<1>3. CASE out \in Warmed(t, n, "head")
  <2>1. /\ out[1] \in ReqType /\ SameCourse(t, out[1])
        /\ out[2] \in Nat /\ out[2] - n = out[1].slots - t.slots
    BY <1>3, WarmedFacts
  <2>2. Sound(out[1])
    BY <1>1, <2>1 DEF Sound, MayHave, Unanswered, Probing, Remembers,
                      Unslotted, SameCourse
  <2> QED  BY <1>1, <2>1, <2>2 DEF Outcome
<1> QED  BY <1>1, <1>2, <1>3 DEF DeclinedFrom

(* serve(): a body that the client may not have is not served. *)
LEMMA ServedFacts ==
    ASSUME NEW q \in ReqType, NEW n \in Nat, NEW e \in EntryType, ~q.probe,
           NEW by \in {"fresh", "stale", "breaker", "sie"},
           NEW out \in ServedFrom(q, n, e, by)
    PROVE  Outcome(q, n, out)
<1>1. CASE ServeRefuses(q.kind, e, by)
  BY <1>1, DeclinedFacts DEF ServedFrom
<1>2. CASE ~ServeRefuses(q.kind, e, by)
  <2>1. out = <<Over(q, by, e), n>>
    BY <1>2 DEF ServedFrom
  <2>2. MayHave(q.kind, e, by) /\ e \in MaybeEntry
    BY <1>2 DEF ServeRefuses, MayHave, MaybeEntry
  <2>3. Over(q, by, e) \in ReqType /\ Sound(Over(q, by, e))
        /\ Over(q, by, e).slots = q.slots
    BY <2>2, OverFacts
  <2> QED  BY <2>1, <2>3 DEF Outcome, ReqType
<1> QED  BY <1>1, <1>2

(* Ending a request without a body. *)
LEMMA EndFacts ==
    ASSUME NEW q \in ReqType, NEW by \in {"503", "504"}, ~q.probe,
           by = "503" => ~q.saw, inflight \in Nat, NEW out \in End(q, by)
    PROVE  Outcome(q, inflight, out)
<1>1. MayHave(q.kind, None, by) /\ None \in MaybeEntry
  BY DEF MayHave, MaybeEntry
<1>2. /\ Over(q, by, None) \in ReqType /\ Sound(Over(q, by, None))
      /\ Over(q, by, None).slots = q.slots
  BY <1>1, OverFacts
<1> QED  BY <1>2 DEF End, Outcome, ReqType

-----------------------------------------------------------------------------
(* A step of one request. *)

(* A row of slots counts them. *)
LEMMA RowFacts ==
    ASSUME NEW r, NEW n \in Nat
    PROVE  IsFiniteSet(Row(r, n)) /\ Cardinality(Row(r, n)) = n
<1>1. IsFiniteSet({r}) /\ Cardinality({r}) = 1
  BY FS_Singleton
<1>2. IsFiniteSet(1..n) /\ Cardinality(1..n) = n
  BY FS_Interval
<1>3. IsFiniteSet(Row(r, n)) /\ Cardinality(Row(r, n)) = 1 * n
  BY ZenonT(40), <1>1, <1>2, FS_Product DEF Row
<1> QED  BY <1>3

(* Sets that share nothing are counted one after the other. *)
LEMMA DisjointCount ==
    ASSUME NEW S, NEW T, IsFiniteSet(S), IsFiniteSet(T), S \cap T = {}
    PROVE  /\ IsFiniteSet(S \cup T)
           /\ Cardinality(S \cup T) = Cardinality(S) + Cardinality(T)
<1>1. /\ IsFiniteSet(S \cup T)
      /\ Cardinality(S \cup T)
            = Cardinality(S) + Cardinality(T) - Cardinality(S \cap T)
  BY FS_Union
<1>2. Cardinality(S \cap T) = 0
  BY FS_EmptySet
<1> QED  BY <1>1, <1>2, FS_CardinalityType

(* The requests are sound and every slot is somebody's. *)
Booked ==
    /\ req \in [Requests -> ReqType]
    /\ \A r \in Requests : Sound(req[r])
    /\ IsFiniteSet(Taken) /\ inflight = Cardinality(Taken)

(* One request changes, and the count of the slots with it. *)
LEMMA OneMoves ==
    ASSUME PathInv, NEW r \in Requests, NEW q \in ReqType, Sound(q),
           req' = [req EXCEPT ![r] = q], inflight' \in Nat,
           inflight' - inflight = q.slots - req[r].slots
    PROVE  Booked'
<1>1. /\ req \in [Requests -> ReqType] /\ inflight \in Nat
      /\ IsFiniteSet(Taken) /\ inflight = Cardinality(Taken)
      /\ \A x \in Requests : Sound(req[x])
  BY DEF PathInv, TypeOK
<1>2. req' \in [Requests -> ReqType] /\ \A x \in Requests : Sound(req'[x])
  BY <1>1
<1> DEFINE R == UNION {Row(x, req[x].slots) : x \in Requests \ {r}}
<1>3. PICK m \in Nat : m = req[r].slots
  BY <1>1 DEF ReqType
<1>4. PICK n \in Nat : n = q.slots
  BY DEF ReqType
<1>5. Taken = R \cup Row(r, m) /\ R \cap Row(r, m) = {}
  BY <1>3 DEF Taken, Row
<1>6. Taken' = R \cup Row(r, n) /\ R \cap Row(r, n) = {}
  <2>1. req'[r] = q /\ \A x \in Requests \ {r} : req'[x] = req[x]
    BY <1>1
  <2>2. Taken' = UNION {Row(x, req'[x].slots) : x \in Requests}
    BY DEF Taken, Row
  <2>3. Taken' = R \cup Row(r, n)
    BY <1>4, <2>1, <2>2
  <2> QED  BY <2>3 DEF Row
<1>7. IsFiniteSet(R)
  BY <1>1, <1>5, FS_Subset
<1>8. /\ IsFiniteSet(Row(r, m)) /\ Cardinality(Row(r, m)) = m
      /\ IsFiniteSet(Row(r, n)) /\ Cardinality(Row(r, n)) = n
  BY RowFacts
<1> HIDE DEF R
<1>9. Cardinality(R) \in Nat
  BY <1>7, FS_CardinalityType
<1>10. Cardinality(Taken) = Cardinality(R) + m
  BY <1>5, <1>7, <1>8, <1>9, DisjointCount
<1>11. IsFiniteSet(Taken') /\ Cardinality(Taken') = Cardinality(R) + n
  BY <1>6, <1>7, <1>8, <1>9, DisjointCount
<1>12. inflight' = Cardinality(Taken')
  BY <1>1, <1>3, <1>4, <1>9, <1>10, <1>11
<1> QED  BY <1>2, <1>11, <1>12 DEF Booked

(* ... as one of the outcomes of its phase. *)
LEMMA StepMoves ==
    ASSUME PathInv, NEW r \in Requests, NEW outs, Step(r, outs),
           \A out \in outs : Outcome(req[r], inflight, out)
    PROVE  Booked'
<1>1. PICK out \in outs : req' = [req EXCEPT ![r] = out[1]] /\ inflight' = out[2]
  BY DEF Step
<1>2. PICK q \in ReqType : q = out[1]
  BY DEF Outcome
<1>3. Sound(q) /\ inflight' \in Nat /\ inflight' - inflight = q.slots - req[r].slots
  BY <1>1, <1>2 DEF Outcome
<1> QED  BY <1>1, <1>2, <1>3, OneMoves

-----------------------------------------------------------------------------
(* A request between two phases. *)

(* Nobody answered it, it is not the probe, and what it saw it has armed. *)
Live(q) ==
    /\ q.by = "none" /\ q.body = None /\ ~q.probe /\ q.slots = 0
    /\ q.verdict \notin {"serve", "fail"}
    /\ q.saw => q.armDone
    /\ q.armDone /\ q.verdict = "none" => q.armed # None

LEMMA LiveBetween ==
    ASSUME PathInv, NEW r \in Requests
    PROVE  /\ req[r] \in ReqType /\ Sound(req[r]) /\ inflight \in Nat
           /\ req[r].pc \notin {"gate", "origin", "done", "gone"} => Live(req[r])
           /\ req[r].pc = "gate" /\ req[r].verdict \in {"none", "pass"}
                 => Live(req[r])
<1>1. req[r] \in ReqType /\ Sound(req[r]) /\ inflight \in Nat
  BY DEF PathInv, TypeOK
<1> QED
  BY <1>1 DEF Sound, Unanswered, Probing, Remembers, Unslotted, Live, ReqType

(* Going on to another phase *)
LEMMA GotoFacts ==
    ASSUME NEW q \in ReqType, Live(q), inflight \in Nat,
           NEW x \in Pcs \ {"origin", "done", "gone"}, NEW s, s.slots = 0,
           NEW out \in Goto(q, x)
    PROVE  Outcome(s, inflight, out)
<1>1. [q EXCEPT !.pc = x] \in ReqType
  BY DEF ReqType
<1>2. PICK o \in ReqType : o = [q EXCEPT !.pc = x]
  BY <1>1
<1>3. /\ o.slots = 0 /\ o.pc = x
      /\ o.armed = q.armed /\ o.armDone = q.armDone /\ o.verdict = q.verdict
      /\ o.probe = q.probe /\ o.by = q.by /\ o.body = q.body /\ o.saw = q.saw
  BY <1>2 DEF ReqType, Live
<1>4. Sound(o)
  BY <1>3 DEF Live, Sound, MayHave, Unanswered, Probing, Remembers, Unslotted
<1>5. out[1] = o /\ out[2] = inflight
  BY <1>2 DEF Goto
<1> QED  BY <1>3, <1>4, <1>5 DEF Outcome

(* ... or out of the handler. *)
LEMMA LiveLeaves ==
    ASSUME NEW q \in ReqType, Live(q), inflight \in Nat, NEW s, s.slots = 0
    PROVE  /\ \A out \in Declined(q) : Outcome(s, inflight, out)
           /\ \A out \in End(q, "504") : Outcome(s, inflight, out)
           /\ \A e \in EntryType, by \in {"fresh", "stale", "breaker", "sie"} :
                 \A out \in Served(q, e, by) : Outcome(s, inflight, out)
<1>1. ~q.probe /\ q.slots = 0
  BY DEF Live
<1>2. \A out : Outcome(q, inflight, out) => Outcome(s, inflight, out)
  BY <1>1 DEF Outcome
<1>3. \A out \in Declined(q) : Outcome(q, inflight, out)
  BY DeclinedFacts DEF Declined
<1>4. \A out \in End(q, "504") : Outcome(q, inflight, out)
  BY <1>1, EndFacts
<1>5. \A e \in EntryType, by \in {"fresh", "stale", "breaker", "sie"} :
         \A out \in Served(q, e, by) : Outcome(q, inflight, out)
  BY <1>1, ServedFacts DEF Served
<1> QED  BY <1>2, <1>3, <1>4, <1>5

-----------------------------------------------------------------------------
(* The phases. *)

LEMMA PrologueKeeps ==
    ASSUME PathInv, NEW r \in Requests, Prologue(r)
    PROVE  Booked'
<1> DEFINE q == req[r]
           to == PrologueTo(q.kind)
           p == [q EXCEPT !.known = to # "aside",
                          !.only = @ \/ (to # "aside" /\ conf.fallback),
                          !.skip = @ \/ StoresNothing(q.kind, to)]
<1>1. q \in ReqType /\ Live(q) /\ inflight \in Nat
  BY LiveBetween DEF Prologue
<1>2. PICK b \in BOOLEAN, c \in BOOLEAN, d \in BOOLEAN :
        /\ b = (to # "aside") /\ c = (q.only \/ (to # "aside" /\ conf.fallback))
        /\ d = (q.skip \/ StoresNothing(q.kind, to))
  BY <1>1
<1>3. p = [q EXCEPT !.known = b, !.only = c, !.skip = d]
  BY <1>2
<1>4. p \in ReqType /\ Live(p)
  <2> HIDE DEF p, q, to
  <2>1. p \in ReqType
    BY ZenonT(40), <1>1, <1>3 DEF ReqType
  <2> QED  BY <1>1, <1>3, <2>1 DEF ReqType, Live
<1>5. \/ Step(r, {<<ToOrigin(p), inflight>>})
      \/ Step(r, End(p, "504")) \/ Step(r, Goto(p, "l1"))
  BY DEF Prologue
<1> HIDE DEF p, to
<1>6. q.slots = 0
  BY <1>1 DEF Live
<1>7. Outcome(q, inflight, <<ToOrigin(p), inflight>>)
  BY <1>1, <1>4, <1>6, ToOriginFacts DEF Outcome, Live
<1>8. \A out \in End(p, "504") : Outcome(q, inflight, out)
  BY <1>1, <1>4, <1>6, LiveLeaves
<1>9. \A out \in Goto(p, "l1") : Outcome(q, inflight, out)
  BY <1>1, <1>4, <1>6, GotoFacts DEF Pcs
<1> QED  BY <1>5, <1>7, <1>8, <1>9, StepMoves

(* What the phases write down of a request leaves it live. *)
LEMMA BoundedFacts ==
    ASSUME NEW q \in ReqType, Live(q), NEW e
    PROVE  Bounded(q, e) \in ReqType /\ Live(Bounded(q, e))
<1>1. PICK b \in BOOLEAN : b = (q.reval \/ (e.age \in 0..2 /\ ~Tolerates(q.kind, e)))
  BY DEF ReqType
<1>2. Bounded(q, e) = [q EXCEPT !.reval = b]
  BY <1>1 DEF Bounded
<1>3. [q EXCEPT !.reval = b] \in ReqType
  BY DEF ReqType
<1> QED  BY <1>2, <1>3 DEF Live, ReqType

LEMMA ArmedFacts ==
    ASSUME NEW q \in ReqType, Live(q), NEW e \in EntryType
    PROVE  /\ Armed(q, e) \in ReqType /\ Live(Armed(q, e))
           /\ Armed(q, e).armDone
<1>1. PICK a \in MaybeEntry, s \in MaybeEntry :
        /\ a = IF q.armDone THEN q.armed ELSE e
        /\ s = IF q.sie = None /\ OnError(e) THEN e ELSE q.sie
  BY DEF MaybeEntry, ReqType
<1>2. Armed(q, e) = [q EXCEPT !.armed = a, !.armDone = TRUE, !.sie = s]
  BY <1>1 DEF Armed
<1>3. [q EXCEPT !.armed = a, !.armDone = TRUE, !.sie = s] \in ReqType
  BY DEF ReqType
<1>4. e # None
  BY EntryIsSome
<1>5. PICK o \in ReqType : o = [q EXCEPT !.armed = a, !.armDone = TRUE, !.sie = s]
  BY <1>3
<1>6. /\ o.armed = a /\ o.armDone /\ o.by = q.by /\ o.body = q.body
      /\ o.probe = q.probe /\ o.slots = q.slots /\ o.verdict = q.verdict
      /\ o.saw = q.saw
  BY <1>5 DEF ReqType
<1>7. Live(o)
  BY <1>1, <1>4, <1>6 DEF Live
<1> QED  BY <1>2, <1>5, <1>6, <1>7

LEMMA SawFacts ==
    ASSUME NEW q \in ReqType
    PROVE  /\ [q EXCEPT !.saw = TRUE] \in ReqType
           /\ [q EXCEPT !.saw = TRUE].slots = q.slots
           /\ [q EXCEPT !.saw = TRUE].probe = q.probe
           /\ Live(q) /\ q.armDone => Live([q EXCEPT !.saw = TRUE])
  BY DEF ReqType, Live

LEMMA PresentFacts ==
    ASSUME NEW q \in ReqType, Live(q), q.armDone
    PROVE  /\ [q EXCEPT !.present = TRUE, !.saw = TRUE] \in ReqType
           /\ Live([q EXCEPT !.present = TRUE, !.saw = TRUE])
  BY DEF ReqType, Live

LEMMA PlainUpdates ==
    ASSUME NEW q \in ReqType, Live(q), NEW b \in BOOLEAN, NEW n \in Nat,
           NEW a \in {"unasked", "hit", "declined"}, NEW e \in MaybeEntry,
           NEW w \in {"none", "won", "lost", "down"}
    PROVE  /\ [q EXCEPT !.reval = b] \in ReqType
           /\ Live([q EXCEPT !.reval = b])
           /\ [q EXCEPT !.minPassed = b] \in ReqType
           /\ Live([q EXCEPT !.minPassed = b])
           /\ [q EXCEPT !.skip = b] \in ReqType /\ Live([q EXCEPT !.skip = b])
           /\ [q EXCEPT !.l2 = a] \in ReqType /\ Live([q EXCEPT !.l2 = a])
           /\ [q EXCEPT !.l2 = a, !.got = e] \in ReqType
           /\ Live([q EXCEPT !.l2 = a, !.got = e])
           /\ [q EXCEPT !.lock = w] \in ReqType /\ Live([q EXCEPT !.lock = w])
           /\ [q EXCEPT !.polls = n, !.l2 = a, !.got = e] \in ReqType
           /\ Live([q EXCEPT !.polls = n, !.l2 = a, !.got = e])
<1>1. /\ [q EXCEPT !.reval = b] \in ReqType
      /\ [q EXCEPT !.minPassed = b] \in ReqType
      /\ [q EXCEPT !.skip = b] \in ReqType
  BY DEF ReqType
<1>4. /\ [q EXCEPT !.l2 = a] \in ReqType
      /\ [q EXCEPT !.lock = w] \in ReqType
  BY DEF ReqType
<1>5. [q EXCEPT !.l2 = a, !.got = e] \in ReqType
  BY DEF ReqType
<1>6. [q EXCEPT !.polls = n, !.l2 = a, !.got = e] \in ReqType
  BY DEF ReqType
<1>2. /\ Live([q EXCEPT !.reval = b]) /\ Live([q EXCEPT !.minPassed = b])
      /\ Live([q EXCEPT !.skip = b]) /\ Live([q EXCEPT !.l2 = a])
      /\ Live([q EXCEPT !.lock = w])
  BY DEF Live, ReqType
<1>3. /\ Live([q EXCEPT !.l2 = a, !.got = e])
      /\ Live([q EXCEPT !.polls = n, !.l2 = a, !.got = e])
  BY DEF Live, ReqType
<1> QED  BY <1>1, <1>2, <1>3, <1>4, <1>5, <1>6

(* A refresh in the background, then the stale answer; or this request. *)
LEMMA RefreshedFacts ==
    ASSUME NEW q \in ReqType, Live(q), inflight \in Nat, NEW e \in EntryType,
           NEW s, s.slots = 0, NEW out \in Refreshed(q, e)
    PROVE  Outcome(s, inflight, out)
<1>1. CASE conf.background
  <2>1. PICK w \in Warmed(q, inflight, "refresh") :
                out \in ServedFrom(w[1], w[2], e, "stale")
    BY <1>1 DEF Refreshed
  <2>2. /\ w[1] \in ReqType /\ SameCourse(q, w[1])
        /\ w[2] \in Nat /\ w[2] - inflight = w[1].slots - q.slots
    BY WarmedFacts
  <2>3. PICK o \in ReqType, n \in Nat : o = w[1] /\ n = w[2]
    BY <2>2
  <2>4. ~o.probe /\ n - inflight = o.slots - q.slots /\ q.slots = 0
    BY <2>2, <2>3 DEF SameCourse, Live
  <2>5. Outcome(o, n, out)
    BY <2>1, <2>3, <2>4, ServedFacts
  <2> QED  BY <2>4, <2>5 DEF Outcome, ReqType
<1>2. CASE ~conf.background
  BY <1>2, LiveLeaves DEF Refreshed
<1> QED  BY <1>1, <1>2

LEMMA StaleArmFacts ==
    ASSUME NEW q \in ReqType, Live(q), inflight \in Nat, NEW e \in EntryType,
           NEW s, s.slots = 0, NEW out \in StaleArm(q, e)
    PROVE  Outcome(s, inflight, out)
<1>1. CASE out \in Refreshed(q, e)
  BY <1>1, RefreshedFacts
<1>2. CASE out \in Served(q, e, "stale")
  BY <1>2, LiveLeaves
<1>3. CASE out \in Goto(q, "locking")
  BY <1>3, GotoFacts DEF Pcs
<1> QED  BY <1>1, <1>2, <1>3 DEF StaleArm

LEMMA L1Keeps ==
    ASSUME PathInv, NEW r \in Requests, L1(r)
    PROVE  Booked'
<1> DEFINE s == req[r]
           q == Bounded(s, l1)
<1>1. s \in ReqType /\ Live(s) /\ inflight \in Nat /\ s.slots = 0
  BY LiveBetween DEF L1, Live
<1>2. q \in ReqType /\ Live(q)
  BY <1>1, BoundedFacts
<1>3. l1 # None => l1 \in EntryType
  BY DEF PathInv, TypeOK, MaybeEntry
<1>4. \/ Step(r, Goto(s, "l2"))
      \/ l1 # None /\ Step(r, Served(q, l1, "fresh"))
      \/ l1 # None /\ Step(r, StaleArm(q, l1))
      \/ l1 # None /\ Step(r, Goto([Armed(q, l1) EXCEPT !.saw = TRUE], "l2"))
  BY DEF L1
<1> HIDE DEF q
<1>5. CASE Step(r, Goto(s, "l2"))
  <2>1. \A out \in Goto(s, "l2") : Outcome(s, inflight, out)
    BY <1>1, GotoFacts DEF Pcs
  <2> QED  BY <1>5, <2>1, StepMoves
<1>6. CASE l1 # None /\ Step(r, Served(q, l1, "fresh"))
  <2>1. \A out \in Served(q, l1, "fresh") : Outcome(s, inflight, out)
    BY <1>1, <1>2, <1>3, <1>6, LiveLeaves
  <2> QED  BY <1>6, <2>1, StepMoves
<1>7. CASE l1 # None /\ Step(r, StaleArm(q, l1))
  <2>1. \A out \in StaleArm(q, l1) : Outcome(s, inflight, out)
    BY <1>1, <1>2, <1>3, <1>7, StaleArmFacts
  <2> QED  BY <1>7, <2>1, StepMoves
<1>8. CASE l1 # None /\ Step(r, Goto([Armed(q, l1) EXCEPT !.saw = TRUE], "l2"))
  <2>1. PICK a \in ReqType : a = Armed(q, l1) /\ Live(a) /\ a.armDone
    BY <1>2, <1>3, <1>8, ArmedFacts
  <2>2. [a EXCEPT !.saw = TRUE] \in ReqType /\ Live([a EXCEPT !.saw = TRUE])
    BY <2>1, SawFacts
  <2>3. \A out \in Goto([a EXCEPT !.saw = TRUE], "l2") : Outcome(s, inflight, out)
    BY <1>1, <2>2, GotoFacts DEF Pcs
  <2> QED  BY <1>8, <2>1, <2>3, StepMoves
<1> QED  BY <1>4, <1>5, <1>6, <1>7, <1>8

LEMMA L2Keeps ==
    ASSUME PathInv, NEW r \in Requests,
           AskL2(r) \/ PassL2(r) \/ ExpiredInL2(r) \/ PromoteServe(r)
    PROVE  Booked'
<1>1. PICK q \in ReqType : q = req[r] /\ Live(q) /\ inflight \in Nat /\ q.slots = 0
  BY LiveBetween DEF AskL2, PassL2, ExpiredInL2, PromoteServe, Live
<1> DEFINE seen == [q EXCEPT !.saw = TRUE]
           denied == [q EXCEPT !.l2 = "declined"]
           late == [q EXCEPT !.reval = TRUE]
<1>2. denied \in ReqType /\ Live(denied) /\ late \in ReqType /\ Live(late)
  <2>1. 0 \in Nat /\ TRUE \in BOOLEAN /\ None \in MaybeEntry
        /\ "declined" \in {"unasked", "hit", "declined"}
        /\ "none" \in {"none", "won", "lost", "down"}
    BY DEF MaybeEntry
  <2> QED  BY <1>1, <2>1, PlainUpdates
<1>3. seen \in ReqType /\ ~seen.probe /\ seen.slots = 0
  BY <1>1, SawFacts DEF Live
<1> HIDE DEF denied, late, seen
<1>4. \A o \in ReqType : Live(o) =>
         \A out \in Goto(o, "asking") \cup Goto(o, "oic") : Outcome(q, inflight, out)
  BY <1>1, GotoFacts DEF Pcs
<1>5. CASE AskL2(r) \/ PassL2(r)
  <2>1. PICK o \in {q, denied} :
           Step(r, Goto(o, "asking")) \/ Step(r, Goto(o, "oic"))
    BY <1>1, <1>5 DEF AskL2, PassL2, denied
  <2> QED  BY <1>1, <1>2, <1>4, <2>1, StepMoves
<1>6. CASE ExpiredInL2(r)
  <2>1. q.got \in EntryType
    <3>1. q.got.age > 2 /\ q.got \in MaybeEntry
      BY <1>1, <1>6 DEF ExpiredInL2, ReqType
    <3>2. q.got # None
      BY <3>1 DEF None
    <3> QED  BY <3>1, <3>2 DEF MaybeEntry
  <2>2. PICK a \in ReqType : a = Armed(q, q.got) /\ Live(a) /\ a.armDone
    BY <1>1, <2>1, ArmedFacts
  <2>3. /\ [a EXCEPT !.present = TRUE, !.saw = TRUE] \in ReqType
        /\ Live([a EXCEPT !.present = TRUE, !.saw = TRUE])
    BY <2>2, PresentFacts
  <2>4. Step(r, Goto([a EXCEPT !.present = TRUE, !.saw = TRUE], "oic"))
    BY <1>1, <1>6, <2>2 DEF ExpiredInL2
  <2> QED  BY <1>1, <1>4, <2>3, <2>4, StepMoves
<1>7. CASE PromoteServe(r)
  <2>1. q.got.age \in 0..2 /\ q.got \in MaybeEntry
    BY <1>1, <1>7 DEF PromoteServe, ReqType
  <2>2. q.got # None
    BY <2>1 DEF None
  <2>3. PICK e \in EntryType : e = q.got
    BY <2>1, <2>2 DEF MaybeEntry
  <2>4. \/ \E by \in {"fresh", "stale"} : Step(r, Served(seen, e, by))
        \/ Step(r, Goto(late, "oic"))
    BY <1>1, <1>7, <2>3 DEF PromoteServe, seen, late
  <2>5. CASE \E by \in {"fresh", "stale"} : Step(r, Served(seen, e, by))
    <3>1. PICK by \in {"fresh", "stale", "breaker", "sie"} : Step(r, Served(seen, e, by))
      BY <2>5
    <3>2. \A out \in Served(seen, e, by) : Outcome(seen, inflight, out)
      BY <1>1, <1>3, ServedFacts DEF Served
    <3>3. \A out \in Served(seen, e, by) : Outcome(req[r], inflight, out)
      BY <1>1, <1>3, <3>2 DEF Outcome
    <3> QED  BY <3>1, <3>3, StepMoves
  <2>6. CASE Step(r, Goto(late, "oic"))
    BY <1>1, <1>2, <1>4, <2>6, StepMoves
  <2> QED  BY <2>4, <2>5, <2>6
<1> QED  BY <1>5, <1>6, <1>7

LEMMA OnlyIfCachedKeeps ==
    ASSUME PathInv, NEW r \in Requests, OnlyIfCached(r)
    PROVE  Booked'
<1>1. PICK q \in ReqType : q = req[r] /\ Live(q) /\ inflight \in Nat /\ q.slots = 0
  BY LiveBetween DEF OnlyIfCached, Live
<1>2. CASE Step(r, Goto(q, "gate"))
  <2>1. \A out \in Goto(q, "gate") : Outcome(q, inflight, out)
    BY <1>1, GotoFacts DEF Pcs
  <2> QED  BY <1>1, <1>2, <2>1, StepMoves
<1>3. CASE q.armed # None /\ Step(r, Served(q, q.armed, "breaker"))
  <2>1. q.armed \in EntryType
    BY <1>3 DEF ReqType, MaybeEntry
  <2>2. \A out \in Served(q, q.armed, "breaker") : Outcome(q, inflight, out)
    BY <1>1, <2>1, LiveLeaves
  <2> QED  BY <1>1, <1>3, <2>2, StepMoves
<1>4. CASE Step(r, End(q, "504"))
  <2>1. \A out \in End(q, "504") : Outcome(q, inflight, out)
    BY <1>1, LiveLeaves
  <2> QED  BY <1>1, <1>4, <2>1, StepMoves
<1> QED  BY <1>1, <1>2, <1>3, <1>4 DEF OnlyIfCached

(* The verdict of the breaker *)
LEMMA ConsultKeeps ==
    ASSUME PathInv, NEW r \in Requests, Consult(r)
    PROVE  Booked'
<1>1. PICK q \in ReqType : q = req[r] /\ Live(q) /\ inflight \in Nat
                           /\ q.pc = "gate" /\ q.verdict = "none"
  BY LiveBetween DEF Consult
<1>2. PICK v \in {"pass", "probe", "serve", "fail"}, b \in BOOLEAN :
        /\ req' = [req EXCEPT ![r] = [q EXCEPT !.verdict = v, !.probe = b]]
        /\ v = "serve" => q.armed # None
        /\ v = "fail" => q.armed = None
        /\ b <=> v = "probe"
  <2>1. q = [q EXCEPT !.probe = q.probe] /\ q.probe = FALSE
    BY <1>1 DEF ReqType, Live
  <2>2. \A v : [q EXCEPT !.verdict = v]
                  = [q EXCEPT !.verdict = v, !.probe = FALSE]
    BY ZenonT(40), <2>1 DEF ReqType
  <2>3. CASE req' = [req EXCEPT ![r].verdict = "pass"]
    BY <1>1, <2>2, <2>3
  <2>4. CASE req' = [req EXCEPT ![r].verdict = "probe", ![r].probe = TRUE]
    <3>1. req' = [req EXCEPT ![r] = [q EXCEPT !.verdict = "probe", !.probe = TRUE]]
      BY <1>1, <2>4
    <3> QED  BY <3>1
  <2>5. CASE req' = [req EXCEPT ![r].verdict =
                                    IF q.armed # None THEN "serve" ELSE "fail"]
    <3>1. CASE q.armed # None
      BY <1>1, <2>2, <2>5, <3>1
    <3>2. CASE q.armed = None
      BY <1>1, <2>2, <2>5, <3>2
    <3> QED  BY <3>1, <3>2
  <2> QED  BY <1>1, <2>3, <2>4, <2>5 DEF Consult
<1>3. [q EXCEPT !.verdict = v, !.probe = b] \in ReqType
  BY DEF ReqType
<1>4. PICK o \in ReqType : o = [q EXCEPT !.verdict = v, !.probe = b]
  BY <1>3
<1>5. /\ o.pc = "gate" /\ o.by = q.by /\ o.body = q.body /\ o.slots = q.slots
      /\ o.verdict = v /\ o.probe = b /\ o.saw = q.saw
      /\ o.armDone = q.armDone /\ o.armed = q.armed
  BY <1>1, <1>4 DEF ReqType
<1>6. Sound(o)
  BY <1>1, <1>2, <1>5 DEF Live, Sound, MayHave, Unanswered, Probing, Remembers,
                          Unslotted
<1>7. inflight' \in Nat /\ inflight' - inflight = o.slots - q.slots
  BY <1>1, <1>5 DEF Consult, Live
<1> QED  BY <1>1, <1>2, <1>4, <1>6, <1>7, OneMoves

(* What follows from it *)
LEMMA GateKeeps ==
    ASSUME PathInv, NEW r \in Requests, Gate(r)
    PROVE  Booked'
<1>1. PICK q \in ReqType : /\ q = req[r] /\ Sound(q) /\ inflight \in Nat
                           /\ q.pc = "gate" /\ q.slots = 0
  BY LiveBetween DEF Gate, Sound, Unslotted
<1>2. PICK d \in ReqType : d = Dropped(q)
  <2>1. [q EXCEPT !.armed = None] \in ReqType
    BY DEF ReqType, MaybeEntry
  <2> QED  BY <2>1 DEF Dropped
<1>3. /\ d.slots = 0 /\ d.by = q.by /\ d.body = q.body /\ d.probe = q.probe
      /\ d.verdict = q.verdict /\ d.saw = q.saw /\ d.armDone = q.armDone
  BY <1>1, <1>2 DEF Dropped, ReqType
<1>4. CASE q.verdict = "probe" /\ Step(r, AfterProbe(q))
  <2>1. \A out \in AfterProbe(q) : Outcome(d, inflight, out)
    BY <1>1, <1>2, DeclinedFacts DEF AfterProbe, Declined
  <2>2. \A out \in AfterProbe(q) : Outcome(req[r], inflight, out)
    BY <1>1, <1>3, <2>1 DEF Outcome
  <2> QED  BY <1>4, <2>2, StepMoves
<1>5. CASE q.verdict = "pass" /\ Step(r, Goto(d, "minuses"))
  <2>1. Live(q)
    BY <1>1, <1>5, LiveBetween
  <2>2. Live(d)
    BY <1>3, <1>5, <2>1 DEF Live
  <2>3. \A out \in Goto(d, "minuses") : Outcome(q, inflight, out)
    BY <1>1, <2>2, GotoFacts DEF Pcs
  <2> QED  BY <1>1, <1>5, <2>3, StepMoves
<1>6. CASE q.verdict = "serve" /\ Step(r, Served(q, q.armed, "breaker"))
  <2>1. q.armed # None /\ ~q.probe
    BY <1>1, <1>6 DEF Sound, Remembers, Probing
  <2>2. q.armed \in EntryType
    BY <2>1 DEF ReqType, MaybeEntry
  <2>3. \A out \in Served(q, q.armed, "breaker") : Outcome(q, inflight, out)
    BY <1>1, <2>1, <2>2, ServedFacts DEF Served
  <2> QED  BY <1>1, <1>6, <2>3, StepMoves
<1>7. CASE q.verdict = "fail" /\ Step(r, End(q, "503"))
  <2>1. ~q.saw /\ ~q.probe
    BY <1>1, <1>7 DEF Sound, Remembers, Probing
  <2>2. \A out \in End(q, "503") : Outcome(q, inflight, out)
    BY <1>1, <2>1, EndFacts
  <2> QED  BY <1>1, <1>7, <2>2, StepMoves
<1> QED  BY <1>1, <1>2, <1>4, <1>5, <1>6, <1>7 DEF Gate

LEMMA SkipDeclined ==
    ASSUME NEW q \in ReqType, Live(q), inflight \in Nat, NEW s, s.slots = 0,
           NEW out \in BelowMinUses(q)
    PROVE  Outcome(s, inflight, out)
<1>1. PICK o \in ReqType : o = [q EXCEPT !.skip = TRUE] /\ Live(o)
  <2>1. [q EXCEPT !.skip = TRUE] \in ReqType /\ Live([q EXCEPT !.skip = TRUE])
    BY DEF ReqType, Live
  <2> QED  BY <2>1
<1> QED  BY <1>1, LiveLeaves DEF BelowMinUses

LEMMA PassedFacts ==
    ASSUME NEW q \in ReqType, Live(q), NEW c \in BOOLEAN
    PROVE  /\ [q EXCEPT !.minPassed = @ \/ c] \in ReqType
           /\ Live([q EXCEPT !.minPassed = @ \/ c])
<1>1. PICK b \in BOOLEAN : b = (q.minPassed \/ c)
  OBVIOUS
<1>2. [q EXCEPT !.minPassed = @ \/ c] = [q EXCEPT !.minPassed = b]
  BY <1>1
<1>3. [q EXCEPT !.minPassed = b] \in ReqType
  BY DEF ReqType
<1>4. Live([q EXCEPT !.minPassed = b])
  BY DEF ReqType, Live
<1> QED  BY <1>2, <1>3, <1>4

LEMMA MinUsesKeeps ==
    ASSUME PathInv, NEW r \in Requests, MinUses(r)
    PROVE  Booked'
<1>1. PICK q \in ReqType : q = req[r] /\ Live(q) /\ inflight \in Nat /\ q.slots = 0
  BY LiveBetween DEF MinUses, Live
<1>2. PICK c \in BOOLEAN : c = (conf.minUses /\ ~q.minPassed /\ ~conf.lock)
  OBVIOUS
<1>3. CASE Step(r, BelowMinUses(q))
  <2>1. \A out \in BelowMinUses(q) : Outcome(q, inflight, out)
    BY <1>1, SkipDeclined
  <2> QED  BY <1>1, <1>3, <2>1, StepMoves
<1>4. CASE Step(r, Goto([q EXCEPT !.minPassed = @ \/ c], "cold"))
  <2>1. \A out \in Goto([q EXCEPT !.minPassed = @ \/ c], "cold") :
            Outcome(q, inflight, out)
    BY <1>1, PassedFacts, GotoFacts DEF Pcs
  <2> QED  BY <1>1, <1>4, <2>1, StepMoves
<1> QED  BY <1>1, <1>2, <1>3, <1>4 DEF MinUses

(* cold_wait() *)
LEMMA ColdWaitFacts ==
    ASSUME NEW q \in ReqType, Live(q), inflight \in Nat, NEW s, s.slots = 0,
           NEW out \in ColdWait(q)
    PROVE  Outcome(s, inflight, out)
<1>1. CASE out \in Declined(q)
  BY <1>1, LiveLeaves
<1>2. CASE q.sie # None /\ out \in Served(q, q.sie, "sie")
  <2>1. q.sie \in EntryType
    BY <1>2 DEF ReqType, MaybeEntry
  <2> QED  BY <1>2, <2>1, LiveLeaves
<1>3. CASE out \in Polling(q)
  <2>1. PICK n \in Nat : n = q.polls + 1
    BY DEF ReqType
  <2>2. None \in MaybeEntry /\ "unasked" \in {"unasked", "hit", "declined"}
        /\ "none" \in {"none", "won", "lost", "down"} /\ TRUE \in BOOLEAN
    BY DEF MaybeEntry
  <2>3. PICK o \in ReqType :
          o = [q EXCEPT !.polls = n, !.l2 = "unasked", !.got = None] /\ Live(o)
    BY <2>2, PlainUpdates
  <2>4. Polling(q) = Goto(o, "waiting")
    BY <2>1, <2>3 DEF Polling
  <2> QED  BY <1>3, <2>3, <2>4, GotoFacts DEF Pcs
<1> QED  BY <1>1, <1>2, <1>3 DEF ColdWait, TimedOut

LEMMA ClaimFacts ==
    ASSUME PathInv, NEW q \in ReqType, Live(q), NEW s, s.slots = 0,
           NEW out \in Claim(q)
    PROVE  Outcome(s, inflight, out)
<1>1. inflight \in Nat /\ l1 \in MaybeEntry
  BY DEF PathInv, TypeOK
<1>2. conf.minUses \in BOOLEAN
  BY DEF PathInv, TypeOK, ConfType
<1>3. PICK n \in ReqType : n = [q EXCEPT !.minPassed = @ \/ conf.minUses] /\ Live(n)
  BY <1>2, PassedFacts
<1>4. \/ out \in BelowMinUses(q)
      \/ l1 # None /\ out \in Served(n, l1, "fresh")
      \/ out \in Declined(n) \/ out \in ColdWait(n)
      \/ out \in Goto(n, "locking")
  BY <1>3 DEF Claim
<1>5. CASE out \in BelowMinUses(q)
  BY <1>1, <1>5, SkipDeclined
<1>6. CASE l1 # None /\ out \in Served(n, l1, "fresh")
  BY <1>1, <1>3, <1>6, LiveLeaves DEF MaybeEntry
<1>7. CASE out \in Declined(n)
  BY <1>1, <1>3, <1>7, LiveLeaves
<1>8. CASE out \in ColdWait(n)
  BY <1>1, <1>3, <1>8, ColdWaitFacts
<1>9. CASE out \in Goto(n, "locking")
  BY <1>1, <1>3, <1>9, GotoFacts DEF Pcs
<1> QED  BY <1>4, <1>5, <1>6, <1>7, <1>8, <1>9

LEMMA ColdKeeps ==
    ASSUME PathInv, NEW r \in Requests, Cold(r)
    PROVE  Booked'
<1>1. PICK q \in ReqType : q = req[r] /\ Live(q) /\ inflight \in Nat /\ q.slots = 0
  BY LiveBetween DEF Cold, Live
<1>2. /\ \A out \in Declined(q) : Outcome(q, inflight, out)
      /\ \A out \in ColdWait(q) : Outcome(q, inflight, out)
      /\ \A out \in Claim(q) : Outcome(q, inflight, out)
  BY <1>1, LiveLeaves, ColdWaitFacts, ClaimFacts
<1>3. Step(r, Declined(q)) \/ Step(r, ColdWait(q)) \/ Step(r, Claim(q))
  BY <1>1 DEF Cold
<1> QED  BY <1>1, <1>2, <1>3, StepMoves

(* A parked request is run again from the top. *)
LEMMA ParkedKeeps ==
    ASSUME PathInv, NEW r \in Requests, Parked(r)
    PROVE  Booked'
<1>1. PICK q \in ReqType : q = req[r] /\ Live(q) /\ inflight \in Nat /\ q.slots = 0
  BY LiveBetween DEF Parked, L2Answers, LockAnswers, WaitEnds, Live
<1>2. PICK o \in ReqType : Live(o) /\ Resume(r, o)
  <2>1. CASE L2Answers(r)
    <3>1. /\ "hit" \in {"unasked", "hit", "declined"}
          /\ "declined" \in {"unasked", "hit", "declined"}
          /\ "none" \in {"none", "won", "lost", "down"}
          /\ TRUE \in BOOLEAN /\ 0 \in Nat /\ l2 \in MaybeEntry
      BY DEF PathInv, TypeOK
    <3>2. /\ [q EXCEPT !.l2 = "hit", !.got = l2] \in ReqType
          /\ Live([q EXCEPT !.l2 = "hit", !.got = l2])
          /\ [q EXCEPT !.l2 = "declined"] \in ReqType
          /\ Live([q EXCEPT !.l2 = "declined"])
      BY <1>1, <3>1, PlainUpdates
    <3> QED  BY <1>1, <2>1, <3>2 DEF L2Answers
  <2>2. CASE LockAnswers(r)
    <3>1. PICK res \in {"none", "won", "lost", "down"} : Resume(r, [q EXCEPT !.lock = res])
      BY <1>1, <2>2 DEF LockAnswers
    <3>2. /\ "hit" \in {"unasked", "hit", "declined"}
          /\ TRUE \in BOOLEAN /\ 0 \in Nat /\ None \in MaybeEntry
      BY DEF MaybeEntry
    <3>3. [q EXCEPT !.lock = res] \in ReqType /\ Live([q EXCEPT !.lock = res])
      BY <1>1, <3>2, PlainUpdates
    <3> QED  BY <3>1, <3>3
  <2>3. CASE WaitEnds(r)
    BY <1>1, <2>3 DEF WaitEnds
  <2> QED  BY <2>1, <2>2, <2>3 DEF Parked
<1>3. [o EXCEPT !.pc = "prologue"] \in ReqType
  BY DEF ReqType, Pcs
<1>4. PICK p \in ReqType : p = [o EXCEPT !.pc = "prologue"]
  BY <1>3
<1>5. Outcome(q, inflight, <<p, inflight>>)
  BY <1>1, <1>2, <1>4, GotoFacts DEF Goto, Pcs
<1>6. Sound(p) /\ p.slots = q.slots
  BY <1>1, <1>5 DEF Outcome, ReqType
<1>7. req' = [req EXCEPT ![r] = p] /\ inflight' = inflight
  BY <1>2, <1>4 DEF Resume
<1>8. inflight' \in Nat /\ inflight' - inflight = p.slots - q.slots
  BY <1>1, <1>6, <1>7
<1> QED  BY <1>1, <1>6, <1>7, <1>8, OneMoves

-----------------------------------------------------------------------------
(* At the origin, and after. *)

LEMMA OriginKeeps ==
    ASSUME PathInv, NEW r \in Requests, OriginFails(r) \/ OriginAnswers(r)
    PROVE  Booked'
<1>1. PICK q \in ReqType : /\ q = req[r] /\ Sound(q) /\ inflight \in Nat
                           /\ q.pc = "origin"
  BY LiveBetween DEF OriginFails, OriginAnswers
<1>2. PICK by \in {"origin", "sie"}, e \in MaybeEntry :
        /\ req' = [req EXCEPT ![r] = Over(q, by, e)]
        /\ MayHave(q.kind, e, by)
  <2>1. CASE q.sie # None /\ ~SieRefuses(q.kind, q.sie)
             /\ req' = [req EXCEPT ![r] = Over(q, "sie", q.sie)]
    <3>1. q.sie \in MaybeEntry
      BY DEF ReqType
    <3> QED  BY <2>1, <3>1 DEF SieRefuses, MayHave
  <2>2. CASE req' = [req EXCEPT ![r] = Over(q, "origin", None)]
    BY <2>2 DEF MayHave, MaybeEntry
  <2> QED  BY <1>1, <2>1, <2>2 DEF OriginFails, OriginAnswers
<1>3. PICK o \in ReqType : o = Over(q, by, e) /\ Sound(o) /\ o.slots = q.slots
  BY <1>2, OverFacts
<1>4. inflight' \in Nat /\ inflight' - inflight = o.slots - q.slots
  <2>1. o.slots \in Nat
    BY DEF ReqType
  <2>2. inflight' = inflight
    BY DEF OriginFails, OriginAnswers
  <2> QED  BY <1>1, <1>3, <2>1, <2>2
<1> QED  BY <1>1, <1>2, <1>3, <1>4, OneMoves

LEMMA WarmEndsKeeps ==
    ASSUME PathInv, NEW r \in Requests, NEW why, WarmEnds(r, why)
    PROVE  Booked'
<1>1. PICK q \in ReqType : q = req[r] /\ Sound(q) /\ inflight \in Nat
  BY LiveBetween
<1>2. PICK w \in SUBSET {"head", "refresh"} : w = q.warm \ {why}
  BY DEF ReqType
<1>3. [q EXCEPT !.warm = w] \in ReqType
  BY DEF ReqType
<1>4. PICK o \in ReqType : o = [q EXCEPT !.warm = w]
  BY <1>3
<1>5. SameCourse(q, o) /\ o.slots = q.slots
  BY <1>4 DEF ReqType, SameCourse
<1>6. Sound(o)
  BY <1>1, <1>5 DEF Sound, MayHave, Unanswered, Probing, Remembers, Unslotted,
                    SameCourse
<1>7. req' = [req EXCEPT ![r] = o]
  BY <1>1, <1>2, <1>4 DEF WarmEnds
<1>8. inflight' \in Nat /\ inflight' - inflight = o.slots - q.slots
  BY <1>1, <1>5 DEF WarmEnds, ReqType
<1> QED  BY <1>1, <1>6, <1>7, <1>8, OneMoves

(* The slots of a request are given back with its pool: they are among those *)
(* that are out.                                                            *)
LEMMA PoolGoneKeeps ==
    ASSUME PathInv, NEW r \in Requests, PoolGone(r)
    PROVE  Booked'
<1>1. PICK q \in ReqType : /\ q = req[r] /\ Sound(q) /\ inflight \in Nat
                           /\ q.pc = "done"
  BY LiveBetween DEF PoolGone
<1>2. [q EXCEPT !.pc = "gone", !.slots = 0] \in ReqType
  BY DEF ReqType, Pcs
<1>3. PICK o \in ReqType : o = [q EXCEPT !.pc = "gone", !.slots = 0]
  BY <1>2
<1>4. /\ o.pc = "gone" /\ o.slots = 0 /\ o.kind = q.kind /\ o.by = q.by
      /\ o.body = q.body /\ o.saw = q.saw /\ o.probe = q.probe
  BY <1>3 DEF ReqType
<1>5. Sound(o)
  BY <1>1, <1>4 DEF Sound, MayHave, Unanswered, Probing, Remembers, Unslotted
<1>6. req' = [req EXCEPT ![r] = o]
  BY <1>1, <1>3 DEF PoolGone
<1>7. inflight >= q.slots /\ q.slots \in Nat
  <2>1. PICK n \in Nat : n = q.slots
    BY DEF ReqType
  <2>2. Row(r, n) \subseteq Taken
    BY <1>1, <2>1 DEF Taken
  <2>3. IsFiniteSet(Taken) /\ inflight = Cardinality(Taken)
    BY DEF PathInv
  <2>4. Cardinality(Row(r, n)) = n
    BY RowFacts
  <2> QED  BY <1>1, <2>1, <2>2, <2>3, <2>4, FS_Subset
<1>8. inflight' = inflight - q.slots
  BY <1>1 DEF PoolGone
<1>9. inflight' \in Nat /\ inflight' - inflight = o.slots - q.slots
  BY <1>1, <1>4, <1>7, <1>8
<1> QED  BY <1>1, <1>5, <1>6, <1>9, OneMoves

-----------------------------------------------------------------------------
(* The zone, L2 and the breaker. *)

Around ==
    /\ conf \in ConfType /\ breaker \in {"closed", "open", "half"}
    /\ holder \in Requests \cup {NoOne}
    /\ l1 \in MaybeEntry /\ l2 \in MaybeEntry /\ moves \in Nat

LEMMA EntryFacts ==
    ASSUME NEW m \in SUBSET Marks
    PROVE  Entry(m) \in EntryType
  BY DEF Entry, EntryType

(* What is stored is an entry. *)
LEMMA WritesFacts ==
    ASSUME Around, NEW m \in SUBSET Marks, Writes(m)
    PROVE  l1' \in MaybeEntry /\ l2' \in MaybeEntry
  BY EntryFacts DEF Writes, MaybeEntry, Around

LEMMA StoredBeforeFacts == StoredBefore \subseteq MaybeEntry
<1>1. \A m \in Stored : m \cup {"only"} \in SUBSET Marks /\ m \cup {} \in SUBSET Marks
  BY RequestPathAssumption DEF Marks
<1>2. \A m \in Stored : (m \cup IF conf.fallback THEN {"only"} ELSE {}) \in SUBSET Marks
  BY <1>1
<1> QED  BY <1>2, EntryFacts DEF StoredBefore, MaybeEntry

LEMMA OlderFacts ==
    ASSUME NEW e \in MaybeEntry
    PROVE  Older(e) \in MaybeEntry
<1>1. CASE e.age \in 0..3
  <2>1. e # None
    BY <1>1 DEF None
  <2>2. e \in EntryType
    BY <2>1 DEF MaybeEntry
  <2>3. PICK n \in 0..4 : n = e.age + 1
    BY <1>1
  <2>4. [e EXCEPT !.age = n] \in EntryType
    BY <2>2 DEF EntryType
  <2> QED  BY <1>1, <2>3, <2>4 DEF Older, MaybeEntry
<1>2. CASE e.age \notin 0..3
  BY <1>2 DEF Older
<1> QED  BY <1>1, <1>2

(* No step takes the zone, L2 or the breaker out of their types. *)
LEMMA AroundNext ==
    ASSUME PathInv, [Next]_vars
    PROVE  Around'
<1>1. Around
  BY DEF PathInv, TypeOK, Around
<1>2. CASE UNCHANGED vars
  BY <1>1, <1>2 DEF vars, Around
<1>3. CASE Unshared
  BY <1>1, <1>3 DEF Unshared, Around
<1>4. CASE Others
  BY <1>1, <1>4, StoredBeforeFacts DEF Others, Around
<1>5. CASE Time
  BY <1>1, <1>5, OlderFacts DEF Time, Around
<1>6. ASSUME NEW r \in Requests, Parked(r) PROVE Unshared
  BY <1>6 DEF Parked, L2Answers, LockAnswers, WaitEnds, Resume
<1>7. ASSUME NEW r \in Requests, Phase(r) PROVE Around'
  <2>1. CASE PromoteServe(r)
    <3>1. req[r].got \in MaybeEntry
      BY DEF PathInv, TypeOK, ReqType
    <3>2. l1' \in MaybeEntry
      BY <1>1, <2>1, <3>1 DEF PromoteServe, Around
    <3> QED  BY <1>1, <2>1, <3>2 DEF PromoteServe, Around
  <2>2. CASE Consult(r)
    BY <1>1, <2>2 DEF Consult, Around
  <2>3. CASE ~PromoteServe(r) /\ ~Consult(r)
    BY <1>3, <1>7, <2>3 DEF Phase, Prologue, L1, AskL2, PassL2, ExpiredInL2,
                            OnlyIfCached, Gate, MinUses, Cold
  <2> QED  BY <2>1, <2>2, <2>3
<1>8. ASSUME NEW r \in Requests, Origin(r) PROVE Around'
  <2>1. \A m \in Stored : m \in SUBSET Marks /\ m \cup {"only"} \in SUBSET Marks
    BY RequestPathAssumption DEF Marks
  <2>2. ASSUME NEW bad, Recorded(req[r], r, bad)
        PROVE  breaker' \in {"closed", "open", "half"} /\ holder' \in Requests \cup {NoOne}
    BY <1>1, <2>2 DEF Recorded, Around
  <2>3. CASE OriginFails(r)
    BY <1>1, <2>2, <2>3 DEF OriginFails, Around
  <2>4. CASE OriginAnswers(r)
    <3>1. breaker' \in {"closed", "open", "half"} /\ holder' \in Requests \cup {NoOne}
      BY <1>1, <2>2, <2>4 DEF OriginAnswers, Around
    <3>2. \A m \in Stored :
            (IF req[r].only THEN {"only"} ELSE {}) \cup m \in SUBSET Marks
      BY <2>1
    <3>3. l1' \in MaybeEntry /\ l2' \in MaybeEntry
      BY <1>1, <2>4, <3>2, WritesFacts DEF OriginAnswers, Around
    <3> QED  BY <1>1, <2>4, <3>1, <3>3 DEF OriginAnswers, Around
  <2>5. ASSUME NEW why, WarmEnds(r, why) PROVE Around'
    <3>1. l1' \in MaybeEntry /\ l2' \in MaybeEntry
      BY <1>1, <2>1, <2>5, WritesFacts DEF WarmEnds, Around
    <3> QED  BY <1>1, <2>5, <3>1 DEF WarmEnds, Around
  <2>6. CASE PoolGone(r)
    BY <1>3, <2>6 DEF PoolGone
  <2> QED  BY <1>8, <2>3, <2>4, <2>5, <2>6 DEF Origin
<1> QED  BY <1>2, <1>3, <1>4, <1>5, <1>6, <1>7, <1>8 DEF Next

-----------------------------------------------------------------------------
(* The invariant. *)

LEMMA PathInit == Init => PathInv
<1> SUFFICES ASSUME Init PROVE PathInv
  OBVIOUS
<1>1. Around
  BY RequestPathAssumption, StoredBeforeFacts DEF Init, Around, MaybeEntry
<1>2. \A r \in Requests : req[r] \in ReqType /\ Sound(req[r]) /\ req[r].slots = 0
  <2>1. \A k \in Kinds : Start(k) \in ReqType /\ Sound(Start(k)) /\ Start(k).slots = 0
    <3> SUFFICES ASSUME NEW k \in KindType
                 PROVE  Start(k) \in ReqType /\ Sound(Start(k)) /\ Start(k).slots = 0
      BY RequestPathAssumption
    <3> QED  BY StartFacts DEF Sound, MayHave, Unanswered, Probing, Remembers,
                               Unslotted
  <2> QED  BY <2>1 DEF Init
<1>3. req \in [Requests -> ReqType]
  BY <1>2 DEF Init
<1>4. Taken = {}
  BY <1>2 DEF Taken, Row
<1>5. IsFiniteSet(Taken) /\ inflight = Cardinality(Taken)
  BY <1>4, FS_EmptySet DEF Init
<1> QED  BY <1>1, <1>2, <1>3, <1>5 DEF PathInv, TypeOK, Around, Init

LEMMA PathNext == PathInv /\ [Next]_vars => PathInv'
<1> SUFFICES ASSUME PathInv, [Next]_vars PROVE PathInv'
  OBVIOUS
<1>1. ASSUME UNCHANGED <<req, inflight>> PROVE Booked'
  BY <1>1 DEF PathInv, TypeOK, Booked, Taken
<1>2. ASSUME NEW r \in Requests, Phase(r) PROVE Booked'
  BY <1>2, PrologueKeeps, L1Keeps, L2Keeps, OnlyIfCachedKeeps, ConsultKeeps,
     GateKeeps, MinUsesKeeps, ColdKeeps DEF Phase
<1>3. ASSUME NEW r \in Requests, Origin(r) PROVE Booked'
  BY <1>3, OriginKeeps, WarmEndsKeeps, PoolGoneKeeps DEF Origin
<1>4. Booked'
  BY <1>1, <1>2, <1>3, ParkedKeeps DEF Next, Others, Time, vars
<1>5. Around'
  BY AroundNext
<1>6. inflight' \in Nat
  BY <1>4, FS_CardinalityType DEF Booked
<1> QED  BY <1>4, <1>5, <1>6 DEF PathInv, TypeOK, Booked, Around

LEMMA PathGives ==
    PathInv => /\ AnswerAllowed /\ OnlyWhenOriginDown /\ ProbeReachesOrigin
               /\ CopyBeats503 /\ SlotsReturned
<1> SUFFICES ASSUME PathInv
             PROVE  /\ AnswerAllowed /\ OnlyWhenOriginDown
                    /\ ProbeReachesOrigin /\ CopyBeats503 /\ SlotsReturned
  OBVIOUS
<1>1. \A r \in Requests : Sound(req[r]) /\ req[r] \in ReqType
  BY DEF PathInv, TypeOK
<1>2. AnswerAllowed /\ OnlyWhenOriginDown
  BY <1>1 DEF Sound, MayHave, AnswerAllowed, OnlyWhenOriginDown
<1>3. ProbeReachesOrigin /\ CopyBeats503
  BY <1>1 DEF Sound, Probing, Remembers, ProbeReachesOrigin, CopyBeats503
<1>4. SlotsReturned
  <2> SUFFICES ASSUME \A r \in Requests : req[r].pc \in {"prologue", "gone"}
               PROVE  inflight = 0
    BY DEF SlotsReturned
  <2>1. \A r \in Requests : req[r].slots = 0
    BY <1>1 DEF Sound, Unslotted
  <2>2. Taken = {}
    BY <2>1 DEF Taken, Row
  <2> QED  BY <2>2, FS_EmptySet DEF PathInv
<1> QED  BY <1>2, <1>3, <1>4

(* The request keeps its type through all its passes. *)
THEOREM PathTypes == Spec => []TypeOK
<1>1. PathInv => TypeOK
  BY DEF PathInv
<1> QED  BY <1>1, PathInit, PathNext, PTL DEF Spec

(* Whichever of its ways a stored body takes to a client, it is one that the *)
(* client may have (ngx_http_cache_turbo_access.c, serve(), sie_rewrite()).  *)
THEOREM OnlyAllowedAnswers == Spec => []AnswerAllowed
  BY PathGives, PathInit, PathNext, PTL DEF Spec

(* A body stored for the breaker answers nobody while the origin works. *)
THEOREM BreakerBodiesKept == Spec => []OnlyWhenOriginDown
  BY PathGives, PathInit, PathNext, PTL DEF Spec

(* Who took the probe's lease goes to the origin (access_breaker_gate()). *)
THEOREM ProbeGoesOn == Spec => []ProbeReachesOrigin
  BY PathGives, PathInit, PathNext, PTL DEF Spec

(* Who has seen a body in any of its passes is not turned away with a 503. *)
THEOREM NoNeedless503 == Spec => []CopyBeats503
  BY PathGives, PathInit, PathNext, PTL DEF Spec

(* The slots of background subrequests are those of the requests that have  *)
(* them, and come back with their pools (warm_one()).                       *)
THEOREM AllSlotsReturn == Spec => []SlotsReturned
  BY PathGives, PathInit, PathNext, PTL DEF Spec

=============================================================================
