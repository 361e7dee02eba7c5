------------------------- MODULE L2ClientsProofs -------------------------
(***************************************************************************)
(* Proofs about L2Clients for any number of operations, connections,       *)
(* requests and contexts: every operation reads its own replies, every     *)
(* connection has one place, and every parked request one operation.  And  *)
(* about Framing for any streams that mean something and any limits:       *)
(* wherever a reply is cut, it is framed as it would be at once, and heard *)
(* as it was meant.                                                        *)
(***************************************************************************)
EXTENDS L2Clients, Framing, FiniteSetTheorems, SequenceTheorems, TLAPS

(* The replies on a connection are all to the operation that holds it, or   *)
(* there is one, the last word of a server that closes at once.             *)
OwnReplied(o, e) == \A i \in DOMAIN e.replies : e.replies[i].for = o

Stray(e) == Len(e.replies) = 1 /\ e.replies[1] = [for |-> None, what |-> "err"]

AllOk(e) == \A i \in DOMAIN e.replies : e.replies[i].what = "ok"

\* How many replies the buffer that is sent asks for.
Need(q) == IF q.pre THEN PreReplies[q.ctx] ELSE q.expected

\* An error was heard on a connection that carries nothing more.
Over(q, e) == e.stream # "open" /\ q.failed

(* What is on a connection e is to or from the operation q that holds it. *)
Lines(o, q, e) ==
    /\ \A i \in DOMAIN e.cmds : e.cmds[i].for = o /\ e.cmds[i].pre = q.pre
    /\ OwnReplied(o, e) \/ Stray(e)
    /\ e.stream # "open" => e.cmds = <<>>
    /\ e.stream = "open" => OwnReplied(o, e)

(* Before it has written, nothing is under way and nothing was counted. *)
Waiting(o, q, e) ==
    q.st # "read" =>
        /\ e.cmds = <<>>
        /\ OwnReplied(o, e) => e.replies = <<>>
        /\ ~Over(q, e) => q.seen = 0

(* After that, what was read, lies there and is still to come adds up. *)
Reading(o, q, e) ==
    q.st = "read" =>
        /\ q.reader = "preamble" <=> q.pre
        /\ OwnReplied(o, e) /\ ~Over(q, e) =>
              q.seen + Len(e.replies) + Len(e.cmds) <= Need(q)
        /\ e.stream = "open" =>
              q.seen + Len(e.replies) + Len(e.cmds) = Need(q)

(* The server has taken the credentials when the preamble is over, and the  *)
(* operation has not read the refusal when it has not.                      *)
Welcome(q, e) ==
    /\ q.pre /\ q.failed => e.stream # "open" /\ e.replies = <<>>
    /\ e.stream = "open" /\ ~q.pre => e.session = Session(q.ctx)
    /\ e.stream = "open" /\ q.pre =>
         IF q.st # "read" THEN e.session = None
         ELSE /\ e.session \in {None, q.ctx, "refused"}
              /\ e.session = "refused" =>
                   \E i \in DOMAIN e.replies : e.replies[i].what = "err"
              /\ e.session = None => e.cmds # <<>>

(* The commands of a pipelined UNLINK that are not executed yet. *)
Owing(q, e, w) ==
    q.kind = "many" =>
        /\ q.st # "read" \/ q.pre => w = q.expected
        /\ ~q.pre => w >= Len(e.cmds)
        /\ q.st = "read" /\ ~q.pre /\ ~q.failed /\ AllOk(e) =>
               w = q.expected - q.seen - Len(e.replies)
        /\ \A i \in DOMAIN e.replies : e.replies[i].what # "nil"

Talk(o, q, e, w) ==
    /\ Lines(o, q, e) /\ Waiting(o, q, e) /\ Reading(o, q, e)
    /\ Welcome(q, e) /\ Owing(q, e, w)

(* An operation by itself. *)
Proper(q) ==
    IF q.kind = "none" THEN q = NoOp
    ELSE /\ q.ctx \in Contexts /\ q.conn \in Conns /\ q.st # "none"
         /\ q.expected >= 1
         /\ q.kind \in Waits <=> q.req # None
         /\ q.kind \in Waits \cup {"fire"} => q.expected = 1
         /\ q.ctx \in Memcached => q.kind \in {"get", "fire"} /\ q.reader = "reply"
         /\ q.pre => PreReplies[q.ctx] > 0

(* An operation and its connection. *)
Held(o) ==
    Live(o) =>
        LET e == conn[op[o].conn] IN
        /\ e.st = "used" /\ e.ctx = op[o].ctx
        /\ Talk(o, op[o], e, owed[o])

(* Two operations share neither a connection nor a request. *)
Alone ==
    \A o, p \in Ops :
        /\ op[o].conn # None /\ op[o].conn = op[p].conn => o = p
        /\ op[o].req # None /\ op[o].req = op[p].req => o = p

(* An idle connection carries nothing, not even the end of another's. *)
Rested(e) ==
    /\ e.cmds = <<>> /\ e.replies = <<>> /\ e.heard
    /\ e.stream = "open" => e.session = Session(e.ctx)

(* The place of a connection. *)
ConnAt(c) ==
    /\ conn[c].st = "free" => conn[c] = NoConn
    /\ conn[c].st = "used" => \E o \in Ops : op[o].conn = c
    /\ conn[c].st = "pooled" =>
         /\ conn[c].ctx \in Contexts /\ Rested(conn[c])
         /\ \E i \in DOMAIN pool[conn[c].ctx] : pool[conn[c].ctx][i] = c

(* A bucket of the pool. *)
PoolAt(x) ==
    /\ Len(pool[x]) <= KeepAlive
    /\ \A i, j \in DOMAIN pool[x] : pool[x][i] = pool[x][j] => i = j
    /\ \A i \in DOMAIN pool[x] :
         conn[pool[x][i]].st = "pooled" /\ conn[pool[x][i]].ctx = x

(* A request is parked as long as an operation knows it. *)
ParkedAt(r) == req[r] = "parked" <=> \E o \in Ops : op[o].req = r

Indexing == {o \in Ops : op[o].kind = "index"}

ClientsInv ==
    /\ TypeOK
    /\ \A o \in Ops : Proper(op[o]) /\ Held(o)
    /\ Alone
    /\ \A c \in Conns : ConnAt(c)
    /\ \A x \in Contexts : PoolAt(x)
    /\ \A r \in Requests : ParkedAt(r)
    /\ IsFiniteSet(Indexing) /\ inflight = Cardinality(Indexing)

-----------------------------------------------------------------------------
(* Sequences. *)

LEMMA EmptyOf ==
    ASSUME NEW s, s = <<>>
    PROVE  DOMAIN s = {} /\ Len(s) = 0
  OBVIOUS

(* The first of a sequence is taken. *)
LEMMA TailOf ==
    ASSUME NEW S, NEW s \in Seq(S), s # <<>>
    PROVE  /\ Tail(s) \in Seq(S) /\ Len(s) \in Nat /\ Len(s) > 0
           /\ Len(Tail(s)) = Len(s) - 1
           /\ Tail(s) = <<>> <=> Len(s) = 1
           /\ Head(s) = s[1] /\ Head(s) \in S /\ 1 \in DOMAIN s
           /\ \A i \in DOMAIN Tail(s) : i + 1 \in DOMAIN s /\ Tail(s)[i] = s[i + 1]
           /\ \A i \in DOMAIN s : i = 1 \/ i - 1 \in DOMAIN Tail(s)
<1>1. /\ Tail(s) \in Seq(S) /\ Len(s) \in Nat /\ Head(s) \in S
      /\ Len(Tail(s)) = Len(s) - 1 /\ DOMAIN s = 1..Len(s)
      /\ Head(s) = s[1]
      /\ \A i \in 1..Len(Tail(s)) : Tail(s)[i] = s[i + 1]
  BY HeadTailProperties, LenProperties
<1>2. Len(s) > 0 /\ DOMAIN Tail(s) = 1..(Len(s) - 1)
  BY <1>1, EmptySeq, LenProperties
<1>3. Tail(s) = <<>> <=> Len(s) = 1
  <2>1. Tail(s) = <<>> <=> Len(Tail(s)) = 0
    BY <1>1, EmptySeq
  <2> QED  BY <2>1, <1>1
<1> QED  BY <1>1, <1>2, <1>3

(* One more at the end. *)
OneMore(s, x, t) ==
    /\ Len(s) \in Nat /\ Len(t) = Len(s) + 1 /\ t # <<>>
    /\ \A i \in DOMAIN t : (i \in DOMAIN s /\ t[i] = s[i]) \/ t[i] = x
    /\ \A i \in DOMAIN s : i \in DOMAIN t /\ t[i] = s[i]
    /\ \E i \in DOMAIN t : t[i] = x

LEMMA AppendOf ==
    ASSUME NEW S, NEW s \in Seq(S), NEW x \in S, NEW t, t = Append(s, x)
    PROVE  OneMore(s, x, t)
<1>1. /\ t \in Seq(S) /\ Len(s) \in Nat /\ Len(t) = Len(s) + 1 /\ t # <<>>
      /\ DOMAIN s = 1..Len(s) /\ DOMAIN t = 1..(Len(s) + 1)
      /\ \A i \in 1..Len(s) : t[i] = s[i]
      /\ t[Len(s) + 1] = x
  BY AppendProperties, LenProperties
<1>2. Len(s) + 1 \in DOMAIN t
  BY <1>1
<1>3. \A i \in DOMAIN t : (i \in DOMAIN s /\ t[i] = s[i]) \/ t[i] = x
  BY <1>1
<1> QED  BY <1>1, <1>2, <1>3 DEF OneMore

(* One more at the beginning: no element twice if none was. *)
LEMMA ConsOf ==
    ASSUME NEW S, NEW s \in Seq(S), NEW x \in S
    PROVE  /\ <<x>> \o s \in Seq(S) /\ Len(s) \in Nat
           /\ Len(<<x>> \o s) = Len(s) + 1
           /\ (<<x>> \o s)[1] = x /\ 1 \in DOMAIN (<<x>> \o s)
           /\ \A i \in DOMAIN (<<x>> \o s) :
                 i # 1 => i - 1 \in DOMAIN s /\ (<<x>> \o s)[i] = s[i - 1]
           /\ \A i \in DOMAIN s :
                 i + 1 \in DOMAIN (<<x>> \o s) /\ (<<x>> \o s)[i + 1] = s[i]
<1>1. <<x>> \in Seq(S) /\ Len(<<x>>) = 1 /\ <<x>>[1] = x
  OBVIOUS
<1>2. /\ <<x>> \o s \in Seq(S) /\ Len(<<x>> \o s) = 1 + Len(s) /\ Len(s) \in Nat
      /\ \A i \in 1..(1 + Len(s)) :
            (<<x>> \o s)[i] = IF i <= 1 THEN <<x>>[i] ELSE s[i - 1]
  BY <1>1, ConcatProperties, LenProperties
<1>3. DOMAIN s = 1..Len(s) /\ DOMAIN (<<x>> \o s) = 1..(1 + Len(s))
  BY <1>2, LenProperties
<1> QED  BY SMTT(30), <1>1, <1>2, <1>3

(* One element is removed from its place. *)
LEMMA RemovedOf ==
    ASSUME NEW S, NEW s \in Seq(S), NEW k \in DOMAIN s
    PROVE  /\ RemoveAt(s, k) \in Seq(S)
           /\ Len(RemoveAt(s, k)) = Len(s) - 1 /\ Len(s) \in Nat
           /\ \A i \in DOMAIN RemoveAt(s, k) :
                 IF i < k THEN i \in DOMAIN s /\ RemoveAt(s, k)[i] = s[i]
                 ELSE i + 1 \in DOMAIN s /\ RemoveAt(s, k)[i] = s[i + 1]
           /\ \A i \in DOMAIN s : i # k =>
                 \E j \in DOMAIN RemoveAt(s, k) : RemoveAt(s, k)[j] = s[i]
<1> DEFINE a == SubSeq(s, 1, k - 1)
           b == SubSeq(s, k + 1, Len(s))
<1>1. Len(s) \in Nat /\ DOMAIN s = 1..Len(s) /\ k \in 1..Len(s)
  BY LenProperties
<1>2. /\ a \in Seq(S) /\ Len(a) = k - 1
      /\ \A i \in 1..(k - 1) : a[i] = s[i]
  BY <1>1, SubSeqProperties
<1>3. /\ b \in Seq(S) /\ Len(b) = Len(s) - k
      /\ \A i \in 1..(Len(s) - k) : b[i] = s[i + k]
  BY <1>1, SubSeqProperties
<1>4. /\ a \o b \in Seq(S) /\ Len(a \o b) = Len(a) + Len(b)
      /\ \A i \in 1..(Len(a) + Len(b)) :
            (a \o b)[i] = IF i <= Len(a) THEN a[i] ELSE b[i - Len(a)]
  BY <1>2, <1>3, ConcatProperties
<1>5. RemoveAt(s, k) = a \o b
  BY DEF RemoveAt
<1> HIDE DEF a, b
<1>8. Len(a \o b) = Len(s) - 1 /\ DOMAIN (a \o b) = 1..(Len(s) - 1)
  <2>1. Len(a) + Len(b) = Len(s) - 1
    BY <1>1, <1>2, <1>3
  <2>2. a \o b \in Seq(S) /\ Len(a \o b) = Len(a) + Len(b)
    BY <1>4
  <2>3. DOMAIN (a \o b) = 1..Len(a \o b)
    BY <2>2, LenProperties
  <2> QED  BY <2>1, <2>2, <2>3
<1>6. ASSUME NEW i \in 1..(Len(s) - 1)
      PROVE  (a \o b)[i] = IF i < k THEN s[i] ELSE s[i + 1]
  <2>1. (a \o b)[i] = IF i <= k - 1 THEN a[i] ELSE b[i - (k - 1)]
    BY <1>1, <1>2, <1>3, <1>4
  <2>2. CASE i < k
    BY <2>1, <2>2, <1>1, <1>2
  <2>3. CASE ~(i < k)
    <3>1. i - (k - 1) \in 1..(Len(s) - k) /\ i - (k - 1) + k = i + 1
      BY <2>3, <1>1
    <3> QED  BY <2>1, <2>3, <3>1, <1>1, <1>3
  <2> QED  BY <2>2, <2>3
<1>7. ASSUME NEW i \in DOMAIN s, i # k
      PROVE  \E j \in DOMAIN (a \o b) : (a \o b)[j] = s[i]
  <2>1. CASE i < k
    <3>1. i \in 1..(Len(s) - 1)
      BY <2>1, <1>1
    <3> QED  BY <2>1, <3>1, <1>6, <1>8
  <2>2. CASE i > k
    <3>1. i - 1 \in 1..(Len(s) - 1) /\ ~(i - 1 < k) /\ i - 1 + 1 = i
      BY <2>2, <1>1
    <3> QED  BY <3>1, <1>6, <1>8
  <2> QED  BY <2>1, <2>2, <1>7, <1>1
<1>9. ASSUME NEW i \in DOMAIN (a \o b)
      PROVE  IF i < k THEN i \in DOMAIN s /\ (a \o b)[i] = s[i]
             ELSE i + 1 \in DOMAIN s /\ (a \o b)[i] = s[i + 1]
  <2>1. i \in 1..(Len(s) - 1)
    BY <1>8
  <2>2. i \in DOMAIN s /\ i + 1 \in DOMAIN s
    BY <2>1, <1>1
  <2>3. (a \o b)[i] = IF i < k THEN s[i] ELSE s[i + 1]
    BY <2>1, <1>6
  <2> QED  BY <2>2, <2>3
<1> QED  BY <1>1, <1>4, <1>5, <1>7, <1>8, <1>9

(* The same command n times where nothing was sent. *)
Repeated(s, n, x, t) ==
    t = s \o [i \in 1..n |-> x] /\ Len(t) = n /\ \A i \in DOMAIN t : t[i] = x

LEMMA SentOf ==
    ASSUME NEW S, NEW s \in Seq(S), NEW n \in Nat, NEW x \in S, s = <<>>
    PROVE  \E t \in Seq(S) : Repeated(s, n, x, t)
<1> DEFINE t == [i \in 1..n |-> x]
<1>1. t \in Seq(S) /\ Len(t) = n /\ \A i \in DOMAIN t : t[i] = x
  BY IsASeq, LenProperties
<1>2. s \o t = t
  BY <1>1, ConcatEmptySeq
<1> QED  BY <1>1, <1>2 DEF Repeated

-----------------------------------------------------------------------------
(* What goes over a connection. *)

(* Two states of an operation between which it neither wrote nor read. *)
SameCourse(q, p) ==
    /\ p.kind = q.kind /\ p.ctx = q.ctx /\ p.pre = q.pre /\ p.reader = q.reader
    /\ p.expected = q.expected /\ p.seen = q.seen /\ p.failed = q.failed
    /\ p.st = "read" <=> q.st = "read"

(* Two states of a connection that carry the same. *)
SameLoad(e, f) ==
    /\ f.cmds = e.cmds /\ f.replies = e.replies /\ f.session = e.session
    /\ f.stream = "open" <=> e.stream = "open"

LEMMA TalkStays ==
    ASSUME NEW o \in Ops, NEW q \in OpType, NEW p \in OpType,
           NEW e \in ConnType, NEW f \in ConnType, NEW w \in Nat,
           SameCourse(q, p), SameLoad(e, f), Talk(o, q, e, w)
    PROVE  Talk(o, p, f, w)
  BY DEF SameCourse, SameLoad, Talk, Lines, Waiting, Reading, Welcome, Owing,
         OwnReplied, Stray, AllOk, Need, Over

(* An operation that has just got a connection, new or used before. *)
LEMMA TalkStarts ==
    ASSUME NEW o \in Ops, NEW q \in OpType, NEW e \in ConnType, NEW w \in Nat,
           e.cmds = <<>>, e.replies = <<>>,
           e.stream = "open" =>
               e.session = IF q.pre THEN None ELSE Session(q.ctx),
           q.st # "read", q.seen = 0, ~q.failed, q.kind = "many" => w = q.expected
    PROVE  Talk(o, q, e, w)
<1>1. /\ DOMAIN e.cmds = {} /\ DOMAIN e.replies = {} /\ Len(e.cmds) = 0
      /\ q.expected \in Nat
  BY DEF OpType
<1>2. Lines(o, q, e) /\ Waiting(o, q, e) /\ Reading(o, q, e)
  BY <1>1 DEF Lines, Waiting, Reading, OwnReplied
<1>3. Welcome(q, e) /\ Owing(q, e, w)
  BY <1>1 DEF Welcome, Owing
<1> QED  BY <1>2, <1>3 DEF Talk

(* The server closes; nothing more is executed. *)
LEMMA TalkCloses ==
    ASSUME NEW o \in Ops, NEW q \in OpType, NEW e \in ConnType,
           NEW f \in ConnType, NEW w \in Nat, Talk(o, q, e, w),
           e.stream = "open", f.stream # "open", f.cmds = <<>>,
           \/ f.replies = e.replies
           \/ e.replies = <<>> /\ f.replies = <<[for |-> None, what |-> "err"]>>
    PROVE  Talk(o, q, f, w)
<1>1. /\ DOMAIN f.cmds = {} /\ Len(f.cmds) = 0 /\ None \notin Ops
      /\ Len(e.cmds) \in Nat /\ Len(e.replies) \in Nat /\ q.seen \in Nat
      /\ q.expected \in Nat
  BY RedisClientAssumption, LenProperties DEF ConnType, OpType
<1>2. OwnReplied(o, e)
  BY DEF Talk, Lines
<1>3. CASE f.replies = e.replies
  <2>1. Lines(o, q, f)
    BY <1>1, <1>2, <1>3 DEF Lines, OwnReplied
  <2>2. Waiting(o, q, f) /\ Welcome(q, f)
    BY <1>1, <1>2, <1>3 DEF Talk, Waiting, Welcome, OwnReplied, Over
  <2>3. Reading(o, q, f)
    BY <1>1, <1>2, <1>3 DEF Talk, Reading, OwnReplied, Over, Need
  <2>4. Owing(q, f, w)
    BY <1>1, <1>3 DEF Talk, Owing, AllOk
  <2> QED  BY <2>1, <2>2, <2>3, <2>4 DEF Talk
<1>4. CASE e.replies = <<>> /\ f.replies = <<[for |-> None, what |-> "err"]>>
  <2>1. /\ Stray(f) /\ ~OwnReplied(o, f) /\ ~AllOk(f)
        /\ \A i \in DOMAIN f.replies : f.replies[i].what # "nil"
    BY <1>1, <1>4 DEF Stray, OwnReplied, AllOk
  <2>2. Lines(o, q, f)
    BY <1>1, <2>1 DEF Lines
  <2>3. Waiting(o, q, f) /\ Reading(o, q, f) /\ Welcome(q, f)
    BY <1>1, <2>1 DEF Talk, Waiting, Reading, Welcome, Over
  <2>4. Owing(q, f, w)
    BY <1>1, <2>1 DEF Talk, Owing
  <2> QED  BY <2>2, <2>3, <2>4 DEF Talk
<1> QED  BY <1>3, <1>4

(* The commands are sent, or dropped by a server that has closed. *)
LEMMA TalkWrites ==
    ASSUME NEW o \in Ops, NEW q \in OpType, NEW p \in OpType,
           NEW e \in ConnType, NEW f \in ConnType, NEW w \in Nat,
           Talk(o, q, e, w), Proper(q), q.kind # "none",
           q.st # "read", p.st = "read", p.reader = "preamble" <=> q.pre,
           p.kind = q.kind, p.ctx = q.ctx, p.pre = q.pre,
           p.expected = q.expected, p.seen = q.seen, p.failed = q.failed,
           f.replies = e.replies, f.session = e.session, f.stream = e.stream,
           IF e.stream = "open"
           THEN /\ Len(f.cmds) = Need(q)
                /\ \A i \in DOMAIN f.cmds :
                      f.cmds[i].for = o /\ f.cmds[i].pre = q.pre
           ELSE f.cmds = e.cmds
    PROVE  Talk(o, p, f, w)
<1>1. /\ Len(<<>>) = 0 /\ e.cmds = <<>> /\ Need(p) = Need(q)
      /\ q.seen \in Nat /\ q.expected \in Nat /\ Need(q) \in Nat
      /\ q.pre => Need(q) > 0
  BY RedisClientAssumption DEF Talk, Waiting, Need, OpType, Proper
<1>2. Lines(o, p, f)
  BY <1>1 DEF Talk, Lines, OwnReplied, Stray
<1>3. Waiting(o, p, f)
  BY DEF Waiting
<1>4. OwnReplied(o, f) /\ ~Over(q, f) => f.replies = <<>> /\ q.seen = 0
  BY DEF Talk, Waiting, OwnReplied, Over
<1>5. f.stream = "open" => OwnReplied(o, f) /\ ~Over(q, f)
  BY <1>2 DEF Lines, Over
<1>6. Reading(o, p, f)
  <2>1. CASE f.stream = "open"
    BY <1>1, <1>4, <1>5, <2>1 DEF Reading
  <2>2. CASE f.stream # "open"
    <3>1. f.cmds = <<>>
      BY <2>2, <1>1
    <3>2. Len(f.cmds) = 0
      BY <3>1, <1>1
    <3>3. Over(p, f) <=> Over(q, f)
      BY DEF Over
    <3>4. OwnReplied(o, f) /\ ~Over(p, f) =>
             p.seen + Len(f.replies) + Len(f.cmds) <= Need(p)
      BY <1>1, <1>4, <3>2, <3>3
    <3> QED  BY <2>2, <3>4 DEF Reading
  <2> QED  BY <2>1, <2>2
<1>7. Welcome(p, f)
  <2>1. f.stream = "open" /\ q.pre => f.cmds # <<>> /\ e.session = None
    BY <1>1 DEF Talk, Welcome
  <2>2. "refused" # None
    BY RedisClientAssumption
  <2> QED  BY <2>1, <2>2 DEF Talk, Welcome
<1>8. Owing(p, f, w)
  <2> SUFFICES ASSUME q.kind = "many" PROVE Owing(p, f, w)
    BY DEF Owing
  <2>1. w = q.expected /\ (~q.pre => w >= Len(f.cmds))
    BY <1>1 DEF Talk, Owing, Need
  <2>2. ASSUME ~q.failed, AllOk(f)
        PROVE  f.replies = <<>> /\ q.seen = 0
    <3>1. ~Stray(f)
      BY <2>2 DEF Stray, AllOk
    <3> QED  BY <3>1, <2>2, <1>2, <1>4 DEF Lines, Over
  <2>3. \A i \in DOMAIN f.replies : f.replies[i].what # "nil"
    BY DEF Talk, Owing
  <2> QED  BY <1>1, <2>1, <2>2, <2>3 DEF Owing
<1> QED  BY <1>2, <1>3, <1>6, <1>7, <1>8 DEF Talk

(* The server executes the next command: its reply is the last. *)
Answers(e, f, m) ==
    /\ e.stream = "open" /\ f.stream = "open" /\ e.cmds # <<>>
    /\ f.cmds = Tail(e.cmds) /\ f.replies = Append(e.replies, m)

LEMMA TalkExecutes ==
    ASSUME NEW o \in Ops, NEW q \in OpType, NEW e \in ConnType,
           NEW f \in ConnType, NEW w \in Nat, NEW v \in Nat,
           NEW m \in ReplyType, NEW what, m.for = o, m.what = what,
           Talk(o, q, e, w), Proper(q), q.kind # "none", e.ctx = q.ctx,
           Answers(e, f, m),
           q.pre => what \in {"ok", "err"},
           q.kind = "many" => what # "nil",
           f.session = IF ~q.pre THEN e.session
                       ELSE IF what # "ok" \/ e.session = "refused" THEN "refused"
                       ELSE IF f.cmds = <<>> THEN e.ctx ELSE e.session,
           v = IF what = "ok" /\ ~q.pre /\ q.kind = "many" THEN w - 1 ELSE w
    PROVE  Talk(o, q, f, v)
<1>1. /\ e.cmds \in Seq(CmdType) /\ e.replies \in Seq(ReplyType)
      /\ q.seen \in Nat /\ q.expected \in Nat
      /\ e.stream = "open" /\ f.stream = "open" /\ e.cmds # <<>>
  BY DEF ConnType, OpType, Answers
<1>2. m.for = o /\ m.what = what
  OBVIOUS
<1>3. /\ Len(f.cmds) = Len(e.cmds) - 1 /\ Len(e.cmds) \in Nat /\ Len(e.cmds) > 0
      /\ \A i \in DOMAIN f.cmds : i + 1 \in DOMAIN e.cmds /\ f.cmds[i] = e.cmds[i + 1]
  BY SMTT(30), <1>1, TailOf DEF Answers
<1>5. /\ Len(f.replies) = Len(e.replies) + 1 /\ Len(e.replies) \in Nat
      /\ f.replies # <<>>
      /\ \A i \in DOMAIN f.replies :
            \/ i \in DOMAIN e.replies /\ f.replies[i] = e.replies[i]
            \/ f.replies[i] = m
      /\ \A i \in DOMAIN e.replies : i \in DOMAIN f.replies /\ f.replies[i] = e.replies[i]
      /\ \E i \in DOMAIN f.replies : f.replies[i] = m
  <2>1. f.replies = Append(e.replies, m)
    BY DEF Answers
  <2>2. e.replies \in Seq(ReplyType) /\ m \in ReplyType
    BY <1>1
  <2>3. OneMore(e.replies, m, f.replies)
    BY <2>1, <2>2, AppendOf
  <2> QED  BY <2>3 DEF OneMore
<1>6. q.st = "read"
  BY <1>1 DEF Talk, Waiting
<1>7. OwnReplied(o, f)
  BY <1>1, <1>2, <1>5 DEF Talk, Lines, OwnReplied
<1>8. Lines(o, q, f)
  BY <1>1, <1>3, <1>7 DEF Talk, Lines
<1>9. Waiting(o, q, f)
  BY <1>6 DEF Waiting
<1>10. Reading(o, q, f)
  <2>1. q.seen + Len(e.replies) + Len(e.cmds) = Need(q)
    BY <1>1, <1>6 DEF Talk, Reading
  <2>2. q.seen + Len(f.replies) + Len(f.cmds) = Need(q)
    <3>1. \A n, k, j \in Int : n + (k + 1) + (j - 1) = n + k + j
      OBVIOUS
    <3>2. q.seen \in Int /\ Len(e.replies) \in Int /\ Len(e.cmds) \in Int
      BY <1>1, <1>3, <1>5
    <3> QED  BY <2>1, <1>3, <1>5, <3>1, <3>2
  <2>3. Need(q) <= Need(q)
    BY <2>1, <1>1, <1>3, <1>5
  <2>4. q.reader = "preamble" <=> q.pre
    BY <1>6 DEF Talk, Reading
  <2> QED  BY <2>2, <2>3, <2>4 DEF Reading
<1>11. Welcome(q, f)
  <2>1. CASE ~q.pre
    BY <1>1, <2>1 DEF Talk, Welcome
  <2>2. CASE q.pre
    <3>1. ~q.failed
      BY <1>1, <2>2 DEF Talk, Welcome
    <3>2. /\ e.session \in {None, q.ctx, "refused"}
          /\ e.session = "refused" =>
                \E i \in DOMAIN e.replies : e.replies[i].what = "err"
      BY <1>1, <2>2, <1>6 DEF Talk, Welcome
    <3>3. "refused" # None /\ q.ctx # None /\ q.ctx # "refused"
      BY RedisClientAssumption DEF Proper
    <3>4. CASE what # "ok"
      <4>1. f.session = "refused" /\ what = "err"
        BY <2>2, <3>4
      <4>2. \E i \in DOMAIN f.replies : f.replies[i].what = "err"
        BY <4>1, <1>2, <1>5
      <4> QED  BY <4>1, <4>2, <1>6, <2>2, <3>1, <3>3 DEF Welcome
    <3>5. CASE what = "ok" /\ e.session = "refused"
      <4>1. f.session = "refused"
        BY <2>2, <3>5
      <4>2. \E i \in DOMAIN f.replies : f.replies[i].what = "err"
        BY <3>2, <3>5, <1>5
      <4> QED  BY <4>1, <4>2, <1>6, <2>2, <3>1, <3>3 DEF Welcome
    <3>6. CASE what = "ok" /\ e.session # "refused"
      BY <3>6, <1>1, <1>6, <2>2, <3>1, <3>2, <3>3 DEF Welcome
    <3> QED  BY <3>4, <3>5, <3>6
  <2> QED  BY <2>1, <2>2
<1>12. Owing(q, f, v)
  <2> SUFFICES ASSUME q.kind = "many" PROVE Owing(q, f, v)
    BY DEF Owing
  <2>1. \A i \in DOMAIN f.replies : f.replies[i].what # "nil"
    BY <1>2, <1>5 DEF Talk, Owing
  <2>2. CASE q.pre
    <3>1. w = q.expected /\ v = w
      BY <2>2 DEF Talk, Owing
    <3> QED  BY <2>1, <2>2, <3>1 DEF Owing
  <2>3. CASE ~q.pre
    <3>1. w >= Len(e.cmds)
      BY <2>3 DEF Talk, Owing
    <3>2. v >= Len(f.cmds)
      BY <3>1, <1>3
    <3>3. ASSUME ~q.failed, AllOk(f)
          PROVE  v = q.expected - q.seen - Len(f.replies)
      <4>1. what = "ok" /\ AllOk(e)
        BY <3>3, <1>2, <1>5 DEF AllOk
      <4>2. w = q.expected - q.seen - Len(e.replies)
        BY <3>3, <4>1, <2>3, <1>6 DEF Talk, Owing
      <4> QED  BY <4>1, <4>2, <2>3, <1>1, <1>5
    <3> QED  BY <2>1, <2>3, <3>2, <3>3, <1>6 DEF Owing
  <2> QED  BY <2>2, <2>3
<1> QED  BY <1>8, <1>9, <1>10, <1>11, <1>12 DEF Talk

(* A reply is taken that is not an error: it was to this operation, which   *)
(* has written its commands.                                                *)
LEMMA TalkHears ==
    ASSUME NEW o \in Ops, NEW q \in OpType, NEW e \in ConnType, NEW w \in Nat,
           Talk(o, q, e, w), e.replies # <<>>, e.replies[1].what # "err"
    PROVE  OwnReplied(o, e) /\ q.st = "read"
  BY DEF Talk, Lines, Waiting, Stray

(* A drain goes on to the next reply. *)
LEMMA TalkDrains ==
    ASSUME NEW o \in Ops, NEW q \in OpType, NEW p \in OpType,
           NEW e \in ConnType, NEW f \in ConnType, NEW w \in Nat,
           Talk(o, q, e, w), q.reader = "reply",
           e.replies # <<>>, e.replies[1].what # "bad",
           p.kind = q.kind, p.ctx = q.ctx, p.pre = q.pre, p.reader = q.reader,
           p.expected = q.expected, p.st = q.st, p.seen = q.seen + 1,
           p.failed <=> q.failed \/ e.replies[1].what = "err",
           f.cmds = e.cmds, f.replies = Tail(e.replies), f.session = e.session,
           f.stream = e.stream
    PROVE  Talk(o, p, f, w)
<1>1. /\ e.replies \in Seq(ReplyType) /\ q.seen \in Nat /\ q.expected \in Nat
      /\ Len(e.cmds) \in Nat
  BY LenProperties DEF ConnType, OpType
<1>2. /\ Len(e.replies) \in Nat /\ Len(e.replies) > 0
      /\ Len(f.replies) = Len(e.replies) - 1 /\ 1 \in DOMAIN e.replies
      /\ f.replies = <<>> <=> Len(e.replies) = 1
      /\ \A i \in DOMAIN f.replies :
            i + 1 \in DOMAIN e.replies /\ f.replies[i] = e.replies[i + 1]
      /\ \A i \in DOMAIN e.replies : i = 1 \/ i - 1 \in DOMAIN f.replies
  BY <1>1, TailOf
<1>3. /\ Len(e.replies) \in Nat /\ Len(f.replies) = Len(e.replies) - 1
      /\ q.seen \in Nat /\ q.expected \in Nat /\ Len(e.cmds) \in Nat
  BY <1>1, <1>2
<1>4. CASE Stray(e)
  <2>6. e.replies[1].for = None /\ e.replies[1].what = "err" /\ Len(e.replies) = 1
    BY <1>4 DEF Stray
  <2>7. ~OwnReplied(o, e)
    BY <2>6, <1>2, RedisClientAssumption DEF OwnReplied
  <2>8. e.stream # "open" /\ e.cmds = <<>>
    BY <2>7 DEF Talk, Lines
  <2>9. f.replies = <<>> /\ p.failed
    BY <2>6, <1>2
  <2>1. /\ f.replies = <<>> /\ p.failed /\ e.stream # "open" /\ e.cmds = <<>>
        /\ ~OwnReplied(o, e) /\ Len(<<>>) = 0
    BY <2>7, <2>8, <2>9
  <2>2. /\ OwnReplied(o, f) /\ DOMAIN f.cmds = {} /\ DOMAIN f.replies = {}
        /\ Len(f.cmds) = 0
    <3>1. f.cmds = <<>> /\ f.replies = <<>>
      BY <2>1
    <3>2. DOMAIN f.cmds = {} /\ DOMAIN f.replies = {}
      BY <3>1, EmptyOf, Zenon
    <3> QED  BY <2>1, <3>1, <3>2 DEF OwnReplied
  <2>3. Lines(o, p, f) /\ Waiting(o, p, f) /\ Welcome(p, f)
    BY <2>1, <2>2 DEF Lines, Waiting, Welcome, Over
  <2>4. Reading(o, p, f)
    BY <2>1 DEF Talk, Reading, Over
  <2>5. Owing(p, f, w)
    BY <2>1, <2>2 DEF Talk, Owing
  <2> QED  BY <2>3, <2>4, <2>5 DEF Talk
<1>5. CASE ~Stray(e)
  <2>1. OwnReplied(o, e) /\ q.st = "read" /\ ~q.pre
    BY <1>5 DEF Talk, Lines, Waiting, Reading
  <2>2. OwnReplied(o, f)
    BY <1>2, <2>1 DEF OwnReplied
  <2>3. Lines(o, p, f) /\ Waiting(o, p, f) /\ Welcome(p, f)
    BY <2>1, <2>2 DEF Talk, Lines, Waiting, Welcome
  <2>4. Reading(o, p, f)
    <3>1. q.seen + 1 + (Len(e.replies) - 1) + Len(e.cmds)
             = q.seen + Len(e.replies) + Len(e.cmds)
      BY SMTT(30), <1>3
    <3>2. ~Over(p, f) => ~Over(q, e)
      BY DEF Over
    <3>3. Need(p) = q.expected /\ Need(q) = q.expected
      BY <2>1 DEF Need
    <3>4. p.seen + Len(f.replies) + Len(f.cmds)
             = q.seen + Len(e.replies) + Len(e.cmds)
      BY <1>3, <3>1
    <3> QED  BY <2>1, <3>2, <3>3, <3>4 DEF Talk, Reading
  <2>5. Owing(p, f, w)
    <3> SUFFICES ASSUME q.kind = "many" PROVE Owing(p, f, w)
      BY DEF Owing
    <3>1. \A i \in DOMAIN f.replies : f.replies[i].what # "nil"
      BY <1>2 DEF Talk, Owing
    <3>2. w >= Len(f.cmds)
      BY <2>1 DEF Talk, Owing
    <3>3. ASSUME ~p.failed, AllOk(f)
          PROVE  w = p.expected - p.seen - Len(f.replies)
      <4>1. ~q.failed /\ e.replies[1].what \notin {"err", "bad", "nil"}
        BY <3>3, <1>2 DEF Talk, Owing
      <4>2. e.replies[1] \in ReplyType
        BY <1>1, <1>2
      <4>3. e.replies[1].what = "ok"
        BY <4>1, <4>2 DEF ReplyType
      <4>4. AllOk(e)
        <5> SUFFICES ASSUME NEW i \in DOMAIN e.replies
                     PROVE  e.replies[i].what = "ok"
          BY DEF AllOk
        <5>1. CASE i = 1
          BY <5>1, <4>3
        <5>2. CASE i # 1
          <6>1. i - 1 \in DOMAIN f.replies /\ i - 1 + 1 = i
            BY <5>2, <1>1, <1>2, LenProperties
          <6>2. f.replies[i - 1] = e.replies[i]
            BY <6>1, <1>2
          <6> QED  BY <6>1, <6>2, <3>3 DEF AllOk
        <5> QED  BY <5>1, <5>2
      <4>5. w = q.expected - q.seen - Len(e.replies)
        BY <4>1, <4>4, <2>1 DEF Talk, Owing
      <4>6. q.expected - q.seen - Len(e.replies)
               = q.expected - (q.seen + 1) - (Len(e.replies) - 1)
        BY <1>3
      <4> QED  BY <4>5, <4>6, <1>3
    <3> QED  BY <3>1, <3>2, <3>3, <2>1 DEF Owing
  <2> QED  BY <2>3, <2>4, <2>5 DEF Talk
<1> QED  BY <1>4, <1>5

(* The preamble goes on to its next reply. *)
Takes(e, f) ==
    /\ f.cmds = e.cmds /\ f.replies = Tail(e.replies)
    /\ f.session = e.session /\ f.stream = e.stream

LEMMA TalkGreets ==
    ASSUME NEW o \in Ops, NEW q \in OpType, NEW p \in OpType,
           NEW e \in ConnType, NEW f \in ConnType, NEW w \in Nat,
           Talk(o, q, e, w), q.reader = "preamble",
           e.replies # <<>>, e.replies[1].what # "err",
           p.kind = q.kind, p.ctx = q.ctx, p.pre = q.pre, p.reader = q.reader,
           p.expected = q.expected, p.st = q.st, p.seen = q.seen + 1,
           p.failed <=> q.failed, Takes(e, f)
    PROVE  Talk(o, p, f, w)
<1>1. /\ e.replies \in Seq(ReplyType) /\ q.seen \in Nat /\ q.expected \in Nat
      /\ Len(e.cmds) \in Nat
  BY LenProperties DEF ConnType, OpType
<1>2. /\ Len(e.replies) \in Nat /\ Len(f.replies) = Len(e.replies) - 1
      /\ 1 \in DOMAIN e.replies
      /\ \A i \in DOMAIN f.replies :
            i + 1 \in DOMAIN e.replies /\ f.replies[i] = e.replies[i + 1]
      /\ \A i \in DOMAIN e.replies : i = 1 \/ i - 1 \in DOMAIN f.replies
  BY <1>1, TailOf DEF Takes
<1>3. OwnReplied(o, e) /\ q.st = "read"
  BY TalkHears
<1>4. q.pre /\ ~q.failed /\ Need(p) = Need(q)
  BY <1>3 DEF Talk, Reading, Welcome, Need
<1>5. f.cmds = e.cmds /\ f.session = e.session /\ f.stream = e.stream
  BY DEF Takes
<1>6. OwnReplied(o, f)
  BY <1>2, <1>3 DEF OwnReplied
<1>7. Lines(o, p, f) /\ Waiting(o, p, f)
  BY <1>3, <1>5, <1>6 DEF Talk, Lines, Waiting
<1>8. Reading(o, p, f)
  <2>1. \A n, k, j \in Int : n + 1 + (k - 1) + j = n + k + j
    OBVIOUS
  <2>4. /\ q.seen \in Int /\ Len(e.replies) \in Int /\ Len(e.cmds) \in Int
        /\ Len(f.replies) = Len(e.replies) - 1 /\ Len(f.cmds) = Len(e.cmds)
    BY <1>1, <1>2, <1>5
  <2>2. p.seen + Len(f.replies) + Len(f.cmds)
           = q.seen + Len(e.replies) + Len(e.cmds)
    BY <2>1, <2>4
  <2>3. ~Over(p, f) => ~Over(q, e)
    BY <1>4 DEF Over
  <2> QED  BY <1>3, <1>4, <1>5, <2>2, <2>3 DEF Talk, Reading
<1>9. Welcome(p, f)
  <2>1. ASSUME NEW i \in DOMAIN e.replies, e.replies[i].what = "err"
        PROVE  \E j \in DOMAIN f.replies : f.replies[j].what = "err"
    <3>1. i # 1
      BY <2>1
    <3>2. i - 1 \in DOMAIN f.replies /\ i - 1 + 1 = i
      BY <3>1, <1>1, <1>2, LenProperties
    <3> QED  BY <3>2, <2>1, <1>2
  <2>2. f.stream = "open" =>
           /\ e.session \in {None, q.ctx, "refused"}
           /\ e.session = "refused" =>
                 \E i \in DOMAIN e.replies : e.replies[i].what = "err"
           /\ e.session = None => e.cmds # <<>>
    BY <1>3, <1>4, <1>5 DEF Talk, Welcome
  <2> QED  BY <1>3, <1>4, <1>5, <2>1, <2>2 DEF Welcome
<1>10. Owing(p, f, w)
  <2>1. q.kind = "many" =>
           w = q.expected /\ \A i \in DOMAIN f.replies : f.replies[i].what # "nil"
    BY <1>2, <1>4 DEF Talk, Owing
  <2> QED  BY <1>4, <2>1 DEF Owing
<1> QED  BY <1>7, <1>8, <1>9, <1>10 DEF Talk

(* The last reply of the preamble: the session is the context's. *)
LEMMA TalkGreeted ==
    ASSUME NEW o \in Ops, NEW q \in OpType, NEW p \in OpType,
           NEW e \in ConnType, NEW f \in ConnType, NEW w \in Nat,
           Talk(o, q, e, w), Proper(q), q.kind # "none", q.reader = "preamble",
           e.replies # <<>>, e.replies[1].what # "err",
           ~(q.seen + 1 < PreReplies[q.ctx]),
           p.kind = q.kind, p.ctx = q.ctx, ~p.pre, p.expected = q.expected,
           p.st = "write", p.seen = 0, p.failed <=> q.failed, Takes(e, f)
    PROVE  Talk(o, p, f, w)
<1>1. /\ e.replies \in Seq(ReplyType) /\ q.seen \in Nat /\ q.expected \in Nat
      /\ Len(e.cmds) \in Nat
  BY LenProperties DEF ConnType, OpType
<1>2. /\ Len(e.replies) \in Nat /\ 1 \in DOMAIN e.replies /\ Len(e.replies) > 0
      /\ f.replies = <<>> <=> Len(e.replies) = 1
      /\ \A i \in DOMAIN e.replies : i = 1 \/ i - 1 \in DOMAIN f.replies
  BY <1>1, TailOf DEF Takes
<1>3. OwnReplied(o, e) /\ q.st = "read"
  BY TalkHears
<1>4. q.pre /\ ~q.failed /\ Need(q) = PreReplies[q.ctx] /\ Need(q) \in 0..2
  BY <1>3, RedisClientAssumption DEF Talk, Reading, Welcome, Need, Proper
<1>5. q.seen + Len(e.replies) + Len(e.cmds) <= Need(q)
  BY <1>3, <1>4 DEF Talk, Reading, Over
<1>6. Len(e.replies) = 1 /\ Len(e.cmds) = 0
  <2>1. \A n, k, j, m \in Nat :
           ~(n + 1 < m) /\ n + k + j <= m /\ k > 0 => k = 1 /\ j = 0
    OBVIOUS
  <2>2. /\ q.seen \in Nat /\ Len(e.replies) \in Nat /\ Len(e.cmds) \in Nat
        /\ Need(q) \in Nat /\ Len(e.replies) > 0 /\ ~(q.seen + 1 < Need(q))
    BY <1>1, <1>2, <1>4
  <2> QED  BY <1>5, <2>1, <2>2
<1>7. e.cmds = <<>>
  BY <1>6, EmptySeq DEF ConnType
<1>8. /\ f.cmds = <<>> /\ f.replies = <<>>
      /\ f.session = e.session /\ f.stream = e.stream
  BY <1>2, <1>6, <1>7 DEF Takes
<1>9. f.stream = "open" => f.session = Session(p.ctx)
  <2> SUFFICES ASSUME f.stream = "open" PROVE f.session = Session(p.ctx)
    OBVIOUS
  <2>1. e.session # None
    BY <1>3, <1>4, <1>7, <1>8 DEF Talk, Welcome
  <2>2. e.session # "refused"
    <3>1. \A i \in DOMAIN e.replies : i = 1
      BY <1>6, <1>1, LenProperties
    <3> QED  BY <1>3, <1>4, <1>8, <3>1 DEF Talk, Welcome
  <2>3. e.session = q.ctx
    BY <1>3, <1>4, <1>8, <2>1, <2>2 DEF Talk, Welcome
  <2>4. PreReplies[q.ctx] # 0
    BY <1>4 DEF Proper
  <2> QED  BY <2>3, <2>4, <1>8 DEF Session
<1>10. q.kind = "many" => w = p.expected
  BY <1>4 DEF Talk, Owing
<1> QED  BY <1>4, <1>8, <1>9, <1>10, TalkStarts

(* After the last reply an operation counts on, the connection is clean.    *)
LEMMA TalkEnds ==
    ASSUME NEW o \in Ops, NEW q \in OpType, NEW e \in ConnType, NEW w \in Nat,
           Talk(o, q, e, w), q.reader = "reply",
           e.replies # <<>>, Len(e.replies) = 1, ~(q.seen + 1 < q.expected)
    PROVE  /\ e.cmds = <<>>
           /\ e.stream = "open" => e.session = Session(q.ctx)
<1>1. /\ q.seen \in Nat /\ q.expected \in Nat /\ Len(e.cmds) \in Nat
      /\ e.replies # <<>>
  <2>1. e.cmds \in Seq(CmdType) /\ q.seen \in Nat /\ q.expected \in Nat
    BY DEF ConnType, OpType
  <2>2. e.replies # <<>>
    OBVIOUS
  <2> QED  BY <2>1, <2>2, LenProperties
<1>2. CASE e.stream # "open"
  BY <1>2 DEF Talk, Lines
<1>3. CASE e.stream = "open"
  <2>1. q.st = "read"
    BY <1>1, <1>3 DEF Talk, Lines, Waiting
  <2>2. ~q.pre
    BY <2>1 DEF Talk, Reading
  <2>3. q.seen + Len(e.replies) + Len(e.cmds) = q.expected
    BY <1>3, <2>1, <2>2 DEF Talk, Reading, Need
  <2>4. Len(e.cmds) = 0
    BY <1>1, <2>3
  <2>5. e.cmds = <<>>
    BY <2>4, EmptySeq DEF ConnType
  <2> QED  BY <2>2, <2>5, <1>3 DEF Talk, Welcome
<1> QED  BY <1>2, <1>3

(* And if no error was heard, every command was executed. *)
LEMMA TalkHonest ==
    ASSUME NEW o \in Ops, NEW q \in OpType, NEW e \in ConnType, NEW w \in Nat,
           Talk(o, q, e, w), q.reader = "reply", q.kind = "many",
           e.replies # <<>>, Len(e.replies) = 1, ~(q.seen + 1 < q.expected),
           e.replies[1].what \notin {"err", "bad"}, ~q.failed
    PROVE  w = 0
<1>1. /\ q.seen \in Nat /\ q.expected \in Nat /\ Len(e.cmds) \in Nat
      /\ e.replies # <<>> /\ DOMAIN e.replies = 1..1
      /\ e.replies \in Seq(ReplyType)
  <2>1. e.replies \in Seq(ReplyType) /\ e.cmds \in Seq(CmdType)
    BY DEF ConnType
  <2>2. DOMAIN e.replies = 1..Len(e.replies) /\ Len(e.cmds) \in Nat
    BY <2>1, LenProperties
  <2>3. e.replies # <<>>
    OBVIOUS
  <2> QED  BY <2>1, <2>2, <2>3 DEF OpType
<1>2. OwnReplied(o, e) /\ q.st = "read"
  BY <1>1, TalkHears
<1>3. ~q.pre /\ ~Over(q, e) /\ Need(q) = q.expected
  BY <1>2 DEF Talk, Reading, Over, Need
<1>4. q.seen + 1 + Len(e.cmds) <= q.expected
  BY <1>2, <1>3 DEF Talk, Reading
<1>5. AllOk(e)
  <2>1. e.replies[1] \in ReplyType /\ e.replies[1].what # "nil"
    BY <1>1 DEF Talk, Owing
  <2> QED  BY <2>1, <1>1 DEF AllOk, ReplyType
<1>6. w = q.expected - q.seen - 1
  BY <1>2, <1>3, <1>5 DEF Talk, Owing
<1> QED  BY <1>1, <1>4, <1>6

-----------------------------------------------------------------------------
(* The steps of the worker. *)

(* What an operation has is used by it, and by nobody else. *)
LEMMA Holder ==
    ASSUME ClientsInv, NEW o \in Ops, Live(o)
    PROVE  /\ op[o] \in OpType /\ owed[o] \in Nat
           /\ op[o].ctx \in Contexts /\ op[o].conn \in Conns /\ op[o].conn # None
           /\ conn[op[o].conn] \in ConnType
           /\ conn[op[o].conn].st = "used" /\ conn[op[o].conn].ctx = op[o].ctx
           /\ Proper(op[o]) /\ Talk(o, op[o], conn[op[o].conn], owed[o])
           /\ \A p \in Ops : op[p].conn = op[o].conn => p = o
           /\ op[o].req # None =>
                 op[o].req \in Requests /\ \A p \in Ops : op[p].req = op[o].req => p = o
<1>1. /\ op[o] \in OpType /\ owed[o] \in Nat /\ Proper(op[o]) /\ Held(o)
      /\ op[o].kind # "none"
  BY DEF ClientsInv, TypeOK, Live
<1>2. op[o].ctx \in Contexts /\ op[o].conn \in Conns /\ op[o].conn # None
  BY <1>1, RedisClientAssumption DEF Proper
<1>3. conn[op[o].conn] \in ConnType
  BY <1>2 DEF ClientsInv, TypeOK
<1>4. /\ conn[op[o].conn].st = "used" /\ conn[op[o].conn].ctx = op[o].ctx
      /\ Talk(o, op[o], conn[op[o].conn], owed[o])
  BY <1>1 DEF Held, Live
<1>5. \A p \in Ops : op[p].conn = op[o].conn => p = o
  BY <1>2 DEF ClientsInv, Alone
<1>6. op[o].req # None =>
        op[o].req \in Requests /\ \A p \in Ops : op[p].req = op[o].req => p = o
  BY <1>1 DEF ClientsInv, Alone, OpType
<1> QED  BY <1>1, <1>2, <1>3, <1>4, <1>5, <1>6

(* An operation goes on over its connection. *)
Stays(o, q, f, v) ==
    /\ op' = [op EXCEPT ![o] = q]
    /\ conn' = [conn EXCEPT ![op[o].conn] = f]
    /\ owed' = [owed EXCEPT ![o] = v]
    /\ pool' = pool /\ req' = req /\ inflight' = inflight
    /\ q.kind = op[o].kind /\ q.ctx = op[o].ctx
    /\ q.conn = op[o].conn /\ q.req = op[o].req

(* The variables that no other one has to agree with. *)
Apart == backoff \in [Servers -> BOOLEAN] /\ verdict \in {"none", "ok", "error"}

LEMMA StaysInv ==
    ASSUME ClientsInv, NEW o \in Ops, Live(o), NEW q \in OpType,
           NEW f \in ConnType, NEW v \in Nat, Stays(o, q, f, v), Apart',
           Proper(q), f.st = "used", f.ctx = op[o].ctx, Talk(o, q, f, v)
    PROVE  ClientsInv'
<1> DEFINE c == op[o].conn
<1>1. /\ c \in Conns /\ c # None /\ conn[c].st = "used" /\ op[o].kind # "none"
      /\ \A p \in Ops : op[p].conn = c => p = o
  BY Holder DEF Live
<1>2. TypeOK /\ TypeOK'
  BY <1>1 DEF ClientsInv, TypeOK, Stays, Apart
<1>3. /\ op'[o] = q /\ owed'[o] = v /\ conn'[c] = f
      /\ \A p \in Ops : p # o => op'[p] = op[p] /\ owed'[p] = owed[p]
      /\ \A d \in Conns : d # c => conn'[d] = conn[d]
  BY <1>1, <1>2 DEF Stays, TypeOK
<1>4. \A p \in Ops : /\ op'[p].kind = op[p].kind /\ op'[p].conn = op[p].conn
                      /\ op'[p].req = op[p].req
  BY <1>3 DEF Stays
<1> HIDE DEF c
<1>5. ASSUME NEW p \in Ops
      PROVE  (Proper(op[p]) /\ Held(p))'
  <2>1. CASE p = o
    <3>1. q.conn = c /\ q.ctx = op[o].ctx
      BY DEF Stays, c
    <3> QED  BY <2>1, <3>1, <1>3 DEF Held, Live
  <2>2. CASE p # o
    <3>1. Proper(op[p]) /\ Held(p) /\ op'[p] = op[p] /\ owed'[p] = owed[p]
      BY <2>2, <1>3 DEF ClientsInv
    <3>2. op[p].kind # "none" => op[p].conn # c /\ op[p].conn \in Conns
      BY <2>2, <1>1, <3>1 DEF Proper
    <3>3. op[p].kind # "none" => conn'[op[p].conn] = conn[op[p].conn]
      BY <3>2, <1>3
    <3> QED  BY <3>1, <3>3 DEF Held, Live
  <2> QED  BY <2>1, <2>2
<1>6. Alone'
  BY <1>4 DEF ClientsInv, Alone
<1>7. ASSUME NEW d \in Conns
      PROVE  ConnAt(d)'
  <2>1. ConnAt(d)
    BY DEF ClientsInv
  <2>2. CASE d = c
    <3>1. conn'[d].st = "used" /\ op'[o].conn = d
      BY <2>2, <1>3, <1>4 DEF c
    <3> QED  BY <3>1 DEF ConnAt
  <2>3. CASE d # c
    <3>1. conn'[d] = conn[d] /\ pool' = pool
      BY <2>3, <1>3 DEF Stays
    <3> QED  BY <2>1, <3>1, <1>4 DEF ConnAt
  <2> QED  BY <2>2, <2>3
<1>8. ASSUME NEW x \in Contexts
      PROVE  PoolAt(x)'
  <2>1. PoolAt(x) /\ pool'[x] = pool[x] /\ pool[x] \in Seq(Conns)
    BY <1>2 DEF ClientsInv, Stays, TypeOK
  <2>2. \A i \in DOMAIN pool[x] : conn'[pool[x][i]] = conn[pool[x][i]]
    BY <2>1, <1>1, <1>3 DEF PoolAt
  <2> QED  BY <2>1, <2>2 DEF PoolAt
<1>9. ASSUME NEW r \in Requests
      PROVE  ParkedAt(r)'
  <2>1. ParkedAt(r) /\ req' = req
    BY DEF ClientsInv, Stays
  <2> QED  BY <2>1, <1>4 DEF ParkedAt
<1>10. (IsFiniteSet(Indexing) /\ inflight = Cardinality(Indexing))'
  <2>1. Indexing' = Indexing
    BY <1>4 DEF Indexing
  <2> QED  BY <2>1 DEF ClientsInv, Stays
<1> QED  BY <1>2, <1>5, <1>6, <1>7, <1>8, <1>9, <1>10 DEF ClientsInv

(* An operation ends and keeps its connection for another, or closes it.    *)
Ends(o, f, keep) ==
    /\ op' = [op EXCEPT ![o] = NoOp]
    /\ conn' = [conn EXCEPT ![op[o].conn] = IF keep THEN f ELSE NoConn]
    /\ pool' = IF keep THEN [pool EXCEPT ![op[o].ctx] = <<op[o].conn>> \o @]
               ELSE pool
    /\ inflight' = IF op[o].kind = "index" THEN inflight - 1 ELSE inflight
    /\ owed' \in [Ops -> Nat] /\ \A p \in Ops : p # o => owed'[p] = owed[p]
    /\ Resume(o)

LEMMA NoOpOK == NoOp \in OpType /\ NoConn \in ConnType
<1>1. <<>> \in Seq(CmdType) /\ <<>> \in Seq(ReplyType)
  OBVIOUS
<1> QED  BY <1>1 DEF NoOp, OpType, NoConn, ConnType, Kinds

(* One operation less, or one more, is counted. *)
LEMMA IndexedLess ==
    ASSUME IsFiniteSet(Indexing), NEW o \in Ops,
           \A p \in Ops : p # o => op'[p] = op[p], op'[o].kind = "none"
    PROVE  /\ IsFiniteSet(Indexing')
           /\ Cardinality(Indexing') \in Nat
           /\ Cardinality(Indexing') = IF op[o].kind = "index"
                                       THEN Cardinality(Indexing) - 1
                                       ELSE Cardinality(Indexing)
<1>1. CASE op[o].kind = "index"
  <2>1. o \in Indexing /\ Indexing' = Indexing \ {o}
    BY <1>1 DEF Indexing
  <2>2. IsFiniteSet(Indexing') /\ Cardinality(Indexing') = Cardinality(Indexing) - 1
    BY <2>1, FS_RemoveElement
  <2> QED  BY <1>1, <2>2, FS_CardinalityType
<1>2. CASE op[o].kind # "index"
  <2>1. Indexing' = Indexing
    BY <1>2 DEF Indexing
  <2> QED  BY <1>2, <2>1, FS_CardinalityType
<1> QED  BY <1>1, <1>2

LEMMA IndexedMore ==
    ASSUME IsFiniteSet(Indexing), NEW o \in Ops, op[o].kind = "none",
           \A p \in Ops : p # o => op'[p] = op[p]
    PROVE  /\ IsFiniteSet(Indexing')
           /\ Cardinality(Indexing') \in Nat
           /\ Cardinality(Indexing') = IF op'[o].kind = "index"
                                       THEN Cardinality(Indexing) + 1
                                       ELSE Cardinality(Indexing)
<1>1. CASE op'[o].kind = "index"
  <2>1. o \notin Indexing /\ Indexing' = Indexing \cup {o}
    BY <1>1 DEF Indexing
  <2>2. IsFiniteSet(Indexing') /\ Cardinality(Indexing') = Cardinality(Indexing) + 1
    BY <2>1, FS_AddElement
  <2> QED  BY <1>1, <2>2, FS_CardinalityType
<1>2. CASE op'[o].kind # "index"
  <2>1. Indexing' = Indexing
    BY <1>2 DEF Indexing
  <2> QED  BY <1>2, <2>1, FS_CardinalityType
<1> QED  BY <1>1, <1>2

LEMMA EndsInv ==
    ASSUME ClientsInv, NEW o \in Ops, Live(o), NEW f \in ConnType,
           NEW keep \in BOOLEAN, Ends(o, f, keep), Apart',
           keep => /\ f.st = "pooled" /\ f.ctx = op[o].ctx /\ Rested(f)
                   /\ Len(pool[op[o].ctx]) < KeepAlive
    PROVE  ClientsInv'
<1> DEFINE c == op[o].conn
           x == op[o].ctx
           g == IF keep THEN f ELSE NoConn
<1>1. /\ c \in Conns /\ c # None /\ x \in Contexts
      /\ conn[c].st = "used" /\ op[o].kind # "none"
      /\ \A p \in Ops : op[p].conn = c => p = o
  BY Holder DEF Live
<1>2. TypeOK /\ Apart' /\ Proper(op[o])
  BY DEF ClientsInv
<1>3. g \in ConnType /\ NoOp \in OpType
  BY NoOpOK
<1>4. /\ op'[o] = NoOp /\ op' \in [Ops -> OpType]
      /\ \A p \in Ops : p # o => op'[p] = op[p] /\ owed'[p] = owed[p]
  BY <1>2, <1>3 DEF Ends, TypeOK
<1>5. /\ conn'[c] = g /\ conn' \in [Conns -> ConnType]
      /\ \A d \in Conns : d # c => conn'[d] = conn[d]
  BY <1>1, <1>2, <1>3 DEF Ends, TypeOK
<1>6. pool[x] \in Seq(Conns) /\ <<c>> \o pool[x] \in Seq(Conns)
  BY <1>1, <1>2, ConsOf DEF TypeOK
<1>7. /\ pool' \in [Contexts -> Seq(Conns)]
      /\ \A y \in Contexts : y # x => pool'[y] = pool[y]
      /\ pool'[x] = IF keep THEN <<c>> \o pool[x] ELSE pool[x]
  BY <1>1, <1>2, <1>6 DEF Ends, TypeOK
<1>8. NoOp.kind = "none" /\ NoOp.conn = None /\ NoOp.req = None
  BY DEF NoOp
<1>9. g.st # "used" /\ (~keep => g = NoConn /\ g.st = "free")
  BY DEF NoConn
<1>10. /\ \A r \in Requests : req'[r] = IF r = op[o].req THEN "run" ELSE req[r]
       /\ req' \in [Requests -> {"run", "parked"}]
  <2>1. CASE op[o].kind \in Waits
    <3>1. op[o].req \in Requests /\ req' = [req EXCEPT ![op[o].req] = "run"]
      BY <2>1, <1>1, <1>2, Holder DEF Ends, Resume, Proper
    <3> QED  BY <3>1, <1>2 DEF TypeOK
  <2>2. CASE op[o].kind \notin Waits
    <3>1. op[o].req = None /\ req' = req /\ None \notin Requests
      BY <2>2, <1>1, <1>2, RedisClientAssumption DEF Ends, Resume, Proper
    <3> QED  BY <3>1, <1>2 DEF TypeOK
  <2> QED  BY <2>1, <2>2
<1> HIDE DEF c, x, g
<1>11. (IsFiniteSet(Indexing) /\ inflight = Cardinality(Indexing))' /\ inflight' \in Nat
  <2>1. IsFiniteSet(Indexing) /\ inflight = Cardinality(Indexing)
    BY DEF ClientsInv
  <2>2. op'[o].kind = "none" /\ \A p \in Ops : p # o => op'[p] = op[p]
    BY <1>4, <1>8
  <2>3. /\ IsFiniteSet(Indexing') /\ Cardinality(Indexing') \in Nat
        /\ Cardinality(Indexing') = IF op[o].kind = "index"
                                    THEN Cardinality(Indexing) - 1
                                    ELSE Cardinality(Indexing)
    BY <2>1, <2>2, IndexedLess
  <2> QED  BY <2>1, <2>3 DEF Ends
<1>12. TypeOK'
  BY <1>2, <1>4, <1>5, <1>7, <1>10, <1>11 DEF TypeOK, Ends, Apart
<1>13. ASSUME NEW p \in Ops
       PROVE  (Proper(op[p]) /\ Held(p))'
  <2>1. CASE p = o
    BY <2>1, <1>4, <1>8 DEF Proper, Held, Live
  <2>2. CASE p # o
    <3>1. Proper(op[p]) /\ Held(p) /\ op'[p] = op[p] /\ owed'[p] = owed[p]
      BY <2>2, <1>4 DEF ClientsInv
    <3>2. op[p].kind # "none" => op[p].conn # c /\ op[p].conn \in Conns
      BY <2>2, <1>1, <3>1 DEF Proper
    <3>3. op[p].kind # "none" => conn'[op[p].conn] = conn[op[p].conn]
      BY <3>2, <1>5
    <3> QED  BY <3>1, <3>3 DEF Held, Live
  <2> QED  BY <2>1, <2>2
<1>14. Alone'
  <2> SUFFICES ASSUME NEW p \in Ops, NEW q \in Ops
               PROVE  /\ op'[p].conn # None /\ op'[p].conn = op'[q].conn => p = q
                      /\ op'[p].req # None /\ op'[p].req = op'[q].req => p = q
    BY DEF Alone
  <2>1. /\ op[p].conn # None /\ op[p].conn = op[q].conn => p = q
        /\ op[p].req # None /\ op[p].req = op[q].req => p = q
    BY DEF ClientsInv, Alone
  <2> QED  BY <2>1, <1>4, <1>8
<1>15. ASSUME NEW d \in Conns
       PROVE  ConnAt(d)'
  <2>1. ConnAt(d)
    BY DEF ClientsInv
  <2>2. CASE d = c /\ ~keep
    BY <2>2, <1>5, <1>9 DEF ConnAt
  <2>3. CASE d = c /\ keep
    <3>1. conn'[d] = f /\ f.st = "pooled" /\ f.ctx = x /\ Rested(f)
      BY <2>3, <1>5 DEF g, x
    <3>2. 1 \in DOMAIN pool'[x] /\ pool'[x][1] = c
      BY <2>3, <1>1, <1>6, <1>7, ConsOf
    <3> QED  BY <3>1, <3>2, <2>3, <1>1 DEF ConnAt
  <2>4. CASE d # c
    <3>1. conn'[d] = conn[d]
      BY <2>4, <1>5
    <3>2. conn[d].st = "used" => \E p \in Ops : op'[p].conn = d
      BY <2>1, <2>4, <1>4 DEF ConnAt, c
    <3>3. ASSUME conn[d].st = "pooled"
          PROVE  /\ conn[d].ctx \in Contexts /\ Rested(conn[d])
                 /\ \E i \in DOMAIN pool'[conn[d].ctx] : pool'[conn[d].ctx][i] = d
      <4>1. /\ conn[d].ctx \in Contexts /\ Rested(conn[d])
            /\ \E i \in DOMAIN pool[conn[d].ctx] : pool[conn[d].ctx][i] = d
        BY <2>1, <3>3 DEF ConnAt
      <4>2. CASE conn[d].ctx = x /\ keep
        <5>1. PICK i \in DOMAIN pool[x] : pool[x][i] = d
          BY <4>1, <4>2
        <5>2. i + 1 \in DOMAIN (<<c>> \o pool[x]) /\ (<<c>> \o pool[x])[i + 1] = d
          BY <5>1, <1>1, <1>6, ConsOf
        <5> QED  BY <4>1, <4>2, <5>2, <1>7
      <4>3. CASE ~(conn[d].ctx = x /\ keep)
        <5>1. pool'[conn[d].ctx] = pool[conn[d].ctx]
          BY <4>1, <4>3, <1>7
        <5> QED  BY <4>1, <5>1
      <4> QED  BY <4>2, <4>3
    <3> QED  BY <2>1, <3>1, <3>2, <3>3 DEF ConnAt
  <2> QED  BY <2>2, <2>3, <2>4
<1>16. ASSUME NEW y \in Contexts
       PROVE  PoolAt(y)'
  <2>1. PoolAt(y) /\ pool[y] \in Seq(Conns)
    BY <1>2 DEF ClientsInv, TypeOK
  <2>2. \A i \in DOMAIN pool[y] :
           /\ pool[y][i] # c /\ conn'[pool[y][i]] = conn[pool[y][i]]
           /\ conn[pool[y][i]].st = "pooled" /\ conn[pool[y][i]].ctx = y
    BY <2>1, <1>1, <1>5 DEF PoolAt
  <2>3. CASE y = x /\ keep
    <3> DEFINE s == pool[y]
               t == pool'[y]
    <3>1. /\ Len(s) \in Nat /\ Len(t) = Len(s) + 1 /\ t[1] = c
          /\ \A i \in DOMAIN t : i # 1 => i - 1 \in DOMAIN s /\ t[i] = s[i - 1]
          /\ t \in Seq(Conns)
      BY <2>1, <2>3, <1>1, <1>6, <1>7, ConsOf
    <3>2. Len(t) <= KeepAlive
      <4>1. Len(s) < KeepAlive /\ KeepAlive \in Nat
        BY <2>3, RedisClientAssumption DEF x
      <4> HIDE DEF s, t
      <4> QED  BY <3>1, <4>1
    <3>3. conn'[c].st = "pooled" /\ conn'[c].ctx = y
      BY <2>3, <1>5 DEF g, x
    <3> HIDE DEF s, t
    <3>4. ASSUME NEW i \in DOMAIN t
          PROVE  conn'[t[i]].st = "pooled" /\ conn'[t[i]].ctx = y
      <4>1. CASE i = 1
        BY <4>1, <3>1, <3>3
      <4>2. CASE i # 1
        <5>1. i - 1 \in DOMAIN s /\ t[i] = s[i - 1]
          BY <4>2, <3>1
        <5>2. /\ conn'[s[i - 1]] = conn[s[i - 1]]
              /\ conn[s[i - 1]].st = "pooled" /\ conn[s[i - 1]].ctx = y
          BY <5>1, <2>2 DEF s
        <5> QED  BY <5>1, <5>2
      <4> QED  BY <4>1, <4>2
    <3>5. ASSUME NEW i \in DOMAIN t, NEW j \in DOMAIN t, t[i] = t[j]
          PROVE  i = j
      <4>1. i \in Nat /\ j \in Nat
        BY <3>1, LenProperties
      <4>2. CASE i = 1 \/ j = 1
        <5>1. \A k \in DOMAIN t : k # 1 => t[k] # c
          BY <3>1, <2>2 DEF s
        <5> QED  BY <4>2, <5>1, <3>1, <3>5
      <4>3. CASE i # 1 /\ j # 1
        <5>1. i - 1 \in DOMAIN s /\ j - 1 \in DOMAIN s /\ s[i - 1] = s[j - 1]
          BY <4>3, <3>1, <3>5
        <5>2. i - 1 = j - 1
          BY <5>1, <2>1 DEF PoolAt, s
        <5> QED  BY <5>2, <4>1
      <4> QED  BY <4>2, <4>3
    <3> QED  BY <3>2, <3>4, <3>5 DEF PoolAt, t
  <2>4. CASE ~(y = x /\ keep)
    <3>1. pool'[y] = pool[y]
      BY <2>4, <1>7
    <3> QED  BY <3>1, <2>1, <2>2 DEF PoolAt
  <2> QED  BY <2>3, <2>4
<1>17. ASSUME NEW r \in Requests
       PROVE  ParkedAt(r)'
  <2>1. ParkedAt(r) /\ r # None
    BY RedisClientAssumption DEF ClientsInv
  <2>2. CASE r = op[o].req
    <3>1. \A p \in Ops : op[p].req = r => p = o
      BY <2>1, <2>2, Holder
    <3>2. \A p \in Ops : op'[p].req # r
      BY <3>1, <2>1, <1>4, <1>8
    <3>3. req'[r] = "run"
      BY <2>2, <1>10
    <3> QED  BY <3>2, <3>3 DEF ParkedAt
  <2>3. CASE r # op[o].req
    <3>1. \A p \in Ops : op'[p].req = r <=> op[p].req = r
      BY <2>1, <2>3, <1>4, <1>8
    <3>2. req'[r] = req[r]
      BY <2>3, <1>10
    <3> QED  BY <2>1, <3>1, <3>2 DEF ParkedAt
  <2> QED  BY <2>2, <2>3
<1> QED  BY <1>11, <1>12, <1>13, <1>14, <1>15, <1>16, <1>17 DEF ClientsInv

(* An operation begins, over a new connection or the last one of its bucket *)
(* of the pool.                                                             *)
Starts(o, q, f) ==
    /\ op' = [op EXCEPT ![o] = q]
    /\ conn' = [conn EXCEPT ![q.conn] = f]
    /\ \/ conn[q.conn].st = "free" /\ pool' = pool
       \/ /\ pool[q.ctx] # <<>> /\ q.conn = Head(pool[q.ctx])
          /\ pool' = [pool EXCEPT ![q.ctx] = Tail(@)]
    /\ inflight' = IF q.kind = "index" THEN inflight + 1 ELSE inflight
    /\ owed' \in [Ops -> Nat] /\ \A p \in Ops : p # o => owed'[p] = owed[p]
    /\ IF q.req = None THEN req' = req
       ELSE /\ q.req \in Requests /\ req[q.req] = "run"
            /\ req' = [req EXCEPT ![q.req] = "parked"]

LEMMA StartsInv ==
    ASSUME ClientsInv, NEW o \in Ops, ~Live(o), NEW q \in OpType,
           NEW f \in ConnType, Starts(o, q, f), Apart',
           q.kind # "none", Proper(q),
           f.st = "used", f.ctx = q.ctx, Talk(o, q, f, owed'[o])
    PROVE  ClientsInv'
<1> DEFINE c == q.conn
           x == q.ctx
<1>1. /\ c \in Conns /\ x \in Contexts /\ c # None /\ op[o] = NoOp
      /\ op[o].kind = "none"
  BY RedisClientAssumption DEF Proper, Live, ClientsInv
<1>2. TypeOK /\ Apart'
  BY DEF ClientsInv
<1>3. /\ op'[o] = q /\ op' \in [Ops -> OpType]
      /\ \A p \in Ops : p # o => op'[p] = op[p] /\ owed'[p] = owed[p]
  BY <1>2 DEF Starts, TypeOK
<1>4. /\ conn'[c] = f /\ conn' \in [Conns -> ConnType]
      /\ \A d \in Conns : d # c => conn'[d] = conn[d]
  BY <1>1, <1>2 DEF Starts, TypeOK
<1>5. NoOp.kind = "none" /\ NoOp.conn = None /\ NoOp.req = None
  BY DEF NoOp
<1>6. pool[x] \in Seq(Conns) /\ PoolAt(x)
  BY <1>1, <1>2 DEF TypeOK, ClientsInv
<1>7. \/ conn[c].st = "free" /\ pool' = pool
      \/ /\ conn[c].st = "pooled" /\ conn[c].ctx = x /\ pool[x] # <<>>
         /\ c = pool[x][1] /\ pool' = [pool EXCEPT ![x] = Tail(@)]
  <2>1. CASE pool[x] # <<>> /\ c = Head(pool[x])
    <3>1. 1 \in DOMAIN pool[x] /\ c = pool[x][1]
      BY <2>1, <1>6, TailOf
    <3>2. conn[c].st = "pooled" /\ conn[c].ctx = x
      BY <3>1, <1>6 DEF PoolAt
    <3> QED  BY <2>1, <3>1, <3>2 DEF Starts
  <2> QED  BY <2>1 DEF Starts
<1>8. conn[c].st # "used"
  BY <1>7
<1> HIDE DEF c, x
<1>9. \A p \in Ops : op[p].conn # c
  <2> SUFFICES ASSUME NEW p \in Ops, op[p].conn = c PROVE FALSE
    OBVIOUS
  <2>1. op[p].kind # "none"
    BY <1>1, <1>5 DEF ClientsInv, Proper
  <2> QED  BY <2>1, <1>8, Holder DEF Live
<1>10. ASSUME q.req # None
       PROVE  q.req \in Requests /\ \A p \in Ops : op[p].req # q.req
  <2>1. q.req \in Requests /\ req[q.req] = "run"
    BY <1>10 DEF Starts
  <2>2. ParkedAt(q.req)
    BY <2>1 DEF ClientsInv
  <2> QED  BY <2>1, <2>2 DEF ParkedAt
<1>11. /\ pool' \in [Contexts -> Seq(Conns)]
       /\ \A y \in Contexts : y # x => pool'[y] = pool[y]
       /\ \/ conn[c].st = "free" /\ pool'[x] = pool[x]
          \/ /\ conn[c].st = "pooled" /\ conn[c].ctx = x
             /\ pool[x] # <<>> /\ c = pool[x][1] /\ pool'[x] = Tail(pool[x])
  <2>1. pool[x] # <<>> => Tail(pool[x]) \in Seq(Conns)
    BY <1>6, TailOf
  <2> QED  BY <2>1, <1>1, <1>2, <1>7 DEF TypeOK
<1>12. (IsFiniteSet(Indexing) /\ inflight = Cardinality(Indexing))' /\ inflight' \in Nat
  <2>1. IsFiniteSet(Indexing) /\ inflight = Cardinality(Indexing)
    BY DEF ClientsInv
  <2>2. /\ IsFiniteSet(Indexing') /\ Cardinality(Indexing') \in Nat
        /\ Cardinality(Indexing') = IF op'[o].kind = "index"
                                    THEN Cardinality(Indexing) + 1
                                    ELSE Cardinality(Indexing)
    BY <2>1, <1>1, <1>3, IndexedMore
  <2> QED  BY <2>1, <2>2, <1>3 DEF Starts
<1>13. /\ req' \in [Requests -> {"run", "parked"}]
       /\ \A r \in Requests : req'[r] = IF r = q.req THEN "parked" ELSE req[r]
  <2>1. None \notin Requests /\ req \in [Requests -> {"run", "parked"}]
    BY <1>2, RedisClientAssumption DEF TypeOK
  <2> QED  BY <2>1 DEF Starts
<1>14. TypeOK'
  BY <1>2, <1>3, <1>4, <1>11, <1>12, <1>13 DEF TypeOK, Starts, Apart
<1>15. ASSUME NEW p \in Ops
       PROVE  (Proper(op[p]) /\ Held(p))'
  <2>1. CASE p = o
    <3>1. q.conn = c
      BY DEF c
    <3> QED  BY <2>1, <3>1, <1>3, <1>4 DEF Held, Live
  <2>2. CASE p # o
    <3>1. Proper(op[p]) /\ Held(p) /\ op'[p] = op[p] /\ owed'[p] = owed[p]
      BY <2>2, <1>3 DEF ClientsInv
    <3>2. op[p].kind # "none" => op[p].conn # c /\ op[p].conn \in Conns
      BY <1>9, <3>1 DEF Proper
    <3>3. op[p].kind # "none" => conn'[op[p].conn] = conn[op[p].conn]
      BY <3>2, <1>4
    <3> QED  BY <3>1, <3>3 DEF Held, Live
  <2> QED  BY <2>1, <2>2
<1>16. Alone'
  <2> SUFFICES ASSUME NEW p \in Ops, NEW r \in Ops
               PROVE  /\ op'[p].conn # None /\ op'[p].conn = op'[r].conn => p = r
                      /\ op'[p].req # None /\ op'[p].req = op'[r].req => p = r
    BY DEF Alone
  <2>1. /\ op[p].conn # None /\ op[p].conn = op[r].conn => p = r
        /\ op[p].req # None /\ op[p].req = op[r].req => p = r
    BY DEF ClientsInv, Alone
  <2>2. q.conn = c
    BY DEF c
  <2> QED  BY <2>1, <2>2, <1>3, <1>9, <1>10
<1>17. ASSUME NEW d \in Conns
       PROVE  ConnAt(d)'
  <2>1. ConnAt(d)
    BY DEF ClientsInv
  <2>2. CASE d = c
    <3>1. conn'[d].st = "used" /\ op'[o].conn = d
      BY <2>2, <1>3, <1>4 DEF c
    <3> QED  BY <3>1 DEF ConnAt
  <2>3. CASE d # c
    <3>1. conn'[d] = conn[d]
      BY <2>3, <1>4
    <3>2. conn[d].st = "used" => \E p \in Ops : op'[p].conn = d
      <4>1. conn[d].st = "used" => \E p \in Ops : op[p].conn = d
        BY <2>1 DEF ConnAt
      <4>2. op[o].conn # d
        BY <1>1, <1>5, RedisClientAssumption
      <4> QED  BY <4>1, <4>2, <1>3
    <3>3. ASSUME conn[d].st = "pooled"
          PROVE  /\ conn[d].ctx \in Contexts /\ Rested(conn[d])
                 /\ \E i \in DOMAIN pool'[conn[d].ctx] : pool'[conn[d].ctx][i] = d
      <4>1. /\ conn[d].ctx \in Contexts /\ Rested(conn[d])
            /\ \E i \in DOMAIN pool[conn[d].ctx] : pool[conn[d].ctx][i] = d
        BY <2>1, <3>3 DEF ConnAt
      <4>2. CASE conn[d].ctx = x /\ pool[x] # <<>> /\ c = pool[x][1]
                   /\ pool'[x] = Tail(pool[x])
        <5>1. PICK i \in DOMAIN pool[x] : pool[x][i] = d
          BY <4>1, <4>2
        <5>2. i # 1
          BY <5>1, <4>2, <2>3
        <5>3. i - 1 \in DOMAIN Tail(pool[x]) /\ i - 1 + 1 = i
          BY <5>2, <4>2, <1>6, TailOf, LenProperties
        <5>4. Tail(pool[x])[i - 1] = d
          BY <5>1, <5>3, <4>2, <1>6, TailOf
        <5> QED  BY <4>1, <4>2, <5>3, <5>4
      <4>3. CASE pool'[conn[d].ctx] = pool[conn[d].ctx]
        BY <4>1, <4>3
      <4> QED  BY <4>1, <4>2, <4>3, <1>11
    <3> QED  BY <2>1, <3>1, <3>2, <3>3 DEF ConnAt
  <2> QED  BY <2>2, <2>3
<1>18. ASSUME NEW y \in Contexts
       PROVE  PoolAt(y)'
  <2>1. PoolAt(y) /\ pool[y] \in Seq(Conns)
    BY <1>2 DEF ClientsInv, TypeOK
  <2>2. CASE pool'[y] = pool[y] /\ (y # x \/ conn[c].st = "free")
    <3>1. \A i \in DOMAIN pool[y] : pool[y][i] # c
      <4>1. conn[c].st = "pooled" => conn[c].ctx = x
        BY <1>11
      <4> QED  BY <2>1, <2>2, <1>8, <4>1 DEF PoolAt
    <3>2. \A i \in DOMAIN pool[y] : conn'[pool[y][i]] = conn[pool[y][i]]
      BY <3>1, <2>1, <1>4
    <3> QED  BY <2>1, <2>2, <3>2 DEF PoolAt
  <2>3. CASE y = x /\ pool[x] # <<>> /\ c = pool[x][1] /\ pool'[x] = Tail(pool[x])
    <3> DEFINE s == pool[x]
               t == Tail(pool[x])
    <3>1. /\ Len(s) \in Nat /\ Len(t) = Len(s) - 1 /\ t \in Seq(Conns)
          /\ 1 \in DOMAIN s
          /\ \A i \in DOMAIN t : i + 1 \in DOMAIN s /\ t[i] = s[i + 1]
      BY <2>3, <1>6, TailOf
    <3>2. /\ s \in Seq(Conns) /\ Len(s) <= KeepAlive /\ c = s[1] /\ pool'[y] = t
          /\ \A i, j \in DOMAIN s : s[i] = s[j] => i = j
          /\ \A i \in DOMAIN s : conn[s[i]].st = "pooled" /\ conn[s[i]].ctx = x
      BY <2>3, <1>6 DEF PoolAt
    <3> HIDE DEF s, t
    <3>3. Len(t) <= KeepAlive
      BY <3>1, <3>2, RedisClientAssumption
    <3>4. \A i \in DOMAIN t : i \in Nat /\ i > 0
      BY <3>1, LenProperties
    <3>5. ASSUME NEW i \in DOMAIN t
          PROVE  conn'[t[i]].st = "pooled" /\ conn'[t[i]].ctx = x
      <4>1. i + 1 \in DOMAIN s /\ t[i] = s[i + 1] /\ i + 1 # 1
        BY <3>1, <3>4
      <4>2. s[i + 1] # c /\ s[i + 1] \in Conns
        BY <4>1, <3>1, <3>2, LenProperties
      <4> QED  BY <4>1, <4>2, <3>2, <1>4
    <3>6. ASSUME NEW i \in DOMAIN t, NEW j \in DOMAIN t, t[i] = t[j]
          PROVE  i = j
      <4>1. i + 1 \in DOMAIN s /\ j + 1 \in DOMAIN s /\ s[i + 1] = s[j + 1]
        BY <3>1, <3>6
      <4>2. i + 1 = j + 1
        BY <4>1, <3>2
      <4> QED  BY <4>2, <3>4
    <3> QED  BY <2>3, <3>2, <3>3, <3>5, <3>6 DEF PoolAt
  <2> QED  BY <2>2, <2>3, <1>11
<1>19. ASSUME NEW r \in Requests
       PROVE  ParkedAt(r)'
  <2>1. ParkedAt(r) /\ r # None /\ op[o].req # r
    BY <1>1, <1>5, RedisClientAssumption DEF ClientsInv
  <2>2. CASE r = q.req
    BY <2>2, <1>3, <1>13 DEF ParkedAt
  <2>3. CASE r # q.req
    <3>1. \A p \in Ops : op'[p].req = r <=> op[p].req = r
      BY <2>1, <2>3, <1>3
    <3> QED  BY <2>1, <2>3, <3>1, <1>13 DEF ParkedAt
  <2> QED  BY <2>2, <2>3
<1> QED  BY <1>12, <1>14, <1>15, <1>16, <1>17, <1>18, <1>19 DEF ClientsInv

(* Nothing of the above changes; what a free slot answers for is set.       *)
Idles(o) ==
    /\ UNCHANGED <<op, conn, pool, req, inflight>>
    /\ owed' \in [Ops -> Nat]
    /\ ~Live(o) /\ \A p \in Ops : p # o => owed'[p] = owed[p]

LEMMA IdlesInv ==
    ASSUME ClientsInv, NEW o, Idles(o), Apart'
    PROVE  ClientsInv'
<1>1. TypeOK'
  BY DEF ClientsInv, TypeOK, Idles, Apart
<1>2. ASSUME NEW p \in Ops
      PROVE  (Proper(op[p]) /\ Held(p))'
  <2>1. Proper(op[p]) /\ Held(p)
    BY DEF ClientsInv
  <2>2. op[p].kind # "none" => owed'[p] = owed[p]
    BY DEF Idles, Live
  <2> QED  BY <2>1, <2>2 DEF Held, Live, Idles
<1>3. Alone'
  BY DEF ClientsInv, Alone, Idles
<1>4. \A c \in Conns : ConnAt(c)'
  BY DEF ClientsInv, ConnAt, Idles
<1>5. \A x \in Contexts : PoolAt(x)'
  BY DEF ClientsInv, PoolAt, Idles
<1>6. \A r \in Requests : ParkedAt(r)'
  BY DEF ClientsInv, ParkedAt, Idles
<1>7. Indexing' = Indexing /\ inflight' = inflight
  BY DEF Indexing, Idles
<1> QED  BY <1>1, <1>2, <1>3, <1>4, <1>5, <1>6, <1>7 DEF ClientsInv

(* Something happens to a connection that lies in the pool.                 *)
Rests(c, f) ==
    /\ conn' = [conn EXCEPT ![c] = f]
    /\ UNCHANGED <<op, pool, req, inflight, owed>>

LEMMA PooledAlone ==
    ASSUME ClientsInv, NEW c \in Conns, conn[c].st # "used"
    PROVE  \A p \in Ops : op[p].conn # c
<1> SUFFICES ASSUME NEW p \in Ops, op[p].conn = c PROVE FALSE
  OBVIOUS
<1>1. op[p].kind # "none"
  BY RedisClientAssumption DEF ClientsInv, Proper, NoOp
<1> QED  BY <1>1, Holder DEF Live

LEMMA RestsInv ==
    ASSUME ClientsInv, NEW c \in Conns, NEW f \in ConnType, Rests(c, f), Apart',
           conn[c].st = "pooled", f.st = "pooled", f.ctx = conn[c].ctx, Rested(f)
    PROVE  ClientsInv'
<1>1. TypeOK'
  BY DEF ClientsInv, TypeOK, Rests, Apart
<1>2. conn'[c] = f /\ \A d \in Conns : d # c => conn'[d] = conn[d]
  BY DEF ClientsInv, TypeOK, Rests
<1>3. \A d \in Conns : /\ conn'[d].st = conn[d].st /\ conn'[d].ctx = conn[d].ctx
                        /\ conn[d].st # "pooled" => conn'[d] = conn[d]
  BY <1>2
<1>4. \A p \in Ops : op[p].conn # c
  BY PooledAlone
<1>5. ASSUME NEW p \in Ops
      PROVE  (Proper(op[p]) /\ Held(p))'
  <2>1. Proper(op[p]) /\ Held(p)
    BY DEF ClientsInv
  <2>2. op[p].kind # "none" => conn'[op[p].conn] = conn[op[p].conn]
    BY <2>1, <1>2, <1>4 DEF Proper
  <2> QED  BY <2>1, <2>2 DEF Held, Live, Rests
<1>6. Alone'
  BY DEF ClientsInv, Alone, Rests
<1>7. ASSUME NEW d \in Conns
      PROVE  ConnAt(d)'
  <2>1. ConnAt(d)
    BY DEF ClientsInv
  <2>2. conn[d].st = "pooled" => Rested(conn'[d])
    BY <2>1, <1>2 DEF ConnAt
  <2> QED  BY <2>1, <2>2, <1>3 DEF ConnAt, Rests
<1>8. ASSUME NEW x \in Contexts
      PROVE  PoolAt(x)'
  <2>1. PoolAt(x) /\ pool[x] \in Seq(Conns)
    BY DEF ClientsInv, TypeOK
  <2>2. \A i \in DOMAIN pool[x] : pool[x][i] \in Conns
    BY <2>1, LenProperties
  <2> QED  BY <2>1, <2>2, <1>3 DEF PoolAt, Rests
<1>9. \A r \in Requests : ParkedAt(r)'
  BY DEF ClientsInv, ParkedAt, Rests
<1>10. Indexing' = Indexing /\ inflight' = inflight
  BY DEF Indexing, Rests
<1> QED  BY <1>1, <1>5, <1>6, <1>7, <1>8, <1>9, <1>10 DEF ClientsInv

(* It is closed and taken from its bucket.                                  *)
LEMMA DropsInv ==
    ASSUME ClientsInv, NEW c \in Conns, DropIdle(c)
    PROVE  ClientsInv'
<1> DEFINE x == conn[c].ctx
<1>1. TypeOK /\ ConnAt(c) /\ conn[c].st = "pooled"
  BY DEF ClientsInv, DropIdle
<1>2. x \in Contexts /\ pool[x] \in Seq(Conns) /\ PoolAt(x)
  BY <1>1 DEF ConnAt, ClientsInv, TypeOK
<1>3. PICK k \in DOMAIN pool[x] :
        pool[x][k] = c /\ pool' = [pool EXCEPT ![x] = RemoveAt(pool[x], k)]
  BY DEF DropIdle
<1> DEFINE s == pool[x]
           t == RemoveAt(pool[x], k)
<1>4. /\ t \in Seq(Conns) /\ Len(t) = Len(s) - 1 /\ Len(s) \in Nat
      /\ \A i \in DOMAIN t : IF i < k THEN i \in DOMAIN s /\ t[i] = s[i]
                              ELSE i + 1 \in DOMAIN s /\ t[i] = s[i + 1]
      /\ \A i \in DOMAIN s : i # k => \E j \in DOMAIN t : t[j] = s[i]
  BY ZenonT(30), <1>2, RemovedOf
<1>5. /\ \A i, j \in DOMAIN s : s[i] = s[j] => i = j
      /\ \A i \in DOMAIN s : conn[s[i]].st = "pooled" /\ conn[s[i]].ctx = x
      /\ Len(s) <= KeepAlive /\ s \in Seq(Conns) /\ s[k] = c /\ k \in DOMAIN s
  BY <1>2, <1>3 DEF PoolAt
<1>6. pool'[x] = t /\ \A y \in Contexts : y # x => pool'[y] = pool[y]
  BY <1>1, <1>2, <1>3 DEF TypeOK
<1>7. pool' \in [Contexts -> Seq(Conns)]
  BY <1>1, <1>3, <1>4 DEF TypeOK
<1>8. conn'[c] = NoConn /\ \A d \in Conns : d # c => conn'[d] = conn[d]
  BY <1>1 DEF DropIdle, TypeOK
<1>9. UNCHANGED <<op, backoff, req, inflight, owed>> /\ verdict' = "none"
  BY DEF DropIdle, Silent
<1>10. conn' \in [Conns -> ConnType]
  BY <1>1, NoOpOK DEF DropIdle, TypeOK
<1> HIDE DEF s, t
<1>11. \A i \in DOMAIN s : s[i] \in Conns /\ i \in Nat /\ i > 0
  BY <1>5, LenProperties
<1>12. \A i \in DOMAIN t : i \in Nat
  BY <1>4, LenProperties
<1> HIDE DEF x
<1>13. TypeOK'
  BY <1>1, <1>7, <1>9, <1>10 DEF TypeOK
<1>14. \A p \in Ops : op[p].conn # c
  BY <1>1, PooledAlone
<1>15. ASSUME NEW p \in Ops
       PROVE  (Proper(op[p]) /\ Held(p))'
  <2>1. Proper(op[p]) /\ Held(p)
    BY DEF ClientsInv
  <2>2. op[p].kind # "none" => conn'[op[p].conn] = conn[op[p].conn]
    BY <2>1, <1>8, <1>14 DEF Proper
  <2> QED  BY <2>1, <2>2, <1>9 DEF Held, Live
<1>16. Alone'
  BY <1>9 DEF ClientsInv, Alone
<1>17. ASSUME NEW d \in Conns
       PROVE  ConnAt(d)'
  <2>1. ConnAt(d)
    BY DEF ClientsInv
  <2>2. CASE d = c
    BY <2>2, <1>8 DEF ConnAt, NoConn
  <2>3. CASE d # c
    <3>1. conn'[d] = conn[d] /\ op' = op
      BY <2>3, <1>8, <1>9
    <3>2. ASSUME conn[d].st = "pooled"
          PROVE  \E i \in DOMAIN pool'[conn[d].ctx] : pool'[conn[d].ctx][i] = d
      <4>1. /\ conn[d].ctx \in Contexts
            /\ \E i \in DOMAIN pool[conn[d].ctx] : pool[conn[d].ctx][i] = d
        BY <2>1, <3>2 DEF ConnAt
      <4>2. CASE conn[d].ctx = x
        <5>1. PICK i \in DOMAIN s : s[i] = d
          BY <4>1, <4>2 DEF s
        <5>2. i # k
          BY <5>1, <1>5, <2>3
        <5> QED  BY <5>1, <5>2, <4>2, <1>4, <1>6
      <4>3. CASE conn[d].ctx # x
        BY <4>1, <4>3, <1>6
      <4> QED  BY <4>2, <4>3
    <3> QED  BY <2>1, <3>1, <3>2 DEF ConnAt
  <2> QED  BY <2>2, <2>3
<1>18. ASSUME NEW y \in Contexts
       PROVE  PoolAt(y)'
  <2>1. CASE y = x
    <3>1. Len(t) <= KeepAlive
      BY <1>4, <1>5, RedisClientAssumption
    <3>2. ASSUME NEW i \in DOMAIN t
          PROVE  \E j \in DOMAIN s : t[i] = s[j] /\ j # k
                                    /\ j = IF i < k THEN i ELSE i + 1
      BY <1>4, <1>5, <1>11, <1>12
    <3>3. ASSUME NEW i \in DOMAIN t
          PROVE  conn'[t[i]].st = "pooled" /\ conn'[t[i]].ctx = x
      <4>1. PICK j \in DOMAIN s : t[i] = s[j] /\ j # k
        BY <3>2
      <4>2. s[j] # c /\ s[j] \in Conns
        BY <4>1, <1>5, <1>11
      <4> QED  BY <4>1, <4>2, <1>5, <1>8
    <3>4. ASSUME NEW i \in DOMAIN t, NEW j \in DOMAIN t, t[i] = t[j]
          PROVE  i = j
      <4>1. PICK m \in DOMAIN s : t[i] = s[m] /\ m = IF i < k THEN i ELSE i + 1
        BY <3>2
      <4>2. PICK n \in DOMAIN s : t[j] = s[n] /\ n = IF j < k THEN j ELSE j + 1
        BY <3>2
      <4>3. m = n
        BY <4>1, <4>2, <3>4, <1>5
      <4> QED  BY <4>1, <4>2, <4>3, <1>5, <1>11, <1>12
    <3> QED  BY <2>1, <3>1, <3>3, <3>4, <1>6 DEF PoolAt
  <2>2. CASE y # x
    <3>1. PoolAt(y) /\ pool'[y] = pool[y] /\ pool[y] \in Seq(Conns)
      BY <2>2, <1>1, <1>6 DEF ClientsInv, TypeOK
    <3>2. \A i \in DOMAIN pool[y] : pool[y][i] # c /\ pool[y][i] \in Conns
      BY <3>1, <2>2, LenProperties DEF PoolAt, x
    <3> QED  BY <3>1, <3>2, <1>8 DEF PoolAt
  <2> QED  BY <2>1, <2>2
<1>19. \A r \in Requests : ParkedAt(r)'
  BY <1>9 DEF ClientsInv, ParkedAt
<1>20. Indexing' = Indexing /\ inflight' = inflight
  BY <1>9 DEF Indexing
<1> QED  BY <1>13, <1>15, <1>16, <1>17, <1>18, <1>19, <1>20 DEF ClientsInv

-----------------------------------------------------------------------------
(* The handlers: starting. *)

LEMMA NewOK ==
    ASSUME NEW k \in Kinds, NEW x \in Contexts, NEW r \in Requests \cup {None},
           NEW n \in Nat
    PROVE  /\ New(k, x, r, n) \in OpType
           /\ New(k, x, r, n).kind = k /\ New(k, x, r, n).ctx = x
           /\ New(k, x, r, n).req = r /\ New(k, x, r, n).expected = n
           /\ New(k, x, r, n).seen = 0 /\ New(k, x, r, n).failed = FALSE
           /\ New(k, x, r, n).pre = FALSE /\ New(k, x, r, n).reader = "reply"
<1>1. NoOp \in OpType /\ NoOp.seen = 0 /\ NoOp.failed = FALSE /\ NoOp.pre = FALSE
      /\ NoOp.reader = "reply"
  BY NoOpOK DEF NoOp
<1>2. k \in Kinds \cup {"none"} /\ x \in Contexts \cup {None}
  OBVIOUS
<1> QED  BY <1>1, <1>2 DEF New, OpType

(* What the caller does about the counter and the request. *)
Promised(k, r) ==
    /\ inflight' = IF k = "index" THEN inflight + 1 ELSE inflight
    /\ IF r = None THEN req' = req
       ELSE r \in Requests /\ req[r] = "run" /\ req' = [req EXCEPT ![r] = "parked"]

(* A command that an operation may be created for. *)
Request(k, x, r, n) ==
    /\ n >= 1
    /\ k \in Waits <=> r # None
    /\ k \in Waits \cup {"fire"} => n = 1
    /\ x \in Memcached => k \in {"get", "fire"}

LEMMA ReusePatch ==
    ASSUME NEW s \in OpType, NEW c \in Conns
    PROVE  [s EXCEPT !.conn = c, !.st = "write", !.wtimer = TRUE] \in OpType
<1>1. c \in Conns \cup {None} /\ "write" \in {"none", "tls", "write", "read"}
  OBVIOUS
<1> QED  BY <1>1 DEF OpType

LEMMA ConnectPatch ==
    ASSUME NEW s \in OpType, NEW c \in Conns, NEW b \in BOOLEAN,
           NEW t \in {"tls", "write"}
    PROVE  [s EXCEPT !.conn = c, !.unconnected = TRUE, !.wtimer = TRUE,
                     !.pre = b, !.st = t] \in OpType
<1>1. c \in Conns \cup {None} /\ t \in {"none", "tls", "write", "read"}
  OBVIOUS
<1> QED  BY <1>1 DEF OpType

LEMMA LaunchedInv ==
    ASSUME ClientsInv, NEW o \in Ops, NEW k \in Kinds, NEW x \in Contexts,
           NEW r \in Requests \cup {None}, NEW n \in Nat, NEW w \in Nat,
           Fresh(o, w), Launched(o, New(k, x, r, n)), Promised(k, r),
           Request(k, x, r, n), k = "many" => w = n
    PROVE  ClientsInv'
<1>1. PICK s \in OpType : s = New(k, x, r, n)
  BY NewOK
<1>2. /\ s.kind = k /\ s.ctx = x /\ s.req = r /\ s.expected = n
      /\ s.seen = 0 /\ ~s.failed /\ ~s.pre /\ s.reader = "reply"
  BY <1>1 DEF New, NoOp
<1>3. TypeOK /\ ~Live(o) /\ verdict' = "none" /\ owed' = [owed EXCEPT ![o] = w]
  BY DEF ClientsInv, Fresh, Silent
<1>4. owed' \in [Ops -> Nat] /\ owed'[o] = w /\ \A p \in Ops : p # o => owed'[p] = owed[p]
  BY <1>3 DEF TypeOK
<1>5. backoff' = backoff /\ Apart'
  BY <1>3 DEF Launched, Reuse, Connect, TypeOK, Apart
<1>6. k # "none"
  BY DEF Kinds
<1>7. CASE Reuse(o, s)
  <2>1. pool[x] # <<>> /\ pool[x] \in Seq(Conns)
    BY <1>2, <1>3, <1>7 DEF Reuse, TypeOK
  <2>2. PICK c \in Conns : c = Head(pool[x])
    BY <2>1, TailOf
  <2>3. conn[c].st = "pooled" /\ conn[c].ctx = x /\ Rested(conn[c])
    <3>1. 1 \in DOMAIN pool[x] /\ c = pool[x][1]
      BY <2>1, <2>2, TailOf
    <3>2. conn[c].st = "pooled" /\ conn[c].ctx = x
      BY <3>1 DEF ClientsInv, PoolAt
    <3> QED  BY <3>2 DEF ClientsInv, ConnAt
  <2>4. PICK e \in ConnType : e = conn[c]
    BY <1>3 DEF TypeOK
  <2>5. PICK q \in OpType : q = [s EXCEPT !.conn = c, !.st = "write", !.wtimer = TRUE]
    BY ReusePatch
  <2>6. [e EXCEPT !.st = "used"] \in ConnType
    BY DEF ConnType
  <2>7. PICK f \in ConnType : f = [e EXCEPT !.st = "used"]
    BY <2>6
  <2>8. /\ q.kind = k /\ q.ctx = x /\ q.req = r /\ q.expected = n /\ q.conn = c
        /\ q.seen = 0 /\ ~q.failed /\ ~q.pre /\ q.reader = "reply" /\ q.st = "write"
    BY <1>2, <2>5 DEF OpType
  <2>9. /\ f.st = "used" /\ f.ctx = x /\ f.cmds = <<>> /\ f.replies = <<>>
        /\ f.stream = "open" => f.session = Session(x)
    BY <2>3, <2>4, <2>7 DEF ConnType, Rested
  <2>10. /\ op' = [op EXCEPT ![o] = q] /\ conn' = [conn EXCEPT ![c] = f]
         /\ pool' = [pool EXCEPT ![x] = Tail(@)]
    BY <1>2, <1>7, <2>2, <2>4, <2>5, <2>7 DEF Reuse
  <2>11. Talk(o, q, f, w)
    BY <2>8, <2>9, TalkStarts
  <2>12. Proper(q)
    BY <1>6, <2>8 DEF Proper, Request
  <2>13. Starts(o, q, f)
    BY <1>4, <2>1, <2>2, <2>8, <2>10 DEF Starts, Promised
  <2> QED  BY <1>3, <1>4, <1>5, <1>6, <2>8, <2>9, <2>11, <2>12, <2>13, StartsInv
<1>8. CASE Connect(o, s)
  <2>1. PICK c \in Conns :
          /\ conn[c].st = "free"
          /\ conn' = [conn EXCEPT ![c] = [NoConn EXCEPT !.st = "used", !.ctx = s.ctx]]
          /\ op' = [op EXCEPT ![o] =
               [s EXCEPT !.conn = c, !.unconnected = TRUE, !.wtimer = TRUE,
                         !.pre = PreReplies[s.ctx] > 0,
                         !.st = IF s.ctx \in Tls THEN "tls" ELSE "write"]]
    BY <1>8 DEF Connect
  <2>2. PICK b \in BOOLEAN : b = (PreReplies[x] > 0)
    <3>1. (PreReplies[x] > 0) \in BOOLEAN
      OBVIOUS
    <3> QED  BY <3>1, Zenon
  <2>3. PICK t \in {"tls", "write"} : t = IF x \in Tls THEN "tls" ELSE "write"
    OBVIOUS
  <2>4. PICK q \in OpType :
          q = [s EXCEPT !.conn = c, !.unconnected = TRUE, !.wtimer = TRUE,
                        !.pre = b, !.st = t]
    BY ConnectPatch
  <2>5. [NoConn EXCEPT !.st = "used", !.ctx = x] \in ConnType
    <3>1. x \in Contexts \cup {None}
      OBVIOUS
    <3> QED  BY <3>1, NoOpOK DEF ConnType
  <2>6. PICK f \in ConnType : f = [NoConn EXCEPT !.st = "used", !.ctx = x]
    BY <2>5
  <2>7. /\ q.kind = k /\ q.ctx = x /\ q.req = r /\ q.expected = n /\ q.conn = c
        /\ q.seen = 0 /\ ~q.failed /\ q.reader = "reply" /\ q.st \in {"tls", "write"}
        /\ q.pre = b
    BY <1>2, <2>4 DEF OpType
  <2>8. /\ f.st = "used" /\ f.ctx = x /\ f.cmds = <<>> /\ f.replies = <<>>
        /\ f.session = None
    BY <2>6 DEF NoConn
  <2>9. /\ op' = [op EXCEPT ![o] = q] /\ conn' = [conn EXCEPT ![c] = f]
        /\ pool' = pool
    BY <1>2, <1>8, <2>1, <2>2, <2>3, <2>4, <2>6 DEF Connect
  <2>14. q.pre <=> PreReplies[x] > 0
    BY <2>2, <2>7
  <2>10. ~q.pre => Session(x) = None
    <3>1. PreReplies[x] \in 0..2
      BY RedisClientAssumption
    <3> QED  BY <2>14, <3>1 DEF Session
  <2>11. Talk(o, q, f, w)
    BY <2>7, <2>8, <2>10, TalkStarts
  <2>12. Proper(q)
    BY <1>6, <2>14, <2>7 DEF Proper, Request
  <2>13. Starts(o, q, f)
    BY <1>4, <2>1, <2>7, <2>9 DEF Starts, Promised
  <2> QED  BY <1>3, <1>4, <1>5, <1>6, <2>7, <2>8, <2>11, <2>12, <2>13, StartsInv
<1> QED  BY <1>1, <1>7, <1>8 DEF Launched

(* The command is not on its way. *)
LEMMA NotLaunchedInv ==
    ASSUME ClientsInv, NEW o \in Ops, NEW x \in Contexts, NEW w \in Nat,
           Fresh(o, w), NotLaunched(x), UNCHANGED <<req, inflight>>
    PROVE  ClientsInv'
<1>1. TypeOK /\ ~Live(o) /\ verdict' = "none" /\ owed' = [owed EXCEPT ![o] = w]
  BY DEF ClientsInv, Fresh, Silent
<1>2. Idles(o)
  BY <1>1 DEF Idles, NotLaunched, TypeOK
<1>3. Apart'
  BY <1>1 DEF Apart, NotLaunched, TypeOK
<1> QED  BY <1>2, <1>3, IdlesInv

-----------------------------------------------------------------------------
(* The handlers: ending. *)

LEMMA Active ==
    ASSUME ClientsInv, NEW o \in Ops,
           \/ op[o].st # "none" \/ op[o].ctx \in Contexts \/ op[o].kind \in Waits
    PROVE  Live(o)
<1>1. Proper(op[o]) /\ None \notin Contexts
  BY RedisClientAssumption DEF ClientsInv
<1> QED  BY <1>1 DEF Proper, NoOp, Live, Waits

(* What an operation that keeps its connection knows of it. *)
Clean(q, f) ==
    f.replies = <<>> /\ f.stream # "ended" =>
        /\ f.cmds = <<>> /\ f.heard
        /\ f.stream = "open" => f.session = Session(q.ctx)

LEMMA PooledOK ==
    ASSUME NEW f \in ConnType
    PROVE  [f EXCEPT !.st = "pooled"] \in ConnType
  BY DEF ConnType

LEMMA OpDoneInv ==
    ASSUME ClientsInv, NEW o \in Ops, Live(o), NEW f \in ConnType,
           NEW clean \in BOOLEAN, NEW failed \in BOOLEAN,
           OpDone(o, f, clean, failed), Resume(o), backoff' \in [Servers -> BOOLEAN],
           f.ctx = op[o].ctx, clean => Clean(op[o], f)
    PROVE  ClientsInv'
<1>1. TypeOK
  BY DEF ClientsInv
<1>2. PICK keep \in BOOLEAN : keep <=> Keepable(f, clean)
  OBVIOUS
<1>3. PICK g \in ConnType : g = [f EXCEPT !.st = "pooled"]
  BY PooledOK
<1>4. /\ g.st = "pooled" /\ g.ctx = op[o].ctx /\ g.cmds = f.cmds
      /\ g.replies = f.replies /\ g.heard = f.heard
      /\ g.stream = f.stream /\ g.session = f.session
  BY <1>3 DEF ConnType
<1>5. Ends(o, g, keep)
  <2>1. 0 \in Nat /\ owed' = [owed EXCEPT ![o] = 0]
    BY DEF OpDone
  <2>2. owed' \in [Ops -> Nat] /\ \A p \in Ops : p # o => owed'[p] = owed[p]
    BY <1>1, <2>1 DEF TypeOK
  <2>3. /\ op' = [op EXCEPT ![o] = NoOp]
        /\ inflight' = IF op[o].kind = "index" THEN inflight - 1 ELSE inflight
    BY DEF OpDone
  <2>4. /\ pool' = IF keep THEN [pool EXCEPT ![op[o].ctx] = <<op[o].conn>> \o @]
                   ELSE pool
        /\ conn' = [conn EXCEPT ![op[o].conn] = IF keep THEN g ELSE NoConn]
    BY <1>2, <1>3 DEF OpDone
  <2> QED  BY <2>2, <2>3, <2>4 DEF Ends
<1>6. Apart'
  BY DEF Apart, OpDone, DrainRc
<1>7. keep => Rested(g) /\ Len(pool[op[o].ctx]) < KeepAlive
  BY <1>2, <1>4 DEF Keepable, Clean, Rested
<1> QED  BY <1>4, <1>5, <1>6, <1>7, EndsInv

LEMMA McDoneInv ==
    ASSUME ClientsInv, NEW o \in Ops, OfMemcached(o), NEW f \in ConnType,
           NEW clean \in BOOLEAN, McDone(o, f, clean), Resume(o),
           backoff' \in [Servers -> BOOLEAN],
           f.ctx = op[o].ctx, clean => Clean(op[o], f)
    PROVE  ClientsInv'
<1>1. TypeOK /\ Live(o)
  BY Active, RedisClientAssumption DEF ClientsInv, OfMemcached
<1>2. PICK keep \in BOOLEAN : keep <=> Keepable(f, clean)
  OBVIOUS
<1>3. PICK g \in ConnType : g = [f EXCEPT !.st = "pooled"]
  BY PooledOK
<1>4. /\ g.st = "pooled" /\ g.ctx = op[o].ctx /\ g.cmds = f.cmds
      /\ g.replies = f.replies /\ g.heard = f.heard
      /\ g.stream = f.stream /\ g.session = f.session
  BY <1>3 DEF ConnType
<1>5. op[o].kind # "index"
  BY <1>1, Holder DEF Proper, OfMemcached, Live
<1>6. Ends(o, g, keep)
  <2>1. owed' \in [Ops -> Nat] /\ \A p \in Ops : p # o => owed'[p] = owed[p]
    BY <1>1 DEF McDone, TypeOK
  <2>2. op' = [op EXCEPT ![o] = NoOp] /\ inflight' = inflight
    BY DEF McDone
  <2>3. /\ pool' = IF keep THEN [pool EXCEPT ![op[o].ctx] = <<op[o].conn>> \o @]
                   ELSE pool
        /\ conn' = [conn EXCEPT ![op[o].conn] = IF keep THEN g ELSE NoConn]
    <3>1. CASE keep
      BY <3>1, <1>2, <1>3 DEF McDone, McKaSave, Keepable
    <3>2. CASE ~keep
      BY <3>2, <1>2, <1>3 DEF McDone, McKaSave, Keepable
    <3> QED  BY <3>1, <3>2
  <2> QED  BY <1>5, <2>1, <2>2, <2>3 DEF Ends
<1>7. Apart'
  BY DEF Apart, McDone, Silent
<1>8. keep => Rested(g) /\ Len(pool[op[o].ctx]) < KeepAlive
  BY <1>2, <1>4 DEF Keepable, Clean, Rested
<1> QED  BY <1>1, <1>4, <1>6, <1>7, <1>8, EndsInv

(* An operation fails: its connection is closed. *)
LEMMA BackoffOK ==
    ASSUME ClientsInv, NEW o \in Ops, Live(o),
           FailBackoff(o) \/ ClearBackoff(o) \/ UNCHANGED backoff
    PROVE  backoff' \in [Servers -> BOOLEAN]
<1>1. backoff \in [Servers -> BOOLEAN]
  BY DEF ClientsInv, TypeOK
<1> QED  BY <1>1 DEF FailBackoff, ClearBackoff

LEMMA OpFailInv ==
    ASSUME ClientsInv, NEW o \in Ops, Live(o),
           OpDone(o, conn[op[o].conn], FALSE, op[o].failed), Resume(o),
           FailBackoff(o) \/ UNCHANGED backoff
    PROVE  ClientsInv'
<1>1. backoff' \in [Servers -> BOOLEAN]
  BY BackoffOK
<1>2. PICK e \in ConnType : e = conn[op[o].conn] /\ e.ctx = op[o].ctx
  BY Holder
<1>3. PICK failed \in BOOLEAN : failed = op[o].failed
  BY Holder DEF OpType
<1>4. OpDone(o, e, FALSE, failed)
  BY <1>2, <1>3
<1> QED  BY <1>1, <1>2, <1>4, OpDoneInv

LEMMA McFailInv ==
    ASSUME ClientsInv, NEW o \in Ops, OfMemcached(o),
           McFinish(o, conn[op[o].conn], FALSE),
           FailBackoff(o) \/ UNCHANGED backoff
    PROVE  ClientsInv'
<1>1. Live(o)
  BY Active, RedisClientAssumption DEF OfMemcached
<1>2. backoff' \in [Servers -> BOOLEAN]
  BY <1>1, BackoffOK
<1>3. PICK e \in ConnType : e = conn[op[o].conn] /\ e.ctx = op[o].ctx
  BY <1>1, Holder
<1>4. McDone(o, e, FALSE) /\ Resume(o)
  BY <1>3 DEF McFinish
<1> QED  BY <1>2, <1>3, <1>4, McDoneInv

(* A reply is taken from a connection. *)
LEMMA AfterOK ==
    ASSUME NEW e \in ConnType, e.replies # <<>>
    PROVE  \E f \in ConnType :
              /\ f = [e EXCEPT !.replies = Tail(@), !.heard = TRUE]
              /\ Takes(e, f) /\ f.heard /\ f.st = e.st /\ f.ctx = e.ctx
<1>1. Tail(e.replies) \in Seq(ReplyType)
  BY TailOf DEF ConnType
<1>2. PICK t \in Seq(ReplyType) : t = Tail(e.replies)
  BY <1>1
<1>3. [e EXCEPT !.replies = t, !.heard = TRUE] \in ConnType
  BY DEF ConnType
<1>4. PICK f \in ConnType : f = [e EXCEPT !.replies = t, !.heard = TRUE]
  BY <1>3
<1>5. f.cmds = e.cmds /\ f.replies = t /\ f.session = e.session /\ f.stream = e.stream
      /\ f.heard /\ f.st = e.st /\ f.ctx = e.ctx
  BY SMTT(30), <1>4 DEF ConnType
<1> QED  BY <1>2, <1>4, <1>5 DEF Takes

(* What a read handler finds. *)
LEMMA Heard ==
    ASSUME ClientsInv, NEW o \in Ops, Hears(o)
    PROVE  /\ Live(o) /\ op[o].st \in {"write", "read"}
           /\ \E e \in ConnType : \E f \in ConnType :
                 /\ e = conn[op[o].conn] /\ f = AfterReply(o)
                 /\ e.st = "used" /\ e.ctx = op[o].ctx
                 /\ Talk(o, op[o], e, owed[o])
                 /\ e.replies # <<>> /\ Said(o) = e.replies[1].what
                 /\ Said(o) \in {"ok", "nil", "err", "bad"}
                 /\ Takes(e, f) /\ f.heard /\ f.st = e.st /\ f.ctx = e.ctx
                 /\ f.replies = <<>> => Len(e.replies) = 1
<1>1. Live(o) /\ op[o].st \in {"write", "read"}
  BY Active DEF Hears
<1>2. PICK e \in ConnType : e = conn[op[o].conn]
  BY <1>1, Holder
<1>3. /\ e.st = "used" /\ e.ctx = op[o].ctx /\ Talk(o, op[o], e, owed[o])
      /\ e.replies # <<>>
  BY <1>1, <1>2, Holder DEF Hears
<1>4. PICK f \in ConnType :
        /\ f = [e EXCEPT !.replies = Tail(@), !.heard = TRUE]
        /\ Takes(e, f) /\ f.heard /\ f.st = e.st /\ f.ctx = e.ctx
  BY <1>3, AfterOK
<1>5. f = AfterReply(o)
  BY <1>2, <1>4 DEF AfterReply
<1>6. /\ Head(e.replies) = e.replies[1] /\ Head(e.replies) \in ReplyType
      /\ Tail(e.replies) = <<>> => Len(e.replies) = 1
  BY <1>3, TailOf DEF ConnType
<1>7. Said(o) = e.replies[1].what /\ Said(o) \in {"ok", "nil", "err", "bad"}
  BY <1>2, <1>6 DEF Said, ReplyType
<1>8. f.replies = <<>> => Len(e.replies) = 1
  BY <1>4, <1>6 DEF Takes
<1> QED  BY <1>1, <1>2, <1>3, <1>4, <1>5, <1>7, <1>8

(* After its last reply the connection of an operation is clean. *)
LEMMA CleanLast ==
    ASSUME NEW o \in Ops, NEW q \in OpType, NEW e \in ConnType,
           NEW f \in ConnType, NEW w \in Nat, Talk(o, q, e, w), q.reader = "reply",
           e.replies # <<>>, Takes(e, f), f.heard,
           f.replies = <<>> => Len(e.replies) = 1, ~(q.seen + 1 < q.expected)
    PROVE  Clean(q, f)
  BY TalkEnds DEF Clean, Takes

-----------------------------------------------------------------------------
(* The handlers: events of a connection. *)

(* A read handler ends its operation, whose connection is clean if it says  *)
(* so.                                                                      *)
LEMMA LastReplyInv ==
    ASSUME ClientsInv, NEW o \in Ops, Hears(o), op[o].reader = "reply",
           ClearBackoff(o), NEW clean \in BOOLEAN, NEW failed \in BOOLEAN,
           LastReply(o, clean, failed),
           clean => ~(op[o].seen + 1 < op[o].expected)
    PROVE  ClientsInv'
<1>1. Live(o) /\ op[o] \in OpType /\ owed[o] \in Nat
  BY Heard, Holder
<1>2. PICK e \in ConnType, f \in ConnType :
        /\ e = conn[op[o].conn] /\ f = AfterReply(o)
        /\ e.st = "used" /\ e.ctx = op[o].ctx
        /\ Talk(o, op[o], e, owed[o])
        /\ e.replies # <<>> /\ Takes(e, f) /\ f.heard /\ f.ctx = e.ctx
        /\ f.replies = <<>> => Len(e.replies) = 1
  BY Heard
<1>3. backoff' \in [Servers -> BOOLEAN]
  BY <1>1, BackoffOK
<1>4. clean => Clean(op[o], f)
  BY <1>1, <1>2, CleanLast
<1>5. OpDone(o, f, clean, failed) /\ Resume(o)
  BY <1>2 DEF LastReply
<1> QED  BY <1>1, <1>2, <1>3, <1>4, <1>5, OpDoneInv

LEMMA McLastInv ==
    ASSUME ClientsInv, NEW o \in Ops, Hears(o), OfMemcached(o),
           ClearBackoff(o), NEW clean \in BOOLEAN,
           McDone(o, AfterReply(o), clean), Resume(o)
    PROVE  ClientsInv'
<1>1. Live(o) /\ op[o] \in OpType /\ owed[o] \in Nat /\ Proper(op[o])
  BY Heard, Holder
<1>2. PICK e \in ConnType, f \in ConnType :
        /\ e = conn[op[o].conn] /\ f = AfterReply(o)
        /\ e.st = "used" /\ e.ctx = op[o].ctx
        /\ Talk(o, op[o], e, owed[o])
        /\ e.replies # <<>> /\ Takes(e, f) /\ f.heard /\ f.ctx = e.ctx
        /\ f.replies = <<>> => Len(e.replies) = 1
  BY Heard
<1>3. backoff' \in [Servers -> BOOLEAN]
  BY <1>1, BackoffOK
<1>4. op[o].reader = "reply" /\ ~(op[o].seen + 1 < op[o].expected)
  BY <1>1 DEF Proper, OfMemcached, Live, OpType, Waits
<1>5. Clean(op[o], f)
  BY <1>1, <1>2, <1>4, CleanLast
<1>6. McDone(o, f, clean)
  BY <1>2
<1> QED  BY <1>2, <1>3, <1>5, <1>6, McDoneInv

(* A refused preamble closes the connection. *)
LEMMA RefusedInv ==
    ASSUME ClientsInv, NEW o \in Ops, Hears(o), ClearBackoff(o),
           LastReply(o, FALSE, op[o].failed)
    PROVE  ClientsInv'
<1>1. Live(o) /\ op[o] \in OpType
  BY Heard, Holder
<1>2. PICK e \in ConnType, f \in ConnType :
        f = AfterReply(o) /\ e.ctx = op[o].ctx /\ f.ctx = e.ctx
  BY Heard
<1>3. backoff' \in [Servers -> BOOLEAN]
  BY <1>1, BackoffOK
<1>4. PICK failed \in BOOLEAN : failed = op[o].failed
  BY <1>1 DEF OpType
<1>5. OpDone(o, f, FALSE, failed) /\ Resume(o)
  BY <1>2, <1>4 DEF LastReply
<1> QED  BY <1>1, <1>2, <1>3, <1>5, OpDoneInv

(* A read handler goes on. *)
LEMMA NextReplyInv ==
    ASSUME ClientsInv, NEW o \in Ops, Hears(o), ClearBackoff(o),
           NEW s \in OpType, NextReply(o, s),
           s.kind = op[o].kind, s.ctx = op[o].ctx, s.conn = op[o].conn,
           s.req = op[o].req, Proper(s), s.kind # "none",
           \A f \in ConnType : f = AfterReply(o) => Talk(o, s, f, owed[o])
    PROVE  ClientsInv'
<1>1. Live(o) /\ owed[o] \in Nat /\ TypeOK
  BY Heard, Holder DEF ClientsInv
<1>2. PICK e \in ConnType, f \in ConnType :
        /\ f = AfterReply(o) /\ e.st = "used" /\ e.ctx = op[o].ctx
        /\ f.st = e.st /\ f.ctx = e.ctx
  BY Heard
<1>3. [s EXCEPT !.unconnected = FALSE] \in OpType
  BY DEF OpType
<1>4. PICK q \in OpType : q = [s EXCEPT !.unconnected = FALSE]
  BY <1>3
<1>5. /\ q.kind = s.kind /\ q.ctx = s.ctx /\ q.conn = s.conn /\ q.req = s.req
      /\ q.st = s.st /\ q.reader = s.reader /\ q.pre = s.pre
      /\ q.expected = s.expected /\ q.seen = s.seen /\ q.failed = s.failed
  BY <1>4 DEF OpType
<1>6. SameCourse(s, q) /\ SameLoad(f, f)
  BY <1>5 DEF SameCourse, SameLoad
<1>7. Talk(o, q, f, owed[o])
  BY <1>1, <1>2, <1>6, TalkStays
<1>8. Proper(q)
  BY <1>5 DEF Proper
<1>9. Stays(o, q, f, owed[o])
  <2>1. owed' = [owed EXCEPT ![o] = owed[o]]
    BY <1>1 DEF NextReply, TypeOK
  <2>2. op' = [op EXCEPT ![o] = q] /\ conn' = [conn EXCEPT ![op[o].conn] = f]
    BY <1>2, <1>4 DEF NextReply
  <2>3. pool' = pool /\ req' = req /\ inflight' = inflight
    BY DEF NextReply
  <2> QED  BY <1>5, <2>1, <2>2, <2>3 DEF Stays
<1>10. Apart'
  BY <1>1, BackoffOK DEF Apart, NextReply, Silent
<1>11. PICK v \in Nat : v = owed[o]
  BY <1>1
<1> QED  BY <1>1, <1>2, <1>7, <1>8, <1>9, <1>10, <1>11, StaysInv

LEMMA ReadPreambleInv ==
    ASSUME ClientsInv, NEW o \in Ops, ReadPreamble(o)
    PROVE  ClientsInv'
<1>1. Hears(o) /\ op[o].reader = "preamble" /\ ClearBackoff(o)
  BY DEF ReadPreamble
<1>2. /\ Live(o) /\ op[o] \in OpType /\ owed[o] \in Nat /\ Proper(op[o])
      /\ op[o].kind # "none"
  BY <1>1, Heard, Holder DEF Live
<1>3. CASE Said(o) = "err"
  BY <1>1, <1>3, RefusedInv DEF ReadPreamble
<1>4. CASE Said(o) # "err"
  <2>1. PICK s \in OpType, w \in Nat : s = op[o] /\ w = owed[o]
    BY <1>2
  <2>2. PICK e \in ConnType, f \in ConnType :
          /\ f = AfterReply(o) /\ Talk(o, s, e, w) /\ e.replies # <<>>
          /\ e.replies[1].what # "err" /\ Takes(e, f)
    BY <1>1, <1>4, <2>1, Heard
  <2>3. CASE op[o].seen + 1 < PreReplies[op[o].ctx]
    <3>1. s.seen + 1 \in Nat
      BY DEF OpType
    <3>2. PICK n \in Nat : n = s.seen + 1
      BY <3>1
    <3>3. [s EXCEPT !.seen = n] \in OpType
      BY DEF OpType
    <3>4. PICK q \in OpType : q = [s EXCEPT !.seen = n]
      BY <3>3
    <3>5. /\ q.kind = s.kind /\ q.ctx = s.ctx /\ q.conn = s.conn /\ q.req = s.req
          /\ q.st = s.st /\ q.reader = s.reader /\ q.pre = s.pre
          /\ q.expected = s.expected /\ q.seen = s.seen + 1 /\ q.failed = s.failed
      BY <3>2, <3>4 DEF OpType
    <3>6. NextReply(o, q)
      BY <1>4, <2>1, <2>3, <3>2, <3>4 DEF ReadPreamble
    <3>7. Talk(o, q, f, w)
      BY <1>1, <2>1, <2>2, <3>5, TalkGreets
    <3>8. Proper(q)
      BY <1>2, <2>1, <3>5 DEF Proper
    <3> QED  BY <1>1, <1>2, <2>1, <2>2, <3>5, <3>6, <3>7, <3>8, NextReplyInv
  <2>4. CASE ~(op[o].seen + 1 < PreReplies[op[o].ctx])
    <3>1. "write" \in {"none", "tls", "write", "read"}
      OBVIOUS
    <3>2. [s EXCEPT !.seen = 0, !.pre = FALSE, !.st = "write", !.wtimer = TRUE]
             \in OpType
      BY <3>1 DEF OpType
    <3>3. PICK q \in OpType :
            q = [s EXCEPT !.seen = 0, !.pre = FALSE, !.st = "write", !.wtimer = TRUE]
      BY <3>2
    <3>4. /\ q.kind = s.kind /\ q.ctx = s.ctx /\ q.conn = s.conn /\ q.req = s.req
          /\ q.st = "write" /\ q.reader = s.reader /\ ~q.pre
          /\ q.expected = s.expected /\ q.seen = 0 /\ q.failed = s.failed
      BY <3>3 DEF OpType
    <3>5. NextReply(o, q)
      BY <1>4, <2>1, <2>4, <3>3 DEF ReadPreamble
    <3>6. Talk(o, q, f, w)
      BY <1>1, <1>2, <2>1, <2>2, <2>4, <3>4, TalkGreeted
    <3>7. Proper(q)
      BY <1>2, <2>1, <3>4 DEF Proper
    <3> QED  BY <1>1, <1>2, <2>1, <2>2, <3>4, <3>5, <3>6, <3>7, NextReplyInv
  <2> QED  BY <2>3, <2>4
<1> QED  BY <1>3, <1>4

LEMMA ReadGetInv ==
    ASSUME ClientsInv, NEW o \in Ops, ReadGet(o) \/ ReadLock(o)
    PROVE  ClientsInv'
<1>1. /\ Hears(o) /\ op[o].kind \in Waits /\ op[o].reader = "reply"
      /\ ClearBackoff(o)
  BY DEF ReadGet, ReadLock, Waits
<1>2. op[o] \in OpType /\ Proper(op[o])
  BY <1>1, Heard, Holder
<1>3. ~(op[o].seen + 1 < op[o].expected)
  BY <1>1, <1>2 DEF Proper, OpType, Waits
<1>4. CASE ReadGet(o)
  <2>1. PICK clean \in BOOLEAN :
          clean = (Said(o) \in {"ok", "nil"} /\ AfterReply(o).replies = <<>>)
    <3>1. (Said(o) \in {"ok", "nil"} /\ AfterReply(o).replies = <<>>) \in BOOLEAN
      OBVIOUS
    <3> QED  BY <3>1, Zenon
  <2>2. LastReply(o, clean, FALSE)
    BY <1>4, <2>1, Zenon DEF ReadGet
  <2> QED  BY <1>1, <1>3, <2>2, LastReplyInv
<1>5. CASE ReadLock(o)
  <2>1. PICK clean \in BOOLEAN :
          clean = (Said(o) # "bad" /\ AfterReply(o).replies = <<>>)
    <3>1. (Said(o) # "bad" /\ AfterReply(o).replies = <<>>) \in BOOLEAN
      OBVIOUS
    <3> QED  BY <3>1, Zenon
  <2>2. LastReply(o, clean, FALSE)
    BY <1>5, <2>1, Zenon DEF ReadLock
  <2> QED  BY <1>1, <1>3, <2>2, LastReplyInv
<1> QED  BY <1>4, <1>5

LEMMA ReadDrainInv ==
    ASSUME ClientsInv, NEW o \in Ops, ReadDrain(o)
    PROVE  ClientsInv'
<1>1. /\ Hears(o) /\ op[o].kind \notin Waits /\ op[o].reader = "reply"
      /\ ClearBackoff(o)
  BY DEF ReadDrain
<1>2. /\ Live(o) /\ op[o] \in OpType /\ owed[o] \in Nat /\ Proper(op[o])
      /\ op[o].kind # "none"
  BY <1>1, Heard, Holder DEF Live
<1>3. PICK failed \in BOOLEAN : failed = (op[o].failed \/ Said(o) = "err")
  <2>1. (op[o].failed \/ Said(o) = "err") \in BOOLEAN
    OBVIOUS
  <2> QED  BY <2>1, Zenon
<1>4. IF Said(o) = "bad" THEN LastReply(o, FALSE, failed)
      ELSE IF op[o].seen + 1 < op[o].expected
      THEN NextReply(o, [op[o] EXCEPT !.seen = @ + 1, !.failed = failed])
      ELSE LastReply(o, AfterReply(o).replies = <<>>, failed)
  BY <1>3, Zenon DEF ReadDrain
<1>5. CASE Said(o) = "bad"
  BY <1>1, <1>4, <1>5, LastReplyInv
<1>6. CASE Said(o) # "bad" /\ op[o].seen + 1 < op[o].expected
  <2>1. PICK s \in OpType, w \in Nat : s = op[o] /\ w = owed[o]
    BY <1>2
  <2>2. PICK e \in ConnType, f \in ConnType :
          /\ f = AfterReply(o) /\ Talk(o, s, e, w) /\ e.replies # <<>>
          /\ Said(o) = e.replies[1].what /\ Takes(e, f)
    BY <1>1, <2>1, Heard
  <2>3. PICK n \in Nat : n = s.seen + 1
    <3>1. s.seen + 1 \in Nat
      BY DEF OpType
    <3> QED  BY <3>1
  <2>4. [s EXCEPT !.seen = n, !.failed = failed] \in OpType
    BY DEF OpType
  <2>5. PICK q \in OpType : q = [s EXCEPT !.seen = n, !.failed = failed]
    BY <2>4
  <2>6. /\ q.kind = s.kind /\ q.ctx = s.ctx /\ q.conn = s.conn /\ q.req = s.req
        /\ q.st = s.st /\ q.reader = s.reader /\ q.pre = s.pre
        /\ q.expected = s.expected /\ q.seen = s.seen + 1 /\ q.failed = failed
    BY <2>3, <2>5 DEF OpType
  <2>7. NextReply(o, q)
    BY <1>4, <1>6, <2>1, <2>3, <2>5
  <2>8. q.failed <=> s.failed \/ e.replies[1].what = "err"
    BY <1>3, <2>1, <2>2, <2>6
  <2>9. Talk(o, q, f, w)
    BY <1>1, <1>6, <2>1, <2>2, <2>6, <2>8, TalkDrains DEF Takes
  <2>10. Proper(q)
    BY <1>2, <2>1, <2>6 DEF Proper
  <2> QED  BY <1>1, <1>2, <2>1, <2>2, <2>6, <2>7, <2>9, <2>10, NextReplyInv
<1>7. CASE Said(o) # "bad" /\ ~(op[o].seen + 1 < op[o].expected)
  <2>1. PICK clean \in BOOLEAN : clean = (AfterReply(o).replies = <<>>)
    <3>1. (AfterReply(o).replies = <<>>) \in BOOLEAN
      OBVIOUS
    <3> QED  BY <3>1, Zenon
  <2>2. LastReply(o, clean, failed)
    BY <1>4, <1>7, <2>1, Zenon
  <2> QED  BY <1>1, <1>7, <2>2, LastReplyInv
<1> QED  BY <1>5, <1>6, <1>7

LEMMA TlsDoneInv ==
    ASSUME ClientsInv, NEW o \in Ops, TlsDone(o)
    PROVE  ClientsInv'
<1>1. TypeOK /\ op[o].st = "tls" /\ Live(o)
  BY Active DEF TlsDone, ClientsInv
<1>2. PICK s \in OpType, e \in ConnType, w \in Nat :
        s = op[o] /\ e = conn[op[o].conn] /\ w = owed[o]
  BY <1>1, Holder
<1>3. "write" \in {"none", "tls", "write", "read"}
  OBVIOUS
<1>4. [s EXCEPT !.st = "write", !.wtimer = TRUE] \in OpType
  BY <1>3 DEF OpType
<1>5. PICK q \in OpType : q = [s EXCEPT !.st = "write", !.wtimer = TRUE]
  BY <1>4
<1>6. /\ q.kind = s.kind /\ q.ctx = s.ctx /\ q.conn = s.conn /\ q.req = s.req
      /\ q.st = "write" /\ q.reader = s.reader /\ q.pre = s.pre
      /\ q.expected = s.expected /\ q.seen = s.seen /\ q.failed = s.failed
  BY <1>5 DEF OpType
<1>7. Stays(o, q, e, w)
  <2>1. op' = [op EXCEPT ![o] = q]
    BY <1>1, <1>2, <1>5 DEF TlsDone, TypeOK
  <2>2. conn' = [conn EXCEPT ![op[o].conn] = e] /\ owed' = [owed EXCEPT ![o] = w]
    BY <1>1, <1>2 DEF TlsDone, TypeOK
  <2> QED  BY <1>2, <1>6, <2>1, <2>2 DEF Stays, TlsDone
<1>8. Apart'
  BY <1>1 DEF TlsDone, Apart, Silent, TypeOK
<1>9. Talk(o, s, e, w) /\ Proper(s) /\ e.st = "used" /\ e.ctx = op[o].ctx
  BY <1>1, <1>2, Holder
<1>10. SameCourse(s, q) /\ SameLoad(e, e)
  BY <1>1, <1>2, <1>6 DEF SameCourse, SameLoad
<1>11. Talk(o, q, e, w)
  BY <1>9, <1>10, TalkStays
<1>12. Proper(q)
  BY <1>1, <1>2, <1>6, <1>9 DEF Proper, Live
<1> QED  BY <1>1, <1>7, <1>8, <1>9, <1>11, <1>12, StaysInv

LEMMA FirstBytesInv ==
    ASSUME ClientsInv, NEW o \in Ops, FirstBytes(o)
    PROVE  ClientsInv'
<1>1. TypeOK /\ Live(o)
  BY Heard DEF FirstBytes, ClientsInv
<1>2. PICK s \in OpType, e \in ConnType, w \in Nat :
        s = op[o] /\ e = conn[op[o].conn] /\ w = owed[o]
  BY <1>1, Holder
<1>3. PICK q \in OpType : q = [s EXCEPT !.unconnected = FALSE]
  <2>1. [s EXCEPT !.unconnected = FALSE] \in OpType
    BY DEF OpType
  <2> QED  BY <2>1
<1>4. PICK f \in ConnType : f = [e EXCEPT !.heard = TRUE]
  <2>1. [e EXCEPT !.heard = TRUE] \in ConnType
    BY DEF ConnType
  <2> QED  BY <2>1
<1>5. /\ q.kind = s.kind /\ q.ctx = s.ctx /\ q.conn = s.conn /\ q.req = s.req
      /\ q.st = s.st /\ q.reader = s.reader /\ q.pre = s.pre
      /\ q.expected = s.expected /\ q.seen = s.seen /\ q.failed = s.failed
  BY <1>3 DEF OpType
<1>6. /\ f.cmds = e.cmds /\ f.replies = e.replies /\ f.session = e.session
      /\ f.stream = e.stream /\ f.st = e.st /\ f.ctx = e.ctx
  BY <1>4 DEF ConnType
<1>7. Stays(o, q, f, w)
  <2>1. op' = [op EXCEPT ![o] = q]
    BY <1>1, <1>2, <1>3 DEF FirstBytes, TypeOK
  <2>2. conn' = [conn EXCEPT ![op[o].conn] = f]
    BY <1>1, <1>2, <1>4, Holder DEF FirstBytes, TypeOK
  <2>3. owed' = [owed EXCEPT ![o] = w]
    BY <1>1, <1>2 DEF FirstBytes, TypeOK
  <2> QED  BY <1>2, <1>5, <2>1, <2>2, <2>3 DEF Stays, FirstBytes
<1>8. Apart'
  BY <1>1, BackoffOK DEF FirstBytes, Apart, Silent
<1>9. Talk(o, s, e, w) /\ Proper(s) /\ e.st = "used" /\ e.ctx = op[o].ctx
  BY <1>1, <1>2, Holder
<1>10. SameCourse(s, q) /\ SameLoad(e, f)
  BY <1>5, <1>6 DEF SameCourse, SameLoad
<1>11. Talk(o, q, f, w)
  BY <1>9, <1>10, TalkStays
<1>12. Proper(q)
  BY <1>1, <1>2, <1>5, <1>9 DEF Proper, Live
<1> QED  BY <1>1, <1>6, <1>7, <1>8, <1>9, <1>11, <1>12, StaysInv

(* A connection whose buffer has been sent, or was not. *)
SentOver(o, q, n, e, f) ==
    /\ f.replies = e.replies /\ f.session = e.session
    /\ f.stream = e.stream /\ f.st = e.st /\ f.ctx = e.ctx
    /\ IF e.stream = "open"
       THEN /\ Len(f.cmds) = n
            /\ \A i \in DOMAIN f.cmds : f.cmds[i].for = o /\ f.cmds[i].pre = q.pre
       ELSE f.cmds = e.cmds

LEMMA SentOK ==
    ASSUME NEW o \in Ops, NEW q \in OpType, NEW e \in ConnType, NEW n \in Nat,
           e.stream = "open" => e.cmds = <<>>
    PROVE  \E f \in ConnType :
              /\ f = IF e.stream = "open"
                     THEN [e EXCEPT !.cmds =
                              @ \o [i \in 1..n |-> [for |-> o, pre |-> q.pre]]]
                     ELSE e
              /\ SentOver(o, q, n, e, f)
<1>1. CASE e.stream = "open"
  <2>1. [for |-> o, pre |-> q.pre] \in CmdType
    BY DEF CmdType, OpType
  <2>2. PICK m \in CmdType : m = [for |-> o, pre |-> q.pre]
    BY <2>1
  <2>3. m.for = o /\ m.pre = q.pre
    BY <2>2
  <2>4. e.cmds = <<>> /\ e.cmds \in Seq(CmdType)
    BY <1>1 DEF ConnType
  <2>5. PICK t \in Seq(CmdType) : Repeated(e.cmds, n, m, t)
    BY <2>4, SentOf
  <2>6. [e EXCEPT !.cmds = t] \in ConnType
    BY DEF ConnType
  <2>7. PICK f \in ConnType : f = [e EXCEPT !.cmds = t]
    BY <2>6
  <2>8. /\ f.replies = e.replies /\ f.session = e.session /\ f.cmds = t
        /\ f.stream = e.stream /\ f.st = e.st /\ f.ctx = e.ctx
    BY <2>7 DEF ConnType
  <2>9. f = [e EXCEPT !.cmds =
                @ \o [i \in 1..n |-> [for |-> o, pre |-> q.pre]]]
    BY <2>2, <2>5, <2>7 DEF Repeated
  <2>10. \A i \in DOMAIN f.cmds : f.cmds[i].for = o /\ f.cmds[i].pre = q.pre
    BY <2>3, <2>5, <2>8 DEF Repeated
  <2>11. Len(f.cmds) = n
    BY <2>5, <2>8 DEF Repeated
  <2> QED  BY <1>1, <2>8, <2>9, <2>10, <2>11 DEF SentOver
<1>2. CASE e.stream # "open"
  BY <1>2 DEF SentOver
<1> QED  BY <1>1, <1>2

LEMMA WrittenInv ==
    ASSUME ClientsInv, NEW o \in Ops, Live(o), op[o].st = "write",
           NEW q \in OpType, NEW f \in ConnType, Apart',
           op' = [op EXCEPT ![o] = q],
           conn' = [conn EXCEPT ![op[o].conn] = f],
           UNCHANGED <<pool, req, inflight, owed>>,
           q.kind = op[o].kind, q.ctx = op[o].ctx, q.conn = op[o].conn,
           q.req = op[o].req, q.st = "read", q.pre = op[o].pre,
           q.reader = "preamble" <=> q.pre, q.expected = op[o].expected,
           q.seen = op[o].seen, q.failed = op[o].failed,
           q.ctx \in Memcached => q.reader = "reply",
           NEW e \in ConnType, e = conn[op[o].conn],
           SentOver(o, op[o], Need(op[o]), e, f)
    PROVE  ClientsInv'
<1>1. TypeOK /\ Proper(op[o]) /\ op[o].kind # "none"
  BY Holder DEF ClientsInv, Live
<1>2. PICK s \in OpType, w \in Nat :
        /\ s = op[o] /\ w = owed[o]
        /\ Talk(o, s, e, w) /\ e.st = "used" /\ e.ctx = op[o].ctx
  BY Holder
<1>3. Stays(o, q, f, w)
  <2>1. owed' = [owed EXCEPT ![o] = w]
    BY <1>1, <1>2 DEF TypeOK
  <2> QED  BY <2>1 DEF Stays
<1>4. /\ f.replies = e.replies /\ f.session = e.session
      /\ f.stream = e.stream /\ f.st = e.st /\ f.ctx = e.ctx
      /\ IF e.stream = "open"
         THEN /\ Len(f.cmds) = Need(s)
              /\ \A i \in DOMAIN f.cmds : f.cmds[i].for = o /\ f.cmds[i].pre = s.pre
         ELSE f.cmds = e.cmds
  BY <1>2 DEF SentOver
<1>5. Talk(o, q, f, w)
  BY <1>1, <1>2, <1>4, TalkWrites
<1>6. Proper(q)
  BY <1>1 DEF Proper
<1> QED  BY <1>2, <1>3, <1>4, <1>5, <1>6, StaysInv

LEMMA WritePatch ==
    ASSUME NEW s \in OpType, NEW r \in {"preamble", "reply"}
    PROVE  [s EXCEPT !.st = "read", !.wtimer = FALSE, !.rtimer = TRUE, !.reader = r]
              \in OpType
<1>1. "read" \in {"none", "tls", "write", "read"}
  BY Zenon
<1> QED  BY <1>1 DEF OpType

LEMMA WriteInv ==
    ASSUME ClientsInv, NEW o \in Ops, Write(o)
    PROVE  ClientsInv'
<1>1. TypeOK /\ op[o].st = "write" /\ Live(o) /\ OfRedis(o)
  BY Active DEF Write, ClientsInv
<1>2. PICK s \in OpType, e \in ConnType, w \in Nat :
        /\ s = op[o] /\ e = conn[op[o].conn] /\ w = owed[o]
        /\ Talk(o, s, e, w) /\ e.st = "used" /\ e.ctx = op[o].ctx
  BY <1>1, Holder
<1>3. Need(s) \in Nat /\ e.cmds = <<>>
  BY <1>1, <1>2, Holder, RedisClientAssumption
     DEF Need, OpType, Talk, Waiting
<1>4. PICK n \in Nat : n = Need(s)
  BY <1>3
<1>5. PICK f \in ConnType :
        /\ f = IF e.stream = "open"
               THEN [e EXCEPT !.cmds =
                        @ \o [i \in 1..n |-> [for |-> o, pre |-> s.pre]]]
               ELSE e
        /\ SentOver(o, s, n, e, f)
  BY <1>3, SentOK
<1>6. PICK r \in {"preamble", "reply"} : r = IF s.pre THEN "preamble" ELSE "reply"
  OBVIOUS
<1>7. PICK q \in OpType :
        q = [s EXCEPT !.st = "read", !.wtimer = FALSE, !.rtimer = TRUE, !.reader = r]
  BY WritePatch
<1>8. /\ q.kind = s.kind /\ q.ctx = s.ctx /\ q.conn = s.conn /\ q.req = s.req
      /\ q.st = "read" /\ q.reader = r /\ q.pre = s.pre
      /\ q.expected = s.expected /\ q.seen = s.seen /\ q.failed = s.failed
  BY <1>7 DEF OpType
<1>9. op' = [op EXCEPT ![o] = q]
  BY <1>1, <1>2, <1>6, <1>7 DEF Write, TypeOK
<1>10. conn' = [conn EXCEPT ![op[o].conn] = f]
  <2>1. conn' = IF e.stream = "open"
                THEN [conn EXCEPT ![op[o].conn].cmds =
                         @ \o [i \in 1..n |-> [for |-> o, pre |-> s.pre]]]
                ELSE conn
    BY <1>2, <1>4 DEF Write, Need
  <2>2. op[o].conn \in Conns
    BY <1>1, Holder
  <2>3. CASE e.stream = "open"
    <3>1. f = [e EXCEPT !.cmds =
                  @ \o [i \in 1..n |-> [for |-> o, pre |-> s.pre]]]
      BY <1>5, <2>3
    <3> QED  BY <1>1, <1>2, <2>1, <2>2, <2>3, <3>1 DEF TypeOK
  <2>4. CASE e.stream # "open"
    BY <1>1, <1>2, <1>5, <2>1, <2>4 DEF TypeOK
  <2> QED  BY <2>3, <2>4
<1>11. Apart'
  BY <1>1 DEF Write, Apart, Silent, TypeOK
<1>12. q.reader = "preamble" <=> q.pre
  BY <1>6, <1>8
<1>13. q.ctx \notin Memcached
  BY <1>1, <1>2, <1>8 DEF OfRedis, Redis
<1>14. UNCHANGED <<pool, req, inflight, owed>>
  BY DEF Write
<1>15. SentOver(o, op[o], Need(op[o]), e, f)
  BY <1>2, <1>4, <1>5
<1> QED  BY ZenonT(30), <1>1, <1>2, <1>4, <1>5, <1>8, <1>9, <1>10, <1>11, <1>12, <1>13,
            <1>14, <1>15, WrittenInv

LEMMA McSentOK ==
    ASSUME NEW o \in Ops, NEW q \in OpType, NEW e \in ConnType,
           e.stream = "open" => e.cmds = <<>>, q.pre = FALSE
    PROVE  \E f \in ConnType :
              /\ f = IF e.stream # "open" THEN e
                     ELSE [e EXCEPT !.cmds = Append(@, [for |-> o, pre |-> FALSE])]
              /\ SentOver(o, q, 1, e, f)
<1>1. CASE e.stream = "open"
  <2>1. PICK m \in CmdType : m = [for |-> o, pre |-> FALSE]
    BY DEF CmdType
  <2>2. m.for = o /\ m.pre = q.pre
    BY <2>1
  <2>3. e.cmds = <<>>
    BY <1>1
  <2>4. Append(e.cmds, m) = <<m>>
    BY <2>3
  <2>5. PICK t \in Seq(CmdType) : t = <<m>>
    <3>1. <<m>> \in Seq(CmdType)
      OBVIOUS
    <3> QED  BY <3>1
  <2>6. Len(t) = 1 /\ \A i \in DOMAIN t : t[i] = m
    BY <2>5
  <2>7. t = Append(e.cmds, [for |-> o, pre |-> FALSE])
    BY <2>1, <2>4, <2>5, Zenon
  <2> HIDE <2>3, <2>4, <2>5
  <2>8. [e EXCEPT !.cmds = t] \in ConnType
    BY DEF ConnType
  <2>9. PICK f \in ConnType : f = [e EXCEPT !.cmds = t]
    BY <2>8
  <2>10. /\ f.replies = e.replies /\ f.session = e.session /\ f.cmds = t
         /\ f.stream = e.stream /\ f.st = e.st /\ f.ctx = e.ctx
    BY <2>9 DEF ConnType
  <2>11. f = [e EXCEPT !.cmds = Append(@, [for |-> o, pre |-> FALSE])]
    BY <2>7, <2>9, Zenon
  <2>12. SentOver(o, q, 1, e, f)
    BY <1>1, <2>2, <2>6, <2>10 DEF SentOver
  <2> QED  BY <1>1, <2>11, <2>12
<1>2. CASE e.stream # "open"
  BY <1>2 DEF SentOver
<1> QED  BY <1>1, <1>2

LEMMA McWriteInv ==
    ASSUME ClientsInv, NEW o \in Ops, McWrite(o)
    PROVE  ClientsInv'
<1>1. TypeOK /\ op[o].st = "write" /\ Live(o) /\ OfMemcached(o)
  BY Active DEF McWrite, ClientsInv
<1>2. PICK s \in OpType, e \in ConnType, w \in Nat :
        /\ s = op[o] /\ e = conn[op[o].conn] /\ w = owed[o]
        /\ Talk(o, s, e, w) /\ e.st = "used" /\ e.ctx = op[o].ctx /\ Proper(s)
  BY <1>1, Holder
<1>3. e.cmds = <<>>
  BY <1>1, <1>2 DEF Talk, Waiting
<1>4. /\ s.pre = FALSE /\ s.reader = "reply" /\ Need(s) = 1
      /\ s.ctx \in Memcached
  <2>1. s.ctx \in Memcached /\ s.kind # "none"
    BY <1>1, <1>2 DEF OfMemcached, Live
  <2>2. s.kind \in {"get", "fire"} /\ s.reader = "reply" /\ s.expected = 1
    BY <1>2, <2>1 DEF Proper, Waits
  <2>3. s.pre = FALSE
    BY <1>2, <2>1, RedisClientAssumption DEF Proper, OpType
  <2> QED  BY <2>1, <2>2, <2>3 DEF Need
<1>5. PICK f \in ConnType :
        /\ f = IF e.stream # "open" THEN e
               ELSE [e EXCEPT !.cmds = Append(@, [for |-> o, pre |-> FALSE])]
        /\ SentOver(o, s, 1, e, f)
  BY <1>3, <1>4, McSentOK
<1>6. PICK q \in OpType : q = [s EXCEPT !.st = "read", !.wtimer = FALSE, !.rtimer = TRUE]
  <2>1. "read" \in {"none", "tls", "write", "read"}
    OBVIOUS
  <2>2. [s EXCEPT !.st = "read", !.wtimer = FALSE, !.rtimer = TRUE] \in OpType
    BY <2>1 DEF OpType
  <2> QED  BY <2>2
<1>7. /\ q.kind = s.kind /\ q.ctx = s.ctx /\ q.conn = s.conn /\ q.req = s.req
      /\ q.st = "read" /\ q.reader = s.reader /\ q.pre = s.pre
      /\ q.expected = s.expected /\ q.seen = s.seen /\ q.failed = s.failed
  BY <1>6 DEF OpType
<1>8. op' = [op EXCEPT ![o] = q]
  BY <1>1, <1>2, <1>6 DEF McWrite, TypeOK
<1>9. conn' = [conn EXCEPT ![op[o].conn] = f]
  <2>1. conn' = IF e.stream # "open" THEN conn
                ELSE [conn EXCEPT ![op[o].conn].cmds =
                         Append(@, [for |-> o, pre |-> FALSE])]
    BY <1>2 DEF McWrite
  <2>2. op[o].conn \in Conns
    BY <1>1, Holder
  <2>3. CASE e.stream = "open"
    <3>1. f = [e EXCEPT !.cmds = Append(@, [for |-> o, pre |-> FALSE])]
      BY <1>5, <2>3
    <3> QED  BY <1>1, <1>2, <2>1, <2>2, <2>3, <3>1 DEF TypeOK
  <2>4. CASE e.stream # "open"
    BY <1>1, <1>2, <1>5, <2>1, <2>4 DEF TypeOK
  <2> QED  BY <2>3, <2>4
<1>10. Apart'
  BY <1>1 DEF McWrite, Apart, Silent, TypeOK
<1>11. q.reader = "preamble" <=> q.pre
  BY <1>4, <1>7
<1>12. UNCHANGED <<pool, req, inflight, owed>>
  BY DEF McWrite
<1>13. SentOver(o, op[o], Need(op[o]), e, f)
  BY <1>2, <1>4, <1>5
<1> QED  BY <1>1, <1>2, <1>4, <1>7, <1>8, <1>9, <1>10, <1>11, <1>12, <1>13,
            WrittenInv

LEMMA McReadInv ==
    ASSUME ClientsInv, NEW o \in Ops, McReadDrain(o) \/ McReadGet(o)
    PROVE  ClientsInv'
<1>1. Hears(o) /\ OfMemcached(o) /\ ClearBackoff(o)
  BY DEF McReadDrain, McReadGet
<1>2. CASE McReadDrain(o)
  <2>1. PICK clean \in BOOLEAN :
          clean = (Said(o) = "ok" /\ AfterReply(o).replies = <<>>)
    <3>1. (Said(o) = "ok" /\ AfterReply(o).replies = <<>>) \in BOOLEAN
      OBVIOUS
    <3> QED  BY <3>1, Zenon
  <2>2. McDone(o, AfterReply(o), clean)
    BY <1>2, <2>1, Zenon DEF McReadDrain
  <2>3. Resume(o)
    BY <1>2 DEF McReadDrain, Resume, Waits
  <2> QED  BY <1>1, <2>2, <2>3, McLastInv
<1>3. CASE McReadGet(o)
  <2>1. PICK clean \in BOOLEAN :
          clean = (Said(o) \in {"ok", "nil"} /\ AfterReply(o).replies = <<>>)
    <3>1. (Said(o) \in {"ok", "nil"} /\ AfterReply(o).replies = <<>>) \in BOOLEAN
      OBVIOUS
    <3> QED  BY <3>1, Zenon
  <2>2. McFinish(o, AfterReply(o), clean)
    BY <1>3, <2>1, Zenon DEF McReadGet
  <2>3. McDone(o, AfterReply(o), clean) /\ Resume(o)
    BY <2>2, Zenon DEF McFinish
  <2> QED  BY <1>1, <2>3, McLastInv
<1> QED  BY <1>2, <1>3

(* Timers, broken connections and requests that go away. *)
LEMMA FailInv ==
    ASSUME ClientsInv, NEW o \in Ops, Timeout(o) \/ Broken(o) \/ Detach(o)
    PROVE  ClientsInv'
<1>1. Live(o)
  BY Active DEF Timeout, Broken, Detach, OfRedis, Redis
<1>2. /\ OpDone(o, conn[op[o].conn], FALSE, op[o].failed) /\ Resume(o)
      /\ FailBackoff(o) \/ UNCHANGED backoff
  BY Zenon DEF Timeout, Broken, Detach, OpFail
<1> QED  BY <1>1, <1>2, OpFailInv

LEMMA McFailsInv ==
    ASSUME ClientsInv, NEW o \in Ops, McTimeout(o) \/ McBroken(o) \/ McDetach(o)
    PROVE  ClientsInv'
<1>1. /\ OfMemcached(o) /\ McFinish(o, conn[op[o].conn], FALSE)
      /\ FailBackoff(o) \/ UNCHANGED backoff
  BY Zenon DEF McTimeout, McBroken, McDetach, McFail
<1> QED  BY <1>1, McFailInv

(* The handlers that begin something. *)
LEMMA AskInv ==
    ASSUME ClientsInv, NEW o \in Ops, NEW r \in Requests, NEW k \in Waits,
           NEW x \in Redis, Ask(o, k, r, x)
    PROVE  ClientsInv'
<1>1. /\ x \in Contexts /\ x \notin Memcached /\ k \in Kinds /\ r # None
      /\ k # "index" /\ 0 \in Nat /\ 1 \in Nat
  BY RedisClientAssumption DEF Redis, Waits, Kinds
<1>2. CASE Launched(o, New(k, x, r, 1)) /\ req' = [req EXCEPT ![r] = "parked"]
  <2>1. Promised(k, r)
    BY <1>1, <1>2 DEF Ask, Promised
  <2>2. Request(k, x, r, 1) /\ k # "many"
    BY <1>1 DEF Request, Waits
  <2> QED  BY <1>1, <1>2, <2>1, <2>2, LaunchedInv DEF Ask
<1>3. CASE NotLaunched(x) /\ UNCHANGED req
  BY <1>1, <1>3, NotLaunchedInv DEF Ask
<1> QED  BY <1>2, <1>3 DEF Ask

LEMMA FireInv ==
    ASSUME ClientsInv, NEW o \in Ops, NEW x \in Redis, Fire(o, x)
    PROVE  ClientsInv'
<1>1. /\ x \in Contexts /\ "fire" \in Kinds /\ 0 \in Nat /\ 1 \in Nat
  BY DEF Redis, Kinds
<1>2. CASE Launched(o, New("fire", x, None, 1))
  <2>1. Promised("fire", None) /\ Request("fire", x, None, 1)
    BY DEF Fire, Promised, Request, Waits
  <2> QED  BY <1>1, <1>2, <2>1, LaunchedInv DEF Fire
<1>3. CASE NotLaunched(x)
  BY <1>1, <1>3, NotLaunchedInv DEF Fire
<1> QED  BY <1>2, <1>3 DEF Fire

LEMMA TagAddInv ==
    ASSUME ClientsInv, NEW o \in Ops, NEW x \in Redis, TagAdd(o, x)
    PROVE  ClientsInv'
<1>1. /\ x \in Contexts /\ x \notin Memcached /\ "index" \in Kinds
      /\ 0 \in Nat /\ 3 \in Nat /\ IndexCmds = 3
  BY DEF Redis, Kinds, IndexCmds
<1>2. CASE Launched(o, New("index", x, None, IndexCmds)) /\ inflight' = inflight + 1
  <2>1. Promised("index", None) /\ Request("index", x, None, 3)
    BY <1>1, <1>2 DEF TagAdd, Promised, Request, Waits
  <2> QED  BY <1>1, <1>2, <2>1, LaunchedInv DEF TagAdd
<1>3. CASE NotLaunched(x) /\ UNCHANGED inflight
  BY <1>1, <1>3, NotLaunchedInv DEF TagAdd
<1> QED  BY <1>2, <1>3 DEF TagAdd

LEMMA CmdManyInv ==
    ASSUME ClientsInv, NEW o \in Ops, NEW x \in Redis, NEW n \in Chunks,
           CmdMany(o, x, n)
    PROVE  ClientsInv'
<1>1. /\ x \in Contexts /\ x \notin Memcached /\ "many" \in Kinds
      /\ 0 \in Nat /\ n \in Nat /\ n >= 1
  BY RedisClientAssumption DEF Redis, Kinds
<1>2. CASE Fresh(o, n) /\ Launched(o, New("many", x, None, n))
  <2>1. Promised("many", None) /\ Request("many", x, None, n)
    BY <1>1 DEF CmdMany, Promised, Request, Waits
  <2> QED  BY <1>1, <1>2, <2>1, LaunchedInv
<1>3. CASE Fresh(o, 0) /\ NotLaunched(x)
  BY <1>1, <1>3, NotLaunchedInv DEF CmdMany
<1> QED  BY <1>2, <1>3 DEF CmdMany

LEMMA McGetInv ==
    ASSUME ClientsInv, NEW o \in Ops, NEW r \in Requests, NEW x \in Memcached,
           McGet(o, r, x)
    PROVE  ClientsInv'
<1>1. x \in Contexts /\ "get" \in Kinds /\ r # None /\ 0 \in Nat /\ 1 \in Nat
  BY RedisClientAssumption DEF Kinds
<1>2. CASE McConnect(o, New("get", x, r, 1)) /\ req' = [req EXCEPT ![r] = "parked"]
  <2>1. Launched(o, New("get", x, r, 1))
    BY <1>2 DEF McConnect, Launched
  <2>2. Promised("get", r) /\ Request("get", x, r, 1)
    BY <1>1, <1>2 DEF McGet, Promised, Request, Waits
  <2> QED  BY <1>1, <1>2, <2>1, <2>2, LaunchedInv DEF McGet
<1>3. CASE NotLaunched(x) /\ UNCHANGED req
  BY <1>1, <1>3, NotLaunchedInv DEF McGet
<1> QED  BY <1>2, <1>3 DEF McGet

LEMMA McFireInv ==
    ASSUME ClientsInv, NEW o \in Ops, NEW x \in Memcached, McFire(o, x)
    PROVE  ClientsInv'
<1>1. x \in Contexts /\ "fire" \in Kinds /\ 0 \in Nat /\ 1 \in Nat
  BY RedisClientAssumption DEF Kinds
<1>2. CASE McConnect(o, New("fire", x, None, 1))
  <2>1. Launched(o, New("fire", x, None, 1))
    BY <1>2 DEF McConnect, Launched
  <2>2. Promised("fire", None) /\ Request("fire", x, None, 1)
    BY DEF McFire, Promised, Request, Waits
  <2> QED  BY <1>1, <2>1, <2>2, LaunchedInv DEF McFire
<1>3. CASE NotLaunched(x)
  BY <1>1, <1>3, NotLaunchedInv DEF McFire
<1> QED  BY <1>2, <1>3 DEF McFire

-----------------------------------------------------------------------------
(* The server, the peer of an idle connection and the clock. *)

(* Who holds a connection that is used. *)
LEMMA HolderOf ==
    ASSUME ClientsInv, NEW c \in Conns, conn[c].st = "used"
    PROVE  \E o \in Ops : Live(o) /\ op[o].conn = c
<1>1. PICK o \in Ops : op[o].conn = c
  BY DEF ClientsInv, ConnAt
<1>2. Proper(op[o]) /\ None \notin Conns
  BY RedisClientAssumption DEF ClientsInv
<1>3. op[o].kind # "none"
  BY <1>1, <1>2 DEF Proper, NoOp
<1> QED  BY <1>1, <1>3 DEF Live

(* The operation stays as it is and its connection changes. *)
LEMMA ServesInv ==
    ASSUME ClientsInv, NEW o \in Ops, Live(o), NEW f \in ConnType, NEW v \in Nat,
           conn' = [conn EXCEPT ![op[o].conn] = f],
           owed' = [owed EXCEPT ![o] = v],
           UNCHANGED <<op, pool, backoff, req, inflight>>, verdict' = "none",
           f.st = "used", f.ctx = op[o].ctx, Talk(o, op[o], f, v)
    PROVE  ClientsInv'
<1>1. TypeOK /\ op[o] \in OpType /\ Proper(op[o])
  BY Holder DEF ClientsInv
<1>2. PICK q \in OpType : q = op[o]
  BY <1>1
<1>3. Stays(o, q, f, v)
  BY <1>1, <1>2 DEF Stays, TypeOK
<1>4. Apart'
  BY <1>1 DEF Apart, TypeOK
<1> QED  BY <1>1, <1>2, <1>3, <1>4, StaysInv

LEMMA CloseInv ==
    ASSUME ClientsInv, NEW c \in Conns, Close(c)
    PROVE  ClientsInv'
<1>1. TypeOK /\ conn[c].st # "free" /\ conn[c].stream = "open" /\ verdict' = "none"
  BY DEF ClientsInv, Close, Silent
<1>2. PICK e \in ConnType : e = conn[c]
  BY <1>1 DEF TypeOK
<1>3. PICK last \in IF e.heard \/ e.replies # <<>> THEN {<<>>}
                    ELSE {<<>>, <<[for |-> None, what |-> "err"]>>} :
        conn' = [conn EXCEPT ![c].stream = "ending", ![c].cmds = <<>>,
                             ![c].replies = @ \o last]
  BY <1>2 DEF Close
<1>4. PICK s \in Seq(ReplyType) :
        /\ s = e.replies \o last
        /\ \/ s = e.replies
           \/ /\ ~e.heard /\ e.replies = <<>>
              /\ s = <<[for |-> None, what |-> "err"]>>
  <2>1. e.replies \in Seq(ReplyType)
    BY DEF ConnType
  <2>2. CASE last = <<>>
    BY <2>1, <2>2, ConcatEmptySeq
  <2>3. CASE last # <<>>
    <3>1. ~e.heard /\ e.replies = <<>> /\ last = <<[for |-> None, what |-> "err"]>>
      BY <1>3, <2>3
    <3>2. [for |-> None, what |-> "err"] \in ReplyType
      BY DEF ReplyType
    <3>3. last \in Seq(ReplyType)
      BY <3>1, <3>2
    <3>4. e.replies \o last = last
      BY <3>1, <3>3, ConcatEmptySeq
    <3> QED  BY <3>1, <3>3, <3>4
  <2> QED  BY <2>2, <2>3
<1>5. PICK f \in ConnType : f = [e EXCEPT !.stream = "ending", !.cmds = <<>>,
                                          !.replies = s]
  <2>1. <<>> \in Seq(CmdType) /\ "ending" \in {"open", "ending", "ended"}
    OBVIOUS
  <2>2. [e EXCEPT !.stream = "ending", !.cmds = <<>>, !.replies = s] \in ConnType
    BY <2>1 DEF ConnType
  <2> QED  BY <2>2
<1>6. /\ f.st = e.st /\ f.ctx = e.ctx /\ f.stream = "ending" /\ f.cmds = <<>>
      /\ f.replies = s /\ f.heard = e.heard /\ f.session = e.session
  BY <1>5 DEF ConnType
<1>7. conn' = [conn EXCEPT ![c] = f]
  BY <1>1, <1>2, <1>3, <1>4, <1>5 DEF TypeOK
<1>8. UNCHANGED <<op, pool, backoff, req, inflight, owed>>
  BY DEF Close
<1>9. CASE e.st = "used"
  <2>1. PICK o \in Ops : Live(o) /\ op[o].conn = c
    BY <1>2, <1>9, HolderOf
  <2>2. PICK q \in OpType, w \in Nat :
          /\ q = op[o] /\ w = owed[o]
          /\ Talk(o, q, e, w) /\ e.ctx = q.ctx
    BY <1>2, <2>1, Holder
  <2>3. Talk(o, q, f, w)
    BY <1>1, <1>2, <1>4, <1>6, <2>2, TalkCloses
  <2>4. owed' = [owed EXCEPT ![o] = w]
    <3>1. owed \in [Ops -> Nat] /\ owed' = owed /\ w = owed[o]
      BY <1>1, <1>8, <2>2 DEF TypeOK
    <3> QED  BY <3>1
  <2>5. /\ conn' = [conn EXCEPT ![op[o].conn] = f] /\ f.st = "used"
        /\ f.ctx = op[o].ctx /\ Talk(o, op[o], f, w)
    BY <1>6, <1>7, <1>9, <2>1, <2>2, <2>3
  <2>6. UNCHANGED <<op, pool, backoff, req, inflight>> /\ verdict' = "none"
    BY <1>1, <1>8
  <2> QED  BY <2>1, <2>4, <2>5, <2>6, ServesInv
<1>10. CASE e.st = "pooled"
  <2>1. Rested(e)
    BY <1>2, <1>10 DEF ClientsInv, ConnAt
  <2>2. Rested(f)
    BY <1>4, <1>6, <2>1 DEF Rested
  <2>3. Rests(c, f) /\ Apart'
    BY <1>1, <1>7, <1>8 DEF Rests, Apart, TypeOK
  <2> QED  BY <1>2, <1>6, <1>10, <2>2, <2>3, RestsInv
<1> QED  BY <1>1, <1>2, <1>9, <1>10 DEF ConnType

LEMMA DeliverInv ==
    ASSUME ClientsInv, NEW c \in Conns, Deliver(c)
    PROVE  ClientsInv'
<1>1. /\ TypeOK /\ conn[c].stream = "ending" /\ verdict' = "none"
      /\ UNCHANGED <<op, pool, backoff, req, inflight, owed>>
  BY DEF ClientsInv, Deliver, Silent
<1>2. PICK e \in ConnType : e = conn[c]
  BY <1>1 DEF TypeOK
<1>3. PICK f \in ConnType : f = [e EXCEPT !.stream = "ended"]
  <2>1. [e EXCEPT !.stream = "ended"] \in ConnType
    BY DEF ConnType
  <2> QED  BY <2>1
<1>4. /\ f.st = e.st /\ f.ctx = e.ctx /\ f.stream = "ended" /\ f.cmds = e.cmds
      /\ f.replies = e.replies /\ f.heard = e.heard /\ f.session = e.session
  BY <1>3 DEF ConnType
<1>5. conn' = [conn EXCEPT ![c] = f]
  BY <1>1, <1>2, <1>3 DEF Deliver, TypeOK
<1>6. e.st # "free"
  BY <1>1, <1>2 DEF ClientsInv, ConnAt, NoConn
<1>7. CASE e.st = "used"
  <2>1. PICK o \in Ops : Live(o) /\ op[o].conn = c
    BY <1>2, <1>7, HolderOf
  <2>2. PICK q \in OpType, w \in Nat :
          /\ q = op[o] /\ w = owed[o]
          /\ Talk(o, q, e, w) /\ e.ctx = q.ctx
    BY <1>2, <2>1, Holder
  <2>3. SameCourse(q, q) /\ SameLoad(e, f)
    BY <1>1, <1>2, <1>4 DEF SameCourse, SameLoad
  <2>4. Talk(o, q, f, w)
    BY <2>2, <2>3, TalkStays
  <2>5. owed' = [owed EXCEPT ![o] = w]
    <3>1. owed \in [Ops -> Nat] /\ owed' = owed /\ w = owed[o]
      BY <1>1, <2>2 DEF TypeOK
    <3> QED  BY <3>1
  <2>6. /\ conn' = [conn EXCEPT ![op[o].conn] = f] /\ f.st = "used"
        /\ f.ctx = op[o].ctx /\ Talk(o, op[o], f, w)
    BY <1>4, <1>5, <1>7, <2>1, <2>2, <2>4
  <2>7. UNCHANGED <<op, pool, backoff, req, inflight>> /\ verdict' = "none"
    BY <1>1
  <2> QED  BY <2>1, <2>5, <2>6, <2>7, ServesInv
<1>8. CASE e.st = "pooled"
  <2>1. Rested(e)
    BY <1>2, <1>8 DEF ClientsInv, ConnAt
  <2>2. Rested(f)
    BY <1>1, <1>2, <1>4, <2>1 DEF Rested
  <2>3. Rests(c, f) /\ Apart'
    BY <1>1, <1>5 DEF Rests, Apart, TypeOK
  <2> QED  BY <1>2, <1>4, <1>8, <2>2, <2>3, RestsInv
<1> QED  BY <1>6, <1>7, <1>8 DEF ConnType

LEMMA BackoffEndsInv ==
    ASSUME ClientsInv, NEW s \in Servers, BackoffEnds(s)
    PROVE  ClientsInv'
<1>1. /\ UNCHANGED <<op, conn, pool, req, inflight, owed>> /\ verdict' = "none"
      /\ backoff' = [backoff EXCEPT ![s] = FALSE]
  BY DEF BackoffEnds, Silent
<1>2. TypeOK'
  BY <1>1 DEF ClientsInv, TypeOK
<1>3. \A o \in Ops : (Proper(op[o]) /\ Held(o))'
  BY <1>1 DEF ClientsInv, Held, Live
<1>4. Alone' /\ \A c \in Conns : ConnAt(c)'
  BY <1>1 DEF ClientsInv, Alone, ConnAt
<1>5. (\A x \in Contexts : PoolAt(x)') /\ \A r \in Requests : ParkedAt(r)'
  BY <1>1 DEF ClientsInv, PoolAt, ParkedAt
<1>6. Indexing' = Indexing /\ inflight' = inflight
  BY <1>1 DEF Indexing
<1> QED  BY <1>2, <1>3, <1>4, <1>5, <1>6 DEF ClientsInv

LEMMA ExecutedOK ==
    ASSUME NEW e \in ConnType, NEW m \in ReplyType,
           NEW z \in Contexts \cup {None, "refused"},
           e.cmds # <<>>, e.stream = "open"
    PROVE  \E f \in ConnType :
              /\ f = [e EXCEPT !.cmds = Tail(e.cmds), !.session = z,
                               !.replies = Append(@, m)]
              /\ Answers(e, f, m) /\ f.session = z
              /\ f.st = e.st /\ f.ctx = e.ctx
<1>1. PICK s \in Seq(CmdType) : s = Tail(e.cmds)
  BY TailOf DEF ConnType
<1>2. PICK t \in Seq(ReplyType) : t = Append(e.replies, m)
  <2>1. e.replies \in Seq(ReplyType)
    BY DEF ConnType
  <2>2. Append(e.replies, m) \in Seq(ReplyType)
    BY <2>1, AppendProperties
  <2> QED  BY <2>2
<1>3. PICK f \in ConnType : f = [e EXCEPT !.cmds = s, !.session = z, !.replies = t]
  <2>1. [e EXCEPT !.cmds = s, !.session = z, !.replies = t] \in ConnType
    BY DEF ConnType
  <2> QED  BY <2>1
<1>4. /\ f.cmds = s /\ f.session = z /\ f.replies = t /\ f.stream = e.stream
      /\ f.st = e.st /\ f.ctx = e.ctx
  BY <1>3 DEF ConnType
<1>5. Answers(e, f, m)
  BY <1>1, <1>2, <1>4 DEF Answers
<1> QED  BY <1>1, <1>2, <1>3, <1>4, <1>5

LEMMA ExecuteInv ==
    ASSUME ClientsInv, NEW c \in Conns, NEW what \in {"ok", "nil", "err", "bad"},
           Execute(c, what)
    PROVE  ClientsInv'
<1>1. /\ TypeOK /\ verdict' = "none"
      /\ UNCHANGED <<op, pool, backoff, req, inflight>>
      /\ conn[c].st = "used" /\ conn[c].cmds # <<>> /\ conn[c].stream = "open"
  BY DEF ClientsInv, Execute, Silent
<1>2. PICK o \in Ops : Live(o) /\ op[o].conn = c
  BY <1>1, HolderOf
<1>3. PICK e \in ConnType, q \in OpType, w \in Nat :
        /\ e = conn[c] /\ q = op[o] /\ w = owed[o]
        /\ Talk(o, q, e, w) /\ Proper(q) /\ e.st = "used" /\ e.ctx = q.ctx
        /\ q.kind # "none" /\ q.ctx \in Contexts
  BY <1>2, Holder DEF Live
<1>4. PICK cmd \in CmdType :
        cmd = Head(conn[c].cmds) /\ cmd.for = o /\ cmd.pre = q.pre
  <2>1. e.cmds \in Seq(CmdType) /\ e.cmds # <<>>
    BY <1>1, <1>3 DEF ConnType
  <2>2. Head(e.cmds) = e.cmds[1] /\ Head(e.cmds) \in CmdType /\ 1 \in DOMAIN e.cmds
    BY <2>1, TailOf
  <2>3. e.cmds[1].for = o /\ e.cmds[1].pre = q.pre
    BY <1>3, <2>2 DEF Talk, Lines
  <2> QED  BY <1>3, <2>2, <2>3
<1>5. PICK left : left = Tail(e.cmds)
  OBVIOUS
<1>6. PICK z \in Contexts \cup {None, "refused"} :
        z = IF ~q.pre THEN e.session
            ELSE IF what # "ok" \/ e.session = "refused" THEN "refused"
            ELSE IF left = <<>> THEN e.ctx ELSE e.session
  <2>1. e.session \in Contexts \cup {None, "refused"} /\ e.ctx \in Contexts
    BY <1>3 DEF ConnType
  <2> QED  BY <2>1
<1>7. what \in IF q.pre THEN {"ok", "err"} ELSE Replies[q.kind]
  BY <1>3, <1>4, Zenon DEF Execute
<1>8. PICK m \in ReplyType : m = [for |-> o, what |-> what]
  <2>1. [for |-> o, what |-> what] \in ReplyType
    BY DEF ReplyType
  <2> QED  BY <2>1
<1>9. m.for = o /\ m.what = what
  BY <1>8
<1>10. PICK f \in ConnType :
         /\ f = [e EXCEPT !.cmds = Tail(e.cmds), !.session = z,
                          !.replies = Append(@, m)]
         /\ Answers(e, f, m) /\ f.session = z
         /\ f.st = e.st /\ f.ctx = e.ctx
  <2>1. e.cmds # <<>> /\ e.stream = "open"
    BY <1>1, <1>3
  <2> QED  BY <2>1, ExecutedOK, Zenon
<1>11. conn' = [conn EXCEPT ![c] = f]
  <2>1. conn' = [conn EXCEPT ![c].cmds = left, ![c].session = z,
                             ![c].replies = Append(@, m)]
    BY <1>3, <1>4, <1>5, <1>6, <1>8, Zenon DEF Execute
  <2>2. conn \in [Conns -> ConnType] /\ e = conn[c]
    BY <1>1, <1>3 DEF TypeOK
  <2> QED  BY <1>5, <1>10, <2>1, <2>2
<1>12. PICK v \in Nat : v = IF what = "ok" /\ ~q.pre /\ q.kind = "many"
                            THEN w - 1 ELSE w
  <2>1. Len(e.cmds) \in Nat /\ Len(e.cmds) > 0
    BY <1>1, <1>3, TailOf DEF ConnType
  <2>2. q.kind = "many" /\ ~q.pre => w >= Len(e.cmds)
    BY <1>3 DEF Talk, Owing
  <2>3. (IF what = "ok" /\ ~q.pre /\ q.kind = "many" THEN w - 1 ELSE w) \in Nat
    BY <2>1, <2>2
  <2> QED  BY <2>3
<1>13. owed' = [owed EXCEPT ![o] = v]
  <2>1. owed' = IF what = "ok" /\ ~q.pre /\ q.kind = "many"
                THEN [owed EXCEPT ![o] = @ - 1] ELSE owed
    BY <1>3, <1>4, Zenon DEF Execute
  <2>2. owed \in [Ops -> Nat] /\ w = owed[o]
    BY <1>1, <1>3 DEF TypeOK
  <2> QED  BY <1>12, <2>1, <2>2
<1>14. f.session = IF ~q.pre THEN e.session
                   ELSE IF what # "ok" \/ e.session = "refused" THEN "refused"
                   ELSE IF f.cmds = <<>> THEN e.ctx ELSE e.session
  <2>1. f.cmds = left
    BY <1>5, <1>10 DEF Answers
  <2> QED  BY <1>6, <1>10, <2>1
<1>15. q.kind = "many" => what # "nil"
  <2>1. q.kind = "many" /\ ~q.pre => what \in {"ok", "err", "bad"}
    BY <1>7 DEF Replies
  <2> QED  BY <1>7, <2>1
<1>16. Talk(o, q, f, v)
  <2>1. q.pre => what \in {"ok", "err"}
    BY <1>7
  <2>2. Answers(e, f, m)
    BY <1>10
  <2> QED  BY <1>3, <1>9, <1>12, <1>14, <1>15, <2>1, <2>2, TalkExecutes
<1> QED  BY <1>1, <1>2, <1>3, <1>10, <1>11, <1>13, <1>16, ServesInv

-----------------------------------------------------------------------------
(* The specification. *)

LEMMA StutterInv ==
    ASSUME ClientsInv, UNCHANGED vars
    PROVE  ClientsInv'
<1>1. UNCHANGED <<op, conn, pool, backoff, req, inflight, verdict, owed>>
  BY DEF vars
<1>2. TypeOK'
  BY <1>1 DEF ClientsInv, TypeOK
<1>3. \A o \in Ops : (Proper(op[o]) /\ Held(o))'
  BY <1>1 DEF ClientsInv, Held, Live
<1>4. Alone' /\ \A c \in Conns : ConnAt(c)'
  BY <1>1 DEF ClientsInv, Alone, ConnAt
<1>5. (\A x \in Contexts : PoolAt(x)') /\ \A r \in Requests : ParkedAt(r)'
  BY <1>1 DEF ClientsInv, PoolAt, ParkedAt
<1>6. Indexing' = Indexing /\ inflight' = inflight
  BY <1>1 DEF Indexing
<1> QED  BY <1>2, <1>3, <1>4, <1>5, <1>6 DEF ClientsInv

LEMMA InitInv == Init => ClientsInv
<1> SUFFICES ASSUME Init PROVE ClientsInv
  OBVIOUS
<1>1. /\ \A o \in Ops : op[o] = NoOp /\ owed[o] = 0
      /\ \A c \in Conns : conn[c] = NoConn
      /\ \A x \in Contexts : pool[x] = <<>>
      /\ \A r \in Requests : req[r] = "run"
      /\ inflight = 0
  BY DEF Init
<1>2. TypeOK
  <2>1. op \in [Ops -> OpType] /\ conn \in [Conns -> ConnType]
    BY NoOpOK DEF Init
  <2>2. <<>> \in Seq(Conns) /\ 0 \in Nat
    OBVIOUS
  <2>3. pool \in [Contexts -> Seq(Conns)] /\ owed \in [Ops -> Nat]
    BY <2>2 DEF Init
  <2> QED  BY <2>1, <2>3 DEF TypeOK, Init
<1>3. NoOp.kind = "none" /\ NoOp.conn = None /\ NoOp.req = None
  BY DEF NoOp
<1>4. \A o \in Ops : Proper(op[o]) /\ Held(o)
  BY <1>1, <1>3 DEF Proper, Held, Live
<1>5. Alone
  BY <1>1, <1>3 DEF Alone
<1>6. \A c \in Conns : ConnAt(c)
  <2>1. NoConn.st = "free"
    BY DEF NoConn
  <2> QED  BY <1>1, <2>1 DEF ConnAt
<1>7. \A x \in Contexts : PoolAt(x)
  <2>1. KeepAlive \in Nat
    BY RedisClientAssumption
  <2> QED  BY <1>1, <2>1, EmptyOf DEF PoolAt
<1>8. \A r \in Requests : ParkedAt(r)
  BY <1>1, <1>3, RedisClientAssumption DEF ParkedAt
<1>9. Indexing = {}
  BY <1>1, <1>3 DEF Indexing
<1> QED  BY <1>1, <1>2, <1>4, <1>5, <1>6, <1>7, <1>8, <1>9, FS_EmptySet DEF ClientsInv

LEMMA EventInv ==
    ASSUME ClientsInv, NEW o \in Ops, Event(o)
    PROVE  ClientsInv'
  BY FirstBytesInv, ReadPreambleInv, ReadGetInv, ReadDrainInv, TlsDoneInv,
     WriteInv, FailInv, McWriteInv, McReadInv, McFailsInv DEF Event

LEMMA NextInv ==
    ASSUME ClientsInv, Next
    PROVE  ClientsInv'
<1>1. CASE \E o \in Ops : Event(o)
  BY <1>1, EventInv
<1>2. CASE \E o \in Ops, x \in Redis :
              \/ \E r \in Requests, k \in Waits : Ask(o, k, r, x)
              \/ Fire(o, x) \/ TagAdd(o, x)
              \/ \E n \in Chunks : CmdMany(o, x, n)
  BY <1>2, AskInv, FireInv, TagAddInv, CmdManyInv
<1>3. CASE \E o \in Ops, x \in Memcached :
              (\E r \in Requests : McGet(o, r, x)) \/ McFire(o, x)
  BY <1>3, McGetInv, McFireInv
<1>4. CASE \E c \in Conns :
              \/ DropIdle(c) \/ Close(c) \/ Deliver(c)
              \/ \E what \in {"ok", "nil", "err", "bad"} : Execute(c, what)
  BY <1>4, DropsInv, CloseInv, DeliverInv, ExecuteInv
<1>5. CASE \E s \in Servers : BackoffEnds(s)
  BY <1>5, BackoffEndsInv
<1> QED  BY <1>1, <1>2, <1>3, <1>4, <1>5 DEF Next

(* In every state of the clients, what each operation, connection, bucket   *)
(* and request knows of the others agrees.                                  *)
LEMMA SpecInv == Spec => []ClientsInv
<1>1. ClientsInv /\ [Next]_vars => ClientsInv'
  BY NextInv, StutterInv
<1> QED  BY InitInv, <1>1, PTL DEF Spec

(* The types of the variables: inflight never goes below zero, and no       *)
(* command is counted as executed twice.                                    *)
THEOREM ClientTypes == Spec => []TypeOK
<1>1. ClientsInv => TypeOK
  BY DEF ClientsInv
<1> QED  BY SpecInv, <1>1, PTL

(* Every operation reads its own replies, over a connection whose           *)
(* credentials were accepted (read_drain(), ka_save(), launch()).           *)
THEOREM EveryAnswerIsOwn == Spec => []OwnReplies
<1>1. ASSUME ClientsInv, NEW o \in Ops, op[o].st = "read"
      PROVE  LET c == conn[op[o].conn] IN
             /\ \A m \in ToSet(c.cmds) : m.for = o
             /\ \A m \in ToSet(c.replies) : m.for \in {o, None}
             /\ ~op[o].pre /\ c.stream = "open" => c.session = Session(op[o].ctx)
  <2>1. Live(o)
    BY <1>1, Active
  <2>2. PICK e \in ConnType :
          e = conn[op[o].conn] /\ Talk(o, op[o], e, owed[o])
    BY <1>1, <2>1, Holder
  <2>3. \A i \in DOMAIN e.cmds : e.cmds[i].for = o
    BY <2>2 DEF Talk, Lines
  <2>4. \A m \in ToSet(e.cmds) : m.for = o
    BY <2>3 DEF ToSet
  <2>5. \A i \in DOMAIN e.replies : e.replies[i].for \in {o, None}
    <3>1. CASE OwnReplied(o, e)
      BY <3>1 DEF OwnReplied
    <3>2. CASE Stray(e)
      <4>1. DOMAIN e.replies = 1..1
        BY <3>2, LenProperties DEF Stray, ConnType
      <4> QED  BY <3>2, <4>1 DEF Stray
    <3> QED  BY <2>2, <3>1, <3>2 DEF Talk, Lines
  <2>6. \A m \in ToSet(e.replies) : m.for \in {o, None}
    BY <2>5 DEF ToSet
  <2>7. ~op[o].pre /\ e.stream = "open" => e.session = Session(op[o].ctx)
    BY <2>2 DEF Talk, Welcome
  <2> QED  BY <2>2, <2>4, <2>6, <2>7
<1>2. ClientsInv => \A c \in Conns : conn[c].st = "pooled" => conn[c].cmds = <<>>
  BY DEF ClientsInv, ConnAt, Rested
<1>3. ClientsInv => OwnReplies
  BY <1>1, <1>2 DEF OwnReplies
<1> QED  BY SpecInv, <1>3, PTL

(* One operation, or the pool of its own bucket and that once, has a        *)
(* connection; no bucket outgrows redis_keepalive.                          *)
THEOREM EveryConnHasOnePlace == Spec => []ConnOwned
<1>1. ASSUME ClientsInv, NEW c \in Conns
      PROVE  conn[c].st = "used" <=> Cardinality({o \in Ops : op[o].conn = c}) = 1
  <2>1. CASE conn[c].st = "used"
    <3>1. PICK o \in Ops : Live(o) /\ op[o].conn = c
      BY <1>1, <2>1, HolderOf
    <3>2. {p \in Ops : op[p].conn = c} = {o}
      BY <1>1, <3>1, Holder
    <3> QED  BY <2>1, <3>2, FS_Singleton
  <2>2. CASE conn[c].st # "used"
    <3>1. \A p \in Ops : op[p].conn # c
      BY <1>1, <2>2, PooledAlone
    <3>2. {p \in Ops : op[p].conn = c} = {}
      BY <3>1, Zenon
    <3>3. Cardinality({p \in Ops : op[p].conn = c}) = 0
      BY <3>2, FS_EmptySet
    <3> QED  BY <2>2, <3>3
  <2> QED  BY <2>1, <2>2
<1>2. ASSUME ClientsInv, NEW x \in Contexts
      PROVE  /\ Len(pool[x]) <= KeepAlive /\ IsInjective(pool[x])
             /\ \A i \in DOMAIN pool[x] : conn[pool[x][i]].st = "pooled"
                                           /\ conn[pool[x][i]].ctx = x
  <2>1. PoolAt(x)
    BY <1>2 DEF ClientsInv
  <2> QED  BY <2>1 DEF PoolAt, IsInjective
<1>3. ASSUME ClientsInv, NEW c \in Conns, conn[c].st = "pooled"
      PROVE  \E x \in Contexts : c \in ToSet(pool[x])
  <2>1. conn[c].ctx \in Contexts /\ \E i \in DOMAIN pool[conn[c].ctx] :
                                      pool[conn[c].ctx][i] = c
    BY <1>3 DEF ClientsInv, ConnAt
  <2> QED  BY <2>1 DEF ToSet
<1>4. ClientsInv => ConnOwned
  BY <1>1, <1>2, <1>3 DEF ConnOwned
<1> QED  BY SpecInv, <1>4, PTL

(* A parked request is known to one operation, any other to none, and       *)
(* varidx_inflight counts what is in flight.                                *)
THEOREM EveryParkedIsPaired == Spec => []ParkedPaired
<1>1. ASSUME ClientsInv, NEW r \in Requests
      PROVE  Cardinality({o \in Ops : op[o].req = r}) =
                 IF req[r] = "parked" THEN 1 ELSE 0
  <2>1. ParkedAt(r) /\ Alone /\ r # None
    BY <1>1, RedisClientAssumption DEF ClientsInv
  <2>2. CASE req[r] = "parked"
    <3>1. PICK o \in Ops : op[o].req = r
      BY <2>1, <2>2 DEF ParkedAt
    <3>2. {p \in Ops : op[p].req = r} = {o}
      BY <2>1, <3>1 DEF Alone
    <3> QED  BY <2>2, <3>2, FS_Singleton
  <2>3. CASE req[r] # "parked"
    <3>1. {p \in Ops : op[p].req = r} = {}
      BY <2>1, <2>3 DEF ParkedAt
    <3> QED  BY <2>3, <3>1, FS_EmptySet
  <2> QED  BY <2>2, <2>3
<1>2. ClientsInv => ParkedPaired
  BY <1>1 DEF ParkedPaired, ClientsInv, Indexing
<1> QED  BY SpecInv, <1>2, PTL

(* Only the last reply to a pipelined UNLINK says OK to its callback.       *)
LEMMA OkOfDone ==
    ASSUME NEW p \in Ops, NEW e, NEW clean, NEW failed,
           OpDone(p, e, clean, failed), verdict' = "ok"
    PROVE  clean /\ ~failed /\ op[p].kind = "many" /\ op' = [op EXCEPT ![p] = NoOp]
  BY DEF OpDone, DrainRc

LEMMA OkOfEvent ==
    ASSUME ClientsInv, NEW p \in Ops, Event(p), verdict' = "ok"
    PROVE  owed[p] = 0 /\ op' = [op EXCEPT ![p] = NoOp]
<1>1. CASE ReadDrain(p)
  <2>1. /\ Hears(p) /\ op[p].reader = "reply" /\ Live(p)
        /\ op[p] \in OpType /\ owed[p] \in Nat
    BY <1>1, Heard, Holder DEF ReadDrain
  <2>2. PICK failed : failed = (op[p].failed \/ Said(p) = "err")
    OBVIOUS
  <2>3. PICK clean : clean = (AfterReply(p).replies = <<>>)
    OBVIOUS
  <2>4. IF Said(p) = "bad" THEN LastReply(p, FALSE, failed)
        ELSE IF op[p].seen + 1 < op[p].expected
        THEN NextReply(p, [op[p] EXCEPT !.seen = @ + 1, !.failed = failed])
        ELSE LastReply(p, clean, failed)
    BY <1>1, <2>2, <2>3, Zenon DEF ReadDrain
  <2>5. /\ Said(p) # "bad" /\ ~(op[p].seen + 1 < op[p].expected)
        /\ LastReply(p, clean, failed)
    <3>1. ~LastReply(p, FALSE, failed)
      BY OkOfDone DEF LastReply
    <3>2. ~NextReply(p, [op[p] EXCEPT !.seen = @ + 1, !.failed = failed])
      BY DEF NextReply, Silent
    <3> QED  BY <2>4, <3>1, <3>2, Zenon
  <2>6. clean /\ ~failed /\ op[p].kind = "many" /\ op' = [op EXCEPT ![p] = NoOp]
    BY <2>5, OkOfDone DEF LastReply
  <2>7. AfterReply(p).replies = <<>> /\ ~op[p].failed /\ Said(p) # "err"
    BY <2>2, <2>3, <2>6, Zenon
  <2>8. PICK e \in ConnType :
          /\ Talk(p, op[p], e, owed[p]) /\ e.replies # <<>>
          /\ Said(p) = e.replies[1].what /\ Len(e.replies) = 1
    BY <2>1, <2>7, Heard
  <2>9. owed[p] = 0
    BY <2>1, <2>5, <2>6, <2>7, <2>8, TalkHonest
  <2> QED  BY <2>6, <2>9
<1>2. CASE ReadPreamble(p)
  <2>1. ~LastReply(p, FALSE, op[p].failed)
    BY OkOfDone DEF LastReply
  <2> QED  BY <1>2, <2>1 DEF ReadPreamble, NextReply, Silent
<1>3. CASE ReadGet(p) \/ ReadLock(p)
  <2>1. PICK clean : LastReply(p, clean, FALSE) /\ op[p].kind \in {"get", "lock"}
    BY <1>3, Zenon DEF ReadGet, ReadLock
  <2> QED  BY <2>1, OkOfDone DEF LastReply
<1>4. CASE Timeout(p) \/ Broken(p) \/ Detach(p)
  <2>1. OpDone(p, conn[op[p].conn], FALSE, op[p].failed)
    BY <1>4, Zenon DEF Timeout, Broken, Detach, OpFail
  <2> QED  BY <2>1, OkOfDone
<1>5. CASE FirstBytes(p) \/ TlsDone(p) \/ Write(p) \/ McWrite(p)
  BY <1>5 DEF FirstBytes, TlsDone, Write, McWrite, Silent
<1>6. CASE McReadDrain(p) \/ McReadGet(p) \/ McTimeout(p) \/ McBroken(p) \/ McDetach(p)
  BY <1>6 DEF McReadDrain, McReadGet, McTimeout, McBroken, McDetach, McFail,
              McFinish, McDone, Silent
<1> QED  BY <1>1, <1>2, <1>3, <1>4, <1>5, <1>6 DEF Event

(* A pipelined UNLINK is reported as done only if the server has executed   *)
(* every command of it (read_drain(), op_done()).                           *)
THEOREM EveryOkIsEarned == Spec => DrainHonest
<1> DEFINE Honest == \A o \in Ops : Live(o) /\ op'[o] = NoOp /\ verdict' = "ok" =>
                                    owed[o] = 0
<1>1. NoOp.kind = "none"
  BY DEF NoOp
<1>2. ASSUME ClientsInv, Next
      PROVE  Honest
  <2> SUFFICES ASSUME NEW o \in Ops, Live(o), op'[o] = NoOp, verdict' = "ok"
               PROVE  owed[o] = 0
    OBVIOUS
  <2>1. CASE \E p \in Ops : Event(p)
    <3>1. PICK p \in Ops : Event(p)
      BY <2>1
    <3>2. owed[p] = 0 /\ op' = [op EXCEPT ![p] = NoOp]
      BY <1>2, <3>1, OkOfEvent
    <3>3. p # o => op'[o] = op[o]
      BY <1>2, <3>2 DEF ClientsInv, TypeOK
    <3> QED  BY <1>1, <3>2, <3>3 DEF Live
  <2>2. CASE \E p \in Ops, x \in Redis :
               \/ \E r \in Requests, k \in Waits : Ask(p, k, r, x)
               \/ Fire(p, x) \/ TagAdd(p, x)
               \/ \E n \in Chunks : CmdMany(p, x, n)
    BY <2>2 DEF Ask, Fire, TagAdd, CmdMany, Fresh, Silent
  <2>3. CASE \E p \in Ops, x \in Memcached :
               (\E r \in Requests : McGet(p, r, x)) \/ McFire(p, x)
    BY <2>3 DEF McGet, McFire, Fresh, Silent
  <2>4. CASE \E c \in Conns :
               \/ DropIdle(c) \/ Close(c) \/ Deliver(c)
               \/ \E what \in {"ok", "nil", "err", "bad"} : Execute(c, what)
    BY <2>4 DEF DropIdle, Close, Deliver, Execute, Silent
  <2>5. CASE \E s \in Servers : BackoffEnds(s)
    BY <2>5 DEF BackoffEnds, Silent
  <2> QED  BY <1>2, <2>1, <2>2, <2>3, <2>4, <2>5 DEF Next
<1>3. UNCHANGED vars => Honest
  BY <1>1 DEF vars, Live
<1>4. ClientsInv /\ [Next]_vars => [Honest]_vars
  BY <1>2, <1>3
<1> HIDE DEF Honest
<1>5. Spec => [][Honest]_vars
  BY SpecInv, <1>4, PTL DEF Spec
<1> QED  BY <1>5 DEF DrainHonest, Honest

-----------------------------------------------------------------------------
(* Framing. *)

-----------------------------------------------------------------------------
(* Bytes. *)

LEMMA PrefixIs ==
    ASSUME NEW b \in Seq(STRING), NEW m \in 0..Len(b)
    PROVE  LET a == SubSeq(b, 1, m) IN
           /\ a \in Seq(STRING) /\ Len(a) = m /\ \A i \in 1..m : a[i] = b[i]
           /\ \A i, j \in Nat : 1 <= i /\ j <= m => SubSeq(a, i, j) = SubSeq(b, i, j)
<1> DEFINE a == SubSeq(b, 1, m)
<1>1. a \in Seq(STRING) /\ Len(a) = m /\ \A i \in 1..m : a[i] = b[i]
  OBVIOUS
<1>2. ASSUME NEW i \in Nat, NEW j \in Nat, 1 <= i, j <= m
      PROVE  SubSeq(a, i, j) = SubSeq(b, i, j)
  <2> HIDE DEF a
  <2> QED BY <1>1, <1>2
<1> QED BY <1>1, <1>2

(* The first CR. *)
LEMMA CrFromIs ==
    ASSUME NEW b \in Seq(STRING), NEW p \in Nat, 1 <= p
    PROVE  \/ CrFrom(b, p) = 0 /\ \A i \in p..Len(b) : b[i] # "CR"
           \/ /\ CrFrom(b, p) \in p..Len(b) /\ b[CrFrom(b, p)] = "CR"
              /\ \A i \in p..CrFrom(b, p) - 1 : b[i] # "CR"
<1>1. CASE \A i \in p..Len(b) : b[i] # "CR"
  BY <1>1 DEF CrFrom
<1>2. CASE \E i \in p..Len(b) : b[i] = "CR"
  <2> DEFINE T == {i \in p..Len(b) : b[i] = "CR"}
  <2>1. T \in SUBSET Nat /\ T # {}
    BY <1>2
  <2>2. PICK i \in T : \A j \in T : i <= j
    <3> HIDE DEF T
    <3> QED BY <2>1, NatLeast
  <2>3. /\ i \in p..Len(b) /\ b[i] = "CR"
        /\ \A j \in p..i - 1 : b[j] # "CR"
    BY <2>2
  <2> HIDE DEF T
  <2> QED BY <1>2, <2>3 DEF CrFrom
<1> QED BY <1>1, <1>2

(* The header at p is there when it has a line, and it has one line.        *)
LEMMA HeaderIs ==
    ASSUME NEW b \in Seq(STRING), NEW p \in Nat, 1 <= p
    PROVE  /\ CrFrom(b, p + 1) \in Nat
           /\ Ended(b, CrFrom(b, p + 1)) => LineAt(b, p, CrFrom(b, p + 1) + 2) 
           /\ \A h : LineAt(b, p, h) =>
                h = CrFrom(b, p + 1) + 2 /\ Ended(b, CrFrom(b, p + 1))
<1> DEFINE cr == CrFrom(b, p + 1)
<1>1. \/ cr = 0 /\ \A i \in p + 1..Len(b) : b[i] # "CR"
      \/ /\ cr \in p + 1..Len(b) /\ b[cr] = "CR"
         /\ \A i \in p + 1..cr - 1 : b[i] # "CR"
  BY CrFromIs
<1> HIDE DEF cr
<1>2. cr \in Nat
  BY <1>1
<1>3. ASSUME Ended(b, cr) PROVE LineAt(b, p, cr + 2)
  <2>1. cr + 2 \in Nat /\ (cr + 2) - 2 = cr /\ (cr + 2) - 1 = cr + 1 /\ (cr + 2) - 3 = cr - 1
    BY <1>2
  <2>2. /\ cr \in p + 1..Len(b) /\ b[cr] = "CR" /\ \A i \in p + 1..cr - 1 : b[i] # "CR"
        /\ cr + 1 <= Len(b) /\ b[cr + 1] = "LF"
    BY <1>1, <1>3 DEF Ended
  <2>3. cr + 2 \in p + 3..Len(b) + 1
    BY <2>2
  <2> QED BY <2>1, <2>2, <2>3 DEF LineAt
<1>4. ASSUME NEW h, LineAt(b, p, h) PROVE h = cr + 2 /\ Ended(b, cr)
  <2>1. /\ h \in p + 3..Len(b) + 1 /\ b[h - 2] = "CR" /\ b[h - 1] = "LF"
        /\ \A i \in p + 1..h - 3 : b[i] # "CR"
    BY <1>4 DEF LineAt
  <2>2. h - 2 \in p + 1..Len(b)
    BY <2>1
  <2>3. /\ cr \in p + 1..Len(b) /\ b[cr] = "CR"
        /\ \A i \in p + 1..cr - 1 : b[i] # "CR"
    BY <1>1, <2>1, <2>2
  <2>4. cr = h - 2
    <3>1. ~(cr < h - 2)
      BY <2>1, <2>3
    <3>2. ~(h - 2 < cr)
      BY <2>1, <2>2, <2>3
    <3> QED BY <2>1, <2>3, <3>1, <3>2
  <2>5. h - 1 = cr + 1
    BY <2>1, <2>4
  <2> QED BY <2>1, <2>3, <2>4, <2>5 DEF Ended
<1> QED BY <1>2, <1>3, <1>4 DEF cr

(* A line of a prefix, and of what goes on behind it.                       *)
LEMMA LinePrefix ==
    ASSUME NEW b \in Seq(STRING), NEW m \in 0..Len(b), NEW p \in Nat, 1 <= p, NEW h
    PROVE  LET a == SubSeq(b, 1, m) IN
           /\ LineAt(a, p, h) <=> LineAt(b, p, h) /\ h <= m + 1
           /\ LineAt(a, p, h) => Number(a, p, h - 2) = Number(b, p, h - 2)
<1> DEFINE a == SubSeq(b, 1, m)
<1>1. /\ a \in Seq(STRING) /\ Len(a) = m /\ \A i \in 1..m : a[i] = b[i]
      /\ \A i, j \in Nat : 1 <= i /\ j <= m => SubSeq(a, i, j) = SubSeq(b, i, j)
  BY PrefixIs
<1> HIDE DEF a
<1>2. ASSUME LineAt(a, p, h) PROVE LineAt(b, p, h) /\ h <= m + 1
  <2>1. h \in p + 3..m + 1
    BY <1>1, <1>2 DEF LineAt
  <2>2. h - 2 \in 1..m /\ h - 1 \in 1..m /\ \A i \in p + 1..h - 3 : i \in 1..m
    BY <2>1
  <2> QED BY <1>1, <1>2, <2>1, <2>2 DEF LineAt
<1>3. ASSUME LineAt(b, p, h), h <= m + 1 PROVE LineAt(a, p, h)
  <2>1. h \in p + 3..m + 1
    BY <1>3 DEF LineAt
  <2>2. h - 2 \in 1..m /\ h - 1 \in 1..m /\ \A i \in p + 1..h - 3 : i \in 1..m
    BY <2>1
  <2> QED BY <1>1, <1>3, <2>1, <2>2 DEF LineAt
<1>4. ASSUME LineAt(a, p, h) PROVE Number(a, p, h - 2) = Number(b, p, h - 2)
  <2>1. h \in p + 3..m + 1
    BY <1>1, <1>4 DEF LineAt
  <2>2. p + 1 \in Nat /\ h - 2 - 1 \in Nat /\ 1 <= p + 1 /\ h - 2 - 1 <= m
    BY <2>1
  <2> QED BY <1>1, <2>2 DEF Number
<1> QED BY <1>2, <1>3, <1>4 DEF a

(* A number is nil, none, or a natural number, and not without digits.      *)
LEMMA RespLenIs ==
    ASSUME NEW s \in Seq(STRING)
    PROVE  RespLen(s) \in Nat \cup {-1, -2} /\ (s = <<>> => RespLen(s) = -2)
<1> DEFINE f == [x \in (1..Len(s)) \X Nat |->
                    <<x[1] + 1, 10 * x[2] + Digit(s[x[1]])>>]
           number == Iterated(f, Len(s), <<1, 0>>)
           digits == s # <<>> /\ \A i \in DOMAIN s : s[i] \in {"0", "1", "2"}
<1>1. ASSUME digits PROVE number[2] \in Nat
  <2> DEFINE J == [i \in Nat |-> {i + 1} \X Nat]
  <2>1. \A i \in DOMAIN s : Digit(s[i]) \in Nat
    <3> SUFFICES ASSUME NEW i \in DOMAIN s PROVE Digit(s[i]) \in 0..2
      OBVIOUS
    <3>1. \E d \in 0..2 : Digits[d + 1] = s[i]
      <4>1. Digits[0 + 1] = "0" /\ Digits[1 + 1] = "1" /\ Digits[2 + 1] = "2"
        BY DEF Digits
      <4> QED BY <1>1, <4>1
    <3> QED BY <3>1 DEF Digit
  <2>2. <<1, 0>> \in J[0]
    OBVIOUS
  <2>3. ASSUME NEW i \in 0..(Len(s) - 1), NEW x \in J[i] PROVE f[x] \in J[i + 1]
    <3>1. x \in {i + 1} \X Nat /\ i + 1 \in 1..Len(s) /\ i + 1 \in DOMAIN s
      OBVIOUS
    <3>2. x[1] = i + 1 /\ x[2] \in Nat /\ x \in (1..Len(s)) \X Nat
      BY <3>1
    <3>3. f[x] = <<x[1] + 1, 10 * x[2] + Digit(s[x[1]])>>
      BY <3>2
    <3>4. 10 * x[2] + Digit(s[x[1]]) \in Nat
      BY <2>1, <3>1, <3>2
    <3>5. J[i + 1] = {(i + 1) + 1} \X Nat
      OBVIOUS
    <3> QED BY <3>2, <3>3, <3>4, <3>5
  <2>4. Len(s) \in Nat
    OBVIOUS
  <2>5. J[Len(s)] = {Len(s) + 1} \X Nat
    BY <2>4
  <2> HIDE DEF J, f
  <2>6. number \in J[Len(s)]
    BY <2>2, <2>3, <2>4, IteratedThrough
  <2> HIDE DEF number
  <2> QED BY <2>5, <2>6
<1> HIDE DEF number
<1>2. RespLen(s) = IF s = <<"-", "1">> THEN -1 ELSE IF ~digits THEN -2 ELSE number[2]
  BY DEF RespLen, number
<1>3. s = <<>> => s # <<"-", "1">>
  OBVIOUS
<1> HIDE DEF f
<1> QED BY <1>1, <1>2, <1>3

LEMMA NumberIs ==
    ASSUME NEW b \in Seq(STRING), NEW p \in Nat, 1 <= p, NEW h, LineAt(b, p, h)
    PROVE  /\ h \in p + 3..Len(b) + 1 /\ Number(b, p, h - 2) \in Nat \cup {-1, -2}
           /\ Number(b, p, h - 2) # -2 => h >= p + 4
<1>1. h \in p + 3..Len(b) + 1
  BY DEF LineAt
<1> DEFINE s == SubSeq(b, p + 1, h - 3)
<1>2. s \in Seq(STRING) /\ (h = p + 3 => s = <<>>)
  BY <1>1
<1>3. Number(b, p, h - 2) = RespLen(s)
  BY <1>1 DEF Number
<1> HIDE DEF s
<1> QED BY <1>1, <1>2, <1>3, RespLenIs

-----------------------------------------------------------------------------
(* Verdicts. *)

LEMMA VerdictsAre ==
    ASSUME NEW b \in Seq(STRING)
    PROVE  /\ {Again, Declined, Deep} \subseteq Verdicts(b)
           /\ \A p : Good(p) \in Verdicts(b) <=> p \in 1..Len(b) + 1
           /\ \A v \in Verdicts(b) :
                /\ v.rc \in {"again", "declined", "deep", "ok"}
                /\ v = [rc |-> v.rc, next |-> v.next]
                /\ v.rc = "ok" => v.next \in 1..Len(b) + 1 /\ v = Good(v.next)
                /\ v.rc = "again" => v = Again
                /\ v.rc = "declined" => v = Declined
                /\ v.rc = "deep" => v = Deep
                /\ v.rc # "ok" => v.next = 0
<1>1. {Again, Declined, Deep} \subseteq Verdicts(b)
  BY DEF Again, Declined, Deep, Verdicts
<1>2. ASSUME NEW p PROVE Good(p) \in Verdicts(b) <=> p \in 1..Len(b) + 1
  BY DEF Good, Verdicts
<1>3. ASSUME NEW v \in Verdicts(b)
      PROVE  /\ v.rc \in {"again", "declined", "deep", "ok"}
             /\ v = [rc |-> v.rc, next |-> v.next]
             /\ v.rc = "ok" => v.next \in 1..Len(b) + 1
             /\ v.rc # "ok" => v.next = 0
  BY DEF Verdicts
<1> QED BY <1>1, <1>2, <1>3 DEF Good, Again, Declined, Deep

LEMMA BulkEndIs ==
    ASSUME NEW b \in Seq(STRING), NEW h \in Nat, 1 <= h, h <= Len(b), NEW v \in Nat
    PROVE  /\ BulkEnd(b, h, v) = Again \/ BulkEnd(b, h, v) = Declined
              \/ BulkEnd(b, h, v) = Good(h + v + 3)
           /\ BulkEnd(b, h, v) = Good(h + v + 3) => h + v + 3 <= Len(b) + 1
           /\ BulkEnd(b, h, v) = Again <=> h + v + 2 > Len(b)
<1>1. Again # Declined /\ \A x : Good(x) # Again /\ Good(x) # Declined
  BY DEF Again, Declined, Good
<1> QED BY <1>1 DEF BulkEnd

(* A scalar by its line. *)
LEMMA ScalarIs ==
    ASSUME NEW b \in Seq(STRING), NEW p \in 1..Len(b)
    PROVE  /\ (\A h : ~LineAt(b, p, h)) => Scalar(b, p) = Again
           /\ \A h : LineAt(b, p, h) =>
                Scalar(b, p) = IF b[p] # "$" \/ Number(b, p, h - 2) = -1 THEN Good(h)
                               ELSE IF Number(b, p, h - 2) = -2
                                       \/ Number(b, p, h - 2) > MaxReply THEN Declined
                               ELSE BulkEnd(b, h - 1, Number(b, p, h - 2))
<1> DEFINE cr == CrFrom(b, p + 1)
<1>1. /\ cr \in Nat /\ (Ended(b, cr) => LineAt(b, p, cr + 2))
      /\ \A h : LineAt(b, p, h) => h = cr + 2 /\ Ended(b, cr)
  BY HeaderIs
<1>2. Scalar(b, p) =
        IF ~Ended(b, cr) THEN Again
        ELSE IF b[p] # "$" THEN Good(cr + 2)
        ELSE IF Number(b, p, cr) = -2 THEN Declined
        ELSE IF Number(b, p, cr) = -1 THEN Good(cr + 2)
        ELSE IF Number(b, p, cr) > MaxReply THEN Declined
        ELSE BulkEnd(b, cr + 1, Number(b, p, cr))
  BY DEF Scalar
<1>3. (cr + 2) - 2 = cr /\ (cr + 2) - 1 = cr + 1
  BY <1>1
<1> HIDE DEF cr
<1>4. ASSUME NEW h, LineAt(b, p, h)
      PROVE  Scalar(b, p) = IF b[p] # "$" \/ Number(b, p, h - 2) = -1 THEN Good(h)
                               ELSE IF Number(b, p, h - 2) = -2
                                       \/ Number(b, p, h - 2) > MaxReply THEN Declined
                               ELSE BulkEnd(b, h - 1, Number(b, p, h - 2))
  <2>1. h = cr + 2 /\ Ended(b, cr) /\ h - 2 = cr /\ h - 1 = cr + 1
    BY <1>1, <1>3, <1>4
  <2>2. -1 # -2
    OBVIOUS
  <2> QED BY <1>2, <2>1, <2>2
<1> QED BY <1>1, <1>2, <1>4

LEMMA ScalarType ==
    ASSUME NEW b \in Seq(STRING), NEW p \in 1..Len(b)
    PROVE  \/ Scalar(b, p) \in {Again, Declined}
           \/ \E q \in p + 3..Len(b) + 1 : Scalar(b, p) = Good(q)
<1>1. CASE \A h : ~LineAt(b, p, h)
  BY <1>1, ScalarIs
<1>2. ASSUME NEW h, LineAt(b, p, h)
      PROVE  \/ Scalar(b, p) \in {Again, Declined}
             \/ \E q \in p + 3..Len(b) + 1 : Scalar(b, p) = Good(q)
  <2> DEFINE v == Number(b, p, h - 2)
  <2>1. h \in p + 3..Len(b) + 1 /\ v \in Nat \cup {-1, -2}
    BY <1>2, NumberIs
  <2>2. Scalar(b, p) = IF b[p] # "$" \/ v = -1 THEN Good(h)
                       ELSE IF v = -2 \/ v > MaxReply THEN Declined
                       ELSE BulkEnd(b, h - 1, v)
    BY <1>2, ScalarIs
  <2> HIDE DEF v
  <2>3. CASE v \in Nat
    <3> DEFINE k == h - 1
    <3>1. k \in Nat /\ 1 <= k /\ k <= Len(b) /\ k + v + 3 >= p + 3
      BY <2>1, <2>3
    <3> HIDE DEF k
    <3>2. /\ BulkEnd(b, k, v) = Again \/ BulkEnd(b, k, v) = Declined
              \/ BulkEnd(b, k, v) = Good(k + v + 3)
          /\ BulkEnd(b, k, v) = Good(k + v + 3) => k + v + 3 <= Len(b) + 1
      BY <3>1, <2>3, BulkEndIs
    <3>3. k + v + 3 <= Len(b) + 1 => k + v + 3 \in p + 3..Len(b) + 1
      BY <3>1, <2>3
    <3> QED BY <2>1, <2>2, <3>2, <3>3 DEF k
  <2>4. CASE v \in {-1, -2}
    BY <2>1, <2>2, <2>4
  <2> QED BY <2>1, <2>3, <2>4
<1> QED BY <1>1, <1>2

(* What is said of a scalar of which all is there stays said. *)
LEMMA ScalarPrefix ==
    ASSUME NEW b \in Seq(STRING), NEW m \in 0..Len(b), NEW p \in 1..m,
           Scalar(SubSeq(b, 1, m), p) # Again
    PROVE  Scalar(b, p) = Scalar(SubSeq(b, 1, m), p)
<1> DEFINE a == SubSeq(b, 1, m)
<1>1. a \in Seq(STRING) /\ Len(a) = m /\ \A i \in 1..m : a[i] = b[i]
  BY PrefixIs
<1>2. \A h : /\ LineAt(a, p, h) <=> LineAt(b, p, h) /\ h <= m + 1
             /\ LineAt(a, p, h) => Number(a, p, h - 2) = Number(b, p, h - 2)
  BY LinePrefix
<1>3. Scalar(a, p) # Again
  OBVIOUS
<1> HIDE DEF a
<1>4. p \in 1..Len(a) /\ p \in 1..Len(b)
  BY <1>1
<1>5. PICK h : LineAt(a, p, h)
  BY <1>1, <1>3, <1>4, ScalarIs
<1> DEFINE v == Number(a, p, h - 2)
<1>6. LineAt(b, p, h) /\ v = Number(b, p, h - 2) /\ a[p] = b[p]
  BY <1>1, <1>2, <1>4, <1>5
<1>7. h \in p + 3..m + 1 /\ v \in Nat \cup {-1, -2}
  BY <1>1, <1>5, NumberIs
<1>8. Scalar(a, p) = IF a[p] # "$" \/ v = -1 THEN Good(h)
                     ELSE IF v = -2 \/ v > MaxReply THEN Declined
                     ELSE BulkEnd(a, h - 1, v)
  BY <1>1, <1>4, <1>5, ScalarIs
<1>9. Scalar(b, p) = IF b[p] # "$" \/ v = -1 THEN Good(h)
                     ELSE IF v = -2 \/ v > MaxReply THEN Declined
                     ELSE BulkEnd(b, h - 1, v)
  BY <1>4, <1>6, ScalarIs
<1> HIDE DEF v
<1>10. ASSUME v \in Nat, BulkEnd(a, h - 1, v) # Again
       PROVE  BulkEnd(a, h - 1, v) = BulkEnd(b, h - 1, v)
  <2>1. h - 1 \in Nat /\ 1 <= h - 1 /\ h - 1 <= Len(a)
    BY <1>1, <1>7
  <2>2. h - 1 + v + 2 <= m
    <3> DEFINE g == h - 1
    <3>1. g \in Nat /\ 1 <= g /\ g <= Len(a) /\ BulkEnd(a, g, v) # Again
      BY <2>1, <1>10
    <3> HIDE DEF g
    <3>2. ~(g + v + 2 > Len(a))
      BY <1>1, <1>10, <3>1, BulkEndIs
    <3>3. g + v + 2 <= m
      BY <1>1, <1>10, <3>1, <3>2
    <3> QED BY <3>3 DEF g
  <2>3. h - 1 + v + 1 \in 1..m /\ h - 1 + v + 2 \in 1..m
    BY <2>1, <2>2, <1>10
  <2>4. ~(Len(a) - (h - 1) < v + 2) /\ ~(Len(b) - (h - 1) < v + 2)
    BY <2>1, <2>2, <1>1, <1>10
  <2> QED BY <2>3, <2>4, <1>1 DEF BulkEnd
<1>11. Scalar(a, p) = Scalar(b, p)
  <2>1. CASE v \in Nat
    BY <1>3, <1>6, <1>8, <1>9, <1>10, <2>1
  <2>2. CASE v \in {-1, -2}
    BY <1>6, <1>8, <1>9, <2>2
  <2> QED BY <1>7, <2>1, <2>2
<1> QED BY <1>11 DEF a

(* The elements of an array, one more. *)
LEMMA ElementsAre ==
    ASSUME NEW b \in Seq(STRING), NEW t \in Tables(b), NEW e \in Verdicts(b)
    PROVE  /\ Elements(b, t, 0, e) = e
           /\ \A n \in Nat :
                /\ Elements(b, t, n, e) \in Verdicts(b)
                /\ Elements(b, t, n + 1, e) = Elements(b, t, n, Element(t, e))
                /\ Elements(b, t, n + 1, e) = Element(t, Elements(b, t, n, e))
                /\ e.rc # "ok" => Elements(b, t, n, e) = e
           /\ Element(t, e) \in Verdicts(b)
<1> DEFINE f == [x \in Verdicts(b) |-> Element(t, x)]
<1>1. \A x \in Verdicts(b) : f[x] = Element(t, x)
  OBVIOUS
<1>2. ASSUME NEW x \in Verdicts(b) PROVE Element(t, x) \in Verdicts(b)
  <2>1. x.rc = "ok" => x.next \in 1..Len(b) + 1
    BY VerdictsAre
  <2> QED BY <2>1 DEF Element, Tables
<1>3. \A n : Elements(b, t, n, e) = Iterated(f, n, e)
  BY DEF Elements
<1> HIDE DEF f
<1>4. Elements(b, t, 0, e) = e
  BY <1>3, IteratedNext
<1>5. ASSUME NEW n \in Nat
      PROVE  /\ Elements(b, t, n, e) \in Verdicts(b)
             /\ Elements(b, t, n + 1, e) = Elements(b, t, n, Element(t, e))
             /\ Elements(b, t, n + 1, e) = Element(t, Elements(b, t, n, e))
             /\ e.rc # "ok" => Elements(b, t, n, e) = e
  <2>1. Iterated(f, n, e) \in Verdicts(b)
    BY <1>1, <1>2, IteratedIn
  <2>2. Iterated(f, n + 1, e) = f[Iterated(f, n, e)]
    BY IteratedNext
  <2>3. Iterated(f, n + 1, e) = Iterated(f, n, f[e])
    BY IteratedFirst
  <2>4. f[e] = Element(t, e) /\ Elements(b, t, n, Element(t, e)) = Iterated(f, n, Element(t, e))
    BY <1>1 DEF Elements, f
  <2>5. ASSUME e.rc # "ok" PROVE Iterated(f, n, e) = e
    <3>1. e \in {e} /\ \A x \in {e} : f[x] \in {e}
      BY <1>1, <2>5 DEF Element
    <3>2. Iterated(f, n, e) \in {e}
      BY <3>1, IteratedIn
    <3> QED BY <3>2
  <2> QED BY <1>1, <1>3, <2>1, <2>2, <2>3, <2>4, <2>5
<1> QED BY <1>2, <1>4, <1>5

(* What a call says at p, by the mark there. *)
LEMMA AroundIs ==
    ASSUME NEW b \in Seq(STRING), NEW t \in Tables(b), NEW p \in 1..Len(b) + 1
    PROVE  /\ p = Len(b) + 1 => Around(b, t)[p] = Again
           /\ p <= Len(b) /\ IsScalar(b[p]) => Around(b, t)[p] = Scalar(b, p)
           /\ p <= Len(b) /\ ~IsScalar(b[p]) /\ b[p] # "*" => Around(b, t)[p] = Declined
           /\ p <= Len(b) /\ b[p] = "*" =>
                /\ (\A h : ~LineAt(b, p, h)) => Around(b, t)[p] = Again
                /\ \A h : LineAt(b, p, h) =>
                     Around(b, t)[p] =
                       IF Number(b, p, h - 2) = -2 \/ Number(b, p, h - 2) > MaxMembers
                       THEN Declined
                       ELSE IF Number(b, p, h - 2) = -1 THEN Good(h)
                       ELSE Elements(b, t, Number(b, p, h - 2), Good(h))
<1> DEFINE cr == CrFrom(b, p + 1)
<1>1. /\ cr \in Nat /\ (Ended(b, cr) => LineAt(b, p, cr + 2))
      /\ \A h : LineAt(b, p, h) => h = cr + 2 /\ Ended(b, cr)
  BY HeaderIs
<1>2. Around(b, t)[p] =
           IF p > Len(b) THEN Again
           ELSE IF IsScalar(b[p]) THEN Scalar(b, p)
           ELSE IF b[p] # "*" THEN Declined
           ELSE IF ~Ended(b, cr) THEN Again
           ELSE IF Number(b, p, cr) = -2 \/ Number(b, p, cr) > MaxMembers THEN Declined
           ELSE IF Number(b, p, cr) = -1 THEN Good(cr + 2)
           ELSE Elements(b, t, Number(b, p, cr), Good(cr + 2))
  BY DEF Around
<1>3. (cr + 2) - 2 = cr /\ ~IsScalar("*")
  BY <1>1 DEF IsScalar
<1> HIDE DEF cr
<1>4. ASSUME NEW h, LineAt(b, p, h)
      PROVE  h = cr + 2 /\ h - 2 = cr /\ Ended(b, cr)
  BY <1>1, <1>3, <1>4
<1>5. p = Len(b) + 1 => Around(b, t)[p] = Again
  BY <1>2
<1>6. ASSUME p <= Len(b), b[p] = "*", NEW h, LineAt(b, p, h)
      PROVE  Around(b, t)[p] =
                       IF Number(b, p, h - 2) = -2 \/ Number(b, p, h - 2) > MaxMembers
                       THEN Declined
                       ELSE IF Number(b, p, h - 2) = -1 THEN Good(h)
                       ELSE Elements(b, t, Number(b, p, h - 2), Good(h))
  BY <1>2, <1>3, <1>4, <1>6
<1>7. p <= Len(b) => ~(p > Len(b))
  OBVIOUS
<1> QED BY <1>1, <1>2, <1>3, <1>5, <1>6, <1>7

LEMMA AroundType ==
    ASSUME NEW b \in Seq(STRING), NEW t \in Tables(b)
    PROVE  Around(b, t) \in Tables(b)
<1> SUFFICES ASSUME NEW p \in 1..Len(b) + 1 PROVE Around(b, t)[p] \in Verdicts(b)
  BY DEF Around, Tables
<1> DEFINE r == Around(b, t)[p]
<1>1. CASE p = Len(b) + 1
  BY <1>1, AroundIs, VerdictsAre
<1>2. CASE p <= Len(b) /\ IsScalar(b[p])
  <2>1. p \in 1..Len(b) /\ r = Scalar(b, p)
    BY <1>2, AroundIs
  <2>2. CASE Scalar(b, p) \in {Again, Declined}
    BY <2>1, <2>2, VerdictsAre
  <2>3. ASSUME NEW q \in p + 3..Len(b) + 1, Scalar(b, p) = Good(q)
        PROVE  r \in Verdicts(b)
    BY <2>1, <2>3, VerdictsAre
  <2> QED BY <2>1, <2>2, <2>3, ScalarType
<1>3. CASE p <= Len(b) /\ ~IsScalar(b[p]) /\ b[p] # "*"
  BY <1>3, AroundIs, VerdictsAre
<1>4. CASE p <= Len(b) /\ b[p] = "*"
  <2>1. CASE \A h : ~LineAt(b, p, h)
    BY <1>4, <2>1, AroundIs, VerdictsAre
  <2>2. ASSUME NEW h, LineAt(b, p, h) PROVE r \in Verdicts(b)
    <3> DEFINE v == Number(b, p, h - 2)
    <3>1. h \in p + 3..Len(b) + 1 /\ v \in Nat \cup {-1, -2}
      BY <2>2, NumberIs
    <3>2. r = IF v = -2 \/ v > MaxMembers THEN Declined
              ELSE IF v = -1 THEN Good(h) ELSE Elements(b, t, v, Good(h))
      BY <1>4, <2>2, AroundIs
    <3>3. h \in 1..Len(b) + 1
      BY <3>1
    <3>4. Good(h) \in Verdicts(b) /\ Declined \in Verdicts(b)
      BY <3>3, VerdictsAre
    <3> HIDE DEF v, r
    <3>5. v \in Nat => Elements(b, t, v, Good(h)) \in Verdicts(b)
      BY <3>4, ElementsAre
    <3> QED BY <3>1, <3>2, <3>4, <3>5
  <2> QED BY <2>1, <2>2
<1> QED BY <1>1, <1>2, <1>3, <1>4

(* A level more. *)
LEMMA FramedNext ==
    ASSUME NEW b \in Seq(STRING), NEW t \in Tables(b)
    PROVE  /\ Framed(b, 0, t) = t
           /\ \A k \in Nat : /\ Framed(b, k, t) \in Tables(b)
                             /\ Framed(b, k + 1, t) = Around(b, Framed(b, k, t))
<1> DEFINE f == [x \in Tables(b) |-> Around(b, x)]
<1>1. \A x \in Tables(b) : f[x] = Around(b, x) /\ f[x] \in Tables(b)
  BY AroundType
<1>2. \A k : Framed(b, k, t) = Iterated(f, k, t)
  BY DEF Framed
<1> HIDE DEF f
<1>3. \A k \in Nat : Iterated(f, k, t) \in Tables(b)
  BY <1>1, IteratedIn
<1> QED BY <1>1, <1>2, <1>3, IteratedNext

LEMMA BasesAre ==
    ASSUME NEW b \in Seq(STRING)
    PROVE  TooDeep(b) \in Tables(b) /\ Innermost(b) \in Tables(b)
<1>1. TooDeep(b) \in Tables(b)
  BY VerdictsAre DEF TooDeep, Tables
<1>2. Around(b, TooDeep(b)) \in Tables(b)
  BY <1>1, AroundType
<1>3. ASSUME NEW p \in 1..Len(b) + 1 PROVE Innermost(b)[p] \in Verdicts(b)
  <2>1. Around(b, TooDeep(b))[p] \in Verdicts(b)
    BY <1>2 DEF Tables
  <2> QED BY <2>1, VerdictsAre DEF Innermost
<1> QED BY <1>1, <1>3 DEF Innermost, Tables

-----------------------------------------------------------------------------
(* What is said of a prefix stays said: the tables t and u of a and b are   *)
(* the same where t does not say x.                                         *)

SaidBut(x, a, t, u) == \A p \in 1..Len(a) + 1 : t[p] # x => u[p] = t[p]

LEMMA ElementsSaid ==
    ASSUME NEW a \in Seq(STRING), NEW b \in Seq(STRING), Len(a) <= Len(b),
           NEW t \in Tables(a), NEW u \in Tables(b), NEW e \in Verdicts(a),
           NEW x, x.rc # "ok", SaidBut(x, a, t, u), NEW n \in Nat
    PROVE  Elements(a, t, n, e) # x => Elements(b, u, n, e) = Elements(a, t, n, e)
<1> DEFINE T == {k \in Nat : Elements(a, t, k, e) # x =>
                               Elements(b, u, k, e) = Elements(a, t, k, e)}
<1>1. e \in Verdicts(b)
  <2>1. 1..Len(a) + 1 \subseteq 1..Len(b) + 1
    OBVIOUS
  <2> QED BY <2>1 DEF Verdicts
<1>2. 0 \in T
  BY <1>1, ElementsAre
<1>3. ASSUME NEW k \in T PROVE k + 1 \in T
  <2> DEFINE y == Elements(a, t, k, e)
  <2>0. k \in Nat
    OBVIOUS
  <2>1. Elements(a, t, k + 1, e) = Element(t, y) /\ y \in Verdicts(a)
    BY ZenonT(30), <2>0, ElementsAre
  <2>2. Elements(b, u, k + 1, e) = Element(u, Elements(b, u, k, e))
    BY <1>1, <2>0, ElementsAre
  <2>3. y # x => Elements(b, u, k, e) = y
    OBVIOUS
  <2>4. y.rc = "ok" => y.next \in 1..Len(a) + 1
    BY <2>1, VerdictsAre
  <2> HIDE DEF y
  <2>5. Element(t, y) # x => y # x
    BY DEF Element
  <2>6. Element(t, y) # x => Element(u, y) = Element(t, y)
    BY <2>4 DEF Element, SaidBut
  <2> QED BY <2>0, <2>1, <2>2, <2>3, <2>5, <2>6
<1>4. T = Nat
  <2> HIDE DEF T
  <2> QED BY <1>2, <1>3, SetInduction DEF T
<1> QED BY <1>4

LEMMA AroundSaid ==
    ASSUME NEW b \in Seq(STRING), NEW m \in 0..Len(b),
           NEW t \in Tables(SubSeq(b, 1, m)), NEW u \in Tables(b),
           SaidBut(Again, SubSeq(b, 1, m), t, u)
    PROVE  SaidBut(Again, SubSeq(b, 1, m), Around(SubSeq(b, 1, m), t), Around(b, u))
<1> DEFINE a == SubSeq(b, 1, m)
<1>1. a \in Seq(STRING) /\ Len(a) = m /\ \A i \in 1..m : a[i] = b[i]
  BY PrefixIs
<1>2. \A p \in Nat : 1 <= p => \A h :
             /\ LineAt(a, p, h) <=> LineAt(b, p, h) /\ h <= m + 1
             /\ LineAt(a, p, h) => Number(a, p, h - 2) = Number(b, p, h - 2)
  BY LinePrefix
<1>3. \A p \in 1..m : Scalar(a, p) # Again => Scalar(b, p) = Scalar(a, p)
  BY ScalarPrefix
<1>4. t \in Tables(a) /\ SaidBut(Again, a, t, u)
  OBVIOUS
<1> HIDE DEF a
<1>5. ASSUME NEW p \in 1..Len(a) + 1, Around(a, t)[p] # Again
      PROVE  Around(b, u)[p] = Around(a, t)[p]
  <2>1. p # Len(a) + 1
    BY <1>1, <1>4, <1>5, AroundIs
  <2>2. /\ p \in 1..m /\ p \in 1..Len(a) /\ p <= Len(b) /\ p \in 1..Len(b) + 1
        /\ p <= Len(a) /\ a[p] = b[p]
    BY <1>1, <2>1
  <2>3. CASE IsScalar(a[p])
    <3>1. Around(a, t)[p] = Scalar(a, p) /\ Around(b, u)[p] = Scalar(b, p)
      BY <1>1, <1>4, <2>2, <2>3, AroundIs
    <3> QED BY <1>3, <1>5, <2>2, <3>1
  <2>4. CASE ~IsScalar(a[p]) /\ a[p] # "*"
    <3>1. Around(a, t)[p] = Declined /\ Around(b, u)[p] = Declined
      BY <1>1, <1>4, <2>2, <2>4, AroundIs
    <3> QED BY <3>1
  <2>5. CASE a[p] = "*"
    <3>1. PICK h : LineAt(a, p, h)
      BY <1>1, <1>4, <1>5, <2>2, <2>5, AroundIs
    <3> DEFINE v == Number(a, p, h - 2)
    <3>2. LineAt(b, p, h) /\ v = Number(b, p, h - 2) /\ p \in Nat /\ 1 <= p
      BY <1>2, <2>2, <3>1
    <3>3. Around(a, t)[p] = IF v = -2 \/ v > MaxMembers THEN Declined
                            ELSE IF v = -1 THEN Good(h) ELSE Elements(a, t, v, Good(h))
      BY <1>1, <1>4, <2>2, <2>5, <3>1, AroundIs
    <3>4. Around(b, u)[p] = IF v = -2 \/ v > MaxMembers THEN Declined
                            ELSE IF v = -1 THEN Good(h) ELSE Elements(b, u, v, Good(h))
      BY <2>2, <2>5, <3>2, AroundIs
    <3>5. h \in p + 3..Len(a) + 1 /\ v \in Nat \cup {-1, -2}
      BY <1>1, <3>1, <3>2, NumberIs
    <3>6. Good(h) \in Verdicts(a)
      BY <1>1, <2>2, <3>5, VerdictsAre
    <3> HIDE DEF v
    <3>7. ASSUME v \in Nat, Elements(a, t, v, Good(h)) # Again
          PROVE  Elements(b, u, v, Good(h)) = Elements(a, t, v, Good(h))
      <4>1. Again.rc # "ok" /\ Len(a) <= Len(b)
        BY <1>1 DEF Again
      <4> QED BY <1>1, <1>4, <3>6, <3>7, <4>1, ElementsSaid
    <3>8. CASE v \in Nat
      BY <1>5, <3>3, <3>4, <3>7, <3>8
    <3>9. CASE v \in {-1, -2}
      BY <3>3, <3>4, <3>9
    <3> QED BY <3>5, <3>8, <3>9
  <2> QED BY <2>3, <2>4, <2>5
<1> QED BY <1>5 DEF SaidBut, a

LEMMA BasesSaid ==
    ASSUME NEW b \in Seq(STRING), NEW m \in 0..Len(b)
    PROVE  LET a == SubSeq(b, 1, m) IN
           /\ SaidBut(Again, a, TooDeep(a), TooDeep(b))
           /\ SaidBut(Again, a, Innermost(a), Innermost(b))
<1> DEFINE a == SubSeq(b, 1, m)
<1>1. a \in Seq(STRING) /\ Len(a) = m /\ \A i \in 1..m : a[i] = b[i]
  BY PrefixIs
<1>2. SaidBut(Again, a, TooDeep(a), TooDeep(b))
  <2> HIDE DEF a
  <2>1. 1..Len(a) + 1 \subseteq 1..Len(b) + 1
    BY <1>1
  <2> QED BY <2>1 DEF SaidBut, TooDeep
<1>3. TooDeep(a) \in Tables(a) /\ TooDeep(b) \in Tables(b)
  BY <1>1, BasesAre
<1>4. SaidBut(Again, a, Around(a, TooDeep(a)), Around(b, TooDeep(b)))
  BY <1>2, <1>3, AroundSaid
<1>5. Around(a, TooDeep(a)) \in Tables(a)
  BY <1>1, <1>3, AroundType
<1> HIDE DEF a
<1>6. ASSUME NEW p \in 1..Len(a) + 1, Innermost(a)[p] # Again
      PROVE  Innermost(b)[p] = Innermost(a)[p]
  <2>0. p \in 1..Len(b) + 1
    BY <1>1
  <2>1. CASE p <= Len(a) /\ a[p] = "*"
    <3>1. p <= Len(b) /\ b[p] = "*"
      BY <1>1, <2>1
    <3> QED BY <2>0, <2>1, <3>1 DEF Innermost
  <2>2. CASE ~(p <= Len(a) /\ a[p] = "*")
    <3>1. Innermost(a)[p] = Around(a, TooDeep(a))[p]
      BY <2>2 DEF Innermost
    <3>2. Around(b, TooDeep(b))[p] = Around(a, TooDeep(a))[p]
      BY <1>4, <1>6, <3>1 DEF SaidBut
    <3>3. p # Len(a) + 1
      BY <1>1, <1>3, <1>6, <3>1, AroundIs
    <3>4. p <= Len(a) /\ a[p] = b[p]
      BY <1>1, <3>3
    <3>5. Innermost(b)[p] = Around(b, TooDeep(b))[p]
      BY <2>0, <2>2, <3>4 DEF Innermost
    <3> QED BY <3>1, <3>2, <3>5
  <2> QED BY <2>1, <2>2
<1> QED BY <1>2, <1>6 DEF SaidBut, a

(* Every level down. *)
LEMMA FramedSaid ==
    ASSUME NEW b \in Seq(STRING), NEW m \in 0..Len(b),
           NEW t \in Tables(SubSeq(b, 1, m)), NEW u \in Tables(b),
           SaidBut(Again, SubSeq(b, 1, m), t, u), NEW n \in Nat
    PROVE  SaidBut(Again, SubSeq(b, 1, m), Framed(SubSeq(b, 1, m), n, t), Framed(b, n, u))
<1> DEFINE a == SubSeq(b, 1, m)
           T == {k \in Nat : SaidBut(Again, a, Framed(a, k, t), Framed(b, k, u))}
<1>1. a \in Seq(STRING)
  BY PrefixIs
<1>2. 0 \in T
  BY <1>1, FramedNext
<1>3. ASSUME NEW k \in T PROVE k + 1 \in T
  <2>0. k \in Nat /\ SaidBut(Again, a, Framed(a, k, t), Framed(b, k, u))
    OBVIOUS
  <2>1. /\ Framed(a, k, t) \in Tables(a)
        /\ Framed(a, k + 1, t) = Around(a, Framed(a, k, t))
    BY <1>1, <2>0, FramedNext
  <2>2. /\ Framed(b, k, u) \in Tables(b)
        /\ Framed(b, k + 1, u) = Around(b, Framed(b, k, u))
    BY <2>0, FramedNext
  <2>3. SaidBut(Again, a, Around(a, Framed(a, k, t)), Around(b, Framed(b, k, u)))
    BY <2>0, <2>1, <2>2, AroundSaid
  <2> QED BY <2>0, <2>1, <2>2, <2>3
<1>4. T = Nat
  <2> HIDE DEF T
  <2> QED BY <1>2, <1>3, SetInduction DEF T
<1> QED BY <1>4

(* What one walk says of a prefix it says of all that goes on behind it.    *)
LEMMA FrameSaid ==
    ASSUME NEW b \in Seq(STRING), NEW m \in 0..Len(b), NEW p \in 1..m + 1
    PROVE  LET a == SubSeq(b, 1, m) IN
           /\ Frame(a, p) # Again => Frame(b, p) = Frame(a, p)
           /\ FrameToDeep(a, p) # Again => FrameToDeep(b, p) = FrameToDeep(a, p)
           /\ Frame(a, p) \in Verdicts(a) /\ FrameToDeep(a, p) \in Verdicts(a)
<1> DEFINE a == SubSeq(b, 1, m)
<1>1. a \in Seq(STRING) /\ Len(a) = m /\ p \in 1..Len(a) + 1
  BY PrefixIs
<1>2. /\ TooDeep(a) \in Tables(a) /\ Innermost(a) \in Tables(a)
      /\ TooDeep(b) \in Tables(b) /\ Innermost(b) \in Tables(b)
  BY <1>1, BasesAre
<1>3. SaidBut(Again, a, TooDeep(a), TooDeep(b))
  BY BasesSaid
<1>4. SaidBut(Again, a, Innermost(a), Innermost(b))
  BY BasesSaid
<1>5. MaxDepth \in Nat /\ MaxDepth + 1 \in Nat
  BY FramingAssumption
<1>6. SaidBut(Again, a, Framed(a, MaxDepth + 1, TooDeep(a)),
              Framed(b, MaxDepth + 1, TooDeep(b)))
  BY <1>2, <1>3, <1>5, FramedSaid
<1>7. SaidBut(Again, a, Framed(a, MaxDepth, Innermost(a)),
              Framed(b, MaxDepth, Innermost(b)))
  BY <1>2, <1>4, <1>5, FramedSaid
<1>8. /\ Framed(a, MaxDepth + 1, TooDeep(a)) \in Tables(a)
      /\ Framed(a, MaxDepth, Innermost(a)) \in Tables(a)
  BY <1>1, <1>2, <1>5, FramedNext
<1> HIDE DEF a
<1> QED BY <1>1, <1>6, <1>7, <1>8 DEF SaidBut, Frame, FrameToDeep, Tables, a

(* The call that declines for depth is the only one that knows of it.       *)
LEMMA AroundDeep ==
    ASSUME NEW b \in Seq(STRING), NEW t \in Tables(b), NEW u \in Tables(b),
           SaidBut(Deep, b, t, u)
    PROVE  SaidBut(Deep, b, Around(b, t), Around(b, u))
<1>1. ASSUME NEW p \in 1..Len(b) + 1, Around(b, t)[p] # Deep
      PROVE  Around(b, u)[p] = Around(b, t)[p]
  <2>1. CASE p = Len(b) + 1
    BY <2>1, AroundIs
  <2>2. CASE p <= Len(b) /\ IsScalar(b[p])
    BY <2>2, AroundIs
  <2>3. CASE p <= Len(b) /\ ~IsScalar(b[p]) /\ b[p] # "*"
    BY <2>3, AroundIs
  <2>4. CASE p <= Len(b) /\ b[p] = "*"
    <3>1. CASE \A h : ~LineAt(b, p, h)
      BY <2>4, <3>1, AroundIs
    <3>2. ASSUME NEW h, LineAt(b, p, h) PROVE Around(b, u)[p] = Around(b, t)[p]
      <4> DEFINE v == Number(b, p, h - 2)
      <4>1. h \in p + 3..Len(b) + 1 /\ v \in Nat \cup {-1, -2}
        BY <3>2, NumberIs
      <4>2. Around(b, t)[p] = IF v = -2 \/ v > MaxMembers THEN Declined
                              ELSE IF v = -1 THEN Good(h) ELSE Elements(b, t, v, Good(h))
        BY <2>4, <3>2, AroundIs
      <4>3. Around(b, u)[p] = IF v = -2 \/ v > MaxMembers THEN Declined
                              ELSE IF v = -1 THEN Good(h) ELSE Elements(b, u, v, Good(h))
        BY <2>4, <3>2, AroundIs
      <4>4. Good(h) \in Verdicts(b)
        BY <4>1, VerdictsAre
      <4> HIDE DEF v
      <4>5. ASSUME v \in Nat, Elements(b, t, v, Good(h)) # Deep
            PROVE  Elements(b, u, v, Good(h)) = Elements(b, t, v, Good(h))
        <5>1. Deep.rc # "ok" /\ Len(b) <= Len(b)
          BY DEF Deep
        <5> QED BY <4>4, <4>5, <5>1, ElementsSaid
      <4>6. CASE v \in Nat
        BY <1>1, <4>2, <4>3, <4>5, <4>6
      <4>7. CASE v \in {-1, -2}
        BY <4>2, <4>3, <4>7
      <4> QED BY <4>1, <4>6, <4>7
    <3> QED BY <3>1, <3>2
  <2> QED BY <2>1, <2>2, <2>3, <2>4
<1> QED BY <1>1 DEF SaidBut

LEMMA FrameUnlessDeep ==
    ASSUME NEW b \in Seq(STRING), NEW p \in 1..Len(b) + 1, FrameToDeep(b, p) # Deep
    PROVE  Frame(b, p) = FrameToDeep(b, p)
<1> DEFINE T == {k \in Nat : SaidBut(Deep, b, Framed(b, k, Innermost(b)),
                                     Framed(b, k + 1, TooDeep(b)))}
<1>1. TooDeep(b) \in Tables(b) /\ Innermost(b) \in Tables(b)
  BY BasesAre
<1>2. 0 \in T
  <2>1. Framed(b, 0, Innermost(b)) = Innermost(b)
    BY <1>1, FramedNext
  <2>2. Framed(b, 0 + 1, TooDeep(b)) = Around(b, TooDeep(b))
    BY <1>1, FramedNext
  <2>3. SaidBut(Deep, b, Innermost(b), Around(b, TooDeep(b)))
    BY DEF SaidBut, Innermost
  <2> QED BY <2>1, <2>2, <2>3
<1>3. ASSUME NEW k \in T PROVE k + 1 \in T
  <2>0. /\ k \in Nat /\ k + 1 \in Nat
        /\ SaidBut(Deep, b, Framed(b, k, Innermost(b)), Framed(b, k + 1, TooDeep(b)))
    OBVIOUS
  <2>1. /\ Framed(b, k, Innermost(b)) \in Tables(b)
        /\ Framed(b, k + 1, Innermost(b)) = Around(b, Framed(b, k, Innermost(b)))
    BY <1>1, <2>0, FramedNext
  <2>2. /\ Framed(b, k + 1, TooDeep(b)) \in Tables(b)
        /\ Framed(b, (k + 1) + 1, TooDeep(b)) = Around(b, Framed(b, k + 1, TooDeep(b)))
    BY <1>1, <2>0, FramedNext
  <2>3. SaidBut(Deep, b, Around(b, Framed(b, k, Innermost(b))),
                Around(b, Framed(b, k + 1, TooDeep(b))))
    BY <2>0, <2>1, <2>2, AroundDeep
  <2> QED BY <2>0, <2>1, <2>2, <2>3
<1>4. T = Nat
  <2> HIDE DEF T
  <2> QED BY <1>2, <1>3, SetInduction DEF T
<1>5. MaxDepth \in Nat
  BY FramingAssumption
<1>6. SaidBut(Deep, b, Framed(b, MaxDepth, Innermost(b)), Framed(b, MaxDepth + 1, TooDeep(b)))
  BY <1>4, <1>5
<1> QED BY <1>6 DEF SaidBut, Frame, FrameToDeep

-----------------------------------------------------------------------------
(* The resumed walk.  What is to be said of the whole array follows from    *)
(* where the walk is and what the counts still ask for.                     *)

\* The calls d levels down.
Level(b, d) == Framed(b, MaxDepth - d, Innermost(b))

Unwinds(b, rem, v, w) ==
    \E e \in [0..Len(rem) -> Verdicts(b)] :
        /\ e[0] = w /\ e[Len(rem)] = v
        /\ \A d \in 1..Len(rem) : e[d - 1] = Elements(b, Level(b, d), rem[d], e[d])

LEMMA LevelIs ==
    ASSUME NEW b \in Seq(STRING), NEW d \in 0..MaxDepth
    PROVE  /\ Level(b, d) \in Tables(b)
           /\ d = MaxDepth => Level(b, d) = Innermost(b)
           /\ d < MaxDepth => Level(b, d) = Around(b, Level(b, d + 1))
<1>1. MaxDepth \in Nat
  BY FramingAssumption
<1>2. MaxDepth - d \in Nat /\ Innermost(b) \in Tables(b)
  BY <1>1, BasesAre
<1>3. Level(b, d) \in Tables(b)
  BY <1>2, FramedNext DEF Level
<1>4. ASSUME d = MaxDepth PROVE Level(b, d) = Innermost(b)
  <2>1. MaxDepth - d = 0
    BY <1>1, <1>4
  <2> QED BY <1>2, <2>1, FramedNext DEF Level
<1>5. ASSUME d < MaxDepth PROVE Level(b, d) = Around(b, Level(b, d + 1))
  <2> DEFINE k == MaxDepth - (d + 1)
  <2>1. k \in Nat /\ MaxDepth - d = k + 1
    BY <1>1, <1>5
  <2>2. Framed(b, k + 1, Innermost(b)) = Around(b, Framed(b, k, Innermost(b)))
    BY <1>2, <2>1, FramedNext
  <2> QED BY <2>1, <2>2 DEF Level
<1> QED BY <1>3, <1>4, <1>5

LEMMA TopLevel ==
    ASSUME NEW b, NEW p
    PROVE  FrameToDeep(b, p) = Level(b, 0)[p]
<1>1. MaxDepth - 0 = MaxDepth
  BY FramingAssumption
<1> QED BY <1>1 DEF FrameToDeep, Level

(* A call at p. *)
LEMMA CallIs ==
    ASSUME NEW b \in Seq(STRING), NEW d \in 0..MaxDepth, NEW p \in 1..Len(b) + 1
    PROVE  /\ Level(b, d)[p] \in Verdicts(b)
           /\ p = Len(b) + 1 => Level(b, d)[p] = Again
           /\ p <= Len(b) /\ IsScalar(b[p]) => Level(b, d)[p] = Scalar(b, p)
           /\ p <= Len(b) /\ ~IsScalar(b[p]) /\ b[p] # "*" => Level(b, d)[p] = Declined
           /\ p <= Len(b) /\ b[p] = "*" /\ d = MaxDepth => Level(b, d)[p] = Deep
           /\ p <= Len(b) /\ b[p] = "*" /\ d < MaxDepth =>
                /\ (\A h : ~LineAt(b, p, h)) => Level(b, d)[p] = Again
                /\ \A h : LineAt(b, p, h) =>
                     Level(b, d)[p] =
                       IF Number(b, p, h - 2) = -2 \/ Number(b, p, h - 2) > MaxMembers
                       THEN Declined
                       ELSE IF Number(b, p, h - 2) = -1 THEN Good(h)
                       ELSE Elements(b, Level(b, d + 1), Number(b, p, h - 2), Good(h))
<1>1. /\ Level(b, d) \in Tables(b)
      /\ d = MaxDepth => Level(b, d) = Innermost(b)
      /\ d < MaxDepth => Level(b, d) = Around(b, Level(b, d + 1))
  BY LevelIs
<1>2. Level(b, d)[p] \in Verdicts(b)
  BY <1>1 DEF Tables
<1>3. CASE d < MaxDepth
  <2>1. d + 1 \in 0..MaxDepth
    BY <1>3, FramingAssumption
  <2>2. Level(b, d + 1) \in Tables(b)
    BY <2>1, LevelIs
  <2>3. d # MaxDepth
    BY <1>3, FramingAssumption
  <2> QED BY <1>1, <1>2, <1>3, <2>2, <2>3, AroundIs
<1>4. CASE d = MaxDepth
  <2>1. TooDeep(b) \in Tables(b) /\ ~IsScalar("*") /\ ~(d < MaxDepth)
    BY <1>4, BasesAre, FramingAssumption DEF IsScalar
  <2>2. CASE p <= Len(b) /\ b[p] = "*"
    BY <1>1, <1>2, <1>4, <2>1, <2>2 DEF Innermost
  <2>3. CASE ~(p <= Len(b) /\ b[p] = "*")
    <3>1. Level(b, d)[p] = Around(b, TooDeep(b))[p]
      BY <1>1, <1>4, <2>3 DEF Innermost
    <3> QED BY <1>2, <2>1, <2>3, <3>1, AroundIs
  <2> QED BY <2>2, <2>3
<1> QED BY <1>3, <1>4, FramingAssumption

(* How the counts go. *)
LEMMA UnwindNone ==
    ASSUME NEW b, NEW v, NEW w, Unwinds(b, <<>>, v, w)
    PROVE  w = v
BY DEF Unwinds

LEMMA FirstOf ==
    ASSUME NEW S, NEW q \in Seq(S), NEW m \in 0..Len(q)
    PROVE  /\ SubSeq(q, 1, m) \in Seq(S) /\ Len(SubSeq(q, 1, m)) = m
           /\ \A d \in 1..m : SubSeq(q, 1, m)[d] = q[d]
OBVIOUS

LEMMA UnwindDrop ==
    ASSUME NEW b \in Seq(STRING), NEW rem \in Seq(Nat), rem # <<>>, Top(rem) = 0,
           Len(rem) <= MaxDepth, NEW v, NEW w, Unwinds(b, rem, v, w)
    PROVE  Unwinds(b, SubSeq(rem, 1, Len(rem) - 1), v, w)
<1> DEFINE n == Len(rem)
           r == SubSeq(rem, 1, n - 1)
<1>1. n \in Nat \ {0} /\ n \in 0..MaxDepth /\ n - 1 \in 0..n
  BY FramingAssumption
<1>2. r \in Seq(Nat) /\ Len(r) = n - 1 /\ \A d \in 1..n - 1 : r[d] = rem[d]
  <2> DEFINE k == n - 1
  <2>1. k \in 0..Len(rem)
    BY <1>1
  <2> HIDE DEF k
  <2>2. /\ SubSeq(rem, 1, k) \in Seq(Nat) /\ Len(SubSeq(rem, 1, k)) = k
        /\ \A d \in 1..k : SubSeq(rem, 1, k)[d] = rem[d]
    BY <2>1, FirstOf
  <2> QED BY <2>2 DEF k
<1>3. PICK e \in [0..n -> Verdicts(b)] :
        /\ e[0] = w /\ e[n] = v
        /\ \A d \in 1..n : e[d - 1] = Elements(b, Level(b, d), rem[d], e[d])
  BY DEF Unwinds
<1>4. rem[n] = 0
  BY DEF Top
<1> HIDE DEF n, r
<1>5. e[n - 1] = v
  <2>1. e[n - 1] = Elements(b, Level(b, n), 0, e[n])
    BY <1>1, <1>3, <1>4
  <2>2. e[n] \in Verdicts(b) /\ Level(b, n) \in Tables(b)
    BY <1>1, <1>3, LevelIs
  <2> QED BY <1>3, <2>1, <2>2, ElementsAre
<1> DEFINE g == [d \in 0..n - 1 |-> e[d]]
<1>6. /\ g \in [0..n - 1 -> Verdicts(b)] /\ g[0] = w /\ g[n - 1] = v
      /\ \A d \in 1..n - 1 : g[d - 1] = Elements(b, Level(b, d), r[d], g[d])
  BY <1>1, <1>2, <1>3, <1>5
<1> HIDE DEF g
<1>7. Unwinds(b, r, v, w)
  BY ZenonT(60), <1>2, <1>6 DEF Unwinds
<1> QED BY <1>7 DEF r, n

LEMMA UnwindCount ==
    ASSUME NEW b \in Seq(STRING), NEW rem \in Seq(Nat), rem # <<>>, Top(rem) # 0,
           Len(rem) <= MaxDepth, NEW v \in Verdicts(b), NEW w, Unwinds(b, rem, v, w)
    PROVE  Unwinds(b, Counted(rem), Element(Level(b, Len(rem)), v), w)
<1> DEFINE n == Len(rem)
           r == Counted(rem)
           x == Element(Level(b, n), v)
<1>1. n \in Nat \ {0} /\ n \in 0..MaxDepth
  BY FramingAssumption
<1>2. /\ Len(r) = n /\ rem[n] \in Nat /\ rem[n] # 0 /\ r[n] = rem[n] - 1
      /\ \A d \in 1..n : d # n => r[d] = rem[d]
  BY DEF Counted, Top
<1>3. PICK e \in [0..n -> Verdicts(b)] :
        /\ e[0] = w /\ e[n] = v
        /\ \A d \in 1..n : e[d - 1] = Elements(b, Level(b, d), rem[d], e[d])
  BY DEF Unwinds
<1>4. Level(b, n) \in Tables(b)
  BY <1>1, LevelIs
<1>5. x \in Verdicts(b)
  BY <1>4, ElementsAre
<1> HIDE DEF n, r, x
<1>6. e[n - 1] = Elements(b, Level(b, n), rem[n] - 1, x)
  <2> DEFINE k == rem[n] - 1
  <2>1. k \in Nat /\ k + 1 = rem[n]
    <3> DEFINE top == rem[n]
    <3>1. top \in Nat /\ top # 0
      BY <1>2
    <3> HIDE DEF top
    <3>2. top - 1 \in Nat /\ (top - 1) + 1 = top
      BY <3>1
    <3> QED BY <3>2 DEF top
  <2>2. e[n - 1] = Elements(b, Level(b, n), k + 1, v)
    BY <1>1, <1>3, <2>1
  <2> HIDE DEF k
  <2>3. Elements(b, Level(b, n), k + 1, v) = Elements(b, Level(b, n), k, x)
    BY <1>4, <2>1, ElementsAre DEF x
  <2> QED BY <2>2, <2>3 DEF k
<1> DEFINE g == [e EXCEPT ![n] = x]
<1>7. /\ g \in [0..n -> Verdicts(b)] /\ g[n] = x
      /\ \A d \in 0..n : d # n => g[d] = e[d]
  BY <1>1, <1>3, <1>5
<1> HIDE DEF g
<1>8. \A d \in 1..n : g[d - 1] = Elements(b, Level(b, d), r[d], g[d])
  <2> SUFFICES ASSUME NEW d \in 1..n
               PROVE  g[d - 1] = Elements(b, Level(b, d), r[d], g[d])
    OBVIOUS
  <2>1. d - 1 \in 0..n /\ d - 1 # n /\ d \in 0..n
    BY <1>1
  <2>2. CASE d = n
    BY <1>2, <1>6, <1>7, <2>1, <2>2
  <2>3. CASE d # n
    BY <1>2, <1>3, <1>7, <2>1, <2>3
  <2> QED BY <2>2, <2>3
<1>9. g[0] = w
  BY <1>1, <1>3, <1>7
<1>10. Unwinds(b, r, x, w)
  BY <1>2, <1>7, <1>8, <1>9 DEF Unwinds
<1> QED BY <1>10 DEF r, n, x

LEMMA UnwindOpen ==
    ASSUME NEW b \in Seq(STRING), NEW rem \in Seq(Nat), Len(rem) < MaxDepth,
           NEW k \in Nat, NEW v \in Verdicts(b), NEW w,
           Unwinds(b, rem, Elements(b, Level(b, Len(rem) + 1), k, v), w)
    PROVE  Unwinds(b, Append(rem, k), v, w)
<1> DEFINE n == Len(rem)
           r == Append(rem, k)
<1>1. n \in Nat
  OBVIOUS
<1>2. Len(r) = n + 1 /\ r[n + 1] = k /\ \A d \in 1..n : r[d] = rem[d]
  OBVIOUS
<1>3. PICK e \in [0..n -> Verdicts(b)] :
        /\ e[0] = w /\ e[n] = Elements(b, Level(b, n + 1), k, v)
        /\ \A d \in 1..n : e[d - 1] = Elements(b, Level(b, d), rem[d], e[d])
  BY DEF Unwinds
<1> HIDE DEF n, r
<1> DEFINE g == [d \in 0..n + 1 |-> IF d = n + 1 THEN v ELSE e[d]]
<1>4. /\ g \in [0..n + 1 -> Verdicts(b)] /\ g[n + 1] = v
      /\ \A d \in 0..n : g[d] = e[d]
  BY <1>1, <1>3
<1> HIDE DEF g
<1>5. \A d \in 1..n + 1 : g[d - 1] = Elements(b, Level(b, d), r[d], g[d])
  <2> SUFFICES ASSUME NEW d \in 1..n + 1
               PROVE  g[d - 1] = Elements(b, Level(b, d), r[d], g[d])
    OBVIOUS
  <2>1. CASE d = n + 1
    <3>1. d - 1 = n /\ n \in 0..n
      BY <1>1, <2>1
    <3> QED BY <1>2, <1>3, <1>4, <2>1, <3>1
  <2>2. CASE d # n + 1
    <3>1. d \in 1..n /\ d \in 0..n /\ d - 1 \in 0..n
      BY <1>1, <2>2
    <3> QED BY <1>2, <1>3, <1>4, <3>1
  <2> QED BY <2>1, <2>2
<1>6. g[0] = w
  BY <1>1, <1>3, <1>4
<1>7. Unwinds(b, r, v, w)
  BY <1>2, <1>4, <1>5, <1>6 DEF Unwinds
<1> QED BY <1>7 DEF r

(* What ends the walk says so of the whole array. *)
LEMMA UnwindEnds ==
    ASSUME NEW b \in Seq(STRING), NEW rem \in Seq(Nat), Len(rem) <= MaxDepth,
           NEW v \in Verdicts(b), v.rc # "ok", NEW w, Unwinds(b, rem, v, w)
    PROVE  w = v
<1> DEFINE n == Len(rem)
<1>1. n \in Nat /\ n \in 0..MaxDepth
  BY FramingAssumption
<1>2. PICK e \in [0..n -> Verdicts(b)] :
        /\ e[0] = w /\ e[n] = v
        /\ \A d \in 1..n : e[d - 1] = Elements(b, Level(b, d), rem[d], e[d])
  BY DEF Unwinds
<1>3. \A d \in 1..n : rem[d] \in Nat
  OBVIOUS
<1> HIDE DEF n
<1> DEFINE T == {k \in Nat : k <= n => e[n - k] = v}
<1>4. 0 \in T
  BY <1>1, <1>2
<1>5. ASSUME NEW k \in T PROVE k + 1 \in T
  <2> SUFFICES ASSUME k + 1 <= n PROVE e[n - (k + 1)] = v
    OBVIOUS
  <2>1. n - k \in 1..n /\ n - (k + 1) = (n - k) - 1 /\ e[n - k] = v
    BY <1>1
  <2>2. e[n - (k + 1)] = Elements(b, Level(b, n - k), rem[n - k], v)
    BY <1>2, <2>1
  <2>3. Level(b, n - k) \in Tables(b) /\ rem[n - k] \in Nat
    <3>1. n - k \in 0..MaxDepth
      BY <1>1, <2>1, FramingAssumption
    <3> QED BY <1>3, <2>1, <3>1, LevelIs
  <2> QED BY <2>2, <2>3, ElementsAre
<1>6. T = Nat
  <2> HIDE DEF T
  <2> QED BY <1>4, <1>5, SetInduction DEF T
<1>7. e[n - n] = v /\ n - n = 0
  BY <1>1, <1>6
<1> QED BY <1>2, <1>7

-----------------------------------------------------------------------------
(* A turn of the walk's loop. *)

LEMMA WalkRecords ==
    /\ \A p, rem : /\ Short(p, rem).rc = "again" /\ Whole(p).rc = "ok"
                   /\ At(p, rem).rc = "go"
                   /\ Short(p, rem).next = p /\ Whole(p).next = p /\ At(p, rem).next = p
                   /\ At(p, rem).remain = rem /\ Short(p, rem).remain = rem
                   /\ Whole(p).remain = <<>>
    /\ Bad.rc = "declined" /\ Bad.next = 1 /\ Bad.remain = <<>>
    /\ \A p : Good(p).rc = "ok" /\ Good(p).next = p
    /\ Again.rc = "again" /\ Declined.rc = "declined" /\ Deep.rc = "deep"
BY DEF Short, Whole, At, Bad, Good, Again, Declined, Deep

(* In front of an element it sees what one call sees there: too little,     *)
(* nothing acceptable, a whole one, or an array's header.                   *)
Opens(b, p, rem, q, v) ==
    /\ p <= Len(b) /\ b[p] = "*" /\ LineAt(b, p, q) /\ Number(b, p, q - 2) = v
    /\ v \in Nat \ {0} /\ v <= MaxMembers /\ Len(rem) < MaxDepth
    /\ ScanStep(b, p, rem) = At(q, Append(Counted(rem), v))

LEMMA TurnIs ==
    ASSUME NEW b \in Seq(STRING), NEW p \in 1..Len(b) + 1,
           NEW rem \in Seq(Nat), Len(rem) <= MaxDepth
    PROVE  /\ rem = <<>> => ScanStep(b, p, rem) = Whole(p)
           /\ rem # <<>> /\ Top(rem) = 0 =>
                ScanStep(b, p, rem) = At(p, SubSeq(rem, 1, Len(rem) - 1))
           /\ rem # <<>> /\ Top(rem) # 0 =>
                \/ ScanStep(b, p, rem) = Short(p, rem) /\ Level(b, Len(rem))[p] = Again
                \/ /\ ScanStep(b, p, rem) = Bad
                   /\ Level(b, Len(rem))[p] \in {Declined, Deep}
                \/ \E q \in p + 3..Len(b) + 1 :
                     /\ ScanStep(b, p, rem) = At(q, Counted(rem))
                     /\ Level(b, Len(rem))[p] = Good(q)
                \/ \E q \in p + 3..Len(b) + 1, v \in Nat : Opens(b, p, rem, q, v)
<1> DEFINE cr == CrFrom(b, p + 1)
           n == Number(b, p, cr)
           one == Scalar(b, p)
           r == ScanStep(b, p, rem)
           d == Len(rem)
           c == Level(b, d)[p]
<1>1. /\ cr \in Nat /\ (Ended(b, cr) => LineAt(b, p, cr + 2))
      /\ \A h : LineAt(b, p, h) => h = cr + 2 /\ Ended(b, cr)
  BY HeaderIs
<1>2. r = IF rem = <<>> THEN Whole(p)
          ELSE IF Top(rem) = 0 THEN At(p, SubSeq(rem, 1, Len(rem) - 1))
          ELSE IF p > Len(b) THEN Short(p, rem)
          ELSE IF IsScalar(b[p])
          THEN IF one.rc = "again" THEN Short(p, rem)
               ELSE IF one.rc = "declined" THEN Bad
               ELSE At(one.next, Counted(rem))
          ELSE IF b[p] # "*" \/ Len(rem) >= MaxDepth THEN Bad
          ELSE IF ~Ended(b, cr) THEN Short(p, rem)
          ELSE IF n = -2 THEN Bad
          ELSE IF n \in {-1, 0} THEN At(cr + 2, Counted(rem))
          ELSE IF n > MaxMembers THEN Bad
          ELSE At(cr + 2, Append(Counted(rem), n))
  BY DEF ScanStep, Pending
<1>3. d \in 0..MaxDepth /\ MaxDepth \in Nat /\ MaxMembers \in Nat
  BY FramingAssumption
<1>4. ASSUME rem # <<>>, Top(rem) # 0
      PROVE  \/ r = Short(p, rem) /\ c = Again
             \/ r = Bad /\ c \in {Declined, Deep}
             \/ \E q \in p + 3..Len(b) + 1 : r = At(q, Counted(rem)) /\ c = Good(q)
             \/ \E q \in p + 3..Len(b) + 1, v \in Nat : Opens(b, p, rem, q, v)
  <2> HIDE DEF r, c, cr, n, one, d
  <2>1. CASE p = Len(b) + 1
    <3>1. p > Len(b)
      BY <2>1
    <3>2. c = Again
      BY <1>3, <2>1, CallIs DEF c
    <3> QED BY <1>2, <1>4, <3>1, <3>2
  <2>2. CASE p <= Len(b) /\ IsScalar(b[p])
    <3>1. ~(p > Len(b)) /\ p \in 1..Len(b) /\ c = one
      BY <1>3, <2>2, CallIs DEF c, one
    <3>2. r = IF one.rc = "again" THEN Short(p, rem)
              ELSE IF one.rc = "declined" THEN Bad ELSE At(one.next, Counted(rem))
      BY <1>2, <1>4, <2>2, <3>1
    <3>3. \/ one \in {Again, Declined} \/ \E q \in p + 3..Len(b) + 1 : one = Good(q)
      BY <3>1, ScalarType DEF one
    <3> QED BY <3>1, <3>2, <3>3, WalkRecords
  <2>3. CASE p <= Len(b) /\ ~IsScalar(b[p]) /\ b[p] # "*"
    <3>1. ~(p > Len(b)) /\ c = Declined
      BY <1>3, <2>3, CallIs DEF c
    <3> QED BY <1>2, <1>4, <2>3, <3>1
  <2>4. CASE p <= Len(b) /\ b[p] = "*" /\ d = MaxDepth
    <3>1. ~(p > Len(b)) /\ ~IsScalar("*") /\ c = Deep /\ Len(rem) >= MaxDepth
      BY <1>3, <2>4, CallIs DEF c, IsScalar, d
    <3> QED BY <1>2, <1>4, <2>4, <3>1
  <2>5. CASE p <= Len(b) /\ b[p] = "*" /\ d < MaxDepth
    <3>1. ~(p > Len(b)) /\ ~IsScalar("*") /\ ~(Len(rem) >= MaxDepth)
      BY <1>3, <2>5 DEF IsScalar, d
    <3>2. r = IF ~Ended(b, cr) THEN Short(p, rem)
              ELSE IF n = -2 THEN Bad
              ELSE IF n \in {-1, 0} THEN At(cr + 2, Counted(rem))
              ELSE IF n > MaxMembers THEN Bad
              ELSE At(cr + 2, Append(Counted(rem), n))
      BY <1>2, <1>4, <2>5, <3>1
    <3>3. CASE ~Ended(b, cr)
      <4>1. \A h : ~LineAt(b, p, h)
        BY <1>1, <3>3
      <4>2. c = Again
        BY <1>3, <2>5, <4>1, CallIs DEF c
      <4> QED BY <3>2, <3>3, <4>2
    <3>4. CASE Ended(b, cr)
      <4> DEFINE h == cr + 2
      <4>1. LineAt(b, p, h) /\ h - 2 = cr
        BY <1>1, <3>4
      <4> HIDE DEF h
      <4>2. h \in p + 3..Len(b) + 1 /\ n \in Nat \cup {-1, -2} /\ n = Number(b, p, h - 2)
        BY <4>1, NumberIs DEF n
      <4>3. c = IF n = -2 \/ n > MaxMembers THEN Declined
                ELSE IF n = -1 THEN Good(h) ELSE Elements(b, Level(b, d + 1), n, Good(h))
        BY ZenonT(30), <1>3, <2>5, <4>1, <4>2, CallIs DEF c
      <4>4. r = IF n = -2 THEN Bad
                ELSE IF n \in {-1, 0} THEN At(h, Counted(rem))
                ELSE IF n > MaxMembers THEN Bad
                ELSE At(h, Append(Counted(rem), n))
        BY <3>2, <3>4 DEF h
      <4>5. CASE n = -2
        BY <4>3, <4>4, <4>5
      <4>6. CASE n = -1
        BY <1>3, <4>2, <4>3, <4>4, <4>6
      <4>7. CASE n = 0
        <5>1. Level(b, d + 1) \in Tables(b) /\ Good(h) \in Verdicts(b)
          <6>1. d + 1 \in 0..MaxDepth
            BY <1>3, <2>5
          <6>2. h \in 1..Len(b) + 1
            BY <4>2
          <6> QED BY <6>1, <6>2, LevelIs, VerdictsAre
        <5>2. c = Good(h)
          BY <1>3, <4>3, <4>7, <5>1, ElementsAre
        <5> QED BY <4>2, <4>4, <4>7, <5>2
      <4>8. CASE n \in Nat \ {0} /\ n > MaxMembers
        BY <4>3, <4>4, <4>8
      <4>9. CASE n \in Nat \ {0} /\ ~(n > MaxMembers)
        <5>1. r = At(h, Append(Counted(rem), n)) /\ n <= MaxMembers /\ n \in Nat
          BY <1>3, <4>4, <4>9
        <5>2. Opens(b, p, rem, h, n)
          BY <2>5, <4>1, <4>2, <4>9, <5>1 DEF Opens, r, d
        <5> QED BY <4>2, <5>1, <5>2
      <4> QED BY <4>2, <4>5, <4>6, <4>7, <4>8, <4>9
    <3> QED BY <3>3, <3>4
  <2> QED BY <1>3, <2>1, <2>2, <2>3, <2>4, <2>5
<1>5. rem = <<>> => r = Whole(p)
  BY <1>2
<1>6. rem # <<>> /\ Top(rem) = 0 => r = At(p, SubSeq(rem, 1, Len(rem) - 1))
  BY <1>2
<1> QED BY <1>4, <1>5, <1>6

LEMMA CountedIs ==
    ASSUME NEW rem \in Seq(Nat), rem # <<>>, Top(rem) # 0
    PROVE  Counted(rem) \in Seq(Nat) /\ Len(Counted(rem)) = Len(rem)
<1> DEFINE n == Len(rem)
<1>1. n \in Nat /\ n \in 1..n /\ rem \in [1..n -> Nat] /\ rem[n] # 0
  BY DEF Top
<1>2. rem[n] - 1 \in Nat
  BY <1>1
<1>3. Counted(rem) \in [1..n -> Nat]
  BY <1>1, <1>2 DEF Counted
<1> QED BY <1>1, <1>3

(* What a turn said of a prefix, the level says of all that goes on behind. *)
LEMMA LevelSaid ==
    ASSUME NEW b \in Seq(STRING), NEW m \in 0..Len(b), NEW p \in 1..m + 1,
           NEW d \in 0..MaxDepth, Level(SubSeq(b, 1, m), d)[p] # Again
    PROVE  Level(b, d)[p] = Level(SubSeq(b, 1, m), d)[p]
<1> DEFINE a == SubSeq(b, 1, m)
<1>1. a \in Seq(STRING) /\ Len(a) = m /\ MaxDepth - d \in Nat
  BY PrefixIs, FramingAssumption
<1>2. Innermost(a) \in Tables(a) /\ Innermost(b) \in Tables(b)
  BY <1>1, BasesAre
<1>3. SaidBut(Again, a, Innermost(a), Innermost(b))
  BY BasesSaid
<1>4. SaidBut(Again, a, Framed(a, MaxDepth - d, Innermost(a)),
              Framed(b, MaxDepth - d, Innermost(b)))
  BY <1>1, <1>2, <1>3, FramedSaid
<1> QED BY <1>1, <1>4 DEF SaidBut, Level

(* A turn that goes on keeps what is to be said of all that goes on behind. *)
LEMMA GoKeeps ==
    ASSUME NEW b \in Seq(STRING), NEW m \in 0..Len(b), NEW p \in 1..m + 1,
           NEW rem \in Seq(Nat), Len(rem) <= MaxDepth, NEW w,
           Unwinds(b, rem, Good(p), w),
           ScanStep(SubSeq(b, 1, m), p, rem).rc = "go"
    PROVE  LET r == ScanStep(SubSeq(b, 1, m), p, rem) IN
           /\ r = At(r.next, r.remain) /\ r.next \in 1..m + 1
           /\ r.remain \in Seq(Nat) /\ Len(r.remain) <= MaxDepth
           /\ (m + 1 - r.next) + Len(r.remain) < (m + 1 - p) + Len(rem)
           /\ Unwinds(b, r.remain, Good(r.next), w)
<1> DEFINE a == SubSeq(b, 1, m)
           r == ScanStep(a, p, rem)
           d == Len(rem)
<1>1. a \in Seq(STRING) /\ Len(a) = m /\ \A i \in 1..m : a[i] = b[i]
  BY PrefixIs
<1>2. d \in 0..MaxDepth /\ MaxDepth \in Nat
  BY FramingAssumption
<1>3. p \in 1..Len(a) + 1 /\ p \in 1..Len(b) + 1 /\ Good(p) \in Verdicts(b)
  BY <1>1, VerdictsAre
<1>4. \A h : /\ LineAt(a, p, h) <=> LineAt(b, p, h) /\ h <= m + 1
             /\ LineAt(a, p, h) => Number(a, p, h - 2) = Number(b, p, h - 2)
  BY LinePrefix
<1>5. Level(a, d)[p] # Again => Level(b, d)[p] = Level(a, d)[p]
  BY <1>2, LevelSaid
<1>6. r.rc = "go"
  OBVIOUS
<1> HIDE DEF a
<1>7. /\ rem = <<>> => r = Whole(p)
      /\ rem # <<>> /\ Top(rem) = 0 => r = At(p, SubSeq(rem, 1, Len(rem) - 1))
      /\ rem # <<>> /\ Top(rem) # 0 =>
                \/ r = Short(p, rem) /\ Level(a, d)[p] = Again
                \/ r = Bad /\ Level(a, d)[p] \in {Declined, Deep}
                \/ \E q \in p + 3..Len(a) + 1 :
                     r = At(q, Counted(rem)) /\ Level(a, d)[p] = Good(q)
                \/ \E q \in p + 3..Len(a) + 1, v \in Nat : Opens(a, p, rem, q, v)
  BY <1>1, <1>3, TurnIs
<1> HIDE DEF r
<1> DEFINE Kept == /\ r = At(r.next, r.remain) /\ r.next \in 1..m + 1
                   /\ r.remain \in Seq(Nat) /\ Len(r.remain) <= MaxDepth
                   /\ (m + 1 - r.next) + Len(r.remain) < (m + 1 - p) + Len(rem)
                   /\ Unwinds(b, r.remain, Good(r.next), w)
<1>8. rem # <<>>
  BY <1>6, <1>7, WalkRecords
<1>9. ASSUME Top(rem) = 0 PROVE Kept
  <2> DEFINE k == SubSeq(rem, 1, Len(rem) - 1)
  <2>1. r = At(p, k)
    BY <1>7, <1>8, <1>9
  <2>2. Len(rem) - 1 \in 0..Len(rem)
    BY <1>8
  <2>3. k \in Seq(Nat) /\ Len(k) = Len(rem) - 1
    BY <2>2, FirstOf
  <2>4. Unwinds(b, k, Good(p), w)
    BY <1>8, <1>9, UnwindDrop
  <2> HIDE DEF k
  <2>5. r.next = p /\ r.remain = k
    BY <2>1, WalkRecords
  <2>6. (m + 1 - p) + Len(k) < (m + 1 - p) + Len(rem) /\ Len(k) <= MaxDepth
    BY <1>2, <2>3
  <2> QED BY <2>1, <2>3, <2>4, <2>5, <2>6
<1>10. ASSUME Top(rem) # 0 PROVE Kept
  <2> DEFINE k == Counted(rem)
  <2>1. k \in Seq(Nat) /\ Len(k) = Len(rem)
    BY <1>8, <1>10, CountedIs
  <2>2. Unwinds(b, k, Element(Level(b, d), Good(p)), w)
    BY <1>3, <1>8, <1>10, UnwindCount
  <2>3. Element(Level(b, d), Good(p)) = Level(b, d)[p]
    BY WalkRecords DEF Element
  <2> HIDE DEF k
  <2>4. ASSUME NEW q \in p + 3..Len(a) + 1, r = At(q, k), Level(a, d)[p] = Good(q)
        PROVE  Kept
    <3>1. Level(b, d)[p] = Good(q)
      BY <1>5, <2>4, WalkRecords
    <3>2. Unwinds(b, k, Good(q), w)
      BY <2>2, <2>3, <3>1
    <3>3. r.next = q /\ r.remain = k
      BY <2>4, WalkRecords
    <3>4. q \in 1..m + 1 /\ (m + 1 - q) + Len(k) < (m + 1 - p) + Len(rem)
      BY <1>1, <2>1
    <3> QED BY <2>1, <2>4, <3>2, <3>3, <3>4
  <2>5. ASSUME NEW q \in p + 3..Len(a) + 1, NEW v \in Nat, Opens(a, p, rem, q, v)
        PROVE  Kept
    <3>1. /\ p <= Len(a) /\ a[p] = "*" /\ LineAt(a, p, q) /\ Number(a, p, q - 2) = v
          /\ v # 0 /\ v <= MaxMembers /\ Len(rem) < MaxDepth
          /\ r = At(q, Append(k, v))
      BY <2>5 DEF Opens, r, k
    <3>2. /\ p <= Len(b) /\ b[p] = "*" /\ LineAt(b, p, q) /\ Number(b, p, q - 2) = v
      BY <1>1, <1>4, <3>1
    <3>3. q \in 1..m + 1 /\ q \in 1..Len(b) + 1 /\ v # -2 /\ v # -1 /\ ~(v > MaxMembers)
      BY <1>1, <3>1, FramingAssumption
    <3>4. Level(b, d)[p] = Elements(b, Level(b, d + 1), v, Good(q))
      BY <1>2, <1>3, <3>1, <3>2, <3>3, CallIs
    <3>5. Unwinds(b, k, Elements(b, Level(b, Len(k) + 1), v, Good(q)), w)
      BY <2>1, <2>2, <2>3, <3>4
    <3>6. Good(q) \in Verdicts(b)
      BY <3>3, VerdictsAre
    <3>7. Unwinds(b, Append(k, v), Good(q), w)
      BY <2>1, <3>1, <3>5, <3>6, UnwindOpen
    <3>8. r.next = q /\ r.remain = Append(k, v)
      <4> DEFINE longer == Append(k, v)
      <4>1. r = At(q, longer)
        BY <3>1
      <4> HIDE DEF longer
      <4>2. r.next = q /\ r.remain = longer
        BY <4>1, WalkRecords
      <4> QED BY <4>2 DEF longer
    <3>9. Append(k, v) \in Seq(Nat) /\ Len(Append(k, v)) = Len(rem) + 1
      BY <2>1
    <3>10. (m + 1 - q) + (Len(rem) + 1) < (m + 1 - p) + Len(rem)
      BY <1>1
    <3>11. Len(rem) + 1 <= MaxDepth
      BY <1>2, <3>1
    <3>12. r = At(r.next, r.remain)
      BY <3>1, <3>8
    <3> QED BY <3>3, <3>7, <3>8, <3>9, <3>10, <3>11, <3>12
  <2> QED BY <1>6, <1>7, <1>8, <1>10, <2>4, <2>5, WalkRecords DEF k
<1>11. Kept
  BY <1>9, <1>10
<1> QED BY <1>11 DEF r, a

(* A turn that ends the walk says what is to be said of the bytes so far.   *)
LEMMA EndSays ==
    ASSUME NEW b \in Seq(STRING), NEW p \in 1..Len(b) + 1,
           NEW rem \in Seq(Nat), Len(rem) <= MaxDepth, NEW w,
           Unwinds(b, rem, Good(p), w), ScanStep(b, p, rem).rc # "go"
    PROVE  \/ ScanStep(b, p, rem) = Short(p, rem) /\ w = Again
           \/ ScanStep(b, p, rem) = Whole(p) /\ w = Good(p)
           \/ ScanStep(b, p, rem) = Bad /\ w \in {Declined, Deep}
<1> DEFINE r == ScanStep(b, p, rem)
           d == Len(rem)
<1>1. d \in 0..MaxDepth /\ Good(p) \in Verdicts(b)
  BY FramingAssumption, VerdictsAre
<1>2. /\ rem = <<>> => r = Whole(p)
      /\ rem # <<>> /\ Top(rem) = 0 => r = At(p, SubSeq(rem, 1, Len(rem) - 1))
      /\ rem # <<>> /\ Top(rem) # 0 =>
                \/ r = Short(p, rem) /\ Level(b, d)[p] = Again
                \/ r = Bad /\ Level(b, d)[p] \in {Declined, Deep}
                \/ \E q \in p + 3..Len(b) + 1 :
                     r = At(q, Counted(rem)) /\ Level(b, d)[p] = Good(q)
                \/ \E q \in p + 3..Len(b) + 1, v \in Nat : Opens(b, p, rem, q, v)
  BY TurnIs
<1>3. \A q, v : Opens(b, p, rem, q, v) => r.rc = "go"
  BY WalkRecords DEF Opens
<1>4. r.rc # "go"
  OBVIOUS
<1> HIDE DEF r
<1>5. CASE rem = <<>>
  BY <1>2, <1>5, UnwindNone DEF r
<1>6. CASE rem # <<>>
  <2>1. Top(rem) # 0
    BY <1>2, <1>4, <1>6, WalkRecords
  <2> DEFINE c == Level(b, d)[p]
  <2>2. \/ r = Short(p, rem) /\ c = Again
        \/ r = Bad /\ c \in {Declined, Deep}
    BY <1>2, <1>3, <1>4, <1>6, <2>1, WalkRecords
  <2>3. Element(Level(b, d), Good(p)) = c
    BY WalkRecords DEF Element
  <2> HIDE DEF c
  <2>4. Unwinds(b, Counted(rem), c, w)
    BY <1>1, <1>6, <2>1, <2>3, UnwindCount
  <2>5. Counted(rem) \in Seq(Nat) /\ Len(Counted(rem)) <= MaxDepth
    BY <1>6, <2>1, CountedIs
  <2>6. c \in Verdicts(b) /\ c.rc # "ok"
    BY <2>2, VerdictsAre, WalkRecords
  <2>7. w = c
    BY <2>4, <2>5, <2>6, UnwindEnds
  <2> QED BY <2>2, <2>7 DEF r
<1> QED BY <1>5, <1>6

-----------------------------------------------------------------------------
(* The walk as a whole.  Of s, m bytes have been received: where the walk    *)
(* is, what it has left to count follows for everything that may come next; *)
(* and its verdict is that of one walk over the m bytes.                    *)

Follows(s, m, p, rem) ==
    /\ p \in 1..m + 1 /\ rem \in Seq(Nat) /\ Len(rem) <= MaxDepth
    /\ \A n \in m..Len(s) : Unwinds(SubSeq(s, 1, n), rem, Good(p),
                                    FrameToDeep(SubSeq(s, 1, n), 1))

WalkSays(s, m, r) ==
    LET w == FrameToDeep(SubSeq(s, 1, m), 1) IN
    \/ r = Short(r.next, r.remain) /\ w = Again /\ Follows(s, m, r.next, r.remain)
    \/ r = Whole(r.next) /\ r.next \in 1..m + 1 /\ w = Good(r.next)
    \/ r = Bad /\ w \in {Declined, Deep}

LEMMA PrefixOf ==
    ASSUME NEW s \in Seq(STRING), NEW n \in 0..Len(s), NEW m \in 0..n
    PROVE  /\ SubSeq(s, 1, n) \in Seq(STRING) /\ Len(SubSeq(s, 1, n)) = n
           /\ SubSeq(SubSeq(s, 1, n), 1, m) = SubSeq(s, 1, m)
BY PrefixIs

LEMMA WalkedAre ==
    ASSUME NEW p \in Nat, NEW rem \in Seq(Nat)
    PROVE  {At(p, rem), Short(p, rem), Whole(p), Bad} \subseteq Walked
BY DEF At, Short, Whole, Bad, Walked

LEMMA TurnSays ==
    ASSUME NEW s \in Seq(STRING), NEW m \in 1..Len(s), NEW p, NEW rem,
           Follows(s, m, p, rem)
    PROVE  LET r == ScanStep(SubSeq(s, 1, m), p, rem) IN
           /\ r \in Walked
           /\ r.rc = "go" =>
                /\ r = At(r.next, r.remain) /\ Follows(s, m, r.next, r.remain)
                /\ (m + 1 - r.next) + Len(r.remain) < (m + 1 - p) + Len(rem)
           /\ r.rc # "go" => WalkSays(s, m, r)
<1> DEFINE a == SubSeq(s, 1, m)
           r == ScanStep(a, p, rem)
<1>1. /\ p \in 1..m + 1 /\ rem \in Seq(Nat) /\ Len(rem) <= MaxDepth
      /\ \A n \in m..Len(s) : Unwinds(SubSeq(s, 1, n), rem, Good(p),
                                    FrameToDeep(SubSeq(s, 1, n), 1))
  BY DEF Follows
<1>2. CASE r.rc = "go"
  <2>1. ASSUME NEW n \in m..Len(s)
        PROVE  /\ r = At(r.next, r.remain) /\ r.next \in 1..m + 1
               /\ r.remain \in Seq(Nat) /\ Len(r.remain) <= MaxDepth
               /\ (m + 1 - r.next) + Len(r.remain) < (m + 1 - p) + Len(rem)
               /\ Unwinds(SubSeq(s, 1, n), r.remain, Good(r.next),
                          FrameToDeep(SubSeq(s, 1, n), 1))
    <3> DEFINE b == SubSeq(s, 1, n)
               w == FrameToDeep(b, 1)
    <3>1. n \in 0..Len(s) /\ m \in 0..n
      OBVIOUS
    <3>2. b \in Seq(STRING) /\ Len(b) = n /\ SubSeq(b, 1, m) = a /\ m \in 0..Len(b)
      BY <3>1, PrefixOf
    <3>3. Unwinds(b, rem, Good(p), w)
      BY <1>1
    <3> HIDE DEF b, w, a
    <3>4. /\ r = At(r.next, r.remain) /\ r.next \in 1..m + 1
          /\ r.remain \in Seq(Nat) /\ Len(r.remain) <= MaxDepth
          /\ (m + 1 - r.next) + Len(r.remain) < (m + 1 - p) + Len(rem)
          /\ Unwinds(b, r.remain, Good(r.next), w)
      BY <1>1, <1>2, <3>2, <3>3, GoKeeps
    <3> QED BY <3>4 DEF b, w, a
  <2>2. m \in m..Len(s)
    OBVIOUS
  <2> HIDE DEF r
  <2>3. /\ r = At(r.next, r.remain) /\ r.next \in 1..m + 1
        /\ r.remain \in Seq(Nat) /\ Len(r.remain) <= MaxDepth
        /\ (m + 1 - r.next) + Len(r.remain) < (m + 1 - p) + Len(rem)
    BY <2>1, <2>2
  <2>4. Follows(s, m, r.next, r.remain)
    BY <2>1, <2>3 DEF Follows
  <2>5. r \in Walked
    <3>1. r.next \in Nat
      BY <2>3
    <3> QED BY <2>3, <3>1, WalkedAre
  <2> QED BY <1>2, <2>3, <2>4, <2>5 DEF r, a
<1>3. CASE r.rc # "go"
  <2> DEFINE w == FrameToDeep(a, 1)
  <2>1. a \in Seq(STRING) /\ Len(a) = m
    BY PrefixIs
  <2>2. Unwinds(a, rem, Good(p), w)
    <3>1. m \in m..Len(s)
      OBVIOUS
    <3> QED BY <1>1, <3>1
  <2> HIDE DEF a, w
  <2>3. p \in 1..Len(a) + 1 /\ p \in Nat
    BY <1>1, <2>1
  <2>4. \/ r = Short(p, rem) /\ w = Again
        \/ r = Whole(p) /\ w = Good(p)
        \/ r = Bad /\ w \in {Declined, Deep}
    BY <1>1, <1>3, <2>1, <2>2, <2>3, EndSays
  <2> HIDE DEF r
  <2>5. r \in Walked
    BY <1>1, <2>3, <2>4, WalkedAre
  <2>6. WalkSays(s, m, r)
    BY <1>1, <2>4, WalkRecords DEF WalkSays, w, a
  <2> QED BY <1>3, <2>5, <2>6 DEF r, a
<1> QED BY <1>2, <1>3

LEMMA ResumeSays ==
    ASSUME NEW s \in Seq(STRING), NEW m \in 1..Len(s), NEW p, NEW rem,
           Follows(s, m, p, rem)
    PROVE  WalkSays(s, m, ResumeAt(SubSeq(s, 1, m), p, rem))
<1> DEFINE a == SubSeq(s, 1, m)
           f == [x \in Walked |-> IF x.rc = "go" THEN ScanStep(a, x.next, x.remain) ELSE x]
           N == m + MaxDepth + 1
           Going(x, i) == /\ x = At(x.next, x.remain) /\ Follows(s, m, x.next, x.remain)
                          /\ (m + 1 - x.next) + Len(x.remain) <= N - 1 - i
           J == [i \in Nat |-> {x \in Walked : \/ x.rc = "go" /\ Going(x, i)
                                               \/ x.rc # "go" /\ WalkSays(s, m, x)}]
<1>1. MaxDepth \in Nat /\ N \in Nat /\ Len(a) = m
  BY FramingAssumption, PrefixIs
<1>2. p \in 1..m + 1 /\ p \in Nat /\ rem \in Seq(Nat) /\ Len(rem) <= MaxDepth
  BY DEF Follows
<1>3. At(p, rem) \in J[0]
  <2>1. (m + 1 - p) + Len(rem) <= N - 1 - 0
    BY <1>1, <1>2
  <2>2. At(p, rem) \in Walked
    BY <1>2, WalkedAre
  <2>3. LET x == At(p, rem) IN x.rc = "go" /\ x.next = p /\ x.remain = rem
    BY WalkRecords
  <2>4. J[0] = {x \in Walked : \/ x.rc = "go" /\ Going(x, 0)
                               \/ x.rc # "go" /\ WalkSays(s, m, x)}
    OBVIOUS
  <2> QED BY <2>1, <2>2, <2>3, <2>4
<1>4. ASSUME NEW i \in 0..(N - 1), NEW x \in J[i] PROVE f[x] \in J[i + 1]
  <2>1. /\ x \in Walked
        /\ x.rc = "go" => Going(x, i)
        /\ x.rc # "go" => WalkSays(s, m, x)
    BY <1>1
  <2>2. J[i + 1] = {y \in Walked : \/ y.rc = "go" /\ Going(y, i + 1)
                                   \/ y.rc # "go" /\ WalkSays(s, m, y)}
    BY <1>1
  <2>3. CASE x.rc # "go"
    <3>1. f[x] = x
      BY <2>1, <2>3
    <3> QED BY <2>1, <2>2, <2>3, <3>1
  <2>4. CASE x.rc = "go"
    <3> DEFINE y == ScanStep(a, x.next, x.remain)
    <3>1. f[x] = y
      BY <2>1, <2>4
    <3>2. /\ y \in Walked
          /\ y.rc = "go" =>
                /\ y = At(y.next, y.remain) /\ Follows(s, m, y.next, y.remain)
                /\ (m + 1 - y.next) + Len(y.remain) < (m + 1 - x.next) + Len(x.remain)
          /\ y.rc # "go" => WalkSays(s, m, y)
      BY <2>1, <2>4, TurnSays
    <3> HIDE DEF y
    <3>3. ASSUME y.rc = "go" PROVE Going(y, i + 1)
      <4>1. /\ x.next \in 1..m + 1 /\ x.remain \in Seq(Nat)
            /\ y.next \in 1..m + 1 /\ y.remain \in Seq(Nat)
        BY <2>1, <2>4, <3>2, <3>3 DEF Follows
      <4>2. /\ Len(x.remain) \in Nat /\ Len(y.remain) \in Nat
            /\ (m + 1 - x.next) + Len(x.remain) <= N - 1 - i
        BY <2>1, <2>4, <4>1
      <4> DEFINE u == Len(x.remain)
                 v == Len(y.remain)
                 k == x.next
                 l == y.next
      <4>3. /\ u \in Nat /\ v \in Nat /\ k \in 1..m + 1 /\ l \in 1..m + 1
            /\ (m + 1 - k) + u <= N - 1 - i /\ (m + 1 - l) + v < (m + 1 - k) + u
        BY <3>2, <3>3, <4>1, <4>2
      <4> HIDE DEF u, v, k, l, N
      <4>4. (m + 1 - l) + v <= N - 1 - (i + 1)
        BY <1>1, <4>3
      <4> QED BY <3>2, <3>3, <4>4 DEF v, l
    <3> QED BY <2>2, <3>1, <3>2, <3>3
  <2> QED BY <2>3, <2>4
<1>5. J[N] = {x \in Walked : \/ x.rc = "go" /\ Going(x, N)
                             \/ x.rc # "go" /\ WalkSays(s, m, x)}
  BY <1>1
<1> DEFINE r == Iterated(f, N, At(p, rem))
<1> HIDE DEF f, J
<1>6. r \in J[N]
  <2> HIDE DEF N
  <2> QED BY <1>1, <1>3, <1>4, IteratedThrough
<1>7. ResumeAt(a, p, rem) = r
  BY <1>1 DEF ResumeAt, f
<1> HIDE DEF r
<1>8. ~(r.rc = "go" /\ Going(r, N))
  <2> SUFFICES ASSUME r.rc = "go", Going(r, N) PROVE FALSE
    OBVIOUS
  <2>1. /\ r.next \in 1..m + 1 /\ r.remain \in Seq(Nat)
        /\ (m + 1 - r.next) + Len(r.remain) <= N - 1 - N
    BY DEF Follows
  <2> DEFINE u == Len(r.remain)
             k == r.next
  <2>2. u \in Nat /\ k \in 1..m + 1 /\ (m + 1 - k) + u <= N - 1 - N
    BY <2>1
  <2> HIDE DEF u, k, N
  <2> QED BY <1>1, <2>2
<1> QED BY <1>5, <1>6, <1>7, <1>8

LEMMA PrologueSays ==
    ASSUME NEW s \in Seq(STRING), NEW m \in 1..Len(s)
    PROVE  LET a == SubSeq(s, 1, m) IN
           /\ s[1] # "*" => Prologue(a) = Bad
           /\ s[1] = "*" => \/ WalkSays(s, m, Prologue(a))
                            \/ Prologue(a) = Short(1, <<>>) /\ FrameToDeep(a, 1) = Again
<1> DEFINE a == SubSeq(s, 1, m)
           cr == CrFrom(a, 2)
           v == Number(a, 1, cr)
           r == Prologue(a)
           w == FrameToDeep(a, 1)
<1>1. a \in Seq(STRING) /\ Len(a) = m /\ a[1] = s[1] /\ a # <<>>
  <2>1. m \in 0..Len(s) /\ 1 \in 1..m
    OBVIOUS
  <2>2. a \in Seq(STRING) /\ Len(a) = m /\ \A i \in 1..m : a[i] = s[i]
    BY <2>1, PrefixIs
  <2> HIDE DEF a
  <2> QED BY <2>1, <2>2
<1>2. r = IF a[1] # "*" THEN Bad
          ELSE IF ~Ended(a, cr) THEN Short(1, <<>>)
          ELSE IF v = -2 \/ v > MaxMembers THEN Bad
          ELSE IF v = -1 THEN Whole(cr + 2)
          ELSE ResumeAt(a, cr + 2, <<v>>)
  BY <1>1 DEF Prologue
<1>3. /\ cr \in Nat /\ (Ended(a, cr) => LineAt(a, 1, cr + 2))
      /\ \A h : LineAt(a, 1, h) => h = cr + 2 /\ Ended(a, cr)
  <2>1. 1 + 1 = 2 /\ 1 \in Nat
    OBVIOUS
  <2> DEFINE one == 1
  <2>2. one \in Nat /\ 1 <= one
    OBVIOUS
  <2> HIDE DEF one, a
  <2>3. /\ CrFrom(a, one + 1) \in Nat
        /\ Ended(a, CrFrom(a, one + 1)) => LineAt(a, one, CrFrom(a, one + 1) + 2) 
        /\ \A h : LineAt(a, one, h) =>
                h = CrFrom(a, one + 1) + 2 /\ Ended(a, CrFrom(a, one + 1))
    BY <1>1, <2>2, HeaderIs
  <2> QED BY <2>1, <2>3 DEF one
<1>4. CASE s[1] # "*"
  BY <1>1, <1>2, <1>4
<1>5. CASE s[1] = "*"
  <2>0. a[1] = "*" /\ 1 \in 1..Len(a) + 1 /\ 1 <= Len(a) /\ MaxDepth \in Nat /\ 0 < MaxDepth
        /\ 0 \in 0..MaxDepth
    BY <1>1, <1>5, FramingAssumption
  <2>1. w = Level(a, 0)[1]
    BY TopLevel
  <2>2. /\ (\A h : ~LineAt(a, 1, h)) => w = Again
        /\ \A h : LineAt(a, 1, h) =>
             w = IF Number(a, 1, h - 2) = -2 \/ Number(a, 1, h - 2) > MaxMembers
                 THEN Declined
                 ELSE IF Number(a, 1, h - 2) = -1 THEN Good(h)
                 ELSE Elements(a, Level(a, 0 + 1), Number(a, 1, h - 2), Good(h))
    <3> DEFINE one == 1
               none == 0
    <3>1. /\ none \in 0..MaxDepth /\ one \in 1..Len(a) + 1 /\ one <= Len(a)
          /\ a[one] = "*" /\ none < MaxDepth /\ w = Level(a, none)[one]
      BY <2>0, <2>1
    <3> HIDE DEF one, none, a, w
    <3> QED BY <1>1, <3>1, CallIs DEF one, none
  <2>3. CASE ~Ended(a, cr)
    <3>1. r = Short(1, <<>>)
      BY <1>2, <2>0, <2>3
    <3>2. w = Again
      BY <1>3, <2>2, <2>3
    <3> QED BY <1>5, <3>1, <3>2
  <2>4. CASE Ended(a, cr)
    <3> DEFINE h == cr + 2
    <3>1. LineAt(a, 1, h) /\ h - 2 = cr
      BY <1>3, <2>4
    <3>2. w = IF v = -2 \/ v > MaxMembers THEN Declined
              ELSE IF v = -1 THEN Good(h) ELSE Elements(a, Level(a, 0 + 1), v, Good(h))
      BY <2>2, <3>1
    <3>3. h \in 1..m + 1 /\ v \in Nat \cup {-1, -2}
      <4> DEFINE one == 1
      <4>1. one \in Nat /\ 1 <= one /\ LineAt(a, one, h)
        BY <3>1
      <4> HIDE DEF one, h, cr, a
      <4>2. h \in one + 3..Len(a) + 1 /\ Number(a, one, h - 2) \in Nat \cup {-1, -2}
        BY <1>1, <4>1, NumberIs
      <4>3. h \in 1 + 3..m + 1
        BY <1>1, <4>2 DEF one
      <4> QED BY <3>1, <4>2, <4>3 DEF one
    <3>4. r = IF v = -2 \/ v > MaxMembers THEN Bad
              ELSE IF v = -1 THEN Whole(h) ELSE ResumeAt(a, h, <<v>>)
      BY <1>2, <2>0, <2>4
    <3>5. CASE v = -2 \/ v > MaxMembers
      <4>1. r = Bad /\ w = Declined
        BY <3>2, <3>4, <3>5
      <4> QED BY <1>5, <4>1 DEF WalkSays
    <3>6. CASE v = -1
      <4>1. r = Whole(h) /\ w = Good(h)
        BY <3>2, <3>4, <3>6, FramingAssumption
      <4> HIDE DEF h
      <4>2. r.next = h
        BY <4>1, WalkRecords
      <4> QED BY <1>5, <3>3, <4>1, <4>2 DEF WalkSays
    <3>7. CASE v \in Nat /\ ~(v > MaxMembers)
      <4>1. r = ResumeAt(a, h, <<v>>)
        BY <3>4, <3>7
      <4>2. <<v>> \in Seq(Nat) /\ Len(<<v>>) = 1 /\ 1 <= MaxDepth
        BY <2>0, <3>7
      <4> HIDE DEF v, h, a
      <4>3. ASSUME NEW n \in m..Len(s)
            PROVE  Unwinds(SubSeq(s, 1, n), <<v>>, Good(h), FrameToDeep(SubSeq(s, 1, n), 1))
        <5> DEFINE b == SubSeq(s, 1, n)
                   x == FrameToDeep(b, 1)
                   one == 1
                   none == 0
                   y == Elements(b, Level(b, 0 + 1), v, Good(h))
        <5>1. b \in Seq(STRING) /\ Len(b) = n /\ SubSeq(b, 1, m) = a /\ m \in 0..Len(b)
          <6>1. n \in 0..Len(s) /\ m \in 0..n
            OBVIOUS
          <6> QED BY <6>1, PrefixOf DEF a
        <5>2. b[1] = "*"
          <6>1. n \in 0..Len(s) /\ 1 \in 1..n
            OBVIOUS
          <6> QED BY <1>5, <6>1, PrefixIs
        <5>3. x = Level(b, 0)[1]
          BY TopLevel
        <5> HIDE DEF b, x
        <5>4. LineAt(b, 1, h) /\ Number(b, 1, h - 2) = v
          <6>0. one \in Nat /\ 1 <= one /\ LineAt(a, one, h)
            BY <3>1
          <6> HIDE DEF one
          <6>1. LineAt(b, one, h) /\ Number(a, one, h - 2) = Number(b, one, h - 2)
            BY <5>1, <6>0, LinePrefix
          <6>2. LineAt(b, 1, h) /\ Number(a, 1, h - 2) = Number(b, 1, h - 2)
            BY <6>1 DEF one
          <6> QED BY <3>1, <6>2 DEF v
        <5>5. x = y
          <6>1. /\ none \in 0..MaxDepth /\ one \in 1..Len(b) + 1 /\ one <= Len(b)
                /\ b[one] = "*" /\ none < MaxDepth /\ x = Level(b, none)[one]
                /\ LineAt(b, one, h) /\ Number(b, one, h - 2) = v
                /\ v # -2 /\ v # -1 /\ ~(v > MaxMembers)
            BY <2>0, <3>7, <5>1, <5>2, <5>3, <5>4
          <6>2. y = Elements(b, Level(b, none + 1), v, Good(h))
            BY DEF none
          <6> HIDE DEF one, none, y
          <6> QED BY <5>1, <6>1, <6>2, CallIs
        <5>6. Good(h) \in Verdicts(b)
          <6>1. h \in 1..Len(b) + 1
            BY <3>3, <5>1
          <6> QED BY <5>1, <6>1, VerdictsAre
        <5>7. Level(b, 0 + 1) \in Tables(b)
          <6>1. 0 + 1 \in 0..MaxDepth
            BY <2>0
          <6> QED BY <5>1, <6>1, LevelIs
        <5>8. y \in Verdicts(b)
          BY <3>7, <5>1, <5>6, <5>7, ElementsAre
        <5>9. Unwinds(b, <<>>, y, y)
          <6> HIDE DEF y
          <6> DEFINE e == [d \in 0..0 |-> y]
                     empty == <<>>
          <6>1. Len(empty) = 0 /\ e \in [0..0 -> Verdicts(b)] /\ e[0] = y
            BY <5>8
          <6> HIDE DEF e, empty
          <6>2. \A d \in 1..Len(empty) :
                   e[d - 1] = Elements(b, Level(b, d), empty[d], e[d])
            BY <6>1
          <6>3. Unwinds(b, empty, y, y)
            BY <6>1, <6>2 DEF Unwinds
          <6> QED BY <6>3 DEF empty
        <5>10. Unwinds(b, Append(<<>>, v), Good(h), y)
          <6> DEFINE empty == <<>>
          <6>1. empty \in Seq(Nat) /\ Len(empty) = 0 /\ Len(empty) < MaxDepth
            BY <2>0
          <6>2. Unwinds(b, empty, Elements(b, Level(b, Len(empty) + 1), v, Good(h)), y)
            BY <5>9, <6>1
          <6> HIDE DEF empty, y
          <6>3. Unwinds(b, Append(empty, v), Good(h), y)
            BY <3>7, <5>1, <5>6, <6>1, <6>2, UnwindOpen
          <6> QED BY <6>3 DEF empty
        <5>11. Append(<<>>, v) = <<v>>
          BY <3>7
        <5> HIDE DEF y
        <5> QED BY <5>5, <5>10, <5>11 DEF b, x
      <4>4. Follows(s, m, h, <<v>>)
        BY <3>3, <4>2, <4>3 DEF Follows
      <4>5. WalkSays(s, m, r)
        BY <4>1, <4>4, ResumeSays DEF a
      <4> QED BY <1>5, <4>5 DEF a
    <3> QED BY <3>3, <3>5, <3>6, <3>7
  <2> QED BY <2>3, <2>4
<1> QED BY <1>4, <1>5

-----------------------------------------------------------------------------
(* What a server means is framed and parsed as that, as soon as all of it    *)
(* is there: a is what has come of b.                                        *)

LEMMA NilPrefix ==
    ASSUME NEW b \in Seq(STRING), NEW m \in 0..Len(b), NEW p \in Nat, 1 <= p,
           NEW mark, NEW h, NilAt(b, p, mark, h), h <= m + 1
    PROVE  NilAt(SubSeq(b, 1, m), p, mark, h)
<1> DEFINE a == SubSeq(b, 1, m)
<1>1. a \in Seq(STRING) /\ Len(a) = m /\ \A i \in 1..m : a[i] = b[i]
  BY PrefixIs
<1>2. LineAt(b, p, h) /\ b[p] = mark /\ Number(b, p, h - 2) = -1
  BY DEF NilAt
<1>3. LineAt(a, p, h) /\ Number(a, p, h - 2) = Number(b, p, h - 2)
  BY <1>2, LinePrefix
<1>4. p \in 1..m
  BY <1>2 DEF LineAt
<1> HIDE DEF a
<1> QED BY <1>1, <1>2, <1>3, <1>4 DEF NilAt, a

LEMMA BulkPrefix ==
    ASSUME NEW b \in Seq(STRING), NEW m \in 0..Len(b), NEW p \in Nat, 1 <= p,
           NEW limit \in Nat, NEW c, NEW h \in Nat,
           BulkAt(b, p, limit, c, h), h <= m + 1
    PROVE  LET a == SubSeq(b, 1, m) IN
           BulkAt(a, p, limit, c, h) /\ Payload(a, c, h) = Payload(b, c, h)
<1> DEFINE a == SubSeq(b, 1, m)
<1>1. /\ a \in Seq(STRING) /\ Len(a) = m /\ \A i \in 1..m : a[i] = b[i]
      /\ \A i, j \in Nat : 1 <= i /\ j <= m => SubSeq(a, i, j) = SubSeq(b, i, j)
  BY PrefixIs
<1>2. /\ LineAt(b, p, c) /\ b[p] = "$" /\ Number(b, p, c - 2) = h - c - 2
      /\ h - c - 2 \in 0..limit /\ b[h - 2] = "CR" /\ b[h - 1] = "LF"
  BY DEF BulkAt
<1>3. c \in p + 3..Len(b) + 1
  BY <1>2 DEF LineAt
<1>4. c <= m + 1 /\ p \in 1..m /\ h - 2 \in 1..m /\ h - 1 \in 1..m /\ c \in Nat
      /\ h - 3 \in Nat /\ 1 <= c /\ h - 3 <= m
  BY <1>2, <1>3
<1>5. LineAt(a, p, c) /\ Number(a, p, c - 2) = Number(b, p, c - 2)
  BY <1>2, <1>4, LinePrefix
<1> HIDE DEF a
<1>6. BulkAt(a, p, limit, c, h)
  BY <1>1, <1>2, <1>4, <1>5 DEF BulkAt
<1>7. Payload(a, c, h) = Payload(b, c, h)
  BY <1>1, <1>4 DEF Payload
<1> QED BY <1>6, <1>7 DEF a

(* The bulk string: where its payload is, and what the two loops over its    *)
(* bytes say of it.                                                          *)
LEMMA BulkIs ==
    ASSUME NEW b \in Seq(STRING), NEW p \in Nat, 1 <= p,
           NEW limit \in Nat, NEW c, NEW h \in Nat, BulkAt(b, p, limit, c, h)
    PROVE  LET v == Number(b, p, c - 2) IN
           /\ p \in 1..Len(b) /\ b[p] = "$" /\ c \in p + 4..Len(b) + 1 /\ LineAt(b, p, c)
           /\ v \in 0..limit /\ h = c + v + 2 /\ h \in p + 6..Len(b) + 1
           /\ BulkEnd(b, c - 1, v) = Good(h)
<1> DEFINE v == Number(b, p, c - 2)
<1>1. /\ p <= Len(b) /\ LineAt(b, p, c) /\ b[p] = "$" /\ v = h - c - 2
      /\ h - c - 2 \in 0..limit /\ b[h - 2] = "CR" /\ b[h - 1] = "LF" /\ h <= Len(b) + 1
  BY DEF BulkAt
<1>2. c \in p + 3..Len(b) + 1 /\ (v # -2 => c >= p + 4)
  BY <1>1, NumberIs
<1> HIDE DEF v
<1>3. c \in p + 4..Len(b) + 1 /\ v \in 0..limit /\ h = c + v + 2 /\ h \in p + 6..Len(b) + 1
  BY <1>1, <1>2
<1>4. /\ ~(Len(b) - (c - 1) < v + 2) /\ (c - 1) + v + 1 = h - 2 /\ (c - 1) + v + 2 = h - 1
      /\ (c - 1) + v + 3 = h
  BY <1>3
<1>5. BulkEnd(b, c - 1, v) = Good(h)
  BY <1>1, <1>4 DEF BulkEnd
<1>6. p \in 1..Len(b)
  BY <1>1
<1> QED BY <1>1, <1>3, <1>5, <1>6 DEF v

LEMMA BulkReads ==
    ASSUME NEW b \in Seq(STRING), NEW p \in Nat, 1 <= p, NEW h \in Nat
    PROVE  /\ \A c, nil : BulkAt(b, p, MaxReply, c, h) =>
                Bulk(b, p, nil) = Answer(Payload(b, c, h), h)
           /\ NilAt(b, p, "$", h) => Bulk(b, p, 1) = Answer(<<>>, h)
<1> DEFINE cr == CrFrom(b, p + 1)
           n == Number(b, p, cr)
           end == BulkEnd(b, cr + 1, n)
<1>1. /\ cr \in Nat
      /\ \A h_1 : LineAt(b, p, h_1) => h_1 = cr + 2 /\ Ended(b, cr)
  BY HeaderIs
<1>2. \A k : Bulk(b, p, k) =
       IF p > Len(b) THEN Partial
       ELSE IF b[p] # "$" THEN Fails
       ELSE IF ~Ended(b, cr) THEN Partial
       ELSE IF n = -2 \/ n > MaxReply \/ (n = -1 /\ k = 0) THEN Fails
       ELSE IF n = -1 THEN Answer(<<>>, cr + 2)
       ELSE IF end.rc = "again" THEN Partial
       ELSE IF end.rc = "declined" THEN Fails
       ELSE Answer(SubSeq(b, cr + 2, cr + 1 + n), end.next)
  BY DEF Bulk
<1>3. MaxReply \in Nat
  BY FramingAssumption
<1>4. ASSUME NEW c, NEW nil, BulkAt(b, p, MaxReply, c, h)
      PROVE  Bulk(b, p, nil) = Answer(Payload(b, c, h), h)
  <2> DEFINE v == Number(b, p, c - 2)
  <2>1. /\ p \in 1..Len(b) /\ b[p] = "$" /\ c \in p + 4..Len(b) + 1 /\ LineAt(b, p, c)
        /\ v \in 0..MaxReply /\ h = c + v + 2 /\ BulkEnd(b, c - 1, v) = Good(h)
    BY <1>3, <1>4, BulkIs
  <2>2. c = cr + 2 /\ Ended(b, cr)
    BY <1>1, <2>1
  <2>3. c - 2 = cr /\ c - 1 = cr + 1
    BY <1>1, <2>2
  <2>4. n = v /\ end = Good(h)
    BY <2>1, <2>3
  <2> HIDE DEF n, v, cr, end
  <2>5. cr + 1 + n = h - 3 /\ ~(p > Len(b)) /\ ~(n = -2 \/ n > MaxReply) /\ n # -1
    BY <1>1, <1>3, <2>1, <2>2, <2>4
  <2>6. end.rc = "ok" /\ end.next = h
    BY <2>4, WalkRecords
  <2> QED BY <1>2, <2>1, <2>2, <2>5, <2>6 DEF Payload
<1>5. ASSUME NilAt(b, p, "$", h) PROVE Bulk(b, p, 1) = Answer(<<>>, h)
  <2>1. p <= Len(b) /\ b[p] = "$" /\ LineAt(b, p, h) /\ Number(b, p, h - 2) = -1
    BY <1>5 DEF NilAt
  <2>2. h = cr + 2 /\ Ended(b, cr)
    BY <1>1, <2>1
  <2>3. h - 2 = cr /\ ~(p > Len(b))
    BY <1>1, <2>1, <2>2
  <2>4. n = -1
    BY <2>1, <2>3
  <2> HIDE DEF n, cr, end
  <2>5. ~(n = -2 \/ n > MaxReply)
    BY <1>3, <2>4
  <2> QED BY <1>2, <2>1, <2>2, <2>3, <2>4, <2>5
<1> QED BY <1>4, <1>5

LEMMA FlatIs ==
    ASSUME NEW b \in Seq(STRING), NEW p \in Nat, 1 <= p, NEW h \in Nat, FlatAt(b, p, h)
    PROVE  /\ p \in 1..Len(b) /\ IsScalar(b[p]) /\ Scalar(b, p) = Good(h)
           /\ h \in p + 3..Len(b) + 1
<1>1. CASE p <= Len(b) /\ b[p] \in {"+", "-", ":"} /\ LineAt(b, p, h)
  <2>1. p \in 1..Len(b) /\ IsScalar(b[p]) /\ b[p] # "$"
    BY <1>1 DEF IsScalar
  <2>2. h \in p + 3..Len(b) + 1
    BY <1>1 DEF LineAt
  <2> QED BY <1>1, <2>1, <2>2, ScalarIs
<1>2. CASE NilAt(b, p, "$", h)
  <2>1. p <= Len(b) /\ b[p] = "$" /\ LineAt(b, p, h) /\ Number(b, p, h - 2) = -1
    BY <1>2 DEF NilAt
  <2>2. p \in 1..Len(b) /\ IsScalar(b[p])
    BY <2>1 DEF IsScalar
  <2>3. h \in p + 3..Len(b) + 1
    BY <2>1 DEF LineAt
  <2> QED BY <2>1, <2>2, <2>3, ScalarIs
<1>3. ASSUME NEW c, BulkAt(b, p, MaxReply, c, h)
      PROVE  /\ p \in 1..Len(b) /\ IsScalar(b[p]) /\ Scalar(b, p) = Good(h)
             /\ h \in p + 3..Len(b) + 1
  <2> DEFINE v == Number(b, p, c - 2)
  <2>1. MaxReply \in Nat
    BY FramingAssumption
  <2>2. /\ p \in 1..Len(b) /\ b[p] = "$" /\ c \in p + 4..Len(b) + 1 /\ LineAt(b, p, c)
        /\ v \in 0..MaxReply /\ h \in p + 6..Len(b) + 1 /\ BulkEnd(b, c - 1, v) = Good(h)
    BY <1>3, <2>1, BulkIs
  <2>3. IsScalar(b[p])
    BY <2>2 DEF IsScalar
  <2>4. Scalar(b, p) = IF b[p] # "$" \/ v = -1 THEN Good(c)
                       ELSE IF v = -2 \/ v > MaxReply THEN Declined
                       ELSE BulkEnd(b, c - 1, v)
    BY <2>2, ScalarIs
  <2> HIDE DEF v
  <2>5. ~(v = -2 \/ v > MaxReply) /\ v # -1 /\ h \in p + 3..Len(b) + 1
    BY <2>1, <2>2
  <2> QED BY <2>2, <2>3, <2>4, <2>5
<1> QED BY <1>1, <1>2, <1>3 DEF FlatAt

LEMMA FlatPrefix ==
    ASSUME NEW b \in Seq(STRING), NEW m \in 0..Len(b), NEW p \in Nat, 1 <= p,
           NEW h \in Nat, FlatAt(b, p, h), h <= m + 1
    PROVE  FlatAt(SubSeq(b, 1, m), p, h)
<1> DEFINE a == SubSeq(b, 1, m)
<1>1. a \in Seq(STRING) /\ Len(a) = m /\ \A i \in 1..m : a[i] = b[i]
  BY PrefixIs
<1>2. CASE p <= Len(b) /\ b[p] \in {"+", "-", ":"} /\ LineAt(b, p, h)
  <2>1. LineAt(a, p, h)
    BY <1>2, LinePrefix
  <2>2. p \in 1..m
    BY <1>2 DEF LineAt
  <2> HIDE DEF a
  <2> QED BY <1>1, <1>2, <2>1, <2>2 DEF FlatAt, a
<1>3. CASE NilAt(b, p, "$", h)
  BY <1>3, NilPrefix DEF FlatAt
<1>4. ASSUME NEW c \in Places(b), BulkAt(b, p, MaxReply, c, h)
      PROVE  FlatAt(SubSeq(b, 1, m), p, h)
  <2>1. MaxReply \in Nat
    BY FramingAssumption
  <2>2. BulkAt(a, p, MaxReply, c, h)
    BY <1>4, <2>1, BulkPrefix
  <2>3. c \in p + 4..Len(a) + 1
    BY <1>1, <2>1, <2>2, BulkIs
  <2>4. c \in Places(a)
    BY <2>3 DEF Places
  <2> QED BY <2>2, <2>4 DEF FlatAt
<1> QED BY <1>2, <1>3, <1>4 DEF FlatAt

(* A call, at any depth, at what is meant and all there. *)
LEMMA FlatCall ==
    ASSUME NEW b \in Seq(STRING), NEW m \in 0..Len(b), NEW p \in Nat, 1 <= p,
           NEW h \in Nat, FlatAt(b, p, h), h <= m + 1, NEW d \in 0..MaxDepth
    PROVE  /\ Level(SubSeq(b, 1, m), d)[p] = Good(h)
           /\ h \in p + 3..m + 1
<1> DEFINE a == SubSeq(b, 1, m)
<1>1. a \in Seq(STRING) /\ Len(a) = m
  BY PrefixIs
<1>2. FlatAt(a, p, h)
  BY FlatPrefix
<1> HIDE DEF a
<1>3. /\ p \in 1..Len(a) /\ IsScalar(a[p]) /\ Scalar(a, p) = Good(h)
      /\ h \in p + 3..Len(a) + 1
  BY <1>1, <1>2, FlatIs
<1>4. p \in 1..Len(a) + 1 /\ p <= Len(a)
  BY <1>1, <1>3
<1>5. Level(a, d)[p] = Scalar(a, p)
  BY <1>1, <1>3, <1>4, CallIs
<1> QED BY <1>1, <1>3, <1>5 DEF a

LEMMA NilCall ==
    ASSUME NEW b \in Seq(STRING), NEW m \in 0..Len(b), NEW p \in Nat, 1 <= p,
           NEW h \in Nat, NilAt(b, p, "*", h), h <= m + 1, NEW d \in 0..MaxDepth, d < MaxDepth
    PROVE  Level(SubSeq(b, 1, m), d)[p] = Good(h) /\ h >= p + 3
<1> DEFINE a == SubSeq(b, 1, m)
<1>1. a \in Seq(STRING) /\ Len(a) = m
  BY PrefixIs
<1>2. NilAt(a, p, "*", h)
  BY NilPrefix
<1> HIDE DEF a
<1>3. p <= Len(a) /\ a[p] = "*" /\ LineAt(a, p, h) /\ Number(a, p, h - 2) = -1
  BY <1>2 DEF NilAt
<1>4. p \in 1..Len(a) + 1 /\ h >= p + 3
  BY <1>1, <1>3 DEF LineAt
<1> DEFINE v == Number(a, p, h - 2)
<1>5. ~(v = -2 \/ v > MaxMembers) /\ v = -1
  BY <1>3, FramingAssumption
<1>6. Level(a, d)[p] = IF v = -2 \/ v > MaxMembers THEN Declined
                       ELSE IF v = -1 THEN Good(h)
                       ELSE Elements(a, Level(a, d + 1), v, Good(h))
  BY <1>1, <1>3, <1>4, CallIs
<1>7. Level(a, d)[p] = Good(h)
  BY <1>5, <1>6
<1> QED BY <1>4, <1>7 DEF a

LEMMA ArrayPrefix ==
    ASSUME NEW b \in Seq(STRING), NEW m \in 0..Len(b), NEW p \in Nat, 1 <= p,
           NEW n, NEW c \in Nat, ArrayAt(b, p, n, c), c <= m + 1
    PROVE  ArrayAt(SubSeq(b, 1, m), p, n, c) /\ c \in p + 4..m + 1
<1> DEFINE a == SubSeq(b, 1, m)
<1>1. a \in Seq(STRING) /\ Len(a) = m /\ \A i \in 1..m : a[i] = b[i]
  BY PrefixIs
<1>2. b[p] = "*" /\ LineAt(b, p, c) /\ Number(b, p, c - 2) = n /\ n \in 0..MaxMembers
  BY DEF ArrayAt
<1>3. LineAt(a, p, c) /\ Number(a, p, c - 2) = Number(b, p, c - 2)
  BY <1>2, LinePrefix
<1>4. n # -2
  BY <1>2, FramingAssumption
<1>5. c \in p + 3..Len(b) + 1 /\ c >= p + 4
  BY <1>2, <1>4, NumberIs
<1> HIDE DEF a
<1>6. p \in 1..m
  BY <1>5
<1> QED BY <1>1, <1>2, <1>3, <1>5, <1>6 DEF ArrayAt, a

LEMMA ArrayCall ==
    ASSUME NEW b \in Seq(STRING), NEW m \in 0..Len(b), NEW p \in Nat, 1 <= p,
           NEW n, NEW c \in Nat, ArrayAt(b, p, n, c), c <= m + 1,
           NEW d \in 0..MaxDepth, d < MaxDepth
    PROVE  LET a == SubSeq(b, 1, m) IN
           /\ Level(a, d)[p] = Elements(a, Level(a, d + 1), n, Good(c))
           /\ c \in p + 4..m + 1 /\ n \in Nat
           /\ Level(a, d + 1) \in Tables(a) /\ Good(c) \in Verdicts(a)
<1> DEFINE a == SubSeq(b, 1, m)
<1>1. a \in Seq(STRING) /\ Len(a) = m
  BY PrefixIs
<1>2. ArrayAt(a, p, n, c) /\ c \in p + 4..m + 1
  BY ArrayPrefix
<1> HIDE DEF a
<1>3. /\ p <= Len(a) /\ a[p] = "*" /\ LineAt(a, p, c) /\ Number(a, p, c - 2) = n
      /\ n \in 0..MaxMembers
  BY <1>2 DEF ArrayAt
<1>4. /\ p \in 1..Len(a) + 1 /\ c \in 1..Len(a) + 1 /\ d + 1 \in 0..MaxDepth
      /\ n \in Nat /\ ~(n = -2 \/ n > MaxMembers) /\ n # -1
  BY <1>1, <1>2, <1>3, FramingAssumption
<1>5. Level(a, d)[p] = Elements(a, Level(a, d + 1), n, Good(c))
  BY <1>1, <1>3, <1>4, CallIs
<1>6. Level(a, d + 1) \in Tables(a) /\ Good(c) \in Verdicts(a)
  BY <1>1, <1>4, LevelIs, VerdictsAre
<1> QED BY <1>2, <1>4, <1>5, <1>6 DEF a

(* An array ends behind its header. *)
LEMMA FlatEndsBehind ==
    ASSUME NEW b \in Seq(STRING), NEW c \in Places(b), NEW n \in Nat, NEW h \in FlatEnds(b, n, c)
    PROVE  c <= h
<1> DEFINE f == [S \in SUBSET Places(b) |->
                 {k \in Places(b) : \E p \in S : FlatAt(b, p, k)}]
           Behind == {S \in SUBSET Places(b) : \A k \in S : c <= k}
<1>1. c \in Nat
  BY DEF Places
<1>2. {c} \in Behind
  BY <1>1
<1>3. ASSUME NEW S \in Behind PROVE f[S] \in Behind
  <2>1. f[S] = {k \in Places(b) : \E p \in S : FlatAt(b, p, k)}
    OBVIOUS
  <2>2. ASSUME NEW k \in f[S] PROVE c <= k
    <3>1. PICK p \in S : FlatAt(b, p, k)
      BY <2>1
    <3>2. p \in Nat /\ 1 <= p /\ k \in Nat /\ c <= p
      BY <2>1, <2>2, <3>1 DEF Places
    <3>3. k \in p + 3..Len(b) + 1
      BY <3>1, <3>2, FlatIs
    <3> QED BY <1>1, <3>2, <3>3
  <2> HIDE DEF f
  <2> QED BY <2>1, <2>2
<1>4. FlatEnds(b, n, c) = Iterated(f, n, {c})
  BY DEF FlatEnds
<1> HIDE DEF f, Behind
<1>5. Iterated(f, n, {c}) \in Behind
  BY <1>2, <1>3, IteratedIn
<1> QED BY <1>4, <1>5 DEF Behind

(* The elements of a flat array. *)
LEMMA FlatElements ==
    ASSUME NEW b \in Seq(STRING), NEW m \in 0..Len(b), NEW c \in 1..m + 1,
           NEW d \in 0..MaxDepth, NEW n \in Nat, NEW h \in FlatEnds(b, n, c), h <= m + 1
    PROVE  LET a == SubSeq(b, 1, m) IN Elements(a, Level(a, d), n, Good(c)) = Good(h)
<1> DEFINE a == SubSeq(b, 1, m)
           t == Level(a, d)
           E(i) == Elements(a, t, i, Good(c))
           f == [S \in SUBSET Places(b) |->
                 {k \in Places(b) : \E p \in S : FlatAt(b, p, k)}]
           J == [i \in Nat |-> {S \in SUBSET Places(b) :
                                   \A k \in S : k <= m + 1 => E(i) = Good(k)}]
<1>1. a \in Seq(STRING) /\ Len(a) = m
  BY PrefixIs
<1>2. Good(c) \in Verdicts(a) /\ t \in Tables(a)
  BY <1>1, VerdictsAre, LevelIs
<1>3. E(0) = Good(c) /\ \A i \in Nat : E(i + 1) = Element(t, E(i))
  <2> HIDE DEF a, t
  <2> QED BY <1>1, <1>2, ElementsAre
<1>4. {c} \in J[0]
  <2>1. {c} \subseteq Places(b)
    BY DEF Places
  <2> HIDE DEF E
  <2> QED BY <1>3, <2>1
<1>5. ASSUME NEW i \in 0..(n - 1), NEW S \in J[i] PROVE f[S] \in J[i + 1]
  <2>1. S \subseteq Places(b) /\ \A k \in S : k <= m + 1 => E(i) = Good(k)
    <3> HIDE DEF E
    <3> QED OBVIOUS
  <2>2. f[S] = {k \in Places(b) : \E p \in S : FlatAt(b, p, k)}
    BY <2>1
  <2>3. ASSUME NEW k \in f[S], k <= m + 1 PROVE E(i + 1) = Good(k)
    <3>1. PICK p \in S : FlatAt(b, p, k)
      BY <2>2
    <3>2. p \in Nat /\ 1 <= p /\ k \in Nat
      BY <2>1, <2>2, <3>1 DEF Places
    <3>3. t[p] = Good(k) /\ k \in p + 3..m + 1
      BY <2>3, <3>1, <3>2, FlatCall
    <3>4. p <= m + 1
      BY <3>2, <3>3
    <3>5. E(i) = Good(p)
      BY <2>1, <3>1, <3>4
    <3>6. i \in Nat
      OBVIOUS
    <3>7. E(i + 1) = Element(t, Good(p))
      <4> HIDE DEF E, t, a
      <4> QED BY <1>3, <3>5, <3>6
    <3> HIDE DEF E, t
    <3> QED BY <3>3, <3>7, WalkRecords DEF Element
  <2> HIDE DEF E
  <2>4. J[i + 1] = {V \in SUBSET Places(b) : \A k \in V : k <= m + 1 => E(i + 1) = Good(k)}
    OBVIOUS
  <2> HIDE DEF J
  <2> QED BY <2>2, <2>3, <2>4
<1>6. J[n] = {S \in SUBSET Places(b) : \A k \in S : k <= m + 1 => E(n) = Good(k)}
  <2> HIDE DEF E
  <2> QED OBVIOUS
<1>7. FlatEnds(b, n, c) = Iterated(f, n, {c})
  BY DEF FlatEnds
<1> HIDE DEF f, J
<1>8. Iterated(f, n, {c}) \in J[n]
  BY <1>4, <1>5, IteratedThrough
<1>9. E(n) = Good(h)
  <2> HIDE DEF E
  <2>1. \A k \in Iterated(f, n, {c}) : k <= m + 1 => E(n) = Good(k)
    BY <1>6, <1>8
  <2>2. h \in Iterated(f, n, {c})
    BY <1>7
  <2> QED BY <2>1, <2>2
<1> QED BY <1>9

(* A reply that is drained. *)
LEMMA ReplyFrames ==
    ASSUME NEW b \in Seq(STRING), NEW m \in 0..Len(b), NEW p \in Nat, 1 <= p,
           NEW h \in Nat, ReplyAt(b, p, h), h <= m + 1
    PROVE  Frame(SubSeq(b, 1, m), p) = Good(h) /\ p <= m
<1> DEFINE a == SubSeq(b, 1, m)
           none == 0
<1>0. a \in Seq(STRING) /\ Len(a) = m
  BY PrefixIs
<1>1. none \in 0..MaxDepth /\ none < MaxDepth /\ none + 1 \in 0..MaxDepth
  BY FramingAssumption
<1> HIDE DEF none
<1>2. Level(a, none)[p] = Good(h) /\ p <= m
  <2>1. CASE FlatAt(b, p, h)
    <3>1. Level(a, none)[p] = Good(h) /\ h \in p + 3..m + 1
      BY <1>1, <2>1, FlatCall
    <3> QED BY <3>1
  <2>2. CASE NilAt(b, p, "*", h)
    <3>1. Level(a, none)[p] = Good(h) /\ h >= p + 3
      BY <1>1, <2>2, NilCall
    <3> QED BY <3>1
  <2>3. ASSUME NEW c \in Places(b), ArrayAt(b, p, Number(b, p, c - 2), c),
               h \in FlatEnds(b, Number(b, p, c - 2), c)
        PROVE  Level(a, none)[p] = Good(h) /\ p <= m
    <3> DEFINE n == Number(b, p, c - 2)
    <3>1. c \in Nat /\ ArrayAt(b, p, n, c) /\ h \in FlatEnds(b, n, c)
      BY <2>3 DEF Places
    <3> HIDE DEF n
    <3>2. c <= h
      <4>1. n \in Nat
        BY <3>1, FramingAssumption DEF ArrayAt
      <4> QED BY <2>3, <3>1, <4>1, FlatEndsBehind
    <3>3. /\ Level(a, none)[p] = Elements(a, Level(a, none + 1), n, Good(c))
          /\ c \in p + 4..m + 1 /\ n \in Nat
      <4>1. c <= m + 1
        BY <3>1, <3>2
      <4> QED BY <1>1, <3>1, <4>1, ArrayCall
    <3>4. c \in 1..m + 1 /\ p <= m
      BY <3>3
    <3>5. Elements(a, Level(a, none + 1), n, Good(c)) = Good(h)
      BY <1>1, <3>1, <3>3, <3>4, FlatElements
    <3> QED BY <3>3, <3>4, <3>5
  <2> HIDE DEF a
  <2> QED BY <2>1, <2>2, <2>3 DEF ReplyAt
<1>3. FrameToDeep(a, p) = Good(h)
  BY <1>2, TopLevel DEF none
<1>4. p \in 1..Len(a) + 1
  BY <1>0, <1>2
<1>5. Good(h) # Deep
  BY DEF Good, Deep
<1> HIDE DEF a
<1>6. Frame(a, p) = Good(h)
  BY <1>0, <1>3, <1>4, <1>5, FrameUnlessDeep
<1> QED BY <1>2, <1>6 DEF a

(* A key, and the keys one behind the other: framed as the elements of the  *)
(* array, read as its keys, at least four bytes each.                       *)
LEMMA KeyReads ==
    ASSUME NEW b \in Seq(STRING), NEW m \in 0..Len(b), NEW p \in Nat, 1 <= p,
           NEW key, NEW h \in Nat, KeyAt(b, p, key, h)
    PROVE  /\ FlatAt(b, p, h) /\ h >= p + 4
           /\ h <= m + 1 => Bulk(SubSeq(b, 1, m), p, 1) = Answer(key, h)
<1> DEFINE a == SubSeq(b, 1, m)
<1>0. a \in Seq(STRING) /\ MaxReply \in Nat
  BY PrefixIs, FramingAssumption
<1>1. ASSUME NilAt(b, p, "$", h), key = <<>>
      PROVE  /\ FlatAt(b, p, h) /\ h >= p + 4
             /\ h <= m + 1 => Bulk(a, p, 1) = Answer(key, h)
  <2>1. LineAt(b, p, h) /\ Number(b, p, h - 2) = -1
    BY <1>1 DEF NilAt
  <2>2. h >= p + 4
    BY <2>1, NumberIs
  <2>3. ASSUME h <= m + 1 PROVE Bulk(a, p, 1) = Answer(key, h)
    <3>1. NilAt(a, p, "$", h)
      BY <1>1, <2>3, NilPrefix
    <3> HIDE DEF a
    <3> QED BY <1>0, <1>1, <3>1, BulkReads
  <2> QED BY <1>1, <2>2, <2>3 DEF FlatAt
<1>2. ASSUME NEW c \in Places(b), BulkAt(b, p, MaxReply, c, h), key = Payload(b, c, h)
      PROVE  /\ FlatAt(b, p, h) /\ h >= p + 4
             /\ h <= m + 1 => Bulk(a, p, 1) = Answer(key, h)
  <2>1. h \in p + 6..Len(b) + 1
    BY <1>0, <1>2, BulkIs
  <2>2. h >= p + 4
    BY <2>1
  <2>3. ASSUME h <= m + 1 PROVE Bulk(a, p, 1) = Answer(key, h)
    <3>1. BulkAt(a, p, MaxReply, c, h) /\ Payload(a, c, h) = key
      BY <1>0, <1>2, <2>3, BulkPrefix
    <3> HIDE DEF a
    <3> QED BY <1>0, <3>1, BulkReads
  <2> QED BY <1>2, <2>2, <2>3 DEF FlatAt
<1> QED BY <1>1, <1>2 DEF KeyAt

LEMMA OneLonger ==
    ASSUME NEW S, NEW q \in Seq(S), NEW i \in 0..Len(q) - 1
    PROVE  Append(SubSeq(q, 1, i), q[i + 1]) = SubSeq(q, 1, i + 1)
<1> DEFINE s == SubSeq(q, 1, i)
           u == SubSeq(q, 1, i + 1)
<1>1. i \in 0..Len(q) /\ i + 1 \in 0..Len(q) /\ i + 1 \in 1..Len(q) /\ i \in Nat
  OBVIOUS
<1>2. s \in Seq(S) /\ Len(s) = i /\ \A j \in 1..i : s[j] = q[j]
  BY <1>1, FirstOf
<1>3. u \in Seq(S) /\ Len(u) = i + 1 /\ \A j \in 1..i + 1 : u[j] = q[j]
  BY <1>1, FirstOf
<1>4. q[i + 1] \in S
  BY <1>1
<1> HIDE DEF s, u
<1> QED BY <1>1, <1>2, <1>3, <1>4 DEF s, u

LEMMA KeysRead ==
    ASSUME NEW b \in Seq(STRING), NEW m \in 0..Len(b), NEW c \in Places(b),
           NEW d \in 0..MaxDepth, NEW keys \in Seq(Seq(STRING)), NEW n \in 0..Len(keys),
           NEW h, <<n + 1, h>> \in KeysEnd(b, keys, n, c)
    PROVE  LET a == SubSeq(b, 1, m) IN
           /\ h \in c + 4 * n..Len(b) + 1
           /\ h <= m + 1 => /\ Elements(a, Level(a, d), n, Good(c)) = Good(h)
                            /\ ReplyKeys(a, c, n) = Answer(SubSeq(keys, 1, n), h)
<1> DEFINE a == SubSeq(b, 1, m)
           t == Level(a, d)
           X == (1..Len(keys) + 1) \X Places(b)
           E(i) == Elements(a, t, i, Good(c))
           g == [r \in KeyReplies |-> Keyed(a, r)]
           R(i) == Iterated(g, i, Answer(<<>>, c))
           f == [S \in SUBSET X |-> NextKey(b, keys, S)]
           Read(i, k) == k <= m + 1 => E(i) = Good(k) /\ R(i) = Answer(SubSeq(keys, 1, i), k)
           J == [i \in Nat |-> {S \in SUBSET X :
                    \A x \in S : x[1] = i + 1 /\ x[2] >= c + 4 * i /\ Read(i, x[2])}]
<1>1. a \in Seq(STRING) /\ Len(a) = m /\ c \in Nat /\ 1 <= c /\ n \in Nat
  BY PrefixIs DEF Places
<1>2. t \in Tables(a)
  BY <1>1, LevelIs
<1>3. ASSUME c <= m + 1
      PROVE  E(0) = Good(c) /\ \A i \in Nat : E(i + 1) = Element(t, E(i))
  <2> HIDE DEF a, t
  <2>1. Good(c) \in Verdicts(a)
    BY <1>1, <1>3, VerdictsAre
  <2> QED BY ZenonT(60), <1>1, <1>2, <2>1, ElementsAre
<1>4. R(0) = Answer(<<>>, c) /\ \A i \in Nat : R(i + 1) = g[R(i)]
  <2> HIDE DEF g
  <2> QED BY IteratedNext
<1>5. {<<1, c>>} \in J[0]
  <2>1. <<1, c>> \in X
    BY <1>1 DEF Places
  <2>2. SubSeq(keys, 1, 0) = <<>>
    OBVIOUS
  <2> HIDE DEF E, R
  <2>3. Read(0, c)
    BY <1>3, <1>4, <2>2
  <2> HIDE DEF Read, X
  <2>4. LET x == <<1, c>> IN x[1] = 0 + 1 /\ x[2] >= c + 4 * 0 /\ Read(0, x[2])
    BY <1>1, <2>3
  <2> QED BY <2>1, <2>4
<1>6. ASSUME NEW i \in 0..(n - 1), NEW S \in J[i] PROVE f[S] \in J[i + 1]
  <2>0. i \in Nat /\ i + 1 \in Nat /\ i \in 0..Len(keys) - 1 /\ i + 1 \in 1..Len(keys)
    BY <1>1
  <2>1. S \in SUBSET X /\ \A x \in S : x[1] = i + 1 /\ x[2] >= c + 4 * i /\ Read(i, x[2])
    <3> HIDE DEF Read, X
    <3> QED BY <2>0
  <2>2. f[S] = NextKey(b, keys, S)
    BY <2>1
  <2>3. ASSUME NEW x \in f[S]
        PROVE  x \in X /\ x[1] = (i + 1) + 1 /\ x[2] >= c + 4 * (i + 1) /\ Read(i + 1, x[2])
    <3>1. /\ x \in (2..Len(keys) + 1) \X Places(b)
          /\ \E p \in Places(b) : /\ <<x[1] - 1, p>> \in S
                                  /\ KeyAt(b, p, keys[x[1] - 1], x[2])
      BY <2>2, <2>3 DEF NextKey
    <3>2. PICK p \in Places(b) : <<x[1] - 1, p>> \in S /\ KeyAt(b, p, keys[x[1] - 1], x[2])
      BY <3>1
    <3> DEFINE k == x[2]
    <3>3. x \in X /\ x[1] \in Nat /\ k \in Nat /\ p \in Nat /\ 1 <= p
      BY SMTT(30), <3>1, <3>2 DEF Places
    <3>4. x[1] - 1 = i + 1 /\ p >= c + 4 * i /\ Read(i, p)
      <4> HIDE DEF Read, X
      <4>1. LET y == <<x[1] - 1, p>> IN y[1] = i + 1 /\ y[2] >= c + 4 * i /\ Read(i, y[2])
        BY <2>1, <3>2
      <4> QED BY <4>1
    <3>5. KeyAt(b, p, keys[i + 1], k)
      BY <3>2, <3>4
    <3> HIDE DEF k
    <3>6. /\ FlatAt(b, p, k) /\ k >= p + 4
          /\ k <= m + 1 => Bulk(a, p, 1) = Answer(keys[i + 1], k)
      BY <3>3, <3>5, KeyReads
    <3>7. x[1] = (i + 1) + 1 /\ k >= c + 4 * (i + 1)
      BY SMTT(30), <1>1, <2>0, <3>3, <3>4, <3>6
    <3>8. ASSUME k <= m + 1
          PROVE  E(i + 1) = Good(k) /\ R(i + 1) = Answer(SubSeq(keys, 1, i + 1), k)
      <4>1. p <= m + 1 /\ c <= m + 1
        BY <1>1, <2>0, <3>3, <3>4, <3>6, <3>8
      <4>2. E(i) = Good(p) /\ R(i) = Answer(SubSeq(keys, 1, i), p)
        BY <3>4, <4>1
      <4>3. t[p] = Good(k)
        <5>1. Level(SubSeq(b, 1, m), d)[p] = Good(k)
          BY <3>3, <3>6, <3>8, FlatCall
        <5> QED BY <5>1
      <4>4. E(i + 1) = Element(t, Good(p))
        <5> HIDE DEF E, t, a
        <5> QED BY <1>3, <2>0, <4>1, <4>2
      <4>5. E(i + 1) = Good(k)
        <5> HIDE DEF E, t
        <5> QED BY <4>3, <4>4, WalkRecords DEF Element
      <4> DEFINE so == SubSeq(keys, 1, i)
      <4>6. so \in Seq(Seq(STRING))
        BY <2>0, FirstOf
      <4>7. Append(so, keys[i + 1]) = SubSeq(keys, 1, i + 1)
        BY <2>0, OneLonger
      <4> HIDE DEF so
      <4>8. Answer(so, p) \in KeyReplies
        BY <3>3, <4>6 DEF Answer, KeyReplies
      <4>9. Keyed(a, Answer(so, p)) = Answer(Append(so, keys[i + 1]), k)
        <5> DEFINE one == Bulk(a, p, 1)
        <5>1. one = Answer(keys[i + 1], k)
          BY <3>6, <3>8
        <5>2. Keyed(a, Answer(so, p)) =
                IF one.rc # "ok" THEN one ELSE Answer(Append(so, one.value), one.next)
          BY DEF Keyed, Answer
        <5> HIDE DEF one
        <5> QED BY <5>1, <5>2 DEF Answer
      <4>10. R(i) = Answer(so, p)
        BY <4>2 DEF so
      <4>11. R(i + 1) = g[R(i)]
        <5> HIDE DEF R, g
        <5> QED BY <1>4, <2>0
      <4>12. g[Answer(so, p)] = Keyed(a, Answer(so, p))
        BY <4>8
      <4> HIDE DEF R, g, E
      <4> QED BY <4>5, <4>7, <4>9, <4>10, <4>11, <4>12
    <3> HIDE DEF E, R, X
    <3> QED BY <3>3, <3>7, <3>8 DEF k
  <2> HIDE DEF Read, f, X
  <2>4. J[i + 1] = {V \in SUBSET X :
           \A x \in V : x[1] = (i + 1) + 1 /\ x[2] >= c + 4 * (i + 1) /\ Read(i + 1, x[2])}
    BY <2>0
  <2> HIDE DEF J
  <2> QED BY <2>3, <2>4
<1>7. KeysEnd(b, keys, n, c) = Iterated(f, n, {<<1, c>>})
  BY DEF KeysEnd
<1>8. J[n] = {S \in SUBSET X :
                 \A x \in S : x[1] = n + 1 /\ x[2] >= c + 4 * n /\ Read(n, x[2])}
  <2> HIDE DEF Read, X
  <2> QED BY <1>1
<1> HIDE DEF f, J, X, Read
<1>9. Iterated(f, n, {<<1, c>>}) \in J[n]
  BY <1>1, <1>5, <1>6, IteratedThrough
<1>10. LET x == <<n + 1, h>> IN x \in X /\ x[2] >= c + 4 * n /\ Read(n, x[2])
  BY ZenonT(30), <1>7, <1>8, <1>9
<1>11. h \in Nat /\ h <= Len(b) + 1 /\ h >= c + 4 * n /\ Read(n, h)
  BY <1>10 DEF X, Places
<1>12. R(n) = ReplyKeys(a, c, n)
  BY DEF ReplyKeys
<1>13. h \in c + 4 * n..Len(b) + 1
  BY <1>1, <1>11
<1>14. Read(n, h)
  BY <1>11
<1> HIDE DEF R, E
<1>15. h <= m + 1 => E(n) = Good(h) /\ ReplyKeys(a, c, n) = Answer(SubSeq(keys, 1, n), h)
  BY <1>12, <1>14 DEF Read
<1> QED BY <1>13, <1>15 DEF E

(* The array of keys: framed, and its header and keys as they are read.      *)
LEMMA KeysFrame ==
    ASSUME NEW b \in Seq(STRING), NEW m \in 0..Len(b), NEW q \in Nat, 1 <= q,
           NEW d \in 0..MaxDepth, d < MaxDepth, NEW keys \in Seq(Seq(STRING)),
           NEW h \in Nat, KeysAt(b, q, keys, h), h <= m + 1
    PROVE  LET a == SubSeq(b, 1, m) IN
           /\ Level(a, d)[q] = Good(h) /\ q <= m /\ a[q] = "*" /\ h >= q + 3
           /\ \E c \in q + 3..m + 1 :
                /\ LineAt(a, q, c)
                /\ \/ Number(a, q, c - 2) = Len(keys)
                   \/ Number(a, q, c - 2) = -1 /\ Len(keys) = 0
                /\ Len(keys) <= MaxMembers /\ 4 * Len(keys) <= m + 1 - c
                /\ ReplyKeys(a, c, Len(keys)) = Answer(keys, h)
<1> DEFINE a == SubSeq(b, 1, m)
           n == Len(keys)
           Goal == /\ Level(a, d)[q] = Good(h) /\ q <= m /\ a[q] = "*" /\ h >= q + 3
                   /\ \E c \in q + 3..m + 1 :
                        /\ LineAt(a, q, c)
                        /\ Number(a, q, c - 2) = n \/ (Number(a, q, c - 2) = -1 /\ n = 0)
                        /\ n <= MaxMembers /\ 4 * n <= m + 1 - c
                        /\ ReplyKeys(a, c, n) = Answer(keys, h)
<1>1. a \in Seq(STRING) /\ Len(a) = m /\ MaxMembers \in Nat /\ n \in Nat
  BY PrefixIs, FramingAssumption
<1>2. ASSUME NilAt(b, q, "*", h), keys = <<>> PROVE Goal
  <2>1. Level(a, d)[q] = Good(h)
    BY <1>2, NilCall
  <2>2. NilAt(a, q, "*", h)
    BY <1>2, NilPrefix
  <2>3. n = 0
    BY <1>2
  <2> HIDE DEF a, n
  <2>4. q <= m /\ a[q] = "*" /\ LineAt(a, q, h) /\ Number(a, q, h - 2) = -1
    BY <1>1, <2>2 DEF NilAt
  <2>5. h \in q + 3..m + 1
    BY <1>1, <2>4 DEF LineAt
  <2>6. ReplyKeys(a, h, 0) = Answer(<<>>, h)
    BY IteratedNext DEF ReplyKeys
  <2>7. n <= MaxMembers /\ 4 * n <= m + 1 - h /\ h >= q + 3
    BY <1>1, <2>3, <2>5
  <2> QED BY <1>2, <2>1, <2>3, <2>4, <2>5, <2>6, <2>7
<1>3. ASSUME NEW c \in Places(b), ArrayAt(b, q, n, c), <<n + 1, h>> \in KeysEnd(b, keys, n, c)
      PROVE  Goal
  <2>0. d + 1 \in 0..MaxDepth /\ n \in 0..n /\ c \in Nat
    BY <1>1, FramingAssumption DEF Places
  <2>1. /\ h \in c + 4 * n..Len(b) + 1
        /\ Elements(a, Level(a, d + 1), n, Good(c)) = Good(h)
        /\ ReplyKeys(a, c, n) = Answer(SubSeq(keys, 1, n), h)
    BY SMTT(30), <1>3, <2>0, KeysRead
  <2>2. SubSeq(keys, 1, n) = keys
    OBVIOUS
  <2> HIDE DEF n
  <2>3. c <= m + 1 /\ 4 * n <= m + 1 - c /\ c <= h
    BY <1>1, <2>0, <2>1
  <2>4. Level(a, d)[q] = Elements(a, Level(a, d + 1), n, Good(c))
    BY <1>3, <2>0, <2>3, ArrayCall
  <2>5. ArrayAt(a, q, n, c) /\ c \in q + 4..m + 1
    BY <1>3, <2>0, <2>3, ArrayPrefix
  <2> HIDE DEF a
  <2>6. /\ q <= m /\ a[q] = "*" /\ LineAt(a, q, c) /\ Number(a, q, c - 2) = n
        /\ n <= MaxMembers
    BY <1>1, <2>5 DEF ArrayAt
  <2>7. c \in q + 3..m + 1 /\ h >= q + 3
    BY <2>0, <2>3, <2>5
  <2> QED BY <2>1, <2>2, <2>3, <2>4, <2>6, <2>7
<1>4. Goal
  BY <1>2, <1>3 DEF KeysAt
<1> QED BY <1>4

LEMMA Quarter ==
    ASSUME NEW x \in Nat, NEW n \in Nat, 4 * n <= x
    PROVE  n <= x \div 4
OBVIOUS

(* A page that is all there is framed whole, and parsed as it was meant.    *)
LEMMA PageFrames ==
    ASSUME NEW b \in Seq(STRING), NEW m \in 0..Len(b), NEW value, NEW h \in Nat,
           PageAt(b, value, h), h <= m + 1
    PROVE  LET a == SubSeq(b, 1, m) IN
           /\ FrameToDeep(a, 1) = Good(h) /\ ParseScan(a) = Answer(value, h)
           /\ h > 1 /\ b[1] = "*"
<1> DEFINE a == SubSeq(b, 1, m)
           none == 0
           one == 1
           two == 2
<1>1. a \in Seq(STRING) /\ Len(a) = m /\ \A i \in 1..m : a[i] = b[i]
  BY PrefixIs
<1>2. /\ {MaxReply, MaxMembers} \subseteq Nat /\ MaxDepth \in Nat
      /\ none \in 0..MaxDepth /\ none < MaxDepth /\ none + 1 = one
      /\ one \in 0..MaxDepth /\ one < MaxDepth /\ one \in Nat /\ 1 <= one
      /\ two \in Nat /\ two # -1 /\ two # -2
  BY FramingAssumption
<1> HIDE DEF a, none, one, two
<1>3. PICK c \in Places(b), d \in Places(b), q \in Places(b) :
        /\ ArrayAt(b, one, two, c) /\ BulkAt(b, c, MaxReply, d, q)
        /\ value[2] \in Seq(Seq(STRING))
        /\ value = <<Payload(b, d, q), value[2]>> /\ KeysAt(b, q, value[2], h)
  BY DEF PageAt, one, two
<1> DEFINE keys == value[2]
           n == Len(keys)
<1>4. /\ c \in Nat /\ 1 <= c /\ d \in Nat /\ q \in Nat /\ 1 <= q
      /\ keys \in Seq(Seq(STRING)) /\ n \in Nat
  BY <1>3 DEF Places
<1>5. /\ Level(a, one)[q] = Good(h) /\ q <= m /\ a[q] = "*" /\ h >= q + 3
      /\ \E k \in q + 3..m + 1 :
                /\ LineAt(a, q, k)
                /\ \/ Number(a, q, k - 2) = n
                   \/ Number(a, q, k - 2) = -1 /\ n = 0
                /\ n <= MaxMembers /\ 4 * n <= m + 1 - k
                /\ ReplyKeys(a, k, n) = Answer(keys, h)
  <2>1. KeysAt(b, q, keys, h)
    BY <1>3
  <2> HIDE DEF keys
  <2> QED BY SMTT(30), <1>2, <1>4, <2>1, KeysFrame DEF a
<1>6. PICK k \in q + 3..m + 1 :
                /\ LineAt(a, q, k)
                /\ \/ Number(a, q, k - 2) = n
                   \/ Number(a, q, k - 2) = -1 /\ n = 0
                /\ n <= MaxMembers /\ 4 * n <= m + 1 - k
                /\ ReplyKeys(a, k, n) = Answer(keys, h)
  BY <1>5
<1>7. BulkAt(a, c, MaxReply, d, q) /\ Payload(a, d, q) = Payload(b, d, q)
  BY <1>2, <1>3, <1>4, <1>5, BulkPrefix DEF a
<1>8. q \in c + 6..m + 1
  BY <1>1, <1>2, <1>4, <1>7, BulkIs
<1>9. ArrayAt(a, one, two, c) /\ c \in one + 4..m + 1
  <2>1. c <= m + 1
    BY <1>4, <1>8
  <2> QED BY <1>2, <1>3, <1>4, <2>1, ArrayPrefix DEF a
<1>10. /\ one \in 1..m /\ a[one] = "*" /\ b[one] = "*" /\ LineAt(a, one, c)
       /\ Number(a, one, c - 2) = two
  <2>1. one \in 1..m
    BY <1>2, <1>4, <1>9
  <2> QED BY <1>1, <1>9, <2>1 DEF ArrayAt
<1>11. FrameToDeep(a, 1) = Good(h)
  <2> DEFINE t == Level(a, one)
  <2>1. FlatAt(b, c, q) /\ q <= m + 1
    BY <1>3, <1>4, <1>5 DEF FlatAt
  <2>2. t[c] = Good(q)
    BY <1>2, <1>4, <2>1, FlatCall DEF a
  <2>3. t[q] = Good(h)
    BY <1>5
  <2>4. t \in Tables(a) /\ Good(c) \in Verdicts(a)
    <3>1. c \in 1..Len(a) + 1
      BY <1>1, <1>4, <1>8
    <3> QED BY <1>1, <1>2, <3>1, LevelIs, VerdictsAre
  <2> HIDE DEF t
  <2>5. Elements(a, t, 2, Good(c)) = Good(h)
    <3>1. Elements(a, t, 0, Good(c)) = Good(c)
      BY <1>1, <2>4, ElementsAre
    <3>2. \A i \in Nat : Elements(a, t, i + 1, Good(c)) = Element(t, Elements(a, t, i, Good(c)))
      BY ZenonT(30), <1>1, <2>4, ElementsAre
    <3>3. /\ Elements(a, t, 0 + 1, Good(c)) = Element(t, Good(c))
          /\ Elements(a, t, 1 + 1, Good(c)) = Element(t, Elements(a, t, 1, Good(c)))
      BY <3>1, <3>2
    <3>4. Element(t, Good(c)) = Good(q) /\ Element(t, Good(q)) = Good(h)
      BY <2>2, <2>3, WalkRecords DEF Element
    <3>5. 0 + 1 = 1 /\ 1 + 1 = 2
      OBVIOUS
    <3> QED BY <3>3, <3>4, <3>5
  <2>6. Level(a, none)[one] = Elements(a, t, two, Good(c))
    <3>1. c <= m + 1
      BY <1>4, <1>8
    <3>2. Level(a, none)[one] = Elements(a, Level(a, none + 1), two, Good(c))
      BY <1>2, <1>3, <1>4, <3>1, ArrayCall DEF a
    <3> QED BY <1>2, <3>2 DEF t
  <2>7. Level(a, 0)[1] = Good(h)
    BY <2>5, <2>6 DEF none, one, two
  <2> QED BY <2>7, TopLevel
<1>12. ParseScan(a) = Answer(value, h)
  <2> DEFINE cr == CrFrom(a, 2)
             cursor == Bulk(a, cr + 2, 0)
             p == cursor.next
             kr == CrFrom(a, p + 1)
             said == Number(a, p, kr)
             count == IF said = -1 THEN 0 ELSE said
             read == ReplyKeys(a, kr + 2, count)
  <2>1. c = cr + 2 /\ Ended(a, cr) /\ cr \in Nat
    <3>1. one + 1 = 2
      BY DEF one
    <3> QED BY <1>1, <1>2, <1>10, <3>1, HeaderIs
  <2>2. Number(a, 1, cr) = 2
    <3>1. c - 2 = cr
      BY <2>1
    <3> QED BY <1>10, <3>1 DEF one, two
  <2>3. cursor = Answer(Payload(b, d, q), q)
    <3> HIDE DEF cr
    <3> QED BY <1>1, <1>4, <1>7, <2>1, BulkReads
  <2>4. p = q /\ cursor.rc = "ok" /\ cursor.value = Payload(b, d, q)
    <3> HIDE DEF cursor
    <3> QED BY <2>3 DEF Answer, p
  <2> HIDE DEF cr, cursor, p
  <2>5. kr \in Nat /\ k = kr + 2 /\ Ended(a, kr)
    BY <1>1, <1>4, <1>6, <2>4, HeaderIs
  <2>6. count = n
    <3>1. k - 2 = kr
      BY <2>5
    <3> HIDE DEF kr, n
    <3>2. said = n \/ (said = -1 /\ n = 0)
      BY <1>6, <2>4, <3>1
    <3> HIDE DEF said
    <3> QED BY <1>4, <3>2
  <2>7. read = Answer(keys, h)
    <3> HIDE DEF count, kr, n
    <3> QED BY <1>6, <2>5, <2>6
  <2>8. ~(count < 0 \/ count > MaxMembers \/ count > (Len(a) - kr - 1) \div 4)
    <3> HIDE DEF count, kr, n
    <3>1. Len(a) - kr - 1 = m + 1 - k /\ m + 1 - k \in Nat
      BY <1>1, <1>4, <1>6, <2>5
    <3>2. Len(a) - kr - 1 \in Nat /\ 4 * n <= Len(a) - kr - 1
      BY <1>6, <3>1
    <3> DEFINE quarter == (Len(a) - kr - 1) \div 4
    <3>3. n <= quarter
      BY <1>4, <3>2, Quarter
    <3>4. quarter \in Int
      BY <3>2
    <3> HIDE DEF quarter
    <3>5. ~(n < 0 \/ n > MaxMembers \/ n > quarter)
      BY <1>2, <1>4, <1>6, <3>3, <3>4
    <3> QED BY <2>6, <3>5 DEF quarter
  <2>9. ParseScan(a) =
          IF a = <<>> THEN Partial
          ELSE IF a[1] # "*" THEN Fails
          ELSE IF ~Ended(a, cr) THEN Partial
          ELSE IF Number(a, 1, cr) # 2 THEN Fails
          ELSE IF cursor.rc # "ok" THEN cursor
          ELSE IF p > Len(a) THEN Partial
          ELSE IF a[p] # "*" THEN Fails
          ELSE IF ~Ended(a, kr) THEN Partial
          ELSE IF count < 0 \/ count > MaxMembers \/ count > (Len(a) - kr - 1) \div 4 THEN Fails
          ELSE IF read.rc # "ok" THEN read
          ELSE Answer(<<cursor.value, read.value>>, read.next)
    BY DEF ParseScan, cr, cursor, p, kr, said, count, read
  <2> HIDE DEF kr, said, count, read
  <2>10. a # <<>> /\ a[1] = "*"
    BY <1>1, <1>10 DEF one
  <2>11. ~(p > Len(a)) /\ a[p] = "*"
    BY <1>1, <1>4, <1>5, <2>4
  <2>12. read.rc = "ok" /\ read.value = keys /\ read.next = h
    BY <2>7 DEF Answer
  <2>13. <<cursor.value, read.value>> = value
    BY <1>3, <2>4, <2>12
  <2> HIDE DEF keys
  <2> QED BY <2>1, <2>2, <2>4, <2>5, <2>8, <2>9, <2>10, <2>11, <2>12, <2>13
<1>13. h > 1
  BY <1>4, <1>5
<1> QED BY <1>10, <1>11, <1>12, <1>13 DEF a, one

-----------------------------------------------------------------------------
(* What a reader makes of the first m bytes of a stream that means s up to h. *)

HearsAs(r, s, m, h) ==
    /\ m + 1 < h => r = Partial
    /\ m + 1 = h => r.rc = s.rc /\ r.value = s.value
    /\ m + 1 > h /\ r.rc \in {"ok", "declined"} => r.rc = s.rc /\ r.value = s.value

LEMMA AnswersAre ==
    /\ \A v, p : /\ Answer(v, p).rc = "ok" /\ Answer(v, p).value = v
                 /\ Answer(v, p).next = p
    /\ Nil.rc = "declined" /\ Nil.value = <<>>
    /\ Fails.rc = "error" /\ Partial.rc = "again"
BY DEF Answer, Nil, Fails, Partial

(* A header of which less has come is not there.                             *)
LEMMA HeaderComes ==
    ASSUME NEW b \in Seq(STRING), NEW m \in 0..Len(b), NEW p \in Nat, 1 <= p,
           NEW h, LineAt(b, p, h)
    PROVE  LET a == SubSeq(b, 1, m)
               cr == CrFrom(a, p + 1)
           IN /\ h > m + 1 => ~Ended(a, cr)
              /\ h <= m + 1 => Ended(a, cr) /\ h = cr + 2 /\ cr \in Nat
                               /\ Number(a, p, cr) = Number(b, p, h - 2)
<1> DEFINE a == SubSeq(b, 1, m)
           cr == CrFrom(a, p + 1)
<1>1. a \in Seq(STRING)
  BY PrefixIs
<1> HIDE DEF a
<1>2. /\ cr \in Nat /\ (Ended(a, cr) => LineAt(a, p, cr + 2))
      /\ \A k : LineAt(a, p, k) => k = cr + 2 /\ Ended(a, cr)
  BY <1>1, HeaderIs
<1>3. \A k : /\ LineAt(a, p, k) <=> LineAt(b, p, k) /\ k <= m + 1
             /\ LineAt(a, p, k) => Number(a, p, k - 2) = Number(b, p, k - 2)
  BY LinePrefix DEF a
<1> DEFINE of == CrFrom(b, p + 1)
<1>4. \A k : LineAt(b, p, k) => k = of + 2
  BY HeaderIs
<1> HIDE DEF cr, of
<1>5. h > m + 1 => ~Ended(a, cr)
  <2>1. SUFFICES ASSUME Ended(a, cr) PROVE ~(h > m + 1)
    OBVIOUS
  <2>2. LineAt(b, p, cr + 2) /\ cr + 2 <= m + 1
    BY <1>2, <1>3, <2>1
  <2>3. cr + 2 = of + 2 /\ h = of + 2
    BY <1>4, <2>2
  <2> QED BY <2>2, <2>3
<1>6. ASSUME h <= m + 1
      PROVE  Ended(a, cr) /\ h = cr + 2 /\ cr \in Nat /\ Number(a, p, cr) = Number(b, p, h - 2)
  <2>1. LineAt(a, p, h) /\ Number(a, p, h - 2) = Number(b, p, h - 2)
    BY <1>3, <1>6
  <2>2. h = cr + 2 /\ Ended(a, cr)
    BY <1>2, <2>1
  <2>3. h - 2 = cr
    BY <1>2, <2>2
  <2> QED BY <1>2, <2>1, <2>2, <2>3
<1> QED BY <1>5, <1>6 DEF a, cr

LEMMA GetHears ==
    ASSUME NEW s, s.bytes \in Seq(STRING), NEW m \in 0..Len(s.bytes), NEW h \in Nat,
           MeantAs("get", s, h)
    PROVE  HearsAs(ParseGet(SubSeq(s.bytes, 1, m)), s, m, h)
<1> DEFINE b == s.bytes
           a == SubSeq(b, 1, m)
           one == 1
           cr == CrFrom(a, 2)
           v == Number(a, 1, cr)
           end == BulkEnd(a, cr + 1, v)
           r == ParseGet(a)
<1>1. a \in Seq(STRING) /\ Len(a) = m /\ \A i \in 1..m : a[i] = b[i]
  BY PrefixIs
<1>2. one \in Nat /\ 1 <= one /\ one + 1 = 2 /\ MaxValue \in Nat
  BY FramingAssumption
<1>3. r = IF a = <<>> THEN Partial
          ELSE IF a[1] # "$" THEN Fails
          ELSE IF ~Ended(a, cr) THEN Partial
          ELSE IF v = -1 THEN IF cr + 1 = Len(a) THEN Nil ELSE Fails
          ELSE IF v = -2 \/ v > MaxValue THEN Fails
          ELSE IF end.rc = "again" THEN Partial
          ELSE IF end.rc = "declined" \/ end.next # Len(a) + 1 THEN Fails
          ELSE Answer(SubSeq(a, cr + 2, cr + 1 + v), end.next)
  BY DEF ParseGet
<1>4. m > 0 /\ b[1] = "$" => a # <<>> /\ a[1] = "$"
  <2> HIDE DEF a
  <2> QED BY <1>1
<1>5. m = 0 => a = <<>>
  <2> HIDE DEF a
  <2> QED BY <1>1
<1> HIDE DEF a, one, r
<1>6. ASSUME NEW k, LineAt(b, one, k)
      PROVE  /\ k > m + 1 => ~Ended(a, cr)
             /\ k <= m + 1 => Ended(a, cr) /\ k = cr + 2 /\ cr \in Nat /\ v = Number(b, one, k - 2)
             /\ k \in Nat /\ k >= 4
  <2>1. /\ k > m + 1 => ~Ended(a, CrFrom(a, one + 1))
        /\ k <= m + 1 => /\ Ended(a, CrFrom(a, one + 1)) /\ k = CrFrom(a, one + 1) + 2
                         /\ CrFrom(a, one + 1) \in Nat
                         /\ Number(a, one, CrFrom(a, one + 1)) = Number(b, one, k - 2)
    BY <1>2, <1>6, HeaderComes DEF a
  <2>2. k \in one + 3..Len(b) + 1
    BY <1>6 DEF LineAt
  <2> QED BY <1>2, <2>1, <2>2 DEF one
<1>7. ASSUME s.rc = "declined", s.value = <<>>, NilAt(b, 1, "$", h)
      PROVE  HearsAs(r, s, m, h)
  <2>1. b[1] = "$" /\ LineAt(b, one, h) /\ Number(b, one, h - 2) = -1
    BY <1>7 DEF NilAt, one
  <2>2. /\ h > m + 1 => ~Ended(a, cr)
        /\ h <= m + 1 => Ended(a, cr) /\ h = cr + 2 /\ cr \in Nat /\ v = -1
        /\ h >= 4
    BY <1>6, <2>1
  <2> HIDE DEF cr, v, end
  <2>3. h > m + 1 => r = Partial
    BY <1>3, <1>4, <1>5, <2>1, <2>2
  <2>4. h <= m + 1 => r = IF h = m + 1 THEN Nil ELSE Fails
    BY <1>1, <1>3, <1>4, <2>1, <2>2
  <2> QED BY <1>7, <2>3, <2>4, AnswersAre DEF HearsAs
<1>8. ASSUME s.rc = "ok", NEW c \in Places(b), BulkAt(b, 1, MaxValue, c, h),
             s.value = Payload(b, c, h)
      PROVE  HearsAs(r, s, m, h)
  <2> DEFINE n == Number(b, one, c - 2)
  <2>1. /\ b[1] = "$" /\ c \in one + 4..Len(b) + 1 /\ LineAt(b, one, c)
        /\ n \in 0..MaxValue /\ h = c + n + 2 /\ h \in one + 6..Len(b) + 1
    <3>1. BulkAt(b, one, MaxValue, c, h)
      BY <1>8 DEF one
    <3>2. b \in Seq(STRING) /\ one = 1
      BY DEF one
    <3> HIDE DEF b, cr, v, end
    <3>3. /\ b[one] = "$" /\ c \in one + 4..Len(b) + 1 /\ LineAt(b, one, c)
          /\ Number(b, one, c - 2) \in 0..MaxValue /\ h = c + Number(b, one, c - 2) + 2
          /\ h \in one + 6..Len(b) + 1
      BY <1>2, <3>1, <3>2, BulkIs
    <3> QED BY <3>2, <3>3
  <2>2. /\ c > m + 1 => ~Ended(a, cr)
        /\ c <= m + 1 => Ended(a, cr) /\ c = cr + 2 /\ cr \in Nat /\ v = n
    BY <1>6, <2>1
  <2>3. BulkAt(b, one, MaxValue, c, h)
    BY <1>8 DEF one
  <2> HIDE DEF cr, n
  <2>4. c \in Nat /\ n \in Nat /\ ~(n = -1) /\ ~(n = -2 \/ n > MaxValue) /\ c <= h /\ h >= 7
    <3>1. Len(b) \in Nat
      OBVIOUS
    <3> HIDE DEF b, v, end
    <3>2. one = 1
      BY DEF one
    <3>3. c \in Nat /\ n \in Nat /\ n >= 0 /\ n <= MaxValue /\ c >= 5
      BY <1>2, <2>1, <3>1, <3>2
    <3>4. h \in Nat /\ h = c + n + 2
      BY <2>1
    <3> QED BY <1>2, <3>3, <3>4
  <2>5. c > m + 1 => r = Partial
    <3> HIDE DEF v, end
    <3> QED BY <1>3, <1>4, <1>5, <2>1, <2>2
  <2>6. ASSUME c <= m + 1
        PROVE  r = IF end.rc = "again" THEN Partial
                   ELSE IF end.rc = "declined" \/ end.next # m + 1 THEN Fails
                   ELSE Answer(SubSeq(a, c, c + n - 1), end.next)
    <3>1. m > 0 /\ cr + 2 = c /\ cr + 1 + v = c + n - 1 /\ v = n
      BY SMTT(30), <2>1, <2>2, <2>4, <2>6
    <3> HIDE DEF v, end
    <3> QED BY <1>1, <1>3, <1>4, <2>1, <2>2, <2>4, <2>6, <3>1
  <2>7. ASSUME c <= m + 1 PROVE end = BulkEnd(a, c - 1, n) /\ c - 1 \in 1..Len(a)
    <3>1. cr + 1 = c - 1 /\ v = n
      BY <2>2, <2>4, <2>7
    <3>2. c - 1 \in 1..Len(a)
      BY <1>1, <1>2, <2>1, <2>7 DEF one
    <3> HIDE DEF v
    <3> QED BY <3>1, <3>2
  <2>8. ASSUME c <= m + 1, m + 1 < h PROVE r = Partial
    <3> DEFINE e == c - 1
    <3>1. e \in 1..Len(a) /\ end = BulkEnd(a, e, n) /\ e + n + 2 > Len(a)
      BY <1>1, <2>1, <2>4, <2>7, <2>8
    <3> HIDE DEF e, end
    <3>2. e \in Nat /\ 1 <= e /\ e <= Len(a)
      BY <1>1, <3>1
    <3>3. BulkEnd(a, e, n) = Again
      BY <1>1, <2>4, <3>1, <3>2, BulkEndIs
    <3>4. end = Again
      BY <3>1, <3>3
    <3> QED BY <2>6, <2>8, <3>4 DEF Again
  <2>9. ASSUME h <= m + 1
        PROVE  r = IF h = m + 1 THEN Answer(s.value, h) ELSE Fails
    <3>1. BulkAt(a, one, MaxValue, c, h) /\ Payload(a, c, h) = Payload(b, c, h)
      BY <1>2, <2>3, <2>9, BulkPrefix DEF a
    <3>2. BulkEnd(a, c - 1, Number(a, one, c - 2)) = Good(h)
      BY <1>1, <1>2, <3>1, BulkIs
    <3>3. c <= m + 1
      BY <2>4, <2>9
    <3>4. v = Number(a, one, c - 2) /\ v = n
      <4>1. c - 2 = cr
        BY <2>2, <3>3
      <4> QED BY <2>2, <3>3, <4>1 DEF one
    <3>5. end = Good(h)
      <4> HIDE DEF v, end
      <4> QED BY <2>7, <3>2, <3>3, <3>4
    <3>6. c + n - 1 = h - 3
      BY <2>1, <2>4
    <3> HIDE DEF end, v
    <3>7. SubSeq(a, c, c + n - 1) = s.value
      <4>1. Payload(a, c, h) = SubSeq(a, c, h - 3)
        BY DEF Payload
      <4> QED BY <1>8, <3>1, <3>6, <4>1
    <3>8. end.rc = "ok" /\ end.next = h
      BY <3>5, WalkRecords
    <3> QED BY <2>6, <3>3, <3>7, <3>8
  <2> HIDE DEF v, end
  <2>10. m + 1 < h => r = Partial
    BY <2>5, <2>8, <2>4
  <2> QED BY <1>8, <2>9, <2>10, AnswersAre DEF HearsAs
<1>9. \/ s.rc = "declined" /\ s.value = <<>> /\ NilAt(b, 1, "$", h)
      \/ s.rc = "ok" /\ \E c \in Places(b) : BulkAt(b, 1, MaxValue, c, h) /\ s.value = Payload(b, c, h)
  BY DEF MeantAs
<1>10. HearsAs(r, s, m, h)
  BY <1>7, <1>8, <1>9
<1> QED BY <1>10 DEF r, a


LEMMA FirstByte ==
    ASSUME NEW b \in Seq(STRING), NEW m \in 1..Len(b)
    PROVE  SubSeq(b, 1, m)[1] = b[1] /\ SubSeq(b, 1, 1) = <<b[1]>>
<1>1. m \in 0..Len(b) /\ 1 \in 1..m /\ 1 \in 0..Len(b) /\ b[1] \in STRING
  OBVIOUS
<1>2. \A d \in 1..m : SubSeq(b, 1, m)[d] = b[d]
  BY <1>1, FirstOf
<1> DEFINE one == 1
           u == SubSeq(b, 1, one)
<1>3. one \in 0..Len(b)
  BY <1>1
<1> HIDE DEF one
<1>4. u \in Seq(STRING) /\ Len(u) = one /\ \A d \in 1..one : u[d] = b[d]
  BY <1>3, FirstOf
<1> HIDE DEF u
<1>5. u \in Seq(STRING) /\ Len(u) = 1 /\ u[1] = b[1]
  BY <1>4 DEF one
<1>6. u = <<b[1]>>
  BY <1>1, <1>5
<1> QED BY <1>1, <1>2, <1>6 DEF u, one

LEMMA McHears ==
    ASSUME NEW s, s.bytes \in Seq(STRING), NEW m \in 0..Len(s.bytes), NEW h \in Nat,
           MeantAs("memcached", s, h)
    PROVE  HearsAs(ParseMc(SubSeq(s.bytes, 1, m)), s, m, h)
<1> DEFINE b == s.bytes
           a == SubSeq(b, 1, m)
           cr == CrFrom(a, 1)
           v == Number(a, 1, cr)
           r == ParseMc(a)
<1>1. /\ a \in Seq(STRING) /\ Len(a) = m /\ \A i \in 1..m : a[i] = b[i]
      /\ \A i, j \in Nat : 1 <= i /\ j <= m => SubSeq(a, i, j) = SubSeq(b, i, j)
  BY PrefixIs
<1>2. r = IF a = <<>> \/ cr = 0 \/ cr + 1 > Len(a) THEN Partial
          ELSE IF a[cr + 1] # "LF" THEN Fails
          ELSE IF SubSeq(a, 1, cr - 1) = <<"END">> THEN Nil
          ELSE IF a[1] # "VALUE" \/ v < 0 \/ v > MaxValue THEN Fails
          ELSE IF Len(a) - cr - 1 < v + Len(McTail) THEN Partial
          ELSE IF SubSeq(a, cr + v + 2, cr + v + 1 + Len(McTail)) # McTail THEN Fails
          ELSE Answer(SubSeq(a, cr + 2, cr + 1 + v), cr + v + 2 + Len(McTail))
  BY DEF ParseMc
<1> HIDE DEF a, r
<1>3. \/ cr = 0 /\ \A i \in 1..m : b[i] # "CR"
      \/ /\ cr \in 1..m /\ b[cr] = "CR"
         /\ \A i \in 1..cr - 1 : b[i] # "CR"
  <2>1. \/ CrFrom(a, 1) = 0 /\ \A i \in 1..Len(a) : a[i] # "CR"
        \/ /\ CrFrom(a, 1) \in 1..Len(a) /\ a[CrFrom(a, 1)] = "CR"
           /\ \A i \in 1..CrFrom(a, 1) - 1 : a[i] # "CR"
    <3> DEFINE one == 1
    <3>1. one \in Nat /\ 1 <= one
      OBVIOUS
    <3> HIDE DEF one
    <3>2. \/ CrFrom(a, one) = 0 /\ \A i \in one..Len(a) : a[i] # "CR"
          \/ /\ CrFrom(a, one) \in one..Len(a) /\ a[CrFrom(a, one)] = "CR"
             /\ \A i \in one..CrFrom(a, one) - 1 : a[i] # "CR"
      BY <1>1, <3>1, CrFromIs
    <3> QED BY <3>2 DEF one
  <2> HIDE DEF cr
  <2> QED BY <1>1, <2>1 DEF cr
\* The first CR of b at k is the first CR of a, as soon as that is there.
<1>4. ASSUME NEW k \in 1..Len(b), b[k] = "CR", \A i \in 1..k - 1 : b[i] # "CR"
      PROVE  (k > m => cr = 0) /\ (k <= m => cr = k)
  <2> HIDE DEF cr
  <2>1. ASSUME k > m PROVE cr = 0
    <3>1. ASSUME cr \in 1..m, b[cr] = "CR" PROVE FALSE
      BY <1>4, <2>1, <3>1
    <3> QED BY <1>3, <3>1
  <2>2. ASSUME k <= m PROVE cr = k
    <3>1. k \in 1..m
      BY <2>2
    <3>2. cr \in 1..m /\ b[cr] = "CR" /\ \A i \in 1..cr - 1 : b[i] # "CR"
      BY <1>3, <1>4, <3>1
    <3>3. ~(cr < k) /\ ~(k < cr)
      BY <1>4, <3>1, <3>2
    <3> QED BY <3>1, <3>2, <3>3
  <2> QED BY <2>1, <2>2
<1>5. ASSUME s.rc = "declined", s.value = <<>>, h = 4, h <= Len(b) + 1,
             SubSeq(b, 1, 3) = <<"END", "CR", "LF">>
      PROVE  HearsAs(r, s, m, h)
  <2>1. b[1] = "END" /\ b[2] = "CR" /\ b[3] = "LF" /\ 2 \in 1..Len(b)
    <3>1. 3 \in 0..Len(b)
      BY <1>5
    <3> DEFINE three == 3
               u == SubSeq(b, 1, three)
    <3>2. three \in 0..Len(b) /\ u = <<"END", "CR", "LF">>
      BY <1>5, <3>1
    <3> HIDE DEF three
    <3>3. \A d \in 1..three : u[d] = b[d]
      BY <3>2, FirstOf
    <3> HIDE DEF u
    <3>4. u[1] = b[1] /\ u[2] = b[2] /\ u[3] = b[3]
      BY <3>3 DEF three
    <3> QED BY <3>1, <3>2, <3>4
  <2>2. (2 > m => cr = 0) /\ (2 <= m => cr = 2)
    BY <1>4, <2>1
  <2>3. m = 0 => a = <<>>
    BY <1>1
  <2> HIDE DEF cr, v
  <2>4. m < 3 => r = Partial
    BY <1>1, <1>2, <2>2, <2>3
  <2>5. ASSUME m >= 3 PROVE r = Nil
    <3>1. cr = 2 /\ a # <<>> /\ 1 \in 1..m /\ 3 \in 1..m
      BY <1>1, <2>2, <2>5
    <3>2. a[1] = "END" /\ a[3] = "LF"
      BY <1>1, <2>1, <3>1
    <3>3. SubSeq(a, 1, 1) = <<"END">>
      BY <1>1, <3>1, <3>2, FirstByte
    <3>4. cr + 1 = 3 /\ cr - 1 = 1 /\ ~(cr = 0) /\ ~(3 > Len(a))
      BY <1>1, <2>5, <3>1
    <3> QED BY <1>2, <3>1, <3>2, <3>3, <3>4
  <2> QED BY <1>5, <2>4, <2>5, AnswersAre DEF HearsAs
<1>6. ASSUME s.rc = "ok", b # <<>>, b[1] = "VALUE", NEW c \in Places(b),
             LineAt(b, 1, c), Number(b, 1, c - 2) \in 0..MaxValue,
             h = c + Number(b, 1, c - 2) + Len(McTail), h <= Len(b) + 1,
             SubSeq(b, h - Len(McTail), h - 1) = McTail,
             s.value = SubSeq(b, c, h - Len(McTail) - 1)
      PROVE  HearsAs(r, s, m, h)
  <2> DEFINE n == Number(b, 1, c - 2)
             tail == Len(McTail)
  <2>1. tail = 5
    BY DEF McTail
  <2>2. /\ c \in 4..Len(b) + 1 /\ b[c - 2] = "CR" /\ b[c - 1] = "LF"
        /\ \A i \in 2..c - 3 : b[i] # "CR"
    BY <1>6 DEF LineAt
  <2>3. n \in Nat /\ n <= MaxValue /\ MaxValue \in Nat /\ h = c + n + 5 /\ c \in Nat
    BY <1>6, <2>1, <2>2, FramingAssumption
  <2> DEFINE k == c - 2
  <2>4. k \in 1..Len(b) /\ b[k] = "CR" /\ \A i \in 1..k - 1 : b[i] # "CR"
    <3>1. ASSUME NEW i \in 1..k - 1 PROVE b[i] # "CR"
      <4>1. CASE i = 1
        BY <1>6, <4>1
      <4>2. CASE i # 1
        <5>1. i \in 2..c - 3
          BY <2>3, <4>2
        <5> QED BY <2>2, <5>1
      <4> QED BY <4>1, <4>2
    <3>2. k \in 1..Len(b)
      BY <2>2
    <3> QED BY <2>2, <3>1, <3>2
  <2>5. (k > m => cr = 0) /\ (k <= m => cr = k)
    <3> HIDE DEF k, cr
    <3> QED BY <1>4, <2>4
  <2> HIDE DEF cr, tail
  <2>6. m < c - 1 => r = Partial
    BY <1>1, <1>2, <2>2, <2>5
  <2>7. ASSUME c - 1 <= m
        PROVE  r = IF m - (c - 1) < n + 5 THEN Partial
                   ELSE IF SubSeq(a, c + n, c + n + 4) # McTail THEN Fails
                   ELSE Answer(SubSeq(a, c, c + n - 1), c + n + 5)
    <3>1. cr = c - 2 /\ 1 \in 1..m /\ c - 1 \in 1..m /\ a # <<>> /\ c >= 4
      BY <1>1, <2>2, <2>5, <2>7
    <3>2. a[1] = "VALUE" /\ a[c - 1] = "LF"
      BY <1>1, <1>6, <2>2, <3>1
    <3>3. v = n
      <4>1. 2 \in Nat /\ c - 3 \in Nat /\ 1 <= 2 /\ c - 3 <= m
        BY <2>3, <3>1
      <4>2. SubSeq(a, 2, c - 3) = SubSeq(b, 2, c - 3)
        BY <1>1, <4>1
      <4>3. (c - 2) - 1 = c - 3 /\ 1 + 1 = 2
        BY <2>3
      <4> QED BY <3>1, <4>2, <4>3 DEF Number
    <3>4. SubSeq(a, 1, cr - 1) # <<"END">>
      <4> DEFINE j == cr - 1
      <4>1. j \in 1..Len(a)
        BY <1>1, <2>3, <3>1
      <4> HIDE DEF j
      <4>2. SubSeq(a, 1, j)[1] = a[1]
        BY <1>1, <4>1, FirstByte
      <4> DEFINE u == SubSeq(a, 1, j)
      <4>3. u[1] = "VALUE"
        BY <3>2, <4>2
      <4> HIDE DEF u
      <4>4. u # <<"END">>
        BY <4>3
      <4> QED BY <4>4 DEF u, j
    <3> HIDE DEF n, v, k
    <3>5. /\ cr + 1 = c - 1 /\ ~(cr = 0) /\ ~(cr + 1 > Len(a)) /\ ~(v < 0 \/ v > MaxValue)
          /\ Len(a) - cr - 1 = m - (c - 1) /\ v + tail = n + 5
          /\ cr + v + 2 = c + n /\ cr + v + 1 + tail = c + n + 4
          /\ cr + 2 = c /\ cr + 1 + v = c + n - 1 /\ cr + v + 2 + tail = c + n + 5
      BY <1>1, <2>1, <2>3, <2>7, <3>1, <3>3
    <3>6. r = IF Len(a) - cr - 1 < v + tail THEN Partial
              ELSE IF SubSeq(a, cr + v + 2, cr + v + 1 + tail) # McTail THEN Fails
              ELSE Answer(SubSeq(a, cr + 2, cr + 1 + v), cr + v + 2 + tail)
      BY <1>2, <3>1, <3>2, <3>4, <3>5 DEF tail
    <3> QED BY <3>5, <3>6
  <2>8. m + 1 < h => r = Partial
    <3> HIDE DEF n
    <3>1. ASSUME m + 1 < h, c - 1 <= m PROVE r = Partial
      <4>1. m - (c - 1) < n + 5
        BY <2>3, <3>1
      <4> QED BY <2>7, <3>1, <4>1
    <3>2. c - 1 <= m \/ m < c - 1
      BY <2>3
    <3> QED BY <2>6, <3>1, <3>2
  <2>9. ASSUME h <= m + 1 PROVE r = Answer(s.value, h)
    <3> HIDE DEF n
    <3>1. /\ c - 1 <= m /\ ~(m - (c - 1) < n + 5) /\ c + n + 5 = h
          /\ c + n \in Nat /\ c + n + 4 \in Nat /\ 1 <= c + n /\ c + n + 4 <= m
          /\ c \in Nat /\ 1 <= c /\ c + n - 1 \in Nat /\ c + n - 1 <= m
      BY <2>2, <2>3, <2>9
    <3>2. /\ SubSeq(a, c + n, c + n + 4) = SubSeq(b, c + n, c + n + 4)
          /\ SubSeq(a, c, c + n - 1) = SubSeq(b, c, c + n - 1)
      BY <1>1, <3>1
    <3>3. h - tail = c + n /\ h - 1 = c + n + 4 /\ h - tail - 1 = c + n - 1
      BY <2>1, <2>3
    <3>4. SubSeq(a, c + n, c + n + 4) = McTail /\ SubSeq(a, c, c + n - 1) = s.value
      BY <1>6, <3>2, <3>3 DEF tail
    <3> QED BY <2>7, <3>1, <3>4
  <2>10. s.rc = "ok"
    BY <1>6
  <2> HIDE DEF n, v
  <2> QED BY <2>8, <2>9, <2>10, AnswersAre DEF HearsAs
<1>7. HearsAs(r, s, m, h)
  BY <1>5, <1>6 DEF MeantAs
<1> QED BY <1>7 DEF r, a


(* What is meant at p is framed as soon as it is there, and not before.      *)
LEMMA FrameComes ==
    ASSUME NEW b \in Seq(STRING), NEW m \in 0..Len(b), NEW p \in 1..m + 1,
           NEW h \in Nat, ReplyAt(b, p, h), h <= Len(b) + 1
    PROVE  LET a == SubSeq(b, 1, m) IN
           /\ h <= m + 1 => Frame(a, p) = Good(h) /\ p <= m
           /\ h > m + 1 => Frame(a, p) = Again
<1> DEFINE a == SubSeq(b, 1, m)
           whole == Len(b)
<1>1. a \in Seq(STRING) /\ Len(a) = m /\ p \in Nat /\ 1 <= p
  BY PrefixIs
<1>2. ASSUME h <= m + 1 PROVE Frame(a, p) = Good(h) /\ p <= m
  BY <1>1, <1>2, ReplyFrames
<1>3. ASSUME h > m + 1 PROVE Frame(a, p) = Again
  <2>1. whole \in 0..Len(b) /\ h <= whole + 1 /\ SubSeq(b, 1, whole) = b
    OBVIOUS
  <2> HIDE DEF whole
  <2>2. Frame(b, p) = Good(h)
    BY <1>1, <2>1, ReplyFrames
  <2>3. /\ Frame(a, p) # Again => Frame(b, p) = Frame(a, p)
        /\ Frame(a, p) \in Verdicts(a)
    BY FrameSaid
  <2> HIDE DEF a
  <2>4. Good(h) \notin Verdicts(a)
    BY <1>1, <1>3, VerdictsAre
  <2> QED BY <2>2, <2>3, <2>4
<1> QED BY <1>2, <1>3

LEMMA DrainHears ==
    ASSUME NEW s, s.bytes \in Seq(STRING), NEW m \in 0..Len(s.bytes), NEW h \in Nat,
           h <= Len(s.bytes) + 1, MeantAs("drain", s, h)
    PROVE  HearsAs(ParseDrain(SubSeq(s.bytes, 1, m)), s, m, h)
<1> DEFINE b == s.bytes
           a == SubSeq(b, 1, m)
           one == Frame(a, 1)
           two == Frame(a, one.next)
           r == ParseDrain(a)
           p == 1
           whole == Len(b)
<1>1. a \in Seq(STRING) /\ Len(a) = m /\ \A i \in 1..m : a[i] = b[i]
  BY PrefixIs
<1>2. r = IF one.rc = "again" THEN Partial
          ELSE IF one.rc = "declined" THEN Fails
          ELSE IF two.rc = "again" THEN Partial
          ELSE IF two.rc = "declined" \/ two.next # Len(a) + 1 THEN Fails
          ELSE Answer(<<a[1] = "-", a[one.next] = "-">>, two.next)
  BY DEF ParseDrain
<1>3. PICK q \in Places(b) :
        /\ ReplyAt(b, 1, q) /\ ReplyAt(b, q, h)
        /\ s.value = <<b[1] = "-", b[q] = "-">>
  BY DEF MeantAs
<1>4. s.rc = "ok" /\ q \in Nat /\ 1 <= q /\ q <= Len(b) + 1
  BY DEF MeantAs, Places
<1>5. p \in 1..m + 1 /\ p \in Nat /\ 1 <= p
  OBVIOUS
<1>6. whole \in 0..Len(b) /\ h <= whole + 1 /\ whole + 1 = Len(b) + 1 /\ whole \in Nat
  OBVIOUS
<1> HIDE DEF p, a, r, one, two, whole
<1>7. (q <= m + 1 => one = Good(q) /\ 1 <= m) /\ (q > m + 1 => one = Again)
  <2>1. ReplyAt(b, p, q)
    BY <1>3 DEF p
  <2>2. (q <= m + 1 => Frame(a, p) = Good(q) /\ p <= m) /\ (q > m + 1 => Frame(a, p) = Again)
    BY <1>4, <1>5, <2>1, FrameComes DEF a
  <2> QED BY <2>2 DEF p, one
<1>8. q < h
  <2>1. q <= whole
    BY <1>3, <1>4, <1>6, ReplyFrames
  <2> DEFINE u == q - 1
  <2>2. u \in 0..Len(b) /\ q \in 1..u + 1 /\ u + 1 = q
    BY <1>4
  <2> HIDE DEF u
  <2>3. h <= u + 1 => q <= u
    BY <1>3, <2>2, FrameComes
  <2> QED BY <1>4, <2>2, <2>3
<1>9. ASSUME q <= m + 1
      PROVE  (h <= m + 1 => two = Good(h)) /\ (h > m + 1 => two = Again)
  <2>1. two = Frame(a, q)
    BY <1>7, <1>9, WalkRecords DEF two
  <2>2. q \in 1..m + 1
    BY <1>4, <1>9
  <2> QED BY <1>3, <2>1, <2>2, FrameComes DEF a
<1>10. m + 1 < h => r = Partial
  <2>1. q > m + 1 \/ q <= m + 1
    BY <1>4
  <2> QED BY <1>2, <1>4, <1>7, <1>9, <2>1, WalkRecords
<1>11. ASSUME h <= m + 1
       PROVE  r = IF h = m + 1 THEN Answer(s.value, h) ELSE Fails
  <2>1. q <= m + 1 /\ q \in 1..m /\ 1 \in 1..m
    BY <1>4, <1>8, <1>11
  <2>2. one.rc = "ok" /\ one.next = q /\ two.rc = "ok" /\ two.next = h
    BY <1>7, <1>9, <1>11, <2>1, WalkRecords
  <2>3. a[1] = b[1] /\ a[one.next] = b[q]
    BY <1>1, <2>1, <2>2
  <2>4. s.value = <<a[1] = "-", a[one.next] = "-">>
    BY <1>3, <2>3
  <2> QED BY <1>1, <1>2, <2>2, <2>4
<1>12. HearsAs(r, s, m, h)
  BY <1>4, <1>10, <1>11, AnswersAre DEF HearsAs
<1> QED BY <1>12 DEF r, a

(* A page: what one walk says of its bytes so far, and what is made of it.   *)
LEMMA PageComes ==
    ASSUME NEW s, s.bytes \in Seq(STRING), NEW m \in 0..Len(s.bytes), NEW h \in Nat,
           h <= Len(s.bytes) + 1, MeantAs("walk", s, h)
    PROVE  LET w == FrameToDeep(SubSeq(s.bytes, 1, m), 1) IN
           /\ h > m + 1 => w = Again
           /\ h <= m + 1 => w = Good(h)
           /\ s.bytes[1] = "*"
<1> DEFINE b == s.bytes
           a == SubSeq(b, 1, m)
           w == FrameToDeep(a, 1)
           whole == Len(b)
           p == 1
<1>1. a \in Seq(STRING) /\ Len(a) = m /\ p \in 1..m + 1
  BY PrefixIs
<1>2. PageAt(b, s.value, h)
  BY DEF MeantAs
<1>3. whole \in 0..Len(b) /\ h <= whole + 1 /\ SubSeq(b, 1, whole) = b
  OBVIOUS
<1> HIDE DEF a, p, whole
<1>4. FrameToDeep(b, 1) = Good(h) /\ b[1] = "*"
  BY <1>2, <1>3, PageFrames
<1>5. h <= m + 1 => w = Good(h)
  BY <1>2, PageFrames DEF a
<1>6. /\ w # Again => FrameToDeep(b, 1) = w
      /\ w \in Verdicts(a)
  <2>1. /\ FrameToDeep(a, p) # Again => FrameToDeep(b, p) = FrameToDeep(a, p)
        /\ FrameToDeep(a, p) \in Verdicts(a)
    BY <1>1, FrameSaid DEF a
  <2> QED BY <2>1 DEF p
<1>7. h > m + 1 => Good(h) \notin Verdicts(a)
  BY <1>1, VerdictsAre
<1> QED BY <1>4, <1>5, <1>6, <1>7 DEF a

LEMMA PageHears ==
    ASSUME NEW s, s.bytes \in Seq(STRING), NEW m \in 0..Len(s.bytes), NEW h \in Nat,
           h <= Len(s.bytes) + 1, MeantAs("walk", s, h), NEW r,
           h > m + 1 => r.rc = "again",
           h <= m + 1 => r.rc = "ok" /\ r.next = h
    PROVE  HearsAs(ParsePage(SubSeq(s.bytes, 1, m), r), s, m, h)
<1> DEFINE b == s.bytes
           a == SubSeq(b, 1, m)
           parsed == ParseScan(a)
           heard_ == ParsePage(a, r)
<1>1. Len(a) = m
  BY PrefixIs
<1>2. PageAt(b, s.value, h) /\ s.rc = "ok"
  BY DEF MeantAs
<1>3. h <= m + 1 => parsed = Answer(s.value, h)
  BY <1>2, PageFrames
<1>4. heard_ = IF r.rc = "again" THEN Partial
               ELSE IF r.rc = "declined" \/ r.next # Len(a) + 1 THEN Fails
               ELSE IF parsed.rc # "ok" THEN Fails ELSE parsed
  BY DEF ParsePage
<1> HIDE DEF a, parsed, heard_
<1>5. h > m + 1 => heard_ = Partial
  BY <1>4
<1>6. ASSUME h <= m + 1
      PROVE  heard_ = IF h = m + 1 THEN Answer(s.value, h) ELSE Fails
  BY <1>1, <1>3, <1>4, <1>6, AnswersAre
<1>7. HearsAs(heard_, s, m, h)
  BY <1>2, <1>5, <1>6, AnswersAre DEF HearsAs
<1> QED BY <1>7 DEF heard_, a


LEMMA MeantAhead ==
    ASSUME NEW s, s.bytes \in Seq(STRING), NEW h \in Nat, h <= Len(s.bytes) + 1,
           NEW kind \in {"walk", "get", "memcached", "drain"}, MeantAs(kind, s, h)
    PROVE  h > 1 /\ s.rc \in {"ok", "declined"}
<1> DEFINE b == s.bytes
           one == 1
           none == 0
<1>1. one \in Nat /\ 1 <= one /\ none \in 0..Len(b) /\ none + 1 = one
  OBVIOUS
<1> HIDE DEF one, none
<1>2. CASE kind = "walk"
  <2> DEFINE whole == Len(b)
  <2>1. whole \in 0..Len(b) /\ h <= whole + 1 /\ PageAt(b, s.value, h) /\ s.rc = "ok"
    BY <1>2 DEF MeantAs
  <2> HIDE DEF whole
  <2> QED BY <2>1, PageFrames
<1>3. CASE kind = "get"
  <2>1. \/ s.rc = "declined" /\ NilAt(b, one, "$", h)
        \/ s.rc = "ok" /\ \E c \in Places(b) : BulkAt(b, one, MaxValue, c, h)
    BY <1>3 DEF MeantAs, one
  <2>2. CASE s.rc = "declined" /\ NilAt(b, one, "$", h)
    <3>1. h \in one + 3..Len(b) + 1
      BY <2>2 DEF NilAt, LineAt
    <3> QED BY <1>1, <2>2, <3>1
  <2>3. ASSUME s.rc = "ok", NEW c \in Places(b), BulkAt(b, one, MaxValue, c, h)
        PROVE  h > 1
    <3>1. MaxValue \in Nat
      BY FramingAssumption
    <3>2. h \in one + 6..Len(b) + 1
      BY <1>1, <2>3, <3>1, BulkIs
    <3> QED BY <1>1, <3>2
  <2> QED BY <2>1, <2>2, <2>3
<1>4. CASE kind = "memcached"
  <2>1. \/ s.rc = "declined" /\ h = 4
        \/ s.rc = "ok" /\ \E c \in Places(b) :
              /\ Number(b, 1, c - 2) \in 0..MaxValue
              /\ h = c + Number(b, 1, c - 2) + Len(McTail)
    BY <1>4 DEF MeantAs
  <2>2. Len(McTail) = 5
    BY DEF McTail
  <2>3. ASSUME NEW c \in Places(b), Number(b, 1, c - 2) \in 0..MaxValue,
               h = c + Number(b, 1, c - 2) + Len(McTail)
        PROVE  h > 1
    <3> DEFINE n == Number(b, 1, c - 2)
               tail == Len(McTail)
    <3>1. n \in 0..MaxValue /\ h = c + n + tail /\ tail = 5
      BY <2>2, <2>3
    <3>2. n \in Nat /\ c \in Nat /\ 1 <= c
      BY <3>1, FramingAssumption DEF Places
    <3> HIDE DEF n, tail
    <3> QED BY <3>1, <3>2
  <2> QED BY <2>1, <2>3
<1>5. CASE kind = "drain"
  <2>1. s.rc = "ok" /\ \E q \in Places(b) : ReplyAt(b, q, h)
    BY <1>5 DEF MeantAs
  <2>2. PICK q \in Places(b) : ReplyAt(b, q, h)
    BY <2>1
  <2>3. q \in Nat /\ 1 <= q
    BY DEF Places
  <2>4. h <= none + 1 => q <= none
    BY <1>1, <2>2, <2>3, ReplyFrames
  <2>5. none = 0
    BY DEF none
  <2> QED BY <2>1, <2>3, <2>4, <2>5
<1> QED BY <1>2, <1>3, <1>4, <1>5

-----------------------------------------------------------------------------
(* The invariant: what the readers have decided is what they make of all    *)
(* that was received; and a walk that waits is somewhere from where all     *)
(* that may still come is walked as it would be from the start.             *)

ReaderOf ==
    /\ reader \in {"walk", "get", "memcached", "drain"}
    /\ reader = "walk" => wire \in Seq(Paged) \ {<<>>}
    /\ reader = "get" => wire \in {<<s>> : s \in Gets}
    /\ reader = "memcached" => wire \in {<<s>> : s \in McGets}
    /\ reader = "drain" => wire \in {<<s>> : s \in Drains}

\* What the walk has said of the first m bytes of s.
WalkIs(s, m, frame, p, rem) ==
    LET r == [rc |-> frame.rc, next |-> p, remain |-> rem] IN
    /\ frame = [rc |-> frame.rc, next |-> p]
    /\ s[1] # "*" => frame.rc = "declined"
    /\ s[1] = "*" => \/ WalkSays(s, m, r)
                     \/ r = Short(1, <<>>) /\ FrameToDeep(SubSeq(s, 1, m), 1) = Again

MadeOf(b) ==
    CASE reader = "walk" -> ParsePage(b, framed)
      [] reader = "get" -> ParseGet(b)
      [] reader = "memcached" -> ParseMc(b)
      [] reader = "drain" -> ParseDrain(b)

FramingInv ==
    /\ ReaderOf /\ rlen \in 0..Len(Head(wire).bytes)
    /\ rlen = 0 => off = 1 /\ remain = <<>> /\ framed = Again /\ heard = Partial
    /\ rlen > 0 => heard = MadeOf(Received)
    /\ reader = "walk" /\ rlen > 0 => WalkIs(Head(wire).bytes, rlen, framed, off, remain)

LEMMA WireMeans ==
    ASSUME ReaderOf
    PROVE  Meaningful(reader, Head(wire)) /\ Head(wire).bytes \in Seq(STRING)
<1>1. CASE reader = "walk"
  <2>1. Head(wire) \in Paged
    BY <1>1 DEF ReaderOf
  <2> QED BY <1>1, <2>1, FramingAssumption DEF Meaningful
<1>2. ASSUME NEW S, NEW s \in S, wire = <<s>>, \A t \in S : Meaningful(reader, t)
      PROVE  Meaningful(reader, Head(wire)) /\ Head(wire).bytes \in Seq(STRING)
  <2>1. Head(wire) = s
    BY <1>2
  <2> QED BY <1>2, <2>1 DEF Meaningful
<1>3. CASE reader = "get"
  BY <1>2, <1>3, FramingAssumption DEF ReaderOf
<1>4. CASE reader = "memcached"
  BY <1>2, <1>4, FramingAssumption DEF ReaderOf
<1>5. CASE reader = "drain"
  BY <1>2, <1>5, FramingAssumption DEF ReaderOf
<1> QED BY <1>1, <1>3, <1>4, <1>5 DEF ReaderOf

LEMMA FollowsOn ==
    ASSUME NEW s \in Seq(STRING), NEW m \in 1..Len(s), NEW n \in m..Len(s), NEW p, NEW rem,
           Follows(s, m, p, rem)
    PROVE  Follows(s, n, p, rem)
<1>1. /\ p \in 1..m + 1 /\ rem \in Seq(Nat) /\ Len(rem) <= MaxDepth
      /\ \A k \in m..Len(s) : Unwinds(SubSeq(s, 1, k), rem, Good(p),
                                      FrameToDeep(SubSeq(s, 1, k), 1))
  BY DEF Follows
<1>2. p \in 1..n + 1 /\ \A k \in n..Len(s) : k \in m..Len(s)
  BY <1>1
<1> QED BY <1>1, <1>2 DEF Follows

LEMMA ParsePageOf ==
    ASSUME NEW b, NEW r
    PROVE  /\ ParsePage(b, r) = ParsePage(b, [rc |-> r.rc, next |-> r.next])
           /\ ParsePage(b, r).rc = "again" => r.rc = "again"
<1> DEFINE parsed == ParseScan(b)
           q == [rc |-> r.rc, next |-> r.next]
<1>1. \A x : ParsePage(b, x) = IF x.rc = "again" THEN Partial
               ELSE IF x.rc = "declined" \/ x.next # Len(b) + 1 THEN Fails
               ELSE IF parsed.rc # "ok" THEN Fails ELSE parsed
  BY DEF ParsePage
<1>2. q.rc = r.rc /\ q.next = r.next
  OBVIOUS
<1> HIDE DEF parsed, q
<1>3. ParsePage(b, r) = ParsePage(b, q)
  BY <1>1, <1>2
<1> QED BY <1>1, <1>3, AnswersAre DEF q

(* The walk after one more piece. *)
LEMMA WalkGoesOn ==
    ASSUME NEW s \in Seq(STRING), NEW n \in 1..Len(s),
           \/ off = 1 /\ remain = <<>>
           \/ \E m \in 1..n : WalkIs(s, m, framed, off, remain) /\ framed.rc = "again"
    PROVE  LET r == FrameScan(SubSeq(s, 1, n)) IN
           WalkIs(s, n, [rc |-> r.rc, next |-> r.next], r.next, r.remain)
<1> DEFINE a == SubSeq(s, 1, n)
           r == FrameScan(a)
           frame == [rc |-> r.rc, next |-> r.next]
           x == [rc |-> frame.rc, next |-> r.next, remain |-> r.remain]
<1>1. frame.rc = r.rc /\ frame = [rc |-> frame.rc, next |-> r.next]
  OBVIOUS
<1>2. ASSUME r = Bad \/ WalkSays(s, n, r) \/ r = Short(1, <<>>)
      PROVE  x = r
  <2>1. \A p, rem : /\ Short(p, rem) = [rc |-> "again", next |-> p, remain |-> rem]
                    /\ Whole(p) = [rc |-> "ok", next |-> p, remain |-> <<>>]
                    /\ Bad = [rc |-> "declined", next |-> 1, remain |-> <<>>]
    BY DEF Short, Whole, Bad
  <2>2. r = Bad \/ r = Short(1, <<>>) \/ r = Short(r.next, r.remain) \/ r = Whole(r.next)
    BY <1>2 DEF WalkSays
  <2>3. x = [rc |-> r.rc, next |-> r.next, remain |-> r.remain]
    BY <1>1
  <2> HIDE DEF r, x
  <2>4. CASE r = Bad
    BY <2>1, <2>3, <2>4
  <2>5. CASE r = Short(1, <<>>)
    BY <2>1, <2>3, <2>5
  <2>6. CASE r = Short(r.next, r.remain)
    <3> DEFINE p == r.next
               rem == r.remain
    <3>1. r = [rc |-> "again", next |-> p, remain |-> rem]
      BY <2>1, <2>6
    <3> HIDE DEF p, rem
    <3>2. r.rc = "again"
      BY <3>1
    <3> QED BY <2>3, <3>1, <3>2 DEF p, rem
  <2>7. CASE r = Whole(r.next)
    <3> DEFINE p == r.next
    <3>1. r = [rc |-> "ok", next |-> p, remain |-> <<>>]
      BY <2>1, <2>7
    <3> HIDE DEF p
    <3>2. r.rc = "ok" /\ r.remain = <<>>
      BY <3>1
    <3> QED BY <2>3, <3>1, <3>2 DEF p
  <2> QED BY <2>2, <2>4, <2>5, <2>6, <2>7
<1>3. CASE off = 1 /\ remain = <<>>
  <2>1. r = Prologue(a)
    BY <1>3 DEF FrameScan
  <2>2. /\ s[1] # "*" => r = Bad
        /\ s[1] = "*" => \/ WalkSays(s, n, r)
                         \/ r = Short(1, <<>>) /\ FrameToDeep(a, 1) = Again
    BY <2>1, PrologueSays
  <2> HIDE DEF r
  <2>3. x = r
    BY <1>2, <2>2
  <2>4. s[1] # "*" => frame.rc = "declined"
    BY <1>1, <2>2, WalkRecords
  <2> HIDE DEF x, frame
  <2>5. WalkIs(s, n, frame, r.next, r.remain)
    BY <1>1, <2>2, <2>3, <2>4 DEF WalkIs, x
  <2> QED BY <2>5 DEF r, frame
<1>4. ASSUME ~(off = 1 /\ remain = <<>>), NEW m \in 1..n,
             WalkIs(s, m, framed, off, remain), framed.rc = "again"
      PROVE  WalkIs(s, n, frame, r.next, r.remain)
  <2> DEFINE y == [rc |-> framed.rc, next |-> off, remain |-> remain]
  <2>1. s[1] = "*" /\ (WalkSays(s, m, y) \/ y = Short(1, <<>>))
    BY <1>4 DEF WalkIs
  <2>2. y.next = off /\ y.remain = remain /\ y.rc = "again"
    BY <1>4
  <2> HIDE DEF y
  <2>3. Follows(s, m, off, remain)
    <3>1. y # Short(1, <<>>)
      BY <1>4, <2>2, WalkRecords
    <3>2. y # Bad /\ y # Whole(y.next)
      BY <2>2, WalkRecords
    <3> QED BY <2>1, <2>2, <3>1, <3>2 DEF WalkSays
  <2>4. m \in 1..Len(s) /\ n \in m..Len(s)
    OBVIOUS
  <2>5. Follows(s, n, off, remain)
    BY <2>3, <2>4, FollowsOn
  <2>6. r = ResumeAt(a, off, remain)
    BY <1>4 DEF FrameScan
  <2>7. WalkSays(s, n, r)
    BY <2>5, <2>6, ResumeSays
  <2> HIDE DEF r
  <2>8. x = r
    BY <1>2, <2>7
  <2> HIDE DEF x, frame
  <2> QED BY <1>1, <2>1, <2>7, <2>8 DEF WalkIs, x
<1>5. WalkIs(s, n, frame, r.next, r.remain)
  <2> HIDE DEF frame, r
  <2> QED BY <1>3, <1>4 DEF frame, r, a
<1> QED BY <1>5


LEMMA FramingStarts ==
    FramingInit => FramingInv
<1> SUFFICES ASSUME FramingInit PROVE FramingInv
  OBVIOUS
<1>1. /\ reader \in {"walk", "get", "memcached", "drain"}
      /\ rlen = 0 /\ off = 1 /\ remain = <<>> /\ framed = Again /\ heard = Partial
  BY DEF FramingInit
<1>2. ReaderOf
  <2>1. wire \in Streams(reader)
    BY DEF FramingInit
  <2>2. CASE reader = "walk"
    BY <2>1, <2>2, FramingAssumption DEF ReaderOf, Streams
  <2>3. CASE reader = "get"
    BY <2>1, <2>3 DEF ReaderOf, Streams
  <2>4. CASE reader = "memcached"
    BY <2>1, <2>4 DEF ReaderOf, Streams
  <2>5. CASE reader = "drain"
    BY <2>1, <2>5 DEF ReaderOf, Streams
  <2> QED BY <1>1, <2>2, <2>3, <2>4, <2>5
<1>3. rlen \in 0..Len(Head(wire).bytes)
  BY <1>1, <1>2, WireMeans
<1> QED BY <1>1, <1>2, <1>3 DEF FramingInv

LEMMA RecvKeeps ==
    ASSUME FramingInv, Recv
    PROVE  FramingInv'
<1> DEFINE s == Head(wire).bytes
<1>1. /\ ReaderOf /\ rlen \in 0..Len(s) /\ s \in Seq(STRING)
      /\ rlen = 0 => off = 1 /\ remain = <<>> /\ framed = Again /\ heard = Partial
      /\ rlen > 0 => heard = MadeOf(Received)
      /\ reader = "walk" /\ rlen > 0 => WalkIs(s, rlen, framed, off, remain)
  BY WireMeans DEF FramingInv
<1>2. PICK n \in rlen + 1..Len(s) :
         LET b == SubSeq(s, 1, n)
             frame == FrameScan(b)
         IN /\ rlen' = n
            /\ IF reader = "walk"
               THEN /\ framed' = [rc |-> frame.rc, next |-> frame.next]
                    /\ off' = frame.next /\ remain' = frame.remain
                    /\ heard' = ParsePage(b, frame)
               ELSE /\ UNCHANGED <<framed, off, remain>>
                    /\ heard' = CASE reader = "get" -> ParseGet(b)
                                    [] reader = "memcached" -> ParseMc(b)
                                    [] reader = "drain" -> ParseDrain(b)
  BY DEF Recv
<1>3. heard.rc = "again" /\ reader' = reader /\ wire' = wire /\ rlen' = n
  BY <1>2 DEF Recv
<1>4. n \in 1..Len(s) /\ n > 0 /\ (rlen > 0 => rlen \in 1..n)
  BY <1>1
<1> DEFINE b == SubSeq(s, 1, n)
           frame == FrameScan(b)
<1>5. Received' = b /\ s' = s
  BY <1>3 DEF Received
<1>6. ReaderOf' /\ rlen' \in 0..Len(s') /\ rlen' > 0
  BY <1>1, <1>3, <1>4, <1>5 DEF ReaderOf
<1>7. ASSUME reader = "walk"
      PROVE  /\ heard' = MadeOf(Received)'
             /\ WalkIs(s', rlen', framed', off', remain')
  <2>1. /\ framed' = [rc |-> frame.rc, next |-> frame.next]
        /\ off' = frame.next /\ remain' = frame.remain /\ heard' = ParsePage(b, frame)
    BY <1>2, <1>7
  <2>2. \/ off = 1 /\ remain = <<>>
        \/ \E m \in 1..n : WalkIs(s, m, framed, off, remain) /\ framed.rc = "again"
    <3>1. CASE rlen = 0
      BY <1>1, <3>1
    <3>2. CASE rlen > 0
      <4>1. heard = ParsePage(Received, framed)
        BY <1>1, <1>7, <3>2 DEF MadeOf
      <4>2. framed.rc = "again"
        BY <1>3, <4>1, ParsePageOf
      <4> HIDE DEF s
      <4> QED BY <1>1, <1>4, <1>7, <3>2, <4>2
    <3> QED BY <1>1, <3>1, <3>2
  <2>3. WalkIs(s, n, [rc |-> frame.rc, next |-> frame.next], frame.next, frame.remain)
    <3> HIDE DEF s
    <3> QED BY <1>1, <1>4, <2>2, WalkGoesOn
  <2> HIDE DEF s, frame
  <2>4. WalkIs(s', rlen', framed', off', remain')
    BY <1>3, <1>5, <2>1, <2>3
  <2>5. ParsePage(b, frame) = ParsePage(b, framed')
    BY <2>1, ParsePageOf
  <2>6. MadeOf(Received)' = ParsePage(b, framed')
    BY <1>3, <1>5, <1>7 DEF MadeOf
  <2> QED BY <2>1, <2>4, <2>5, <2>6
<1>8. ASSUME reader # "walk" PROVE heard' = MadeOf(Received)'
  BY <1>1, <1>2, <1>3, <1>5, <1>8 DEF MadeOf, ReaderOf
<1> HIDE DEF s, b, frame
<1>9. heard' = MadeOf(Received)'
  BY <1>7, <1>8
<1>10. (reader = "walk")' => WalkIs(s', rlen', framed', off', remain')
  BY <1>3, <1>7
<1>11. rlen' # 0
  BY <1>3, <1>4
<1> QED BY <1>6, <1>9, <1>10, <1>11 DEF FramingInv, s

LEMMA NextPageKeeps ==
    ASSUME FramingInv, NextPage
    PROVE  FramingInv'
<1>1. /\ reader = "walk" /\ Len(wire) > 1 /\ wire' = Tail(wire) /\ reader' = reader
      /\ rlen' = 0 /\ off' = 1 /\ remain' = <<>> /\ framed' = Again /\ heard' = Partial
  BY DEF NextPage
<1>2. wire \in Seq(Paged)
  BY <1>1 DEF FramingInv, ReaderOf
<1>3. Tail(wire) \in Seq(Paged) \ {<<>>}
  <2>1. wire # <<>>
    BY <1>1, <1>2
  <2>2. Tail(wire) \in Seq(Paged) /\ Len(Tail(wire)) = Len(wire) - 1 /\ Len(wire) \in Nat
    BY <1>2, <2>1
  <2> DEFINE left == Tail(wire)
  <2>3. left \in Seq(Paged) /\ Len(left) > 0
    BY <1>1, <2>2
  <2> HIDE DEF left
  <2>4. left # <<>>
    BY <2>3
  <2> QED BY <2>3, <2>4 DEF left
<1>4. ReaderOf'
  BY <1>1, <1>3 DEF ReaderOf
<1>5. Head(wire').bytes \in Seq(STRING)
  <2>1. Head(wire') \in Paged
    BY <1>1, <1>3
  <2> QED BY <2>1, FramingAssumption DEF Meaningful
<1>6. rlen' \in 0..Len(Head(wire').bytes) /\ ~(rlen' > 0)
  BY <1>1, <1>5
<1> QED BY <1>1, <1>4, <1>6 DEF FramingInv

(* The invariant holds of every reader, wherever its streams are cut. *)
THEOREM FramingInvariant ==
    FramingSpec => []FramingInv
<1>1. FramingInit => FramingInv
  BY FramingStarts
<1>2. FramingInv /\ [FramingNext]_framingVars => FramingInv'
  <2> SUFFICES ASSUME FramingInv, [FramingNext]_framingVars PROVE FramingInv'
    OBVIOUS
  <2>1. CASE Recv
    BY <2>1, RecvKeeps
  <2>2. CASE NextPage
    BY <2>2, NextPageKeeps
  <2>3. CASE UNCHANGED framingVars
    BY <2>3 DEF framingVars, FramingInv, ReaderOf, MadeOf, Received
  <2> QED BY <2>1, <2>2, <2>3 DEF FramingNext
<1> QED BY <1>1, <1>2, PTL DEF FramingSpec

-----------------------------------------------------------------------------

LEMMA WalksAsFramed ==
    ASSUME FramingInv
    PROVE  ScanIsFrame
<1> DEFINE s == Head(wire).bytes
           w == FrameToDeep(Received, 1)
           x == [rc |-> framed.rc, next |-> off, remain |-> remain]
           p == 1
<1> SUFFICES ASSUME reader = "walk", rlen > 0, Received[1] = "*", w.rc # "deep"
             PROVE  /\ framed.rc = Frame(Received, 1).rc
                    /\ framed.rc = "ok" => framed.next = Frame(Received, 1).next
  BY DEF ScanIsFrame
<1>1. /\ rlen \in 0..Len(s) /\ s \in Seq(STRING) /\ WalkIs(s, rlen, framed, off, remain)
  BY WireMeans DEF FramingInv
<1>2. /\ Received = SubSeq(s, 1, rlen) /\ Received \in Seq(STRING) /\ Len(Received) = rlen
      /\ s[1] = "*"
  <2>1. Received = SubSeq(s, 1, rlen)
    BY DEF Received
  <2> HIDE DEF s
  <2>2. /\ SubSeq(s, 1, rlen) \in Seq(STRING) /\ Len(SubSeq(s, 1, rlen)) = rlen
        /\ \A i \in 1..rlen : SubSeq(s, 1, rlen)[i] = s[i]
    BY <1>1, PrefixIs
  <2>3. 1 \in 1..rlen
    BY <1>1
  <2> QED BY <2>1, <2>2, <2>3
<1> HIDE DEF s, w
<1>3. framed = [rc |-> framed.rc, next |-> off] /\ x.rc = framed.rc /\ x.next = off
  BY <1>1 DEF WalkIs
<1>4. WalkSays(s, rlen, x) \/ (x = Short(1, <<>>) /\ w = Again)
  BY <1>1, <1>2 DEF WalkIs, w
<1> HIDE DEF x, p
<1>5. \/ framed.rc = "again" /\ w = Again
      \/ framed.rc = "ok" /\ w = Good(off)
      \/ framed.rc = "declined" /\ w = Declined
  <2>1. CASE x = Short(1, <<>>) /\ w = Again
    BY <1>3, <2>1, WalkRecords
  <2>2. CASE WalkSays(s, rlen, x)
    <3>1. \/ x = Short(x.next, x.remain) /\ w = Again
          \/ x = Whole(x.next) /\ w = Good(x.next)
          \/ x = Bad /\ w \in {Declined, Deep}
      BY <1>2, <2>2 DEF WalkSays, w
    <3>2. x.rc = framed.rc /\ x.next = off
      BY <1>3
    <3>3. w # Deep
      BY WalkRecords
    <3> QED BY <3>1, <3>2, <3>3, WalkRecords
  <2> QED BY <1>4, <2>1, <2>2
<1>6. Frame(Received, 1) = w
  <2>1. p \in 1..Len(Received) + 1
    BY <1>1, <1>2 DEF p
  <2>2. FrameToDeep(Received, p) # Deep
    BY WalkRecords DEF p, w
  <2>3. Frame(Received, p) = FrameToDeep(Received, p)
    BY <1>2, <2>1, <2>2, FrameUnlessDeep
  <2> QED BY <2>3 DEF p, w
<1>7. framed.next = off
  BY <1>3
<1> QED BY <1>5, <1>6, <1>7, WalkRecords

(* Framing in pieces is framing at once: wherever a page was cut, the resumed *)
(* walk of redis_frame_scan() says of the bytes so far what redis_frame()   *)
(* would say of them from the start.                                        *)
THEOREM WalksFrame ==
    FramingSpec => []ScanIsFrame
<1>1. FramingInv => ScanIsFrame
  BY WalksAsFramed
<1> QED BY <1>1, FramingInvariant, PTL

LEMMA HeadHears ==
    ASSUME FramingInv, NEW h \in Nat, h <= Len(Head(wire).bytes) + 1,
           MeantAs(reader, Head(wire), h)
    PROVE  HearsAs(heard, Head(wire), rlen, h)
<1> DEFINE s == Head(wire)
           a == SubSeq(s.bytes, 1, rlen)
<1>1. /\ ReaderOf /\ rlen \in 0..Len(s.bytes) /\ s.bytes \in Seq(STRING)
      /\ rlen = 0 => heard = Partial
      /\ rlen > 0 => heard = MadeOf(a)
      /\ reader = "walk" /\ rlen > 0 => WalkIs(s.bytes, rlen, framed, off, remain)
      /\ reader \in {"walk", "get", "memcached", "drain"}
  BY WireMeans DEF FramingInv, Received, ReaderOf
<1>2. h <= Len(s.bytes) + 1 /\ MeantAs(reader, s, h)
  OBVIOUS
<1> HIDE DEF s
<1>3. CASE rlen = 0
  <2>1. h > 1
    BY <1>1, <1>2, MeantAhead
  <2> QED BY <1>1, <1>3, <2>1 DEF HearsAs, s
<1>4. CASE rlen > 0 /\ reader = "get"
  BY <1>1, <1>2, <1>4, GetHears DEF MadeOf, s
<1>5. CASE rlen > 0 /\ reader = "memcached"
  BY <1>1, <1>2, <1>5, McHears DEF MadeOf, s
<1>6. CASE rlen > 0 /\ reader = "drain"
  BY <1>1, <1>2, <1>6, DrainHears DEF MadeOf, s
<1>7. CASE rlen > 0 /\ reader = "walk"
  <2> DEFINE w == FrameToDeep(a, 1)
             x == [rc |-> framed.rc, next |-> off, remain |-> remain]
  <2>1. (h > rlen + 1 => w = Again) /\ (h <= rlen + 1 => w = Good(h)) /\ s.bytes[1] = "*"
    BY <1>1, <1>2, <1>7, PageComes
  <2>2. /\ framed = [rc |-> framed.rc, next |-> off] /\ x.rc = framed.rc /\ x.next = off
        /\ WalkSays(s.bytes, rlen, x) \/ (x = Short(1, <<>>) /\ w = Again)
    BY <1>1, <1>7, <2>1 DEF WalkIs
  <2>3. framed.next = off
    BY <2>2
  <2>4. \/ x = Short(x.next, x.remain) /\ w = Again
        \/ x = Whole(x.next) /\ w = Good(x.next)
        \/ x = Bad /\ w \in {Declined, Deep}
        \/ x = Short(1, <<>>) /\ w = Again
    BY <2>2 DEF WalkSays
  <2> HIDE DEF w, x
  <2>5. (h > rlen + 1 => framed.rc = "again")
    BY <2>1, <2>2, <2>4, WalkRecords
  <2>6. (h <= rlen + 1 => framed.rc = "ok" /\ framed.next = h)
    BY <2>1, <2>2, <2>3, <2>4, WalkRecords
  <2>7. HearsAs(ParsePage(a, framed), s, rlen, h)
    BY <1>1, <1>2, <1>7, <2>5, <2>6, PageHears
  <2>8. heard = ParsePage(a, framed)
    BY <1>1, <1>7 DEF MadeOf
  <2> QED BY <2>7, <2>8 DEF s
<1> QED BY <1>1, <1>3, <1>4, <1>5, <1>6, <1>7

LEMMA HeardRight ==
    ASSUME FramingInv
    PROVE  HeardAsMeant
<1> DEFINE s == Head(wire)
<1>1. /\ rlen \in 0..Len(s.bytes) /\ s.bytes \in Seq(STRING) /\ Meaningful(reader, s)
  BY WireMeans DEF FramingInv
<1>2. \A h \in Nat : h <= Len(s.bytes) + 1 /\ MeantAs(reader, s, h) => HearsAs(heard, s, rlen, h)
  BY HeadHears
<1> HIDE DEF s
<1>3. ASSUME s.meant = "whole"
      PROVE  IF rlen < Len(s.bytes) THEN heard.rc = "again"
             ELSE heard.rc = s.rc /\ heard.value = s.value
  <2> DEFINE h == Len(s.bytes) + 1
  <2>1. h \in Nat /\ MeantAs(reader, s, h)
    BY <1>1, <1>3 DEF Meaningful
  <2>2. HearsAs(heard, s, rlen, h)
    BY <1>2, <2>1
  <2>3. (rlen < Len(s.bytes) => rlen + 1 < h) /\ (~(rlen < Len(s.bytes)) => rlen + 1 = h)
    BY <1>1
  <2> HIDE DEF h
  <2> QED BY <2>2, <2>3, AnswersAre DEF HearsAs
<1>4. ASSUME s.meant = "surplus", heard.rc \in {"ok", "declined"}
      PROVE  heard.rc = s.rc /\ heard.value = s.value
  <2>1. PICK h \in 1..Len(s.bytes) : MeantAs(reader, s, h)
    BY <1>1, <1>4 DEF Meaningful
  <2>2. h \in Nat /\ h <= Len(s.bytes) + 1
    BY <1>1
  <2>3. HearsAs(heard, s, rlen, h)
    BY <1>2, <2>1, <2>2
  <2>4. rlen + 1 < h \/ rlen + 1 = h \/ rlen + 1 > h
    BY <1>1
  <2> QED BY <1>4, <2>3, <2>4, AnswersAre DEF HearsAs
<1> QED BY <1>3, <1>4 DEF HeardAsMeant, s

(* A reply is heard as it was meant, wherever it was cut (redis_parse(),     *)
(* redis_read_drain(), redis_parse_scan(), mc_parse()).                      *)
THEOREM RepliesHeard ==
    FramingSpec => []HeardAsMeant
<1>1. FramingInv => HeardAsMeant
  BY HeardRight
<1> QED BY <1>1, FramingInvariant, PTL

=============================================================================
