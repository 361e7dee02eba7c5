------------------------------ MODULE Framing ------------------------------
(***************************************************************************)
(* How the L2 clients find the end of a reply in what recv() has given     *)
(* them so far.  A reply comes in pieces cut anywhere, and each reader     *)
(* decides anew after every piece: the GET readers of Redis and memcached  *)
(* (redis_parse(), mc_parse()) and the drain of fired commands             *)
(* (redis_frame()) from the start of the buffer, the readers of SCAN and   *)
(* SSCAN pages (redis_frame_scan()) from where the last piece left them.   *)
(*                                                                         *)
(* Bytes are a handful of symbols; digits, lengths and limits are small.   *)
(* The growing of the buffer and what a verdict leads to are module        *)
(* L2Clients'.                                                             *)
(***************************************************************************)
EXTENDS Loops, Sequences

CONSTANTS
    Walks,          \* sequences of pages that a SCAN may be sent, as streams
    Gets,           \* streams that a Redis GET may be sent
    McGets,         \* streams that a memcached get may be sent
    Drains,         \* streams that the drain of two commands may be sent
    MaxDepth,       \* FRAME_MAX_DEPTH, 8
    MaxMembers,     \* REDIS_MAX_MEMBERS
    MaxReply,       \* REDIS_MAX_REPLY
    MaxValue        \* REDIS_MAX_VALUE, MC_MAX_VALUE or max_size

VARIABLES
    reader,         \* which reader
    wire,           \* the streams still to be read, the current one first
    rlen,           \* bytes of the current one received
    off, remain,    \* frame_off, and frame_remain up to frame_depth
    framed,         \* what framing said of the bytes received
    heard           \* what the reader has decided

framingVars == <<reader, wire, rlen, off, remain, framed, heard>>

-----------------------------------------------------------------------------
(* A stream is a record: the bytes; whether they are a reply that the       *)
(* server meant ("whole"), such a reply and more ("surplus"), damaged bytes,   *)
(* or a reply to no command of ours ("odd"); and what was meant.             *)

Digits == <<"0", "1", "2">>
Digit(x) == CHOOSE d \in 0..2 : Digits[d + 1] = x

Again == [rc |-> "again", next |-> 0]
Declined == [rc |-> "declined", next |-> 0]
Deep == [rc |-> "deep", next |-> 0]
Good(next) == [rc |-> "ok", next |-> next]

\* The first CR at or behind p, 0 if there is none.
CrFrom(b, p) ==
    IF \E i \in p..Len(b) : b[i] = "CR"
    THEN CHOOSE i \in p..Len(b) :
             b[i] = "CR" /\ \A j \in p..i - 1 : b[j] # "CR"
    ELSE 0

\* The line of a header has ended.
Ended(b, cr) == cr > 0 /\ cr + 1 <= Len(b) /\ b[cr + 1] = "LF"

\* redis_resp_len(): the number that the digits say, -1 for nil, -2 for none.
RespLen(digits) ==
    IF digits = <<"-", "1">> THEN -1
    ELSE IF digits = <<>> \/ \E i \in DOMAIN digits : digits[i] \notin {"0", "1", "2"}
    THEN -2
    ELSE Iterated([x \in (1..Len(digits)) \X Nat |->
                      <<x[1] + 1, 10 * x[2] + Digit(digits[x[1]])>>],
                  Len(digits), <<1, 0>>)[2]

\* What is written between the mark at p and the CR.
Number(b, p, cr) == RespLen(SubSeq(b, p + 1, cr - 1))

\* A bulk string of v bytes behind a header that ends at h: its own CR LF is
\* looked at once all of it is there.
BulkEnd(b, h, v) ==
    IF Len(b) - h < v + 2 THEN Again
    ELSE IF b[h + v + 1] # "CR" \/ b[h + v + 2] # "LF" THEN Declined
    ELSE Good(h + v + 3)

\* A status, an error, an integer or a bulk string at p.
Scalar(b, p) ==
    LET cr == CrFrom(b, p + 1)
        v == Number(b, p, cr)
    IN IF ~Ended(b, cr) THEN Again
       ELSE IF b[p] # "$" THEN Good(cr + 2)
       ELSE IF v = -2 THEN Declined
       ELSE IF v = -1 THEN Good(cr + 2)
       ELSE IF v > MaxReply THEN Declined
       ELSE BulkEnd(b, cr + 1, v)

IsScalar(x) == x \in {"+", "-", ":", "$"}

(* redis_frame() calls itself for the elements of an array, MaxDepth + 1   *)
(* levels down.  A level is a table: what the call says at every position. *)
(* An array of v elements is v calls of the level below, each where the    *)
(* last one ended, until one is not "ok".                                  *)

Verdicts(b) == [rc : {"again", "declined", "deep"}, next : {0}]
               \cup [rc : {"ok"}, next : 1..Len(b) + 1]
Tables(b) == [1..Len(b) + 1 -> Verdicts(b)]

\* The element behind what e says.
Element(t, e) == IF e.rc = "ok" THEN t[e.next] ELSE e
Elements(b, t, n, e) == Iterated([x \in Verdicts(b) |-> Element(t, x)], n, e)

\* One level, with the elements of arrays as t has it.
Around(b, t) ==
    [p \in 1..Len(b) + 1 |->
        LET cr == CrFrom(b, p + 1)
            v == Number(b, p, cr)
        IN IF p > Len(b) THEN Again
           ELSE IF IsScalar(b[p]) THEN Scalar(b, p)
           ELSE IF b[p] # "*" THEN Declined
           ELSE IF ~Ended(b, cr) THEN Again
           ELSE IF v = -2 \/ v > MaxMembers THEN Declined
           ELSE IF v = -1 THEN Good(cr + 2)
           ELSE Elements(b, t, v, Good(cr + 2))]

Framed(b, levels, t) == Iterated([x \in Tables(b) |-> Around(b, x)], levels, t)

\* The call that is too deep declines whatever it finds.
TooDeep(b) == [p \in 1..Len(b) + 1 |-> Declined]

\* redis_frame(): one whole reply at p.
Frame(b, p) == Framed(b, MaxDepth + 1, TooDeep(b))[p]

-----------------------------------------------------------------------------
(* redis_frame_scan(): the same, resumed.  The stack of outstanding counts  *)
(* and the offset of the next unconfirmed element outlive a short buffer.   *)

Short(p, rem) == [rc |-> "again", next |-> p, remain |-> rem]
Bad == [rc |-> "declined", next |-> 1, remain |-> <<>>]
Whole(p) == [rc |-> "ok", next |-> p, remain |-> <<>>]
At(p, rem) == [rc |-> "go", next |-> p, remain |-> rem]
Walked == [rc : {"go", "again", "declined", "ok"}, next : Nat, remain : Seq(Nat)]

Top(rem) == rem[Len(rem)]
Counted(rem) == [rem EXCEPT ![Len(rem)] = @ - 1]

(* Mutant of Pending: the element is counted before it is there. *)
PendingCounted(p, rem) == Short(p, Counted(rem))

\* An element is not all there: the walk stays in front of it.
Pending(p, rem) == Short(p, rem)

\* One turn of the walk's loop, in front of an element at p.
ScanStep(b, p, rem) ==
    LET cr == CrFrom(b, p + 1)
        v == Number(b, p, cr)
        one == Scalar(b, p)
    IN IF rem = <<>> THEN Whole(p)
       ELSE IF Top(rem) = 0 THEN At(p, SubSeq(rem, 1, Len(rem) - 1))
       ELSE IF p > Len(b) THEN Pending(p, rem)
       ELSE IF IsScalar(b[p])
       THEN IF one.rc = "again" THEN Pending(p, rem)
            ELSE IF one.rc = "declined" THEN Bad
            ELSE At(one.next, Counted(rem))
       ELSE IF b[p] # "*" \/ Len(rem) >= MaxDepth THEN Bad
       ELSE IF ~Ended(b, cr) THEN Pending(p, rem)
       ELSE IF v = -2 THEN Bad
       ELSE IF v \in {-1, 0} THEN At(cr + 2, Counted(rem))
       ELSE IF v > MaxMembers THEN Bad
       ELSE At(cr + 2, Append(Counted(rem), v))

\* The loop, until it returns.  A turn confirms an element or drops a count:
\* there are no more turns than this.
ResumeAt(b, p, rem) ==
    Iterated([w \in Walked |-> IF w.rc = "go" THEN ScanStep(b, w.next, w.remain) ELSE w],
             Len(b) + MaxDepth + 1, At(p, rem))

\* redis_frame_scan_prologue(): the header of the page's array.
Prologue(b) ==
    LET cr == CrFrom(b, 2)
        v == Number(b, 1, cr)
    IN IF b = <<>> THEN Short(1, <<>>)
       ELSE IF b[1] # "*" THEN Bad
       ELSE IF ~Ended(b, cr) THEN Short(1, <<>>)
       ELSE IF v = -2 \/ v > MaxMembers THEN Bad
       ELSE IF v = -1 THEN Whole(cr + 2)
       ELSE ResumeAt(b, cr + 2, <<v>>)

FrameScan(b) == IF off = 1 /\ remain = <<>> THEN Prologue(b)
                ELSE ResumeAt(b, off, remain)

-----------------------------------------------------------------------------
(* What the readers make of a buffer.                                       *)

Answer(value, next) == [rc |-> "ok", value |-> value, next |-> next]
Fails == [rc |-> "error", value |-> <<>>, next |-> 0]
Partial == [rc |-> "again", value |-> <<>>, next |-> 0]
Nil == [rc |-> "declined", value |-> <<>>, next |-> 0]

\* redis_parse_bulk()
Bulk(b, p, allow_nil) ==
    LET cr == CrFrom(b, p + 1)
        v == Number(b, p, cr)
        end == BulkEnd(b, cr + 1, v)
    IN IF p > Len(b) THEN Partial
       ELSE IF b[p] # "$" THEN Fails
       ELSE IF ~Ended(b, cr) THEN Partial
       ELSE IF v = -2 \/ v > MaxReply \/ (v = -1 /\ allow_nil = 0) THEN Fails
       ELSE IF v = -1 THEN Answer(<<>>, cr + 2)
       ELSE IF end.rc = "again" THEN Partial
       ELSE IF end.rc = "declined" THEN Fails
       ELSE Answer(SubSeq(b, cr + 2, cr + 1 + v), end.next)

\* The keys of redis_parse_scan(), n of them from p.
Keyed(b, a) ==
    LET one == Bulk(b, a.next, 1) IN
    IF a.rc # "ok" THEN a
    ELSE IF one.rc # "ok" THEN one
    ELSE Answer(Append(a.value, one.value), one.next)

KeyReplies == [rc : {"ok", "again", "error"}, value : Seq(Seq(STRING)), next : Nat]
ReplyKeys(b, p, n) ==
    Iterated([a \in KeyReplies |-> Keyed(b, a)], n, Answer(<<>>, p))

\* redis_parse_scan(): a cursor and an array of keys.
ParseScan(b) ==
    LET cr == CrFrom(b, 2)
        cursor == Bulk(b, cr + 2, 0)
        p == cursor.next
        kr == CrFrom(b, p + 1)
        said == Number(b, p, kr)
        n == IF said = -1 THEN 0 ELSE said
        keys == ReplyKeys(b, kr + 2, n)
    IN IF b = <<>> THEN Partial
       ELSE IF b[1] # "*" THEN Fails
       ELSE IF ~Ended(b, cr) THEN Partial
       ELSE IF Number(b, 1, cr) # 2 THEN Fails
       ELSE IF cursor.rc # "ok" THEN cursor
       ELSE IF p > Len(b) THEN Partial
       ELSE IF b[p] # "*" THEN Fails
       ELSE IF ~Ended(b, kr) THEN Partial
       ELSE IF n < 0 \/ n > MaxMembers \/ n > (Len(b) - kr - 1) \div 4 THEN Fails
       ELSE IF keys.rc # "ok" THEN keys
       ELSE Answer(<<cursor.value, keys.value>>, keys.next)

\* redis_parse(): the reply to a GET, and not a byte more.
ParseGet(b) ==
    LET cr == CrFrom(b, 2)
        v == Number(b, 1, cr)
        end == BulkEnd(b, cr + 1, v)
    IN IF b = <<>> THEN Partial
       ELSE IF b[1] # "$" THEN Fails
       ELSE IF ~Ended(b, cr) THEN Partial
       ELSE IF v = -1 THEN IF cr + 1 = Len(b) THEN Nil ELSE Fails
       ELSE IF v = -2 \/ v > MaxValue THEN Fails
       ELSE IF end.rc = "again" THEN Partial
       ELSE IF end.rc = "declined" \/ end.next # Len(b) + 1 THEN Fails
       ELSE Answer(SubSeq(b, cr + 2, cr + 1 + v), end.next)

\* mc_parse(): "VALUE key flags" is the one symbol "VALUE", "END" another.
McTail == <<"CR", "LF", "END", "CR", "LF">>

ParseMc(b) ==
    LET cr == CrFrom(b, 1)
        v == Number(b, 1, cr)
    IN IF b = <<>> \/ cr = 0 \/ cr + 1 > Len(b) THEN Partial
       ELSE IF b[cr + 1] # "LF" THEN Fails
       ELSE IF SubSeq(b, 1, cr - 1) = <<"END">> THEN Nil
       ELSE IF b[1] # "VALUE" \/ v < 0 \/ v > MaxValue THEN Fails
       ELSE IF Len(b) - cr - 1 < v + Len(McTail) THEN Partial
       ELSE IF SubSeq(b, cr + v + 2, cr + v + 1 + Len(McTail)) # McTail THEN Fails
       ELSE Answer(SubSeq(b, cr + 2, cr + 1 + v), cr + v + 2 + Len(McTail))

\* redis_read_drain(): two replies and nothing behind them; one that is an
\* error is noted.
ParseDrain(b) ==
    LET one == Frame(b, 1)
        two == Frame(b, one.next)
    IN IF one.rc = "again" THEN Partial
       ELSE IF one.rc = "declined" THEN Fails
       ELSE IF two.rc = "again" THEN Partial
       ELSE IF two.rc = "declined" \/ two.next # Len(b) + 1 THEN Fails
       ELSE Answer(<<b[1] = "-", b[one.next] = "-">>, two.next)

\* redis_read_scan(), redis_read_sscan(): parsed once, when framed whole.
ParsePage(b, frame) ==
    IF frame.rc = "again" THEN Partial
    ELSE IF frame.rc = "declined" \/ frame.next # Len(b) + 1 THEN Fails
    ELSE IF ParseScan(b).rc # "ok" THEN Fails
    ELSE ParseScan(b)

-----------------------------------------------------------------------------
(* What a server means, by positions: a line, a bulk string, a page of a     *)
(* scan, a reply to a GET or to a fired command starts at p of b and ends    *)
(* before h.  Nothing here looks for anything: the positions are given.      *)

LineAt(b, p, h) ==
    /\ h \in p + 3..Len(b) + 1 /\ b[h - 2] = "CR" /\ b[h - 1] = "LF"
    /\ \A i \in p + 1..h - 3 : b[i] # "CR"

NilAt(b, p, mark, h) ==
    p <= Len(b) /\ b[p] = mark /\ LineAt(b, p, h) /\ Number(b, p, h - 2) = -1

\* The payload is from c on.
BulkAt(b, p, limit, c, h) ==
    /\ p <= Len(b) /\ b[p] = "$" /\ LineAt(b, p, c)
    /\ Number(b, p, c - 2) = h - c - 2 /\ h - c - 2 \in 0..limit
    /\ h <= Len(b) + 1 /\ b[h - 2] = "CR" /\ b[h - 1] = "LF"

Payload(b, c, h) == SubSeq(b, c, h - 3)

\* The header of an array of n elements, the first of them at c.
ArrayAt(b, p, n, c) ==
    /\ p <= Len(b) /\ b[p] = "*" /\ LineAt(b, p, c) /\ Number(b, p, c - 2) = n
    /\ n \in 0..MaxMembers

Places(b) == 1..Len(b) + 1

\* A key of a page, and the keys one behind the other: where each of them ends.
KeyAt(b, p, key, h) ==
    \/ NilAt(b, p, "$", h) /\ key = <<>>
    \/ \E c \in Places(b) : BulkAt(b, p, MaxReply, c, h) /\ key = Payload(b, c, h)

NextKey(b, keys, S) ==
    {x \in (2..Len(keys) + 1) \X Places(b) :
        \E p \in Places(b) : /\ <<x[1] - 1, p>> \in S
                             /\ KeyAt(b, p, keys[x[1] - 1], x[2])}

KeysEnd(b, keys, n, c) ==
    Iterated([S \in SUBSET ((1..Len(keys) + 1) \X Places(b)) |-> NextKey(b, keys, S)],
             n, {<<1, c>>})

KeysAt(b, p, keys, h) ==
    \/ NilAt(b, p, "*", h) /\ keys = <<>>
    \/ \E c \in Places(b) : /\ ArrayAt(b, p, Len(keys), c)
                            /\ <<Len(keys) + 1, h>> \in KeysEnd(b, keys, Len(keys), c)

PageAt(b, value, h) ==
    \E c, d, q \in Places(b) :
        /\ ArrayAt(b, 1, 2, c) /\ BulkAt(b, c, MaxReply, d, q)
        /\ value[2] \in Seq(Seq(STRING))
        /\ value = <<Payload(b, d, q), value[2]>> /\ KeysAt(b, q, value[2], h)

\* The replies to fired commands: nothing nested in an array.
FlatAt(b, p, h) ==
    \/ p <= Len(b) /\ b[p] \in {"+", "-", ":"} /\ LineAt(b, p, h)
    \/ NilAt(b, p, "$", h)
    \/ \E c \in Places(b) : BulkAt(b, p, MaxReply, c, h)

FlatEnds(b, n, c) ==
    Iterated([S \in SUBSET Places(b) |->
                 {h \in Places(b) : \E p \in S : FlatAt(b, p, h)}], n, {c})

ReplyAt(b, p, h) ==
    \/ FlatAt(b, p, h)
    \/ NilAt(b, p, "*", h)
    \/ \E c \in Places(b) : LET n == Number(b, p, c - 2) IN
         ArrayAt(b, p, n, c) /\ h \in FlatEnds(b, n, c)

MeantAs(kind, s, h) ==
    LET b == s.bytes IN
    CASE kind = "walk" -> s.rc = "ok" /\ PageAt(b, s.value, h)
      [] kind = "get" ->
           \/ s.rc = "declined" /\ s.value = <<>> /\ NilAt(b, 1, "$", h)
           \/ s.rc = "ok" /\ \E c \in Places(b) :
                BulkAt(b, 1, MaxValue, c, h) /\ s.value = Payload(b, c, h)
      [] kind = "memcached" ->
           \/ /\ s.rc = "declined" /\ s.value = <<>>
              /\ h = 4 /\ h <= Len(b) + 1 /\ SubSeq(b, 1, 3) = <<"END", "CR", "LF">>
           \/ /\ s.rc = "ok" /\ b # <<>> /\ b[1] = "VALUE"
              /\ \E c \in Places(b) :
                   /\ LineAt(b, 1, c) /\ Number(b, 1, c - 2) \in 0..MaxValue
                   /\ h = c + Number(b, 1, c - 2) + Len(McTail) /\ h <= Len(b) + 1
                   /\ SubSeq(b, h - Len(McTail), h - 1) = McTail
                   /\ s.value = SubSeq(b, c, h - Len(McTail) - 1)
      [] kind = "drain" ->
           /\ s.rc = "ok"
           /\ \E q \in Places(b) :
                /\ ReplyAt(b, 1, q) /\ ReplyAt(b, q, h)
                /\ s.value = <<b[1] = "-", b[q] = "-">>

\* What a stream's bytes are: damaged ones and odd ones may be anything.
Meaningful(kind, s) ==
    /\ s.bytes \in Seq(STRING)
    /\ s.meant = "whole" => MeantAs(kind, s, Len(s.bytes) + 1)
    /\ s.meant = "surplus" => \E h \in 1..Len(s.bytes) : MeantAs(kind, s, h)

Paged == UNION {{w[i] : i \in DOMAIN w} : w \in Walks}

ASSUME FramingAssumption ==
    /\ MaxDepth \in Nat \ {0, 1} /\ {MaxMembers, MaxReply, MaxValue} \subseteq Nat
    /\ Walks \subseteq Seq(Paged) \ {<<>>}
    /\ \A s \in Paged : Meaningful("walk", s)
    /\ \A s \in Gets : Meaningful("get", s)
    /\ \A s \in McGets : Meaningful("memcached", s)
    /\ \A s \in Drains : Meaningful("drain", s)

-----------------------------------------------------------------------------
Streams(kind) ==
    CASE kind = "walk" -> Walks
      [] kind = "get" -> {<<s>> : s \in Gets}
      [] kind = "memcached" -> {<<s>> : s \in McGets}
      [] kind = "drain" -> {<<s>> : s \in Drains}

FramingInit ==
    /\ reader \in {"walk", "get", "memcached", "drain"}
    /\ wire \in Streams(reader)
    /\ rlen = 0 /\ off = 1 /\ remain = <<>>
    /\ framed = Again /\ heard = Partial

Received == SubSeq(Head(wire).bytes, 1, rlen)

\* One recv() of the reader's loop: any number of the bytes that are coming.
Recv ==
    /\ heard.rc = "again"
    /\ \E n \in rlen + 1..Len(Head(wire).bytes) :
         LET b == SubSeq(Head(wire).bytes, 1, n)
             frame == FrameScan(b)
         IN /\ rlen' = n
            /\ IF reader = "walk"
               THEN /\ framed' = [rc |-> frame.rc, next |-> frame.next]
                    /\ off' = frame.next /\ remain' = frame.remain
                    /\ heard' = ParsePage(b, frame)
               ELSE /\ UNCHANGED <<framed, off, remain>>
                    /\ heard' = CASE reader = "get" -> ParseGet(b)
                                    [] reader = "memcached" -> ParseMc(b)
                                    [] reader = "drain" -> ParseDrain(b)
    /\ UNCHANGED <<reader, wire>>

(* Mutant of NextPage: the framing goes on where the last page ended. *)
NextPageGoesOn ==
    /\ reader = "walk" /\ heard.rc = "ok" /\ Len(wire) > 1
    /\ wire' = Tail(wire) /\ rlen' = 0
    /\ framed' = Again /\ heard' = Partial
    /\ UNCHANGED <<reader, off, remain>>

\* The next page of a walk is asked for: the buffer is reused, and the framing
\* starts over.
NextPage ==
    /\ reader = "walk" /\ heard.rc = "ok" /\ Len(wire) > 1
    /\ wire' = Tail(wire) /\ rlen' = 0 /\ off' = 1 /\ remain' = <<>>
    /\ framed' = Again /\ heard' = Partial
    /\ UNCHANGED reader

FramingNext == Recv \/ NextPage

FramingSpec == FramingInit /\ [][FramingNext]_framingVars

-----------------------------------------------------------------------------
(* What has to hold. *)

\* redis_frame() again, but with the verdict "deep" for an array MaxDepth deep.
Innermost(b) ==
    [p \in 1..Len(b) + 1 |->
        IF p <= Len(b) /\ b[p] = "*" THEN Deep ELSE Around(b, TooDeep(b))[p]]
FrameToDeep(b, p) == Framed(b, MaxDepth, Innermost(b))[p]

\* Framing in pieces (redis.c:3356): wherever a page was cut, the resumed walk
\* says of an array's bytes received so far what one walk from the start would
\* say, unless that comes to an array nested MaxDepth deep.
ScanIsFrame ==
    reader = "walk" /\ rlen > 0 /\ Received[1] = "*"
    /\ FrameToDeep(Received, 1).rc # "deep"
    => /\ framed.rc = Frame(Received, 1).rc
       /\ framed.rc = "ok" => framed.next = Frame(Received, 1).next

\* A reply is heard as it was meant (redis.c:3115, 3258, memcached.c:1123),
\* wherever it was cut: not before it is complete, not later, and never as
\* another; one with bytes behind it may fail, but is not heard wrong.
HeardAsMeant ==
    LET s == Head(wire) IN
    /\ s.meant = "whole" =>
         IF rlen < Len(s.bytes) THEN heard.rc = "again"
         ELSE heard.rc = s.rc /\ heard.value = s.value
    /\ s.meant = "surplus" /\ heard.rc \in {"ok", "declined"} =>
         heard.rc = s.rc /\ heard.value = s.value

\* The comment before redis_frame_scan() (redis.c:3365): it accepts exactly
\* the arrays that redis_frame() accepts, the same depth included.
SameAsFrame ==
    reader = "walk" /\ rlen > 0 /\ Received[1] = "*"
    => (framed.rc = "ok") = (Frame(Received, 1).rc = "ok")

=============================================================================
