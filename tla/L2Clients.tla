------------------------------ MODULE L2Clients ------------------------------
(***************************************************************************)
(* One worker's clients of the second cache level, Redis                   *)
(* (ngx_http_cache_turbo_redis.c) and memcached                            *)
(* (ngx_http_cache_turbo_memcached.c): operations that open or reuse a     *)
(* connection, authenticate it, send their commands and read the replies;  *)
(* the pool of idle connections; the memo of unreachable servers; and the  *)
(* requests parked on an answer.                                           *)
(*                                                                         *)
(* A worker is one event loop, so each action is one event handler run to  *)
(* its end.  Bytes are abstracted to whole replies, except that the first  *)
(* bytes of one may arrive ahead of the rest; module Framing shows why     *)
(* that is enough.  Server actions (Execute, Close, Deliver) are external. *)
(* The walks of SCAN and SSCAN are in TagPurge.                            *)
(***************************************************************************)
EXTENDS Integers, Sequences, SequencesExt, FiniteSets

CONSTANTS
    Ops,            \* operation slots
    Conns,          \* connection slots
    Requests,       \* requests that may wait for an answer
    Contexts,       \* what a bucket of the pool stands for: one server, TLS
                    \* setting, database and set of credentials
    Servers,
    Server,         \* the server of a context
    Memcached,      \* contexts whose server is memcached
    Tls,            \* contexts that speak TLS
    PreReplies,     \* replies to a context's AUTH and SELECT, 0 to 2
    KeepAlive,      \* redis_keepalive: idle connections kept per bucket
    Chunks,         \* bound: the numbers of commands cmd_many() sends
    None

ASSUME RedisClientAssumption ==
    /\ Server \in [Contexts -> Servers]
    /\ Tls \subseteq Contexts
    /\ Memcached \subseteq Contexts /\ Memcached \cap Tls = {}
    /\ PreReplies \in [Contexts -> 0..2]
    /\ \A x \in Memcached : PreReplies[x] = 0
    /\ KeepAlive \in Nat /\ Chunks \subseteq Nat \ {0}
    /\ None \notin Ops \cup Conns \cup Requests \cup Contexts
    /\ "refused" \notin Contexts \cup {None}

VARIABLES
    op,             \* the operations in flight
    conn,           \* the connections, and the server's end of each
    pool,           \* idle connections of each bucket, last one first
    backoff,        \* the server is not to be tried for a while
    req,            \* where each request is
    inflight,       \* sh->varidx_inflight
    verdict,        \* history: what drain_cb is told in this step
    owed            \* history: commands drain_cb answers for, not executed yet

vars == <<op, conn, pool, backoff, req, inflight, verdict, owed>>

\* "get" and "lock" answer a request, "many" a callback; "index" is counted in
\* varidx_inflight; "fire" is any other command nobody waits for.
Kinds == {"get", "lock", "many", "index", "fire"}
Waits == {"get", "lock"}

NoOp == [kind |-> "none", ctx |-> None, conn |-> None, req |-> None,
         st |-> "none", reader |-> "reply", pre |-> FALSE,
         unconnected |-> FALSE, expected |-> 0, seen |-> 0, failed |-> FALSE,
         wtimer |-> FALSE, rtimer |-> FALSE]

NoConn == [st |-> "free", ctx |-> None, stream |-> "open", session |-> None,
           cmds |-> <<>>, replies |-> <<>>, heard |-> FALSE]

Live(o) == op[o].kind # "none"
Redis == Contexts \ Memcached
OfRedis(o) == op[o].ctx \in Redis
OfMemcached(o) == op[o].ctx \in Memcached

OpType ==
    [kind : Kinds \cup {"none"}, ctx : Contexts \cup {None},
     conn : Conns \cup {None}, req : Requests \cup {None},
     st : {"none", "tls", "write", "read"}, reader : {"preamble", "reply"},
     pre : BOOLEAN, unconnected : BOOLEAN, expected : Nat, seen : Nat,
     failed : BOOLEAN, wtimer : BOOLEAN, rtimer : BOOLEAN]

\* A command on its way, and a reply to one or, of nobody, a last word.
CmdType == [for : Ops, pre : BOOLEAN]
ReplyType == [for : Ops \cup {None}, what : {"ok", "nil", "err", "bad"}]

ConnType ==
    [st : {"free", "used", "pooled"}, ctx : Contexts \cup {None},
     stream : {"open", "ending", "ended"},
     session : Contexts \cup {None, "refused"},
     cmds : Seq(CmdType), replies : Seq(ReplyType), heard : BOOLEAN]

TypeOK ==
    /\ op \in [Ops -> OpType]
    /\ conn \in [Conns -> ConnType]
    /\ pool \in [Contexts -> Seq(Conns)]
    /\ backoff \in [Servers -> BOOLEAN]
    /\ req \in [Requests -> {"run", "parked"}]
    /\ inflight \in Nat
    /\ verdict \in {"none", "ok", "error"}
    /\ owed \in [Ops -> Nat]

Init ==
    /\ op = [o \in Ops |-> NoOp]
    /\ conn = [c \in Conns |-> NoConn]
    /\ pool = [x \in Contexts |-> <<>>]
    /\ backoff = [s \in Servers |-> FALSE]
    /\ req = [r \in Requests |-> "run"]
    /\ inflight = 0
    /\ verdict = "none"
    /\ owed = [o \in Ops |-> 0]

-----------------------------------------------------------------------------
\* No callback is called.
Silent == verdict' = "none"

(* The end of an operation. *)

\* backoff_fail(): only an attempt that never heard from the server counts.
FailBackoff(o) ==
    IF op[o].unconnected
    THEN backoff' = [backoff EXCEPT ![Server[op[o].ctx]] = TRUE]
    ELSE UNCHANGED backoff

\* The four read handlers: the first bytes show that the server is there.
ClearBackoff(o) ==
    IF op[o].unconnected
    THEN backoff' = [backoff EXCEPT ![Server[op[o].ctx]] = FALSE]
    ELSE UNCHANGED backoff

\* ka_save(): the bucket has room, and its one-byte read finds neither data
\* nor the end of the stream.
Keepable(end, clean) ==
    /\ clean
    /\ end.stream # "ended" /\ end.replies = <<>>
    /\ Len(pool[end.ctx]) < KeepAlive

(* Mutant of DrainRc: reading all the replies is enough. *)
DrainRcRead(clean, failed) == IF clean THEN "ok" ELSE "error"

\* What drain_cb is told: every reply came and none was an error.
DrainRc(clean, failed) == IF clean /\ ~failed THEN "ok" ELSE "error"

\* op_done(), end being the operation's connection as it leaves it.
OpDone(o, end, clean, failed) ==
    LET keep == Keepable(end, clean) IN
    /\ pool' = IF keep THEN [pool EXCEPT ![end.ctx] = <<op[o].conn>> \o @]
               ELSE pool
    /\ conn' = [conn EXCEPT ![op[o].conn] =
                   IF keep THEN [end EXCEPT !.st = "pooled"] ELSE NoConn]
    /\ verdict' = IF op[o].kind = "many" THEN DrainRc(clean, failed) ELSE "none"
    /\ inflight' = IF op[o].kind = "index" THEN inflight - 1 ELSE inflight
    /\ owed' = [owed EXCEPT ![o] = 0]
    /\ op' = [op EXCEPT ![o] = NoOp]

(* Mutant of Resume: the lock's request is forgotten. *)
ResumeGet(o) ==
    req' = IF op[o].kind = "get" THEN [req EXCEPT ![op[o].req] = "run"] ELSE req

\* get_finish(), lock_finish(): unpark and run the phases again.
Resume(o) ==
    req' = IF op[o].kind \in Waits THEN [req EXCEPT ![op[o].req] = "run"]
           ELSE req

OpFail(o) ==
    /\ OpDone(o, conn[op[o].conn], FALSE, op[o].failed)
    /\ FailBackoff(o)
    /\ Resume(o)

-----------------------------------------------------------------------------
(* The start of an operation. *)

\* launch() with a connection of the same bucket idle: no preamble again.
Reuse(o, new) ==
    LET c == Head(pool[new.ctx]) IN
    /\ ~backoff[Server[new.ctx]] /\ pool[new.ctx] # <<>>
    /\ pool' = [pool EXCEPT ![new.ctx] = Tail(@)]
    /\ conn' = [conn EXCEPT ![c].st = "used"]
    /\ op' = [op EXCEPT ![o] = [new EXCEPT !.conn = c, !.st = "write",
                                           !.wtimer = TRUE]]
    /\ UNCHANGED backoff

\* launch() with a new connection.
Connect(o, new) ==
    /\ ~backoff[Server[new.ctx]] /\ pool[new.ctx] = <<>>
    /\ \E c \in Conns :
         /\ conn[c].st = "free" /\ c = CHOOSE free \in Conns : conn[free].st = "free"
         /\ conn' = [conn EXCEPT ![c] = [NoConn EXCEPT !.st = "used",
                                                      !.ctx = new.ctx]]
         /\ op' = [op EXCEPT ![o] =
              [new EXCEPT !.conn = c, !.unconnected = TRUE, !.wtimer = TRUE,
                          !.pre = PreReplies[new.ctx] > 0,
                          !.st = IF new.ctx \in Tls THEN "tls" ELSE "write"]]
    /\ UNCHANGED <<pool, backoff>>

Launched(o, new) == Reuse(o, new) \/ Connect(o, new)

\* launch() fails: the server is not to be tried yet, or refuses at once.
NotLaunched(x) ==
    /\ \/ backoff[Server[x]] /\ UNCHANGED backoff
       \/ /\ ~backoff[Server[x]] /\ pool[x] = <<>>
          /\ backoff' = [backoff EXCEPT ![Server[x]] = TRUE]
    /\ UNCHANGED <<op, conn, pool>>

New(k, x, r, n) ==
    [NoOp EXCEPT !.kind = k, !.ctx = x, !.req = r, !.expected = n]

\* op_create(), in the first slot that is free.
Fresh(o, n) ==
    /\ ~Live(o) /\ o = CHOOSE free \in Ops : ~Live(free)
    /\ Silent
    /\ owed' = [owed EXCEPT ![o] = n]

\* get(), lock(): the request is parked if the command is on its way, and
\* goes on without an answer if it is not.
Ask(o, k, r, x) ==
    /\ req[r] = "run" /\ Fresh(o, 0)
    /\ \/ Launched(o, New(k, x, r, 1)) /\ req' = [req EXCEPT ![r] = "parked"]
       \/ NotLaunched(x) /\ UNCHANGED req
    /\ UNCHANGED inflight

\* set(), del_raw(), unlock(): one command nobody waits for.
Fire(o, x) ==
    /\ Fresh(o, 0)
    /\ Launched(o, New("fire", x, None, 1)) \/ NotLaunched(x)
    /\ UNCHANGED <<req, inflight>>

\* tag_add_impl(): SADD and two EXPIREs, counted before the launch and
\* counted back when it fails.
IndexCmds == 3

TagAdd(o, x) ==
    /\ Fresh(o, 0)
    /\ \/ Launched(o, New("index", x, None, IndexCmds)) /\ inflight' = inflight + 1
       \/ NotLaunched(x) /\ UNCHANGED inflight
    /\ UNCHANGED req

\* cmd_many(): n chunks in one operation; its callback is promised only when
\* it was launched.
CmdMany(o, x, n) ==
    /\ \/ Fresh(o, n) /\ Launched(o, New("many", x, None, n))
       \/ Fresh(o, 0) /\ NotLaunched(x)
    /\ UNCHANGED <<req, inflight>>

-----------------------------------------------------------------------------
(* The events of an operation's connection. *)

\* tls_handshake_done(); a peer that is not who it should be is a failure.
TlsDone(o) ==
    /\ op[o].st = "tls" /\ conn[op[o].conn].stream = "open"
    /\ op' = [op EXCEPT ![o].st = "write", ![o].wtimer = TRUE]
    /\ UNCHANGED <<conn, pool, backoff, req, inflight, owed>> /\ Silent

(* Mutant of Write: no timer for the answer. *)
WriteUntimed(o) ==
    LET n == IF op[o].pre THEN PreReplies[op[o].ctx] ELSE op[o].expected
    IN
    /\ op[o].st = "write" /\ OfRedis(o)
    /\ conn' = [conn EXCEPT ![op[o].conn].cmds =
                    @ \o [i \in 1..n |-> [for |-> o, pre |-> op[o].pre]]]
    /\ op' = [op EXCEPT ![o].st = "read", ![o].wtimer = FALSE,
                        ![o].reader = IF op[o].pre THEN "preamble" ELSE "reply"]
    /\ UNCHANGED <<pool, backoff, req, inflight, owed>> /\ Silent

\* write(): all of the buffer is sent; a server that has closed drops it.
Write(o) ==
    LET c == op[o].conn
        n == IF op[o].pre THEN PreReplies[op[o].ctx] ELSE op[o].expected
        cmd == [for |-> o, pre |-> op[o].pre]
    IN
    /\ op[o].st = "write" /\ OfRedis(o)
    /\ conn' = IF conn[c].stream = "open"
               THEN [conn EXCEPT ![c].cmds = @ \o [i \in 1..n |-> cmd]]
               ELSE conn
    /\ op' = [op EXCEPT ![o].st = "read", ![o].wtimer = FALSE,
                        ![o].rtimer = TRUE,
                        ![o].reader = IF op[o].pre THEN "preamble" ELSE "reply"]
    /\ UNCHANGED <<pool, backoff, req, inflight, owed>> /\ Silent

\* Bytes are there for the read handler; it is set before the write is done.
Hears(o) ==
    /\ op[o].st \in {"write", "read"}
    /\ conn[op[o].conn].replies # <<>>

Said(o) == Head(conn[op[o].conn].replies).what
AfterReply(o) == [conn[op[o].conn] EXCEPT !.replies = Tail(@), !.heard = TRUE]

\* The beginning of a reply: the handler waits for the rest.
FirstBytes(o) ==
    /\ Hears(o) /\ ~conn[op[o].conn].heard
    /\ ClearBackoff(o)
    /\ conn' = [conn EXCEPT ![op[o].conn].heard = TRUE]
    /\ op' = [op EXCEPT ![o].unconnected = FALSE]
    /\ UNCHANGED <<pool, req, inflight, owed>> /\ Silent

\* A read handler goes on to the next reply.
NextReply(o, new) ==
    /\ op' = [op EXCEPT ![o] = [new EXCEPT !.unconnected = FALSE]]
    /\ conn' = [conn EXCEPT ![op[o].conn] = AfterReply(o)]
    /\ UNCHANGED <<pool, req, inflight, owed>> /\ Silent

\* A read handler ends the operation.
LastReply(o, clean, failed) ==
    /\ OpDone(o, AfterReply(o), clean, failed)
    /\ Resume(o)

\* read_preamble(): the command follows once AUTH and SELECT are accepted.
ReadPreamble(o) ==
    /\ Hears(o) /\ op[o].reader = "preamble" /\ ClearBackoff(o)
    /\ IF Said(o) = "err" THEN LastReply(o, FALSE, op[o].failed)
       ELSE IF op[o].seen + 1 < PreReplies[op[o].ctx]
       THEN NextReply(o, [op[o] EXCEPT !.seen = @ + 1])
       ELSE NextReply(o, [op[o] EXCEPT !.seen = 0, !.pre = FALSE,
                                       !.st = "write", !.wtimer = TRUE])

\* read_get(): a bulk string or nil; anything else, or more, is an error.
ReadGet(o) ==
    /\ Hears(o) /\ op[o].kind = "get" /\ op[o].reader = "reply" /\ OfRedis(o)
    /\ ClearBackoff(o)
    /\ LastReply(o, Said(o) \in {"ok", "nil"} /\ AfterReply(o).replies = <<>>,
                 FALSE)

\* read_lock(): any one well-formed reply leaves the connection clean.
ReadLock(o) ==
    /\ Hears(o) /\ op[o].reader = "reply" /\ op[o].kind = "lock"
    /\ ClearBackoff(o)
    /\ LastReply(o, Said(o) # "bad" /\ AfterReply(o).replies = <<>>, FALSE)

(* Mutant of ReadDrain: the first reply ends the operation. *)
ReadDrainFirst(o) ==
    /\ Hears(o) /\ op[o].kind \notin Waits /\ op[o].reader = "reply" /\ OfRedis(o)
    /\ ClearBackoff(o)
    /\ LastReply(o, Said(o) # "bad" /\ AfterReply(o).replies = <<>>, Said(o) = "err")

\* read_drain(): every expected reply, and an error among them is remembered.
ReadDrain(o) ==
    LET failed == op[o].failed \/ Said(o) = "err" IN
    /\ Hears(o) /\ op[o].kind \notin Waits /\ op[o].reader = "reply" /\ OfRedis(o)
    /\ ClearBackoff(o)
    /\ IF Said(o) = "bad" THEN LastReply(o, FALSE, failed)
       ELSE IF op[o].seen + 1 < op[o].expected
       THEN NextReply(o, [op[o] EXCEPT !.seen = @ + 1, !.failed = failed])
       ELSE LastReply(o, AfterReply(o).replies = <<>>, failed)

\* A timer of the operation fires, or its connection breaks.
Timeout(o) == OfRedis(o) /\ (op[o].wtimer \/ op[o].rtimer) /\ OpFail(o)
Broken(o) == OfRedis(o) /\ OpFail(o)

\* walk_detach(): the request's pool is destroyed while it waits.
Detach(o) ==
    /\ op[o].kind \in Waits /\ OfRedis(o)
    /\ OpDone(o, conn[op[o].conn], FALSE, op[o].failed)
    /\ Resume(o)
    /\ UNCHANGED backoff

(* Mutant of DropIdle: the connection stays in its bucket. *)
DropIdlePooled(c) ==
    /\ conn[c].st = "pooled" /\ conn' = [conn EXCEPT ![c] = NoConn]
    /\ UNCHANGED <<op, pool, backoff, req, inflight, owed>> /\ Silent

\* ka_close_handler(): an idle connection times out, ends or has data.
DropIdle(c) ==
    /\ conn[c].st = "pooled"
    /\ \E i \in DOMAIN pool[conn[c].ctx] :
         /\ pool[conn[c].ctx][i] = c
         /\ pool' = [pool EXCEPT ![conn[c].ctx] = RemoveAt(@, i)]
    /\ conn' = [conn EXCEPT ![c] = NoConn]
    /\ UNCHANGED <<op, backoff, req, inflight, owed>> /\ Silent

\* backoff_active(): the time is over.
BackoffEnds(s) ==
    /\ backoff[s] /\ backoff' = [backoff EXCEPT ![s] = FALSE]
    /\ UNCHANGED <<op, conn, pool, req, inflight, owed>> /\ Silent

-----------------------------------------------------------------------------
(* memcached: no preamble, no TLS, one reply to each command. *)

\* ka_save(): pooled when the reply was understood to its end, nothing more is
\* there and the bucket has room; closed otherwise.
McKaSave(o, end, clean) ==
    LET room == Len(pool[end.ctx]) < KeepAlive
        quiet == end.replies = <<>> /\ end.stream # "ended" IN
    IF clean /\ room /\ quiet
    THEN /\ pool' = [pool EXCEPT ![end.ctx] = <<op[o].conn>> \o @]
         /\ conn' = [conn EXCEPT ![op[o].conn] = [end EXCEPT !.st = "pooled"]]
    ELSE /\ conn' = [conn EXCEPT ![op[o].conn] = NoConn]
         /\ UNCHANGED pool

\* mc_op_done()
McDone(o, end, clean) ==
    /\ McKaSave(o, end, clean)
    /\ op' = [op EXCEPT ![o] = NoOp]
    /\ UNCHANGED <<inflight, owed>> /\ Silent

\* mc_get_finish(): the request that asked runs its phases again.
McFinish(o, end, clean) == McDone(o, end, clean) /\ Resume(o)

\* mc_connect(), for a command that is on its way or not.
McConnect(o, new) ==
    /\ ~backoff[Server[new.ctx]]
    /\ Reuse(o, new) \/ Connect(o, new)

\* memcached_get()
McGet(o, r, x) ==
    /\ req[r] = "run" /\ Fresh(o, 0)
    /\ \/ McConnect(o, New("get", x, r, 1)) /\ req' = [req EXCEPT ![r] = "parked"]
       \/ NotLaunched(x) /\ UNCHANGED req
    /\ UNCHANGED inflight

\* memcached_set(), memcached_del_raw_rc()
McFire(o, x) ==
    /\ Fresh(o, 0)
    /\ McConnect(o, New("fire", x, None, 1)) \/ NotLaunched(x)
    /\ UNCHANGED <<req, inflight>>

\* mc_write()
McWrite(o) ==
    LET c == op[o].conn IN
    /\ op[o].st = "write" /\ OfMemcached(o)
    /\ conn' = IF conn[c].stream # "open" THEN conn
               ELSE [conn EXCEPT ![c].cmds = Append(@, [for |-> o, pre |-> FALSE])]
    /\ op' = [op EXCEPT ![o].st = "read", ![o].wtimer = FALSE, ![o].rtimer = TRUE]
    /\ UNCHANGED <<pool, backoff, req, inflight, owed>> /\ Silent

\* mc_read_drain(): only STORED, DELETED and NOT_FOUND, and only as the last
\* bytes there are, leave a connection that may be used again.
McReadDrain(o) ==
    /\ Hears(o) /\ OfMemcached(o) /\ op[o].kind = "fire"
    /\ ClearBackoff(o)
    /\ McDone(o, AfterReply(o), Said(o) = "ok" /\ AfterReply(o).replies = <<>>)
    /\ UNCHANGED req

\* mc_read_get(): VALUE and its data, or END.
McReadGet(o) ==
    /\ Hears(o) /\ OfMemcached(o) /\ op[o].kind = "get"
    /\ ClearBackoff(o)
    /\ McFinish(o, AfterReply(o),
                Said(o) \in {"ok", "nil"} /\ AfterReply(o).replies = <<>>)

\* mc_op_fail(), by a timer or a connection that breaks.
McFail(o) == McFinish(o, conn[op[o].conn], FALSE) /\ FailBackoff(o)
McTimeout(o) == OfMemcached(o) /\ (op[o].wtimer \/ op[o].rtimer) /\ McFail(o)
McBroken(o) == OfMemcached(o) /\ McFail(o)

\* mc_get_detach(): the request is destroyed while it waits.
McDetach(o) ==
    /\ OfMemcached(o) /\ op[o].kind = "get"
    /\ McFinish(o, conn[op[o].conn], FALSE)
    /\ UNCHANGED backoff

-----------------------------------------------------------------------------
(* The server. *)

\* What the server may say.  To commands nobody is told of, bytes that are no
\* reply are a broken connection.
Replies == [get |-> {"ok", "nil", "err", "bad"}, lock |-> {"ok", "nil", "err", "bad"},
            many |-> {"ok", "err", "bad"}, index |-> {"ok"},
            fire |-> {"ok", "err"}, none |-> {"ok"}]

\* The next command is executed.  A session stays refused after an error of
\* AUTH or SELECT, and is the context's after the last of them succeeded.
Execute(c, what) ==
    LET cmd == Head(conn[c].cmds)
        left == Tail(conn[c].cmds)
        x == conn[c].ctx
        session == IF ~cmd.pre THEN conn[c].session
                   ELSE IF what # "ok" \/ conn[c].session = "refused" THEN "refused"
                   ELSE IF left = <<>> THEN x ELSE conn[c].session
    IN
    /\ conn[c].st = "used" /\ conn[c].cmds # <<>> /\ conn[c].stream = "open"
    /\ what \in IF cmd.pre THEN {"ok", "err"} ELSE Replies[op[cmd.for].kind]
    /\ conn' = [conn EXCEPT ![c].cmds = left, ![c].session = session,
           ![c].replies = Append(@, [for |-> cmd.for, what |-> what])]
    /\ owed' = IF what = "ok" /\ ~cmd.pre /\ op[cmd.for].kind = "many"
                 THEN [owed EXCEPT ![cmd.for] = @ - 1] ELSE owed
    /\ UNCHANGED <<op, pool, backoff, req, inflight>> /\ Silent

\* The server closes, a new connection perhaps with an error it was not asked
\* for (too many clients); the end of the stream arrives later.
Close(c) ==
    /\ conn[c].st # "free" /\ conn[c].stream = "open"
    /\ \E last \in IF conn[c].heard \/ conn[c].replies # <<>> THEN {<<>>}
                 ELSE {<<>>, <<[for |-> None, what |-> "err"]>>} :
         conn' = [conn EXCEPT ![c].stream = "ending", ![c].cmds = <<>>,
                              ![c].replies = @ \o last]
    /\ UNCHANGED <<op, pool, backoff, req, inflight, owed>> /\ Silent

Deliver(c) ==
    /\ conn[c].stream = "ending"
    /\ conn' = [conn EXCEPT ![c].stream = "ended"]
    /\ UNCHANGED <<op, pool, backoff, req, inflight, owed>> /\ Silent

-----------------------------------------------------------------------------
Event(o) ==
    \/ FirstBytes(o) \/ ReadPreamble(o) \/ ReadGet(o) \/ ReadLock(o)
    \/ ReadDrain(o) \/ TlsDone(o) \/ Write(o)
    \/ Timeout(o) \/ Broken(o) \/ Detach(o)
    \/ McWrite(o) \/ McReadDrain(o) \/ McReadGet(o)
    \/ McTimeout(o) \/ McBroken(o) \/ McDetach(o)

Next ==
    \/ \E o \in Ops :
         \/ Event(o)
         \/ \E x \in Redis :
              \/ \E r \in Requests, k \in Waits : Ask(o, k, r, x)
              \/ Fire(o, x) \/ TagAdd(o, x)
              \/ \E n \in Chunks : CmdMany(o, x, n)
         \/ \E x \in Memcached :
              \/ \E r \in Requests : McGet(o, r, x)
              \/ McFire(o, x)
    \/ \E c \in Conns :
         \/ DropIdle(c) \/ Close(c) \/ Deliver(c)
         \/ \E what \in {"ok", "nil", "err", "bad"} : Execute(c, what)
    \/ \E s \in Servers : BackoffEnds(s)

\* Timers fire; nothing is assumed of the server or the network.
Spec == Init /\ [][Next]_vars
        /\ \A o \in Ops : WF_vars(Timeout(o) \/ McTimeout(o))

-----------------------------------------------------------------------------
(* Properties. *)

Session(x) == IF PreReplies[x] = 0 THEN None ELSE x

(* An operation that reads the reply to its command reads its own, from a   *)
(* server that has accepted its credentials: nothing is left over on a      *)
(* pooled connection, whatever failed, timed out or came early before       *)
(* (read_drain(), ka_save(), launch()).                                     *)
OwnReplies ==
    /\ \A o \in Ops : op[o].st = "read" =>
         LET c == conn[op[o].conn] IN
         /\ \A m \in ToSet(c.cmds) : m.for = o
         /\ \A m \in ToSet(c.replies) : m.for \in {o, None}
         /\ ~op[o].pre /\ c.stream = "open" => c.session = Session(op[o].ctx)
    /\ \A c \in Conns : conn[c].st = "pooled" => conn[c].cmds = <<>>

(* A connection is held by one operation or lies once in the pool of its    *)
(* own bucket, and a bucket never grows beyond redis_keepalive: op_done()   *)
(* against the timer and the peer's events of an idle connection.           *)
ConnOwned ==
    /\ \A c \in Conns : conn[c].st = "used" <=>
         Cardinality({o \in Ops : op[o].conn = c}) = 1
    /\ \A x \in Contexts :
         /\ Len(pool[x]) <= KeepAlive /\ IsInjective(pool[x])
         /\ \A i \in DOMAIN pool[x] : conn[pool[x][i]].st = "pooled"
                                       /\ conn[pool[x][i]].ctx = x
    /\ \A c \in Conns : conn[c].st = "pooled" =>
         \E x \in Contexts : c \in ToSet(pool[x])

(* A parked request has exactly one operation that will wake it, and no     *)
(* operation knows a request that is not parked: a late answer, a timeout   *)
(* and the destruction of the request cannot both reach it.  In the same    *)
(* way varidx_inflight, which the purge of a variant index waits for,       *)
(* counts what is in flight.                                                *)
ParkedPaired ==
    /\ \A r \in Requests : Cardinality({o \in Ops : op[o].req = r}) =
                            IF req[r] = "parked" THEN 1 ELSE 0
    /\ inflight = Cardinality({o \in Ops : op[o].kind = "index"})

(* The callback of a pipelined UNLINK says OK only when the server has      *)
(* executed every command of it (read_drain(), op_done()).                  *)
DrainHonest ==
    [][\A o \in Ops : Live(o) /\ op'[o] = NoOp /\ verdict' = "ok" =>
                      owed[o] = 0]_vars

(* Whatever a request or a callback waits for, it hears of it.             *)
AnswersCome ==
    /\ \A r \in Requests : req[r] = "parked" ~> req[r] = "run"
    /\ \A o \in Ops : op[o].kind = "many" ~> ~Live(o)

=============================================================================
