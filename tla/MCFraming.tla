----------------------------- MODULE MCFraming -----------------------------
(***************************************************************************)
(* Streams for Framing: the replies a server may mean, whole, with a byte  *)
(* behind them, or with one byte of them damaged.                          *)
(***************************************************************************)
EXTENDS Framing, FiniteSets, SequencesExt

End == <<"CR", "LF">>
Num(n) == <<Digits[n + 1]>>

Status == <<"+", "x">> \o End
Error == <<"-", "x">> \o End
Integer == <<":", "1">> \o End
BulkOf(s) == <<"$">> \o Num(Len(s)) \o End \o s \o End
NilOf(mark) == <<mark, "-", "1">> \o End
ArrayOf(parts) == <<"*">> \o Num(Len(parts)) \o End \o FlattenSeq(parts)

\* A payload may look like an end of line.
Payloads == {<<>>, <<"x">>, End}

Stream(b, meant, rc, value) ==
    [bytes |-> b, meant |-> meant, rc |-> rc, value |-> value]

Symbols == {"$", "*", "+", "-", "1", "2", "CR", "LF", "x"}

Damaged(streams) ==
    {Stream([s.bytes EXCEPT ![i] = x], "damaged", "error", <<>>) :
        <<s, i, x>> \in UNION {{s} \X (DOMAIN s.bytes) \X Symbols : s \in streams}}
Surplus(streams) ==
    {Stream(Append(s.bytes, x), IF s.meant = "whole" THEN "surplus" ELSE s.meant,
            s.rc, s.value) :
        <<s, x>> \in streams \X {"$", "x"}}
All(streams) == streams \cup Damaged(streams) \cup Surplus(streams)

\* Pages: a cursor and up to two keys, one of them nil.
PageOf(keys) ==
    Stream(ArrayOf(<<BulkOf(<<"x">>), ArrayOf([i \in DOMAIN keys |-> BulkOf(keys[i])])>>),
           "whole", "ok", <<<<"x">>, keys>>)
PagesSent == {PageOf(keys) : keys \in UNION {[1..n -> Payloads] : n \in 0..2}}
         \cup {Stream(ArrayOf(<<BulkOf(<<"x">>), NilOf("*")>>), "whole", "ok",
                      <<<<"x">>, <<>>>>),
               Stream(ArrayOf(<<BulkOf(<<"x">>), ArrayOf(<<NilOf("$")>>)>>),
                      "whole", "ok", <<<<"x">>, <<<<>>>>>>)}

\* Arrays that are no pages.
Odd == {Stream(b, "odd", "error", <<>>) : b \in
          {NilOf("*"), ArrayOf(<<>>), ArrayOf(<<Status, Error>>),
           ArrayOf(<<ArrayOf(<<Integer, NilOf("*")>>), BulkOf(End)>>),
           ArrayOf(<<BulkOf(End), ArrayOf(<<ArrayOf(<<>>), Status>>)>>),
           ArrayOf(<<NilOf("$"), ArrayOf(<<>>)>>),
           ArrayOf(<<ArrayOf(<<ArrayOf(<<ArrayOf(<<>>)>>)>>)>>)}}

MCWalks ==
    {<<s>> : s \in All({PageOf(<<End, <<>>>>)} \cup Odd)}
    \cup {<<s, PageOf(<<End>>)>> : s \in PagesSent}

MCGets == All({Stream(BulkOf(p), "whole", "ok", p) : p \in Payloads}
              \cup {Stream(NilOf("$"), "whole", "declined", <<>>)})

MCMcGets ==
    All({Stream(<<"VALUE">> \o Num(Len(p)) \o End \o p \o McTail,
                "whole", "ok", p) : p \in Payloads}
        \cup {Stream(<<"END">> \o End, "whole", "declined", <<>>)})

MCDrains ==
    LET Replies == {Status, Error, Integer, BulkOf(End), NilOf("$"),
                    ArrayOf(<<Status, BulkOf(<<>>)>>)}
    IN All({Stream(a \o b, "whole", "ok", <<a[1] = "-", b[1] = "-">>) :
               a, b \in Replies})

=============================================================================
