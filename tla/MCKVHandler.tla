---------------------------- MODULE MCKVHandler ----------------------------
(***************************************************************************)
(* Instances of KVHandler for TLC: what a client sends reaches each limit, *)
(* and the byte before it.                                                 *)
(***************************************************************************)
EXTENDS KVHandler

Of(name, len) == [name |-> name, len |-> len]
Plain(op) == [op |-> op]
On(op, k, n) == [op |-> op, key |-> Of(k, n)]
SetTo(k, n, v, m) == [op |-> "set", key |-> Of(k, n), val |-> Of(v, m)]

\* Transactions of short keys and values.
Undoes == <<SetTo("a", 1, "v", 3), Plain("begin"), SetTo("a", 1, "w", 15), On("del", "a", 1),
            SetTo("b", 15, "v", 1), SetTo("a", 1, "v", 1), Plain("abort"), On("get", "a", 1)>>
Refused == <<Plain("empty"), Plain("commit"), Plain("begin"), Plain("begin"), On("del", "a", 0),
             SetTo("a", 1, "v", 2), SetTo("a", 1, "v", 0), Plain("commit"), Plain("abort")>>
\* Lengths of two digits.
LongKey == <<Plain("begin"), SetTo("a", 16, "v", 1), SetTo("a", 16, "w", 1), Plain("abort")>>
LongValue == <<SetTo("a", 1, "v", 16), Plain("begin"), On("del", "a", 1), Plain("abort")>>
\* 61 bytes fit into the answer, 62 do not; lines of 127 and of 128 bytes.
Answers == <<SetTo("a", 1, "v", 61), On("get", "a", 1), SetTo("b", 1, "v", 62), On("get", "b", 1)>>
Lines == <<SetTo("a", 1, "v", 78), On("del", "a", 1), SetTo("a", 2, "v", 78)>>
\* Commands of 127 and of 128 bytes, an empty key.
Commands == <<On("get", "a", 121), On("get", "a", 122)>>
NoKeyAtAll == <<SetTo("a", 0, "v", 1)>>

MCScripts == {Undoes, Refused, LongKey, LongValue, Answers, Lines, Commands, NoKeyAtAll}
=============================================================================
