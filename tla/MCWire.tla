------------------------------- MODULE MCWire -------------------------------
(***************************************************************************)
(* What arrives at the server.  Widths are scaled: an int32 has 11 bits    *)
(* and an int64 22; bytes, tags and wire types are the real ones.          *)
(***************************************************************************)
EXTENDS Talk

Pair(key, n, text) == << key, 1, n, <<0, 0, 128, 63>>, text >>
PairA == Pair(<<97>>, -1, <<>>)
PairB == Pair(<<98>>, 2047, <<98, 99>>)
Comp(pair) == << -3, pair >>
QueryOf(command, filters, settings) == << command, filters, settings >>

\* Whole queries: long and short ones, one and several filters and comparators.
Delete == QueryOf(2, << << <<Comp(PairA), Comp(PairB)>> >>, << <<Comp(PairB)>> >> >>, <<>>)
Update == QueryOf(130, << << <<Comp(PairB)>> >> >>, << <<PairA>>, <<PairB>> >>)
Find   == QueryOf(0, << << <<>> >> >>, <<>>)

BytesOf(msgs) == FlattenSeq([i \in DOMAIN msgs |-> Delimited("Query", msgs[i])])

\* The messages, of which the first n bytes arrive.
Input(msgs, n) ==
    LET bytes == BytesOf(msgs)
        before(i) == Len(FlattenSeq([j \in 1 .. i |-> Delimited("Query", msgs[j])]))
        \* Behind which bytes of message i one of its fields ends.
        fields(i) ==
            LET q == msgs[i]
                head == before(i) - Len(Encoded("Query", q))
                upTo(f, s) == head + Len(Encoded("Query",
                    QueryOf(q[1], SubSeq(q[2], 1, f), SubSeq(q[3], 1, s))))
            IN  {upTo(f, 0) : f \in 0 .. Len(q[2])}
                \cup {upTo(Len(q[2]), s) : s \in 0 .. Len(q[3])}
    IN  [bytes   |-> SubSeq(bytes, 1, n),
         ends    |-> {before(i) : i \in DOMAIN msgs},
         sent    |-> msgs,
         whole   |-> n = Len(bytes),
         between |-> UNION {fields(i) : i \in DOMAIN msgs} \cup {before(i) : i \in DOMAIN msgs},
         complete |-> Cardinality({i \in DOMAIN msgs : before(i) <= n})]

Talks == { <<Find, Delete>>, <<Update, Find>>, <<Delete>> }

\* Every talk, broken off at every byte.
Cuts == UNION { {Input(msgs, n) : n \in 0 .. Len(BytesOf(msgs))} : msgs \in Talks }

\* Numbers at the edges of their groups and widths.
Edges == { LET q == << QueryOf(c, << << << <<c, Pair(<<97>>, n, <<>>)>> >> >> >>, <<>>) >>
           IN  Input(q, Len(BytesOf(q))) :
             c \in {0, 127, 128, 1023, -1, -1024},
             n \in {0, 1, 128, 2047, 2048, 16383, 16384, 2097151, -1, -2, -2048, -2097152} }

\* These are what the program's own sender says: the theorems speak of them.
ASSUME OwnTalks == \A i \in Cuts \cup Edges : IsTalk(i)

----------------------------------------------------------------------------
(* Messages of other encoders: fields in any order, fields of a newer       *)
(* message.proto, a field twice, fields that do not fit.                    *)

Good(kind, value, bytes) == [kind |-> kind, value |-> value, bytes |-> bytes]
Bad(bytes) == [kind |-> "bad", value |-> 0, bytes |-> bytes]
Sub(tag, bytes) == TagOf(tag, 2) \o LengthFirst(bytes)

FilterA == << <<Comp(PairA)>> >>
SettingB == << PairB >>
LongKey == Pair(<<97, 97, 97>>, 0, <<>>)

Parts == {
    Good("command", 1, TagOf(1, 0) \o Varint(1)),
    Good("command", -1, TagOf(1, 0) \o Varint(2047)),
    Good("filter", FilterA, Sub(2, Encoded("Filter", FilterA))),
    Good("filter", FilterA,
         Sub(2, Sub(9, <<0, 0, 0, 0, 0>>) \o Encoded("Filter", FilterA))),
    Good("setting", SettingB, Sub(3, Encoded("ValueSetting", SettingB))),
    \* A required submessage twice: the last one counts.
    Good("setting", SettingB,
         Sub(3, Encoded("ValueSetting", << PairA >>) \o Encoded("ValueSetting", SettingB))),
    Good("unknown", 0, TagOf(70, 0) \o <<129, 128, 1>>),
    Good("unknown", 0, TagOf(7, 1) \o <<1, 2, 3, 4, 5, 6, 7, 8>>),
    Good("unknown", 0, TagOf(7, 5) \o <<1, 2, 3, 4>>),
    Bad(TagOf(7, 3)),
    Bad(TagOf(0, 0) \o <<1>>),
    Bad(TagOf(1, 2) \o <<0>>),
    Bad(Sub(2, Encoded("Filter", << <<Comp(PairA), Comp(PairA), Comp(PairA)>> >>))),
    Bad(Sub(2, Sub(1, TagOf(1, 0) \o <<5>>))),
    Bad(Sub(2, Sub(1, Sub(2, Encoded("KeyValuePair", LongKey))))),
    Bad(Sub(3, <<>>)),
    Bad(Sub(3, TagOf(1, 2) \o <<50>>)) }

\* What a sequence of parts says: the last command, all filters and settings,
\* in their order, if every part is good, a command is there, and all fit.
Of(parts, kind) ==
    LET some == SelectSeq(parts, LAMBDA p : p.kind = kind)
    IN  [i \in DOMAIN some |-> some[i].value]
Meant(parts) ==
    IF /\ Of(parts, "bad") = <<>> /\ Of(parts, "command") # <<>>
       /\ Len(Of(parts, "filter")) <= MaxCount /\ Len(Of(parts, "setting")) <= MaxCount
    THEN << QueryOf(Last(Of(parts, "command")), Of(parts, "filter"), Of(parts, "setting")) >>
    ELSE <<>>

\* Such a message, and one more behind it.
ForeignInput(parts) ==
    LET body  == FlattenSeq([i \in DOMAIN parts |-> parts[i].bytes])
        first == LengthFirst(body)
        all   == first \o Delimited("Query", Find)
    IN  [bytes |-> all, ends |-> {Len(first), Len(all)}, whole |-> TRUE,
         sent  |-> IF Meant(parts) = <<>> THEN <<>> ELSE Meant(parts) \o <<Find>>,
         between |-> {Len(all)}, complete |-> 2]

Foreign == {ForeignInput(parts) : parts \in UNION {[1 .. k -> Parts] : k \in 0 .. 3}}

All == Edges \cup Foreign \cup Cuts
=============================================================================
