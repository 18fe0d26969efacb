------------------------------ MODULE Encoder ------------------------------
(***************************************************************************)
(* What the client puts on the connection for a message, and the server    *)
(* for an answer: pb_encode_delimited of nanopb.  The encoder runs twice   *)
(* over every submessage, once for its length and once to send it; here    *)
(* the length is that of the encoding.  Each piece is sent by itself, so   *)
(* a sender that dies leaves any prefix of it on the connection.           *)
(***************************************************************************)
EXTENDS Message, SequencesExt

\* What is left of n when its lowest i groups of seven bits are shifted out.
Shifted(n, i) ==
    LET rest[j \in 0 .. i] == IF j = 0 THEN n ELSE rest[j - 1] \div 128
    IN  rest[i]

\* The lowest groups of n, marked because more follow.
Marked(n, count) == [i \in 1 .. count |-> (Shifted(n, i - 1) % 128) + 128]

\* All groups of n, the lowest first; the last one is not marked.
Groups(n) ==
    LET more == CHOOSE k \in 0 .. n :
                    Shifted(n, k) < 128 /\ (k > 0 => Shifted(n, k - 1) >= 128)
    IN  Marked(n, more) \o <<Shifted(n, more)>>

\* pb_encode_varint_32 works on the two halves of a long: one group has the
\* last bits of the lower half and the first three of the upper one.
Halves(n, between) ==
    LET low == n % 2 ^ IntBits
        high == n \div 2 ^ IntBits
        whole == IntBits \div 7
    IN  IF high = 0 THEN Groups(low)
        ELSE Marked(low, whole)
             \o (IF high < 8 THEN <<between>>
                 ELSE <<between + 128>> \o Groups(high \div 8))
Last4(n) == Shifted(n % 2 ^ IntBits, IntBits \div 7)
First3(n) == (n \div 2 ^ IntBits) % 8

\* Mutant of Varint: the group across the halves takes its bits one place too low.
VarintShifted(n) == Halves(n, Last4(n) + First3(n) * 8)
Varint(n) == Halves(n, Last4(n) + First3(n) * 16)

\* A negative number is extended to a long.
Unsigned(n) == IF n < 0 THEN n + 2 ^ LongBits ELSE n

TagOf(tag, wire) == Varint(tag * 8 + wire)

LengthFirst(bytes) == Varint(Len(bytes)) \o bytes

\* What follows the tag of a field without a message in it.
Scalar(type, v) ==
    IF type \in {"int32", "int64"} THEN Varint(Unsigned(v))
    ELSE IF type = "float" THEN v ELSE LengthFirst(v)

\* The fields of a message with their tags, in the order of these; each entry of
\* a repeated field is a field of its own.
Entries(msg, v) ==
    FlattenSeq([i \in DOMAIN Desc[msg] |->
        IF Desc[msg][i].rule = "repeated"
        THEN [n \in DOMAIN v[i] |-> <<i, v[i][n]>>]
        ELSE << <<i, v[i]>> >>])

\* pb_encode: each field behind its tag.
Fields(msg, v, Payload(_, _)) ==
    LET entries == Entries(msg, v)
        Sent(tag, x) ==
            LET type == Desc[msg][tag].type
            IN  TagOf(tag, WireType(type)) \o Payload(type, x)
    IN  FlattenSeq([k \in DOMAIN entries |-> Sent(entries[k][1], entries[k][2])])

\* pb_encode_submessage, as deep as message.proto nests messages: nothing but
\* scalars in a pair, pairs in a comparator, comparators in a filter.
InPair(type, v) == Scalar(type, v)
InComparator(type, v) ==
    IF IsMessage(type) THEN LengthFirst(Fields(type, v, InPair)) ELSE Scalar(type, v)
InFilter(type, v) ==
    IF IsMessage(type) THEN LengthFirst(Fields(type, v, InComparator)) ELSE Scalar(type, v)
InQuery(type, v) ==
    IF IsMessage(type) THEN LengthFirst(Fields(type, v, InFilter)) ELSE Scalar(type, v)

Encoded(msg, v) == Fields(msg, v, InQuery)

\* pb_encode_delimited.
Delimited(msg, v) == LengthFirst(Encoded(msg, v))

=============================================================================
