-------------------------------- MODULE Talk --------------------------------
(***************************************************************************)
(* What this program's own sender says on a connection: messages that fit  *)
(* their structs, each sent by pb_encode_delimited, one behind the other,  *)
(* all of them or, if the sender dies, the first so many bytes.            *)
(***************************************************************************)
EXTENDS Wire, Encoder

\* What a field of each type can hold when the sender fills the struct.
Strings == {s \in Seq(Byte) : StringFits(s)}
Numbers(bits) == -(2 ^ (bits - 1)) .. 2 ^ (bits - 1) - 1
Floats == [1 .. 4 -> Byte]
Few(S) == {s \in Seq(S) : Len(s) <= MaxCount}

Pairs == Strings \X Numbers(IntBits) \X Numbers(LongBits) \X Floats \X Strings
Comparators == Numbers(IntBits) \X Pairs
Filters == [1 .. 1 -> Few(Comparators)]
Settings == [1 .. 1 -> Pairs]
Queries == Numbers(IntBits) \X Few(Filters) \X Few(Settings)
Responses == Strings \X Numbers(IntBits)

ValuesOf(type) ==
    CASE type = "int32"        -> Numbers(IntBits)
      [] type = "int64"        -> Numbers(LongBits)
      [] type = "float"        -> Floats
      [] type = "string"       -> Strings
      [] type = "KeyValuePair" -> Pairs
      [] type = "Comparator"   -> Comparators
      [] type = "ValueSetting" -> Settings
      [] type = "Filter"       -> Filters
      [] type = "Query"        -> Queries
      [] type = "Response"     -> Responses

\* The messages on the connection, one after the other.
Said(msgs) == FlattenSeq([k \in DOMAIN msgs |-> Delimited(Root, msgs[k])])

\* The input is what of these messages was sent: all, or the first n bytes.  No
\* message is longer than an announced length can say.
IsTalk(i) ==
    LET all == Said(i.sent)
    IN  /\ i.sent \in Seq(ValuesOf(Root))
        /\ \A k \in DOMAIN i.sent : Len(Encoded(Root, i.sent[k])) < 2 ^ IntBits
        /\ \E n \in 0 .. Len(all) :
              i.bytes = SubSeq(all, 1, n) /\ i.whole = (n = Len(all))

=============================================================================
