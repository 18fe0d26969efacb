-------------------------------- MODULE Wire --------------------------------
(***************************************************************************)
(* The server's side of the connection: main's loop of server.c calls      *)
(* pb_decode_delimited until it fails.  Messages announce their length,    *)
(* and so does every submessage; the decoder keeps a stream for each of    *)
(* them, which ends where the announced length ends.                       *)
(*                                                                         *)
(* A step reads one field.  `stack` holds the messages being read, the     *)
(* innermost last; `left` is a stream's bytes_left.  recv is called with   *)
(* MSG_WAITALL, so what has arrived when the sender closes the connection, *)
(* or dies, is all that matters, not in which pieces it came: `inp` is     *)
(* that, and behind its last byte recv returns 0.                          *)
(***************************************************************************)
EXTENDS Message, FiniteSets, SequencesExt

CONSTANTS
    Root,       \* the message this side waits for
    SkipChunk,  \* pb_read skips this many bytes at once (16)
    Inputs      \* what may arrive: bytes, and what they were meant to say

Byte == 0 .. 255

ASSUME WireAssumption ==
    /\ Root \in DOMAIN Desc
    /\ SkipChunk \in Nat \ {0}
    /\ \A i \in Inputs : i.bytes \in Seq(Byte)

VARIABLES
    input,      \* history: all that arrives, and what it was meant to say
    inp,        \* what is not yet read of it
    stack,      \* the messages being read
    status,     \* "listening", "reading", "unwinding" after an error, "refused"
    got         \* the messages accepted so far

vars == <<input, inp, stack, status, got>>

Top == stack[Len(stack)]
Frame(msg, field, left, value) ==
    [msg |-> msg, field |-> field, left |-> left, seen |-> {}, value |-> value]

----------------------------------------------------------------------------
(* Reading from a stream: s.inp is what is still to come, s.left what the  *)
(* stream may still read, s.val what was read; s.ok turns FALSE.           *)

StreamOf(bytes, left) == [ok |-> TRUE, inp |-> bytes, left |-> left, val |-> 0]
Stream(left) == StreamOf(inp, left)
Failed(s) == [s EXCEPT !.ok = FALSE]

Past(s, n, v) == [s EXCEPT !.inp = SubSeq(@, n + 1, Len(@)), !.left = @ - n, !.val = v]

\* readCallback: at the end of the input it sets bytes_left to 0; when only
\* some of the bytes come it takes them and says that it failed.
Starved(s) ==
    [Failed(s) EXCEPT !.inp = <<>>, !.left = IF s.inp = <<>> THEN 0 ELSE @]

ReadBytes(s, n) ==
    IF n = 0 THEN [s EXCEPT !.val = <<>>]
    ELSE IF s.left < n THEN Failed(s)
    ELSE IF Len(s.inp) < n THEN Starved(s)
    ELSE Past(s, n, SubSeq(s.inp, 1, n))

Least(m, n) == IF m < n THEN m ELSE n

\* pb_read without a buffer: chunk by chunk, until one fails or the last one,
\* which may be shorter, is read.
SkipBytes(s, n) ==
    LET there  == Least(n, Least(s.left, Len(s.inp)))
        chunks == SkipChunk * (there \div SkipChunk)
    IN  ReadBytes(Past(s, chunks, <<>>), Least(SkipChunk, n - chunks))

\* The number in the groups of seven bits, of which the last is the highest.
Grouped(bs, bits) ==
    LET n == Len(bs)
        last[i \in 0 .. n] ==
            IF i = 0 THEN 0 ELSE 128 * last[i - 1] + (bs[n - i + 1] % 128)
    IN  last[n] % 2 ^ bits

\* Place of the i-th group's first bit.
Place(i) == 7 * (i - 1)

\* pb_decode_varint32: bits beyond the width must repeat the sign.
IntTooBig(bs, i) ==
    LET low == bs[i] % 128
        negative == bs[IntBits \div 7 + 1] % 16 >= 8
    IN  \/ Place(i) = IntBits - 4 /\ low >= 16 /\ low < 120
        \/ /\ Place(i) >= IntBits
           /\ \/ Place(i) >= LongBits
              \/ /\ low # 0
                 /\ ~(negative /\ bs[i] = IF Place(i) < LongBits - 1 THEN 255 ELSE 1)

\* pb_decode_varint.
LongTooBig(bs, i) == Place(i) >= LongBits - 1 /\ bs[i] > 1

\* What is kept in no place is never too big (pb_skip_varint).
TooBig(bs, i, bits) ==
    CASE bits = IntBits  -> IntTooBig(bs, i)
      [] bits = LongBits -> LongTooBig(bs, i)
      [] OTHER           -> FALSE

\* Bytes of a number are read one by one, up to the first that is not marked
\* or that makes the number too big.
ReadVarint(s, bits) ==
    LET here == SubSeq(s.inp, 1, Least(s.left, Len(s.inp)))
        ends == {i \in DOMAIN here : here[i] < 128 \/ TooBig(here, i, bits)}
        last == CHOOSE i \in ends : \A j \in ends : i <= j
    IN  IF ends = {} THEN [Failed(s) EXCEPT !.inp = SubSeq(@, Len(here) + 1, Len(@)), !.left = 0]
        ELSE IF TooBig(here, last, bits) THEN Failed(Past(s, last, 0))
        ELSE Past(s, last, Grouped(SubSeq(here, 1, last), bits))

ReadLength(s) == ReadVarint(s, IntBits)

\* What the server reads first of what arrives.
Announced(bytes) == ReadLength(StreamOf(bytes, 2 ^ IntBits))

\* Messages arrive as pb_encode_delimited sends them, each behind its length:
\* whatever is in them, where one ends the next one begins, or nothing comes.
Delimits(i) ==
    /\ i.ends \subseteq 0 .. Len(i.bytes)
    /\ \A p \in i.ends \cup {0} :
          LET size == Announced(SubSeq(i.bytes, p + 1, Len(i.bytes)))
          IN  p < Len(i.bytes) =>
                  size.ok /\ Len(i.bytes) - Len(size.inp) + size.val \in i.ends
ASSUME FramingAssumption == \A i \in Inputs : i.whole => Delimits(i)

Signed(n, bits) == IF n >= 2 ^ (bits - 1) THEN n - 2 ^ bits ELSE n

\* pb_dec_varint: an int32 is what is left of the number in its width.
ReadNumber(s, bits) ==
    LET r == ReadVarint(s, LongBits)
    IN  IF r.ok THEN [r EXCEPT !.val = Signed(@ % 2 ^ bits, bits)] ELSE r

\* Mutant of TooLong: the terminator is forgotten.
TooLongByOne(size) == size > StrSize

\* pb_dec_string: with its terminator a string must fit.
TooLong(size) == size + 1 > StrSize

ReadString(s) ==
    LET size == ReadLength(s)
    IN  IF ~size.ok \/ TooLong(size.val) THEN Failed(size)
        ELSE ReadBytes(size, size.val)

ReadScalar(s, type) ==
    CASE type = "int32"  -> ReadNumber(s, IntBits)
      [] type = "int64"  -> ReadNumber(s, LongBits)
      [] type = "float"  -> ReadBytes(s, 4)
      [] type = "string" -> ReadString(s)

SkipField(s, wire) ==
    CASE wire = 0 -> ReadVarint(s, 0)
      [] wire = 1 -> SkipBytes(s, 8)
      [] wire = 2 -> LET size == ReadLength(s)
                     IN  IF size.ok THEN SkipBytes(size, size.val) ELSE size
      [] wire = 5 -> SkipBytes(s, 4)
      [] OTHER    -> Failed(s)

----------------------------------------------------------------------------
(* The decoder *)

TopStream == Stream(Top.left)
WithTop(f) == Append(Front(stack), f)

\* Something was refused: the message in which it was is not read on.
Refuse(s) ==
    /\ inp' = s.inp
    /\ stack' = WithTop([Top EXCEPT !.left = s.left])
    /\ status' = "unwinding"
    /\ UNCHANGED <<input, got>>

\* What was read is the new top of the stack, or an error.
GoOn(s, f) ==
    IF s.ok
    THEN /\ inp' = s.inp
         /\ stack' = WithTop([f EXCEPT !.left = s.left])
         /\ UNCHANGED <<input, status, got>>
    ELSE Refuse(s)

\* pb_decode_delimited: the announced length bounds the message's stream.  The
\* connection's own stream is never used up.
Begin ==
    LET size == Announced(inp)
    IN  /\ status = "listening"
        /\ inp' = size.inp
        /\ IF size.ok
           THEN /\ stack' = <<Frame(Root, 0, size.val, Zeros[Root])>>
                /\ status' = "reading"
           ELSE UNCHANGED stack /\ status' = "refused"
        /\ UNCHANGED <<input, got>>

\* pb_decode_tag, at the beginning of a field.
InMessage == status = "reading" /\ Top.left > 0
Tag    == ReadLength(TopStream)
Number == Tag.val \div 8
Wire   == Tag.val % 8
Known  == Tag.ok /\ Number \in DOMAIN Desc[Top.msg]
Rule   == Desc[Top.msg][Number].rule
Type   == Desc[Top.msg][Number].type

\* The end of the input where a tag could stand counts as the message's end.
InputEnds ==
    /\ InMessage
    /\ inp = <<>>
    /\ stack' = WithTop([Top EXCEPT !.left = 0])
    /\ UNCHANGED <<input, inp, status, got>>

BadTag ==
    /\ InMessage /\ inp # <<>>
    /\ ~Tag.ok \/ Number = 0
    /\ Refuse(Tag)

SkipUnknown ==
    /\ InMessage /\ inp # <<>>
    /\ Tag.ok /\ Number # 0 /\ ~Known
    /\ GoOn(SkipField(Tag, Wire), Top)

\* Mutant of NoRoom: one entry too many.
NoRoomLate == Rule = "repeated" /\ Len(Top.value[Number]) > MaxCount

\* A repeated field counts its entries before they are read.
NoRoom == Rule = "repeated" /\ Len(Top.value[Number]) >= MaxCount

BadField ==
    /\ InMessage /\ inp # <<>>
    /\ Known /\ (NoRoom \/ Wire # WireType(Type))
    /\ Refuse(Tag)

\* Mutant of Seen: any field that was read counts.
SeenAny == Top.seen \cup {Number}

Seen == IF Rule = "required" THEN Top.seen \cup {Number} ELSE Top.seen

ReadField ==
    /\ InMessage /\ inp # <<>>
    /\ Known /\ ~NoRoom /\ Wire = WireType(Type) /\ ~IsMessage(Type)
    /\ LET s == ReadScalar(Tag, Type)
       IN  GoOn(s, [Top EXCEPT !.seen = Seen, !.value[Number] = s.val])

\* Mutant of Entry: an entry of a repeated field goes on with the entry before.
EntryUncleared ==
    IF Rule = "required" THEN Top.value[Number]
    ELSE IF Top.value[Number] = <<>> THEN Zeros[Type] ELSE Last(Top.value[Number])

\* What a submessage holds before it is read: a required one may have come
\* before, and is merged (PB_DECODE_NOINIT); an entry is cleared.
Entry == IF Rule = "required" THEN Top.value[Number] ELSE Zeros[Type]

\* pb_dec_submessage, pb_make_string_substream: the bytes of the submessage no
\* longer belong to the message around it.
OpenSubmessage ==
    /\ InMessage /\ inp # <<>>
    /\ Known /\ ~NoRoom /\ Wire = WireType(Type) /\ IsMessage(Type)
    /\ LET size == ReadLength(Tag)
       IN  IF size.ok /\ size.left >= size.val
           THEN /\ inp' = size.inp
                /\ stack' = Append(
                       WithTop([Top EXCEPT !.left = size.left - size.val, !.seen = Seen]),
                       Frame(Type, Number, size.val, Entry))
                /\ UNCHANGED <<input, status, got>>
           ELSE Refuse(size)

\* Mutant of Complete: only the message itself is looked at, no submessage.
CompleteRoot == Top.msg = Root => Required(Top.msg) \subseteq Top.seen

Complete == Required(Top.msg) \subseteq Top.seen

\* A field that was read goes to its place in the message around it.
Stored(f, sub) ==
    IF Desc[f.msg][sub.field].rule = "repeated"
    THEN [f EXCEPT !.value[sub.field] = Append(@, sub.value)]
    ELSE [f EXCEPT !.value[sub.field] = sub.value]

EndMessage ==
    /\ status = "reading" /\ Top.left = 0
    /\ IF ~Complete THEN Refuse(TopStream)
       ELSE IF Len(stack) = 1
       THEN /\ got' = Append(got, Top.value)
            /\ stack' = <<>> /\ status' = "listening"
            /\ UNCHANGED <<input, inp>>
       ELSE /\ stack' = Append(SubSeq(stack, 1, Len(stack) - 2),
                               Stored(stack[Len(stack) - 1], Top))
            /\ UNCHANGED <<input, inp, status, got>>

\* Mutant of Drained: a stream that is closed leaves its bytes unread.
NotDrained == inp

\* pb_close_string_substream: the rest of the stream is read.
Drained == SkipBytes(TopStream, Top.left).inp

\* After an error every message around it is closed, the whole one last; then
\* the server returns 2.
Unwind ==
    /\ status = "unwinding"
    /\ inp' = Drained
    /\ stack' = Front(stack)
    /\ status' = IF Len(stack) = 1 THEN "refused" ELSE status
    /\ UNCHANGED <<input, got>>

Init ==
    /\ input \in Inputs
    /\ inp = input.bytes
    /\ stack = <<>> /\ status = "listening" /\ got = <<>>

Next ==
    \/ Begin \/ InputEnds \/ BadTag \/ SkipUnknown \/ BadField \/ ReadField
    \/ OpenSubmessage \/ EndMessage \/ Unwind

Spec == Init /\ [][Next]_vars

----------------------------------------------------------------------------
(* Properties.  An input is a record: `bytes`; `ends`, how many bytes there *)
(* are up to the end of each message; `sent`, the messages that are good,   *)
(* up to the first that is not; `whole`, FALSE if the sender died.          *)

StringFits(bytes) == Len(bytes) < StrSize
PairFits(p) == StringFits(p[1]) /\ StringFits(p[5])
FilterFits(f) == Len(f[1]) <= MaxCount /\ \A i \in DOMAIN f[1] : PairFits(f[1][i][2])
QueryFits(q) ==
    /\ Len(q[2]) <= MaxCount /\ \A i \in DOMAIN q[2] : FilterFits(q[2][i])
    /\ Len(q[3]) <= MaxCount /\ \A i \in DOMAIN q[3] : PairFits(q[3][i][1])
Fits(msg, value) ==
    CASE msg = "Query"        -> QueryFits(value)
      [] msg = "Filter"       -> FilterFits(value)
      [] msg = "ValueSetting" -> PairFits(value[1])
      [] msg = "Comparator"   -> PairFits(value[2])
      [] msg = "KeyValuePair" -> PairFits(value)
      [] msg = "Response"     -> StringFits(value[1])

\* The messages being read are nested as message.proto nests them, from the one
\* the server waits for; only fields that must be there are counted as seen.
TypeOK ==
    /\ status \in {"listening", "reading", "unwinding", "refused"}
    /\ (stack = <<>>) <=> (status \in {"listening", "refused"})
    /\ stack # <<>> => stack[1].msg = Root
    /\ \A i \in DOMAIN stack :
          /\ stack[i].left \in Nat
          /\ stack[i].seen \subseteq Required(stack[i].msg)
          /\ i > 1 => Desc[stack[i - 1].msg][stack[i].field].type = stack[i].msg

\* At every moment of decoding, whatever has arrived, each struct being filled
\* has no more entries than its arrays, and no string without its terminator.
FitsTheStruct ==
    /\ \A i \in DOMAIN got : Fits(Root, got[i])
    /\ \A i \in DOMAIN stack : Fits(stack[i].msg, stack[i].value)

\* How many bytes the streams of these messages may still read together.
Owned(st) ==
    LET upTo[i \in 0 .. Len(st)] == IF i = 0 THEN 0 ELSE upTo[i - 1] + st[i].left
    IN  upTo[Len(st)]

\* The bytes that the open streams may still read are exactly those up to the
\* end of the message that is being read: whether it is accepted or refused,
\* and however deep inside it the error was, the connection is then at the
\* first byte of the next message.
FramesMeetTheEnd ==
    input.whole => Len(input.bytes) - Len(inp) + Owned(stack) \in input.ends \cup {0}

\* The server gets the messages that were sent, in their order, up to the first
\* that is not good; it gets all of these before it gives up.
GotWhatWasSent ==
    input.whole => /\ IsPrefix(got, input.sent)
                   /\ status = "refused" => got = input.sent

\* Of a message whose sender died the server takes nothing that was not sent:
\* its last message may lack filters and settings, and the last filter
\* comparators, from the end.
FilterCut(f, whole) == IsPrefix(f[1], whole[1])
QueryCut(q, whole) ==
    /\ q[1] = whole[1]
    /\ Len(q[2]) <= Len(whole[2]) /\ IsPrefix(q[3], whole[3])
    /\ \A i \in DOMAIN q[2] :
          IF i < Len(q[2]) \/ q[3] # <<>>
          THEN q[2][i] = whole[2][i] ELSE FilterCut(q[2][i], whole[2][i])
    /\ q[3] # <<>> => Len(q[2]) = Len(whole[2])
CutAtTheEnd ==
    /\ Len(got) <= Len(input.sent)
    /\ \A i \in DOMAIN got :
          IF i < Len(got) THEN got[i] = input.sent[i] ELSE QueryCut(got[i], input.sent[i])

\* reference.md:766 "In Protocol Buffers binary format, end-of-file is only
\* allowed between fields. If it happens anywhere else, pb_decode will return
\* `false`."  `between` has the numbers of bytes behind which a field of the
\* outermost message, or a whole message, ends.
EndOnlyBetweenFields ==
    Len(input.bytes) \in input.between \/ Len(got) <= input.complete

=============================================================================
