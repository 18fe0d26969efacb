------------------------------ MODULE Message ------------------------------
(***************************************************************************)
(* The messages of the protocol, as message.proto declares them and        *)
(* message.pb.h describes them to the encoder and the decoder.             *)
(*                                                                         *)
(* A value of a message is the sequence of its fields' values, in the      *)
(* order of their tags; the tags of every message are 1, 2, 3 ...  A       *)
(* string is the sequence of its bytes, a float its four bytes, a repeated *)
(* field the sequence of its entries.                                      *)
(***************************************************************************)
EXTENDS Integers, Sequences

CONSTANTS
    MaxCount,   \* places of a repeated field (20)
    StrSize,    \* bytes of a string with its terminator (1024)
    IntBits,    \* width of an int32 and of an announced length (32)
    LongBits    \* width of an int64 (64)

\* Both widths end inside a group of seven bits, the first after four bits of
\* it and the second after one, as 32 and 64 do.
ASSUME WidthAssumption ==
    /\ MaxCount \in Nat /\ StrSize \in Nat \ {0}
    /\ IntBits \in Nat /\ LongBits \in Nat
    /\ IntBits % 7 = 4 /\ LongBits % 7 = 1 /\ 7 < IntBits /\ IntBits < LongBits

\* A fact of arithmetic, stated because the provers know nothing of powers.
ASSUME PowerAssumption ==
    /\ 2 ^ 1 = 2
    /\ \A m \in 0 .. LongBits :
          /\ 2 ^ m \in Nat \ {0}
          /\ \A n \in 0 .. LongBits - m : 2 ^ (m + n) = 2 ^ m * 2 ^ n

Field(rule, type) == [rule |-> rule, type |-> type]

\* The fields of each message: field i has the tag i.
Desc == [
    Query         |-> << Field("required", "int32"),
                         Field("repeated", "Filter"),
                         Field("repeated", "ValueSetting") >>,
    Filter        |-> << Field("repeated", "Comparator") >>,
    ValueSetting  |-> << Field("required", "KeyValuePair") >>,
    Comparator    |-> << Field("required", "int32"),
                         Field("required", "KeyValuePair") >>,
    KeyValuePair  |-> << Field("required", "string"), Field("required", "int32"),
                         Field("required", "int64"), Field("required", "float"),
                         Field("required", "string") >>,
    Response      |-> << Field("required", "string"), Field("required", "int32") >> ]

IsMessage(type) == type \in DOMAIN Desc
Required(msg) == {i \in DOMAIN Desc[msg] : Desc[msg][i].rule = "required"}

\* How a value of this type is marked on the wire.
WireType(type) ==
    IF type \in {"int32", "int64"} THEN 0 ELSE IF type = "float" THEN 5 ELSE 2

\* Every message before anything of it is read.
ZeroPair == << <<>>, 0, 0, <<0, 0, 0, 0>>, <<>> >>
Zeros == [
    Query        |-> << 0, <<>>, <<>> >>,
    Filter       |-> << <<>> >>,
    ValueSetting |-> << ZeroPair >>,
    Comparator   |-> << 0, ZeroPair >>,
    KeyValuePair |-> ZeroPair,
    Response     |-> << <<>>, 0 >> ]

=============================================================================
