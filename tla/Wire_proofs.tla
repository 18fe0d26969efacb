----------------------------- MODULE Wire_proofs -----------------------------
(* Proofs about Wire.  Whatever bytes arrive, the decoder keeps to the shape of *)
(* the messages and never writes past an array or a string of a struct; and     *)
(* when messages come as pb_encode_delimited sends them, whatever is in them,   *)
(* it always knows where the next one begins.                                   *)
EXTENDS Wire, TLAPS, NaturalsInduction, WellFoundedInduction, SequenceTheorems

----------------------------------------------------------------------------
(* Numbers and sequences *)

\* A set of numbers has a least one.
LEMMA LeastOf ==
    ASSUME NEW T \in SUBSET Nat, T # {}
    PROVE  \E x \in T : \A y \in T : x <= y
<1> DEFINE R == OpToRel(<, Nat)
<1>1. IsWellFoundedOn(R, Nat)
  BY NatLessThanWellFounded
<1> HIDE DEF R
<1>2. PICK t \in T : \A y \in T : <<y, t>> \notin R
  BY <1>1, WFMin
<1>3. \A y, z \in Nat : y < z => <<y, z>> \in R
  BY DEF R, OpToRel
<1>4. ASSUME NEW y \in T PROVE t <= y
  <2>1. y \in Nat /\ t \in Nat
    OBVIOUS
  <2>2. ~ (y < t)
    BY <1>2, <1>3, <2>1
  <2> QED BY <2>1, <2>2
<1> QED BY <1>4

LEMMA LeastIs ==
    ASSUME NEW m \in Nat, NEW n \in Nat
    PROVE  Least(m, n) \in Nat /\ Least(m, n) <= m /\ Least(m, n) <= n
BY DEF Least

\* Whole chunks of what is there are not more than what is there.
LEMMA ChunksFit ==
    ASSUME NEW n \in Nat, NEW c \in Nat \ {0}
    PROVE  c * (n \div c) \in Nat /\ c * (n \div c) <= n
OBVIOUS

\* A sequence, of whatever.
IsList(s) == s \in Seq({s[i] : i \in DOMAIN s})

LEMMA ListIs ==
    ASSUME NEW s, IsList(s)
    PROVE  Len(s) \in Nat /\ DOMAIN s = 1 .. Len(s)
BY DEF IsList

LEMMA ListOf ==
    ASSUME NEW S, NEW s \in Seq(S)
    PROVE  IsList(s)
<1>1. \A i \in 1 .. Len(s) : s[i] \in {s[j] : j \in DOMAIN s}
  OBVIOUS
<1> QED BY <1>1 DEF IsList

LEMMA ListAppend ==
    ASSUME NEW s, NEW x, IsList(s)
    PROVE  /\ IsList(Append(s, x))
           /\ Len(Append(s, x)) = Len(s) + 1
           /\ DOMAIN Append(s, x) = 1 .. Len(s) + 1
           /\ \A i \in 1 .. Len(s) : Append(s, x)[i] = s[i]
           /\ Append(s, x)[Len(s) + 1] = x
<1> DEFINE T == {s[i] : i \in DOMAIN s} \cup {x}
<1>1. s \in Seq(T)
  BY SeqMonotonic DEF IsList
<1>2. x \in T
  OBVIOUS
<1> HIDE DEF T
<1>3. Append(s, x) \in Seq(T)
  BY <1>1, <1>2
<1>4. IsList(Append(s, x))
  BY <1>3, ListOf
<1>5. Len(Append(s, x)) = Len(s) + 1 /\ Len(s) \in Nat
  BY <1>1, <1>2, AppendProperties
<1>6. DOMAIN Append(s, x) = 1 .. Len(s) + 1
  BY <1>3, <1>5
<1>7. /\ \A i \in 1 .. Len(s) : Append(s, x)[i] = s[i]
      /\ Append(s, x)[Len(s) + 1] = x
  BY <1>1, <1>2, AppendProperties
<1> QED BY <1>4, <1>5, <1>6, <1>7

LEMMA ListSub ==
    ASSUME NEW s, IsList(s), NEW n \in 0 .. Len(s)
    PROVE  /\ IsList(SubSeq(s, 1, n))
           /\ Len(SubSeq(s, 1, n)) = n
           /\ DOMAIN SubSeq(s, 1, n) = 1 .. n
           /\ \A i \in 1 .. n : SubSeq(s, 1, n)[i] = s[i]
<1> DEFINE T == {s[i] : i \in DOMAIN s}
<1>1. s \in Seq(T)
  BY DEF IsList
<1> HIDE DEF T
<1>2. SubSeq(s, 1, n) \in Seq(T) /\ Len(SubSeq(s, 1, n)) = n
  BY <1>1
<1>3. \A i \in 1 .. n : SubSeq(s, 1, n)[i] = s[i]
  BY <1>1
<1>4. IsList(SubSeq(s, 1, n))
  BY <1>2, ListOf
<1>5. DOMAIN SubSeq(s, 1, n) = 1 .. n
  BY <1>2
<1> QED BY <1>2, <1>3, <1>4, <1>5

\* The last element of a sequence is replaced.
LEMMA ListReplace ==
    ASSUME NEW s, IsList(s), Len(s) # 0, NEW x
    PROVE  LET t == Append(Front(s), x)
           IN  /\ IsList(t)
               /\ Len(t) = Len(s) /\ DOMAIN t = DOMAIN s
               /\ \A i \in 1 .. Len(s) - 1 : t[i] = s[i]
               /\ t[Len(s)] = x
<1> DEFINE n == Len(s) - 1
<1>1. n \in 0 .. Len(s) /\ n + 1 = Len(s) /\ DOMAIN s = 1 .. Len(s)
  BY ListIs
<1>2. Front(s) = SubSeq(s, 1, n)
  BY DEF Front
<1> HIDE DEF n
<1>3. /\ IsList(Front(s)) /\ Len(Front(s)) = n
      /\ \A i \in 1 .. n : Front(s)[i] = s[i]
  BY <1>1, <1>2, ListSub
<1>4. Len(s) = n + 1 /\ n \in Nat
  BY <1>1
<1>5. /\ IsList(Append(Front(s), x))
      /\ Len(Append(Front(s), x)) = n + 1
      /\ DOMAIN Append(Front(s), x) = 1 .. n + 1
      /\ \A i \in 1 .. n : Append(Front(s), x)[i] = Front(s)[i]
      /\ Append(Front(s), x)[n + 1] = x
  BY <1>3, ListAppend
<1> QED BY <1>1, <1>3, <1>4, <1>5

----------------------------------------------------------------------------
(* The structs of the messages *)

IsPair(p) == DOMAIN p = 1 .. 5 /\ StringFits(p[1]) /\ StringFits(p[5])
IsSetting(v) == DOMAIN v = 1 .. 1 /\ IsPair(v[1])
IsComparator(c) == DOMAIN c = 1 .. 2 /\ IsPair(c[2])
IsFilter(f) ==
    /\ DOMAIN f = 1 .. 1
    /\ IsList(f[1]) /\ Len(f[1]) <= MaxCount
    /\ \A i \in 1 .. Len(f[1]) : IsComparator(f[1][i])
IsQuery(q) ==
    /\ DOMAIN q = 1 .. 3
    /\ IsList(q[2]) /\ Len(q[2]) <= MaxCount
    /\ \A i \in 1 .. Len(q[2]) : IsFilter(q[2][i])
    /\ IsList(q[3]) /\ Len(q[3]) <= MaxCount
    /\ \A i \in 1 .. Len(q[3]) : IsSetting(q[3][i])
IsResponse(r) == DOMAIN r = 1 .. 2 /\ StringFits(r[1])

\* A value has the shape of its type, and what is in it fits.
IsOf(type, value) ==
    /\ type = "Query"        => IsQuery(value)
    /\ type = "Filter"       => IsFilter(value)
    /\ type = "ValueSetting" => IsSetting(value)
    /\ type = "Comparator"   => IsComparator(value)
    /\ type = "KeyValuePair" => IsPair(value)
    /\ type = "Response"     => IsResponse(value)
    /\ type = "string"       => StringFits(value)

LEMMA MessagesAre ==
    DOMAIN Desc = {"Query", "Filter", "ValueSetting", "Comparator", "KeyValuePair", "Response"}
BY DEF Desc

\* The fields of each message.
LEMMA FieldsAre ==
    /\ DOMAIN Desc["Query"] = 1 .. 3
    /\ DOMAIN Desc["Filter"] = 1 .. 1
    /\ DOMAIN Desc["ValueSetting"] = 1 .. 1
    /\ DOMAIN Desc["Comparator"] = 1 .. 2
    /\ DOMAIN Desc["KeyValuePair"] = 1 .. 5
    /\ DOMAIN Desc["Response"] = 1 .. 2
BY DEF Desc

LEMMA TypesAre ==
    /\ Desc["Query"][1] = Field("required", "int32")
    /\ Desc["Query"][2] = Field("repeated", "Filter")
    /\ Desc["Query"][3] = Field("repeated", "ValueSetting")
    /\ Desc["Filter"][1] = Field("repeated", "Comparator")
    /\ Desc["ValueSetting"][1] = Field("required", "KeyValuePair")
    /\ Desc["Comparator"][1] = Field("required", "int32")
    /\ Desc["Comparator"][2] = Field("required", "KeyValuePair")
    /\ Desc["KeyValuePair"][1] = Field("required", "string")
    /\ Desc["KeyValuePair"][2] = Field("required", "int32")
    /\ Desc["KeyValuePair"][3] = Field("required", "int64")
    /\ Desc["KeyValuePair"][4] = Field("required", "float")
    /\ Desc["KeyValuePair"][5] = Field("required", "string")
    /\ Desc["Response"][1] = Field("required", "string")
    /\ Desc["Response"][2] = Field("required", "int32")
BY DEF Desc

LEMMA RuleAndType ==
    ASSUME NEW rule, NEW type
    PROVE  Field(rule, type).rule = rule /\ Field(rule, type).type = type
BY DEF Field

\* What a message holds before anything of it is read has its shape.
LEMMA ZerosFit == \A msg \in DOMAIN Desc : IsOf(msg, Zeros[msg])
<1>1. StringFits(<<>>)
  BY WidthAssumption DEF StringFits
<1>2. IsList(<<>>) /\ Len(<<>>) <= MaxCount
  BY WidthAssumption DEF IsList
<1>3. IsPair(ZeroPair)
  BY <1>1 DEF IsPair, ZeroPair
<1>4. IsOf("Query", Zeros["Query"])
  BY <1>2 DEF IsOf, Zeros, IsQuery
<1>5. IsOf("Filter", Zeros["Filter"])
  BY <1>2 DEF IsOf, Zeros, IsFilter
<1>6. IsOf("ValueSetting", Zeros["ValueSetting"])
  BY <1>3 DEF IsOf, Zeros, IsSetting
<1>7. IsOf("Comparator", Zeros["Comparator"])
  BY <1>3 DEF IsOf, Zeros, IsComparator
<1>8. IsOf("KeyValuePair", Zeros["KeyValuePair"])
  BY <1>3 DEF IsOf, Zeros
<1>9. IsOf("Response", Zeros["Response"])
  BY <1>1 DEF IsOf, Zeros, IsResponse
<1> QED BY <1>4, <1>5, <1>6, <1>7, <1>8, <1>9, MessagesAre

\* A field that must be there is filled with what fits.
LEMMA RequiredFits ==
    ASSUME NEW msg \in DOMAIN Desc, NEW n \in DOMAIN Desc[msg], NEW v, NEW x,
           Desc[msg][n].rule = "required",
           IsOf(msg, v), IsOf(Desc[msg][n].type, x)
    PROVE  IsOf(msg, [v EXCEPT ![n] = x])
<1> DEFINE w == [v EXCEPT ![n] = x]
<1>1. DOMAIN w = DOMAIN v /\ \A i \in DOMAIN v : w[i] = IF i = n THEN x ELSE v[i]
  OBVIOUS
<1> HIDE DEF w
<1>2. CASE msg = "Query"
  <2>1. n = 1
    BY <1>2, FieldsAre, TypesAre, RuleAndType
  <2>2. IsQuery(v)
    BY <1>2 DEF IsOf
  <2>3. DOMAIN w = 1 .. 3 /\ w[2] = v[2] /\ w[3] = v[3]
    BY <1>1, <2>1, <2>2 DEF IsQuery
  <2>4. IsQuery(w)
    BY <2>2, <2>3 DEF IsQuery
  <2> QED BY <1>2, <2>4 DEF IsOf, w
<1>3. CASE msg = "Filter"
  BY <1>3, FieldsAre, TypesAre, RuleAndType
<1>4. CASE msg = "ValueSetting"
  <2>1. n = 1 /\ Desc[msg][n].type = "KeyValuePair"
    BY <1>4, FieldsAre, TypesAre, RuleAndType
  <2>2. IsSetting(v) /\ IsPair(x)
    BY <1>4, <2>1 DEF IsOf
  <2>3. IsSetting(w)
    BY <1>1, <2>1, <2>2 DEF IsSetting
  <2> QED BY <1>4, <2>3 DEF IsOf, w
<1>5. CASE msg = "Comparator"
  <2>1. n \in 1 .. 2 /\ (n = 2 => Desc[msg][n].type = "KeyValuePair")
    BY <1>5, FieldsAre, TypesAre, RuleAndType
  <2>2. IsComparator(v) /\ (n = 2 => IsPair(x))
    BY <1>5, <2>1 DEF IsOf
  <2>3. IsComparator(w)
    BY <1>1, <2>1, <2>2 DEF IsComparator
  <2> QED BY <1>5, <2>3 DEF IsOf, w
<1>6. CASE msg = "KeyValuePair"
  <2>1. n \in 1 .. 5 /\ (n \in {1, 5} => Desc[msg][n].type = "string")
    BY <1>6, FieldsAre, TypesAre, RuleAndType
  <2>2. IsPair(v) /\ (n \in {1, 5} => StringFits(x))
    BY <1>6, <2>1 DEF IsOf
  <2>3. IsPair(w)
    BY <1>1, <2>1, <2>2 DEF IsPair
  <2> QED BY <1>6, <2>3 DEF IsOf, w
<1>7. CASE msg = "Response"
  <2>1. n \in 1 .. 2 /\ (n = 1 => Desc[msg][n].type = "string")
    BY <1>7, FieldsAre, TypesAre, RuleAndType
  <2>2. IsResponse(v) /\ (n = 1 => StringFits(x))
    BY <1>7, <2>1 DEF IsOf
  <2>3. IsResponse(w)
    BY <1>1, <2>1, <2>2 DEF IsResponse
  <2> QED BY <1>7, <2>3 DEF IsOf, w
<1> QED BY <1>2, <1>3, <1>4, <1>5, <1>6, <1>7, MessagesAre

\* A repeated field with room left gets one more entry that fits.
LEMMA RepeatedFits ==
    ASSUME NEW msg \in DOMAIN Desc, NEW n \in DOMAIN Desc[msg], NEW v, NEW x,
           Desc[msg][n].rule = "repeated", Len(v[n]) < MaxCount,
           IsOf(msg, v), IsOf(Desc[msg][n].type, x)
    PROVE  IsOf(msg, [v EXCEPT ![n] = Append(@, x)])
<1> DEFINE w == [v EXCEPT ![n] = Append(@, x)]
           more == Append(v[n], x)
<1>1. DOMAIN w = DOMAIN v /\ \A i \in DOMAIN v : w[i] = IF i = n THEN more ELSE v[i]
  OBVIOUS
<1>2. ASSUME IsList(v[n])
      PROVE  /\ IsList(more) /\ Len(more) <= MaxCount
             /\ \A i \in 1 .. Len(more) : i \in 1 .. Len(v[n]) \/ more[i] = x
             /\ \A i \in 1 .. Len(v[n]) : more[i] = v[n][i]
  BY <1>2, ListAppend, ListIs, WidthAssumption
<1> HIDE DEF w, more
<1>3. CASE msg = "Query"
  <2>1. (n = 2 /\ Desc[msg][n].type = "Filter") \/ (n = 3 /\ Desc[msg][n].type = "ValueSetting")
    BY <1>3, FieldsAre, TypesAre, RuleAndType
  <2>2. IsQuery(v)
    BY <1>3 DEF IsOf
  <2>3. IsQuery(w)
    <3>1. CASE n = 2 /\ Desc[msg][n].type = "Filter"
      <4>1. IsFilter(x)
        BY <3>1 DEF IsOf
      <4>2. DOMAIN w = 1 .. 3 /\ w[2] = more /\ w[3] = v[3]
        BY <1>1, <2>2, <3>1 DEF IsQuery
      <4>3. /\ IsList(more) /\ Len(more) <= MaxCount
            /\ \A i \in 1 .. Len(more) : IsFilter(more[i])
        BY <1>2, <2>2, <3>1, <4>1 DEF IsQuery
      <4> QED BY <2>2, <4>2, <4>3 DEF IsQuery
    <3>2. CASE n = 3 /\ Desc[msg][n].type = "ValueSetting"
      <4>1. IsSetting(x)
        BY <3>2 DEF IsOf
      <4>2. DOMAIN w = 1 .. 3 /\ w[3] = more /\ w[2] = v[2]
        BY <1>1, <2>2, <3>2 DEF IsQuery
      <4>3. /\ IsList(more) /\ Len(more) <= MaxCount
            /\ \A i \in 1 .. Len(more) : IsSetting(more[i])
        BY <1>2, <2>2, <3>2, <4>1 DEF IsQuery
      <4> QED BY <2>2, <4>2, <4>3 DEF IsQuery
    <3> QED BY <2>1, <3>1, <3>2
  <2> QED BY <1>3, <2>3 DEF IsOf, w
<1>4. CASE msg = "Filter"
  <2>1. n = 1 /\ Desc[msg][n].type = "Comparator"
    BY <1>4, FieldsAre, TypesAre, RuleAndType
  <2>2. IsFilter(v) /\ IsComparator(x)
    BY <1>4, <2>1 DEF IsOf
  <2>3. DOMAIN w = 1 .. 1 /\ w[1] = more
    BY <1>1, <2>1, <2>2 DEF IsFilter
  <2>4. /\ IsList(more) /\ Len(more) <= MaxCount
        /\ \A i \in 1 .. Len(more) : IsComparator(more[i])
    BY <1>2, <2>1, <2>2 DEF IsFilter
  <2>5. IsFilter(w)
    BY <2>3, <2>4 DEF IsFilter
  <2> QED BY <1>4, <2>5 DEF IsOf, w
<1>5. CASE msg \in {"ValueSetting", "Comparator", "KeyValuePair", "Response"}
  BY <1>5, FieldsAre, TypesAre, RuleAndType
<1> QED BY <1>3, <1>4, <1>5, MessagesAre

\* A submessage that must be there, and was there before, has its shape.
LEMMA RequiredIs ==
    ASSUME NEW msg \in DOMAIN Desc, NEW n \in DOMAIN Desc[msg], NEW v,
           Desc[msg][n].rule = "required", IsMessage(Desc[msg][n].type), IsOf(msg, v)
    PROVE  IsOf(Desc[msg][n].type, v[n])
<1>1. ~ IsMessage("int32") /\ ~ IsMessage("int64") /\ ~ IsMessage("float") /\ ~ IsMessage("string")
  BY MessagesAre DEF IsMessage
<1>2. CASE msg = "ValueSetting"
  <2>1. n = 1 /\ Desc[msg][n].type = "KeyValuePair"
    BY <1>2, FieldsAre, TypesAre, RuleAndType
  <2> QED BY <1>2, <2>1 DEF IsOf, IsSetting
<1>3. CASE msg = "Comparator"
  <2>1. n = 2 /\ Desc[msg][n].type = "KeyValuePair"
    BY <1>1, <1>3, FieldsAre, TypesAre, RuleAndType
  <2> QED BY <1>3, <2>1 DEF IsOf, IsComparator
<1>4. CASE msg \in {"Query", "Filter", "KeyValuePair", "Response"}
  BY <1>1, <1>4, FieldsAre, TypesAre, RuleAndType
<1> QED BY <1>2, <1>3, <1>4, MessagesAre

\* A repeated field is a sequence.
LEMMA RepeatedIs ==
    ASSUME NEW msg \in DOMAIN Desc, NEW n \in DOMAIN Desc[msg], NEW v,
           Desc[msg][n].rule = "repeated", IsOf(msg, v)
    PROVE  IsList(v[n])
<1>1. CASE msg = "Query"
  <2>1. n \in {2, 3}
    BY <1>1, FieldsAre, TypesAre, RuleAndType
  <2> QED BY <1>1, <2>1 DEF IsOf, IsQuery
<1>2. CASE msg = "Filter"
  BY <1>2, FieldsAre DEF IsOf, IsFilter
<1>3. CASE msg \in {"ValueSetting", "Comparator", "KeyValuePair", "Response"}
  BY <1>3, FieldsAre, TypesAre, RuleAndType
<1> QED BY <1>1, <1>2, <1>3, MessagesAre

\* What has the shape of a message fits into its struct.
LEMMA ShapeFits ==
    ASSUME NEW msg \in DOMAIN Desc, NEW v, IsOf(msg, v)
    PROVE  Fits(msg, v)
<1>1. ASSUME NEW p, IsPair(p) PROVE PairFits(p)
  BY <1>1 DEF IsPair, PairFits
<1>2. ASSUME NEW f, IsFilter(f) PROVE FilterFits(f)
  <2>1. \A i \in DOMAIN f[1] : IsComparator(f[1][i])
    BY <1>2, ListIs DEF IsFilter
  <2> QED BY <1>1, <1>2, <2>1 DEF IsFilter, FilterFits, IsComparator
<1>3. ASSUME NEW q, IsQuery(q) PROVE QueryFits(q)
  <2>1. /\ \A i \in DOMAIN q[2] : IsFilter(q[2][i])
        /\ \A i \in DOMAIN q[3] : IsSetting(q[3][i])
    BY <1>3, ListIs DEF IsQuery
  <2> QED BY <1>1, <1>2, <1>3, <2>1 DEF IsQuery, QueryFits, IsSetting
<1>4. CASE msg = "Query"
  BY <1>3, <1>4 DEF IsOf, Fits
<1>5. CASE msg = "Filter"
  BY <1>2, <1>5 DEF IsOf, Fits
<1>6. CASE msg = "ValueSetting"
  BY <1>1, <1>6 DEF IsOf, Fits, IsSetting
<1>7. CASE msg = "Comparator"
  BY <1>1, <1>7 DEF IsOf, Fits, IsComparator
<1>8. CASE msg = "KeyValuePair"
  BY <1>1, <1>8 DEF IsOf, Fits
<1>9. CASE msg = "Response"
  BY <1>9 DEF IsOf, Fits, IsResponse
<1> QED BY <1>4, <1>5, <1>6, <1>7, <1>8, <1>9, MessagesAre

----------------------------------------------------------------------------
(* Streams *)

IsStream(s) ==
    /\ DOMAIN s = {"ok", "inp", "left", "val"}
    /\ s.ok \in BOOLEAN /\ s.inp \in Seq(Byte) /\ s.left \in Nat

LEMMA StreamIs ==
    ASSUME NEW left \in Nat, inp \in Seq(Byte)
    PROVE  IsStream(Stream(left)) /\ Stream(left).ok /\ Stream(left).left = left
BY DEF IsStream, Stream, StreamOf

LEMMA FailedIs ==
    ASSUME NEW s, IsStream(s)
    PROVE  IsStream(Failed(s)) /\ ~ Failed(s).ok
BY DEF IsStream, Failed

LEMMA PastIs ==
    ASSUME NEW s, IsStream(s), NEW n \in Nat, n <= s.left, n <= Len(s.inp), NEW v
    PROVE  /\ IsStream(Past(s, n, v))
           /\ Past(s, n, v).ok = s.ok
           /\ Past(s, n, v).left = s.left - n
           /\ Len(Past(s, n, v).inp) = Len(s.inp) - n
           /\ Past(s, n, v).val = v
<1>1. SubSeq(s.inp, n + 1, Len(s.inp)) \in Seq(Byte) /\ Len(s.inp) \in Nat
  BY DEF IsStream
<1>2. Len(SubSeq(s.inp, n + 1, Len(s.inp))) = Len(s.inp) - n
  BY DEF IsStream
<1>3. s.left - n \in Nat
  BY DEF IsStream
<1> QED BY <1>1, <1>2, <1>3 DEF IsStream, Past

LEMMA StarvedIs ==
    ASSUME NEW s, IsStream(s)
    PROVE  IsStream(Starved(s)) /\ ~ Starved(s).ok
BY DEF IsStream, Starved, Failed

\* What is read of a stream has the length that was asked for.
LEMMA ReadBytesIs ==
    ASSUME NEW s, IsStream(s), NEW n \in Nat
    PROVE  /\ IsStream(ReadBytes(s, n))
           /\ s.ok /\ ReadBytes(s, n).ok => Len(ReadBytes(s, n).val) = n
<1>0. Len(s.inp) \in Nat /\ s.left \in Nat
  BY DEF IsStream
<1>1. CASE n = 0
  <2>1. ReadBytes(s, n) = [s EXCEPT !.val = <<>>]
    BY <1>1 DEF ReadBytes
  <2>2. IsStream([s EXCEPT !.val = <<>>]) /\ [s EXCEPT !.val = <<>>].val = <<>>
    BY DEF IsStream
  <2>3. Len(<<>>) = 0
    OBVIOUS
  <2> QED BY <1>1, <2>1, <2>2, <2>3
<1>2. CASE n # 0 /\ s.left < n
  BY <1>2, FailedIs DEF ReadBytes
<1>3. CASE n # 0 /\ ~ (s.left < n) /\ Len(s.inp) < n
  BY <1>3, StarvedIs DEF ReadBytes
<1>4. CASE n # 0 /\ ~ (s.left < n) /\ ~ (Len(s.inp) < n)
  <2>1. ReadBytes(s, n) = Past(s, n, SubSeq(s.inp, 1, n))
    BY <1>4 DEF ReadBytes
  <2>2. Len(SubSeq(s.inp, 1, n)) = n
    BY <1>0, <1>4 DEF IsStream
  <2>3. n <= s.left /\ n <= Len(s.inp)
    BY <1>0, <1>4
  <2> DEFINE v == SubSeq(s.inp, 1, n)
  <2> HIDE DEF v
  <2>4. IsStream(Past(s, n, v)) /\ Past(s, n, v).val = v
    BY <2>3, PastIs
  <2> QED BY <2>1, <2>2, <2>4 DEF v
<1> QED BY <1>1, <1>2, <1>3, <1>4

LEMMA SkipBytesIs ==
    ASSUME NEW s, IsStream(s), NEW n \in Nat
    PROVE  IsStream(SkipBytes(s, n))
<1> DEFINE there == Least(n, Least(s.left, Len(s.inp)))
           chunks == SkipChunk * (there \div SkipChunk)
<1>1. s.left \in Nat /\ Len(s.inp) \in Nat
  BY DEF IsStream
<1>2. there \in Nat /\ there <= n /\ there <= s.left /\ there <= Len(s.inp)
  <2> DEFINE m == Least(s.left, Len(s.inp))
  <2>1. m \in Nat /\ m <= s.left /\ m <= Len(s.inp)
    BY <1>1, LeastIs
  <2> HIDE DEF m
  <2>2. Least(n, m) \in Nat /\ Least(n, m) <= n /\ Least(n, m) <= m
    BY <2>1, LeastIs
  <2>3. there = Least(n, m)
    BY DEF m
  <2> QED BY <1>1, <2>1, <2>2, <2>3
<1> HIDE DEF there
<1>3. chunks \in Nat /\ chunks <= there
  BY <1>2, ChunksFit, WireAssumption
<1>4. SkipBytes(s, n) = ReadBytes(Past(s, chunks, <<>>), Least(SkipChunk, n - chunks))
  BY DEF SkipBytes, there
<1> HIDE DEF chunks
<1>5. IsStream(Past(s, chunks, <<>>))
  BY <1>1, <1>2, <1>3, PastIs
<1>6. Least(SkipChunk, n - chunks) \in Nat
  <2>1. n - chunks \in Nat
    BY <1>2, <1>3
  <2> QED BY <2>1, LeastIs, WireAssumption
<1> QED BY <1>4, <1>5, <1>6, ReadBytesIs

\* As many numbers as an int32 has.
LEMMA IntRange == 2 ^ IntBits \in Nat \ {0}
<1>1. IntBits \in 0 .. LongBits
  BY WidthAssumption
<1> QED BY <1>1, PowerAssumption

\* The groups are added to the number from the last one on, the highest.
LEMMA GroupsAdd ==
    ASSUME NEW bs \in Seq(Byte), NEW bits
    PROVE  \E f \in [0 .. Len(bs) -> Nat] :
              /\ f[0] = 0
              /\ \A i \in 1 .. Len(bs) : f[i] = 128 * f[i - 1] + (bs[Len(bs) - i + 1] % 128)
              /\ Grouped(bs, bits) = f[Len(bs)] % 2 ^ bits
<1> DEFINE n == Len(bs)
           At(last, i) == IF i = 0 THEN 0 ELSE 128 * last[i - 1] + (bs[n - i + 1] % 128)
           Is(last, k) == last = [i \in 0 .. k |-> At(last, i)]
           All == CHOOSE last : Is(last, n)
<1>1. n \in Nat
  OBVIOUS
<1>2. \A i \in 1 .. n : bs[n - i + 1] % 128 \in Nat
  <2> SUFFICES ASSUME NEW i \in 1 .. n PROVE bs[n - i + 1] % 128 \in Nat
    OBVIOUS
  <2>1. n - i + 1 \in 1 .. n
    BY <1>1
  <2>2. bs[n - i + 1] \in Byte
    BY <2>1
  <2>3. \A b \in 0 .. 255 : b % 128 \in Nat
    OBVIOUS
  <2> QED BY <2>2, <2>3 DEF Byte
<1>3. \A k \in 0 .. n : \E last : Is(last, k)
  <2> DEFINE T == {k \in 0 .. n : ~ \E last : Is(last, k)}
  <2> HIDE DEF Is, n
  <2> SUFFICES ASSUME T # {} PROVE FALSE
    OBVIOUS
  <2>0. \A j \in 0 .. n : j \notin T => \E last : Is(last, j)
    <3> HIDE DEF Is, n
    <3> QED OBVIOUS
  <2>1. T \in SUBSET Nat
    BY <1>1
  <2>2. PICK k \in T : \A j \in T : k <= j
    BY <2>1, LeastOf
  <2>3. k \in 0 .. n /\ ~ \E last : Is(last, k)
    OBVIOUS
  <2> HIDE DEF T, Is
  <2>4. k # 0
    <3> DEFINE zero == [i \in 0 .. 0 |-> 0]
    <3>1. Is(zero, 0)
      BY DEF Is
    <3> QED BY <2>3, <3>1
  <2>5. k - 1 \in 0 .. n /\ k - 1 \notin T
    BY <1>1, <2>2, <2>3, <2>4
  <2>6. PICK last : Is(last, k - 1)
    BY <2>0, <2>5
  <2> DEFINE next == [i \in 0 .. k |-> IF i = k THEN At(last, k) ELSE last[i]]
  <2>7. \A i \in 0 .. k : next[i] = At(next, i)
    <3> SUFFICES ASSUME NEW i \in 0 .. k PROVE next[i] = At(next, i)
      OBVIOUS
    <3>1. i # 0 => i - 1 \in 0 .. k - 1 /\ i - 1 # k /\ next[i - 1] = last[i - 1]
      BY <2>3
    <3>2. At(next, i) = At(last, i)
      BY <3>1
    <3>3. CASE i = k
      BY <3>2, <3>3
    <3>4. CASE i # k
      <4>1. i \in 0 .. k - 1
        BY <2>3, <3>4
      <4>2. last[i] = At(last, i)
        BY <2>6, <4>1 DEF Is
      <4> QED BY <3>2, <3>4, <4>2
    <3> QED BY <3>3, <3>4
  <2>8. Is(next, k)
    BY <2>7 DEF Is
  <2> QED BY <2>3, <2>8
<1>4. Is(All, n)
  <2>1. \E last : Is(last, n)
    BY <1>1, <1>3
  <2> HIDE DEF Is
  <2> QED BY <2>1
<1> HIDE DEF All
<1>5. \A i \in 0 .. n : All[i] = At(All, i)
  BY <1>4
<1>6. \A i \in 0 .. n : All[i] \in Nat
  <2> DEFINE T == {k \in 0 .. n : All[k] \notin Nat}
  <2> SUFFICES ASSUME T # {} PROVE FALSE
    OBVIOUS
  <2>1. T \in SUBSET Nat
    BY <1>1
  <2>2. PICK k \in T : \A j \in T : k <= j
    BY <2>1, LeastOf
  <2>3. k \in 0 .. n /\ All[k] \notin Nat
    OBVIOUS
  <2>4. k # 0
    BY <1>5, <2>3
  <2>5. k - 1 \in 0 .. n /\ k - 1 \notin T /\ k \in 1 .. n
    BY <1>1, <2>2, <2>3, <2>4
  <2>6. All[k - 1] \in Nat
    BY <2>5
  <2>7. All[k] = 128 * All[k - 1] + (bs[n - k + 1] % 128)
    BY <1>5, <2>3, <2>4
  <2>8. bs[n - k + 1] % 128 \in Nat
    BY <1>2, <2>5
  <2> QED BY <2>3, <2>6, <2>7, <2>8
<1>7. Grouped(bs, bits) = All[n] % 2 ^ bits
  BY DEF Grouped, All
<1>8. All \in [0 .. n -> Nat]
  BY <1>4, <1>6
<1>9. All[0] = 0 /\ \A i \in 1 .. n : All[i] = 128 * All[i - 1] + (bs[n - i + 1] % 128)
  BY <1>1, <1>5
<1> QED BY <1>7, <1>8, <1>9

\* The groups of seven bits are a number, and it has no more bits than asked for.
LEMMA GroupedIs ==
    ASSUME NEW bs \in Seq(Byte)
    PROVE  Grouped(bs, IntBits) \in Nat
<1>1. PICK f \in [0 .. Len(bs) -> Nat] : Grouped(bs, IntBits) = f[Len(bs)] % 2 ^ IntBits
  BY GroupsAdd
<1>2. f[Len(bs)] \in Nat
  BY <1>1
<1> QED BY <1>1, <1>2, IntRange

\* A length that was read is a number.
LEMMA ReadVarintIs ==
    ASSUME NEW s, IsStream(s), NEW bits
    PROVE  /\ IsStream(ReadVarint(s, bits))
           /\ bits = IntBits /\ ReadVarint(s, bits).ok => ReadVarint(s, bits).val \in Nat
<1> DEFINE m == Least(s.left, Len(s.inp))
           here == SubSeq(s.inp, 1, m)
           ends == {i \in DOMAIN here : here[i] < 128 \/ TooBig(here, i, bits)}
           last == CHOOSE i \in ends : \A j \in ends : i <= j
           none == [Failed(s) EXCEPT !.inp = SubSeq(@, Len(here) + 1, Len(@)), !.left = 0]
<1>1. s.left \in Nat /\ Len(s.inp) \in Nat /\ s.inp \in Seq(Byte)
  BY DEF IsStream
<1>2. m \in Nat /\ m <= s.left /\ m <= Len(s.inp)
  BY <1>1, LeastIs
<1> HIDE DEF m
<1>3. here \in Seq(Byte) /\ Len(here) = m /\ DOMAIN here = 1 .. m
  BY <1>1, <1>2
<1>4. ReadVarint(s, bits) =
        IF ends = {} THEN none
        ELSE IF TooBig(here, last, bits) THEN Failed(Past(s, last, 0))
        ELSE Past(s, last, Grouped(SubSeq(here, 1, last), bits))
  BY DEF ReadVarint, m
<1>5. ends \in SUBSET (1 .. m)
  BY <1>3
<1> HIDE DEF here, ends
<1>6. CASE ends = {}
  <2>1. SubSeq(s.inp, Len(here) + 1, Len(s.inp)) \in Seq(Byte)
    BY <1>1, <1>2, <1>3
  <2>2. IsStream(none) /\ ~ none.ok
    BY <2>1 DEF IsStream, Failed
  <2> QED BY <1>4, <1>6, <2>2
<1>7. CASE ends # {}
  <2>1. ends \in SUBSET Nat
    BY <1>2, <1>5
  <2>2. last \in ends
    BY <1>7, <2>1, LeastOf
  <2> HIDE DEF last
  <2>3. last \in Nat /\ last <= m
    BY <1>2, <1>5, <2>2
  <2>4. last <= s.left /\ last <= Len(s.inp)
    BY <1>1, <1>2, <2>3
  <2>5. ASSUME NEW v
        PROVE  IsStream(Past(s, last, v)) /\ Past(s, last, v).val = v
    BY <2>3, <2>4, PastIs
  <2>6. CASE TooBig(here, last, bits)
    <3>1. ReadVarint(s, bits) = Failed(Past(s, last, 0))
      BY <1>4, <1>7, <2>6
    <3> QED BY <2>5, <3>1, FailedIs
  <2>7. CASE ~ TooBig(here, last, bits)
    <3> DEFINE v == Grouped(SubSeq(here, 1, last), bits)
    <3>1. ReadVarint(s, bits) = Past(s, last, v)
      BY <1>4, <1>7, <2>7
    <3>2. SubSeq(here, 1, last) \in Seq(Byte)
      BY <1>3, <2>3
    <3>3. bits = IntBits => v \in Nat
      BY <3>2, GroupedIs
    <3> HIDE DEF v
    <3> QED BY <2>5, <3>1, <3>3
  <2> QED BY <2>6, <2>7
<1> QED BY <1>6, <1>7

LEMMA ReadLengthIs ==
    ASSUME NEW s, IsStream(s)
    PROVE  IsStream(ReadLength(s)) /\ (ReadLength(s).ok => ReadLength(s).val \in Nat)
BY ReadVarintIs DEF ReadLength

\* A string that was read has room for its terminator.
LEMMA ReadScalarIs ==
    ASSUME NEW s, IsStream(s), s.ok, NEW type,
           type \in {"int32", "int64", "float", "string"}
    PROVE  /\ IsStream(ReadScalar(s, type))
           /\ ReadScalar(s, type).ok => IsOf(type, ReadScalar(s, type).val)
<1>1. ASSUME NEW bits PROVE IsStream(ReadNumber(s, bits))
  <2> DEFINE r == ReadVarint(s, LongBits)
  <2>1. IsStream(r)
    BY ReadVarintIs
  <2>2. ReadNumber(s, bits) = IF r.ok THEN [r EXCEPT !.val = Signed(@ % 2 ^ bits, bits)] ELSE r
    BY DEF ReadNumber
  <2> HIDE DEF r
  <2>3. ASSUME NEW v PROVE IsStream([r EXCEPT !.val = v])
    BY <2>1 DEF IsStream
  <2> QED BY <2>1, <2>2, <2>3
<1>2. CASE type \in {"int32", "int64"}
  <2>1. \E bits : ReadScalar(s, type) = ReadNumber(s, bits)
    BY <1>2 DEF ReadScalar
  <2> QED BY <1>1, <1>2, <2>1 DEF IsOf
<1>3. CASE type = "float"
  <2>1. ReadScalar(s, type) = ReadBytes(s, 4)
    BY <1>3 DEF ReadScalar
  <2> QED BY <1>3, <2>1, ReadBytesIs DEF IsOf
<1>4. CASE type = "string"
  <2> DEFINE size == ReadLength(s)
  <2>1. IsStream(size) /\ (size.ok => size.val \in Nat)
    BY ReadLengthIs
  <2>2. ReadScalar(s, type) =
          IF ~ size.ok \/ TooLong(size.val) THEN Failed(size) ELSE ReadBytes(size, size.val)
    BY <1>4 DEF ReadScalar, ReadString
  <2> HIDE DEF size
  <2>3. CASE ~ size.ok \/ TooLong(size.val)
    BY <2>1, <2>2, <2>3, FailedIs
  <2>4. CASE size.ok /\ ~ TooLong(size.val)
    <3>1. size.val \in Nat /\ size.val < StrSize
      BY <2>1, <2>4, WidthAssumption DEF TooLong
    <3>2. IsStream(ReadBytes(size, size.val))
      BY <2>1, <3>1, ReadBytesIs
    <3>3. ReadBytes(size, size.val).ok => Len(ReadBytes(size, size.val).val) < StrSize
      BY <2>1, <2>4, <3>1, ReadBytesIs
    <3>4. ReadScalar(s, type) = ReadBytes(size, size.val)
      BY <2>2, <2>4
    <3> QED BY <1>4, <3>2, <3>3, <3>4 DEF IsOf, StringFits
  <2> QED BY <2>3, <2>4
<1> QED BY <1>2, <1>3, <1>4

LEMMA SkipFieldIs ==
    ASSUME NEW s, IsStream(s), NEW wire
    PROVE  IsStream(SkipField(s, wire))
<1> DEFINE size == ReadLength(s)
<1>1. IsStream(size) /\ (size.ok => size.val \in Nat)
  BY ReadLengthIs
<1> HIDE DEF size
<1>2. CASE wire = 0
  <2>1. SkipField(s, wire) = ReadVarint(s, 0)
    BY <1>2 DEF SkipField
  <2> QED BY <2>1, ReadVarintIs
<1>3. CASE wire = 1
  <2>1. SkipField(s, wire) = SkipBytes(s, 8)
    BY <1>3 DEF SkipField
  <2> QED BY <2>1, SkipBytesIs
<1>4. CASE wire = 2
  <2>1. SkipField(s, wire) = IF size.ok THEN SkipBytes(size, size.val) ELSE size
    BY <1>4 DEF SkipField, size
  <2> QED BY <1>1, <2>1, SkipBytesIs
<1>5. CASE wire = 5
  <2>1. SkipField(s, wire) = SkipBytes(s, 4)
    BY <1>5 DEF SkipField
  <2> QED BY <2>1, SkipBytesIs
<1>6. CASE wire \notin {0, 1, 2, 5}
  <2>1. SkipField(s, wire) = Failed(s)
    BY <1>6 DEF SkipField
  <2> QED BY <2>1, FailedIs
<1> QED BY <1>2, <1>3, <1>4, <1>5, <1>6

----------------------------------------------------------------------------
(* The messages being read *)

IsFrame(f) ==
    /\ DOMAIN f = {"msg", "field", "left", "seen", "value"}
    /\ f.msg \in DOMAIN Desc
    /\ f.left \in Nat
    /\ f.seen \subseteq Required(f.msg)
    /\ IsOf(f.msg, f.value)

\* A message is read for a field of the one around it; if that field is
\* repeated, a place for it is left there.
Placed(f, sub) ==
    /\ sub.field \in DOMAIN Desc[f.msg]
    /\ Desc[f.msg][sub.field].type = sub.msg
    /\ Desc[f.msg][sub.field].rule = "repeated" => Len(f.value[sub.field]) < MaxCount

Nested(st) ==
    /\ IsList(st)
    /\ \A i \in 1 .. Len(st) : IsFrame(st[i])
    /\ \A i \in 2 .. Len(st) : Placed(st[i - 1], st[i])
    /\ st # <<>> => st[1].msg = Root

DecoderInv ==
    /\ inp \in Seq(Byte)
    /\ status \in {"listening", "reading", "unwinding", "refused"}
    /\ (stack = <<>>) <=> (status \in {"listening", "refused"})
    /\ Nested(stack)
    /\ IsList(got) /\ \A i \in 1 .. Len(got) : IsOf(Root, got[i])

LEMMA NotEmpty ==
    ASSUME NEW st, IsList(st)
    PROVE  st = <<>> <=> Len(st) = 0
BY DEF IsList

LEMMA TopIs ==
    ASSUME Nested(stack), stack # <<>>
    PROVE  /\ Len(stack) \in Nat \ {0} /\ DOMAIN stack = 1 .. Len(stack)
           /\ IsFrame(Top)
<1>1. Len(stack) \in Nat \ {0} /\ DOMAIN stack = 1 .. Len(stack)
  BY ListIs, NotEmpty DEF Nested
<1> QED BY <1>1 DEF Nested, Top

\* The innermost message goes on.
LEMMA WithTopNested ==
    ASSUME Nested(stack), stack # <<>>,
           NEW f, IsFrame(f), f.msg = Top.msg, f.field = Top.field
    PROVE  /\ Nested(WithTop(f)) /\ WithTop(f) # <<>>
           /\ Len(WithTop(f)) = Len(stack) /\ WithTop(f)[Len(stack)] = f
<1> DEFINE st == WithTop(f)
           n == Len(stack)
<1>1. n \in Nat \ {0} /\ DOMAIN stack = 1 .. n
  BY TopIs
<1>2. /\ IsList(st) /\ Len(st) = n
      /\ \A i \in 1 .. n - 1 : st[i] = stack[i]
      /\ st[n] = f
  <2>1. IsList(stack) /\ Len(stack) # 0 /\ st = Append(Front(stack), f)
    BY <1>1 DEF WithTop, Nested
  <2> HIDE DEF st
  <2> QED BY <2>1, ListReplace
<1>3. stack[n] = Top
  BY DEF Top
<1> HIDE DEF st, n
<1>4. \A i \in 1 .. n : IsFrame(stack[i])
  BY DEF Nested, n
<1>5. \A i \in 2 .. n : Placed(stack[i - 1], stack[i])
  BY DEF Nested, n
<1>6. \A i \in 1 .. n : IsFrame(st[i])
  BY <1>1, <1>2, <1>4
<1>7. \A i \in 2 .. n : Placed(st[i - 1], st[i])
  <2> SUFFICES ASSUME NEW i \in 2 .. n PROVE Placed(st[i - 1], st[i])
    OBVIOUS
  <2>1. i - 1 \in 1 .. n - 1 /\ st[i - 1] = stack[i - 1]
    BY <1>1, <1>2
  <2>2. CASE i = n
    <3>1. Placed(stack[n - 1], Top)
      BY <1>3, <1>5, <2>2
    <3> QED BY <1>2, <2>1, <2>2, <3>1 DEF Placed
  <2>3. CASE i # n
    <3>1. i \in 1 .. n - 1 /\ st[i] = stack[i]
      BY <1>1, <1>2, <2>3
    <3> QED BY <1>5, <2>1, <3>1
  <2> QED BY <2>2, <2>3
<1>8. st[1].msg = Root
  <2>1. stack[1].msg = Root
    BY DEF Nested
  <2>2. CASE n = 1
    BY <1>2, <1>3, <2>1, <2>2
  <2>3. CASE n # 1
    <3>1. 1 \in 1 .. n - 1
      BY <1>1, <2>3
    <3> QED BY <1>2, <2>1, <3>1
  <2> QED BY <2>2, <2>3
<1>9. st # <<>>
  BY <1>1, <1>2, NotEmpty
<1> QED BY <1>2, <1>6, <1>7, <1>8, <1>9 DEF Nested, st, n

\* One more message is opened.
LEMMA OpenedNested ==
    ASSUME NEW st, Nested(st), st # <<>>, NEW sub, IsFrame(sub), Placed(st[Len(st)], sub)
    PROVE  Nested(Append(st, sub)) /\ Append(st, sub) # <<>>
<1> DEFINE n == Len(st)
           to == Append(st, sub)
<1>1. n \in Nat \ {0}
  BY ListIs, NotEmpty DEF Nested
<1>2. /\ IsList(to) /\ Len(to) = n + 1
      /\ \A i \in 1 .. n : to[i] = st[i]
      /\ to[n + 1] = sub
  BY ListAppend DEF Nested
<1>3. Placed(st[n], sub)
  OBVIOUS
<1>4. /\ \A i \in 1 .. n : IsFrame(st[i])
      /\ \A i \in 2 .. n : Placed(st[i - 1], st[i])
      /\ st[1].msg = Root
  BY DEF Nested
<1> HIDE DEF n, to
<1>5. \A i \in 1 .. n + 1 : i \in 1 .. n \/ i = n + 1
  BY <1>1
<1>6. \A i \in 1 .. n + 1 : IsFrame(to[i])
  BY <1>2, <1>4, <1>5
<1>7. \A i \in 2 .. n + 1 : Placed(to[i - 1], to[i])
  <2> SUFFICES ASSUME NEW i \in 2 .. n + 1 PROVE Placed(to[i - 1], to[i])
    OBVIOUS
  <2>1. i - 1 \in 1 .. n /\ to[i - 1] = st[i - 1]
    BY <1>1, <1>2
  <2>2. CASE i = n + 1
    <3>1. i - 1 = n
      BY <1>1, <2>2
    <3> QED BY <1>2, <1>3, <2>1, <2>2, <3>1
  <2>3. CASE i # n + 1
    <3>1. i \in 2 .. n /\ i \in 1 .. n
      BY <1>1, <2>3
    <3> QED BY <1>2, <1>4, <2>1, <3>1
  <2> QED BY <2>2, <2>3
<1>8. to[1].msg = Root
  BY <1>1, <1>2, <1>4
<1>9. to # <<>>
  BY <1>1, <1>2, NotEmpty
<1> QED BY <1>2, <1>6, <1>7, <1>8, <1>9 DEF Nested, n, to

\* The innermost messages are closed.
LEMMA ClosedNested ==
    ASSUME NEW st, Nested(st), NEW n \in 0 .. Len(st)
    PROVE  /\ Nested(SubSeq(st, 1, n))
           /\ Len(SubSeq(st, 1, n)) = n
           /\ \A i \in 1 .. n : SubSeq(st, 1, n)[i] = st[i]
<1> DEFINE to == SubSeq(st, 1, n)
<1>1. Len(st) \in Nat
  BY ListIs DEF Nested
<1>2. IsList(to) /\ Len(to) = n /\ \A i \in 1 .. n : to[i] = st[i]
  BY ListSub DEF Nested
<1>3. /\ \A i \in 1 .. Len(st) : IsFrame(st[i])
      /\ \A i \in 2 .. Len(st) : Placed(st[i - 1], st[i])
  BY DEF Nested
<1> HIDE DEF to
<1>4. \A i \in 1 .. n : IsFrame(to[i])
  BY <1>1, <1>2, <1>3
<1>5. \A i \in 2 .. n : Placed(to[i - 1], to[i])
  <2> SUFFICES ASSUME NEW i \in 2 .. n PROVE Placed(to[i - 1], to[i])
    OBVIOUS
  <2>1. i - 1 \in 1 .. n /\ i \in 1 .. n /\ i \in 2 .. Len(st)
    BY <1>1
  <2> QED BY <1>2, <1>3, <2>1
<1>6. to # <<>> => to[1].msg = Root
  <2> SUFFICES ASSUME to # <<>> PROVE to[1].msg = Root
    OBVIOUS
  <2>1. n # 0
    BY <1>2, NotEmpty
  <2>2. 1 \in 1 .. n /\ Len(st) # 0
    BY <1>1, <2>1
  <2>3. st[1].msg = Root
    BY <2>2, NotEmpty DEF Nested
  <2> QED BY <1>2, <2>2, <2>3
<1> QED BY <1>2, <1>4, <1>5, <1>6 DEF Nested, to

----------------------------------------------------------------------------
(* Every step of the decoder keeps to the messages *)

LEMMA Streams ==
    ASSUME DecoderInv, stack # <<>>
    PROVE  /\ IsStream(TopStream) /\ TopStream.ok
           /\ IsStream(Tag) /\ (Tag.ok => Tag.val \in Nat)
<1>1. Top.left \in Nat /\ inp \in Seq(Byte)
  BY TopIs DEF DecoderInv, IsFrame
<1>2. IsStream(TopStream) /\ TopStream.ok
  BY <1>1, StreamIs DEF TopStream
<1> QED BY <1>2, ReadLengthIs DEF Tag

LEMMA RefuseKeeps ==
    ASSUME DecoderInv, stack # <<>>, NEW s, IsStream(s), Refuse(s)
    PROVE  DecoderInv'
<1> DEFINE f == [Top EXCEPT !.left = s.left]
<1>1. IsFrame(Top)
  BY TopIs DEF DecoderInv
<1>2. IsFrame(f) /\ f.msg = Top.msg /\ f.field = Top.field
  BY <1>1 DEF IsFrame, IsStream
<1> HIDE DEF f
<1>3. Nested(WithTop(f)) /\ WithTop(f) # <<>>
  BY <1>2, WithTopNested DEF DecoderInv
<1>4. stack' = WithTop(f) /\ inp' = s.inp /\ status' = "unwinding" /\ got' = got
  BY DEF Refuse, f
<1>5. Nested(stack')
  BY <1>3, <1>4
<1>6. stack' # <<>>
  BY <1>3, <1>4
<1> QED BY <1>4, <1>5, <1>6 DEF DecoderInv, IsStream

LEMMA GoOnKeeps ==
    ASSUME DecoderInv, status = "reading", stack # <<>>, NEW s, IsStream(s), NEW f, GoOn(s, f),
           s.ok => /\ DOMAIN f = DOMAIN Top
                   /\ f.msg = Top.msg /\ f.field = Top.field
                   /\ f.seen \subseteq Required(f.msg)
                   /\ IsOf(f.msg, f.value)
    PROVE  DecoderInv'
<1>1. CASE ~ s.ok
  BY <1>1, RefuseKeeps DEF GoOn
<1>2. CASE s.ok
  <2> DEFINE g == [f EXCEPT !.left = s.left]
  <2>1. IsFrame(Top)
    BY TopIs DEF DecoderInv
  <2>2. IsFrame(g) /\ g.msg = Top.msg /\ g.field = Top.field
    BY <1>2, <2>1 DEF IsFrame, IsStream
  <2>3. stack' = WithTop(g) /\ inp' = s.inp /\ status' = status /\ got' = got
    BY <1>2 DEF GoOn
  <2> HIDE DEF g
  <2>4. Nested(WithTop(g)) /\ WithTop(g) # <<>>
    BY <2>2, WithTopNested DEF DecoderInv
  <2>5. Nested(stack') /\ stack' # <<>>
    BY <2>3, <2>4
  <2> QED BY <2>3, <2>5 DEF DecoderInv, IsStream
<1> QED BY <1>1, <1>2

LEMMA BeginKeeps ==
    ASSUME DecoderInv, Begin
    PROVE  DecoderInv'
<1> DEFINE size == Announced(inp)
<1>1. IsStream(size) /\ (size.ok => size.val \in Nat)
  BY StreamIs, ReadLengthIs, IntRange DEF DecoderInv, Announced, Stream
<1>2. /\ status = "listening" /\ inp' = size.inp /\ got' = got
      /\ size.ok => stack' = <<Frame(Root, 0, size.val, Zeros[Root])>> /\ status' = "reading"
      /\ ~ size.ok => stack' = stack /\ status' = "refused"
  BY DEF Begin
<1> HIDE DEF size
<1>3. CASE size.ok
  <2> DEFINE f == Frame(Root, 0, size.val, Zeros[Root])
  <2>1. IsFrame(f) /\ f.msg = Root
    BY <1>1, <1>3, ZerosFit, WireAssumption DEF IsFrame, Frame
  <2> HIDE DEF f
  <2>2. IsList(<<f>>) /\ Len(<<f>>) = 1 /\ <<f>>[1] = f /\ <<f>> # <<>>
    BY DEF IsList
  <2> DEFINE st == <<f>>
  <2>3. st[1] = f /\ Len(st) = 1 /\ IsList(st) /\ st # <<>>
    BY <2>2
  <2> HIDE DEF st
  <2>4. Nested(st)
    BY <2>1, <2>3 DEF Nested
  <2>5. stack' = st
    BY <1>2, <1>3 DEF st, f
  <2>6. Nested(stack') /\ stack' # <<>>
    BY <2>3, <2>4, <2>5
  <2> QED BY <1>1, <1>2, <1>3, <2>6 DEF DecoderInv, IsStream
<1>4. CASE ~ size.ok
  BY <1>1, <1>2, <1>4 DEF DecoderInv, IsStream, Nested
<1> QED BY <1>3, <1>4

LEMMA InputEndsKeeps ==
    ASSUME DecoderInv, stack # <<>>, InputEnds
    PROVE  DecoderInv'
<1> DEFINE f == [Top EXCEPT !.left = 0]
<1>1. IsFrame(Top)
  BY TopIs DEF DecoderInv
<1>2. IsFrame(f) /\ f.msg = Top.msg /\ f.field = Top.field
  BY <1>1 DEF IsFrame
<1>3. stack' = WithTop(f) /\ inp' = inp /\ status' = status /\ got' = got
  BY DEF InputEnds
<1> HIDE DEF f
<1>4. Nested(WithTop(f)) /\ WithTop(f) # <<>>
  BY <1>2, WithTopNested DEF DecoderInv
<1>5. Nested(stack') /\ stack' # <<>>
  BY <1>3, <1>4
<1> QED BY <1>3, <1>5 DEF DecoderInv

LEMMA SkipUnknownKeeps ==
    ASSUME DecoderInv, stack # <<>>, SkipUnknown
    PROVE  DecoderInv'
<1>1. IsStream(SkipField(Tag, Wire))
  BY Streams, SkipFieldIs
<1>2. IsFrame(Top)
  BY TopIs DEF DecoderInv
<1>3. GoOn(SkipField(Tag, Wire), Top) /\ status = "reading"
  BY DEF SkipUnknown, InMessage
<1> QED BY <1>1, <1>2, <1>3, GoOnKeeps DEF IsFrame

\* What is known of a field that is going to be read.
LEMMA FieldIs ==
    ASSUME DecoderInv, stack # <<>>, Known
    PROVE  /\ Number \in DOMAIN Desc[Top.msg] /\ Top.msg \in DOMAIN Desc
           /\ Rule = Desc[Top.msg][Number].rule /\ Type = Desc[Top.msg][Number].type
           /\ Seen \subseteq Required(Top.msg)
<1>1. IsFrame(Top)
  BY TopIs DEF DecoderInv
<1> QED BY <1>1 DEF Known, Rule, Type, Seen, IsFrame, Required

\* Every field is of a rule and a type that there are, and only submessages are
\* repeated.
LEMMA FieldKinds ==
    ASSUME NEW msg \in DOMAIN Desc, NEW n \in DOMAIN Desc[msg]
    PROVE  /\ Desc[msg][n].rule \in {"required", "repeated"}
           /\ Desc[msg][n].type \in DOMAIN Desc \cup {"int32", "int64", "float", "string"}
           /\ ~ IsMessage(Desc[msg][n].type) => Desc[msg][n].rule = "required"
<1>1. CASE msg = "Query"
  BY <1>1, FieldsAre, TypesAre, RuleAndType, MessagesAre DEF IsMessage
<1>2. CASE msg \in {"Filter", "ValueSetting"}
  BY <1>2, FieldsAre, TypesAre, RuleAndType, MessagesAre DEF IsMessage
<1>3. CASE msg \in {"Comparator", "Response"}
  BY <1>3, FieldsAre, TypesAre, RuleAndType, MessagesAre DEF IsMessage
<1>4. CASE msg = "KeyValuePair"
  BY <1>4, FieldsAre, TypesAre, RuleAndType, MessagesAre DEF IsMessage
<1> QED BY <1>1, <1>2, <1>3, <1>4, MessagesAre

LEMMA ReadFieldKeeps ==
    ASSUME DecoderInv, stack # <<>>, ReadField
    PROVE  DecoderInv'
<1> DEFINE s == ReadScalar(Tag, Type)
           f == [Top EXCEPT !.seen = Seen, !.value[Number] = s.val]
<1>1. Known /\ Tag.ok /\ ~ IsMessage(Type) /\ status = "reading" /\ GoOn(s, f)
  BY DEF ReadField, Known, InMessage
<1>2. /\ Number \in DOMAIN Desc[Top.msg] /\ Top.msg \in DOMAIN Desc
      /\ Rule = Desc[Top.msg][Number].rule /\ Type = Desc[Top.msg][Number].type
      /\ Seen \subseteq Required(Top.msg)
  BY <1>1, FieldIs
<1>3. Type \in {"int32", "int64", "float", "string"} /\ Rule = "required"
  BY <1>1, <1>2, FieldKinds DEF IsMessage
<1>4. IsStream(s) /\ (s.ok => IsOf(Type, s.val))
  BY <1>1, <1>3, Streams, ReadScalarIs
<1> HIDE DEF s
<1>5. IsFrame(Top)
  BY TopIs DEF DecoderInv
<1>6. /\ DOMAIN f = DOMAIN Top /\ f.msg = Top.msg /\ f.field = Top.field
      /\ f.seen = Seen /\ f.value = [Top.value EXCEPT ![Number] = s.val]
  BY <1>5 DEF IsFrame
<1> HIDE DEF f
<1>7. s.ok => IsOf(Top.msg, [Top.value EXCEPT ![Number] = s.val])
  BY <1>2, <1>3, <1>4, <1>5, RequiredFits DEF IsFrame
<1>8. s.ok => f.seen \subseteq Required(f.msg) /\ IsOf(f.msg, f.value)
  BY <1>2, <1>6, <1>7
<1> QED BY <1>1, <1>4, <1>6, <1>8, GoOnKeeps

LEMMA OpenSubmessageKeeps ==
    ASSUME DecoderInv, stack # <<>>, OpenSubmessage
    PROVE  DecoderInv'
<1> DEFINE size == ReadLength(Tag)
           f == [Top EXCEPT !.left = size.left - size.val, !.seen = Seen]
           sub == Frame(Type, Number, size.val, Entry)
<1>1. IsStream(size) /\ (size.ok => size.val \in Nat)
  BY Streams, ReadLengthIs
<1>2. Known /\ ~ NoRoom /\ IsMessage(Type) /\ status = "reading"
  BY DEF OpenSubmessage, InMessage
<1>3. CASE ~ (size.ok /\ size.left >= size.val)
  <2>1. Refuse(size)
    BY <1>3 DEF OpenSubmessage
  <2> QED BY <1>1, <2>1, RefuseKeeps
<1>4. CASE size.ok /\ size.left >= size.val
  <2>1. /\ inp' = size.inp /\ status' = status /\ got' = got
        /\ stack' = Append(WithTop(f), sub)
    BY <1>4 DEF OpenSubmessage
  <2>2. size.left - size.val \in Nat /\ size.val \in Nat
    BY <1>1, <1>4 DEF IsStream
  <2>3. /\ Number \in DOMAIN Desc[Top.msg] /\ Top.msg \in DOMAIN Desc
        /\ Rule = Desc[Top.msg][Number].rule /\ Type = Desc[Top.msg][Number].type
        /\ Seen \subseteq Required(Top.msg)
    BY <1>2, FieldIs
  <2>4. IsFrame(Top)
    BY TopIs DEF DecoderInv
  <2> HIDE DEF size
  <2>5. /\ IsFrame(f) /\ f.msg = Top.msg /\ f.field = Top.field /\ f.value = Top.value
    BY <2>2, <2>3, <2>4 DEF IsFrame
  <2>6. Type \in DOMAIN Desc
    BY <1>2 DEF IsMessage
  <2>7. IsOf(Type, Entry)
    <3>1. CASE Rule = "required"
      BY <1>2, <2>3, <2>4, <3>1, RequiredIs DEF IsFrame, Entry
    <3>2. CASE Rule # "required"
      BY <2>6, <3>2, ZerosFit DEF Entry
    <3> QED BY <3>1, <3>2
  <2>8. IsFrame(sub) /\ sub.field = Number /\ sub.msg = Type
    BY <2>2, <2>6, <2>7 DEF IsFrame, Frame
  <2>9. Placed(f, sub)
    <3>1. Rule = "repeated" => Len(Top.value[Number]) < MaxCount
      <4>1. ASSUME Rule = "repeated" PROVE Len(Top.value[Number]) < MaxCount
        <5>1. ~ (Len(Top.value[Number]) >= MaxCount)
          BY <1>2, <4>1 DEF NoRoom
        <5>2. Len(Top.value[Number]) \in Nat
          <6>1. IsList(Top.value[Number])
            BY <2>3, <2>4, <4>1, RepeatedIs DEF IsFrame
          <6> QED BY <6>1, ListIs
        <5> QED BY <5>1, <5>2, WidthAssumption
      <4> QED BY <4>1
    <3> QED BY <2>3, <2>5, <2>8, <3>1 DEF Placed
  <2> HIDE DEF f, sub
  <2>10. /\ Nested(WithTop(f)) /\ WithTop(f) # <<>>
         /\ Len(WithTop(f)) = Len(stack) /\ WithTop(f)[Len(stack)] = f
    BY <2>5, WithTopNested DEF DecoderInv
  <2>11. Nested(Append(WithTop(f), sub)) /\ Append(WithTop(f), sub) # <<>>
    BY <2>8, <2>9, <2>10, OpenedNested
  <2>12. Nested(stack') /\ stack' # <<>>
    BY <2>1, <2>11
  <2> QED BY <1>1, <1>2, <2>1, <2>12 DEF DecoderInv, IsStream
<1> QED BY <1>3, <1>4

LEMMA EndMessageKeeps ==
    ASSUME DecoderInv, stack # <<>>, EndMessage
    PROVE  DecoderInv'
<1> DEFINE n == Len(stack)
<1>1. n \in Nat \ {0} /\ IsFrame(Top) /\ Nested(stack)
  BY TopIs DEF DecoderInv
<1>2. status = "reading"
  BY DEF EndMessage
<1>3. CASE ~ Complete
  <2>1. Refuse(TopStream)
    BY <1>3 DEF EndMessage
  <2> QED BY <2>1, Streams, RefuseKeeps
<1>4. CASE Complete /\ n = 1
  <2>1. got' = Append(got, Top.value) /\ stack' = <<>> /\ status' = "listening" /\ inp' = inp
    BY <1>4 DEF EndMessage
  <2>2. IsOf(Root, Top.value)
    BY <1>1, <1>4 DEF Nested, Top, IsFrame
  <2>3. IsList(got) /\ Len(got) \in Nat
    BY ListIs DEF DecoderInv
  <2>4. /\ IsList(got') /\ Len(got') = Len(got) + 1
        /\ \A i \in 1 .. Len(got) : got'[i] = got[i]
        /\ got'[Len(got) + 1] = Top.value
    BY <2>1, <2>3, ListAppend
  <2>5. \A i \in 1 .. Len(got') : IsOf(Root, got'[i])
    <3>1. \A i \in 1 .. Len(got) : IsOf(Root, got[i])
      BY DEF DecoderInv
    <3>2. \A i \in 1 .. Len(got') : i \in 1 .. Len(got) \/ i = Len(got) + 1
      BY <2>3, <2>4
    <3> QED BY <2>2, <2>4, <3>1, <3>2
  <2>6. Nested(<<>>)
    BY DEF Nested, IsList
  <2>7. Nested(stack')
    BY <2>1, <2>6
  <2> QED BY <2>1, <2>4, <2>5, <2>7 DEF DecoderInv
<1>5. CASE Complete /\ n # 1
  <2> DEFINE around == stack[n - 1]
             f == Stored(around, Top)
             outer == SubSeq(stack, 1, n - 2)
  <2>1. stack' = Append(outer, f) /\ inp' = inp /\ status' = status /\ got' = got
    BY <1>5 DEF EndMessage
  <2>2. n \in Nat /\ n >= 2
    <3> HIDE DEF n
    <3>1. n # 1
      BY <1>5
    <3> QED BY <1>1, <3>1
  <2>3. IsFrame(around) /\ Placed(around, Top)
    <3>1. n - 1 \in 1 .. n /\ n \in 2 .. n
      BY <2>2
    <3> QED BY <1>1, <3>1 DEF Nested, Top
  <2>4. IsFrame(f) /\ f.msg = around.msg /\ f.field = around.field
    <3>1. IsOf(Desc[around.msg][Top.field].type, Top.value)
      BY <1>1, <2>3 DEF IsFrame, Placed
    <3>2. CASE Desc[around.msg][Top.field].rule = "repeated"
      <4>1. IsOf(around.msg, [around.value EXCEPT ![Top.field] = Append(@, Top.value)])
        BY <2>3, <3>1, <3>2, RepeatedFits DEF IsFrame, Placed
      <4>2. f = [around EXCEPT !.value[Top.field] = Append(@, Top.value)]
        BY <3>2 DEF Stored
      <4> HIDE DEF f
      <4> QED BY <2>3, <4>1, <4>2 DEF IsFrame
    <3>3. CASE Desc[around.msg][Top.field].rule # "repeated"
      <4>1. Desc[around.msg][Top.field].rule = "required"
        BY <2>3, <3>3, FieldKinds DEF IsFrame, Placed
      <4>2. IsOf(around.msg, [around.value EXCEPT ![Top.field] = Top.value])
        BY <2>3, <3>1, <4>1, RequiredFits DEF IsFrame, Placed
      <4>3. f = [around EXCEPT !.value[Top.field] = Top.value]
        BY <3>3 DEF Stored
      <4> HIDE DEF f
      <4> QED BY <2>3, <4>2, <4>3 DEF IsFrame
    <3> QED BY <3>2, <3>3
  <2> HIDE DEF f
  <2>5. Nested(Append(outer, f)) /\ Append(outer, f) # <<>>
    <3>1. /\ n - 2 \in 0 .. n /\ n - 2 \in Nat
          /\ n # 2 => /\ n - 2 # 0 /\ n - 2 \in 1 .. n - 2
                     /\ n - 1 \in 2 .. n /\ (n - 1) - 1 = n - 2
      <4> HIDE DEF n
      <4> QED BY <2>2
    <3>2. /\ Nested(outer) /\ Len(outer) = n - 2
          /\ \A i \in 1 .. n - 2 : outer[i] = stack[i]
      BY <1>1, <3>1, ClosedNested
    <3>3. CASE n = 2
      <4>1. around.msg = Root
        BY <1>1, <3>3 DEF Nested
      <4>2. outer = <<>>
        BY <3>2, <3>3, NotEmpty DEF Nested
      <4> DEFINE st == Append(outer, f)
      <4>3. IsList(st) /\ Len(st) = 1 /\ st[1] = f
        <5>1. IsList(<<>>) /\ Len(<<>>) = 0
          BY DEF IsList
        <5> QED BY <3>2, <3>3, ListAppend DEF Nested
      <4> HIDE DEF st
      <4>4. st # <<>>
        BY <4>3, NotEmpty
      <4>5. Nested(st)
        BY <2>4, <4>1, <4>3 DEF Nested
      <4> QED BY <4>4, <4>5 DEF st
    <3>4. CASE n # 2
      <4>1. n - 2 # 0 /\ n - 2 \in 1 .. n - 2
        BY <3>1, <3>4
      <4>2. outer # <<>>
        BY <3>2, <4>1, NotEmpty DEF Nested
      <4>3. Placed(stack[n - 2], around)
        <5>1. n - 1 \in 2 .. n /\ (n - 1) - 1 = n - 2
          BY <3>1, <3>4
        <5> QED BY <1>1, <5>1 DEF Nested
      <4>4. outer[Len(outer)] = stack[n - 2]
        BY <3>2, <4>1
      <4>5. Placed(outer[Len(outer)], f)
        BY <2>4, <4>3, <4>4 DEF Placed
      <4> QED BY <2>4, <3>2, <4>2, <4>5, OpenedNested
    <3> QED BY <3>3, <3>4
  <2>6. Nested(stack') /\ stack' # <<>>
    BY <2>1, <2>5
  <2> QED BY <1>2, <2>1, <2>6 DEF DecoderInv
<1> QED BY <1>3, <1>4, <1>5

LEMMA UnwindKeeps ==
    ASSUME DecoderInv, stack # <<>>, Unwind
    PROVE  DecoderInv'
<1> DEFINE n == Len(stack)
           st == Front(stack)
<1>1. n \in Nat \ {0} /\ Nested(stack)
  BY TopIs DEF DecoderInv
<1>2. Drained \in Seq(Byte)
  <2>1. Top.left \in Nat /\ IsStream(TopStream)
    BY TopIs, Streams DEF DecoderInv, IsFrame
  <2>2. IsStream(SkipBytes(TopStream, Top.left))
    BY <2>1, SkipBytesIs
  <2> QED BY <2>2 DEF Drained, IsStream
<1>3. Nested(st) /\ Len(st) = n - 1 /\ (st = <<>> <=> n = 1)
  <2>1. st = SubSeq(stack, 1, n - 1) /\ n - 1 \in 0 .. n
    BY <1>1 DEF Front
  <2>2. Nested(st) /\ Len(st) = n - 1
    BY <1>1, <2>1, ClosedNested
  <2>3. st = <<>> <=> Len(st) = 0
    BY <2>2, NotEmpty DEF Nested
  <2> QED BY <1>1, <2>2, <2>3
<1>4. /\ inp' = Drained /\ stack' = st /\ got' = got /\ status = "unwinding"
      /\ status' = IF n = 1 THEN "refused" ELSE status
  BY DEF Unwind
<1> HIDE DEF n, st
<1>5. Nested(stack') /\ (stack' = <<>> <=> n = 1) /\ inp' \in Seq(Byte)
  BY <1>2, <1>3, <1>4
<1> QED BY <1>4, <1>5 DEF DecoderInv

LEMMA StepKeeps == DecoderInv /\ [Next]_vars => DecoderInv'
<1> SUFFICES ASSUME DecoderInv, [Next]_vars PROVE DecoderInv'
  OBVIOUS
<1>1. status \in {"reading", "unwinding"} => stack # <<>>
  BY DEF DecoderInv
<1>2. CASE Begin
  BY <1>2, BeginKeeps
<1>3. CASE InputEnds
  BY <1>1, <1>3, InputEndsKeeps DEF InputEnds, InMessage
<1>4. CASE BadTag
  BY <1>1, <1>4, Streams, RefuseKeeps DEF BadTag, InMessage
<1>5. CASE SkipUnknown
  BY <1>1, <1>5, SkipUnknownKeeps DEF SkipUnknown, InMessage
<1>6. CASE BadField
  BY <1>1, <1>6, Streams, RefuseKeeps DEF BadField, InMessage
<1>7. CASE ReadField
  BY <1>1, <1>7, ReadFieldKeeps DEF ReadField, InMessage
<1>8. CASE OpenSubmessage
  BY <1>1, <1>8, OpenSubmessageKeeps DEF OpenSubmessage, InMessage
<1>9. CASE EndMessage
  BY <1>1, <1>9, EndMessageKeeps DEF EndMessage
<1>10. CASE Unwind
  BY <1>1, <1>10, UnwindKeeps DEF Unwind
<1>11. CASE UNCHANGED vars
  <2>1. inp' = inp /\ stack' = stack /\ status' = status /\ got' = got
    BY <1>11 DEF vars
  <2> QED BY <2>1 DEF DecoderInv, Nested
<1> QED BY <1>2, <1>3, <1>4, <1>5, <1>6, <1>7, <1>8, <1>9, <1>10, <1>11 DEF Next

LEMMA InitDecoder == Init => DecoderInv
<1> SUFFICES ASSUME Init PROVE DecoderInv
  OBVIOUS
<1>1. inp \in Seq(Byte) /\ stack = <<>> /\ status = "listening" /\ got = <<>>
  BY WireAssumption DEF Init
<1>2. IsList(<<>>) /\ Len(<<>>) = 0
  BY DEF IsList
<1> QED BY <1>1, <1>2 DEF DecoderInv, Nested

LEMMA DecoderAlways == Spec => []DecoderInv
<1>1. Init => DecoderInv
  BY InitDecoder
<1>2. DecoderInv /\ [Next]_vars => DecoderInv'
  BY StepKeeps
<1> QED BY <1>1, <1>2, PTL DEF Spec

\* Whatever bytes arrive, the messages being read are nested as message.proto
\* nests them, and only fields that must be there are counted as seen
\* (pb_decode_inner, pb_dec_submessage).
THEOREM WireTypeCorrect == Spec => []TypeOK
<1>1. DecoderInv => TypeOK
  <2> SUFFICES ASSUME DecoderInv PROVE TypeOK
    OBVIOUS
  <2>1. IsList(stack) /\ DOMAIN stack = 1 .. Len(stack) /\ Len(stack) \in Nat
    BY ListIs DEF DecoderInv, Nested
  <2>2. ASSUME NEW i \in DOMAIN stack
        PROVE  /\ stack[i].left \in Nat
               /\ stack[i].seen \subseteq Required(stack[i].msg)
               /\ i > 1 => Desc[stack[i - 1].msg][stack[i].field].type = stack[i].msg
    <3>1. IsFrame(stack[i])
      BY <2>1 DEF DecoderInv, Nested
    <3>2. ASSUME i > 1 PROVE Placed(stack[i - 1], stack[i])
      <4>1. i \in 2 .. Len(stack)
        BY <2>1, <3>2
      <4> QED BY <4>1 DEF DecoderInv, Nested
    <3> QED BY <3>1, <3>2 DEF IsFrame, Placed
  <2> QED BY <2>2 DEF TypeOK, DecoderInv, Nested
<1> QED BY <1>1, DecoderAlways, PTL

\* Whatever bytes arrive, and wherever they break off, the decoder never counts
\* more entries than an array of a struct has, and never keeps a string that
\* leaves no room for its terminator (pb_dec_string, decode_static_field).
THEOREM DecodedFits == Spec => []FitsTheStruct
<1>1. DecoderInv => FitsTheStruct
  <2> SUFFICES ASSUME DecoderInv PROVE FitsTheStruct
    OBVIOUS
  <2>1. ASSUME NEW i \in DOMAIN got PROVE Fits(Root, got[i])
    <3>1. IsOf(Root, got[i])
      BY ListIs DEF DecoderInv
    <3> QED BY <3>1, ShapeFits, WireAssumption
  <2>2. ASSUME NEW i \in DOMAIN stack PROVE Fits(stack[i].msg, stack[i].value)
    <3>1. IsFrame(stack[i])
      BY ListIs DEF DecoderInv, Nested
    <3> QED BY <3>1, ShapeFits DEF IsFrame
  <2> QED BY <2>1, <2>2 DEF FitsTheStruct
<1> QED BY <1>1, DecoderAlways, PTL

----------------------------------------------------------------------------
(* What a stream loses comes from the input *)

\* What is left of the input behind its first k bytes.
After(bytes, k) == SubSeq(bytes, k + 1, Len(bytes))

LEMMA AfterIs ==
    ASSUME NEW s \in Seq(Byte), NEW k \in Nat, k <= Len(s)
    PROVE  /\ After(s, k) \in Seq(Byte) /\ Len(After(s, k)) = Len(s) - k
           /\ \A i \in 1 .. Len(s) - k : After(s, k)[i] = s[k + i]
<1>1. SubSeq(s, k + 1, Len(s)) \in Seq(Byte) /\ Len(SubSeq(s, k + 1, Len(s))) = Len(s) - k
  OBVIOUS
<1>2. \A i \in 1 .. Len(s) - k : SubSeq(s, k + 1, Len(s))[i] = s[k + i]
  OBVIOUS
<1> QED BY <1>1, <1>2 DEF After

LEMMA AfterNothing ==
    ASSUME NEW s \in Seq(Byte)
    PROVE  After(s, 0) = s
<1>1. /\ After(s, 0) \in Seq(Byte) /\ Len(After(s, 0)) = Len(s)
      /\ \A i \in 1 .. Len(s) : After(s, 0)[i] = s[i]
  BY AfterIs
<1> QED BY <1>1, SeqEqual

LEMMA AfterAfter ==
    ASSUME NEW s \in Seq(Byte), NEW k \in Nat, NEW j \in Nat, k + j <= Len(s)
    PROVE  After(After(s, k), j) = After(s, k + j)
<1> DEFINE a == After(s, k)
           l == After(a, j)
           r == After(s, k + j)
           n == Len(s)
<1>1. n \in Nat /\ k <= n /\ j <= n - k /\ k + j \in Nat /\ n - k \in Nat
  OBVIOUS
<1>2. /\ a \in Seq(Byte) /\ Len(a) = n - k
      /\ \A i \in 1 .. n - k : a[i] = s[k + i]
  BY <1>1, AfterIs
<1> HIDE DEF a
<1>3. /\ l \in Seq(Byte) /\ Len(l) = (n - k) - j
      /\ \A i \in 1 .. (n - k) - j : l[i] = a[j + i]
  <2>1. j <= Len(a)
    BY <1>1, <1>2
  <2>2. /\ l \in Seq(Byte) /\ Len(l) = Len(a) - j
        /\ \A i \in 1 .. Len(a) - j : l[i] = a[j + i]
    BY <1>2, <2>1, AfterIs
  <2> QED BY <1>2, <2>2
<1>4. /\ r \in Seq(Byte) /\ Len(r) = n - (k + j)
      /\ \A i \in 1 .. n - (k + j) : r[i] = s[(k + j) + i]
  BY <1>1, AfterIs
<1> HIDE DEF l, r, n
<1>5. n - (k + j) = (n - k) - j
  BY <1>1
<1>6. ASSUME NEW i \in 1 .. Len(l) PROVE l[i] = r[i]
  <2>1. i \in 1 .. n - (k + j) /\ j + i \in 1 .. n - k /\ k + (j + i) = (k + j) + i
    BY <1>1, <1>3
  <2> QED BY <1>2, <1>3, <1>4, <1>5, <2>1
<1>7. l = r
  BY <1>3, <1>4, <1>5, <1>6, SeqEqual
<1> QED BY <1>7 DEF l, r, a

\* A stream ends before the input does.
Fed(s) == s.left <= Len(s.inp)

\* From s to r the same bytes were taken from the stream and from the input.
Moved(s, r) ==
    \E k \in Nat : /\ k <= s.left /\ k <= Len(s.inp)
                   /\ r.inp = After(s.inp, k) /\ r.left = s.left - k

LEMMA MovedIs ==
    ASSUME NEW s, IsStream(s), Fed(s), NEW r, IsStream(r), Moved(s, r)
    PROVE  Fed(r)
<1>1. PICK k \in Nat : /\ k <= s.left /\ k <= Len(s.inp)
                       /\ r.inp = After(s.inp, k) /\ r.left = s.left - k
  BY DEF Moved
<1>2. Len(r.inp) = Len(s.inp) - k /\ Len(s.inp) \in Nat /\ s.left \in Nat
  BY <1>1, AfterIs DEF IsStream
<1> QED BY <1>1, <1>2 DEF Fed

LEMMA MovedOn ==
    ASSUME NEW s, IsStream(s), NEW r, Moved(s, r), NEW t, Moved(r, t)
    PROVE  Moved(s, t)
<1>1. PICK k \in Nat : /\ k <= s.left /\ k <= Len(s.inp)
                       /\ r.inp = After(s.inp, k) /\ r.left = s.left - k
  BY DEF Moved
<1>2. PICK j \in Nat : /\ j <= r.left /\ j <= Len(r.inp)
                       /\ t.inp = After(r.inp, j) /\ t.left = r.left - j
  BY DEF Moved
<1>3. s.inp \in Seq(Byte) /\ Len(s.inp) \in Nat /\ s.left \in Nat /\ Len(r.inp) = Len(s.inp) - k
  BY <1>1, AfterIs DEF IsStream
<1>4. k + j \in Nat /\ k + j <= s.left /\ k + j <= Len(s.inp) /\ t.left = s.left - (k + j)
  BY <1>1, <1>2, <1>3
<1>5. t.inp = After(s.inp, k + j)
  BY <1>1, <1>2, <1>3, <1>4, AfterAfter
<1> QED BY <1>4, <1>5 DEF Moved

LEMMA Unmoved ==
    ASSUME NEW s, IsStream(s), NEW r, r.inp = s.inp, r.left = s.left
    PROVE  Moved(s, r)
<1>1. s.left \in Nat /\ Len(s.inp) \in Nat /\ After(s.inp, 0) = s.inp
  BY AfterNothing DEF IsStream
<1>2. 0 \in Nat /\ 0 <= s.left /\ 0 <= Len(s.inp) /\ s.left = s.left - 0
  BY <1>1
<1> QED BY <1>1, <1>2 DEF Moved

LEMMA FailedMoves == ASSUME NEW s, IsStream(s) PROVE Moved(s, Failed(s))
<1>1. Failed(s).inp = s.inp /\ Failed(s).left = s.left
  BY DEF Failed, IsStream
<1> QED BY <1>1, Unmoved

LEMMA PastMoves ==
    ASSUME NEW s, IsStream(s), NEW n \in Nat, n <= s.left, n <= Len(s.inp), NEW v
    PROVE  Moved(s, Past(s, n, v))
<1>1. Past(s, n, v).inp = After(s.inp, n) /\ Past(s, n, v).left = s.left - n
  BY DEF Past, IsStream, After
<1> QED BY <1>1 DEF Moved

LEMMA ReadBytesMoves ==
    ASSUME NEW s, IsStream(s), Fed(s), NEW n \in Nat
    PROVE  /\ Moved(s, ReadBytes(s, n))
           /\ n <= s.left => ReadBytes(s, n).left = s.left - n
<1>1. Len(s.inp) \in Nat /\ s.left \in Nat /\ s.left <= Len(s.inp)
  BY DEF IsStream, Fed
<1>2. CASE n = 0
  <2>1. ReadBytes(s, n) = [s EXCEPT !.val = <<>>]
    BY <1>2 DEF ReadBytes
  <2>2. [s EXCEPT !.val = <<>>].inp = s.inp /\ [s EXCEPT !.val = <<>>].left = s.left
    BY DEF IsStream
  <2>3. Moved(s, ReadBytes(s, n))
    BY <2>1, <2>2, Unmoved
  <2>4. s.left = s.left - 0
    BY <1>1
  <2> QED BY <1>2, <2>1, <2>2, <2>3, <2>4
<1>3. CASE n # 0 /\ s.left < n
  <2>1. ReadBytes(s, n) = Failed(s)
    BY <1>3 DEF ReadBytes
  <2> QED BY <1>1, <1>3, <2>1, FailedMoves
<1>4. CASE n # 0 /\ ~ (s.left < n)
  <2> DEFINE v == SubSeq(s.inp, 1, n)
  <2>1. n <= s.left /\ n <= Len(s.inp) /\ ~ (Len(s.inp) < n)
    BY <1>1, <1>4
  <2>2. ReadBytes(s, n) = Past(s, n, v)
    BY <1>4, <2>1 DEF ReadBytes
  <2> HIDE DEF v
  <2> QED BY <2>1, <2>2, PastMoves, PastIs
<1> QED BY <1>2, <1>3, <1>4

\* What is skipped of a stream that has as much is skipped to the end.
LEMMA SkipBytesMoves ==
    ASSUME NEW s, IsStream(s), Fed(s), NEW n \in Nat
    PROVE  /\ Moved(s, SkipBytes(s, n))
           /\ n <= s.left => SkipBytes(s, n).left = s.left - n
<1> DEFINE there == Least(n, Least(s.left, Len(s.inp)))
           chunks == SkipChunk * (there \div SkipChunk)
           rest == Least(SkipChunk, n - chunks)
           r == Past(s, chunks, <<>>)
<1>1. s.left \in Nat /\ Len(s.inp) \in Nat /\ s.left <= Len(s.inp)
  BY DEF IsStream, Fed
<1>2. there \in Nat /\ there <= n /\ there <= s.left /\ (n <= s.left => there = n)
  BY <1>1 DEF Least
<1>3. SkipBytes(s, n) = ReadBytes(r, rest)
  BY DEF SkipBytes
<1> HIDE DEF there
<1>4. chunks \in Nat /\ chunks <= there /\ there - chunks < SkipChunk
  BY <1>2, ChunksFit, WireAssumption
<1> HIDE DEF chunks
<1>5. /\ n - chunks \in Nat /\ rest \in Nat
      /\ there = n => rest = n - chunks
  BY <1>2, <1>4, WireAssumption DEF Least
<1>6. IsStream(r) /\ Moved(s, r) /\ r.left = s.left - chunks
  <2>1. chunks <= s.left /\ chunks <= Len(s.inp)
    BY <1>1, <1>2, <1>4
  <2> QED BY <1>4, <2>1, PastIs, PastMoves
<1>7. Fed(r)
  BY <1>6, MovedIs
<1> HIDE DEF r, rest
<1>8. Moved(r, ReadBytes(r, rest)) /\ (rest <= r.left => ReadBytes(r, rest).left = r.left - rest)
  BY <1>5, <1>6, <1>7, ReadBytesMoves
<1>9. Moved(s, SkipBytes(s, n))
  BY <1>3, <1>6, <1>8, MovedOn
<1>10. n <= s.left => SkipBytes(s, n).left = s.left - n
  <2> SUFFICES ASSUME n <= s.left PROVE ReadBytes(r, rest).left = s.left - n
    BY <1>3
  <2>1. rest = n - chunks
    BY <1>2, <1>5
  <2>2. rest <= r.left /\ r.left - rest = s.left - n
    BY <1>1, <1>4, <1>6, <2>1
  <2> QED BY <1>8, <2>2
<1> QED BY <1>9, <1>10

LEMMA ReadVarintMoves ==
    ASSUME NEW s, IsStream(s), Fed(s), NEW bits
    PROVE  Moved(s, ReadVarint(s, bits))
<1> DEFINE m == Least(s.left, Len(s.inp))
           here == SubSeq(s.inp, 1, m)
           ends == {i \in DOMAIN here : here[i] < 128 \/ TooBig(here, i, bits)}
           last == CHOOSE i \in ends : \A j \in ends : i <= j
           none == [Failed(s) EXCEPT !.inp = SubSeq(@, Len(here) + 1, Len(@)), !.left = 0]
<1>1. s.left \in Nat /\ Len(s.inp) \in Nat /\ s.inp \in Seq(Byte) /\ s.left <= Len(s.inp)
  BY DEF IsStream, Fed
<1>2. m = s.left
  BY <1>1 DEF Least
<1>3. ReadVarint(s, bits) =
        IF ends = {} THEN none
        ELSE IF TooBig(here, last, bits) THEN Failed(Past(s, last, 0))
        ELSE Past(s, last, Grouped(SubSeq(here, 1, last), bits))
  BY DEF ReadVarint
<1> HIDE DEF m
<1>4. Len(here) = s.left /\ DOMAIN here = 1 .. s.left
  BY <1>1, <1>2
<1>5. ends \in SUBSET (1 .. s.left)
  BY <1>4
<1> HIDE DEF here, ends
<1>6. CASE ends = {}
  <2>1. none.inp = After(s.inp, s.left) /\ none.left = 0
    BY <1>4 DEF Failed, IsStream, After
  <2>2. s.left - s.left = 0
    BY <1>1
  <2>3. Moved(s, none)
    BY <1>1, <2>1, <2>2 DEF Moved
  <2> QED BY <1>3, <1>6, <2>3
<1>7. CASE ends # {}
  <2>1. ends \in SUBSET Nat
    BY <1>1, <1>5
  <2>2. last \in ends
    BY <1>7, <2>1, LeastOf
  <2> HIDE DEF last
  <2>3. last \in Nat /\ last <= s.left /\ last <= Len(s.inp)
    BY <1>1, <1>5, <2>2
  <2>4. ASSUME NEW v PROVE IsStream(Past(s, last, v)) /\ Moved(s, Past(s, last, v))
    BY <2>3, PastIs, PastMoves
  <2>5. Moved(s, Failed(Past(s, last, 0)))
    <3>1. Moved(Past(s, last, 0), Failed(Past(s, last, 0)))
      BY <2>4, FailedMoves
    <3> QED BY <2>4, <3>1, MovedOn
  <2> QED BY <1>3, <1>7, <2>4, <2>5
<1> QED BY <1>6, <1>7

LEMMA ReadLengthMoves ==
    ASSUME NEW s, IsStream(s), Fed(s)
    PROVE  /\ Moved(s, ReadLength(s)) /\ Fed(ReadLength(s)) /\ IsStream(ReadLength(s))
           /\ ReadLength(s).ok => ReadLength(s).val \in Nat
<1>1. Moved(s, ReadLength(s)) /\ IsStream(ReadLength(s))
  BY ReadVarintMoves, ReadLengthIs DEF ReadLength
<1> QED BY <1>1, MovedIs, ReadLengthIs

LEMMA ReadScalarMoves ==
    ASSUME NEW s, IsStream(s), Fed(s), NEW type,
           type \in {"int32", "int64", "float", "string"}
    PROVE  Moved(s, ReadScalar(s, type))
<1>1. ASSUME NEW bits PROVE Moved(s, ReadNumber(s, bits))
  <2> DEFINE r == ReadVarint(s, LongBits)
  <2>1. IsStream(r) /\ Moved(s, r)
    BY ReadVarintIs, ReadVarintMoves
  <2>2. ReadNumber(s, bits) = IF r.ok THEN [r EXCEPT !.val = Signed(@ % 2 ^ bits, bits)] ELSE r
    BY DEF ReadNumber
  <2> HIDE DEF r
  <2>3. ASSUME NEW v PROVE Moved(s, [r EXCEPT !.val = v])
    <3>1. [r EXCEPT !.val = v].inp = r.inp /\ [r EXCEPT !.val = v].left = r.left
      BY <2>1 DEF IsStream
    <3> QED BY <2>1, <3>1 DEF Moved
  <2> QED BY <2>1, <2>2, <2>3
<1>2. CASE type \in {"int32", "int64"}
  <2>1. \E bits : ReadScalar(s, type) = ReadNumber(s, bits)
    BY <1>2 DEF ReadScalar
  <2> QED BY <1>1, <2>1
<1>3. CASE type = "float"
  <2>1. ReadScalar(s, type) = ReadBytes(s, 4)
    BY <1>3 DEF ReadScalar
  <2> QED BY <2>1, ReadBytesMoves
<1>4. CASE type = "string"
  <2> DEFINE size == ReadLength(s)
  <2>1. IsStream(size) /\ Moved(s, size) /\ Fed(size) /\ (size.ok => size.val \in Nat)
    BY ReadLengthMoves
  <2>2. ReadScalar(s, type) =
          IF ~ size.ok \/ TooLong(size.val) THEN Failed(size) ELSE ReadBytes(size, size.val)
    BY <1>4 DEF ReadScalar, ReadString
  <2> HIDE DEF size
  <2>3. Moved(size, ReadScalar(s, type))
    BY <2>1, <2>2, FailedMoves, ReadBytesMoves
  <2> QED BY <2>1, <2>3, MovedOn
<1> QED BY <1>2, <1>3, <1>4

LEMMA SkipFieldMoves ==
    ASSUME NEW s, IsStream(s), Fed(s), NEW wire
    PROVE  Moved(s, SkipField(s, wire))
<1> DEFINE size == ReadLength(s)
<1>1. IsStream(size) /\ Moved(s, size) /\ Fed(size) /\ (size.ok => size.val \in Nat)
  BY ReadLengthMoves
<1> HIDE DEF size
<1>2. CASE wire = 0
  <2>1. SkipField(s, wire) = ReadVarint(s, 0)
    BY <1>2 DEF SkipField
  <2> QED BY <2>1, ReadVarintMoves
<1>3. CASE wire = 1
  <2>1. SkipField(s, wire) = SkipBytes(s, 8)
    BY <1>3 DEF SkipField
  <2> QED BY <2>1, SkipBytesMoves
<1>4. CASE wire = 2
  <2>1. SkipField(s, wire) = IF size.ok THEN SkipBytes(size, size.val) ELSE size
    BY <1>4 DEF SkipField, size
  <2>2. size.ok => Moved(size, SkipBytes(size, size.val))
    BY <1>1, SkipBytesMoves
  <2> QED BY <1>1, <2>1, <2>2, MovedOn
<1>5. CASE wire = 5
  <2>1. SkipField(s, wire) = SkipBytes(s, 4)
    BY <1>5 DEF SkipField
  <2> QED BY <2>1, SkipBytesMoves
<1>6. CASE wire \notin {0, 1, 2, 5}
  <2>1. SkipField(s, wire) = Failed(s)
    BY <1>6 DEF SkipField
  <2> QED BY <2>1, FailedMoves
<1> QED BY <1>2, <1>3, <1>4, <1>5, <1>6

----------------------------------------------------------------------------
(* The bytes that the messages being read still own *)

\* The sum grows by what each message owns.
Sums(st, f) == f[0] = 0 /\ \A i \in 1 .. Len(st) : f[i] = f[i - 1] + st[i].left

LEMMA OwnedIs ==
    ASSUME NEW st, IsList(st)
    PROVE  \E f : Sums(st, f) /\ Owned(st) = f[Len(st)]
<1> DEFINE n == Len(st)
           At(f, i) == IF i = 0 THEN 0 ELSE f[i - 1] + st[i].left
           Is(f, k) == f = [i \in 0 .. k |-> At(f, i)]
           All == CHOOSE f : Is(f, n)
<1>1. n \in Nat
  BY ListIs
<1>2. \A k \in 0 .. n : \E f : Is(f, k)
  <2> DEFINE T == {k \in 0 .. n : ~ \E f : Is(f, k)}
  <2> HIDE DEF Is, n
  <2> SUFFICES ASSUME T # {} PROVE FALSE
    OBVIOUS
  <2>1. T \in SUBSET Nat /\ \A j \in 0 .. n : j \notin T => \E f : Is(f, j)
    BY <1>1
  <2>2. PICK k \in T : \A j \in T : k <= j
    BY <2>1, LeastOf
  <2>3. k \in 0 .. n /\ ~ \E f : Is(f, k)
    OBVIOUS
  <2> HIDE DEF T
  <2>4. k # 0
    <3> DEFINE zero == [i \in 0 .. 0 |-> 0]
    <3>1. Is(zero, 0)
      BY DEF Is
    <3> QED BY <2>3, <3>1
  <2>5. k - 1 \in 0 .. n /\ k - 1 \notin T
    BY <1>1, <2>2, <2>3, <2>4
  <2>6. PICK f : Is(f, k - 1)
    BY <2>1, <2>5
  <2> DEFINE next == [i \in 0 .. k |-> IF i = k THEN At(f, k) ELSE f[i]]
  <2>7. \A i \in 0 .. k : next[i] = At(next, i)
    <3> SUFFICES ASSUME NEW i \in 0 .. k PROVE next[i] = At(next, i)
      OBVIOUS
    <3>1. i # 0 => i - 1 \in 0 .. k - 1 /\ i - 1 # k /\ next[i - 1] = f[i - 1]
      BY <2>3
    <3>2. At(next, i) = At(f, i)
      BY <3>1
    <3>3. CASE i = k
      BY <3>2, <3>3
    <3>4. CASE i # k
      <4>1. i \in 0 .. k - 1
        BY <2>3, <3>4
      <4>2. f[i] = At(f, i)
        BY <2>6, <4>1 DEF Is
      <4> QED BY <3>2, <3>4, <4>2
    <3> QED BY <3>3, <3>4
  <2>8. Is(next, k)
    BY <2>7 DEF Is
  <2> QED BY <2>3, <2>8
<1>3. Is(All, n)
  <2> HIDE DEF Is
  <2>1. n \in 0 .. n
    BY <1>1
  <2>2. \E f : Is(f, n)
    BY <1>2, <2>1
  <2> QED BY <2>2
<1>4. Owned(st) = All[n]
  BY DEF Owned
<1> HIDE DEF All
<1>5. \A i \in 0 .. n : All[i] = At(All, i)
  BY <1>3
<1>6. 0 \in 0 .. n /\ \A i \in 1 .. n : i \in 0 .. n /\ i # 0
  BY <1>1
<1>7. Sums(st, All)
  BY <1>5, <1>6 DEF Sums
<1> QED BY <1>4, <1>7

\* What one more message owns comes on top.
LEMMA OneMoreOwns ==
    ASSUME NEW a, IsList(a), NEW b, IsList(b), Len(b) = Len(a) + 1,
           \A i \in 1 .. Len(a) : b[i] = a[i]
    PROVE  Owned(b) = Owned(a) + b[Len(b)].left
<1> DEFINE n == Len(a)
<1>1. n \in Nat /\ Len(b) = n + 1
  BY ListIs
<1>2. PICK f : Sums(a, f) /\ Owned(a) = f[n]
  BY OwnedIs
<1>3. PICK g : Sums(b, g) /\ Owned(b) = g[n + 1]
  BY <1>1, OwnedIs
<1>4. f[0] = 0 /\ \A i \in 1 .. n : f[i] = f[i - 1] + a[i].left
  BY <1>2 DEF Sums
<1>5. g[0] = 0 /\ \A i \in 1 .. n + 1 : g[i] = g[i - 1] + b[i].left
  BY <1>1, <1>3 DEF Sums
<1>6. \A i \in 1 .. n : b[i] = a[i]
  OBVIOUS
<1> HIDE DEF n
<1>7. \A i \in 0 .. n : f[i] = g[i]
  <2> DEFINE T == {i \in 0 .. n : f[i] # g[i]}
  <2> SUFFICES ASSUME T # {} PROVE FALSE
    OBVIOUS
  <2>1. T \in SUBSET Nat /\ \A j \in 0 .. n : j \notin T => f[j] = g[j]
    BY <1>1
  <2>2. PICK k \in T : \A j \in T : k <= j
    BY <2>1, LeastOf
  <2>3. k \in 0 .. n /\ f[k] # g[k]
    OBVIOUS
  <2> HIDE DEF T
  <2>4. k # 0
    BY <1>4, <1>5, <2>3
  <2>5. k - 1 \in 0 .. n /\ k - 1 \notin T /\ k \in 1 .. n /\ k \in 1 .. n + 1
    BY <1>1, <2>2, <2>3, <2>4
  <2>6. f[k - 1] = g[k - 1] /\ b[k] = a[k]
    BY <1>6, <2>1, <2>5
  <2>7. f[k] = f[k - 1] + a[k].left /\ g[k] = g[k - 1] + b[k].left
    BY <1>4, <1>5, <2>5
  <2> QED BY <2>3, <2>6, <2>7
<1>8. n \in 0 .. n /\ n + 1 \in 1 .. n + 1 /\ (n + 1) - 1 = n
  BY <1>1
<1>9. g[n + 1] = g[n] + b[n + 1].left
  BY <1>5, <1>8
<1> QED BY <1>1, <1>2, <1>3, <1>7, <1>8, <1>9

LEMMA OwnedNat ==
    ASSUME NEW st, IsList(st), \A i \in 1 .. Len(st) : st[i].left \in Nat
    PROVE  Owned(st) \in Nat
<1> DEFINE n == Len(st)
<1>1. n \in Nat
  BY ListIs
<1>2. PICK f : Sums(st, f) /\ Owned(st) = f[n]
  BY OwnedIs
<1>3. f[0] = 0 /\ \A i \in 1 .. n : f[i] = f[i - 1] + st[i].left /\ st[i].left \in Nat
  BY <1>2 DEF Sums
<1> HIDE DEF n
<1> DEFINE T == {i \in 0 .. n : f[i] \notin Nat}
<1>4. T = {}
  <2> SUFFICES ASSUME T # {} PROVE FALSE
    OBVIOUS
  <2>1. T \in SUBSET Nat /\ \A j \in 0 .. n : j \notin T => f[j] \in Nat
    BY <1>1
  <2>2. PICK k \in T : \A j \in T : k <= j
    BY <2>1, LeastOf
  <2>3. k \in 0 .. n /\ f[k] \notin Nat
    OBVIOUS
  <2> HIDE DEF T
  <2>4. k # 0
    BY <1>3, <2>3
  <2>5. k - 1 \in 0 .. n /\ k - 1 \notin T /\ k \in 1 .. n
    BY <1>1, <2>2, <2>3, <2>4
  <2>6. f[k] = f[k - 1] + st[k].left /\ st[k].left \in Nat /\ f[k - 1] \in Nat
    BY <1>3, <2>1, <2>5
  <2> QED BY <2>3, <2>6
<1>5. n \in 0 .. n
  BY <1>1
<1> QED BY <1>2, <1>4, <1>5 DEF n

LEMMA NothingOwned == Owned(<<>>) = 0
<1>1. IsList(<<>>) /\ Len(<<>>) = 0
  BY DEF IsList
<1> QED BY <1>1, OwnedIs DEF Sums

----------------------------------------------------------------------------
(* The connection stays at the bounds of the messages *)

\* Behind the bytes read and those still owned a message ends.
InStep(p) == p \in Nat /\ p <= Len(input.bytes) /\ inp = After(input.bytes, p)
SyncInv ==
    /\ input \in Inputs
    /\ input.whole => \E p \in Nat : InStep(p) /\ p + Owned(stack) \in input.ends \cup {0}

LEMMA WholeIs ==
    ASSUME SyncInv, input.whole
    PROVE  /\ Delimits(input) /\ input.bytes \in Seq(Byte) /\ Len(input.bytes) \in Nat
           /\ \A n \in input.ends \cup {0} : n \in Nat /\ n <= Len(input.bytes)
<1>1. input \in Inputs /\ input.bytes \in Seq(Byte)
  BY WireAssumption DEF SyncInv
<1>2. Delimits(input) /\ Len(input.bytes) \in Nat
  BY <1>1, FramingAssumption
<1> DEFINE n == Len(input.bytes)
           ends == input.ends
<1>3. ends \subseteq 0 .. n
  BY <1>2 DEF Delimits
<1>4. n \in Nat
  BY <1>2
<1> HIDE DEF n, ends
<1>5. \A e \in ends \cup {0} : e \in Nat /\ e <= n
  BY <1>3, <1>4
<1> QED BY <1>1, <1>2, <1>5 DEF n, ends

LEMMA TopOwns ==
    ASSUME DecoderInv, stack # <<>>
    PROVE  /\ Owned(stack) = Owned(Front(stack)) + Top.left
           /\ Owned(Front(stack)) \in Nat /\ Top.left \in Nat
           /\ \A f : Owned(WithTop(f)) = Owned(Front(stack)) + f.left
           /\ IsList(Front(stack)) /\ \A f : IsList(WithTop(f))
<1> DEFINE n == Len(stack)
<1>1. n \in Nat \ {0} /\ IsFrame(Top) /\ Nested(stack) /\ IsList(stack)
  BY TopIs DEF DecoderInv, Nested
<1>2. Front(stack) = SubSeq(stack, 1, n - 1) /\ n - 1 \in 0 .. n
  BY <1>1 DEF Front
<1>3. /\ IsList(Front(stack)) /\ Len(Front(stack)) = n - 1
      /\ \A i \in 1 .. n - 1 : Front(stack)[i] = stack[i]
  <2> DEFINE k == n - 1
             st == stack
  <2>1. IsList(st) /\ k \in 0 .. Len(st)
    BY <1>1, <1>2
  <2> HIDE DEF k, st
  <2>2. /\ IsList(SubSeq(st, 1, k)) /\ Len(SubSeq(st, 1, k)) = k
        /\ \A i \in 1 .. k : SubSeq(st, 1, k)[i] = st[i]
    BY <2>1, ListSub
  <2> QED BY <1>2, <2>2 DEF k, st
<1>4. Owned(stack) = Owned(Front(stack)) + Top.left
  <2>1. Len(stack) = Len(Front(stack)) + 1
    BY <1>1, <1>3
  <2> QED BY <1>1, <1>3, <2>1, OneMoreOwns DEF Top
<1>5. Owned(Front(stack)) \in Nat
  <2>1. \A i \in 1 .. n - 1 : IsFrame(stack[i])
    BY <1>1 DEF Nested
  <2>2. \A i \in 1 .. n - 1 : Front(stack)[i].left \in Nat
    BY <1>3, <2>1 DEF IsFrame
  <2> QED BY <1>3, <2>2, OwnedNat
<1>6. ASSUME NEW f PROVE Owned(WithTop(f)) = Owned(Front(stack)) + f.left /\ IsList(WithTop(f))
  <2> DEFINE to == Append(Front(stack), f)
  <2>1. /\ IsList(to) /\ Len(to) = Len(Front(stack)) + 1
        /\ \A i \in 1 .. Len(Front(stack)) : to[i] = Front(stack)[i]
        /\ to[Len(Front(stack)) + 1] = f
    BY <1>3, ListAppend
  <2> HIDE DEF to
  <2>2. Owned(to) = Owned(Front(stack)) + to[Len(to)].left
    BY <1>3, <2>1, OneMoreOwns
  <2> QED BY <2>1, <2>2 DEF WithTop, to
<1> QED BY <1>1, <1>3, <1>4, <1>5, <1>6 DEF IsFrame

\* All that the messages being read own is still to come.
LEMMA TopFed ==
    ASSUME DecoderInv, SyncInv, input.whole, stack # <<>>
    PROVE  Fed(TopStream) /\ TopStream.inp = inp /\ TopStream.left = Top.left
<1>1. PICK p \in Nat : InStep(p) /\ p + Owned(stack) \in input.ends \cup {0}
  BY DEF SyncInv
<1>2. Len(inp) = Len(input.bytes) - p /\ Len(input.bytes) \in Nat
  BY <1>1, WholeIs, AfterIs DEF InStep
<1>3. p + Owned(stack) <= Len(input.bytes)
  BY <1>1, WholeIs
<1>4. Top.left <= Len(inp)
  BY <1>1, <1>2, <1>3, TopOwns
<1> QED BY <1>4 DEF Fed, TopStream, Stream, StreamOf

\* A step that takes from the input what it takes from the innermost message.
LEMMA MovesInStep ==
    ASSUME DecoderInv, SyncInv, stack # <<>>, input' = input,
           NEW s, input.whole => /\ IsStream(s) /\ Moved(TopStream, s) /\ inp' = s.inp
                                 /\ Owned(stack') = Owned(Front(stack)) + s.left
    PROVE  SyncInv'
<1> SUFFICES ASSUME input.whole
             PROVE  \E p \in Nat : InStep(p)' /\ p + Owned(stack') \in input.ends \cup {0}
  BY DEF SyncInv
<1>1. PICK p \in Nat : InStep(p) /\ p + Owned(stack) \in input.ends \cup {0}
  BY DEF SyncInv
<1>2. PICK k \in Nat : /\ k <= Top.left /\ k <= Len(inp)
                       /\ s.inp = After(inp, k) /\ s.left = Top.left - k
  BY TopFed DEF Moved
<1>3. inp = After(input.bytes, p) /\ p <= Len(input.bytes) /\ input.bytes \in Seq(Byte)
      /\ Len(input.bytes) \in Nat
  BY <1>1, WholeIs DEF InStep
<1>4. Len(inp) = Len(input.bytes) - p
  BY <1>3, AfterIs
<1>5. p + k \in Nat /\ p + k <= Len(input.bytes)
  BY <1>2, <1>3, <1>4
<1>6. inp' = After(input.bytes, p + k)
  BY <1>2, <1>3, <1>5, AfterAfter
<1>7. (p + k) + Owned(stack') = p + Owned(stack)
  <2> DEFINE o == Owned(Front(stack))
             left == Top.left
  <2>1. o \in Nat /\ left \in Nat /\ Owned(stack) = o + left /\ Owned(stack') = o + (left - k)
    BY <1>2, TopOwns
  <2> HIDE DEF o, left
  <2> QED BY <2>1
<1>8. InStep(p + k)'
  BY <1>5, <1>6 DEF InStep
<1> QED BY <1>1, <1>5, <1>7, <1>8

LEMMA RefuseInStep ==
    ASSUME DecoderInv, SyncInv, stack # <<>>, NEW s, IsStream(s), Refuse(s),
           input.whole => Moved(TopStream, s)
    PROVE  SyncInv'
<1> DEFINE f == [Top EXCEPT !.left = s.left]
<1>1. stack' = WithTop(f) /\ inp' = s.inp /\ input' = input
  BY DEF Refuse
<1>2. f.left = s.left
  BY TopIs DEF DecoderInv, IsFrame
<1> HIDE DEF f
<1>3. Owned(stack') = Owned(Front(stack)) + s.left
  BY <1>1, <1>2, TopOwns
<1> QED BY <1>1, <1>3, MovesInStep

LEMMA GoOnInStep ==
    ASSUME DecoderInv, SyncInv, stack # <<>>, NEW s, IsStream(s), NEW f, GoOn(s, f),
           "left" \in DOMAIN f, input.whole => Moved(TopStream, s)
    PROVE  SyncInv'
<1>1. CASE ~ s.ok
  BY <1>1, RefuseInStep DEF GoOn
<1>2. CASE s.ok
  <2> DEFINE g == [f EXCEPT !.left = s.left]
  <2>1. stack' = WithTop(g) /\ inp' = s.inp /\ input' = input
    BY <1>2 DEF GoOn
  <2>2. g.left = s.left
    OBVIOUS
  <2> HIDE DEF g
  <2>3. Owned(stack') = Owned(Front(stack)) + s.left
    BY <2>1, <2>2, TopOwns
  <2> QED BY <2>1, <2>3, MovesInStep
<1> QED BY <1>1, <1>2

LEMMA TagMoves ==
    ASSUME DecoderInv, SyncInv, stack # <<>>
    PROVE  /\ IsStream(Tag) /\ (Tag.ok => Tag.val \in Nat)
           /\ input.whole => Moved(TopStream, Tag) /\ Fed(Tag)
BY Streams, TopFed, ReadLengthMoves DEF Tag

\* The length of a message is taken from the input byte by byte.
LEMMA AnnouncedMoves ==
    ASSUME NEW bytes \in Seq(Byte)
    PROVE  \E k \in Nat : k <= Len(bytes) /\ Announced(bytes).inp = After(bytes, k)
<1> DEFINE s == StreamOf(bytes, 2 ^ IntBits)
           m == Least(s.left, Len(s.inp))
           here == SubSeq(s.inp, 1, m)
           ends == {i \in DOMAIN here : here[i] < 128 \/ TooBig(here, i, IntBits)}
           last == CHOOSE i \in ends : \A j \in ends : i <= j
           none == [Failed(s) EXCEPT !.inp = SubSeq(@, Len(here) + 1, Len(@)), !.left = 0]
<1>1. IsStream(s) /\ s.inp = bytes
  BY IntRange DEF IsStream, StreamOf
<1> HIDE DEF s
<1>2. s.left \in Nat /\ Len(s.inp) \in Nat
  BY <1>1 DEF IsStream
<1>3. m \in Nat /\ m <= Len(s.inp) /\ m <= s.left
  BY <1>2, LeastIs
<1>4. Announced(bytes) =
        IF ends = {} THEN none
        ELSE IF TooBig(here, last, IntBits) THEN Failed(Past(s, last, 0))
        ELSE Past(s, last, Grouped(SubSeq(here, 1, last), IntBits))
  BY DEF Announced, ReadLength, ReadVarint, s
<1> HIDE DEF m
<1>5. Len(here) = m /\ DOMAIN here = 1 .. m
  BY <1>1, <1>3
<1>6. ends \in SUBSET (1 .. m)
  BY <1>5
<1> HIDE DEF here, ends
<1>7. CASE ends = {}
  <2>1. none.inp = After(bytes, m)
    BY <1>1, <1>5 DEF Failed, IsStream, After
  <2> QED BY <1>1, <1>3, <1>4, <1>7, <2>1
<1>8. CASE ends # {}
  <2>1. ends \in SUBSET Nat
    BY <1>3, <1>6
  <2>2. last \in ends
    BY <1>8, <2>1, LeastOf
  <2> HIDE DEF last
  <2>3. last \in Nat /\ last <= Len(bytes)
    BY <1>1, <1>2, <1>3, <1>6, <2>2
  <2>4. \A v : Past(s, last, v).inp = After(bytes, last)
    BY <1>1 DEF Past, IsStream, After
  <2>5. Failed(Past(s, last, 0)).inp = After(bytes, last)
    BY <1>1, <2>4 DEF Failed, Past, IsStream
  <2> QED BY <1>4, <1>8, <2>3, <2>4, <2>5
<1> QED BY <1>7, <1>8

\* Nothing is announced at the end of the input.
LEMMA NothingAnnounced ==
    ASSUME NEW bytes \in Seq(Byte), Len(bytes) = 0
    PROVE  ~ Announced(bytes).ok
<1> DEFINE s == StreamOf(bytes, 2 ^ IntBits)
           here == SubSeq(s.inp, 1, Least(s.left, Len(s.inp)))
           ends == {i \in DOMAIN here : here[i] < 128 \/ TooBig(here, i, IntBits)}
<1>1. IsStream(s) /\ s.inp = bytes /\ s.left \in Nat \ {0}
  BY IntRange DEF IsStream, StreamOf
<1>2. Least(s.left, Len(s.inp)) = 0
  BY <1>1 DEF Least
<1>3. DOMAIN here = {}
  BY <1>1, <1>2
<1> HIDE DEF s, here
<1>4. ends = {}
  BY <1>3
<1> HIDE DEF ends
<1>5. Announced(bytes) = [Failed(s) EXCEPT !.inp = SubSeq(@, Len(here) + 1, Len(@)), !.left = 0]
  BY <1>4 DEF Announced, ReadLength, ReadVarint, s, here, ends
<1>6. ~ [Failed(s) EXCEPT !.inp = SubSeq(@, Len(here) + 1, Len(@)), !.left = 0].ok
  BY <1>1 DEF Failed, IsStream
<1> QED BY <1>5, <1>6

LEMMA BeginInStep ==
    ASSUME DecoderInv, SyncInv, Begin
    PROVE  SyncInv'
<1> DEFINE size == Announced(inp)
<1>1. /\ inp' = size.inp /\ input' = input /\ stack = <<>>
      /\ size.ok => stack' = <<Frame(Root, 0, size.val, Zeros[Root])>>
      /\ ~ size.ok => stack' = stack
  BY DEF Begin, DecoderInv
<1> SUFFICES ASSUME input.whole
             PROVE  \E p \in Nat : InStep(p)' /\ p + Owned(stack') \in input.ends \cup {0}
  BY <1>1 DEF SyncInv
<1>2. PICK p \in Nat : InStep(p) /\ p + Owned(stack) \in input.ends \cup {0}
  BY DEF SyncInv
<1>3. /\ inp = After(input.bytes, p) /\ p <= Len(input.bytes) /\ input.bytes \in Seq(Byte)
      /\ Len(input.bytes) \in Nat /\ p \in input.ends \cup {0} /\ Len(inp) = Len(input.bytes) - p
      /\ inp \in Seq(Byte)
  BY <1>1, <1>2, NothingOwned, WholeIs, AfterIs DEF InStep
<1>4. IsStream(size) /\ (size.ok => size.val \in Nat)
  BY <1>3, StreamIs, ReadLengthIs, IntRange DEF Announced, Stream
<1>5. \E k \in Nat : k <= Len(inp) /\ size.inp = After(inp, k)
  BY <1>3, AnnouncedMoves
<1>6. PICK k \in Nat : k <= Len(inp) /\ size.inp = After(inp, k)
  BY <1>5
<1> HIDE DEF size
<1>7. p + k \in Nat /\ p + k <= Len(input.bytes) /\ InStep(p + k)'
  <2>1. p + k \in Nat /\ p + k <= Len(input.bytes)
    BY <1>3, <1>6
  <2>2. inp' = After(input.bytes, p + k)
    BY <1>1, <1>3, <1>6, <2>1, AfterAfter
  <2> QED BY <1>1, <2>1, <2>2 DEF InStep
<1>8. CASE p = Len(input.bytes)
  <2>1. k = 0 /\ Len(inp) = 0
    BY <1>3, <1>6, <1>8
  <2>2. ~ size.ok
    BY <1>3, <2>1, NothingAnnounced DEF size
  <2>3. stack' = <<>> /\ p + k = p
    BY <1>1, <2>1, <2>2
  <2> QED BY <1>2, <1>3, <1>7, <2>3, NothingOwned
<1>9. CASE p < Len(input.bytes)
  <2>1. size.ok /\ Len(input.bytes) - Len(size.inp) + size.val \in input.ends
    <3>1. inp = SubSeq(input.bytes, p + 1, Len(input.bytes))
      BY <1>3 DEF After
    <3> QED BY <1>3, <1>9, <3>1, WholeIs DEF Delimits, size
  <2>2. Len(size.inp) = Len(inp) - k
    BY <1>3, <1>6, AfterIs
  <2>3. Len(input.bytes) - Len(size.inp) = p + k
    <3> DEFINE n == Len(input.bytes)
               m == Len(inp)
               l == Len(size.inp)
    <3>1. n \in Nat /\ m = n - p /\ l = m - k
      BY <1>3, <2>2
    <3> HIDE DEF n, m, l
    <3>2. n - l = p + k
      BY <3>1
    <3> QED BY <3>2 DEF n, l
  <2>4. Owned(stack') = size.val
    <3> DEFINE f == Frame(Root, 0, size.val, Zeros[Root])
               st == <<f>>
    <3>1. IsList(<<>>) /\ Len(<<>>) = 0 /\ IsList(st) /\ Len(st) = 1 /\ st[1] = f
      BY DEF IsList
    <3>2. f.left = size.val
      BY DEF Frame
    <3>3. stack' = st
      BY <1>1, <2>1
    <3> HIDE DEF f, st
    <3>4. Owned(st) = Owned(<<>>) + st[1].left
      <4> DEFINE none == <<>>
      <4>1. /\ IsList(none) /\ IsList(st) /\ Len(st) = Len(none) + 1
            /\ \A i \in 1 .. Len(none) : st[i] = none[i]
        BY <3>1
      <4> HIDE DEF none
      <4>2. Owned(st) = Owned(none) + st[Len(st)].left
        BY <4>1, OneMoreOwns
      <4> QED BY <3>1, <4>2 DEF none
    <3> QED BY <1>4, <2>1, <3>1, <3>2, <3>3, <3>4, NothingOwned
  <2> QED BY <1>7, <2>1, <2>3, <2>4
<1> QED BY <1>3, <1>8, <1>9

LEMMA InputEndsInStep ==
    ASSUME DecoderInv, SyncInv, stack # <<>>, InputEnds
    PROVE  SyncInv'
<1>1. input' = input /\ Top.left > 0 /\ Len(inp) = 0
  BY DEF InputEnds, InMessage
<1>2. ~ input.whole
  <2> SUFFICES ASSUME input.whole PROVE FALSE
    OBVIOUS
  <2>1. Top.left <= 0
    BY <1>1, TopFed DEF Fed
  <2> QED BY <1>1, <2>1, TopOwns
<1> QED BY <1>1, <1>2 DEF SyncInv

LEMMA BadTagInStep ==
    ASSUME DecoderInv, SyncInv, stack # <<>>, BadTag \/ BadField
    PROVE  SyncInv'
BY TagMoves, RefuseInStep DEF BadTag, BadField

LEMMA SkipUnknownInStep ==
    ASSUME DecoderInv, SyncInv, stack # <<>>, SkipUnknown
    PROVE  SyncInv'
<1> DEFINE s == SkipField(Tag, Wire)
<1>1. GoOn(s, Top) /\ IsStream(Tag)
  BY TagMoves DEF SkipUnknown
<1>2. IsStream(s)
  BY <1>1, SkipFieldIs
<1>3. input.whole => Moved(TopStream, s)
  <2> SUFFICES ASSUME input.whole PROVE Moved(TopStream, s)
    OBVIOUS
  <2>1. Moved(Tag, s) /\ Moved(TopStream, Tag) /\ IsStream(TopStream)
    BY <1>1, TagMoves, SkipFieldMoves, Streams
  <2> HIDE DEF s
  <2> QED BY <2>1, MovedOn
<1>4. "left" \in DOMAIN Top
  BY TopIs DEF DecoderInv, IsFrame
<1> HIDE DEF s
<1> QED BY <1>1, <1>2, <1>3, <1>4, GoOnInStep

LEMMA ReadFieldInStep ==
    ASSUME DecoderInv, SyncInv, stack # <<>>, ReadField
    PROVE  SyncInv'
<1> DEFINE s == ReadScalar(Tag, Type)
           f == [Top EXCEPT !.seen = Seen, !.value[Number] = s.val]
<1>1. Known /\ Tag.ok /\ ~ IsMessage(Type) /\ GoOn(s, f) /\ IsStream(Tag)
  BY TagMoves DEF ReadField, Known
<1>2. /\ Number \in DOMAIN Desc[Top.msg] /\ Top.msg \in DOMAIN Desc
      /\ Type = Desc[Top.msg][Number].type
  BY <1>1, FieldIs
<1>3. Type \in {"int32", "int64", "float", "string"}
  BY <1>1, <1>2, FieldKinds DEF IsMessage
<1>4. IsStream(s)
  BY <1>1, <1>3, ReadScalarIs
<1>5. input.whole => Moved(TopStream, s)
  <2> SUFFICES ASSUME input.whole PROVE Moved(TopStream, s)
    OBVIOUS
  <2>1. Moved(Tag, s) /\ Moved(TopStream, Tag) /\ IsStream(TopStream)
    BY <1>1, <1>3, TagMoves, ReadScalarMoves, Streams
  <2> HIDE DEF s
  <2> QED BY <2>1, MovedOn
<1>6. "left" \in DOMAIN f
  BY TopIs DEF DecoderInv, IsFrame
<1> HIDE DEF s, f
<1> QED BY <1>1, <1>4, <1>5, <1>6, GoOnInStep

LEMMA OpenSubmessageInStep ==
    ASSUME DecoderInv, SyncInv, stack # <<>>, OpenSubmessage
    PROVE  SyncInv'
<1> DEFINE size == ReadLength(Tag)
           f == [Top EXCEPT !.left = size.left - size.val, !.seen = Seen]
           sub == Frame(Type, Number, size.val, Entry)
<1>1. IsStream(size) /\ (size.ok => size.val \in Nat) /\ IsStream(TopStream) /\ IsStream(Tag)
  BY Streams, ReadLengthIs
<1>2. input.whole => Moved(TopStream, size)
  <2> SUFFICES ASSUME input.whole PROVE Moved(TopStream, size)
    OBVIOUS
  <2>1. Moved(TopStream, Tag) /\ Moved(Tag, size)
    BY <1>1, TagMoves, ReadLengthMoves
  <2> HIDE DEF size
  <2> QED BY <1>1, <2>1, MovedOn
<1>3. CASE ~ (size.ok /\ size.left >= size.val)
  <2>1. Refuse(size)
    BY <1>3 DEF OpenSubmessage
  <2> HIDE DEF size
  <2> QED BY <1>1, <1>2, <2>1, RefuseInStep
<1>4. CASE size.ok /\ size.left >= size.val
  <2>1. inp' = size.inp /\ input' = input /\ stack' = Append(WithTop(f), sub)
    BY <1>4 DEF OpenSubmessage
  <2>2. f.left = size.left - size.val /\ sub.left = size.val
    BY TopIs DEF DecoderInv, IsFrame, Frame
  <2>3. size.left \in Nat /\ size.val \in Nat
    BY <1>1, <1>4 DEF IsStream
  <2> HIDE DEF f, sub, size
  <2>4. IsList(WithTop(f)) /\ Owned(WithTop(f)) = Owned(Front(stack)) + (size.left - size.val)
    BY <2>2, TopOwns
  <2>5. Owned(stack') = Owned(WithTop(f)) + size.val
    <3> DEFINE a == WithTop(f)
               b == Append(a, sub)
    <3>1. IsList(a)
      BY <2>4
    <3> HIDE DEF a
    <3>2. /\ IsList(b) /\ Len(b) = Len(a) + 1 /\ b[Len(a) + 1] = sub
          /\ \A i \in 1 .. Len(a) : b[i] = a[i]
      BY <3>1, ListAppend
    <3> HIDE DEF b
    <3>3. Owned(b) = Owned(a) + b[Len(b)].left
      BY <3>1, <3>2, OneMoreOwns
    <3> QED BY <2>1, <2>2, <3>2, <3>3 DEF a, b
  <2>6. Owned(stack') = Owned(Front(stack)) + size.left
    <3> DEFINE o == Owned(Front(stack))
               w == Owned(WithTop(f))
    <3>1. o \in Nat /\ w = o + (size.left - size.val) /\ Owned(stack') = w + size.val
      BY <2>4, <2>5, TopOwns
    <3> HIDE DEF o, w
    <3>2. Owned(stack') = o + size.left
      BY <2>3, <3>1
    <3> QED BY <3>2 DEF o
  <2> QED BY <1>1, <1>2, <2>1, <2>6, MovesInStep
<1> QED BY <1>3, <1>4

LEMMA EndMessageInStep ==
    ASSUME DecoderInv, SyncInv, stack # <<>>, EndMessage
    PROVE  SyncInv'
<1> DEFINE n == Len(stack)
<1>1. n \in Nat \ {0} /\ IsFrame(Top) /\ Nested(stack) /\ IsStream(TopStream)
  BY TopIs, Streams DEF DecoderInv
<1>2. Moved(TopStream, TopStream) /\ TopStream.left = 0 /\ TopStream.inp = inp
  <2>1. Moved(TopStream, TopStream)
    BY <1>1, Unmoved
  <2> QED BY <2>1 DEF EndMessage, TopStream, Stream, StreamOf
<1>3. CASE ~ Complete
  <2>1. Refuse(TopStream)
    BY <1>3 DEF EndMessage
  <2> QED BY <1>1, <1>2, <2>1, RefuseInStep
<1>4. CASE Complete /\ n = 1
  <2>1. stack' = <<>> /\ inp' = inp /\ input' = input
    BY <1>4 DEF EndMessage
  <2>2. Front(stack) = <<>>
    BY <1>1, <1>4 DEF Front
  <2>3. Owned(stack') = Owned(Front(stack)) + 0
    BY <2>1, <2>2, NothingOwned
  <2> QED BY <1>1, <1>2, <2>1, <2>3, MovesInStep
<1>5. CASE Complete /\ n # 1
  <2> DEFINE around == stack[n - 1]
             f == Stored(around, Top)
             outer == SubSeq(stack, 1, n - 2)
             to == Append(outer, f)
             front == Front(stack)
  <2>1. stack' = to /\ inp' = inp /\ input' = input
    BY <1>5 DEF EndMessage
  <2>2. n \in Nat /\ n >= 2 /\ n - 2 \in 0 .. n /\ n - 1 \in 0 .. n /\ n - 1 \in 1 .. n
        /\ n - 1 = (n - 2) + 1 /\ n - 2 \in Nat
    <3> HIDE DEF n
    <3>1. n # 1
      BY <1>5
    <3> QED BY <1>1, <3>1
  <2>3. IsFrame(around)
    BY <1>1, <2>2 DEF Nested
  <2>4. f.left = around.left
    BY <2>3 DEF Stored, IsFrame
  <2> HIDE DEF f
  <2>5. /\ IsList(outer) /\ Len(outer) = n - 2
        /\ \A i \in 1 .. n - 2 : outer[i] = stack[i]
    BY <1>1, <2>2, ListSub DEF Nested
  <2>6. /\ IsList(front) /\ Len(front) = n - 1
        /\ \A i \in 1 .. n - 1 : front[i] = stack[i]
    BY <1>1, <2>2, ListSub DEF Nested, Front
  <2> HIDE DEF outer, front
  <2>7. /\ IsList(to) /\ Len(to) = Len(outer) + 1 /\ to[Len(outer) + 1] = f
        /\ \A i \in 1 .. Len(outer) : to[i] = outer[i]
    BY <2>5, ListAppend
  <2> HIDE DEF to
  <2>8. Owned(to) = Owned(outer) + f.left
    BY <2>5, <2>7, OneMoreOwns
  <2>9. Owned(front) = Owned(outer) + around.left
    <3>1. Len(front) = Len(outer) + 1 /\ front[Len(front)] = around
      BY <2>2, <2>5, <2>6
    <3>2. \A i \in 1 .. Len(outer) : front[i] = outer[i]
      <4> HIDE DEF n
      <4>1. \A i \in 1 .. n - 2 : i \in 1 .. n - 1
        BY <2>2
      <4> QED BY <2>5, <2>6, <4>1
    <3> QED BY <2>5, <2>6, <3>1, <3>2, OneMoreOwns
  <2>10. Owned(stack') = Owned(Front(stack)) + TopStream.left
    <3>1. Owned(to) = Owned(front)
      BY <2>4, <2>8, <2>9
    <3>2. Owned(front) \in Nat
      BY TopOwns DEF front
    <3> QED BY <1>2, <2>1, <3>1, <3>2 DEF front
  <2> QED BY <1>1, <1>2, <2>1, <2>10, MovesInStep
<1> QED BY <1>3, <1>4, <1>5

\* A message that is refused is read to its end.
LEMMA UnwindInStep ==
    ASSUME DecoderInv, SyncInv, stack # <<>>, Unwind
    PROVE  SyncInv'
<1> DEFINE s == SkipBytes(TopStream, Top.left)
<1>1. inp' = s.inp /\ stack' = Front(stack) /\ input' = input
  BY DEF Unwind, Drained
<1>2. Top.left \in Nat /\ IsStream(TopStream) /\ Owned(Front(stack)) \in Nat
  BY TopOwns, Streams
<1>3. IsStream(s)
  BY <1>2, SkipBytesIs
<1>4. input.whole => Moved(TopStream, s) /\ s.left = 0
  <2> SUFFICES ASSUME input.whole PROVE Moved(TopStream, s) /\ s.left = 0
    OBVIOUS
  <2>1. Fed(TopStream) /\ TopStream.left = Top.left
    BY TopFed
  <2>2. Moved(TopStream, s) /\ (Top.left <= TopStream.left => s.left = TopStream.left - Top.left)
    BY <1>2, <2>1, SkipBytesMoves
  <2> QED BY <1>2, <2>1, <2>2
<1> HIDE DEF s
<1>5. input.whole => Owned(stack') = Owned(Front(stack)) + s.left
  BY <1>1, <1>2, <1>4
<1> QED BY <1>1, <1>3, <1>4, <1>5, MovesInStep

LEMMA StepInStep == DecoderInv /\ SyncInv /\ [Next]_vars => SyncInv'
<1> SUFFICES ASSUME DecoderInv, SyncInv, [Next]_vars PROVE SyncInv'
  OBVIOUS
<1>1. status \in {"reading", "unwinding"} => stack # <<>>
  BY DEF DecoderInv
<1>2. CASE Begin
  BY <1>2, BeginInStep
<1>3. CASE InputEnds
  BY <1>1, <1>3, InputEndsInStep DEF InputEnds, InMessage
<1>4. CASE BadTag \/ BadField
  BY <1>1, <1>4, BadTagInStep DEF BadTag, BadField, InMessage
<1>5. CASE SkipUnknown
  BY <1>1, <1>5, SkipUnknownInStep DEF SkipUnknown, InMessage
<1>6. CASE ReadField
  BY <1>1, <1>6, ReadFieldInStep DEF ReadField, InMessage
<1>7. CASE OpenSubmessage
  BY <1>1, <1>7, OpenSubmessageInStep DEF OpenSubmessage, InMessage
<1>8. CASE EndMessage
  BY <1>1, <1>8, EndMessageInStep DEF EndMessage
<1>9. CASE Unwind
  BY <1>1, <1>9, UnwindInStep DEF Unwind
<1>10. CASE UNCHANGED vars
  <2>1. inp' = inp /\ stack' = stack /\ input' = input
    BY <1>10 DEF vars
  <2> QED BY <2>1 DEF SyncInv, InStep
<1> QED BY <1>2, <1>3, <1>4, <1>5, <1>6, <1>7, <1>8, <1>9, <1>10 DEF Next

\* Whatever is in the messages, once each of them comes behind its length: the
\* bytes read and those that the open streams own end where a message ends, so
\* that after a message, accepted or refused however deep inside it, the
\* connection is at the first byte of the next (pb_close_string_substream).
THEOREM MessagesStayApart == Spec => []FramesMeetTheEnd
<1>1. DecoderInv /\ SyncInv => FramesMeetTheEnd
  <2> SUFFICES ASSUME SyncInv, input.whole
               PROVE  Len(input.bytes) - Len(inp) + Owned(stack) \in input.ends \cup {0}
    BY DEF FramesMeetTheEnd
  <2>1. PICK p \in Nat : InStep(p) /\ p + Owned(stack) \in input.ends \cup {0}
    BY DEF SyncInv
  <2>2. Len(inp) = Len(input.bytes) - p /\ Len(input.bytes) \in Nat /\ p <= Len(input.bytes)
    BY <2>1, WholeIs, AfterIs DEF InStep
  <2>3. Len(input.bytes) - Len(inp) = p
    BY <2>2
  <2> QED BY <2>1, <2>3
<1>2. Init => SyncInv
  <2> SUFFICES ASSUME Init PROVE SyncInv
    OBVIOUS
  <2>1. input \in Inputs /\ inp = input.bytes /\ stack = <<>> /\ inp \in Seq(Byte)
    BY WireAssumption DEF Init
  <2>2. InStep(0)
    BY <2>1, AfterNothing DEF InStep
  <2> QED BY <2>1, <2>2, NothingOwned DEF SyncInv
<1>3. DecoderInv /\ SyncInv /\ [Next]_vars => SyncInv'
  BY StepInStep
<1> QED BY <1>1, <1>2, <1>3, DecoderAlways, PTL DEF Spec

=============================================================================
