--------------------------- MODULE Session_proofs ---------------------------
(* Proofs about Session for statements and answers of every length, packets  *)
(* of every size and connections of every capacity.                          *)
EXTENDS Session, SequenceTheorems, NaturalsInduction, WellFoundedInduction, TLAPS

----------------------------------------------------------------------------
(* Sequences on their way *)

\* What is taken from the head of one sequence and put at the end of the one
\* before it leaves both together as they were.
LEMMA HeadMovesOver ==
    ASSUME NEW S, NEW a \in Seq(S), NEW b \in Seq(S), b # <<>>
    PROVE  Append(a, Head(b)) \o Tail(b) = a \o b
<1> DEFINE l == Append(a, Head(b)) \o Tail(b)
           r == a \o b
<1>1. /\ Len(a) \in Nat /\ Len(b) \in Nat \ {0} /\ Head(b) = b[1]
      /\ Head(b) \in S /\ Tail(b) \in Seq(S) /\ Len(Tail(b)) = Len(b) - 1
      /\ \A i \in 1 .. Len(b) - 1 : Tail(b)[i] = b[i + 1]
  OBVIOUS
<1>2. /\ Append(a, Head(b)) \in Seq(S) /\ Len(Append(a, Head(b))) = Len(a) + 1
      /\ \A i \in 1 .. Len(a) : Append(a, Head(b))[i] = a[i]
      /\ Append(a, Head(b))[Len(a) + 1] = Head(b)
  BY <1>1
<1>3. l \in Seq(S) /\ r \in Seq(S) /\ Len(l) = Len(a) + Len(b) /\ Len(r) = Len(a) + Len(b)
  BY <1>1, <1>2
<1>4. ASSUME NEW i \in 1 .. Len(l) PROVE l[i] = r[i]
  <2>1. l[i] = IF i <= Len(a) + 1 THEN Append(a, Head(b))[i] ELSE Tail(b)[i - (Len(a) + 1)]
    BY <1>1, <1>2, <1>3, <1>4, ConcatProperties
  <2>2. r[i] = IF i <= Len(a) THEN a[i] ELSE b[i - Len(a)]
    BY <1>1, <1>3, <1>4, ConcatProperties
  <2> QED BY <1>1, <1>2, <1>3, <1>4, <2>1, <2>2
<1> HIDE DEF l, r
<1>5. l = r
  BY <1>3, <1>4, SeqEqual
<1> QED BY <1>5 DEF l, r

LEMMA TailMovesOver ==
    ASSUME NEW S, NEW a \in Seq(S), NEW b \in Seq(S), NEW c \in Seq(S), c # <<>>
    PROVE  (a \o Append(b, Head(c))) \o Tail(c) = (a \o b) \o c
<1> DEFINE m == Append(b, Head(c))
           t == Tail(c)
<1>1. m \in Seq(S) /\ t \in Seq(S)
  BY HeadTailProperties, AppendProperties
<1>2. m \o t = b \o c
  BY HeadMovesOver
<1> HIDE DEF m, t
<1>3. (a \o m) \o t = a \o (m \o t)
  BY SMTT(30), <1>1, ConcatAssociative
<1>4. (a \o b) \o c = a \o (b \o c)
  BY ConcatAssociative
<1>5. (a \o m) \o t = (a \o b) \o c
  BY <1>2, <1>3, <1>4
<1> QED BY <1>5 DEF m, t

\* A message is its head and its parts: the head says how many follow.
Bits == [parts : Nat] \cup Parts

LEMMA MessageIs ==
    ASSUME NEW q \in Queries, q \in Encodable
    PROVE  /\ q \in Seq(Parts) /\ Len(q) \in Nat
           /\ Message(q) \in Seq(Bits) /\ Len(Message(q)) = Len(q) + 1
           /\ Message(q) # <<>> /\ Message(q)[1].parts = Len(q)
           /\ \A n \in 1 .. Len(q) : Message(q)[n + 1] = q[n]
           /\ Tail(Message(q)) = q
<1> DEFINE h == [parts |-> Len(q)]
<1>1. q \in Seq(Parts) /\ Len(q) \in Nat
  BY SequenceAssumption
<1>2. h \in Bits /\ q \in Seq(Bits)
  <2>1. h \in [parts : Nat] /\ Parts \subseteq Bits
    BY <1>1 DEF Bits
  <2> QED BY <1>1, <2>1, SeqMonotonic DEF Bits
<1> HIDE DEF h
<1>3. <<h>> \in Seq(Bits) /\ Len(<<h>>) = 1 /\ <<h>>[1] = h
  BY <1>2
<1> DEFINE m == <<h>> \o q
<1>4. m = Message(q)
  BY DEF h, Message
<1>5. /\ m \in Seq(Bits) /\ Len(m) = Len(q) + 1 /\ m[1] = h
      /\ \A n \in 1 .. Len(q) : m[n + 1] = q[n]
  <2>1. \A i \in 1 .. 1 + Len(q) : m[i] = IF i <= 1 THEN <<h>>[i] ELSE q[i - 1]
    BY <1>2, <1>3, ConcatProperties
  <2> QED BY <1>1, <1>2, <1>3, <2>1, ConcatProperties
<1> HIDE DEF m
<1>6. m # <<>> /\ Tail(m) = q
  <2>1. /\ m # <<>> /\ Tail(m) \in Seq(Bits) /\ Len(Tail(m)) = Len(q)
        /\ \A n \in 1 .. Len(q) : Tail(m)[n] = m[n + 1]
    BY <1>1, <1>5
  <2> QED BY <1>2, <1>5, <2>1, SeqEqual
<1>7. h.parts = Len(q)
  BY DEF h
<1> QED BY <1>1, <1>4, <1>5, <1>6, <1>7

\* Nothing is sent of a statement that cannot be encoded.
LEMMA NoMessage == ASSUME NEW q, q \notin Encodable PROVE Message(q) = <<>>
BY DEF Message

----------------------------------------------------------------------------
(* The invariant *)

Record == [number : Nat, parts : Seq(Parts), text : Texts]
Packet == [text : Seq(Characters), last : BOOLEAN]

Types ==
    /\ client \in {"ready", "sending", "waiting", "gone"}
    /\ server \in {"receiving", "answering", "ended"}
    /\ asked \in Seq(Queries)
    /\ performed \in Seq(Record)
    /\ shown \in Seq([number : Nat, text : Seq(Characters)])
    /\ unsent \in Seq(Bits) /\ taken \in Seq(Bits) /\ toServer \in Seq(Bits)
    /\ res \in Seq(Characters) /\ printed \in Seq(Characters)
    /\ toClient \in Seq(Packet)

\* The statement last asked was performed.
Done == performed # <<>> /\ Last(performed).number = Len(asked)

\* Statements are performed, and answers shown, in the order asked.
Numbers ==
    /\ performed # <<>> =>
          Last(performed).number <= Len(asked) /\ Len(performed) <= Last(performed).number
    /\ shown # <<>> => performed # <<>> /\ Last(shown).number <= Last(performed).number
    /\ Len(shown) <= Len(performed)
    /\ shown # <<>> /\ Last(shown).number < Last(performed).number => Len(shown) < Len(performed)
    /\ client \in {"sending", "waiting"} =>
          asked # <<>> /\ (shown # <<>> => Last(shown).number < Len(asked))
    /\ client = "sending" => unsent # <<>> /\ printed = <<>> /\ ~ Done

\* What the server has taken, what is on the connection and what is unsent are
\* the message of the statement last asked, until it is performed.
OnTheWay ==
    server # "ended" =>
        /\ Done \/ asked = <<>> => taken = <<>> /\ toServer = <<>>
        /\ ~ Done /\ asked # <<>> =>
              /\ (taken \o toServer) \o unsent = Message(Last(asked))
              /\ Len(taken) <= Len(Last(asked))
        /\ server = "answering" => Done
        /\ server = "receiving" => res = <<>>
        /\ client = "ready" => (asked = <<>> \/ Done) /\ server = "receiving"

Bounds ==
    /\ Len(toServer) <= Room /\ Len(toClient) <= Room
    /\ Len(taken) <= 1 \/ Len(taken) <= taken[1].parts

\* Where the i-th packet on the connection ends in the answer, if it is not
\* the last one of it.
EndOf(i) == Len(printed) + i * Piece

\* What was printed, what is on the connection and what the server still has
\* to send are the answer, piece by piece; the last packet alone is marked.
PieceOf(t, i) ==
    LET p == toClient[i]
    IN  /\ EndOf(i - 1) <= Len(t)
        /\ p.text = SubSeq(t, EndOf(i - 1) + 1, IF p.last THEN Len(t) ELSE EndOf(i))
        /\ p.last => i = Len(toClient) /\ server # "answering"
        /\ ~ p.last => EndOf(i) <= Len(t)
AnswerOf(t) ==
    /\ Len(printed) <= Len(t) /\ printed = SubSeq(t, 1, Len(printed))
    /\ \A i \in 1 .. Len(toClient) : PieceOf(t, i)
    /\ server = "answering" =>
          /\ EndOf(Len(toClient)) <= Len(t)
          /\ res = SubSeq(t, EndOf(Len(toClient)) + 1, Len(t))
Pieces ==
    /\ client \in {"ready", "sending"} => toClient = <<>>
    /\ client = "waiting" /\ ~ Done => toClient = <<>> /\ printed = <<>>
    /\ client = "waiting" /\ Done => AnswerOf(Last(performed).text)

SessionInv == Types /\ Numbers /\ OnTheWay /\ Bounds /\ Pieces

\* Facts about the last elements of the histories.
LEMMA LastOnes ==
    ASSUME Types
    PROVE  /\ Len(asked) \in Nat /\ Len(performed) \in Nat /\ Len(shown) \in Nat
           /\ asked # <<>> <=> Len(asked) > 0
           /\ asked # <<>> => Last(asked) \in Queries
           /\ performed # <<>> => Last(performed) \in Record /\ Last(performed).number \in Nat
                                    /\ Last(performed).text \in Seq(Characters)
           /\ shown # <<>> => Last(shown).number \in Nat
<1>1. performed # <<>> => Last(performed) \in Record
  BY DEF Types, Last
<1>2. performed # <<>> => Last(performed).number \in Nat /\ Last(performed).text \in Texts
  BY <1>1 DEF Record
<1>3. shown # <<>> => Last(shown) \in [number : Nat, text : Seq(Characters)]
  <2> DEFINE S == [number : Nat, text : Seq(Characters)]
  <2>1. shown \in Seq(S)
    BY DEF Types
  <2> HIDE DEF S
  <2>2. shown # <<>> => shown[Len(shown)] \in S
    BY <2>1
  <2> QED BY <2>2 DEF Last, S
<1>4. asked # <<>> => Last(asked) \in Queries
  <2>1. asked \in Seq(Queries)
    BY DEF Types
  <2> QED BY <2>1 DEF Last
<1>5. performed # <<>> => Last(performed).text \in Seq(Characters)
  BY <1>2, SequenceAssumption
<1>6. shown # <<>> => Last(shown).number \in Nat
  BY <1>3
<1>7. /\ Len(asked) \in Nat /\ Len(performed) \in Nat /\ Len(shown) \in Nat
      /\ asked # <<>> <=> Len(asked) > 0
  <2>1. asked \in Seq(Queries) /\ performed \in Seq(Record) /\ shown \in Seq([number : Nat, text : Seq(Characters)])
    BY DEF Types
  <2> QED BY <2>1, LenProperties, EmptySeq
<1> QED BY <1>1, <1>2, <1>4, <1>5, <1>6, <1>7

LEMMA AppendIs ==
    ASSUME NEW S, NEW s \in Seq(S), NEW e \in S
    PROVE  /\ Append(s, e) \in Seq(S) /\ Append(s, e) # <<>>
           /\ Len(Append(s, e)) = Len(s) + 1 /\ Last(Append(s, e)) = e
BY AppendProperties DEF Last

LEMMA InitOK == Init => SessionInv
<1> SUFFICES ASSUME Init PROVE SessionInv
  OBVIOUS
<1>1. Types
  BY DEF Init, Types
<1>2. Numbers /\ OnTheWay
  BY DEF Init, Numbers, OnTheWay, Done
<1>3. Bounds /\ Pieces
  BY SizeAssumption DEF Init, Bounds, Pieces
<1> QED BY <1>1, <1>2, <1>3 DEF SessionInv

----------------------------------------------------------------------------
(* The client's steps *)

LEMMA AskKeeps == ASSUME SessionInv, NEW q \in Queries, Ask(q) PROVE SessionInv'
<1> USE DEF SessionInv
<1>1. /\ client = "ready" /\ client' = (IF q \in Encodable THEN "sending" ELSE "waiting")
      /\ unsent' = Message(q) /\ printed' = <<>>
      /\ asked' = Append(asked, q)
      /\ UNCHANGED <<toServer, toClient, server, taken, res, performed, shown>>
  BY DEF Ask, connection, serverVars
<1>2. /\ asked' \in Seq(Queries) /\ asked' # <<>> /\ Len(asked') = Len(asked) + 1
      /\ Last(asked') = q
  <2>1. \A s \in Seq(Queries), e \in Queries :
           /\ Append(s, e) \in Seq(Queries) /\ Append(s, e) # <<>>
           /\ Len(Append(s, e)) = Len(s) + 1 /\ Last(Append(s, e)) = e
    BY AppendIs
  <2>2. asked \in Seq(Queries)
    BY DEF Types
  <2> QED BY <1>1, <2>1, <2>2, Zenon
<1>3. Message(q) \in Seq(Bits) /\ (q \in Encodable => Message(q) # <<>>) /\ Len(q) \in Nat
  <2>1. q \in Encodable \/ Message(q) = <<>>
    BY NoMessage
  <2>2. Len(q) \in Nat
    BY SequenceAssumption
  <2> QED BY <2>1, <2>2, MessageIs, EmptySeq
<1>4. Types'
  BY <1>1, <1>2, <1>3 DEF Types
<1>5. ~ Done'
  BY <1>1, <1>2, LastOnes DEF Done, Numbers
<1>6. Numbers'
  BY <1>1, <1>2, <1>3, <1>5, LastOnes DEF Numbers
<1>7. OnTheWay'
  <2> SUFFICES ASSUME server # "ended" PROVE OnTheWay'
    BY <1>1 DEF OnTheWay
  <2>1. taken = <<>> /\ toServer = <<>> /\ server = "receiving" /\ res = <<>>
    BY <1>1 DEF OnTheWay
  <2>2. (<<>> \o <<>>) \o Message(q) = Message(q)
    BY <1>3, ConcatEmptySeq, EmptySeq
  <2>3. Len(<<>>) = 0
    OBVIOUS
  <2> QED BY <1>1, <1>2, <1>3, <1>5, <2>1, <2>2, <2>3 DEF OnTheWay
<1>8. Bounds' /\ Pieces'
  BY <1>1, <1>5 DEF Bounds, Pieces
<1> QED BY <1>4, <1>6, <1>7, <1>8

LEMMA SendKeeps == ASSUME SessionInv, Send PROVE SessionInv'
<1> USE DEF SessionInv
<1>1. /\ client = "sending" /\ client' \in {"sending", "waiting", "gone"}
      /\ Len(unsent) # 1 => client' # "waiting"
      /\ Len(unsent) = 1 => client' # "sending"
      /\ unsent' = Tail(unsent)
      /\ UNCHANGED <<printed, toClient, server, taken, res, asked, performed, shown>>
  BY DEF Send, serverVars, history
<1>2. unsent \in Seq(Bits) /\ unsent # <<>> /\ ~ Done /\ printed = <<>> /\ toClient = <<>>
  BY <1>1 DEF Types, Numbers, Pieces
<1>3. /\ Head(unsent) \in Bits /\ unsent' \in Seq(Bits) /\ Len(unsent') = Len(unsent) - 1
      /\ Len(unsent) \in Nat \ {0}
  BY <1>1, <1>2
<1>4. client' = "sending" => unsent' # <<>>
  BY <1>1, <1>3
<1>5. /\ toServer' \in Seq(Bits) /\ Len(toServer') <= Room
      /\ server # "ended" => toServer' = Append(toServer, Head(unsent))
  <2>1. CASE server = "ended"
    BY <2>1 DEF Send, Types, Bounds
  <2>2. CASE server # "ended"
    <3>1. toServer' = Append(toServer, Head(unsent)) /\ Len(toServer) < Room /\ toServer \in Seq(Bits)
      BY <2>2 DEF Send, Types
    <3>2. Len(toServer) \in Nat
      BY <3>1
    <3> QED BY <1>3, <3>1, <3>2, AppendIs, SizeAssumption
  <2> QED BY <2>1, <2>2
<1>6. Types'
  BY <1>1, <1>3, <1>5 DEF Types
<1>7. Done' = Done
  BY <1>1 DEF Done
<1>8. Numbers'
  BY <1>1, <1>2, <1>4, <1>7 DEF Numbers
<1>9. OnTheWay'
  <2> SUFFICES ASSUME server # "ended" PROVE OnTheWay'
    BY <1>1 DEF OnTheWay
  <2>1. asked # <<>> /\ (taken \o toServer) \o unsent = Message(Last(asked))
    BY <1>1, <1>2 DEF OnTheWay, Numbers
  <2>2. taken \in Seq(Bits) /\ toServer \in Seq(Bits)
    BY DEF Types
  <2>3. (taken \o toServer') \o unsent' = (taken \o toServer) \o unsent
    <3>1. toServer' = Append(toServer, Head(unsent)) /\ unsent' = Tail(unsent)
      BY <1>1, <1>5
    <3>2. (taken \o Append(toServer, Head(unsent))) \o Tail(unsent) = (taken \o toServer) \o unsent
      <4> DEFINE S == Bits
      <4>1. /\ taken \in Seq(S) /\ toServer \in Seq(S)
            /\ unsent \in Seq(S) /\ unsent # <<>>
        BY <1>2, <2>2
      <4> HIDE DEF S
      <4>2. \A a, b, c \in Seq(S) : c # <<>> =>
               (a \o Append(b, Head(c))) \o Tail(c) = (a \o b) \o c
        BY SMTT(30), TailMovesOver
      <4> QED BY <4>1, <4>2
    <3> QED BY <3>1, <3>2
  <2> QED BY <1>1, <1>2, <1>7, <2>1, <2>3 DEF OnTheWay
<1>10. Bounds' /\ Pieces'
  BY <1>1, <1>2, <1>5, <1>7 DEF Bounds, Pieces
<1> QED BY <1>6, <1>8, <1>9, <1>10

LEMMA GiveUpKeeps == ASSUME SessionInv, GiveUp PROVE SessionInv'
<1>1. /\ client = "waiting" /\ toClient = <<>> /\ server = "ended" /\ client' = "ready"
      /\ UNCHANGED <<unsent, printed, toServer, toClient, server, taken, res, asked, performed, shown>>
  BY DEF GiveUp, connection, serverVars, history
<1>2. Types' /\ Numbers' /\ OnTheWay'
  BY <1>1 DEF SessionInv, Types, Numbers, OnTheWay, Done
<1>3. Bounds' /\ Pieces'
  BY <1>1 DEF SessionInv, Bounds, Pieces
<1> QED BY <1>2, <1>3 DEF SessionInv

LEMMA ClientDiesKeeps == ASSUME SessionInv, ClientDies PROVE SessionInv'
<1>1. /\ client' = "gone"
      /\ UNCHANGED <<unsent, printed, toServer, toClient, server, taken, res, asked, performed, shown>>
  BY DEF ClientDies, connection, serverVars, history
<1>2. Types' /\ Numbers' /\ OnTheWay'
  BY <1>1 DEF SessionInv, Types, Numbers, OnTheWay, Done
<1>3. Bounds' /\ Pieces'
  BY <1>1 DEF SessionInv, Bounds, Pieces
<1> QED BY <1>2, <1>3 DEF SessionInv

LEMMA ServerDiesKeeps == ASSUME SessionInv, ServerDies PROVE SessionInv'
<1>1. /\ server' = "ended"
      /\ UNCHANGED <<client, unsent, printed, toServer, toClient, taken, res, asked, performed, shown>>
  BY DEF ServerDies, clientVars, connection, history
<1>2. Types' /\ Numbers' /\ OnTheWay'
  BY <1>1 DEF SessionInv, Types, Numbers, OnTheWay, Done
<1>3. Bounds' /\ Pieces'
  BY <1>1 DEF SessionInv, Bounds, Pieces, Done, AnswerOf, PieceOf, EndOf
<1> QED BY <1>2, <1>3 DEF SessionInv

----------------------------------------------------------------------------
(* The server's steps *)

\* Texts cut into pieces, each read on its own.
LEMMA PiecesOf ==
    ASSUME NEW t \in Seq(Characters)
    PROVE  /\ Len(t) \in Nat /\ SubSeq(t, 1, Len(t)) = t /\ SubSeq(t, 1, 0) = <<>>
           /\ \A i, j \in Nat : i <= j /\ j <= Len(t) =>
                 /\ SubSeq(t, i + 1, j) \in Seq(Characters) /\ Len(SubSeq(t, i + 1, j)) = j - i
                 /\ SubSeq(t, 1, i) \o SubSeq(t, i + 1, j) = SubSeq(t, 1, j)
<1>1. Len(t) \in Nat /\ SubSeq(t, 1, Len(t)) = t /\ SubSeq(t, 1, 0) = <<>>
  BY SubSeqFull, SubSeqEmpty
<1>2. ASSUME NEW i \in Nat, NEW j \in Nat, i <= j, j <= Len(t)
      PROVE  /\ SubSeq(t, i + 1, j) \in Seq(Characters) /\ Len(SubSeq(t, i + 1, j)) = j - i
             /\ SubSeq(t, 1, i) \o SubSeq(t, i + 1, j) = SubSeq(t, 1, j)
  <2>1. \A k \in i + 1 .. j : t[k] \in Characters
    BY <1>1, <1>2
  <2>2. SubSeq(t, i + 1, j) \in Seq(Characters) /\ Len(SubSeq(t, i + 1, j)) = j - i
    BY <1>1, <1>2, <2>1, SubSeqProperties
  <2>3. SubSeq(t, 1, i) \o SubSeq(t, i + 1, j) = SubSeq(t, 1, j)
    BY <1>1, <1>2, ConcatAdjacentSubSeq
  <2> QED BY <2>2, <2>3
<1> QED BY <1>1, <1>2

\* The answer of a statement that has come is still whole with the server.
LEMMA HandledKeeps ==
    ASSUME SessionInv, server = "receiving", ~ Done, asked # <<>>,
           client \in {"waiting", "gone"}, NEW parts \in Seq(Parts), Handled(parts),
           toServer' = <<>>, UNCHANGED <<clientVars, toClient, asked, shown>>
    PROVE  SessionInv'
<1> USE DEF SessionInv
<1>1. PICK t \in Texts :
         /\ res' = t
         /\ performed' = Append(performed, [number |-> Len(asked), parts |-> parts, text |-> t])
  BY DEF Handled
<1>2. /\ server' = "answering" /\ taken' = <<>> /\ toServer' = <<>>
      /\ UNCHANGED <<client, unsent, printed, toClient, asked, shown>>
  BY DEF Handled, clientVars
<1> DEFINE e == [number |-> Len(asked), parts |-> parts, text |-> t]
<1>3. e \in Record /\ e.number = Len(asked) /\ e.text = t /\ t \in Seq(Characters)
  BY LastOnes, SequenceAssumption DEF Record
<1> HIDE DEF e
<1>4. /\ performed' \in Seq(Record) /\ performed' # <<>>
      /\ Len(performed') = Len(performed) + 1 /\ Last(performed') = e
  <2> DEFINE S == Record
  <2>1. performed \in Seq(S) /\ e \in S /\ performed' = Append(performed, e)
    BY <1>1, <1>3 DEF Types, e
  <2> HIDE DEF S
  <2>2. \A s \in Seq(S), x \in S :
           /\ Append(s, x) \in Seq(S) /\ Append(s, x) # <<>>
           /\ Len(Append(s, x)) = Len(s) + 1 /\ Last(Append(s, x)) = x
    BY AppendIs
  <2> QED BY <2>1, <2>2, Zenon DEF S
<1>5. Types'
  BY <1>1, <1>2, <1>3, <1>4 DEF Types
<1>6. Done'
  BY <1>2, <1>3, <1>4 DEF Done
<1>7. performed # <<>> =>
         Last(performed).number < Len(asked) /\ Len(performed) <= Last(performed).number
  BY LastOnes DEF Numbers, Done
<1>8. Numbers'
  <2>1. Len(performed) = 0 \/ performed # <<>>
    BY DEF Types
  <2>2. Len(performed) < Len(asked) /\ Len(asked) \in Nat /\ Len(performed) \in Nat
    BY <1>7, <2>1, LastOnes
  <2>3. /\ Last(performed').number <= Len(asked') /\ Len(performed') <= Last(performed').number
    BY <1>2, <1>3, <1>4, <2>2
  <2>4. shown # <<>> => Last(shown).number <= Len(asked) /\ Len(shown) < Len(performed')
    BY <1>4, <1>7, <2>2, LastOnes DEF Numbers
  <2>5. Len(shown) <= Len(performed')
    BY <1>4, LastOnes DEF Numbers
  <2>6. client' # "sending"
    BY <1>2
  <2> QED BY <1>2, <1>3, <1>4, <2>3, <2>4, <2>5, <2>6 DEF Numbers
<1>9. OnTheWay'
  BY <1>2, <1>6 DEF OnTheWay
<1>10. Bounds'
  <2>1. Len(<<>>) = 0
    OBVIOUS
  <2> QED BY <1>2, <2>1, SizeAssumption DEF Bounds
<1>11. Pieces'
  <2>1. CASE client = "waiting"
    <3>1. toClient' = <<>> /\ printed' = <<>> /\ Len(toClient') = 0 /\ Len(printed') = 0
      BY <1>2, <2>1 DEF Pieces
    <3>2. EndOf(0)' = 0
      BY <3>1, SizeAssumption DEF EndOf
    <3>3. AnswerOf(t)'
      BY <1>1, <1>3, <3>1, <3>2, PiecesOf, SizeAssumption DEF AnswerOf, EndOf
    <3> QED BY <1>2, <1>3, <1>4, <1>6, <2>1, <3>3 DEF Pieces
  <2>2. CASE client = "gone"
    BY <1>2, <2>2 DEF Pieces
  <2> QED BY <2>1, <2>2
<1> QED BY <1>5, <1>8, <1>9, <1>10, <1>11

\* What was read or is on the connection was sent.
LEMMA SomethingSent ==
    ASSUME NEW S, NEW a \in Seq(S), NEW b \in Seq(S), NEW c \in Seq(S), a # <<>> \/ b # <<>>
    PROVE  (a \o b) \o c # <<>>
<1>1. Len(a) + Len(b) > 0 /\ Len(a) + Len(b) \in Nat /\ Len(c) \in Nat
  BY LenProperties, EmptySeq
<1>2. a \o b \in Seq(S) /\ Len(a \o b) = Len(a) + Len(b)
  BY ConcatProperties
<1>3. Len((a \o b) \o c) = Len(a \o b) + Len(c)
  BY <1>2, ConcatProperties
<1>4. Len((a \o b) \o c) > 0
  BY <1>1, <1>2, <1>3
<1> QED BY <1>4

\* What the server has read and what is still to come of the message.
LEMMA WhatCame ==
    ASSUME SessionInv, server = "receiving", toServer # <<>>
    PROVE  LET all == Append(taken, Head(toServer))
               q == Last(asked)
           IN  /\ ~ Done /\ asked # <<>> /\ q \in Queries /\ q \in Encodable
               /\ all \in Seq(Bits)
               /\ Tail(toServer) \in Seq(Bits) /\ Len(all) <= Len(q) + 1
               /\ Len(all) \in Nat \ {0} /\ Len(q) \in Nat
               /\ (all \o Tail(toServer)) \o unsent = Message(q)
               /\ all[1].parts = Len(q)
               /\ Len(all) = Len(q) + 1 =>
                     Tail(toServer) = <<>> /\ unsent = <<>> /\ Tail(all) = q
<1> USE DEF SessionInv
<1> DEFINE all == Append(taken, Head(toServer))
           q == Last(asked)
           S == Bits
           r == Tail(toServer)
<1>1. /\ ~ Done /\ asked # <<>> /\ q \in Queries /\ (taken \o toServer) \o unsent = Message(q)
      /\ Len(taken) <= Len(q)
  BY LastOnes DEF OnTheWay
<1>2. taken \in Seq(S) /\ toServer \in Seq(S) /\ unsent \in Seq(S)
  BY DEF Types
<1>0. q \in Encodable
  BY <1>1, <1>2, NoMessage, SomethingSent
<1>3. Message(q) \in Seq(S) /\ Len(Message(q)) = Len(q) + 1 /\ Len(q) \in Nat
      /\ Message(q)[1].parts = Len(q) /\ Tail(Message(q)) = q
  BY <1>0, <1>1, MessageIs
<1> HIDE DEF S, q
<1>4. Head(toServer) \in S /\ r \in Seq(S)
  BY <1>2, HeadTailProperties
<1>5. all \in Seq(S) /\ Len(all) = Len(taken) + 1 /\ Len(taken) \in Nat
  BY <1>2, <1>4, AppendProperties, LenProperties
<1>6. all \o r = taken \o toServer
  <2>1. \A a, b \in Seq(S) : b # <<>> => Append(a, Head(b)) \o Tail(b) = a \o b
    BY HeadMovesOver
  <2> QED BY <1>2, <2>1
<1> HIDE DEF all, r
<1> DEFINE x == all \o r
           m == x \o unsent
<1>7. /\ Len(r) \in Nat /\ Len(unsent) \in Nat /\ Len(all) \in Nat \ {0}
      /\ x \in Seq(S) /\ Len(x) = Len(all) + Len(r)
      /\ \A i \in 1 .. Len(all) : x[i] = all[i]
  <2>1. Len(r) \in Nat /\ Len(unsent) \in Nat /\ Len(all) \in Nat \ {0}
    BY <1>2, <1>4, <1>5, LenProperties
  <2>2. x \in Seq(S) /\ Len(x) = Len(all) + Len(r)
        /\ \A i \in 1 .. Len(all) + Len(r) : x[i] = IF i <= Len(all) THEN all[i] ELSE r[i - Len(all)]
    BY <1>4, <1>5, ConcatProperties
  <2> QED BY <2>1, <2>2
<1> HIDE DEF x
<1>8. /\ m \in Seq(S) /\ Len(m) = Len(x) + Len(unsent)
      /\ \A i \in 1 .. Len(x) : m[i] = x[i]
  <2>1. m \in Seq(S) /\ Len(m) = Len(x) + Len(unsent)
        /\ \A i \in 1 .. Len(x) + Len(unsent) : m[i] = IF i <= Len(x) THEN x[i] ELSE unsent[i - Len(x)]
    <3>1. \A a, b \in Seq(S) :
             /\ a \o b \in Seq(S) /\ Len(a \o b) = Len(a) + Len(b)
             /\ \A i \in 1 .. Len(a) + Len(b) : (a \o b)[i] = IF i <= Len(a) THEN a[i] ELSE b[i - Len(a)]
      BY ConcatProperties
    <3> QED BY <1>2, <1>7, <3>1, Zenon
  <2>2. Len(x) \in Nat
    BY <1>7
  <2> QED BY <1>7, <2>1, <2>2
<1>9. m = Message(q)
  BY <1>1, <1>6 DEF x
<1> HIDE DEF m
<1>10. all[1].parts = Len(q)
  BY <1>3, <1>7, <1>8, <1>9
<1>11. Len(all) <= Len(q) + 1
  BY <1>1, <1>3, <1>5
<1>12. ASSUME Len(all) = Len(q) + 1 PROVE r = <<>> /\ unsent = <<>> /\ Tail(all) = q
  <2>1. Len(r) = 0 /\ Len(unsent) = 0
    BY <1>3, <1>7, <1>8, <1>9, <1>12
  <2>2. r = <<>> /\ unsent = <<>>
    BY <1>2, <1>4, <2>1, EmptySeq
  <2>3. all = m
    BY <1>2, <1>5, <2>2, ConcatEmptySeq DEF m, x
  <2> QED BY <1>3, <1>9, <2>2, <2>3
<1>13. m = (all \o r) \o unsent
  BY DEF m, x
<1> QED BY <1>0, <1>1, <1>3, <1>4, <1>5, <1>7, <1>9, <1>10, <1>11, <1>12, <1>13 DEF all, q, r, S

LEMMA ReceiveKeeps == ASSUME SessionInv, Receive PROVE SessionInv'
<1> DEFINE all == Append(taken, Head(toServer))
           q == Last(asked)
<1>1. /\ server = "receiving" /\ toServer # <<>> /\ toServer' = Tail(toServer)
      /\ UNCHANGED <<clientVars, toClient, asked, shown>>
  BY DEF Receive
<1>2. /\ ~ Done /\ asked # <<>> /\ q \in Queries /\ all \in Seq(Bits)
      /\ Tail(toServer) \in Seq(Bits) /\ Len(all) <= Len(q) + 1
      /\ Len(all) \in Nat \ {0} /\ Len(q) \in Nat
      /\ (all \o Tail(toServer)) \o unsent = Message(q)
      /\ all[1].parts = Len(q)
      /\ Len(all) = Len(q) + 1 => Tail(toServer) = <<>> /\ unsent = <<>> /\ Tail(all) = q
  BY <1>1, WhatCame
<1>3. /\ Len(all) = Len(q) + 1 => Handled(Tail(all))
      /\ Len(all) # Len(q) + 1 => taken' = all /\ UNCHANGED <<server, res, performed>>
  BY <1>2 DEF Receive
<1>4. Len(toServer) \in Nat \ {0} /\ Len(Tail(toServer)) = Len(toServer) - 1
  <2>1. toServer \in Seq(Bits)
    BY DEF SessionInv, Types
  <2> QED BY <1>1, <2>1
<1>5. client # "ready"
  BY <1>1, <1>2 DEF SessionInv, OnTheWay
<1> HIDE DEF all, q
<1>6. CASE Len(all) = Len(q) + 1
  <2>1. client # "sending"
    BY <1>2, <1>6 DEF SessionInv, Numbers
  <2>2. client \in {"waiting", "gone"}
    BY <1>5, <2>1 DEF SessionInv, Types
  <2>3. Tail(all) \in Seq(Parts)
    BY <1>2, <1>6, SequenceAssumption
  <2> QED BY <1>1, <1>2, <1>3, <1>6, <2>2, <2>3, HandledKeeps
<1>7. CASE Len(all) # Len(q) + 1
  <2>1. /\ taken' = all /\ toServer' = Tail(toServer)
        /\ UNCHANGED <<client, unsent, printed, toClient, server, res, asked, performed, shown>>
    BY <1>1, <1>3, <1>7 DEF clientVars
  <2>2. Done' = Done /\ Last(asked)' = q
    BY <2>1 DEF Done, q
  <2>3. Types'
    BY <1>2, <2>1 DEF SessionInv, Types
  <2>4. Numbers'
    BY <2>1, <2>2 DEF SessionInv, Numbers
  <2>5. OnTheWay'
    <3>1. (taken' \o toServer') \o unsent' = Message(q)
      BY <1>2, <2>1
    <3>2. Len(taken') <= Len(q)
      BY <1>2, <1>7, <2>1
    <3> QED BY <1>1, <1>2, <1>5, <2>1, <2>2, <3>1, <3>2 DEF SessionInv, OnTheWay
  <2>6. Bounds'
    BY <1>2, <1>4, <1>7, <2>1, SizeAssumption DEF SessionInv, Bounds
  <2>7. Pieces'
    BY <1>2, <2>1, <2>2 DEF SessionInv, Pieces
  <2> QED BY <2>3, <2>4, <2>5, <2>6, <2>7 DEF SessionInv
<1> QED BY <1>6, <1>7

\* What the server has of a message is its head and its first parts.
LEMMA WhatWasTaken ==
    ASSUME SessionInv, server = "receiving", taken # <<>>
    PROVE  /\ ~ Done /\ asked # <<>> /\ Last(asked) \in Encodable /\ Tail(taken) \in Seq(Parts)
           /\ \E n \in 0 .. Len(Last(asked)) : Tail(taken) = SubSeq(Last(asked), 1, n)
<1> USE DEF SessionInv
<1> DEFINE q == Last(asked)
           S == Bits
           y == taken \o toServer
           m == y \o unsent
<1>1. ~ Done /\ asked # <<>> /\ q \in Queries /\ m = Message(q)
  BY LastOnes DEF OnTheWay
<1>2. taken \in Seq(S) /\ toServer \in Seq(S) /\ unsent \in Seq(S)
  BY DEF Types
<1>0. q \in Encodable
  BY <1>1, <1>2, NoMessage, SomethingSent
<1>3. /\ q \in Seq(Parts) /\ Len(q) \in Nat /\ Len(Message(q)) = Len(q) + 1
      /\ \A n \in 1 .. Len(q) : Message(q)[n + 1] = q[n]
  BY <1>0, <1>1, MessageIs
<1> HIDE DEF q, S
<1>4. Len(taken) \in Nat \ {0} /\ Len(toServer) \in Nat /\ Len(unsent) \in Nat
  BY <1>2, LenProperties, EmptySeq
<1>5. y \in Seq(S) /\ Len(y) = Len(taken) + Len(toServer)
      /\ \A i \in 1 .. Len(taken) : y[i] = taken[i]
  <2>1. y \in Seq(S) /\ Len(y) = Len(taken) + Len(toServer)
        /\ \A i \in 1 .. Len(taken) + Len(toServer) :
              y[i] = IF i <= Len(taken) THEN taken[i] ELSE toServer[i - Len(taken)]
    BY <1>2, ConcatProperties
  <2> QED BY <1>4, <2>1
<1> HIDE DEF y
<1>6. /\ Len(m) = Len(y) + Len(unsent)
      /\ \A i \in 1 .. Len(y) : m[i] = y[i]
  <2>1. /\ m \in Seq(S) /\ Len(m) = Len(y) + Len(unsent)
        /\ \A i \in 1 .. Len(y) + Len(unsent) : m[i] = IF i <= Len(y) THEN y[i] ELSE unsent[i - Len(y)]
    <3>1. \A a, b \in Seq(S) :
             /\ a \o b \in Seq(S) /\ Len(a \o b) = Len(a) + Len(b)
             /\ \A i \in 1 .. Len(a) + Len(b) : (a \o b)[i] = IF i <= Len(a) THEN a[i] ELSE b[i - Len(a)]
      BY ConcatProperties
    <3> QED BY <1>2, <1>5, <3>1, Zenon
  <2> QED BY <1>4, <1>5, <2>1
<1> HIDE DEF m
<1> DEFINE n == Len(taken) - 1
<1>7. n \in 0 .. Len(q)
  BY <1>1, <1>3, <1>4, <1>5, <1>6
<1>8. \A i \in 1 .. n : taken[i + 1] = q[i]
  BY SMTT(30), <1>1, <1>3, <1>4, <1>5, <1>6, <1>7
<1>9. /\ Tail(taken) \in Seq(S) /\ Len(Tail(taken)) = n
      /\ \A i \in 1 .. n : Tail(taken)[i] = taken[i + 1]
  BY <1>2, <1>4
<1>10. /\ SubSeq(q, 1, n) \in Seq(Parts) /\ Len(SubSeq(q, 1, n)) = n
       /\ \A i \in 1 .. n : SubSeq(q, 1, n)[i] = q[i]
  <2>1. /\ n \in Nat /\ n <= Len(q) /\ n - 1 + 1 = n
        /\ \A i \in 1 .. n : q[i] \in Parts /\ 1 + i - 1 = i
    BY <1>3, <1>7
  <2> HIDE DEF n
  <2>2. /\ SubSeq(q, 1, n) \in Seq(Parts)
        /\ Len(SubSeq(q, 1, n)) = IF 1 <= n THEN n - 1 + 1 ELSE 0
        /\ \A i \in 1 .. n - 1 + 1 : SubSeq(q, 1, n)[i] = q[1 + i - 1]
    BY <2>1, SubSeqProperties
  <2> QED BY <2>1, <2>2
<1> HIDE DEF n
<1>11. Tail(taken) = SubSeq(q, 1, n)
  <2> DEFINE a == Tail(taken)
             b == SubSeq(q, 1, n)
  <2>1. a \in Seq(S) /\ Len(a) = Len(b) /\ \A i \in 1 .. Len(a) : a[i] = b[i]
    BY <1>7, <1>8, <1>9, <1>10
  <2>2. b \in Seq(S \cup Parts) /\ a \in Seq(S \cup Parts)
    BY <1>9, <1>10, SeqMonotonic
  <2> HIDE DEF a, b
  <2>3. a = b
    BY <2>1, <2>2, SeqEqual
  <2> QED BY <2>3 DEF a, b
<1> QED BY <1>0, <1>1, <1>7, <1>10, <1>11 DEF q

LEMMA InputEndsKeeps == ASSUME SessionInv, InputEnds PROVE SessionInv'
<1>1. /\ server = "receiving" /\ toServer = <<>> /\ client = "gone"
      /\ UNCHANGED <<clientVars, connection, asked, shown>>
  BY DEF InputEnds
<1>2. CASE server' = "ended" /\ UNCHANGED <<taken, res, performed>>
  <2>1. /\ UNCHANGED <<client, unsent, printed, toServer, toClient, taken, res, asked, performed, shown>>
        /\ server' = "ended"
    BY <1>1, <1>2 DEF clientVars, connection
  <2>2. Types' /\ Numbers' /\ OnTheWay'
    BY <2>1 DEF SessionInv, Types, Numbers, OnTheWay, Done
  <2>3. Bounds' /\ Pieces'
    BY <1>1, <2>1 DEF SessionInv, Bounds, Pieces
  <2> QED BY <2>2, <2>3 DEF SessionInv
<1>3. CASE taken # <<>> /\ Handled(Tail(taken))
  <2>1. ~ Done /\ asked # <<>> /\ Tail(taken) \in Seq(Parts)
    BY <1>1, <1>3, WhatWasTaken
  <2>2. toServer' = <<>> /\ UNCHANGED <<clientVars, toClient, asked, shown>>
    BY <1>1 DEF connection
  <2> QED BY <1>1, <1>3, <2>1, <2>2, HandledKeeps
<1> QED BY <1>2, <1>3 DEF InputEnds, Cut

----------------------------------------------------------------------------
(* The packets of an answer *)

\* Ends of packets are a packet apart.
LEMMA NextEnd ==
    ASSUME NEW n \in Nat, NEW i \in Nat
    PROVE  /\ i * Piece \in Nat /\ (i + 1) * Piece = i * Piece + Piece
           /\ 0 * Piece = 0 /\ Piece \in Nat /\ Piece > 0
BY SizeAssumption

\* The packet marked as the last one ends the answer, and no other follows.
LEMMA LastPacketEnds ==
    ASSUME SessionInv, client = "waiting", toClient # <<>>, Head(toClient).last
    PROVE  /\ printed \o Head(toClient).text = Last(performed).text
           /\ Len(toClient) = 1 /\ server # "answering"
<1> USE DEF SessionInv
<1> DEFINE p == Head(toClient)
           t == Last(performed).text
<1>1. toClient \in Seq(Packet) /\ p = toClient[1] /\ Len(toClient) \in Nat \ {0}
  <2> DEFINE S == Packet
  <2>1. toClient \in Seq(S)
    BY DEF Types
  <2> HIDE DEF S
  <2>2. p = toClient[1] /\ Len(toClient) \in Nat \ {0}
    BY <2>1
  <2> QED BY <2>1, <2>2 DEF S
<1>2. Done /\ AnswerOf(t) /\ t \in Seq(Characters) /\ Len(printed) \in Nat
  <2>1. Done /\ AnswerOf(t)
    BY DEF Pieces
  <2> QED BY <2>1, LastOnes DEF Done, Types
<1>3. p.last
  OBVIOUS
<1> HIDE DEF p, t
<1>4. EndOf(1 - 1) = Len(printed)
  BY <1>2, SizeAssumption DEF EndOf
<1>5. PieceOf(t, 1)
  BY <1>1, <1>2 DEF AnswerOf
<1>6. /\ printed = SubSeq(t, 1, Len(printed)) /\ Len(printed) <= Len(t)
      /\ p.text = SubSeq(t, Len(printed) + 1, Len(t))
      /\ 1 = Len(toClient) /\ server # "answering"
  BY <1>1, <1>2, <1>3, <1>4, <1>5 DEF AnswerOf, PieceOf
<1> DEFINE l == Len(printed)
           j == Len(t)
<1>7. l \in Nat /\ j \in Nat /\ l <= j /\ j <= Len(t)
  BY <1>2, <1>6
<1> HIDE DEF l
<1>8. /\ SubSeq(t, 1, j) = t
      /\ \A m, n \in Nat : m <= n /\ n <= Len(t) =>
            SubSeq(t, 1, m) \o SubSeq(t, m + 1, n) = SubSeq(t, 1, n)
  BY <1>2, PiecesOf
<1>9. SubSeq(t, 1, l) \o SubSeq(t, l + 1, j) = t
  BY <1>7, <1>8
<1> QED BY <1>6, <1>9 DEF l, p, t

LEMMA ShowPacketKeeps == ASSUME SessionInv, ShowPacket PROVE SessionInv'
<1> USE DEF SessionInv
<1> DEFINE p == Head(toClient)
           t == Last(performed).text
<1>1. /\ client = "waiting" /\ toClient # <<>> /\ toClient' = Tail(toClient)
      /\ printed' = printed \o p.text
      /\ UNCHANGED <<unsent, toServer, server, taken, res, asked, performed>>
  BY DEF ShowPacket, serverVars
<1>2. /\ toClient \in Seq(Packet) /\ p = toClient[1] /\ p \in Packet
      /\ toClient' \in Seq(Packet)
      /\ Len(toClient) \in Nat \ {0} /\ Len(toClient') = Len(toClient) - 1
      /\ \A i \in 1 .. Len(toClient) - 1 : toClient'[i] = toClient[i + 1]
  <2> DEFINE S == Packet
  <2>1. toClient \in Seq(S)
    BY DEF Types
  <2> HIDE DEF S
  <2>2. /\ p = toClient[1] /\ p \in S
        /\ toClient' \in Seq(S)
        /\ Len(toClient) \in Nat \ {0} /\ Len(toClient') = Len(toClient) - 1
        /\ \A i \in 1 .. Len(toClient) - 1 : toClient'[i] = toClient[i + 1]
    BY <1>1, <2>1
  <2> QED BY <2>1, <2>2 DEF S
<1> HIDE DEF p
<1>3. p.text \in Seq(Characters) /\ p.last \in BOOLEAN
  BY <1>2 DEF Packet
<1>4. Done /\ AnswerOf(t) /\ asked # <<>> /\ performed # <<>> /\ t \in Seq(Characters)
      /\ t \in Texts /\ (shown # <<>> => Last(shown).number < Len(asked))
      /\ Last(performed).number = Len(asked)
  <2>1. Done /\ AnswerOf(t) /\ asked # <<>> /\ (shown # <<>> => Last(shown).number < Len(asked))
    BY <1>1 DEF Pieces, Numbers
  <2> QED BY <2>1, LastOnes DEF Done, Record
<1> HIDE DEF t
<1>5. /\ Len(printed) \in Nat /\ Len(t) \in Nat /\ printed = SubSeq(t, 1, Len(printed))
      /\ Len(printed) <= Len(t)
      /\ p.text = SubSeq(t, Len(printed) + 1, IF p.last THEN Len(t) ELSE Len(printed) + Piece)
      /\ p.last => 1 = Len(toClient) /\ server # "answering"
      /\ ~ p.last => Len(printed) + Piece <= Len(t)
  <2>1. Len(printed) \in Nat /\ Len(t) \in Nat
    BY <1>4 DEF Types
  <2>2. EndOf(1 - 1) = Len(printed) /\ EndOf(1) = Len(printed) + Piece
    BY <2>1, SizeAssumption DEF EndOf
  <2>3. PieceOf(t, 1)
    BY <1>2, <1>4 DEF AnswerOf
  <2> QED BY <1>2, <1>4, <2>1, <2>2, <2>3 DEF AnswerOf, PieceOf
<1>6. printed' \in Seq(Characters)
  BY <1>1, <1>3 DEF Types
<1>7. Done' = Done /\ Last(performed').text = t
  BY <1>1 DEF Done, t
<1>8. Bounds'
  BY <1>1, <1>2, SizeAssumption DEF Bounds
<1>9. CASE p.last
  <2>1. printed' = t
    BY <1>1, <1>9, LastPacketEnds DEF p, t
  <2> DEFINE e == [number |-> Len(asked), text |-> printed']
             S == [number : Nat, text : Seq(Characters)]
  <2>2. client' = "ready" /\ shown' = Append(shown, e)
    BY <1>9 DEF ShowPacket, p
  <2>3. e \in S /\ e.number = Len(asked) /\ shown \in Seq(S) /\ Len(asked) \in Nat
    BY <1>6, LastOnes DEF Types
  <2> HIDE DEF e, S
  <2>4. shown' \in Seq(S) /\ shown' # <<>> /\ Len(shown') = Len(shown) + 1 /\ Last(shown') = e
    BY <2>2, <2>3, AppendIs
  <2>5. Types'
    BY <1>1, <1>2, <1>6, <2>2, <2>4 DEF Types, S
  <2>6. Len(shown') <= Len(performed)
    <3>1. CASE shown = <<>>
      <4>1. Len(shown) = 0 /\ Len(performed) # 0 /\ Len(performed) \in Nat
        BY <1>4, <3>1, LastOnes DEF Types
      <4> QED BY <2>4, <4>1
    <3>2. CASE shown # <<>>
      <4>1. Len(shown) < Len(performed)
        BY <1>4, <3>2 DEF Numbers
      <4> QED BY <2>4, <4>1, LastOnes
    <3> QED BY <3>1, <3>2
  <2>7. Numbers'
    BY <1>1, <1>4, <2>2, <2>3, <2>4, <2>6 DEF Numbers
  <2>8. OnTheWay'
    <3> SUFFICES ASSUME server # "ended" PROVE OnTheWay'
      BY <1>1 DEF OnTheWay
    <3>1. server = "receiving"
      BY <1>5, <1>9 DEF Types
    <3> QED BY <1>1, <1>4, <1>7, <2>2, <3>1 DEF OnTheWay
  <2>9. Pieces'
    BY <1>2, <1>5, <1>9, <2>2, EmptySeq DEF Pieces
  <2> QED BY <1>8, <2>5, <2>7, <2>8, <2>9
<1>10. CASE ~ p.last
  <2>1. UNCHANGED <<client, shown>>
    BY <1>10 DEF ShowPacket, p
  <2>2. Types' /\ Numbers' /\ OnTheWay'
    <3>1. Types'
      BY <1>1, <1>2, <1>6, <2>1 DEF Types
    <3>2. Numbers'
      BY <1>1, <1>7, <2>1 DEF Numbers
    <3>3. OnTheWay'
      BY <1>1, <1>7, <2>1 DEF OnTheWay
    <3> QED BY <3>1, <3>2, <3>3
  <2>3. /\ Len(printed) + Piece \in Nat
        /\ printed' = SubSeq(t, 1, Len(printed) + Piece) /\ Len(printed') = Len(printed) + Piece
    <3> DEFINE l == Len(printed)
               j == Len(printed) + Piece
    <3>1. l \in Nat /\ j \in Nat /\ l <= j /\ j <= Len(t) /\ 0 <= j /\ j - 0 = j /\ 0 + 1 = 1
      BY <1>5, <1>10, SizeAssumption
    <3>2. printed = SubSeq(t, 1, l) /\ p.text = SubSeq(t, l + 1, j)
      BY <1>5, <1>10
    <3> HIDE DEF l, j
    <3>3. SubSeq(t, 1, l) \o SubSeq(t, l + 1, j) = SubSeq(t, 1, j)
      BY <1>4, <3>1, PiecesOf
    <3>4. Len(SubSeq(t, 0 + 1, j)) = j - 0
      BY <1>4, <3>1, PiecesOf
    <3>5. printed' = SubSeq(t, 1, j) /\ Len(SubSeq(t, 1, j)) = j
      BY <1>1, <3>1, <3>2, <3>3, <3>4
    <3> QED BY <3>1, <3>5 DEF j, l
  <2>4. ASSUME NEW i \in Nat PROVE EndOf(i)' = EndOf(i + 1) /\ EndOf(i) \in Nat
    <3>1. i * Piece \in Nat /\ (i + 1) * Piece = i * Piece + Piece
      BY <2>4, NextEnd
    <3>2. EndOf(i)' = (Len(printed) + Piece) + i * Piece
      BY <2>3 DEF EndOf
    <3>3. EndOf(i + 1) = Len(printed) + (i * Piece + Piece) /\ EndOf(i) = Len(printed) + i * Piece
      BY <3>1 DEF EndOf
    <3> DEFINE k == i * Piece
    <3>4. k \in Nat /\ EndOf(i)' = (Len(printed) + Piece) + k
          /\ EndOf(i + 1) = Len(printed) + (k + Piece) /\ EndOf(i) = Len(printed) + k
      BY <3>1, <3>2, <3>3
    <3> HIDE DEF k
    <3> QED BY <1>5, <3>4, SizeAssumption
  <2>5. ASSUME NEW i \in 1 .. Len(toClient') PROVE PieceOf(t, i)'
    <3>1. i \in Nat /\ i - 1 \in Nat /\ i + 1 \in 1 .. Len(toClient) /\ toClient'[i] = toClient[i + 1]
          /\ (i - 1) + 1 = i /\ (i + 1) - 1 = i
      BY <1>2, <2>5
    <3>2. EndOf(i)' = EndOf(i + 1) /\ EndOf(i - 1)' = EndOf(i)
      BY <2>4, <3>1
    <3>3. PieceOf(t, i + 1)
      BY <1>4, <3>1 DEF AnswerOf
    <3>4. (i + 1 = Len(toClient)) = (i = Len(toClient'))
      BY <1>2, <2>5
    <3>5. t' = t /\ server' = server
      BY <1>1 DEF t
    <3> QED BY <3>1, <3>2, <3>3, <3>4, <3>5 DEF PieceOf
  <2>6. (EndOf(Len(toClient)))' = EndOf(Len(toClient))
    <3> DEFINE n == Len(toClient')
    <3>1. n \in Nat /\ n + 1 = Len(toClient)
      BY <1>2
    <3>2. (EndOf(Len(toClient)))' = (Len(printed) + Piece) + n * Piece
      BY <2>3 DEF EndOf
    <3> HIDE DEF n
    <3>3. n * Piece \in Nat /\ (n + 1) * Piece = n * Piece + Piece
      BY <3>1, NextEnd
    <3>4. EndOf(Len(toClient)) = Len(printed) + (n * Piece + Piece)
      BY <3>1, <3>3 DEF EndOf
    <3> DEFINE k == n * Piece
    <3>5. k \in Nat /\ (EndOf(Len(toClient)))' = (Len(printed) + Piece) + k
          /\ EndOf(Len(toClient)) = Len(printed) + (k + Piece)
      BY <3>2, <3>3, <3>4
    <3> HIDE DEF k
    <3> QED BY <1>5, <3>5, SizeAssumption
  <2>7. /\ Len(printed') <= Len(t) /\ printed' = SubSeq(t, 1, Len(printed'))
        /\ Len(toClient) \in Nat
    BY <1>2, <1>5, <1>10, <2>3
  <2>8. AnswerOf(t)'
    <3>1. t' = t /\ server' = server /\ res' = res
      BY <1>1 DEF t
    <3>2. server = "answering" =>
             /\ EndOf(Len(toClient)) <= Len(t)
             /\ res = SubSeq(t, EndOf(Len(toClient)) + 1, Len(t))
      BY <1>4 DEF AnswerOf
    <3> QED BY <2>5, <2>6, <2>7, <3>1, <3>2 DEF AnswerOf
  <2>9. Pieces'
    BY <1>1, <1>4, <1>7, <2>1, <2>8 DEF Pieces, t
  <2> QED BY <1>8, <2>2, <2>9
<1> QED BY <1>3, <1>9, <1>10

\* What is left of an answer, when its next packet is taken from it.
LEMMA Split ==
    ASSUME NEW t \in Seq(Characters), NEW i \in Nat, i <= Len(t),
           NEW r, r = SubSeq(t, i + 1, Len(t))
    PROVE  /\ r \in Seq(Characters) /\ Len(r) = Len(t) - i
           /\ Len(r) > Piece =>
                 /\ i + Piece <= Len(t)
                 /\ SubSeq(r, 1, Piece) = SubSeq(t, i + 1, i + Piece)
                 /\ SubSeq(r, Piece + 1, Len(r)) = SubSeq(t, i + Piece + 1, Len(t))
                 /\ SubSeq(r, 1, Piece) \in Seq(Characters)
                 /\ SubSeq(r, Piece + 1, Len(r)) \in Seq(Characters)
<1> DEFINE n == Len(t)
<1>1. n \in Nat /\ Piece \in Nat \ {0} /\ t \in Seq(Characters)
  BY SizeAssumption
<1>2. r \in Seq(Characters) /\ Len(r) = n - i
  <2>1. \A k, j \in Nat : k <= j /\ j <= Len(t) =>
           SubSeq(t, k + 1, j) \in Seq(Characters) /\ Len(SubSeq(t, k + 1, j)) = j - k
    BY PiecesOf
  <2> QED BY <1>1, <2>1
<1> HIDE DEF n
<1>3. ASSUME Len(r) > Piece
      PROVE  /\ i + Piece <= n
             /\ SubSeq(r, 1, Piece) = SubSeq(t, i + 1, i + Piece)
             /\ SubSeq(r, Piece + 1, Len(r)) = SubSeq(t, i + Piece + 1, n)
  <2>1. i + Piece <= n /\ i + 1 \in 1 .. n /\ n \in 1 .. n
    BY <1>1, <1>2, <1>3
  <2>2. \A a, b \in 1 .. n - (i + 1) + 1 :
           SubSeq(SubSeq(t, i + 1, n), a, b) = SubSeq(t, (i + 1) + a - 1, (i + 1) + b - 1)
    BY <1>1, <2>1, SubSeqOfSubSeq DEF n
  <2>3. /\ 1 \in 1 .. n - (i + 1) + 1 /\ Piece \in 1 .. n - (i + 1) + 1
        /\ Piece + 1 \in 1 .. n - (i + 1) + 1 /\ n - i \in 1 .. n - (i + 1) + 1
        /\ (i + 1) + 1 - 1 = i + 1 /\ (i + 1) + Piece - 1 = i + Piece
        /\ (i + 1) + (Piece + 1) - 1 = i + Piece + 1 /\ (i + 1) + (n - i) - 1 = n
    BY <1>1, <1>2, <1>3
  <2>4. r = SubSeq(t, i + 1, n)
    BY DEF n
  <2>5. SubSeq(r, 1, Piece) = SubSeq(t, i + 1, i + Piece)
    BY <2>2, <2>3, <2>4
  <2>6. SubSeq(r, Piece + 1, n - i) = SubSeq(t, i + Piece + 1, n)
    BY <2>2, <2>3, <2>4
  <2> QED BY <1>2, <2>1, <2>5, <2>6
<1>4. ASSUME Len(r) > Piece
      PROVE  /\ SubSeq(r, 1, Piece) \in Seq(Characters)
             /\ SubSeq(r, Piece + 1, Len(r)) \in Seq(Characters)
  <2>1. \A k, j \in Nat : k <= j /\ j <= Len(r) => SubSeq(r, k + 1, j) \in Seq(Characters)
    BY <1>2, PiecesOf
  <2>2. /\ 0 \in Nat /\ Piece \in Nat /\ Len(r) \in Nat /\ 0 <= Piece /\ Piece <= Len(r)
        /\ 0 + 1 = 1 /\ Len(r) <= Len(r)
    BY <1>1, <1>2, <1>4
  <2>3. SubSeq(r, 0 + 1, Piece) \in Seq(Characters) /\ SubSeq(r, Piece + 1, Len(r)) \in Seq(Characters)
    BY <2>1, <2>2
  <2> QED BY <2>2, <2>3
<1> QED BY <1>2, <1>3, <1>4 DEF n

LEMMA AnswerKeeps == ASSUME SessionInv, Answer PROVE SessionInv'
<1> USE DEF SessionInv
<1> DEFINE t == Last(performed).text
           e == [text |-> Text, last |-> Marked]
<1>1. /\ server = "answering"
      /\ client = "gone" \/ Len(toClient) < Room
      /\ toClient' = IF client = "gone" THEN toClient ELSE Append(toClient, e)
      /\ res' = IF More(res) THEN Rest ELSE <<>>
      /\ UNCHANGED <<client, unsent, printed, toServer, taken, asked, performed, shown>>
  BY DEF Answer, CanSend, clientVars, history
<1>2. /\ server' \in {"answering", "receiving", "ended"}
      /\ server' = "answering" => More(res)
      /\ server' = "receiving" => ~ More(res)
      /\ client # "gone" => server' = IF More(res) THEN "answering" ELSE "receiving"
  BY DEF Answer
<1>3. Done /\ performed # <<>> /\ t \in Seq(Characters) /\ client \in {"waiting", "gone"}
  <2>1. Done /\ client # "ready"
    BY <1>1 DEF OnTheWay
  <2>2. client # "sending"
    BY <2>1 DEF Numbers
  <2> QED BY <2>1, <2>2, LastOnes DEF Done, Types
<1>4. /\ res \in Seq(Characters) /\ Len(res) \in Nat /\ Text \in Seq(Characters)
      /\ Rest \in Seq(Characters) \/ ~ More(res)
  <2>1. res \in Seq(Characters)
    BY DEF Types
  <2>2. Len(res) \in Nat /\ SubSeq(res, 0 + 1, Len(res)) = res /\ 0 + 1 = 1 /\ Piece \in Nat
    BY <2>1, PiecesOf, SizeAssumption
  <2>3. Len(res) > Piece =>
           SubSeq(res, 1, Piece) \in Seq(Characters) /\ SubSeq(res, Piece + 1, Len(res)) \in Seq(Characters)
    <3>1. \A k, j \in Nat : k <= j /\ j <= Len(res) => SubSeq(res, k + 1, j) \in Seq(Characters)
      BY <2>1, PiecesOf
    <3> SUFFICES ASSUME Len(res) > Piece
                 PROVE  /\ SubSeq(res, 0 + 1, Piece) \in Seq(Characters)
                        /\ SubSeq(res, Piece + 1, Len(res)) \in Seq(Characters)
      BY <2>2
    <3> QED BY <2>2, <3>1
  <2> QED BY <2>1, <2>2, <2>3, SizeAssumption DEF Text, Rest, More
<1>5. e \in Packet /\ e.text = Text /\ e.last = ~ More(res)
  BY <1>4 DEF Packet, Marked, More
<1> HIDE DEF e
<1>6. /\ toClient \in Seq(Packet) /\ Len(toClient) \in Nat
      /\ client # "gone" =>
            /\ toClient' \in Seq(Packet) /\ Len(toClient') = Len(toClient) + 1
            /\ \A i \in 1 .. Len(toClient) : toClient'[i] = toClient[i]
            /\ toClient'[Len(toClient) + 1] = e
  <2> DEFINE S == Packet
  <2>1. toClient \in Seq(S) /\ e \in S
    BY <1>5 DEF Types
  <2> HIDE DEF S
  <2>2. Len(toClient) \in Nat
    BY <2>1
  <2>3. LET w == Append(toClient, e)
        IN  /\ w \in Seq(S) /\ Len(w) = Len(toClient) + 1
            /\ \A i \in 1 .. Len(toClient) : w[i] = toClient[i]
            /\ w[Len(toClient) + 1] = e
    BY <2>1
  <2> QED BY <1>1, <2>1, <2>2, <2>3 DEF S
<1>7. Types'
  <2>1. res' \in Seq(Characters) /\ toClient' \in Seq(Packet)
    BY <1>1, <1>4, <1>6
  <2> QED BY <1>1, <1>2, <2>1 DEF Types
<1>8. Done' /\ Last(performed').text = t
  BY <1>1, <1>3 DEF Done
<1>9. Numbers'
  BY <1>1, <1>3, <1>8 DEF Numbers, Done
<1>10. OnTheWay'
  BY <1>1, <1>2, <1>3, <1>8 DEF OnTheWay
<1>11. Bounds'
  BY <1>1, <1>3, <1>6, SizeAssumption DEF Bounds
<1>12. Pieces'
  <2>1. CASE client = "gone"
    BY <1>1, <2>1 DEF Pieces
  <2>2. CASE client = "waiting"
    <3> DEFINE n == Len(toClient)
               a == EndOf(n)
    <3>1. AnswerOf(t)
      BY <1>3, <2>2 DEF Pieces
    <3> HIDE DEF t
    <3>2. a <= Len(t) /\ res = SubSeq(t, a + 1, Len(t)) /\ n \in Nat
          /\ toClient' = Append(toClient, e) /\ Len(printed) \in Nat
      BY <1>1, <1>6, <2>2, <3>1 DEF AnswerOf, Types
    <3>3. a \in Nat
      <4>1. n * Piece \in Nat
        BY <3>2, NextEnd
      <4> DEFINE k == n * Piece
      <4>2. k \in Nat /\ a = Len(printed) + k
        BY <4>1 DEF EndOf
      <4> HIDE DEF k, a
      <4> QED BY <3>2, <4>2
    <3>4. EndOf(n + 1) = a + Piece
      <4> DEFINE k == n * Piece
      <4>1. k \in Nat /\ EndOf(n + 1) = Len(printed) + (k + Piece) /\ a = Len(printed) + k
        BY <3>2, NextEnd DEF EndOf
      <4> HIDE DEF k, a
      <4> QED BY <3>2, <4>1, SizeAssumption
    <3> HIDE DEF a
    <3>5. /\ Len(res) = Len(t) - a
          /\ More(res) => a + Piece <= Len(t) /\ Text = SubSeq(t, a + 1, a + Piece)
                             /\ Rest = SubSeq(t, a + Piece + 1, Len(t))
          /\ ~ More(res) => Text = SubSeq(t, a + 1, Len(t))
      <4>1. t \in Seq(Characters)
        BY <1>3 DEF t
      <4>2. \A r : r = SubSeq(t, a + 1, Len(t)) =>
               /\ Len(r) = Len(t) - a
               /\ Len(r) > Piece =>
                     /\ a + Piece <= Len(t)
                     /\ SubSeq(r, 1, Piece) = SubSeq(t, a + 1, a + Piece)
                     /\ SubSeq(r, Piece + 1, Len(r)) = SubSeq(t, a + Piece + 1, Len(t))
        BY <3>2, <3>3, <4>1, Split
      <4>3. Len(t) \in Nat
        BY <4>1
      <4>4. /\ More(res) => Text = SubSeq(res, 1, Piece) /\ Rest = SubSeq(res, Piece + 1, Len(res))
            /\ ~ More(res) => Text = res
            /\ More(res) = (Len(res) > Piece)
        BY <1>4, SizeAssumption DEF More, Text, Rest
      <4> HIDE DEF n
      <4> QED BY <3>2, <4>2, <4>4
    <3>6. \A i \in Nat : EndOf(i)' = EndOf(i)
      BY <1>1 DEF EndOf
    <3>7. ASSUME NEW i \in 1 .. Len(toClient') PROVE PieceOf(t, i)'
      <4>1. t' = t /\ i \in Nat /\ i - 1 \in Nat /\ n \in Nat /\ Len(toClient') = n + 1
        BY <1>1, <1>6, <2>2, <3>7 DEF t
      <4>2. EndOf(i)' = EndOf(i) /\ EndOf(i - 1)' = EndOf(i - 1)
        BY <3>6, <4>1
      <4>3. CASE i \in 1 .. n
        <5>1. PieceOf(t, i) /\ toClient'[i] = toClient[i]
          BY <1>6, <2>2, <3>1, <4>3 DEF AnswerOf
        <5>2. ~ toClient[i].last
          BY <1>1, <5>1 DEF PieceOf
        <5> QED BY <4>1, <4>2, <5>1, <5>2 DEF PieceOf
      <4>4. CASE i = n + 1
        <5>1. EndOf(i - 1) = a /\ EndOf(i) = a + Piece
          BY <3>4, <4>1, <4>4 DEF a
        <5>2. toClient'[i] = e
          BY <1>6, <2>2, <4>4
        <5>3. server' # "answering" \/ More(res)
          BY <1>2
        <5> QED BY <1>5, <3>2, <3>5, <4>1, <4>2, <4>4, <5>1, <5>2, <5>3 DEF PieceOf
      <4> QED BY <4>1, <4>3, <4>4, <3>7
    <3>8. server' = "answering" =>
             /\ (EndOf(Len(toClient)))' <= Len(t)
             /\ res' = SubSeq(t, (EndOf(Len(toClient)))' + 1, Len(t))
      <4>1. (EndOf(Len(toClient)))' = EndOf(n + 1)
        BY <1>1, <1>6, <2>2 DEF EndOf
      <4> QED BY <1>1, <1>2, <3>4, <3>5, <4>1
    <3>9. AnswerOf(t)'
      BY <1>1, <3>1, <3>7, <3>8 DEF AnswerOf, t
    <3> QED BY <1>1, <1>8, <2>2, <3>9 DEF Pieces, t
  <2> QED BY <1>3, <2>1, <2>2
<1> QED BY <1>7, <1>9, <1>10, <1>11, <1>12

----------------------------------------------------------------------------
(* The invariant holds *)

LEMMA StepKeeps == SessionInv /\ [Next]_vars => SessionInv'
<1> SUFFICES ASSUME SessionInv, [Next]_vars PROVE SessionInv'
  OBVIOUS
<1>1. CASE UNCHANGED vars
  <2>1. UNCHANGED <<client, unsent, printed, toServer, toClient, server, taken, res, asked, performed, shown>>
    BY <1>1 DEF vars, clientVars, connection, serverVars, history
  <2>2. Types' /\ Numbers' /\ OnTheWay'
    BY <2>1 DEF SessionInv, Types, Numbers, OnTheWay, Done
  <2>3. Bounds' /\ Pieces'
    BY <2>1 DEF SessionInv, Bounds, Pieces, Done, AnswerOf, PieceOf, EndOf
  <2> QED BY <2>2, <2>3 DEF SessionInv
<1>2. CASE \E q \in Queries : Ask(q)
  BY <1>2, AskKeeps
<1>3. CASE ClientStep
  BY <1>3, SendKeeps, ShowPacketKeeps, GiveUpKeeps DEF ClientStep
<1>4. CASE ServerStep
  BY <1>4, ReceiveKeeps, InputEndsKeeps, AnswerKeeps DEF ServerStep
<1>5. CASE ClientDies \/ ServerDies
  BY <1>5, ClientDiesKeeps, ServerDiesKeeps
<1> QED BY <1>1, <1>2, <1>3, <1>4, <1>5 DEF Next

LEMMA Invariance == Spec => []SessionInv
BY InitOK, StepKeeps, PTL DEF Spec

\* The variables have their types, and neither the connection nor the message
\* being read grows past its bound: send in common.c and pb_decode_delimited.
THEOREM TypeCorrect == Spec => []TypeOK
<1>1. SessionInv => TypeOK
  <2> SUFFICES ASSUME SessionInv PROVE TypeOK
    OBVIOUS
  <2>1. Len(performed) <= Len(asked)
    <3>1. performed = <<>> => Len(performed) = 0
      OBVIOUS
    <3> QED BY <3>1, LastOnes DEF SessionInv, Numbers
  <2> QED BY <2>1 DEF SessionInv, Types, Numbers, Bounds, TypeOK
<1> QED BY <1>1, Invariance, PTL

\* Nothing of an answer is left for the next statement (sendData, main.y): a
\* client that has read the marked packet has read every packet.
THEOREM NothingIsLeft == Spec => []NothingLeft
<1>1. SessionInv => NothingLeft
  BY DEF SessionInv, Pieces, NothingLeft
<1> QED BY <1>1, Invariance, PTL

----------------------------------------------------------------------------
(* The session implements the service *)

\* What is performed is the statement last asked, whole unless the client is
\* gone.
LEMMA HandledPerforms ==
    ASSUME SessionInv, ~ Done, asked # <<>>, Last(asked) \in Encodable,
           NEW n \in 0 .. Len(Last(asked)),
           client = "gone" \/ n = Len(Last(asked)),
           Handled(SubSeq(Last(asked), 1, n)), UNCHANGED <<client, asked, shown>>
    PROVE  Promise!Perform
<1>1. PICK t \in Texts :
         performed' = Append(performed,
            [number |-> Len(asked), parts |-> SubSeq(Last(asked), 1, n), text |-> t])
  BY DEF Handled
<1>2. performed # <<>> => Last(performed).number < Len(asked)
  BY LastOnes DEF SessionInv, Numbers, Done
<1>3. (client' = "gone") = (client = "gone") /\ UNCHANGED <<asked, shown>>
  OBVIOUS
<1> QED BY <1>1, <1>2, <1>3 DEF Promise!Perform, Promise!Performed, Promise!Last, Last

LEMMA ReceiveRefines ==
    ASSUME SessionInv, Receive
    PROVE  Promise!Perform \/ UNCHANGED <<asked, performed, shown, client>>
<1> DEFINE all == Append(taken, Head(toServer))
           q == Last(asked)
<1>1. /\ server = "receiving" /\ toServer # <<>>
      /\ UNCHANGED <<client, asked, shown>>
  BY DEF Receive, clientVars
<1>2. /\ ~ Done /\ asked # <<>> /\ q \in Queries /\ q \in Encodable
      /\ all[1].parts = Len(q) /\ Len(q) \in Nat
      /\ Len(all) = Len(q) + 1 => Tail(all) = q
  BY <1>1, WhatCame
<1>3. /\ Len(all) = Len(q) + 1 => Handled(Tail(all))
      /\ Len(all) # Len(q) + 1 => UNCHANGED performed
  BY <1>2 DEF Receive
<1> HIDE DEF all
<1>4. CASE Len(all) = Len(q) + 1
  <2>1. q \in Seq(Parts) /\ SubSeq(q, 1, Len(q)) = q
    BY <1>2, SequenceAssumption, SubSeqFull
  <2>2. Handled(SubSeq(q, 1, Len(q))) /\ Len(q) \in 0 .. Len(q)
    <3>1. Tail(all) = SubSeq(q, 1, Len(q)) /\ Handled(Tail(all)) /\ Len(q) \in 0 .. Len(q)
      BY <1>2, <1>3, <1>4, <2>1
    <3> HIDE DEF q
    <3> QED BY <3>1 DEF Handled
  <2>3. Promise!Perform
    BY <1>1, <1>2, <2>2, HandledPerforms
  <2> QED BY <2>3
<1> QED BY <1>1, <1>3, <1>4

LEMMA InputEndsRefines ==
    ASSUME SessionInv, InputEnds
    PROVE  Promise!Perform \/ UNCHANGED <<asked, performed, shown, client>>
<1>1. server = "receiving" /\ client = "gone" /\ UNCHANGED <<client, asked, shown>>
  BY DEF InputEnds, clientVars
<1>2. UNCHANGED performed \/ (taken # <<>> /\ Handled(Tail(taken)))
  BY DEF InputEnds, Cut
<1>3. CASE taken # <<>> /\ Handled(Tail(taken))
  <2>1. /\ ~ Done /\ asked # <<>> /\ Last(asked) \in Encodable
        /\ \E n \in 0 .. Len(Last(asked)) : Tail(taken) = SubSeq(Last(asked), 1, n)
    BY <1>1, <1>3, WhatWasTaken
  <2>2. PICK n \in 0 .. Len(Last(asked)) : Tail(taken) = SubSeq(Last(asked), 1, n)
    BY <2>1
  <2>3. Handled(SubSeq(Last(asked), 1, n))
    BY <1>3, <2>2
  <2> QED BY <1>1, <2>1, <2>3, HandledPerforms
<1> QED BY <1>1, <1>2, <1>3

LEMMA ShowPacketRefines ==
    ASSUME SessionInv, ShowPacket
    PROVE  Promise!Show \/ UNCHANGED <<asked, performed, shown, client>>
<1> DEFINE p == Head(toClient)
           t == Last(performed).text
<1>1. /\ client = "waiting" /\ toClient # <<>> /\ printed' = printed \o p.text
      /\ UNCHANGED <<asked, performed>>
      /\ ~ p.last => UNCHANGED <<shown, client>>
      /\ p.last => client' = "ready" /\ shown' = Append(shown, [number |-> Len(asked), text |-> printed'])
  BY DEF ShowPacket
<1>2. /\ Done /\ AnswerOf(t) /\ (shown # <<>> => Last(shown).number < Len(asked))
      /\ performed # <<>> /\ Last(performed).number = Len(asked) /\ t \in Seq(Characters)
  <2>1. Done /\ AnswerOf(t) /\ (shown # <<>> => Last(shown).number < Len(asked))
    BY <1>1 DEF SessionInv, Pieces, Numbers
  <2> QED BY <2>1, LastOnes DEF Done, SessionInv
<1>3. CASE p.last
  <2>1. printed' = t
    BY <1>1, <1>2, <1>3, LastPacketEnds
  <2>2. client # "gone" /\ (client' = "gone") = (client = "gone")
    BY <1>1, <1>3
  <2>3. shown' = Append(shown, [number |-> Len(asked), text |-> t])
    BY <1>1, <1>3, <2>1
  <2>4. Promise!Show
    BY <1>1, <1>2, <2>2, <2>3 DEF Promise!Show, Promise!Last, Last
  <2> QED BY <2>4
<1> QED BY <1>1, <1>3

LEMMA PromiseInit == Init => Promise!Init
BY DEF Init, Promise!Init

LEMMA PromiseStep == SessionInv /\ [Next]_vars => [Promise!Next]_(Promise!vars)
<1> SUFFICES ASSUME SessionInv, [Next]_vars PROVE Promise!Next \/ UNCHANGED Promise!vars
  BY DEF Promise!vars
<1>1. ASSUME UNCHANGED <<asked, performed, shown, client>> PROVE UNCHANGED Promise!vars
  BY <1>1 DEF Promise!vars
<1>2. CASE \E q \in Queries : Ask(q)
  <2>1. PICK q \in Queries : Ask(q)
    BY <1>2
  <2>2. Promise!Ask
    BY <2>1 DEF Ask, Promise!Ask
  <2> QED BY <2>2 DEF Promise!Next
<1>3. CASE Send
  <2>1. client = "sending" /\ UNCHANGED <<asked, performed, shown>>
    BY <1>3 DEF Send, history
  <2>2. CASE client' = "gone"
    BY <2>1, <2>2 DEF Promise!Leave, Promise!Next
  <2>3. CASE client' # "gone"
    BY <2>1, <2>3 DEF Promise!vars
  <2> QED BY <2>2, <2>3
<1>4. CASE ShowPacket
  BY <1>1, <1>4, ShowPacketRefines DEF Promise!Next
<1>5. CASE GiveUp
  BY <1>5 DEF GiveUp, history, Promise!vars
<1>6. CASE Receive
  BY <1>1, <1>6, ReceiveRefines DEF Promise!Next
<1>7. CASE InputEnds
  BY <1>1, <1>7, InputEndsRefines DEF Promise!Next
<1>8. CASE Answer
  BY <1>8 DEF Answer, clientVars, history, Promise!vars
<1>9. CASE ClientDies
  <2>1. Promise!Leave
    BY <1>9 DEF ClientDies, history, Promise!Leave
  <2> QED BY <2>1 DEF Promise!Next
<1>10. CASE ServerDies
  BY <1>10 DEF ServerDies, clientVars, history, Promise!vars
<1>11. CASE UNCHANGED vars
  BY <1>1, <1>11 DEF vars, clientVars, history
<1> QED
  BY <1>2, <1>3, <1>4, <1>5, <1>6, <1>7, <1>8, <1>9, <1>10, <1>11
  DEF Next, ClientStep, ServerStep

\* The client and the server keep what Service promises: each statement that
\* can be encoded is performed at most once, as it was asked, and the answer
\* that is shown for it is its own and whole; no other one is performed.
THEOREM SessionServes == Spec => ServiceSpec
<1>1. Init /\ [][Next]_vars /\ []SessionInv => ServiceSpec
  BY PromiseInit, PromiseStep, PTL DEF ServiceSpec, Promise!Spec
<1> QED BY <1>1, Invariance, PTL DEF Spec

----------------------------------------------------------------------------
(* The pieces on the connection make the answer *)

\* A set of numbers has a least one.
LEMMA LeastOf ==
    ASSUME NEW T \in SUBSET Nat, T # {}
    PROVE  \E x \in T : \A y \in T : x <= y
<1> DEFINE R == OpToRel(<, Nat)
<1>1. IsWellFoundedOn(R, Nat)
  BY NatLessThanWellFounded
<1> HIDE DEF R
<1>2. PICK t \in T : \A y \in T : <<y, t>> \notin R
  BY <1>1, WFMin
<1>3. \A y, z \in Nat : y < z => <<y, z>> \in R
  BY DEF R, OpToRel
<1>4. ASSUME NEW y \in T PROVE t <= y
  <2>1. y \in Nat /\ t \in Nat
    OBVIOUS
  <2>2. ~ (y < t)
    BY <1>2, <1>3, <2>1
  <2> QED BY <2>1, <2>2
<1> QED BY <1>4

\* Sequences are joined one by one.
LEMMA JoinedOneByOne ==
    ASSUME NEW seqs, NEW n \in Nat, n = Len(seqs), n # 0
    PROVE  \E f : /\ FlattenSeq(seqs) = f[n]
                  /\ f[1] = seqs[1]
                  /\ \A i \in 2 .. n : f[i] = f[i - 1] \o seqs[i]
<1> DEFINE At(f, i) == IF i = 1 THEN seqs[i] ELSE f[i - 1] \o seqs[i]
           Is(f, k) == f = [i \in 1 .. k |-> At(f, i)]
           All == CHOOSE f : Is(f, n)
<1>1. \A k \in 1 .. n : \E f : Is(f, k)
  <2> DEFINE T == {k \in 1 .. n : ~ \E f : Is(f, k)}
  <2> HIDE DEF Is
  <2> SUFFICES ASSUME T # {} PROVE FALSE
    OBVIOUS
  <2>1. T \in SUBSET Nat /\ \A j \in 1 .. n : j \notin T => \E f : Is(f, j)
    OBVIOUS
  <2>2. PICK k \in T : \A j \in T : k <= j
    BY <2>1, LeastOf
  <2>3. k \in 1 .. n /\ ~ \E f : Is(f, k)
    OBVIOUS
  <2> HIDE DEF T
  <2>4. k # 1
    <3> DEFINE one == [i \in 1 .. 1 |-> seqs[1]]
    <3>1. Is(one, 1)
      BY DEF Is
    <3> QED BY <2>3, <3>1
  <2>5. k - 1 \in 1 .. n /\ k - 1 \notin T
    BY <2>2, <2>3, <2>4
  <2>6. PICK f : Is(f, k - 1)
    BY <2>1, <2>5
  <2> DEFINE next == [i \in 1 .. k |-> IF i = k THEN At(f, k) ELSE f[i]]
  <2>7. \A i \in 1 .. k : next[i] = At(next, i)
    <3> SUFFICES ASSUME NEW i \in 1 .. k PROVE next[i] = At(next, i)
      OBVIOUS
    <3>1. i # 1 => i - 1 \in 1 .. k - 1 /\ i - 1 # k /\ next[i - 1] = f[i - 1]
      BY <2>3
    <3>2. At(next, i) = At(f, i)
      BY <3>1
    <3>3. CASE i = k
      BY <3>2, <3>3
    <3>4. CASE i # k
      <4>1. i \in 1 .. k - 1
        BY <2>3, <3>4
      <4>2. f[i] = At(f, i)
        BY <2>6, <4>1 DEF Is
      <4> QED BY <3>2, <3>4, <4>2
    <3> QED BY <3>3, <3>4
  <2>8. Is(next, k)
    BY <2>7 DEF Is
  <2> QED BY <2>3, <2>8
<1>2. Is(All, n)
  <2> HIDE DEF Is
  <2>1. n \in 1 .. n
    OBVIOUS
  <2>2. \E f : Is(f, n)
    BY <1>1, <2>1
  <2> QED BY <2>2
<1>3. FlattenSeq(seqs) = All[n]
  BY DEF FlattenSeq
<1> HIDE DEF All
<1>4. \A i \in 1 .. n : All[i] = At(All, i)
  BY <1>2
<1>5. All[1] = seqs[1] /\ \A i \in 2 .. n : All[i] = All[i - 1] \o seqs[i]
  <2>1. 1 \in 1 .. n /\ \A i \in 2 .. n : i \in 1 .. n /\ i # 1
    OBVIOUS
  <2> QED BY <1>4, <2>1
<1> QED BY <1>3, <1>5

\* The answer of a statement that is waited for ends with the server, or with
\* the marked packet.
EndComes ==
    client = "waiting" /\ Done /\ server = "receiving" =>
        toClient # <<>> /\ toClient[Len(toClient)].last

LEMMA EndStep == SessionInv /\ SessionInv' /\ EndComes /\ [Next]_vars => EndComes'
<1> SUFFICES ASSUME SessionInv, EndComes, [Next]_vars, client' = "waiting", Done', server' = "receiving"
             PROVE  toClient' # <<>> /\ toClient'[Len(toClient')].last
  BY DEF EndComes
<1>1. CASE UNCHANGED vars
  BY <1>1 DEF EndComes, Done, vars, clientVars, connection, serverVars, history
<1>2. CASE \E q \in Queries : Ask(q)
  <2>1. asked' # <<>> /\ Len(asked') = Len(asked) + 1 /\ performed' = performed
    <3>1. PICK q \in Queries : asked' = Append(asked, q) /\ performed' = performed
      BY <1>2 DEF Ask
    <3>2. asked \in Seq(Queries)
      BY DEF SessionInv, Types
    <3> QED BY <3>1, <3>2
  <2>2. ~ Done'
    BY <2>1, LastOnes DEF Done, SessionInv, Numbers
  <2> QED BY <2>2
<1>3. CASE Send
  BY <1>3 DEF Send, SessionInv, Numbers, Done, history, serverVars
<1>4. CASE ShowPacket
  <2>1. ~ Head(toClient).last /\ client = "waiting" /\ Done /\ server = "receiving"
        /\ toClient # <<>> /\ toClient' = Tail(toClient)
    BY <1>4 DEF ShowPacket, Done, serverVars
  <2> DEFINE S == Packet
  <2>2. toClient \in Seq(S) /\ toClient[Len(toClient)].last
    BY <2>1 DEF EndComes, SessionInv, Types
  <2> HIDE DEF S
  <2>3. Head(toClient) = toClient[1] /\ Len(toClient) \in Nat \ {0}
    BY <2>1, <2>2
  <2>4. Len(toClient) > 1
    BY <2>1, <2>2, <2>3
  <2>5. /\ toClient' \in Seq(S) /\ Len(toClient') = Len(toClient) - 1
        /\ \A i \in 1 .. Len(toClient) - 1 : toClient'[i] = toClient[i + 1]
    BY <2>1, <2>2, <2>3
  <2>6. toClient'[Len(toClient')] = toClient[Len(toClient)] /\ Len(toClient') # 0
    BY <2>3, <2>4, <2>5
  <2> QED BY <2>2, <2>5, <2>6, EmptySeq
<1>5. CASE GiveUp \/ ClientDies \/ ServerDies
  BY <1>5 DEF GiveUp, ClientDies, ServerDies
<1>6. CASE Receive
  <2>1. client = "waiting" /\ server = "receiving" /\ toClient' = toClient
    BY <1>6 DEF Receive, clientVars
  <2>2. performed' = performed /\ asked' = asked
    BY <1>6 DEF Receive, Handled
  <2> QED BY <2>1, <2>2 DEF EndComes, Done
<1>7. CASE InputEnds
  BY <1>7 DEF InputEnds, clientVars
<1>8. CASE Answer
  <2>1. client = "waiting" /\ server = "answering"
    BY <1>8 DEF Answer, clientVars
  <2>2. toClient' = Append(toClient, [text |-> Text, last |-> Marked]) /\ ~ More(res)
    BY <1>8, <2>1 DEF Answer
  <2> DEFINE e == [text |-> Text, last |-> Marked]
             S == Packet \cup {e}
  <2>3. toClient \in Seq(S) /\ e \in S
    <3>1. toClient \in Seq(Packet)
      BY DEF SessionInv, Types
    <3> QED BY <3>1, SeqMonotonic
  <2>4. e.last
    BY <2>2 DEF Marked
  <2> HIDE DEF e, S
  <2>5. toClient' # <<>> /\ Last(toClient') = e
    BY <2>2, <2>3, AppendIs DEF e
  <2> QED BY <2>4, <2>5 DEF Last
<1> QED BY <1>1, <1>2, <1>3, <1>4, <1>5, <1>6, <1>7, <1>8 DEF Next, ClientStep, ServerStep

\* The packets on the connection are the answer from where it was printed up to
\* where the last of them ends.
StopOf(t, i) == IF toClient[i].last THEN Len(t) ELSE EndOf(i)

LEMMA JoinedIs ==
    ASSUME SessionInv, NEW t \in Seq(Characters), AnswerOf(t), toClient # <<>>
    PROVE  LET stop == StopOf(t, Len(toClient))
           IN  /\ stop \in Nat /\ Len(printed) <= stop /\ stop <= Len(t)
               /\ Joined(toClient) = SubSeq(t, Len(printed) + 1, stop)
<1> DEFINE n == Len(toClient)
           l == Len(printed)
           texts == [i \in DOMAIN toClient |-> toClient[i].text]
<1>1. n \in Nat \ {0} /\ DOMAIN toClient = 1 .. n /\ l \in Nat /\ Len(t) \in Nat
  <2> DEFINE S == Packet
  <2>1. toClient \in Seq(S)
    BY DEF SessionInv, Types
  <2> HIDE DEF S
  <2>2. n \in Nat \ {0} /\ DOMAIN toClient = 1 .. n
    BY <2>1
  <2> QED BY <2>2 DEF SessionInv, Types
<1>2. Len(texts) = n /\ \A i \in 1 .. n : texts[i] = toClient[i].text
  BY <1>1
<1>3. \A i \in 1 .. n : PieceOf(t, i)
  BY DEF AnswerOf
<1>4. Joined(toClient) = FlattenSeq(texts)
  BY DEF Joined
<1> HIDE DEF texts
<1>5. PICK f : /\ FlattenSeq(texts) = f[n]
               /\ f[1] = texts[1]
               /\ \A i \in 2 .. n : f[i] = f[i - 1] \o texts[i]
  BY <1>1, <1>2, JoinedOneByOne
<1> DEFINE Whole(i) == /\ StopOf(t, i) \in Nat /\ l <= StopOf(t, i) /\ StopOf(t, i) <= Len(t)
                       /\ f[i] = SubSeq(t, l + 1, StopOf(t, i))
           T == {i \in 1 .. n : ~ Whole(i)}
<1>6. ASSUME NEW i \in 1 .. n
      PROVE  /\ i \in Nat /\ EndOf(i - 1) \in Nat /\ EndOf(i) = EndOf(i - 1) + Piece
             /\ l <= EndOf(i - 1) /\ EndOf(1 - 1) = l
  <2>1. i \in Nat /\ i - 1 \in Nat /\ (i - 1) + 1 = i
    BY <1>1
  <2> DEFINE j == i - 1
             k == j * Piece
  <2>2. k \in Nat /\ (j + 1) * Piece = k + Piece /\ 0 * Piece = 0
    BY <2>1, NextEnd
  <2>3. EndOf(i) = l + (k + Piece) /\ EndOf(i - 1) = l + k /\ EndOf(1 - 1) = l + 0
    BY <2>1, <2>2 DEF EndOf
  <2> HIDE DEF k, j, l
  <2> QED BY <1>1, <2>1, <2>2, <2>3, SizeAssumption
<1>7. ASSUME NEW i \in 1 .. n
      PROVE  /\ EndOf(i - 1) <= StopOf(t, i) /\ StopOf(t, i) <= Len(t) /\ StopOf(t, i) \in Nat
             /\ texts[i] = SubSeq(t, EndOf(i - 1) + 1, StopOf(t, i))
  <2>1. PieceOf(t, i) /\ texts[i] = toClient[i].text
    BY <1>2, <1>3
  <2>2. /\ EndOf(i - 1) \in Nat /\ EndOf(i) = EndOf(i - 1) + Piece /\ Piece \in Nat
    BY <1>6, SizeAssumption
  <2>3. CASE toClient[i].last
    BY <1>1, <2>1, <2>3 DEF PieceOf, StopOf
  <2>4. CASE ~ toClient[i].last
    <3>1. StopOf(t, i) = EndOf(i) /\ EndOf(i) <= Len(t)
      BY <2>1, <2>4 DEF PieceOf, StopOf
    <3>2. texts[i] = SubSeq(t, EndOf(i - 1) + 1, EndOf(i))
      BY <2>1, <2>4 DEF PieceOf
    <3> QED BY <2>2, <3>1, <3>2
  <2> QED BY <2>3, <2>4
<1>8. ASSUME NEW i \in 1 .. n, i # 1
      PROVE  i - 1 \in 1 .. n /\ StopOf(t, i - 1) = EndOf(i - 1)
  <2>1. i - 1 \in 1 .. n /\ i - 1 # n
    BY <1>1, <1>8
  <2>2. PieceOf(t, i - 1)
    BY <1>3, <2>1
  <2> QED BY <2>1, <2>2 DEF PieceOf, StopOf
<1>9. \A i, j \in Nat : i <= j /\ j <= Len(t) =>
          SubSeq(t, 1, i) \o SubSeq(t, i + 1, j) = SubSeq(t, 1, j)
  BY PiecesOf
<1>10. ASSUME NEW a \in Nat, NEW b \in Nat, NEW c \in Nat, a <= b, b <= c, c <= Len(t)
       PROVE  SubSeq(t, a + 1, b) \o SubSeq(t, b + 1, c) = SubSeq(t, a + 1, c)
  BY <1>1, <1>10, ConcatAdjacentSubSeq
<1>11. \A i \in 1 .. n : Whole(i)
  <2> SUFFICES ASSUME T # {} PROVE FALSE
    OBVIOUS
  <2>1. T \in SUBSET Nat
    BY <1>1
  <2>2. PICK i \in T : \A j \in T : i <= j
    BY <2>1, LeastOf
  <2>3. i \in 1 .. n /\ ~ Whole(i) /\ \A j \in 1 .. n : j \notin T => Whole(j)
    OBVIOUS
  <2> HIDE DEF T
  <2>4. CASE i = 1
    <3>1. 1 \in 1 .. n
      BY <1>1
    <3> QED BY <1>1, <1>5, <1>6, <1>7, <2>3, <2>4, <3>1
  <2>5. CASE i # 1
    <3>1. i - 1 \in 1 .. n /\ StopOf(t, i - 1) = EndOf(i - 1) /\ i - 1 \notin T /\ i \in 2 .. n
      BY <1>1, <1>8, <2>2, <2>3, <2>5
    <3>2. f[i - 1] = SubSeq(t, l + 1, EndOf(i - 1))
      BY <2>3, <3>1
    <3>3. f[i] = f[i - 1] \o texts[i]
      BY <1>5, <3>1
    <3>4. /\ EndOf(i - 1) \in Nat /\ l <= EndOf(i - 1)
          /\ EndOf(i - 1) <= StopOf(t, i) /\ StopOf(t, i) <= Len(t) /\ StopOf(t, i) \in Nat
          /\ texts[i] = SubSeq(t, EndOf(i - 1) + 1, StopOf(t, i))
      BY <1>6, <1>7, <2>3
    <3>5. f[i] = SubSeq(t, l + 1, StopOf(t, i))
      <4> HIDE DEF l
      <4>1. SubSeq(t, l + 1, EndOf(i - 1)) \o SubSeq(t, EndOf(i - 1) + 1, StopOf(t, i))
              = SubSeq(t, l + 1, StopOf(t, i))
        BY <1>1, <1>10, <3>4
      <4> QED BY <3>2, <3>3, <3>4, <4>1
    <3> QED BY <1>1, <2>3, <3>4, <3>5
  <2> QED BY <2>4, <2>5
<1>12. Whole(n)
  BY <1>1, <1>11
<1> QED BY <1>4, <1>5, <1>12

\* What the client has printed, what is on the connection and what the server
\* has still to send are the answer of the statement last asked: sendResponse
\* in common.c and sendData in main.y.
THEOREM AnswersAreWhole == Spec => []PiecesMakeTheAnswer
<1>1. SessionInv /\ EndComes => PiecesMakeTheAnswer
  <2> SUFFICES ASSUME SessionInv, EndComes, client = "waiting", server # "ended"
               PROVE  IF Done THEN printed \o Joined(toClient) \o res = Last(performed).text
                      ELSE printed = <<>> /\ toClient = <<>> /\ res = <<>>
    BY DEF PiecesMakeTheAnswer, Done
  <2>1. server \in {"receiving", "answering"} /\ (server = "receiving" => res = <<>>)
    BY DEF SessionInv, Types, OnTheWay
  <2>2. CASE ~ Done
    <3>1. server = "receiving"
      BY <2>1, <2>2 DEF SessionInv, OnTheWay
    <3> QED BY <2>1, <2>2, <3>1 DEF SessionInv, Pieces
  <2>3. CASE Done
    <3> DEFINE t == Last(performed).text
               n == Len(toClient)
               l == Len(printed)
               joined == Joined(toClient)
               stop == IF toClient = <<>> THEN l ELSE StopOf(t, n)
    <3>1. AnswerOf(t) /\ t \in Seq(Characters)
      BY <2>3, LastOnes DEF SessionInv, Pieces, Done
    <3> HIDE DEF t
    <3>2. l \in Nat /\ l <= Len(t) /\ printed = SubSeq(t, 1, l) /\ n \in Nat /\ Len(t) \in Nat
          /\ printed \in Seq(Characters) /\ res \in Seq(Characters)
      BY <3>1 DEF AnswerOf, SessionInv, Types
    <3>3. stop \in Nat /\ l <= stop /\ stop <= Len(t) /\ joined = SubSeq(t, l + 1, stop)
      <4>1. CASE toClient = <<>>
        <5>1. joined = <<>>
          BY <4>1 DEF Joined, FlattenSeq
        <5>2. SubSeq(t, l + 1, l) = <<>>
          BY <3>1, <3>2, SubSeqEmpty
        <5>3. stop = l
          BY <4>1
        <5> HIDE DEF l, joined, stop
        <5> QED BY <3>2, <5>1, <5>2, <5>3
      <4>2. CASE toClient # <<>>
        BY <3>1, <4>2, JoinedIs
      <4> QED BY <4>1, <4>2
    <3>4. server = "answering" => stop = EndOf(n)
      <4> SUFFICES ASSUME server = "answering" PROVE stop = EndOf(n)
        OBVIOUS
      <4>1. CASE toClient = <<>>
        <5>1. n = 0
          BY <4>1
        <5>2. EndOf(n) = l + n * Piece /\ stop = l
          BY <4>1 DEF EndOf
        <5>3. 0 * Piece = 0
          BY NextEnd
        <5> HIDE DEF l, n, stop
        <5> QED BY <3>2, <5>1, <5>2, <5>3
      <4>2. CASE toClient # <<>>
        <5>1. n \in 1 .. n
          <6>1. n # 0
            BY <4>2 DEF SessionInv, Types
          <6> QED BY <3>2, <6>1
        <5>2. PieceOf(t, n)
          BY <3>1, <5>1 DEF AnswerOf
        <5> QED BY <4>2, <5>2 DEF PieceOf, StopOf
      <4> QED BY <4>1, <4>2
    <3>5. server = "receiving" => stop = Len(t)
      BY <2>3 DEF EndComes, StopOf
    <3>6. server = "answering" => res = SubSeq(t, EndOf(n) + 1, Len(t))
      BY <3>1 DEF AnswerOf
    <3> HIDE DEF stop, joined, l, n
    <3>7. printed \o joined = SubSeq(t, 1, stop)
      <4>1. SubSeq(t, 1, l) \o SubSeq(t, l + 1, stop) = SubSeq(t, 1, stop)
        BY <3>1, <3>2, <3>3, PiecesOf
      <4> QED BY <3>2, <3>3, <4>1
    <3>8. (printed \o joined) \o res = t
      <4>1. CASE server = "answering"
        <5>1. SubSeq(t, 1, stop) \o SubSeq(t, stop + 1, Len(t)) = SubSeq(t, 1, Len(t))
          <6>1. stop \in Nat /\ Len(t) \in Nat /\ stop <= Len(t) /\ Len(t) <= Len(t)
            BY <3>2, <3>3
          <6>2. \A i, j \in Nat : i <= j /\ j <= Len(t) =>
                   SubSeq(t, 1, i) \o SubSeq(t, i + 1, j) = SubSeq(t, 1, j)
            BY <3>1, PiecesOf
          <6> QED BY <6>1, <6>2
        <5> QED BY <3>1, <3>4, <3>6, <3>7, <4>1, <5>1, PiecesOf
      <4>2. CASE server = "receiving"
        <5>1. t \o <<>> = t
          BY <3>1
        <5> QED BY <2>1, <3>1, <3>5, <3>7, <4>2, <5>1, PiecesOf
      <4> QED BY <2>1, <4>1, <4>2
    <3> QED BY <2>3, <3>8 DEF t, joined
  <2> QED BY <2>2, <2>3
<1>2. Init => EndComes
  BY DEF Init, EndComes
<1>3. SessionInv /\ SessionInv' /\ EndComes /\ [Next]_vars => EndComes'
  BY EndStep
<1> QED BY <1>1, <1>2, <1>3, Invariance, PTL DEF Spec
====
