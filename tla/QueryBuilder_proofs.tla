------------------------ MODULE QueryBuilder_proofs ------------------------
(* Proofs about QueryBuilder for statements of every length, whatever broken *)
(* statements left behind; all but the last also for $or nested in $or.      *)
EXTENDS QueryBuilder, SequenceTheorems, FiniteSetTheorems, TLAPS

Entries == [comparator : Comparators, connected : Comparators \cup {NoComparator}]

----------------------------------------------------------------------------
(* The $or brackets that are open *)

Seconds(o) == Cardinality({n \in DOMAIN o : o[n] = "second"})

LEMMA SecondsIs ==
    ASSUME NEW o \in Seq({"first", "second"})
    PROVE  /\ IsFiniteSet({n \in DOMAIN o : o[n] = "second"}) /\ Seconds(o) \in Nat
<1> DEFINE S == {n \in DOMAIN o : o[n] = "second"}
<1>1. DOMAIN o = 1 .. Len(o) /\ Len(o) \in Nat
  OBVIOUS
<1>2. IsFiniteSet(1 .. Len(o))
  BY <1>1, FS_Interval
<1>3. IsFiniteSet(S)
  BY <1>1, <1>2, FS_Subset
<1> QED BY <1>3, FS_CardinalityType DEF Seconds

LEMMA NoBrackets == Seconds(<<>>) = 0
<1>1. {n \in DOMAIN <<>> : <<>>[n] = "second"} = {}
  OBVIOUS
<1> QED BY <1>1, FS_EmptySet DEF Seconds

\* A bracket that is opened waits for its first filter.
LEMMA Opened ==
    ASSUME NEW o \in Seq({"first", "second"})
    PROVE  Append(o, "first") \in Seq({"first", "second"}) /\ Seconds(Append(o, "first")) = Seconds(o)
<1> DEFINE w == Append(o, "first")
<1>1. /\ w \in Seq({"first", "second"}) /\ DOMAIN o = 1 .. Len(o) /\ Len(o) \in Nat
      /\ DOMAIN w = 1 .. Len(o) + 1 /\ w[Len(o) + 1] = "first"
      /\ \A n \in 1 .. Len(o) : w[n] = o[n]
  OBVIOUS
<1> HIDE DEF w
<1>2. ASSUME NEW n
      PROVE  (n \in DOMAIN w /\ w[n] = "second") <=> (n \in DOMAIN o /\ o[n] = "second")
  <2>1. n \in DOMAIN w <=> n \in DOMAIN o \/ n = Len(o) + 1
    BY <1>1
  <2> QED BY <1>1, <2>1
<1>3. {n \in DOMAIN w : w[n] = "second"} = {n \in DOMAIN o : o[n] = "second"}
  BY <1>2, Zenon
<1> QED BY <1>1, <1>3 DEF Seconds, w

\* What is left of the brackets below the innermost one.
LEMMA Closed ==
    ASSUME NEW o \in Seq({"first", "second"}), o # <<>>
    PROVE  /\ Front(o) \in Seq({"first", "second"})
           /\ Last(o) = "second" => Seconds(o) = Seconds(Front(o)) + 1
           /\ Last(o) = "first"  => Seconds(o) = Seconds(Front(o))
           /\ Append(Front(o), "second") \in Seq({"first", "second"})
           /\ Seconds(Append(Front(o), "second")) = Seconds(Front(o)) + 1
<1> DEFINE f == Front(o)
           w == Append(f, "second")
           k == Len(o)
           S == {n \in DOMAIN f : f[n] = "second"}
<1>1. /\ k \in Nat \ {0} /\ DOMAIN o = 1 .. k /\ Last(o) = o[k]
      /\ f \in Seq({"first", "second"}) /\ DOMAIN f = 1 .. k - 1
      /\ \A n \in 1 .. k - 1 : f[n] = o[n]
  <2>1. k \in Nat \ {0} /\ DOMAIN o = 1 .. k /\ Last(o) = o[k]
    BY DEF Last
  <2>2. \A n \in 1 .. k - 1 : o[n] \in {"first", "second"}
    BY <2>1
  <2>3. f = SubSeq(o, 1, k - 1)
    BY DEF Front
  <2> QED BY <2>1, <2>2, <2>3
<1> HIDE DEF f, k
<1>2. /\ w \in Seq({"first", "second"}) /\ DOMAIN w = 1 .. k /\ w[k] = "second"
      /\ \A n \in 1 .. k - 1 : w[n] = f[n]
  <2>1. Len(f) = k - 1
    BY <1>1
  <2> QED BY <1>1, <2>1
<1> HIDE DEF w
<1>3. \A n : n \in 1 .. k <=> n \in 1 .. k - 1 \/ n = k
  BY <1>1
<1>4. k \notin 1 .. k - 1
  BY <1>1
<1>5. IsFiniteSet(S) /\ k \notin S /\ Cardinality(S) \in Nat
  BY <1>1, <1>4, SecondsIs DEF Seconds
<1>6. Cardinality(S \cup {k}) = Cardinality(S) + 1
  BY <1>5, FS_AddElement
<1>7. {n \in DOMAIN w : w[n] = "second"} = S \cup {k}
  BY <1>1, <1>2, <1>3, <1>4, Zenon
<1>8. Last(o) = "second" => {n \in DOMAIN o : o[n] = "second"} = S \cup {k}
  BY <1>1, <1>3, <1>4, Zenon
<1>9. Last(o) = "first" => {n \in DOMAIN o : o[n] = "second"} = S
  <2>1. "first" # "second"
    OBVIOUS
  <2> QED BY <1>1, <1>3, <1>4, <2>1, Zenon
<1> QED BY <1>1, <1>2, <1>6, <1>7, <1>8, <1>9 DEF Seconds, f, w

----------------------------------------------------------------------------
(* Sequences, place by place *)

\* Something is put at the head of a sequence.
LEMMA OnTop ==
    ASSUME NEW S, NEW s \in Seq(S), NEW e \in S
    PROVE  /\ <<e>> \o s \in Seq(S) /\ Len(<<e>> \o s) = Len(s) + 1
           /\ (<<e>> \o s)[1] = e
           /\ \A i \in 1 .. Len(s) : (<<e>> \o s)[i + 1] = s[i]
<1>1. <<e>> \in Seq(S) /\ Len(<<e>>) = 1 /\ <<e>>[1] = e
  OBVIOUS
<1> QED BY <1>1

LEMMA Joint ==
    ASSUME NEW S, NEW a \in Seq(S), NEW b \in Seq(S)
    PROVE  /\ a \o b \in Seq(S) /\ Len(a \o b) = Len(a) + Len(b) /\ Len(b) \in Nat
           /\ \A i \in 1 .. Len(a) : (a \o b)[i] = a[i]
           /\ \A i \in 1 .. Len(b) : (a \o b)[Len(a) + i] = b[i]
OBVIOUS

\* Two heads are taken, one is put back.
LEMMA TwoForOne ==
    ASSUME NEW S, NEW s \in Seq(S), Len(s) >= 2, NEW e \in S
    PROVE  /\ <<e>> \o Tail(Tail(s)) \in Seq(S) /\ Len(<<e>> \o Tail(Tail(s))) = Len(s) - 1
           /\ (<<e>> \o Tail(Tail(s)))[1] = e
           /\ \A i \in 2 .. Len(s) - 1 : (<<e>> \o Tail(Tail(s)))[i] = s[i + 1]
<1> DEFINE t == Tail(Tail(s))
<1>1. t \in Seq(S) /\ Len(t) = Len(s) - 2 /\ \A i \in 1 .. Len(s) - 2 : t[i] = s[i + 2]
  <2> DEFINE r == Tail(s)
  <2>1. r \in Seq(S) /\ Len(r) = Len(s) - 1 /\ \A i \in 1 .. Len(s) - 1 : r[i] = s[i + 1]
    OBVIOUS
  <2>2. Len(s) \in Nat
    OBVIOUS
  <2> HIDE DEF r
  <2>3. Tail(r) \in Seq(S) /\ Len(Tail(r)) = Len(r) - 1
        /\ \A i \in 1 .. Len(r) - 1 : Tail(r)[i] = r[i + 1]
    BY <2>1
  <2>4. ASSUME NEW i \in 1 .. Len(s) - 2  PROVE  Tail(r)[i] = s[i + 2]
    BY <2>1, <2>2, <2>3, <2>4
  <2>5. Tail(r) = t
    BY DEF r
  <2> QED BY <2>1, <2>2, <2>3, <2>4, <2>5
<1> HIDE DEF t
<1>2. /\ <<e>> \o t \in Seq(S) /\ Len(<<e>> \o t) = Len(t) + 1 /\ (<<e>> \o t)[1] = e
      /\ \A i \in 1 .. Len(t) : (<<e>> \o t)[i + 1] = t[i]
  BY <1>1, OnTop
<1>3. ASSUME NEW i \in 2 .. Len(s) - 1  PROVE  (<<e>> \o t)[i] = s[i + 1]
  <2>1. i - 1 \in 1 .. Len(t) /\ (i - 1) + 1 = i /\ (i - 1) + 2 = i + 1
    BY <1>1
  <2> QED BY <1>1, <1>2, <2>1
<1> QED BY <1>1, <1>2, <1>3 DEF t

\* What lies under n heads.
LEMMA Under ==
    ASSUME NEW S, NEW s \in Seq(S), NEW n \in 0 .. Len(s)
    PROVE  /\ SubSeq(s, n + 1, Len(s)) \in Seq(S)
           /\ Len(SubSeq(s, n + 1, Len(s))) = Len(s) - n
           /\ \A i \in 1 .. Len(s) - n : SubSeq(s, n + 1, Len(s))[i] = s[n + i]
<1>1. \A i \in n + 1 .. Len(s) : s[i] \in S
  OBVIOUS
<1> QED BY <1>1

LEMMA SameSeq ==
    ASSUME NEW S, NEW s \in Seq(S), NEW t \in Seq(S), Len(s) = Len(t),
           \A i \in 1 .. Len(s) : s[i] = t[i]
    PROVE  s = t
OBVIOUS

----------------------------------------------------------------------------
(* The invariant.  `Under` the statement's own entries cmp holds what broken *)
(* statements left, place by place.                                          *)

\* Brackets are open and filters wait only while filters are read; a message
\* is kept only until the next statement begins.
Quiet ==
    /\ at \notin {"filter", "filterRead"} => commas = 0 /\ ors = <<>>
    /\ at # "start" => sent = <<>>

StackKept ==
    at # "start" =>
        /\ stale.cmp \in Seq(Entries)
        /\ Len(cmp) = Own + Len(stale.cmp)
        /\ \A i \in 1 .. Len(stale.cmp) : cmp[Own + i] = stale.cmp[i]

BuilderInv == TypeOK /\ Quiet /\ StackKept /\ SentLeavesNothing

\* One more entry is the statement's own once a filter was read.
OneMore == IF at = "filterRead" THEN 1 ELSE 0

LEMMA OwnIs ==
    /\ Own = commas + Seconds(ors) + OneMore
    /\ Own' = commas' + Seconds(ors') + OneMore'
    /\ OneMore = (IF at = "filterRead" THEN 1 ELSE 0)
    /\ OneMore' = (IF at' = "filterRead" THEN 1 ELSE 0)
BY DEF Own, OneMore, Seconds

LEMMA InitInv == Init => BuilderInv
<1> SUFFICES ASSUME Init  PROVE  BuilderInv
  OBVIOUS
<1>1. TypeOK
  BY DEF Init, TypeOK
<1> QED BY <1>1 DEF Init, BuilderInv, Quiet, StackKept, SentLeavesNothing

\* What the statement owns, and that cmp is as large.
LEMMA OwnsNat ==
    ASSUME BuilderInv
    PROVE  /\ commas \in Nat /\ Seconds(ors) \in Nat /\ cmp \in Seq(Entries)
           /\ ors \in Seq({"first", "second"}) /\ filters \in Seq(Seq(Comparators))
           /\ settings \in Seq(Settings)
           /\ Own = commas + Seconds(ors) + OneMore
           /\ Own \in Nat
<1>1. commas \in Nat /\ ors \in Seq({"first", "second"}) /\ cmp \in Seq(Entries)
  BY DEF BuilderInv, TypeOK, Entries
<1>2. Seconds(ors) \in Nat
  BY <1>1, SecondsIs
<1>3. OneMore \in {0, 1}
  BY OwnIs
<1>4. Own = commas + Seconds(ors) + OneMore
  BY OwnIs
<1>5. Own \in Nat
  BY <1>1, <1>2, <1>3, <1>4
<1> QED BY <1>1, <1>2, <1>4, <1>5 DEF BuilderInv, TypeOK

\* What broken statements left in cmp.
Old == stale.cmp

\* What StackKept says, with the lengths.
LEMMA StackIs ==
    ASSUME BuilderInv, at # "start"
    PROVE  /\ Old \in Seq(Entries) /\ Len(Old) \in Nat
           /\ Len(cmp) = Own + Len(Old) /\ Len(cmp) \in Nat
           /\ \A i \in 1 .. Len(Old) : cmp[Own + i] = Old[i]
<1>1. /\ Old \in Seq(Entries) /\ Len(cmp) = Own + Len(Old)
      /\ \A i \in 1 .. Len(Old) : cmp[Own + i] = Old[i]
  BY Zenon DEF BuilderInv, StackKept, Old
<1>2. \A t \in Seq(Entries) : Len(t) \in Nat
  OBVIOUS
<1>3. cmp \in Seq(Entries)
  BY OwnsNat
<1> QED BY <1>1, <1>2, <1>3, Zenon

LEMMA StackSize ==
    ASSUME BuilderInv, at # "start"
    PROVE  /\ Len(Old) \in Nat /\ Own \in Nat /\ Len(cmp) \in Nat
           /\ Len(cmp) = Own + Len(Old)
           /\ cmp \in Seq(Entries) /\ Old \in Seq(Entries)
BY StackIs, OwnsNat, Zenon

LEMMA StackThen ==
    ASSUME stale' = stale, Old \in Seq(Entries), Len(cmp') = Own' + Len(Old),
           \A i \in 1 .. Len(Old) : cmp'[Own' + i] = Old[i]
    PROVE  StackKept'
<1>1. Old' = Old
  BY DEF Old
<1> QED BY <1>1, Zenon DEF StackKept, Old

\* Steps that leave cmp alone and do not change what the statement owns of it.
LEMMA StackRests ==
    ASSUME BuilderInv, UNCHANGED cmp, UNCHANGED stale, at # "start", Own' = Own
    PROVE  StackKept'
BY DEF BuilderInv, StackKept

\* When the statement owns nothing, cmp is what it found.
LEMMA OwnsNothing ==
    ASSUME BuilderInv, at # "start", Own = 0
    PROVE  cmp = Old
<1>1. Old \in Seq(Entries) /\ Len(cmp) = Len(Old) /\ cmp \in Seq(Entries)
      /\ \A i \in 1 .. Len(cmp) : cmp[i] = Old[i]
  <2>1. \A i \in 1 .. Len(Old) : 0 + i = i
    OBVIOUS
  <2>2. Old \in Seq(Entries) /\ Len(Old) \in Nat
    BY StackIs, Zenon
  <2> QED BY <2>1, <2>2, StackIs, OwnsNat
<1> QED BY <1>1, SameSeq

LEMMA BeginKeeps ==
    ASSUME BuilderInv, NEW c \in {"receive", "delete", "insert", "update"}, Begin(c)
    PROVE  BuilderInv'
<1>1. TypeOK'
  BY DEF BuilderInv, TypeOK, Begin, building
<1>2. Quiet' /\ SentLeavesNothing'
  BY DEF BuilderInv, Quiet, SentLeavesNothing, Begin, building
<1>3. StackKept'
  <2>1. commas' = 0 /\ ors' = <<>> /\ at' # "filterRead" /\ cmp' = cmp /\ stale'.cmp = cmp
    BY DEF BuilderInv, Quiet, Begin, building, Now
  <2>2. Own' = 0
    BY <2>1, OwnIs, NoBrackets 
  <2>3. cmp \in Seq(Entries) /\ Len(cmp) \in Nat
    BY OwnsNat
  <2> QED BY <2>1, <2>2, <2>3 DEF StackKept
<1> QED BY <1>1, <1>2, <1>3 DEF BuilderInv

\* A comparator that is read lies on top.
LEMMA ReadFilterKeeps ==
    ASSUME BuilderInv, NEW c \in Comparators, ReadFilter(c)
    PROVE  BuilderInv'
<1>1. Entry(c) \in Entries
  BY DEF Entry, Entries
<1>2. /\ cmp' \in Seq(Entries) /\ Len(cmp') = Len(cmp) + 1
      /\ \A i \in 1 .. Len(cmp) : cmp'[i + 1] = cmp[i]
  <2>1. cmp \in Seq(Entries) /\ cmp' = <<Entry(c)>> \o cmp
    BY OwnsNat, Zenon DEF ReadFilter, Pushed
  <2>2. \A t \in Seq(Entries) :
            /\ <<Entry(c)>> \o t \in Seq(Entries) /\ Len(<<Entry(c)>> \o t) = Len(t) + 1
            /\ \A i \in 1 .. Len(t) : (<<Entry(c)>> \o t)[i + 1] = t[i]
    BY <1>1, OnTop
  <2> QED BY <2>1, <2>2, Zenon
<1>3. TypeOK'
  BY <1>2 DEF BuilderInv, TypeOK, ReadFilter, Entries
<1>4. Quiet' /\ SentLeavesNothing'
  BY DEF BuilderInv, Quiet, SentLeavesNothing, ReadFilter
<1>5. StackKept'
  <2>1. Own' = Own + 1 /\ Own \in Nat
    <3>1. /\ at = "filter" /\ at' = "filterRead" /\ commas' = commas /\ ors' = ors
      BY DEF ReadFilter
    <3>2. OneMore = 0 /\ OneMore' = 1
      BY <3>1, OwnIs
    <3> QED BY <3>1, <3>2, OwnIs, OwnsNat
  <2>2. stale' = stale /\ at # "start"
    BY DEF ReadFilter
  <2>3. ASSUME NEW i \in 1 .. Len(Old)  PROVE  cmp'[Own' + i] = Old[i]
    <3>1. Own + i \in 1 .. Len(cmp) /\ Own' + i = (Own + i) + 1
      BY <2>1, <2>2, StackIs
    <3> QED BY <3>1, <1>2, <2>2, StackIs
  <2>4. Len(cmp') = Own' + Len(Old)
    BY <1>2, <2>1, <2>2, StackSize
  <2> QED BY <2>2, <2>3, <2>4, StackIs, StackThen, Zenon
<1> QED BY <1>3, <1>4, <1>5 DEF BuilderInv

LEMMA OpenOrKeeps ==
    ASSUME BuilderInv, OpenOr
    PROVE  BuilderInv'
<1>1. ors' \in Seq({"first", "second"}) /\ Seconds(ors') = Seconds(ors)
  BY Opened, OwnsNat DEF OpenOr
<1>2. TypeOK'
  BY <1>1 DEF BuilderInv, TypeOK, OpenOr, building
<1>3. Quiet' /\ SentLeavesNothing'
  BY DEF BuilderInv, Quiet, SentLeavesNothing, OpenOr, building
<1>4. Own' = Own
  BY <1>1, OwnIs DEF OpenOr
<1>5. StackKept'
  BY <1>4, StackRests DEF OpenOr, building
<1> QED BY <1>2, <1>3, <1>5 DEF BuilderInv

\* The filter before the comma goes on waiting in cmp.
LEMMA NextFilterKeeps ==
    ASSUME BuilderInv, NextFilter
    PROVE  BuilderInv'
<1>1. /\ ors' \in Seq({"first", "second"}) /\ commas' \in Nat
      /\ commas' + Seconds(ors') = commas + Seconds(ors) + 1
  <2>1. CASE ors # <<>> /\ Last(ors) = "first" /\ ors' = Append(Front(ors), "second")
             /\ commas' = commas
    <3>1. /\ Seconds(ors') = Seconds(Front(ors)) + 1 /\ Seconds(ors) = Seconds(Front(ors))
          /\ ors' \in Seq({"first", "second"})
      BY <2>1, Closed, OwnsNat
    <3> QED BY <2>1, <3>1, OwnsNat
  <2>2. CASE commas' = commas + 1 /\ ors' = ors
    <3>1. commas \in Nat /\ Seconds(ors) \in Nat /\ ors' \in Seq({"first", "second"})
      BY <2>2, OwnsNat, Zenon
    <3>2. Seconds(ors') = Seconds(ors)
      BY <2>2, Zenon
    <3>3. commas' \in Nat /\ commas' + Seconds(ors') = commas + Seconds(ors) + 1
      BY <2>2, <3>1, <3>2
    <3> QED BY <3>1, <3>3
  <2> QED BY <2>1, <2>2 DEF NextFilter
<1>2. TypeOK'
  BY <1>1 DEF BuilderInv, TypeOK, NextFilter, building
<1>3. Quiet' /\ SentLeavesNothing'
  BY DEF BuilderInv, Quiet, SentLeavesNothing, NextFilter, building
<1>4. Own' = Own
  <2>1. at = "filterRead" /\ at' = "filter"
    BY DEF NextFilter
  <2>2. Seconds(ors') \in Nat
    BY <1>1, SecondsIs
  <2> QED BY <1>1, <2>1, <2>2, OwnIs, OwnsNat 
<1>5. StackKept'
  BY <1>4, StackRests DEF NextFilter, building
<1> QED BY <1>2, <1>3, <1>5 DEF BuilderInv

\* setComp takes two entries, both of this statement, and puts one back.
LEMMA CloseOrKeeps ==
    ASSUME BuilderInv, CloseOr
    PROVE  BuilderInv'
<1>1. /\ ors' \in Seq({"first", "second"}) /\ Seconds(ors) = Seconds(ors') + 1
      /\ Seconds(ors') \in Nat
  BY Closed, OwnsNat, SecondsIs DEF CloseOr
<1>2. at = "filterRead" /\ Own >= 2 /\ Own' = Own - 1
  <2>1. at = "filterRead" /\ at' = "filterRead" /\ commas' = commas
    BY DEF CloseOr
  <2>2. OneMore = 1 /\ OneMore' = 1
    BY <2>1, OwnIs
  <2>3. commas \in Nat /\ Own = commas + Seconds(ors) + OneMore
        /\ Own' = commas' + Seconds(ors') + OneMore'
    BY OwnIs, OwnsNat, Zenon
  <2> QED BY <1>1, <2>1, <2>2, <2>3
<1>3. /\ stale' = stale /\ Old \in Seq(Entries) /\ Len(cmp) = Own + Len(Old)
      /\ Len(Old) \in Nat
      /\ \A i \in 1 .. Len(Old) : cmp[Own + i] = Old[i]
  BY <1>2, StackIs DEF CloseOr
<1>4. [cmp[1] EXCEPT !.connected = cmp[2].comparator] \in Entries
  <2>1. cmp \in Seq(Entries) /\ 1 \in 1 .. Len(cmp) /\ 2 \in 1 .. Len(cmp)
    BY <1>2, <1>3, OwnsNat
  <2>2. cmp[1] \in Entries /\ cmp[2] \in Entries
    BY <2>1
  <2> QED BY <2>2 DEF Entries
<1>5. /\ cmp' \in Seq(Entries) /\ Len(cmp') = Len(cmp) - 1
      /\ \A i \in 2 .. Len(cmp) - 1 : cmp'[i] = cmp[i + 1]
  <2>1. Len(cmp) >= 2
    BY <1>2, <1>3, OwnsNat
  <2> DEFINE both == [cmp[1] EXCEPT !.connected = cmp[2].comparator]
  <2>2. cmp \in Seq(Entries) /\ cmp' = <<both>> \o Tail(Tail(cmp))
    BY OwnsNat, Zenon DEF CloseOr, Connected
  <2>3. both \in Entries
    BY <1>4
  <2> HIDE DEF both
  <2>4. \A t \in Seq(Entries) : Len(t) >= 2 =>
            /\ <<both>> \o Tail(Tail(t)) \in Seq(Entries)
            /\ Len(<<both>> \o Tail(Tail(t))) = Len(t) - 1
            /\ \A i \in 2 .. Len(t) - 1 : (<<both>> \o Tail(Tail(t)))[i] = t[i + 1]
    BY <2>3, TwoForOne
  <2> QED BY <2>1, <2>2, <2>4, Zenon
<1>6. TypeOK'
  BY <1>1, <1>5 DEF BuilderInv, TypeOK, CloseOr, Entries
<1>7. Quiet' /\ SentLeavesNothing'
  BY DEF BuilderInv, Quiet, SentLeavesNothing, CloseOr
<1>8. StackKept'
  <2>1. ASSUME NEW i \in 1 .. Len(Old)  PROVE  cmp'[Own' + i] = Old[i]
    <3>1. Own' + i \in 2 .. Len(cmp) - 1 /\ (Own' + i) + 1 = Own + i
      <4>1. Own \in Nat /\ Len(Old) \in Nat /\ Len(cmp) = Own + Len(Old)
        BY <1>3, OwnsNat, Zenon
      <4>2. Own' = Own - 1 /\ Own >= 2
        BY <1>2
      <4> QED BY <4>1, <4>2
    <3> QED BY <3>1, <1>5, <1>3
  <2>2. Len(cmp') = Own' + Len(Old)
    BY <1>2, <1>5, StackSize
  <2> QED BY <2>1, <2>2, <1>3, StackThen, Zenon
<1> QED BY <1>6, <1>7, <1>8 DEF BuilderInv

\* switchFilter takes the statement's own entries, and no other.
LEMMA FiltersReducedKeeps ==
    ASSUME BuilderInv, at = "filterRead", ors = <<>>, FiltersReduced
    PROVE  /\ filters' \in Seq(Seq(Comparators)) /\ commas' = 0
           /\ cmp' \in Seq(Entries) /\ cmp' = Old
<1>1. Own = commas + 1 /\ commas \in Nat
  BY OwnIs, OwnsNat, NoBrackets
<1>2. Len(cmp) >= commas + 1
  BY <1>1, StackSize
<1>3. /\ cmp' \in Seq(Entries) /\ Len(cmp') = Len(cmp) - (commas + 1)
      /\ \A i \in 1 .. Len(cmp) - (commas + 1) : cmp'[i] = cmp[(commas + 1) + i]
  <2>1. commas + 1 \in 0 .. Len(cmp) /\ cmp \in Seq(Entries)
    BY <1>1, <1>2, OwnsNat, StackIs
  <2> DEFINE n == commas + 1
  <2>2. cmp' = SubSeq(cmp, n + 1, Len(cmp))
    BY DEF FiltersReduced, Unswitched
  <2>3. n \in 0 .. Len(cmp)
    BY <2>1
  <2> HIDE DEF n
  <2>4. /\ cmp' \in Seq(Entries) /\ Len(cmp') = Len(cmp) - n
        /\ \A i \in 1 .. Len(cmp) - n : cmp'[i] = cmp[n + i]
    BY <2>1, <2>2, <2>3, Under
  <2> QED BY <2>4 DEF n
<1>4. cmp' = Old
  <2>1. Len(cmp') = Len(Old) /\ Old \in Seq(Entries)
    <3>1. at # "start"
      OBVIOUS
    <3>2. Len(Old) \in Nat /\ Len(cmp) = Own + Len(Old) /\ Old \in Seq(Entries)
      BY <3>1, StackSize, Zenon
    <3> QED BY <1>1, <1>3, <3>2
  <2>2. ASSUME NEW i \in 1 .. Len(cmp')  PROVE  cmp'[i] = Old[i]
    BY <1>1, <1>3, <2>1, StackIs
  <2> QED BY <1>3, <2>1, <2>2, SameSeq
<1>5. filters' \in Seq(Seq(Comparators))
  <2> DEFINE n == commas + 1
             r == [i \in 1 .. n |-> FilterOf(cmp[n + 1 - i])]
  <2>1. n \in Nat /\ cmp \in Seq(Entries) /\ n <= Len(cmp)
    BY <1>1, <1>2, OwnsNat
  <2>2. filters' = r \o filters
    BY DEF FiltersReduced, Switched
  <2> HIDE DEF n
  <2>3. ASSUME NEW i \in 1 .. n  PROVE  FilterOf(cmp[n + 1 - i]) \in Seq(Comparators)
    <3>1. n + 1 - i \in 1 .. Len(cmp)
      BY <2>1
    <3>2. cmp[n + 1 - i] \in Entries
      BY <2>1, <3>1
    <3> QED BY <3>2 DEF FilterOf, Entries
  <2>4. r \in Seq(Seq(Comparators))
    BY <2>1, <2>3
  <2> HIDE DEF r
  <2> QED BY <2>2, <2>4, OwnsNat
<1> QED BY <1>3, <1>4, <1>5 DEF FiltersReduced

LEMMA EndFiltersKeeps ==
    ASSUME BuilderInv, EndFilters
    PROVE  BuilderInv'
<1>1. /\ filters' \in Seq(Seq(Comparators)) /\ commas' = 0
      /\ cmp' \in Seq(Entries) /\ cmp' = Old
  BY FiltersReducedKeeps DEF EndFilters
<1>2. TypeOK'
  BY <1>1 DEF BuilderInv, TypeOK, EndFilters, Entries
<1>3. Quiet' /\ SentLeavesNothing'
  BY <1>1 DEF BuilderInv, Quiet, SentLeavesNothing, EndFilters
<1>4. StackKept'
  <2>1. Own' = 0
    BY <1>1, OwnIs, NoBrackets DEF EndFilters
  <2>2. stale' = stale /\ at # "start"
    BY DEF EndFilters
  <2>3. Len(cmp') = 0 + Len(Old) /\ \A i \in 1 .. Len(Old) : cmp'[0 + i] = Old[i]
    BY <1>1
  <2> QED BY <1>1, <2>1, <2>2, <2>3, StackThen, Zenon
<1> QED BY <1>2, <1>3, <1>4 DEF BuilderInv

LEMMA ReadParentKeeps ==
    ASSUME BuilderInv, NEW c \in Comparators, ReadParent(c)
    PROVE  BuilderInv'
<1>1. filters' \in Seq(Seq(Comparators))
  <2>1. Entry(c) \in Entries /\ FilterOf(Entry(c)) \in Seq(Comparators)
    BY NoComparatorAssumption DEF Entry, Entries, FilterOf
  <2> QED BY <2>1, OnTop, OwnsNat DEF ReadParent
<1>2. TypeOK'
  BY <1>1 DEF BuilderInv, TypeOK, ReadParent
<1>3. Quiet' /\ SentLeavesNothing'
  BY DEF BuilderInv, Quiet, SentLeavesNothing, ReadParent
<1>4. Own' = Own
  BY OwnIs DEF ReadParent
<1>5. StackKept'
  BY <1>4, StackRests DEF ReadParent
<1> QED BY <1>2, <1>3, <1>5 DEF BuilderInv

LEMMA ReadSettingKeeps ==
    ASSUME BuilderInv, NEW s \in Settings, ReadSetting(s)
    PROVE  BuilderInv'
<1>1. settings' \in Seq(Settings)
  BY OnTop, OwnsNat DEF ReadSetting, Added
<1>2. TypeOK'
  BY <1>1 DEF BuilderInv, TypeOK, ReadSetting
<1>3. Quiet' /\ SentLeavesNothing'
  BY DEF BuilderInv, Quiet, SentLeavesNothing, ReadSetting
<1>4. Own' = Own
  BY OwnIs DEF ReadSetting
<1>5. StackKept'
  BY <1>4, StackRests DEF ReadSetting
<1> QED BY <1>2, <1>3, <1>5 DEF BuilderInv

LEMMA AfterSettingKeeps ==
    ASSUME BuilderInv, AfterSetting
    PROVE  BuilderInv'
<1>1. TypeOK'
  BY DEF BuilderInv, TypeOK, AfterSetting, building
<1>2. Quiet' /\ SentLeavesNothing'
  BY DEF BuilderInv, Quiet, SentLeavesNothing, AfterSetting, building
<1>3. Own' = Own
  BY OwnIs DEF AfterSetting
<1>4. StackKept'
  BY <1>3, StackRests DEF AfterSetting, building
<1> QED BY <1>1, <1>2, <1>4 DEF BuilderInv

LEMMA SendKeeps ==
    ASSUME BuilderInv, Send
    PROVE  BuilderInv'
<1>1. TypeOK'
  BY DEF BuilderInv, TypeOK, Send, Emptied
<1>2. Quiet' /\ StackKept'
  BY DEF BuilderInv, Quiet, StackKept, Send
<1>3. cmp = Old
  <2>1. commas = 0 /\ ors = <<>> /\ at = "end"
    BY DEF BuilderInv, Quiet, Send
  <2>2. Own = 0
    BY <2>1, OwnIs, NoBrackets
  <2> QED BY <2>1, <2>2, OwnsNothing
<1>4. SentLeavesNothing'
  BY <1>3 DEF Old, SentLeavesNothing, Send, Emptied
<1> QED BY <1>1, <1>2, <1>4 DEF BuilderInv

LEMMA SyntaxErrorKeeps ==
    ASSUME BuilderInv, SyntaxError
    PROVE  BuilderInv'
<1>1. /\ filters' \in Seq(Seq(Comparators)) /\ commas' = 0 /\ cmp' \in Seq(Entries)
  <2>1. CASE at = "filterRead" /\ ors = <<>> /\ FiltersReduced
    BY <2>1, FiltersReducedKeeps
  <2>2. CASE commas' = 0 /\ UNCHANGED <<filters, cmp>>
    BY <2>2, OwnsNat
  <2> QED BY <2>1, <2>2 DEF SyntaxError
<1>2. TypeOK'
  BY <1>1 DEF BuilderInv, TypeOK, SyntaxError, Entries
<1>3. sent' = <<>> /\ at' = "start" /\ ors' = <<>>
  BY DEF BuilderInv, Quiet, SyntaxError
<1> QED BY <1>1, <1>2, <1>3 DEF BuilderInv, Quiet, StackKept, SentLeavesNothing

LEMMA NextInv == BuilderInv /\ [Next]_vars => BuilderInv'
<1> SUFFICES ASSUME BuilderInv, [Next]_vars  PROVE  BuilderInv'
  OBVIOUS
<1>1. CASE Reads
  <2>1. CASE \E c \in {"receive", "delete", "insert", "update"} : Begin(c)
    BY <2>1, BeginKeeps
  <2>2. CASE \E c \in Comparators : ReadFilter(c) \/ ReadParent(c)
    BY <2>2, ReadFilterKeeps, ReadParentKeeps
  <2>3. CASE \E s \in Settings : ReadSetting(s)
    BY <2>3, ReadSettingKeeps
  <2>4. CASE OpenOr \/ NextFilter \/ CloseOr \/ EndFilters \/ AfterSetting \/ Send
    BY <2>4, OpenOrKeeps, NextFilterKeeps, CloseOrKeeps, EndFiltersKeeps, AfterSettingKeeps,
       SendKeeps
  <2> QED BY <1>1, <2>1, <2>2, <2>3, <2>4 DEF Reads
<1>2. CASE SyntaxError
  BY <1>2, SyntaxErrorKeeps
<1>3. CASE UNCHANGED vars
  <2>1. UNCHANGED Own
    BY <1>3 DEF vars, building, parsing, Own
  <2> QED BY <1>3, <2>1 DEF vars, building, parsing, BuilderInv, TypeOK, Quiet, StackKept,
                            SentLeavesNothing
<1> QED BY <1>1, <1>2, <1>3 DEF Next

\* The types of the lists, of cmp and of the parser's state, whatever is typed
\* and wherever it breaks off (the grammar's actions, switchFilter).
THEOREM TypeCorrect == Spec => []TypeOK
<1>1. BuilderInv => TypeOK
  BY DEF BuilderInv
<1> QED BY <1>1, InitInv, NextInv, PTL DEF Spec

\* However deep $or is nested: setComp and switchFilter take a statement's own
\* comparators, and leave those of statements that broke off as they are.
THEOREM CmpStaysStack == Spec => []CmpIsStack
<1>1. BuilderInv => CmpIsStack
  <2> SUFFICES ASSUME BuilderInv, at # "start"
               PROVE  Len(cmp) >= Own /\ SubSeq(cmp, Own + 1, Len(cmp)) = Old
    BY DEF CmpIsStack, Old
  <2> DEFINE low == SubSeq(cmp, Own + 1, Len(cmp))
  <2>1. Own \in 0 .. Len(cmp) /\ cmp \in Seq(Entries)
    BY StackIs, OwnsNat
  <2>2. /\ low \in Seq(Entries) /\ Len(low) = Len(cmp) - Own
        /\ \A i \in 1 .. Len(cmp) - Own : low[i] = cmp[Own + i]
    BY <2>1, Under
  <2> HIDE DEF low
  <2>3. Len(low) = Len(Old) /\ \A i \in 1 .. Len(low) : low[i] = Old[i]
    <3>1. /\ Own \in Nat /\ Len(Old) \in Nat /\ Len(cmp) = Own + Len(Old)
          /\ \A i \in 1 .. Len(Old) : cmp[Own + i] = Old[i]
      BY StackIs, OwnsNat, Zenon
    <3>2. Len(low) = Len(Old) /\ Len(cmp) - Own = Len(Old)
      BY <2>2, <3>1
    <3> QED BY <2>2, <3>1, <3>2, Zenon
  <2>4. low = Old
    BY <2>2, <2>3, StackIs, SameSeq
  <2> QED BY <2>1, <2>4 DEF low
<1> QED BY <1>1, InitInv, NextInv, PTL DEF Spec

\* A message takes all filters and settings with it, for statements of every
\* length (sendData, parseQuery, switchFilter).
THEOREM MessagesLeaveNothing == Spec => []SentLeavesNothing
<1>1. BuilderInv => SentLeavesNothing
  BY DEF BuilderInv
<1> QED BY <1>1, InitInv, NextInv, PTL DEF Spec

----------------------------------------------------------------------------
(* What a message says.  With one level of $or a filter of the statement is  *)
(* at most two entries of cmp, and becomes one.                              *)

Said         == typed.filters
SaidSettings == typed.settings
OldFilters   == stale.filters
OldSettings  == stale.settings

Meant(e)  == ToSet(FilterOf(e))
Simple(e) == e.connected = NoComparator

LEMMA MeantEntry ==
    ASSUME NEW c \in Comparators
    PROVE  Entry(c) \in Entries /\ Meant(Entry(c)) = {c} /\ Simple(Entry(c))
<1>1. Entry(c) \in Entries /\ Simple(Entry(c)) /\ FilterOf(Entry(c)) = <<c>>
  BY DEF Entry, Entries, Simple, FilterOf
<1>2. ToSet(<<c>>) = {c}
  BY DEF ToSet
<1> QED BY <1>1, <1>2 DEF Meant

LEMMA MeantBoth ==
    ASSUME NEW a \in Entries, NEW b \in Entries, Simple(a), Simple(b)
    PROVE  /\ [a EXCEPT !.connected = b.comparator] \in Entries
           /\ Meant([a EXCEPT !.connected = b.comparator]) = Meant(a) \cup Meant(b)
<1> DEFINE w == [a EXCEPT !.connected = b.comparator]
<1>1. /\ w \in Entries /\ w.comparator = a.comparator /\ w.connected = b.comparator
      /\ b.comparator # NoComparator
  BY NoComparatorAssumption DEF Entries
<1> HIDE DEF w
<1>2. FilterOf(w) = <<a.comparator, b.comparator>>
  BY <1>1 DEF FilterOf
<1>3. FilterOf(a) = <<a.comparator>> /\ FilterOf(b) = <<b.comparator>>
  BY DEF FilterOf, Simple
<1>4. \A x, y : ToSet(<<x, y>>) = {x, y} /\ ToSet(<<x>>) = {x}
  BY DEF ToSet
<1>5. Meant(w) = {a.comparator, b.comparator}
  BY <1>2, <1>4 DEF Meant
<1>6. Meant(a) = {a.comparator} /\ Meant(b) = {b.comparator}
  BY <1>3, <1>4 DEF Meant
<1> QED BY <1>1, <1>5, <1>6 DEF w

FiltersMatch(fs, said, old) ==
    /\ Len(fs) = Len(said) + Len(old)
    /\ \A i \in 1 .. Len(said) : ToSet(fs[i]) = said[i]
    /\ \A i \in 1 .. Len(old) : fs[Len(said) + i] = old[i]

SettingsMatch(ss, said, old) ==
    /\ Len(ss) = Len(said) + Len(old)
    /\ \A i \in 1 .. Len(said) : ss[i] = said[Len(said) + 1 - i]
    /\ \A i \in 1 .. Len(old) : ss[Len(said) + i] = old[i]

\* Entries of cmp that belong to the filter being read.
Top == Seconds(ors) + OneMore

Current ==
    /\ Top = 0 => Said[commas + 1] = {}
    /\ Top = 1 => Said[commas + 1] = Meant(cmp[1])
    /\ Top = 1 /\ ors # <<>> => Simple(cmp[1])
    /\ Top = 2 => /\ Simple(cmp[1]) /\ Simple(cmp[2])
                  /\ Said[commas + 1] = Meant(cmp[1]) \cup Meant(cmp[2])

\* While filters are read they wait in cmp, the last one on top.
Waiting ==
    /\ filters = OldFilters
    /\ Len(Said) = commas + 1
    /\ \A j \in 1 .. commas : Meant(cmp[Top + j]) = Said[commas + 1 - j]
    /\ Current

Lists ==
    /\ Said \in Seq(SUBSET Comparators) /\ SaidSettings \in Seq(Settings)
    /\ OldFilters \in Seq(Seq(Comparators)) /\ OldSettings \in Seq(Settings)
    /\ typed = [filters |-> Said, settings |-> SaidSettings]
    /\ Len(ors) <= 1

SaidInv ==
    /\ Lists
    /\ at \in {"filter", "filterRead"} => Waiting
    /\ at = "parent" => filters = OldFilters
    /\ at \in {"setting", "settingRead", "end"} => FiltersMatch(filters, Said, OldFilters)
    /\ at # "start" => SettingsMatch(settings, SaidSettings, OldSettings)

SentInv ==
    sent # <<>> =>
        /\ sent[1].filters \in Seq(Seq(Comparators)) /\ sent[1].settings \in Seq(Settings)
        /\ FiltersMatch(sent[1].filters, Said, OldFilters)
        /\ SettingsMatch(sent[1].settings, SaidSettings, OldSettings)

MeaningInv == BuilderInv /\ SaidInv /\ SentInv

LEMMA InitMeaning == Init => MeaningInv
<1> SUFFICES ASSUME Init  PROVE  MeaningInv
  OBVIOUS
<1>1. Said = << {} >> /\ SaidSettings = <<>> /\ OldFilters = <<>> /\ OldSettings = <<>>
  BY DEF Init, Blank, None, Said, SaidSettings, OldFilters, OldSettings
<1>2. typed = [filters |-> Said, settings |-> SaidSettings]
  BY <1>1, Zenon DEF Init, Blank
<1>3. << {} >> \in Seq(SUBSET Comparators)
  OBVIOUS
<1>4. Len(ors) <= 1
  BY DEF Init
<1>5. Lists
  BY <1>1, <1>2, <1>3, <1>4 DEF Lists
<1>6. at = "start" /\ sent = <<>>
  BY DEF Init
<1> QED BY <1>5, <1>6, InitInv DEF MeaningInv, SaidInv, SentInv

----------------------------------------------------------------------------

LEMMA BeginMeans ==
    ASSUME MeaningInv, NEW c \in {"receive", "delete", "insert", "update"}, Begin(c)
    PROVE  SaidInv' /\ SentInv'
<1>1. /\ Said' = << {} >> /\ SaidSettings' = <<>> /\ OldFilters' = filters /\ OldSettings' = settings
      /\ typed' = [filters |-> Said', settings |-> SaidSettings']
  BY DEF Begin, Blank, Now, Said, SaidSettings, OldFilters, OldSettings
<1>2. /\ filters' = filters /\ settings' = settings /\ cmp' = cmp /\ commas' = 0 /\ ors' = <<>>
      /\ sent' = <<>> /\ at' \in {"filter", "parent"}
  BY DEF MeaningInv, BuilderInv, Quiet, Begin, building
<1>3. filters \in Seq(Seq(Comparators)) /\ settings \in Seq(Settings)
  BY OwnsNat DEF MeaningInv
<1>4. << {} >> \in Seq(SUBSET Comparators) /\ Len(<< {} >>) = 1 /\ << {} >>[1] = {}
  OBVIOUS
<1>5. Lists'
  BY <1>1, <1>2, <1>3, <1>4 DEF Lists
<1>6. Top' = 0
  BY <1>2, NoBrackets, OwnIs DEF Top
<1>7. Waiting'
  BY <1>1, <1>2, <1>4, <1>6 DEF Waiting, Current
<1>8. SettingsMatch(settings', SaidSettings', OldSettings')
  BY <1>1, <1>2, <1>3 DEF SettingsMatch
<1> QED BY <1>1, <1>2, <1>5, <1>7, <1>8 DEF SaidInv, SentInv

\* Steps that change neither what the statement said nor what it found.
LEMMA Rests ==
    ASSUME MeaningInv, at # "start", UNCHANGED <<typed, stale, sent>>
    PROVE  /\ Said' = Said /\ SaidSettings' = SaidSettings
           /\ OldFilters' = OldFilters /\ OldSettings' = OldSettings
           /\ sent' = <<>> /\ SentInv'
           /\ Len(ors') <= 1 => Lists'
           /\ settings' = settings => SettingsMatch(settings', SaidSettings', OldSettings')
<1>1. /\ Said' = Said /\ SaidSettings' = SaidSettings
      /\ OldFilters' = OldFilters /\ OldSettings' = OldSettings
  BY DEF Said, SaidSettings, OldFilters, OldSettings
<1>2. sent' = <<>>
  BY DEF MeaningInv, BuilderInv, Quiet
<1>3. Lists /\ SettingsMatch(settings, SaidSettings, OldSettings)
  BY DEF MeaningInv, SaidInv
<1>4. Len(ors') <= 1 => Lists'
  BY <1>1, <1>3 DEF Lists
<1> QED BY <1>1, <1>2, <1>3, <1>4 DEF SentInv

\* At most one bracket is open.
LEMMA OneBracket ==
    ASSUME NEW o \in Seq({"first", "second"}), Len(o) <= 1
    PROVE  /\ Seconds(o) \in {0, 1}
           /\ o = <<>> => Seconds(o) = 0
           /\ o # <<>> => /\ Front(o) = <<>>
                          /\ Last(o) = "first" => Seconds(o) = 0
                          /\ Last(o) = "second" => Seconds(o) = 1
<1>1. CASE o = <<>>
  BY <1>1, NoBrackets
<1>2. CASE o # <<>>
  <2>1. Len(o) = 1
    <3>1. Len(o) \in Nat \ {0} /\ Len(o) <= 1
      BY <1>2
    <3>2. \A n \in Nat \ {0} : n <= 1 => n = 1
      OBVIOUS
    <3> QED BY <3>1, <3>2, Zenon
  <2>2. Front(o) = <<>>
    BY <2>1 DEF Front
  <2>3. Last(o) \in {"first", "second"}
    BY <2>1 DEF Last
  <2>4. /\ Last(o) = "second" => Seconds(o) = Seconds(Front(o)) + 1
        /\ Last(o) = "first"  => Seconds(o) = Seconds(Front(o))
    BY <1>2, Closed
  <2>5. Seconds(Front(o)) = 0
    BY <2>2, NoBrackets
  <2> QED BY <1>2, <2>2, <2>3, <2>4, <2>5
<1> QED BY <1>1, <1>2

\* What is known while filters are read.
LEMMA WhileWaiting ==
    ASSUME MeaningInv, at \in {"filter", "filterRead"}
    PROVE  /\ commas \in Nat /\ cmp \in Seq(Entries) /\ Said \in Seq(SUBSET Comparators)
           /\ ors \in Seq({"first", "second"}) /\ Len(ors) <= 1
           /\ Top \in 0 .. 2 /\ Top = Seconds(ors) + OneMore /\ Seconds(ors) \in {0, 1}
           /\ OneMore = (IF at = "filterRead" THEN 1 ELSE 0)
           /\ Len(cmp) \in Nat /\ commas + Top <= Len(cmp)
           /\ Waiting
<1>1. BuilderInv /\ Waiting /\ Lists /\ at # "start"
  BY DEF MeaningInv, SaidInv
<1>2. commas \in Nat /\ cmp \in Seq(Entries) /\ ors \in Seq({"first", "second"})
  BY <1>1, OwnsNat, Zenon
<1>3. Said \in Seq(SUBSET Comparators) /\ Len(ors) <= 1
  BY <1>1 DEF Lists
<1>4. Seconds(ors) \in {0, 1}
  BY <1>2, <1>3, OneBracket, Zenon
<1>5. OneMore = (IF at = "filterRead" THEN 1 ELSE 0)
  BY OwnIs
<1>6. Top \in 0 .. 2
  BY <1>4, <1>5 DEF Top
<1>7. Own = commas + Top /\ Own \in Nat
  <2>1. Own = commas + Seconds(ors) + OneMore /\ Own \in Nat
    BY <1>1, OwnIs, OwnsNat, Zenon
  <2> QED BY <2>1, <1>2, <1>4, <1>5 DEF Top
<1>8. Len(Old) \in Nat /\ Len(cmp) \in Nat /\ Len(cmp) = Own + Len(Old)
  BY <1>1, StackSize, Zenon
<1>9. commas + Top <= Len(cmp)
  BY <1>2, <1>6, <1>7, <1>8
<1> QED BY <1>1, <1>2, <1>3, <1>4, <1>5, <1>6, <1>8, <1>9, Zenon DEF Top

LEMMA ReadFilterMeans ==
    ASSUME MeaningInv, NEW c \in Comparators, ReadFilter(c)
    PROVE  SaidInv' /\ SentInv'
<1>1. /\ at = "filter" /\ at' = "filterRead" /\ commas' = commas /\ ors' = ors
      /\ filters' = filters /\ settings' = settings /\ stale' = stale /\ sent' = sent
      /\ at # "start"
  BY DEF ReadFilter
<1>2. at \in {"filter", "filterRead"}
  BY <1>1
<1> DEFINE n == Len(Said)
<1>3. n = commas + 1 /\ n \in 1 .. Len(Said)
  BY <1>2, WhileWaiting DEF Waiting
<1>4. /\ Said' = [Said EXCEPT ![n] = @ \cup {c}] /\ SaidSettings' = SaidSettings
      /\ typed' = [filters |-> Said', settings |-> SaidSettings']
  <2>1. typed = [filters |-> Said, settings |-> SaidSettings]
    BY DEF MeaningInv, SaidInv, Lists
  <2>2. typed' = [typed EXCEPT !.filters[n] = @ \cup {c}]
    BY DEF ReadFilter, Said
  <2>3. typed' = [filters |-> [Said EXCEPT ![n] = @ \cup {c}], settings |-> SaidSettings]
    BY <2>1, <2>2
  <2>4. Said' = [Said EXCEPT ![n] = @ \cup {c}] /\ SaidSettings' = SaidSettings
    BY <2>3 DEF Said, SaidSettings
  <2> QED BY <2>3, <2>4
<1>5. /\ Said' \in Seq(SUBSET Comparators) /\ Len(Said') = n
      /\ \A i \in 1 .. commas : Said'[i] = Said[i]
      /\ Said'[commas + 1] = Said[commas + 1] \cup {c}
  <2>1. Said \in Seq(SUBSET Comparators) /\ commas \in Nat
    BY <1>2, WhileWaiting
  <2> QED BY <1>3, <1>4, <2>1
<1>6. OldFilters' = OldFilters /\ OldSettings' = OldSettings
  BY <1>1 DEF OldFilters, OldSettings
<1>7. Lists'
  BY <1>1, <1>4, <1>5, <1>6 DEF MeaningInv, SaidInv, Lists
<1>8. /\ cmp' \in Seq(Entries) /\ cmp'[1] = Entry(c)
      /\ \A i \in 1 .. Len(cmp) : cmp'[i + 1] = cmp[i]
  BY MeantEntry, OnTop, <1>2, WhileWaiting DEF ReadFilter, Pushed
<1>9. Top' = Top + 1 /\ Top \in {0, 1} /\ Top = Seconds(ors)
  BY <1>1, <1>2, WhileWaiting, OwnIs DEF Top
<1>10. ASSUME NEW j \in 1 .. commas  PROVE  Meant(cmp'[Top' + j]) = Said'[commas + 1 - j]
  <2>1. Meant(cmp[Top + j]) = Said[commas + 1 - j] /\ commas \in Nat
        /\ commas + Top <= Len(cmp) /\ Len(cmp) \in Nat
    BY <1>2, WhileWaiting DEF Waiting
  <2>2. Top + j \in 1 .. Len(cmp) /\ Top' + j = (Top + j) + 1 /\ commas + 1 - j \in 1 .. commas
    BY <1>9, <2>1
  <2>3. cmp'[Top' + j] = cmp[Top + j] /\ Said'[commas + 1 - j] = Said[commas + 1 - j]
    BY <1>5, <1>8, <2>2
  <2> QED BY <2>1, <2>3
<1>11. Current'
  <2>1. Meant(cmp'[1]) = {c} /\ Simple(cmp'[1])
    BY <1>8, MeantEntry
  <2>2. CASE Top = 0
    <3>1. Said[commas + 1] = {}
      BY <2>2, <1>2, WhileWaiting DEF Waiting, Current
    <3> QED BY <2>1, <2>2, <3>1, <1>1, <1>5, <1>9 DEF Current
  <2>3. CASE Top = 1
    <3>1. ors # <<>>
      BY <2>3, <1>9, NoBrackets
    <3>2. Said[commas + 1] = Meant(cmp[1]) /\ Simple(cmp[1])
      BY <2>3, <3>1, <1>2, WhileWaiting DEF Waiting, Current
    <3>3. cmp'[2] = cmp[1]
      <4>1. 1 \in 1 .. Len(cmp) /\ 1 + 1 = 2
        BY <2>3, <1>2, WhileWaiting
      <4> QED BY <4>1, <1>8
    <3> QED BY <2>1, <2>3, <3>2, <3>3, <1>1, <1>5, <1>9 DEF Current
  <2> QED BY <2>2, <2>3, <1>9
<1>12. Waiting'
  <2>1. filters = OldFilters
    BY <1>2, WhileWaiting DEF Waiting
  <2> QED BY <2>1, <1>1, <1>3, <1>5, <1>6, <1>10, <1>11 DEF Waiting
<1>13. SettingsMatch(settings', SaidSettings', OldSettings')
  BY <1>1, <1>4, <1>6 DEF MeaningInv, SaidInv
<1>14. SentInv'
  BY <1>1 DEF MeaningInv, BuilderInv, Quiet, SentInv
<1> QED BY <1>1, <1>7, <1>12, <1>13, <1>14 DEF SaidInv

LEMMA OpenOrMeans ==
    ASSUME MeaningInv, OpenOr, OrDepth \in {0, 1}
    PROVE  SaidInv' /\ SentInv'
<1>1. /\ at = "filter" /\ at' = at /\ commas' = commas /\ ors' = Append(ors, "first")
      /\ filters' = filters /\ settings' = settings /\ cmp' = cmp
      /\ at # "start" /\ UNCHANGED <<typed, stale, sent>>
  BY DEF OpenOr, building
<1>2. at \in {"filter", "filterRead"}
  BY <1>1
<1>3. ors = <<>> /\ Len(ors') = 1
  BY <1>2, WhileWaiting DEF OpenOr
<1>4. Top' = 0 /\ Top = 0
  <2>1. Seconds(ors') = 0 /\ Seconds(ors) = 0
    BY <1>1, <1>2, <1>3, WhileWaiting, Opened, NoBrackets, Zenon
  <2>2. OneMore = 0 /\ OneMore' = 0
    BY <1>1, OwnIs
  <2> QED BY <2>1, <2>2 DEF Top
<1>5. Waiting'
  BY <1>1, <1>2, <1>4, WhileWaiting, Rests DEF Waiting, Current
<1> QED BY <1>1, <1>3, <1>5, Rests DEF SaidInv

LEMMA NextFilterMeans ==
    ASSUME MeaningInv, NextFilter
    PROVE  SaidInv' /\ SentInv'
<1>1. /\ at = "filterRead" /\ at' = "filter" /\ filters' = filters /\ settings' = settings
      /\ cmp' = cmp /\ stale' = stale /\ sent' = sent /\ at # "start"
  BY DEF NextFilter, building
<1>2. at \in {"filter", "filterRead"}
  BY <1>1
<1>3. OldFilters' = OldFilters /\ OldSettings' = OldSettings
  BY <1>1 DEF OldFilters, OldSettings
<1>4. OneMore = 1 /\ OneMore' = 0
  BY <1>1, OwnIs
<1>5. CASE /\ ors # <<>> /\ Last(ors) = "first" /\ ors' = Append(Front(ors), "second")
           /\ commas' = commas /\ typed' = typed
  <2>1. Front(ors) = <<>> /\ Seconds(ors) = 0
    BY <1>2, <1>5, WhileWaiting, OneBracket, Zenon
  <2>2. Seconds(ors') = 1 /\ Len(ors') = 1 /\ ors' # <<>>
    <3>1. Seconds(ors') = Seconds(<<>>) + 1
      BY <1>2, <1>5, <2>1, WhileWaiting, Closed, Zenon
    <3>2. ors' = << "second" >>
      BY <1>5, <2>1
    <3> QED BY <3>1, <3>2, NoBrackets
  <2>3. Top' = 1 /\ Top = 1
    BY <1>4, <2>1, <2>2 DEF Top
  <2>4. UNCHANGED <<typed, stale, sent>>
    BY <1>1, <1>5
  <2>5. Waiting'
    BY <1>1, <1>2, <1>5, <2>3, <2>4, WhileWaiting, Rests DEF Waiting, Current
  <2> QED BY <1>1, <2>2, <2>4, <2>5, Rests DEF SaidInv
<1>6. CASE /\ ors = <<>> /\ ors' = ors /\ commas' = commas + 1
           /\ typed' = [typed EXCEPT !.filters = Append(@, {})]
  <2>1. Top = 1 /\ Top' = 0
    <3>1. Seconds(ors) = 0 /\ Seconds(ors') = 0
      BY <1>6, NoBrackets
    <3> QED BY <3>1, <1>4 DEF Top
  <2>2. /\ Said' = Append(Said, {}) /\ SaidSettings' = SaidSettings
        /\ typed' = [filters |-> Said', settings |-> SaidSettings']
    <3>1. typed = [filters |-> Said, settings |-> SaidSettings]
      BY DEF MeaningInv, SaidInv, Lists
    <3>2. typed' = [filters |-> Append(Said, {}), settings |-> SaidSettings]
      BY <3>1, <1>6
    <3>3. Said' = Append(Said, {}) /\ SaidSettings' = SaidSettings
      BY <3>2 DEF Said, SaidSettings
    <3> QED BY <3>2, <3>3
  <2>3. /\ Said \in Seq(SUBSET Comparators) /\ commas \in Nat /\ Len(Said) = commas + 1
        /\ \A j \in 1 .. commas : Meant(cmp[Top + j]) = Said[commas + 1 - j]
        /\ Said[commas + 1] = Meant(cmp[1])
        /\ filters = OldFilters
    BY <1>2, <2>1, WhileWaiting DEF Waiting, Current
  <2>4. /\ Said' \in Seq(SUBSET Comparators) /\ Len(Said') = commas' + 1
        /\ \A i \in 1 .. commas + 1 : Said'[i] = Said[i]
        /\ Said'[commas' + 1] = {}
    BY <2>2, <2>3, <1>6
  <2>5. ASSUME NEW j \in 1 .. commas'  PROVE  Meant(cmp'[Top' + j]) = Said'[commas' + 1 - j]
    <3>1. CASE j = 1
      <4>1. commas' + 1 - j = commas + 1 /\ Top' + j = 1 /\ commas + 1 \in 1 .. commas + 1
        BY <1>6, <2>1, <2>3, <3>1
      <4> QED BY <4>1, <1>1, <2>3, <2>4
    <3>2. CASE j # 1
      <4>1. /\ j - 1 \in 1 .. commas /\ commas' + 1 - j = commas + 1 - (j - 1)
            /\ Top' + j = Top + (j - 1) /\ commas + 1 - (j - 1) \in 1 .. commas + 1
        BY <1>6, <2>1, <2>3, <3>2
      <4>2. Meant(cmp[Top + (j - 1)]) = Said[commas + 1 - (j - 1)]
        BY <4>1, <2>3
      <4> QED BY <4>1, <4>2, <1>1, <2>4
    <3> QED BY <3>1, <3>2
  <2>6. Current'
    BY <2>1, <2>4 DEF Current
  <2>7. Waiting'
    BY <1>1, <1>3, <2>3, <2>4, <2>5, <2>6 DEF Waiting
  <2>8. Lists'
    BY <1>3, <1>6, <2>2, <2>4 DEF MeaningInv, SaidInv, Lists
  <2>9. SettingsMatch(settings', SaidSettings', OldSettings')
    BY <1>1, <1>3, <2>2 DEF MeaningInv, SaidInv
  <2>10. SentInv'
    BY <1>1 DEF MeaningInv, BuilderInv, Quiet, SentInv
  <2> QED BY <1>1, <2>7, <2>8, <2>9, <2>10 DEF SaidInv
<1> QED BY <1>5, <1>6 DEF NextFilter

\* The two filters of $or become one, with the comparators of both.
LEMMA CloseOrMeans ==
    ASSUME MeaningInv, CloseOr
    PROVE  SaidInv' /\ SentInv'
<1>1. /\ at = "filterRead" /\ at' = at /\ commas' = commas /\ filters' = filters
      /\ settings' = settings /\ at # "start" /\ UNCHANGED <<typed, stale, sent>>
  BY DEF CloseOr
<1>2. at \in {"filter", "filterRead"}
  BY <1>1
<1>3. ors' = <<>> /\ Seconds(ors) = 1
  BY <1>2, WhileWaiting, OneBracket, Zenon DEF CloseOr
<1>4. Top = 2 /\ Top' = 1
  BY <1>1, <1>3, OwnIs, NoBrackets DEF Top
<1>5. /\ cmp \in Seq(Entries) /\ Len(cmp) \in Nat /\ commas \in Nat /\ commas + 2 <= Len(cmp)
      /\ Simple(cmp[1]) /\ Simple(cmp[2]) /\ Said[commas + 1] = Meant(cmp[1]) \cup Meant(cmp[2])
      /\ \A j \in 1 .. commas : Meant(cmp[2 + j]) = Said[commas + 1 - j]
      /\ filters = OldFilters /\ Len(Said) = commas + 1
  BY <1>2, <1>4, WhileWaiting DEF Waiting, Current
<1> DEFINE both == [cmp[1] EXCEPT !.connected = cmp[2].comparator]
<1>6. both \in Entries /\ Meant(both) = Said[commas + 1]
  <2>1. cmp[1] \in Entries /\ cmp[2] \in Entries
    BY <1>5
  <2> QED BY <2>1, <1>5, MeantBoth
<1>7. cmp' = <<both>> \o Tail(Tail(cmp))
  BY DEF CloseOr, Connected
<1> HIDE DEF both
<1>8. /\ cmp'[1] = both /\ \A i \in 2 .. Len(cmp) - 1 : cmp'[i] = cmp[i + 1]
  BY <1>5, <1>6, <1>7, TwoForOne
<1>9. ASSUME NEW j \in 1 .. commas  PROVE  Meant(cmp'[1 + j]) = Said[commas + 1 - j]
  <2>1. 1 + j \in 2 .. Len(cmp) - 1 /\ (1 + j) + 1 = 2 + j
    BY <1>5
  <2> QED BY <2>1, <1>5, <1>8
<1>10. Waiting'
  <2>1. Said' = Said /\ OldFilters' = OldFilters
    BY <1>1, Rests
  <2>2. Current'
    BY <1>1, <1>3, <1>4, <1>6, <1>8, <2>1 DEF Current
  <2> QED BY <1>1, <1>4, <1>5, <1>9, <2>1, <2>2 DEF Waiting
<1>11. Len(ors') <= 1
  BY <1>3
<1> QED BY <1>1, <1>10, <1>11, Rests DEF SaidInv

\* The filters leave cmp in the order they were typed.
LEMMA EndFiltersMeans ==
    ASSUME MeaningInv, EndFilters
    PROVE  SaidInv' /\ SentInv'
<1>1. /\ at = "filterRead" /\ ors = <<>> /\ ors' = <<>> /\ settings' = settings
      /\ at' \in {"setting", "end"} /\ at # "start" /\ UNCHANGED <<typed, stale, sent>>
  BY DEF EndFilters
<1>2. at \in {"filter", "filterRead"}
  BY <1>1
<1>3. Top = 1
  BY <1>1, OwnIs, NoBrackets DEF Top
<1> DEFINE n == commas + 1
           r == [i \in 1 .. n |-> FilterOf(cmp[n + 1 - i])]
<1>4. /\ cmp \in Seq(Entries) /\ Len(cmp) \in Nat /\ commas \in Nat /\ commas + 1 <= Len(cmp)
      /\ Said[commas + 1] = Meant(cmp[1])
      /\ \A j \in 1 .. commas : Meant(cmp[1 + j]) = Said[commas + 1 - j]
      /\ filters = OldFilters /\ Len(Said) = commas + 1
  BY <1>2, <1>3, WhileWaiting DEF Waiting, Current
<1>5. filters' = r \o filters
  BY DEF EndFilters, FiltersReduced, Switched
<1>6. n \in Nat /\ n = commas + 1
  BY <1>4
<1> HIDE DEF n
<1>7. ASSUME NEW i \in 1 .. n
      PROVE  FilterOf(cmp[n + 1 - i]) \in Seq(Comparators) /\ Meant(cmp[n + 1 - i]) = Said[i]
  <2>1. cmp[n + 1 - i] \in Entries
    BY <1>4, <1>6
  <2>2. FilterOf(cmp[n + 1 - i]) \in Seq(Comparators)
    BY <2>1 DEF FilterOf, Entries
  <2>3. CASE i = n
    BY <2>2, <2>3, <1>4, <1>6
  <2>4. CASE i # n
    <3>1. n - i \in 1 .. commas /\ 1 + (n - i) = n + 1 - i /\ commas + 1 - (n - i) = i
      BY <1>4, <1>6, <2>4
    <3> QED BY <3>1, <2>2, <1>4
  <2> QED BY <2>3, <2>4
<1>8. /\ r \in Seq(Seq(Comparators)) /\ Len(r) = n /\ \A i \in 1 .. n : ToSet(r[i]) = Said[i]
  BY <1>6, <1>7 DEF Meant
<1>9. filters \in Seq(Seq(Comparators))
  BY OwnsNat DEF MeaningInv
<1> HIDE DEF r
<1>10. FiltersMatch(filters', Said, OldFilters)
  <2>1. /\ Len(r \o filters) = n + Len(filters) /\ Len(filters) \in Nat
        /\ \A i \in 1 .. n : (r \o filters)[i] = r[i]
        /\ \A i \in 1 .. Len(filters) : (r \o filters)[n + i] = filters[i]
    <3>1. \A x, y \in Seq(Seq(Comparators)) :
            /\ x \o y \in Seq(Seq(Comparators)) /\ Len(x \o y) = Len(x) + Len(y) /\ Len(y) \in Nat
            /\ \A i \in 1 .. Len(x) : (x \o y)[i] = x[i]
            /\ \A i \in 1 .. Len(y) : (x \o y)[Len(x) + i] = y[i]
      BY Joint
    <3> QED BY <1>8, <1>9, <3>1, Zenon
  <2> QED BY <2>1, <1>4, <1>5, <1>6, <1>8 DEF FiltersMatch
<1>11. Len(ors') <= 1
  BY <1>1
<1> QED BY <1>1, <1>10, <1>11, Rests DEF SaidInv

LEMMA ReadParentMeans ==
    ASSUME MeaningInv, NEW c \in Comparators, ReadParent(c)
    PROVE  SaidInv' /\ SentInv'
<1>1. /\ at = "parent" /\ at' = "setting" /\ ors' = ors /\ settings' = settings
      /\ filters' = <<FilterOf(Entry(c))>> \o filters /\ stale' = stale /\ sent' = sent
  BY DEF ReadParent
<1>2. Said' = << {c} >> /\ SaidSettings' = SaidSettings
      /\ typed' = [filters |-> Said', settings |-> SaidSettings']
  <2>1. typed = [filters |-> Said, settings |-> SaidSettings]
    BY DEF MeaningInv, SaidInv, Lists
  <2>2. typed' = [typed EXCEPT !.filters = << {c} >>]
    BY DEF ReadParent
  <2>3. typed' = [filters |-> << {c} >>, settings |-> SaidSettings]
    BY <2>1, <2>2
  <2>4. Said' = << {c} >> /\ SaidSettings' = SaidSettings
    BY <2>3 DEF Said, SaidSettings
  <2> QED BY <2>3, <2>4
<1>3. << {c} >> \in Seq(SUBSET Comparators) /\ Len(<< {c} >>) = 1 /\ << {c} >>[1] = {c}
  OBVIOUS
<1>4. OldFilters' = OldFilters /\ OldSettings' = OldSettings
  BY <1>1 DEF OldFilters, OldSettings
<1>5. Lists'
  BY <1>1, <1>2, <1>3, <1>4 DEF MeaningInv, SaidInv, Lists
<1>6. FiltersMatch(filters', Said', OldFilters')
  <2>1. FilterOf(Entry(c)) = <<c>> /\ FilterOf(Entry(c)) \in Seq(Comparators)
    BY DEF FilterOf, Entry
  <2>2. ToSet(FilterOf(Entry(c))) = {c}
    BY MeantEntry DEF Meant
  <2>3. filters = OldFilters /\ filters \in Seq(Seq(Comparators))
    BY <1>1, OwnsNat DEF MeaningInv, SaidInv
  <2>4. /\ Len(filters') = Len(filters) + 1 /\ Len(filters) \in Nat
        /\ filters'[1] = FilterOf(Entry(c))
        /\ \A i \in 1 .. Len(filters) : filters'[i + 1] = filters[i]
    BY <1>1, <2>1, <2>3, OnTop
  <2>5. \A i \in 1 .. Len(filters) : filters'[1 + i] = filters[i]
    BY <2>4
  <2>6. /\ Len(filters') = Len(Said') + Len(OldFilters')
        /\ \A i \in 1 .. Len(OldFilters') : filters'[Len(Said') + i] = OldFilters'[i]
    BY <1>2, <1>3, <1>4, <2>3, <2>4, <2>5
  <2>7. ASSUME NEW i \in 1 .. Len(Said')  PROVE  ToSet(filters'[i]) = Said'[i]
    <3>1. i = 1
      BY <1>2, <1>3
    <3> QED BY <3>1, <1>2, <1>3, <2>2, <2>4
  <2> QED BY <2>6, <2>7 DEF FiltersMatch
<1>7. SettingsMatch(settings', SaidSettings', OldSettings')
  BY <1>1, <1>2, <1>4 DEF MeaningInv, SaidInv
<1>8. SentInv'
  BY <1>1 DEF MeaningInv, BuilderInv, Quiet, SentInv
<1> QED BY <1>1, <1>5, <1>6, <1>7, <1>8 DEF SaidInv

LEMMA ReadSettingMeans ==
    ASSUME MeaningInv, NEW v \in Settings, ReadSetting(v)
    PROVE  SaidInv' /\ SentInv'
<1>1. /\ at = "setting" /\ at' = "settingRead" /\ ors' = ors /\ filters' = filters
      /\ settings' = <<v>> \o settings /\ stale' = stale /\ sent' = sent
  BY DEF ReadSetting, Added
<1>2. /\ Said' = Said /\ SaidSettings' = Append(SaidSettings, v)
      /\ typed' = [filters |-> Said', settings |-> SaidSettings']
  <2>1. typed = [filters |-> Said, settings |-> SaidSettings]
    BY DEF MeaningInv, SaidInv, Lists
  <2>2. typed' = [typed EXCEPT !.settings = Append(@, v)]
    BY DEF ReadSetting
  <2>3. typed' = [filters |-> Said, settings |-> Append(SaidSettings, v)]
    BY <2>1, <2>2
  <2>4. Said' = Said /\ SaidSettings' = Append(SaidSettings, v)
    BY <2>3 DEF Said, SaidSettings
  <2> QED BY <2>3, <2>4
<1>3. OldFilters' = OldFilters /\ OldSettings' = OldSettings
  BY <1>1 DEF OldFilters, OldSettings
<1>4. /\ SaidSettings \in Seq(Settings) /\ OldSettings \in Seq(Settings)
      /\ settings \in Seq(Settings) /\ SettingsMatch(settings, SaidSettings, OldSettings)
      /\ FiltersMatch(filters, Said, OldFilters) /\ Lists
  BY <1>1, OwnsNat DEF MeaningInv, SaidInv, Lists
<1>5. Lists'
  <2>1. SaidSettings' \in Seq(Settings)
    BY <1>2, <1>4
  <2> QED BY <1>1, <1>2, <1>3, <1>4, <2>1 DEF Lists
<1>6. SettingsMatch(settings', SaidSettings', OldSettings')
  <2> DEFINE ss == SaidSettings
             k  == Len(SaidSettings)
  <2>1. /\ Len(settings') = Len(settings) + 1 /\ Len(settings) \in Nat /\ settings'[1] = v
        /\ \A i \in 1 .. Len(settings) : settings'[i + 1] = settings[i]
    BY <1>1, <1>4, OnTop
  <2>2. /\ k \in Nat /\ Len(SaidSettings') = k + 1 /\ SaidSettings'[k + 1] = v
        /\ \A i \in 1 .. k : SaidSettings'[i] = SaidSettings[i]
    BY <1>2, <1>4
  <2>3. /\ Len(settings) = k + Len(OldSettings) /\ Len(OldSettings) \in Nat
        /\ \A i \in 1 .. k : settings[i] = SaidSettings[k + 1 - i]
        /\ \A i \in 1 .. Len(OldSettings) : settings[k + i] = OldSettings[i]
    BY <1>4 DEF SettingsMatch
  <2> HIDE DEF k
  <2>4. ASSUME NEW i \in 1 .. k + 1  PROVE  settings'[i] = SaidSettings'[(k + 1) + 1 - i]
    <3>1. CASE i = 1
      BY <3>1, <2>1, <2>2
    <3>2. CASE i # 1
      <4>1. /\ i - 1 \in 1 .. k /\ i - 1 \in 1 .. Len(settings) /\ (i - 1) + 1 = i
            /\ k + 1 - (i - 1) = (k + 1) + 1 - i /\ k + 1 - (i - 1) \in 1 .. k
        BY <3>2, <2>1, <2>2, <2>3
      <4>2. settings'[i] = settings[i - 1]
        BY <4>1, <2>1
      <4> QED BY <4>1, <4>2, <2>2, <2>3
    <3> QED BY <3>1, <3>2
  <2>5. ASSUME NEW i \in 1 .. Len(OldSettings)  PROVE  settings'[(k + 1) + i] = OldSettings[i]
    <3>1. k + i \in 1 .. Len(settings) /\ (k + i) + 1 = (k + 1) + i
      BY <2>2, <2>3
    <3> QED BY <3>1, <2>1, <2>3
  <2>6. Len(settings') = (k + 1) + Len(OldSettings)
    BY <2>1, <2>2, <2>3
  <2> QED BY <1>3, <2>2, <2>4, <2>5, <2>6, Zenon DEF SettingsMatch
<1>7. SentInv'
  BY <1>1 DEF MeaningInv, BuilderInv, Quiet, SentInv
<1>8. FiltersMatch(filters', Said', OldFilters')
  BY <1>1, <1>2, <1>3, <1>4
<1> QED BY <1>1, <1>5, <1>6, <1>7, <1>8 DEF SaidInv

LEMMA AfterSettingMeans ==
    ASSUME MeaningInv, AfterSetting
    PROVE  SaidInv' /\ SentInv'
<1>1. /\ at = "settingRead" /\ at' \in {"setting", "end"} /\ ors' = ors /\ filters' = filters
      /\ settings' = settings /\ at # "start" /\ UNCHANGED <<typed, stale, sent>>
  BY DEF AfterSetting, building
<1>2. Lists /\ FiltersMatch(filters, Said, OldFilters) /\ Len(ors) <= 1
  BY <1>1 DEF MeaningInv, SaidInv, Lists
<1> QED BY <1>1, <1>2, Rests DEF SaidInv

LEMMA SendMeans ==
    ASSUME MeaningInv, Send
    PROVE  SaidInv' /\ SentInv'
<1>1. /\ at = "end" /\ at' = "start" /\ ors' = ors
      /\ sent' = <<[command |-> command, filters |-> filters, settings |-> settings]>>
      /\ UNCHANGED <<typed, stale>>
  BY DEF Send
<1>2. sent'[1].filters = filters /\ sent'[1].settings = settings
  BY <1>1
<1>3. /\ Said' = Said /\ SaidSettings' = SaidSettings
      /\ OldFilters' = OldFilters /\ OldSettings' = OldSettings
  BY <1>1 DEF Said, SaidSettings, OldFilters, OldSettings
<1>4. /\ Lists /\ FiltersMatch(filters, Said, OldFilters)
      /\ SettingsMatch(settings, SaidSettings, OldSettings)
  BY <1>1 DEF MeaningInv, SaidInv
<1>5. filters \in Seq(Seq(Comparators)) /\ settings \in Seq(Settings)
  BY OwnsNat DEF MeaningInv
<1>6. SentInv'
  BY <1>2, <1>3, <1>4, <1>5, Zenon DEF SentInv
<1>7. Lists'
  BY <1>1, <1>3, <1>4 DEF Lists
<1> QED BY <1>1, <1>6, <1>7 DEF SaidInv

LEMMA SyntaxErrorMeans ==
    ASSUME MeaningInv, SyntaxError
    PROVE  SaidInv' /\ SentInv'
<1>1. at # "start" /\ at' = "start" /\ ors' = <<>> /\ sent' = sent /\ typed' = Blank /\ stale' = None
  BY DEF SyntaxError
<1>2. /\ Said' = << {} >> /\ SaidSettings' = <<>> /\ OldFilters' = <<>> /\ OldSettings' = <<>>
      /\ typed' = [filters |-> Said', settings |-> SaidSettings']
  BY <1>1 DEF Blank, None, Said, SaidSettings, OldFilters, OldSettings
<1>3. << {} >> \in Seq(SUBSET Comparators)
  OBVIOUS
<1>4. Lists'
  BY <1>1, <1>2, <1>3 DEF Lists
<1>5. SentInv'
  BY <1>1 DEF MeaningInv, BuilderInv, Quiet, SentInv
<1> QED BY <1>1, <1>4, <1>5 DEF SaidInv

LEMMA NextMeaning ==
    ASSUME OrDepth \in {0, 1}
    PROVE  MeaningInv /\ [Next]_vars => MeaningInv'
<1> SUFFICES ASSUME MeaningInv, [Next]_vars  PROVE  MeaningInv'
  OBVIOUS
<1>1. BuilderInv'
  BY NextInv DEF MeaningInv
<1>2. CASE Reads
  <2>1. CASE \E c \in {"receive", "delete", "insert", "update"} : Begin(c)
    BY <1>1, <2>1, BeginMeans DEF MeaningInv
  <2>2. CASE \E c \in Comparators : ReadFilter(c) \/ ReadParent(c)
    BY <1>1, <2>2, ReadFilterMeans, ReadParentMeans DEF MeaningInv
  <2>3. CASE \E s \in Settings : ReadSetting(s)
    BY <1>1, <2>3, ReadSettingMeans DEF MeaningInv
  <2>4. CASE OpenOr \/ NextFilter \/ CloseOr \/ EndFilters \/ AfterSetting \/ Send
    BY <1>1, <2>4, OpenOrMeans, NextFilterMeans, CloseOrMeans, EndFiltersMeans,
       AfterSettingMeans, SendMeans DEF MeaningInv
  <2> QED BY <1>1, <1>2, <2>1, <2>2, <2>3, <2>4 DEF Reads, MeaningInv
<1>3. CASE SyntaxError
  BY <1>1, <1>3, SyntaxErrorMeans DEF MeaningInv
<1>4. CASE UNCHANGED vars
  <2>1. UNCHANGED Said /\ UNCHANGED SaidSettings /\ UNCHANGED OldFilters /\ UNCHANGED OldSettings
        /\ UNCHANGED Top
    BY <1>4 DEF vars, building, parsing, Said, SaidSettings, OldFilters, OldSettings, Top,
       OneMore, Seconds
  <2>2. /\ typed' = typed /\ at' = at /\ filters' = filters /\ settings' = settings
        /\ cmp' = cmp /\ commas' = commas /\ ors' = ors /\ sent' = sent
    BY <1>4 DEF vars, building, parsing
  <2>3. SaidInv' /\ SentInv'
    BY <2>1, <2>2 DEF MeaningInv, SaidInv, SentInv, Lists, Waiting, Current
  <2> QED BY <1>1, <2>3 DEF MeaningInv
<1> QED BY <1>2, <1>3, <1>4 DEF Next

LEMMA MeaningIsRight == MeaningInv => SentIsTypedThenStale
<1> SUFFICES ASSUME MeaningInv, NEW n \in DOMAIN sent
             PROVE  /\ AsTyped(sent[n].filters) = typed.filters \o AsTyped(stale.filters)
                    /\ sent[n].settings = Reverse(typed.settings) \o stale.settings
  BY DEF SentIsTypedThenStale
<1> DEFINE fs == sent[1].filters
           ss == sent[1].settings
           k  == Len(Said)
           m  == Len(SaidSettings)
<1>1. n = 1 /\ sent # <<>>
  BY DEF MeaningInv, BuilderInv, TypeOK
<1>2. /\ fs \in Seq(Seq(Comparators)) /\ ss \in Seq(Settings)
      /\ FiltersMatch(fs, Said, OldFilters) /\ SettingsMatch(ss, SaidSettings, OldSettings)
  BY <1>1, Zenon DEF MeaningInv, SentInv
<1>3. /\ Said \in Seq(SUBSET Comparators) /\ SaidSettings \in Seq(Settings)
      /\ OldFilters \in Seq(Seq(Comparators)) /\ OldSettings \in Seq(Settings)
  BY DEF MeaningInv, SaidInv, Lists
<1> HIDE DEF fs, ss
<1>4. AsTyped(fs) = Said \o AsTyped(OldFilters)
  <2> DEFINE a == AsTyped(fs)
             b == AsTyped(OldFilters)
  <2>1. \A f \in Seq(Seq(Comparators)) :
            /\ AsTyped(f) \in Seq(SUBSET Comparators) /\ Len(AsTyped(f)) = Len(f)
            /\ \A i \in 1 .. Len(f) : AsTyped(f)[i] = ToSet(f[i])
    <3> SUFFICES ASSUME NEW f \in Seq(Seq(Comparators))
                 PROVE  /\ AsTyped(f) \in Seq(SUBSET Comparators) /\ Len(AsTyped(f)) = Len(f)
                        /\ \A i \in 1 .. Len(f) : AsTyped(f)[i] = ToSet(f[i])
      OBVIOUS
    <3>1. ASSUME NEW i \in 1 .. Len(f)  PROVE  ToSet(f[i]) \in SUBSET Comparators
      <4>1. f[i] \in Seq(Comparators)
        OBVIOUS
      <4> QED BY <4>1 DEF ToSet
    <3>2. AsTyped(f) = [i \in 1 .. Len(f) |-> ToSet(f[i])]
      BY DEF AsTyped
    <3> QED BY <3>1, <3>2
  <2>2. /\ a \in Seq(SUBSET Comparators) /\ Len(a) = Len(fs)
        /\ \A i \in 1 .. Len(fs) : a[i] = ToSet(fs[i])
    BY <1>2, <2>1
  <2>3. /\ b \in Seq(SUBSET Comparators) /\ Len(b) = Len(OldFilters)
        /\ \A i \in 1 .. Len(OldFilters) : b[i] = ToSet(OldFilters[i])
    BY <1>3, <2>1
  <2> HIDE DEF a, b
  <2>4. /\ Len(fs) = k + Len(OldFilters)
        /\ \A i \in 1 .. k : ToSet(fs[i]) = Said[i]
        /\ \A i \in 1 .. Len(OldFilters) : fs[k + i] = OldFilters[i]
    BY <1>2 DEF FiltersMatch
  <2>5. /\ k \in Nat /\ Len(b) \in Nat /\ Said \o b \in Seq(SUBSET Comparators)
        /\ Len(Said \o b) = k + Len(b)
        /\ \A i \in 1 .. k : (Said \o b)[i] = Said[i]
        /\ \A i \in 1 .. Len(b) : (Said \o b)[k + i] = b[i]
    <3>1. \A x, y \in Seq(SUBSET Comparators) :
            /\ x \o y \in Seq(SUBSET Comparators) /\ Len(x \o y) = Len(x) + Len(y) /\ Len(y) \in Nat
            /\ \A i \in 1 .. Len(x) : (x \o y)[i] = x[i]
            /\ \A i \in 1 .. Len(y) : (x \o y)[Len(x) + i] = y[i]
      BY Joint
    <3>2. k \in Nat
      BY <1>3
    <3> QED BY <1>3, <2>3, <3>1, <3>2, Zenon
  <2>6. ASSUME NEW i \in 1 .. Len(a)  PROVE  a[i] = (Said \o b)[i]
    <3>1. CASE i \in 1 .. k
      BY <3>1, <2>2, <2>4, <2>5
    <3>2. CASE i \notin 1 .. k
      <4>1. i - k \in 1 .. Len(b) /\ k + (i - k) = i
        BY <3>2, <2>2, <2>3, <2>4, <2>5
      <4>2. a[i] = ToSet(OldFilters[i - k])
        BY <4>1, <2>2, <2>3, <2>4
      <4>3. (Said \o b)[i] = b[i - k]
        BY <4>1, <2>5
      <4> QED BY <4>1, <4>2, <4>3, <2>3
    <3> QED BY <3>1, <3>2
  <2>7. Len(a) = Len(Said \o b)
    BY <2>2, <2>3, <2>4, <2>5
  <2>8. a = Said \o b
    BY <2>2, <2>5, <2>6, <2>7, SameSeq
  <2> QED BY <2>8 DEF a, b
<1>5. ss = Reverse(SaidSettings) \o OldSettings
  <2> DEFINE r == Reverse(SaidSettings)
  <2>1. m \in Nat /\ r = [i \in 1 .. m |-> SaidSettings[(m - i) + 1]]
    BY <1>3 DEF Reverse
  <2>2. ASSUME NEW i \in 1 .. m  PROVE  SaidSettings[(m - i) + 1] \in Settings
    <3>1. (m - i) + 1 \in 1 .. m
      BY <2>1
    <3> QED BY <3>1, <1>3
  <2>3. /\ r \in Seq(Settings) /\ Len(r) = m
        /\ \A i \in 1 .. m : r[i] = SaidSettings[(m - i) + 1]
    BY <2>1, <2>2
  <2> HIDE DEF r
  <2>4. /\ Len(ss) = m + Len(OldSettings)
        /\ \A i \in 1 .. m : ss[i] = SaidSettings[m + 1 - i]
        /\ \A i \in 1 .. Len(OldSettings) : ss[m + i] = OldSettings[i]
    BY <1>2 DEF SettingsMatch
  <2>5. /\ r \o OldSettings \in Seq(Settings) /\ Len(OldSettings) \in Nat
        /\ Len(r \o OldSettings) = m + Len(OldSettings)
        /\ \A i \in 1 .. m : (r \o OldSettings)[i] = r[i]
        /\ \A i \in 1 .. Len(OldSettings) : (r \o OldSettings)[m + i] = OldSettings[i]
    <3>1. \A x, y \in Seq(Settings) :
            /\ x \o y \in Seq(Settings) /\ Len(x \o y) = Len(x) + Len(y) /\ Len(y) \in Nat
            /\ \A i \in 1 .. Len(x) : (x \o y)[i] = x[i]
            /\ \A i \in 1 .. Len(y) : (x \o y)[Len(x) + i] = y[i]
      BY Joint
    <3>2. /\ r \o OldSettings \in Seq(Settings) /\ Len(OldSettings) \in Nat
          /\ Len(r \o OldSettings) = Len(r) + Len(OldSettings)
          /\ \A i \in 1 .. Len(r) : (r \o OldSettings)[i] = r[i]
          /\ \A i \in 1 .. Len(OldSettings) : (r \o OldSettings)[Len(r) + i] = OldSettings[i]
      BY <1>3, <2>3, <3>1, Zenon
    <3>3. Len(r) = m
      BY <2>3
    <3> QED BY <3>2, <3>3
  <2>6. ASSUME NEW i \in 1 .. Len(ss)  PROVE  ss[i] = (r \o OldSettings)[i]
    <3>1. CASE i \in 1 .. m
      <4>1. m + 1 - i = (m - i) + 1
        BY <2>1
      <4> QED BY <3>1, <4>1, <2>3, <2>4, <2>5
    <3>2. CASE i \notin 1 .. m
      <4>1. i - m \in 1 .. Len(OldSettings) /\ m + (i - m) = i
        BY <3>2, <2>1, <2>4, <2>5
      <4> QED BY <4>1, <2>4, <2>5
    <3> QED BY <3>1, <3>2
  <2>7. ss = r \o OldSettings
    BY <1>2, <2>4, <2>5, <2>6, SameSeq
  <2> QED BY <2>7 DEF r
<1> QED BY <1>1, <1>4, <1>5, Zenon DEF fs, ss, Said, SaidSettings, OldFilters, OldSettings

\* With $or brackets that are not nested, and statements of every length: a
\* message is what was typed, in that order, followed by what broken statements
\* left in `query` (the grammar's actions, switchFilter, addValSetting,
\* parseQuery).
THEOREM SentIsTyped ==
    ASSUME OrDepth \in {0, 1}
    PROVE  Spec => []SentIsTypedThenStale
<1>1. MeaningInv /\ [Next]_vars => MeaningInv'
  BY NextMeaning
<1> QED BY <1>1, InitMeaning, MeaningIsRight, PTL DEF Spec
=============================================================================
