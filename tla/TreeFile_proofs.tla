--------------------------- MODULE TreeFile_proofs ---------------------------
(* Proofs about TreeFile for every number of ids per unit, every template   *)
(* and files of every size: it keeps its shape, and its ids are those of    *)
(* IdAllocator; and loading keeps LoadInv, for every unit size and number   *)
(* of nodes: what a growing id array moves stays linked, and nothing is     *)
(* lost. Loading implements the tree where nothing is cut.                  *)
EXTENDS TreeFile, WellFoundedInduction, SequenceTheorems, TLAPS

----------------------------------------------------------------------------
(* Arithmetic of the id array *)

\* getIdArraySize: the array has room for every id given out, and not a whole
\* unit more; there is always one unit.
LEMMA UnitsBound ==
    ASSUME NEW c \in Nat
    PROVE  /\ ArrUnits(c) \in Nat \ {0}
           /\ c <= K * ArrUnits(c)
           /\ c = 0 => ArrUnits(c) = 1
           /\ c # 0 => K * (ArrUnits(c) - 1) < c
           /\ K * ArrUnits(c) \in Nat /\ K * ArrUnits(c) >= 2
<1> USE KAssumption
<1>1. CASE c = 0
  <2>1. 1 \div K = 0 /\ 1 % K = 1
    OBVIOUS
  <2>2. ArrUnits(c) = 1
    BY <1>1, <2>1 DEF ArrUnits
  <2> QED BY <1>1, <2>2
<1>2. CASE c # 0
  <2> DEFINE q == c \div K
             m == c % K
  <2>1. c = K * q + m /\ m \in 0 .. K - 1 /\ q \in Nat
    OBVIOUS
  <2>2. ArrUnits(c) = q + (IF m # 0 THEN 1 ELSE 0)
    BY <1>2 DEF ArrUnits
  <2> HIDE DEF q, m
  <2>3. CASE m = 0
    <3>1. ArrUnits(c) = q /\ c = K * q
      BY <2>1, <2>2, <2>3
    <3>2. q # 0
      BY <1>2, <2>1, <3>1
    <3>3. K * (q - 1) = K * q - K /\ K * q >= K
      BY <2>1, <3>2
    <3> QED BY <1>2, <2>1, <3>1, <3>2, <3>3
  <2>4. CASE m # 0
    <3>1. ArrUnits(c) = q + 1
      BY <2>1, <2>2, <2>4
    <3>2. K * (q + 1) = K * q + K /\ K * q \in Nat
      BY <2>1
    <3> QED BY <1>2, <2>1, <2>4, <3>1, <3>2
  <2> QED BY <2>3, <2>4
<1> QED BY <1>1, <1>2

\* More ids never need fewer units.
LEMMA UnitsMonotone ==
    ASSUME NEW c \in Nat, NEW d \in Nat, c <= d
    PROVE  ArrUnits(c) <= ArrUnits(d) /\ K * ArrUnits(c) <= K * ArrUnits(d)
<1> USE KAssumption
<1> DEFINE p == ArrUnits(c)
           q == ArrUnits(d)
<1>1. /\ p \in Nat \ {0} /\ q \in Nat \ {0}
      /\ d <= K * q
      /\ c = 0 => p = 1
      /\ c # 0 => K * (p - 1) < c
  BY UnitsBound
<1> HIDE DEF p, q
<1>2. p <= q
  <2> SUFFICES ASSUME q < p PROVE FALSE
    BY <1>1
  <2>1. q <= p - 1 /\ c # 0
    BY <1>1
  <2>2. K * q <= K * (p - 1)
    BY <1>1, <2>1
  <2> QED BY <1>1, <2>1, <2>2
<1>3. K * p <= K * q
  BY <1>1, <1>2
<1> QED BY <1>2, <1>3 DEF p, q

\* One more id needs one more unit exactly when the array is full.
LEMMA UnitsStep ==
    ASSUME NEW c \in Nat
    PROVE  /\ c < K * ArrUnits(c) => ArrUnits(c + 1) = ArrUnits(c)
           /\ c = K * ArrUnits(c) => ArrUnits(c + 1) = ArrUnits(c) + 1
<1> USE KAssumption
<1> DEFINE p == ArrUnits(c)
           q == ArrUnits(c + 1)
<1>1. /\ p \in Nat \ {0} /\ q \in Nat \ {0}
      /\ c <= K * p
      /\ c + 1 <= K * q
      /\ K * (q - 1) < c + 1
      /\ p <= q
  BY UnitsBound, UnitsMonotone
<1> HIDE DEF p, q
<1>2. ASSUME c < K * p PROVE q = p
  <2> SUFFICES ASSUME p < q PROVE FALSE
    BY <1>1
  <2>1. p <= q - 1
    BY <1>1
  <2>2. K * p <= K * (q - 1)
    BY <1>1, <2>1
  <2> QED BY <1>1, <1>2, <2>2
<1>3. ASSUME c = K * p PROVE q = p + 1
  <2>1. q # p
    BY <1>1, <1>3
  <2>2. ASSUME p + 1 < q PROVE FALSE
    <3>1. p + 1 <= q - 1
      BY <1>1, <2>2
    <3>2. K * (p + 1) <= K * (q - 1)
      BY <1>1, <3>1
    <3>3. K * (p + 1) = K * p + K
      BY <1>1
    <3> QED BY <1>1, <1>3, <3>2, <3>3
  <2> QED BY <1>1, <2>1, <2>2
<1> QED BY <1>2, <1>3 DEF p, q

\* appendToIdArray makes room when exactly one entry is left.
LEMMA GrowDueExactly ==
    ASSUME curId \in Nat
    PROVE  GrowDue <=> curId + 1 = K * ArrUnits(curId)
<1> DEFINE n == K * ArrUnits(curId)
<1>1. n \in Nat /\ n >= 2 /\ curId <= n
  BY UnitsBound
<1>2. GrowDue <=> (curId + 1) % n = 0
  BY DEF GrowDue
<1> HIDE DEF n
<1>3. (curId + 1) % n = 0 <=> curId + 1 = n
  BY <1>1
<1> QED BY <1>2, <1>3 DEF n

\* A set of numbers with a bound has a least and a greatest one.
LEMMA HasLeast ==
    ASSUME NEW T \in SUBSET Nat, T # {}
    PROVE  \E x \in T : \A y \in T : x <= y
<1> DEFINE R == OpToRel(<, Nat)
<1>1. IsWellFoundedOn(R, Nat)
  BY NatLessThanWellFounded
<1> HIDE DEF R
<1>2. PICK t \in T : \A y \in T : <<y, t>> \notin R
  BY <1>1, WFMin
<1>3. \A y, z \in Nat : y < z => <<y, z>> \in R
  BY DEF R, OpToRel
<1>4. ASSUME NEW y \in T PROVE t <= y
  <2>1. y \in Nat /\ t \in Nat
    OBVIOUS
  <2>2. ~ (y < t)
    BY <1>2, <1>3, <2>1
  <2> QED BY <2>1, <2>2
<1> QED BY <1>4

LEMMA HasGreatest ==
    ASSUME NEW n \in Nat, NEW S \in SUBSET (0 .. n), S # {}
    PROVE  \E x \in S : \A y \in S : x >= y
<1> DEFINE T == {n - x : x \in S}
<1>1. T \in SUBSET Nat /\ T # {}
  <2>1. \A x \in S : n - x \in Nat
    OBVIOUS
  <2> QED BY <2>1
<1> HIDE DEF T
<1>2. PICK t \in T : \A y \in T : t <= y
  BY <1>1, HasLeast
<1>3. PICK x \in S : t = n - x
  BY <1>2 DEF T
<1>4. \A y \in S : x >= y
  BY <1>2, <1>3 DEF T
<1> QED BY <1>4

\* A function over 1 .. n is a sequence of length n.
LEMMA FunIsSeq ==
    ASSUME NEW S, NEW n \in Nat, NEW f \in [1 .. n -> S]
    PROVE  f \in Seq(S) /\ Len(f) = n /\ DOMAIN f = 1 .. n
OBVIOUS

\* Writing one entry of a function keeps its type, in its domain or not.
LEMMA ExceptType ==
    ASSUME NEW S, NEW T, NEW f \in [S -> T], NEW x, NEW v \in T
    PROVE  [f EXCEPT ![x] = v] \in [S -> T]
OBVIOUS

----------------------------------------------------------------------------
(* Type correctness *)

\* addNode builds a well-formed file out of a well-formed one.
LEMMA AppendedType ==
    ASSUME TypeOK, NEW parent \in Nat, NEW text \in [TextFields -> Texts],
           NEW num \in [NumFields -> Scalars]
    PROVE  LET f == Appended(file, curId, parent, text, num)
           IN  /\ f \in Seq(Unit)
               /\ Len(f) = Len(file) + NText + 1
               /\ DOMAIN f = 1 .. Len(f)
<1> DEFINE f == Appended(file, curId, parent, text, num)
<1>1. file \in [1 .. Len(file) -> Unit] /\ Len(file) \in Nat /\ NText \in Nat
  BY FieldAssumption DEF TypeOK
<1>2. TuplePos(file) = Len(file) + NText + 1 /\ TuplePos(file) \in Nat
  BY <1>1 DEF TuplePos
<1>3. f \in [1 .. TuplePos(file) -> Unit]
  <2> SUFFICES ASSUME NEW p \in 1 .. TuplePos(file)
               PROVE  (IF p <= Len(file) THEN file[p]
                       ELSE IF p < TuplePos(file)
                            THEN NewBlock(TuplePos(file), text[p - Len(file)])
                            ELSE [kind |-> "tuple", parent |-> parent, id |-> curId,
                                  text |-> [j \in TextFields |-> Len(file) + j],
                                  num |-> num]) \in Unit
    BY DEF Appended
  <2>1. CASE p <= Len(file)
    BY <1>1, <2>1
  <2>2. CASE p > Len(file) /\ p < TuplePos(file)
    <3>1. p - Len(file) \in TextFields
      BY <1>1, <1>2, <2>2 DEF TextFields
    <3>2. NewBlock(TuplePos(file), text[p - Len(file)]) \in Block
      BY <1>2, <3>1 DEF NewBlock, Block
    <3> QED BY <1>1, <2>2, <3>2 DEF Unit
  <2>3. CASE p = TuplePos(file)
    <3>1. [j \in TextFields |-> Len(file) + j] \in [TextFields -> Nat]
      BY <1>1 DEF TextFields
    <3>2. curId \in Nat
      BY DEF TypeOK
    <3>3. [kind |-> "tuple", parent |-> parent, id |-> curId,
           text |-> [j \in TextFields |-> Len(file) + j], num |-> num] \in Tuple
      BY <3>1, <3>2 DEF Tuple
    <3> QED BY <1>1, <1>2, <2>3, <3>3 DEF Unit
  <2> QED BY <1>1, <1>2, <2>1, <2>2, <2>3
<1> HIDE DEF f
<1>4. f \in Seq(Unit) /\ Len(f) = TuplePos(file) /\ DOMAIN f = 1 .. TuplePos(file)
  BY <1>2, <1>3, FunIsSeq
<1> QED BY <1>2, <1>4 DEF f

\* A unit of a well-formed file, by its kind.
LEMMA UnitKinds ==
    ASSUME NEW u \in Unit
    PROVE  /\ u.kind = "tuple" => u \in Tuple
           /\ u.kind = "block" => u \in Block
BY DEF Unit, Tuple, Block, IdsUnit

\* The copy swapNode makes is a unit of the same kind.
LEMMA MovedType ==
    ASSUME NEW u \in Unit, u.kind \in {"tuple", "block"}
    PROVE  Moved(u) \in Unit /\ Moved(u).kind = u.kind
<1>1. CASE u.kind = "tuple"
  <2>1. u \in Tuple
    BY <1>1, UnitKinds
  <2>2. [k \in NumFields |-> IF k \in LastNums THEN 0 ELSE u.num[k]] \in [NumFields -> Scalars]
    BY <2>1, ScalarAssumption DEF Tuple
  <2>3. [j \in TextFields |-> IF j \in LastTexts THEN 0 ELSE u.text[j]] \in [TextFields -> Nat]
    BY <2>1 DEF Tuple
  <2>4. Moved(u) \in Tuple
    BY <1>1, <2>1, <2>2, <2>3 DEF Moved, Tuple
  <2> QED BY <1>1, <2>4 DEF Unit, Tuple
<1>2. CASE u.kind = "block"
  <2>1. u \in Block
    BY <1>2, UnitKinds
  <2>2. Moved(u) \in Block
    BY <1>2, <2>1, TextAssumption DEF Moved, Block
  <2> QED BY <1>2, <2>2 DEF Unit, Block
<1> QED BY <1>1, <1>2

\* swapNode to the end of the file keeps it well-formed, whichever unit moves.
LEMMA TupleMovedType ==
    ASSUME NEW f \in Seq(Unit), NEW r, NEW src, TupleCanMove(f, r, src)
    PROVE  TupleMoved(f, src) \in Seq(Unit) /\ Len(TupleMoved(f, src)) = Len(f) + 1
<1> DEFINE dest == Len(f) + 1
<1>1. /\ f \in [1 .. Len(f) -> Unit] /\ Len(f) \in Nat /\ dest \in Nat
      /\ src \in DOMAIN f /\ f[src] \in Unit /\ f[src].kind = "tuple"
  BY DEF TupleCanMove, IsTuple
<1>2. Moved(f[src]) \in Unit
  BY <1>1, MovedType
<1>3. ASSUME NEW j \in TextFields, NEW p \in 1 .. Len(f), f[src].text[j] = p
      PROVE  [f[p] EXCEPT !.prev = dest] \in Unit
  <2>1. f[p] \in Unit /\ f[p].kind = "block"
    BY <1>1, <1>3 DEF TupleCanMove, IsBlock
  <2>2. f[p] \in Block
    BY <2>1, UnitKinds
  <2>3. [f[p] EXCEPT !.prev = dest] \in Block
    BY <1>1, <2>2 DEF Block
  <2> QED BY <2>3 DEF Unit
<1>4. TupleMoved(f, src) \in [1 .. dest -> Unit]
  <2> SUFFICES ASSUME NEW p \in 1 .. dest
               PROVE  (IF p = dest THEN Moved(f[src])
                       ELSE IF \E j \in TextFields : f[src].text[j] = p
                            THEN [f[p] EXCEPT !.prev = dest] ELSE f[p]) \in Unit
    BY DEF TupleMoved
  <2>1. CASE p = dest
    BY <1>2, <2>1
  <2>2. CASE p \in 1 .. Len(f)
    BY <1>1, <1>3, <2>2
  <2> QED BY <1>1, <2>1, <2>2
<1> QED BY <1>1, <1>4, FunIsSeq

\* swapNode to the end of the file keeps it well-formed when a block moves too.
LEMMA BlockMovedType ==
    ASSUME NEW f \in Seq(Unit), NEW r, NEW src, BlockCanMove(f, r, src)
    PROVE  BlockMoved(f, src) \in Seq(Unit) /\ Len(BlockMoved(f, src)) = Len(f) + 1
<1> DEFINE dest == Len(f) + 1
<1>1. /\ f \in [1 .. Len(f) -> Unit] /\ Len(f) \in Nat /\ dest \in Nat
      /\ src \in DOMAIN f /\ f[src] \in Unit /\ f[src].kind = "block"
  BY DEF BlockCanMove, IsBlock
<1>2. Moved(f[src]) \in Unit
  BY <1>1, MovedType
<1>3. ASSUME NEW p \in 1 .. Len(f), p = f[src].prev
      PROVE  [f[p] EXCEPT !.text = Redirected(f[p].text, src, dest)] \in Unit
  <2>1. f[p] \in Unit /\ f[p].kind = "tuple"
    BY <1>1, <1>3 DEF BlockCanMove, IsTuple
  <2>2. f[p] \in Tuple
    BY <2>1, UnitKinds
  <2>3. Redirected(f[p].text, src, dest) \in [TextFields -> Nat]
    BY <1>1, <2>2 DEF Redirected, Tuple
  <2>4. [f[p] EXCEPT !.text = Redirected(f[p].text, src, dest)] \in Tuple
    BY <2>2, <2>3 DEF Tuple
  <2> QED BY <2>4 DEF Unit
<1>4. BlockMoved(f, src) \in [1 .. dest -> Unit]
  <2> SUFFICES ASSUME NEW p \in 1 .. dest
               PROVE  (IF p = dest THEN Moved(f[src])
                       ELSE IF p = f[src].prev
                            THEN [f[p] EXCEPT !.text = Redirected(f[p].text, src, dest)]
                            ELSE f[p]) \in Unit
    BY DEF BlockMoved
  <2>1. CASE p = dest
    BY <1>2, <2>1
  <2>2. CASE p \in 1 .. Len(f)
    BY <1>1, <1>3, <2>2
  <2> QED BY <1>1, <2>1, <2>2
<1> QED BY <1>1, <1>4, FunIsSeq

\* The inductive invariant of every operation: cutting the file keeps it
\* well-formed only because the id array lies inside it.
SafeInv == TypeOK /\ SchemaInFile

\* An empty file (createEmptyTreeSchema) is well-formed and holds its id array.
LEMMA SafeInit == Init => SafeInv
<1> SUFFICES ASSUME Init PROVE SafeInv
  OBVIOUS
<1>1. ArrUnits(0) = 1 /\ K * ArrUnits(0) \in Nat
  BY UnitsBound
<1>2. file \in [1 .. 1 -> Unit]
  BY DEF Init, Unit
<1>3. file \in Seq(Unit) /\ Len(file) = 1
  BY <1>2, FunIsSeq
<1>4. root \in [Entries(0) -> Nat]
  BY DEF Init
<1>5. curId = 0 /\ wild \in BOOLEAN
  BY DEF Init
<1> QED BY <1>1, <1>3, <1>4, <1>5 DEF SafeInv, TypeOK, SchemaInFile

\* addNode keeps the file well-formed: the units it appends are what the id array
\* may need when it grows.
LEMMA AddNodeSafe ==
    ASSUME SafeInv, NEW parent \in Parents, NEW text \in [TextFields -> Given],
           NEW num \in [NumFields -> Scalars], AddNode(parent, text, num)
    PROVE  SafeInv'
<1> DEFINE f == Appended(file, curId, parent, text, num)
           n == K * ArrUnits(curId)
<1> USE DEF SafeInv
<1>1. parent \in Nat /\ text \in [TextFields -> Texts]
  BY ScalarAssumption, TextAssumption
<1>2. f \in Seq(Unit) /\ Len(f) = Len(file) + NText + 1 /\ DOMAIN f = 1 .. Len(f)
  BY <1>1, AppendedType
<1>3. /\ curId \in Nat /\ root \in [Entries(curId) -> Nat] /\ wild \in BOOLEAN
      /\ Len(file) \in Nat /\ Len(file) >= ArrUnits(curId) /\ NText \in Nat
  BY FieldAssumption DEF TypeOK, SchemaInFile
<1>4. /\ ArrUnits(curId) \in Nat /\ ArrUnits(curId + 1) \in Nat
      /\ n \in Nat /\ n >= 2 /\ curId <= n
      /\ Entries(curId) = 0 .. n - 1
  <2>1. curId + 1 \in Nat
    BY <1>3
  <2> QED BY <1>3, <2>1, UnitsBound DEF Entries
<1>5. /\ curId < n => ArrUnits(curId + 1) = ArrUnits(curId)
      /\ curId = n => ArrUnits(curId + 1) = ArrUnits(curId) + 1
  BY <1>3, UnitsStep
<1>6. AddInPlace(f) \/ AddGrowing(f) \/ AddCrossing(f)
  BY DEF AddNode
<1> HIDE DEF f, n
<1>a. Len(f) \in Nat /\ Len(f) + 1 \in Nat
  BY <1>2, <1>3
<1>7. CASE AddInPlace(f)
  <2>1. curId' = curId + 1 /\ curId < n /\ file' = f /\ wild' = wild
    BY <1>7 DEF AddInPlace, n
  <2>2. Entries(curId') = Entries(curId)
    BY <1>5, <2>1 DEF Entries
  <2>3. root' \in [Entries(curId') -> Nat]
    BY <1>3, <1>7, <1>a, <2>2, ExceptType DEF AddInPlace
  <2> QED BY <1>2, <1>3, <1>4, <1>5, <2>1, <2>3 DEF TypeOK, SchemaInFile
<1>8. CASE AddGrowing(f)
  <2> DEFINE src == FirstNode(curId)
  <2>1. curId < n
    BY <1>3, <1>4, <1>8, GrowDueExactly DEF AddGrowing, n
  <2>2. ArrUnits(curId + 1) = ArrUnits(curId) /\ Entries(curId + 1) = Entries(curId)
    BY <1>5, <2>1 DEF Entries
  <2>3. CASE /\ TupleCanMove(f, root, src)
             /\ file' = TupleMoved(f, src)
             /\ root' = [Relinked(root, f[src].id, Len(f) + 1) EXCEPT ![curId] = Len(f)]
             /\ curId' = curId + 1
             /\ UNCHANGED wild
    <3>1. file' \in Seq(Unit) /\ Len(file') = Len(f) + 1
      BY <1>2, <2>3, TupleMovedType
    <3>2. root' \in [Entries(curId) -> Nat]
      <4>1. Relinked(root, f[src].id, Len(f) + 1) \in [Entries(curId) -> Nat]
        BY <1>3, <1>a, ExceptType DEF Relinked
      <4> QED BY <1>a, <2>3, <4>1, ExceptType
    <3>3. /\ curId' \in Nat /\ Entries(curId') = Entries(curId)
          /\ ArrUnits(curId') = ArrUnits(curId) /\ wild' \in BOOLEAN
      BY <1>3, <2>2, <2>3
    <3>4. Len(file') >= ArrUnits(curId')
      BY <1>2, <1>3, <1>4, <3>1, <3>3
    <3> QED BY <3>1, <3>2, <3>3, <3>4 DEF TypeOK, SchemaInFile
  <2>4. CASE /\ BlockCanMove(f, root, src)
             /\ file' = BlockMoved(f, src)
             /\ root' = [root EXCEPT ![curId] = Len(f)]
             /\ curId' = curId + 1
             /\ UNCHANGED wild
    <3>1. file' \in Seq(Unit) /\ Len(file') = Len(f) + 1
      BY <1>2, <2>4, BlockMovedType
    <3>2. root' \in [Entries(curId) -> Nat]
      BY <1>3, <1>a, <2>4, ExceptType
    <3>3. /\ curId' \in Nat /\ Entries(curId') = Entries(curId)
          /\ ArrUnits(curId') = ArrUnits(curId) /\ wild' \in BOOLEAN
      BY <1>3, <2>2, <2>4
    <3>4. Len(file') >= ArrUnits(curId')
      BY <1>2, <1>3, <1>4, <3>1, <3>3
    <3> QED BY <3>1, <3>2, <3>3, <3>4 DEF TypeOK, SchemaInFile
  <2>5. CASE GoWild
    BY <2>5 DEF GoWild, TypeOK, SchemaInFile
  <2> QED BY <1>8, <2>3, <2>4, <2>5 DEF AddGrowing
<1>9. CASE AddCrossing(f)
  <2>1. curId = n /\ curId' = curId + 1 /\ wild' = wild
    BY <1>9 DEF AddCrossing, n
  <2>2. ArrUnits(curId') = ArrUnits(curId) + 1
    BY <1>5, <2>1
  <2>3. file' \in Seq(Unit) /\ Len(file') = Len(f)
    <3>1. file' \in [1 .. Len(f) -> Unit]
      <4>1. f \in [1 .. Len(f) -> Unit] /\ IdsUnit \in Unit
        BY <1>2 DEF Unit
      <4> QED BY <1>9, <4>1, ExceptType DEF AddCrossing
    <3> QED BY <1>2, <1>3, <3>1, FunIsSeq
  <2>4. root' \in [Entries(curId') -> Nat]
    <3>1. PICK heap \in [curId + 1 .. K * ArrUnits(curId + 1) - 1 -> Garbage] :
             root' = [i \in Entries(curId + 1) |->
                        IF i < curId THEN root[i]
                        ELSE IF i = curId THEN Len(f) ELSE heap[i]]
      BY <1>9 DEF AddCrossing
    <3>2. K * ArrUnits(curId + 1) \in Nat
      BY <1>3, UnitsBound
    <3>3. ASSUME NEW i \in Entries(curId + 1)
          PROVE  (IF i < curId THEN root[i]
                  ELSE IF i = curId THEN Len(f) ELSE heap[i]) \in Nat
      <4> i \in Nat
        BY <3>2 DEF Entries
      <4>1. CASE i < curId
        BY <1>3, <1>4, <2>1, <4>1
      <4>2. CASE i = curId
        BY <1>2, <1>3, <4>2
      <4>3. CASE i > curId
        <5>1. i \in curId + 1 .. K * ArrUnits(curId + 1) - 1
          BY <1>3, <3>2, <4>3 DEF Entries
        <5>2. heap[i] \in Nat
          BY <5>1, ScalarAssumption
        <5> QED BY <1>3, <4>3, <5>2
      <4> QED BY <1>3, <3>2, <4>1, <4>2, <4>3 DEF Entries
    <3> QED BY <2>1, <3>1, <3>3
  <2> QED BY <1>2, <1>3, <1>4, <2>1, <2>2, <2>3, <2>4 DEF TypeOK, SchemaInFile
<1> QED BY <1>6, <1>7, <1>8, <1>9

\* updateNode of a scalar field keeps the file well-formed, whatever the id.
LEMMA UpdateNumSafe ==
    ASSUME SafeInv, NEW id, NEW field \in NumFields, NEW value \in Scalars,
           UpdateNum(id, field, value)
    PROVE  SafeInv'
<1> USE DEF SafeInv
<1>1. CASE GoWild
  BY <1>1 DEF GoWild, TypeOK, SchemaInFile
<1>2. CASE /\ IsTuple(file, root[id])
           /\ file' = [file EXCEPT ![root[id]].num[field] = value]
           /\ UNCHANGED <<root, curId, wild>>
  <2> DEFINE p == root[id]
  <2>1. /\ file \in [1 .. Len(file) -> Unit] /\ Len(file) \in Nat
        /\ p \in DOMAIN file /\ file[p] \in Tuple
    BY <1>2, UnitKinds DEF TypeOK, IsTuple
  <2>2. [file[p] EXCEPT !.num[field] = value] \in Tuple
    BY <2>1 DEF Tuple
  <2>3. file' \in [1 .. Len(file) -> Unit]
    BY <1>2, <2>1, <2>2 DEF Unit
  <2>4. file' \in Seq(Unit) /\ Len(file') = Len(file)
    BY <2>1, <2>3, FunIsSeq
  <2> QED BY <1>2, <2>4 DEF TypeOK, SchemaInFile
<1> QED BY <1>1, <1>2 DEF UpdateNum

\* updateNode of a text keeps it well-formed: it writes a block and never cuts.
LEMMA UpdateTextSafe ==
    ASSUME SafeInv, NEW id, NEW field \in TextFields, UpdateText(id, field)
    PROVE  SafeInv'
<1> USE DEF SafeInv
<1>1. CASE GoWild
  BY <1>1 DEF GoWild, TypeOK, SchemaInFile
<1>2. CASE HasTextBlock(id, field) /\ ~ GoWild
  <2> DEFINE p == TextBlock(id, field)
             stack == [kind |-> "block", prev |-> 0, next |-> 0, text |-> Junk]
  <2>1. /\ file \in [1 .. Len(file) -> Unit] /\ Len(file) \in Nat
        /\ p \in DOMAIN file /\ file[p] \in Block
    BY <1>2, UnitKinds DEF TypeOK, HasTextBlock, IsBlock
  <2>2. PICK more \in 0 .. 1 :
           file' = [q \in 1 .. Len(file) + more |->
                      IF q > Len(file) THEN stack
                      ELSE IF q = p
                           THEN [file[p] EXCEPT !.text = Junk, !.next = Len(file) + 1]
                           ELSE file[q]]
    BY <1>2 DEF UpdateText
  <2>3. UNCHANGED <<root, curId, wild>>
    BY <1>2 DEF UpdateText
  <2>4. stack \in Unit
    BY TextAssumption DEF Unit, Block
  <2> HIDE DEF p, stack
  <2>5. [file[p] EXCEPT !.text = Junk, !.next = Len(file) + 1] \in Block
    <3>1. ASSUME NEW u \in Block, NEW x \in Nat
          PROVE  [u EXCEPT !.text = Junk, !.next = x] \in Block
      BY TextAssumption DEF Block
    <3>2. Len(file) + 1 \in Nat
      BY <2>1
    <3> QED BY <2>1, <3>1, <3>2
  <2>6. file' \in [1 .. Len(file) + more -> Unit]
    BY <2>1, <2>2, <2>4, <2>5 DEF Unit
  <2>7. file' \in Seq(Unit) /\ Len(file') = Len(file) + more
    BY <2>1, <2>6, FunIsSeq
  <2>8. ArrUnits(curId) \in Nat
    BY UnitsBound DEF TypeOK
  <2> QED BY <2>1, <2>2, <2>3, <2>7, <2>8 DEF TypeOK, SchemaInFile
<1> QED BY <1>1, <1>2 DEF UpdateText

\* removeFromIdArray leaves an array of the size the new curId asks for.
LEMMA ClearedType ==
    ASSUME SafeInv, NEW id \in Live
    PROVE  /\ CurIdAfter(id) \in Nat /\ CurIdAfter(id) <= curId
           /\ Cleared(id, CurIdAfter(id)) \in [Entries(CurIdAfter(id)) -> Nat]
           /\ ArrUnits(CurIdAfter(id)) \in Nat \ {0}
           /\ ArrUnits(CurIdAfter(id)) <= Len(file)
           /\ root[id] \in Nat
<1> DEFINE c == CurIdAfter(id)
<1>1. curId \in Nat /\ root \in [Entries(curId) -> Nat] /\ id \in 0 .. curId - 1
  BY DEF SafeInv, TypeOK, Live
<1>2. c \in Nat /\ c <= curId
  BY <1>1 DEF CurIdAfter
<1> HIDE DEF c
<1>3. /\ K * ArrUnits(c) \in Nat /\ K * ArrUnits(curId) \in Nat
      /\ K * ArrUnits(c) <= K * ArrUnits(curId)
      /\ ArrUnits(c) \in Nat \ {0} /\ ArrUnits(c) <= ArrUnits(curId)
      /\ ArrUnits(curId) \in Nat /\ curId <= K * ArrUnits(curId)
  BY <1>1, <1>2, UnitsBound, UnitsMonotone
<1>4. Entries(c) \subseteq Entries(curId) /\ id \in Entries(curId)
  BY <1>1, <1>3 DEF Entries
<1>5. Cleared(id, c) \in [Entries(c) -> Nat]
  BY <1>1, <1>4 DEF Cleared
<1>6. ArrUnits(c) <= Len(file)
  BY <1>3 DEF SafeInv, TypeOK, SchemaInFile
<1> QED BY <1>1, <1>2, <1>3, <1>4, <1>5, <1>6 DEF c

\* The swaps of a removal leave the entries of the other nodes, none zeroed and
\* none set that was zero: what they write goes to an entry that was not zero.
LEMMA OwnUnits ==
    ASSUME SafeInv, NEW id \in Live, FindsUnits(id)
    PROVE  /\ RootAfterOwn(id) \in [Entries(CurIdAfter(id)) -> Nat]
           /\ \A i \in Entries(CurIdAfter(id)) :
                 RootAfterOwn(id)[i] # 0 <=> (i # id /\ root[i] # 0)
<1> DEFINE c     == CurIdAfter(id)
           src   == Src(id)
           first == FirstUnit(id)
           r     == Cleared(id, c)
<1>1. /\ c \in Nat /\ r \in [Entries(c) -> Nat] /\ root[id] \in Nat
      /\ ArrUnits(c) \in Nat \ {0}
  BY ClearedType
<1>2. src \in Nat /\ src # 0 /\ root[id] # 0
  BY <1>1 DEF Src, FirstNode, Live
<1>3. file \in [1 .. Len(file) -> Unit]
  BY DEF SafeInv, TypeOK
<1>4. first \in Nat /\ first # 0
  <2>1. CASE ReadsTexts(id)
    <3>1. file[root[id]] \in Tuple /\ 1 \in TextFields
      BY <1>3, <2>1, UnitKinds, FieldAssumption
         DEF FindsUnits, ReadsTexts, IsTuple, TextFields
    <3>2. first \in Nat
      BY <2>1, <3>1 DEF FirstUnit, Tuple
    <3>3. first >= src
      BY DEF FindsUnits
    <3> HIDE DEF first, src
    <3> QED BY <1>2, <3>2, <3>3
  <2>2. CASE ~ ReadsTexts(id)
    BY <1>1, <1>2, <2>2 DEF FirstUnit
  <2> QED BY <2>1, <2>2
<1>5. \A i \in Entries(c) : r[i] # 0 <=> (i # id /\ root[i] # 0)
  BY DEF Cleared
<1> HIDE DEF c, src, first, r
<1>6. ASSUME NEW q \in [Entries(c) -> Nat], NEW dest \in Nat, dest # 0
      PROVE  /\ RootAfterEmptySwap(q, src, dest) \in [Entries(c) -> Nat]
             /\ \A i \in Entries(c) : RootAfterEmptySwap(q, src, dest)[i] # 0 <=> q[i] # 0
  BY <1>2, <1>6, ExceptType DEF RootAfterEmptySwap
<1>7. /\ RootAfterSwap(file, r, src, first) \in [Entries(c) -> Nat]
      /\ \A i \in Entries(c) : RootAfterSwap(file, r, src, first)[i] # 0 <=> r[i] # 0
  <2> DEFINE word == file[src].id
             taken == first # src /\ IsTuple(file, src) /\ TakenForTuple(r, file[src], src)
             after == RootAfterSwap(file, r, src, first)
  <2>1. after = IF taken THEN [r EXCEPT ![word] = first] ELSE r
    BY DEF RootAfterSwap, Relinked
  <2>2. taken => word \in DOMAIN r /\ r[word] = src
    BY DEF IsTuple, TakenForTuple
  <2> HIDE DEF taken, word, after
  <2>3. after \in [Entries(c) -> Nat]
    BY <1>1, <1>4, <2>1, ExceptType
  <2>4. \A i \in Entries(c) : after[i] = IF taken /\ i = word THEN first ELSE r[i]
    BY <1>1, <2>1
  <2>5. \A i \in Entries(c) : after[i] # 0 <=> r[i] # 0
    BY <1>2, <1>4, <2>2, <2>4
  <2> QED BY <2>3, <2>5 DEF after
<1>8. /\ RootAfterCut(id) \in [Entries(c) -> Nat]
      /\ \A i \in Entries(c) : RootAfterCut(id)[i] # 0 <=> r[i] # 0
  BY <1>1, <1>4, <1>6, <1>7 DEF RootAfterCut, c, r, src, first
<1>9. /\ RootAfterOwn(id) \in [Entries(c) -> Nat]
      /\ \A i \in Entries(c) : RootAfterOwn(id)[i] # 0 <=> r[i] # 0
  BY <1>1, <1>2, <1>6, <1>8 DEF RootAfterOwn, src
<1> QED BY <1>5, <1>9 DEF c

\* A removal of id that takes the nodes of gone with it, as the id array sees it.
Removes(id, gone) ==
    /\ file' = CutAt(CurIdAfter(id))
    /\ curId' \in CurIdsAfter(CurIdAfter(id), gone)
    /\ ArrUnits(curId') = ArrUnits(CurIdAfter(id))
    /\ root' \in [Entries(CurIdAfter(id)) -> Nat]
    /\ \A i \in Entries(CurIdAfter(id)) :
          root'[i] # 0 <=> (i # id /\ i \notin gone /\ root[i] # 0)
    /\ UNCHANGED wild

\* removeNode unlists the node and those it takes for its children, lists none,
\* and cuts the file behind the id array.
LEMMA RemoveListedGives ==
    ASSUME SafeInv, NEW id \in Live, RemoveListed(id)
    PROVE  GoWild \/ \E gone \in SUBSET (Live \ {id}) : Removes(id, gone)
<1> SUFFICES ASSUME ~ GoWild
             PROVE  \E gone \in SUBSET (Live \ {id}) : Removes(id, gone)
  OBVIOUS
<1> DEFINE c == CurIdAfter(id)
           r == RootAfterOwn(id)
<1>1. PICK gone \in SUBSET (Live \ {id}) : RemoveChildren(gone, r, Src(id), c)
  BY DEF RemoveListed
<1>2. FindsUnits(id) /\ file' = CutAt(c) /\ UNCHANGED wild
  BY DEF RemoveListed
<1>3. /\ r \in [Entries(c) -> Nat]
      /\ \A i \in Entries(c) : r[i] # 0 <=> (i # id /\ root[i] # 0)
  BY <1>2, OwnUnits
<1>4. Src(id) \in Nat /\ Src(id) # 0
  BY ClearedType DEF Src, FirstNode
<1>5. gone \subseteq Entries(c)
  <2>1. c \in Nat /\ curId \in Nat /\ c >= curId - 1 /\ (c = curId - 1 => id = c)
    BY ClearedType DEF CurIdAfter, SafeInv, TypeOK
  <2> HIDE DEF c
  <2>2. c <= K * ArrUnits(c) /\ K * ArrUnits(c) \in Nat
    BY <2>1, UnitsBound
  <2>3. \A n \in gone : n \in 0 .. c - 1
    BY <2>1 DEF Live
  <2> QED BY <2>1, <2>2, <2>3 DEF Entries
<1> HIDE DEF r, c
<1>6. PICK dest \in IF {r[n] : n \in gone} \ {Src(id)} = {} THEN {Src(id)}
                    ELSE {r[n] : n \in gone} \ {Src(id)} :
         root' = [i \in DOMAIN r |->
                    IF i \in gone THEN 0 ELSE IF i = 0 /\ r[i] = Src(id) THEN dest ELSE r[i]]
  BY <1>1 DEF RemoveChildren
<1>7. dest \in Nat /\ dest # 0
  <2>1. \A n \in gone : r[n] \in Nat /\ r[n] >= Src(id)
    BY <1>1, <1>3, <1>5 DEF RemoveChildren
  <2>2. \A n \in gone : r[n] # 0
    BY <1>4, <2>1
  <2> QED BY <1>4, <1>6, <2>1, <2>2
<1>8. root' \in [Entries(c) -> Nat]
  BY <1>3, <1>6, <1>7
<1>9. \A i \in Entries(c) : root'[i] # 0 <=> (i \notin gone /\ r[i] # 0)
  BY <1>3, <1>4, <1>6, <1>7
<1>10. \A i \in Entries(c) : root'[i] # 0 <=> (i # id /\ i \notin gone /\ root[i] # 0)
  BY <1>3, <1>9
<1>11. Removes(id, gone)
  BY <1>1, <1>2, <1>8, <1>10 DEF Removes, RemoveChildren, c
<1> QED BY <1>11

\* removeNode cuts the file, but never inside the id array it leaves.
LEMMA RemoveNodeSafe ==
    ASSUME SafeInv, NEW id, RemoveNode(id)
    PROVE  SafeInv'
<1>1. CASE GoWild
  BY <1>1 DEF GoWild, SafeInv, TypeOK, SchemaInFile
<1>2. CASE id \in Live /\ RemoveListed(id) /\ ~ GoWild
  <2> DEFINE c == CurIdAfter(id)
  <2>1. PICK gone \in SUBSET (Live \ {id}) : Removes(id, gone)
    BY <1>2, RemoveListedGives
  <2>2. c \in Nat /\ ArrUnits(c) \in Nat \ {0} /\ ArrUnits(c) <= Len(file)
    BY <1>2, ClearedType
  <2>3. file \in [1 .. Len(file) -> Unit] /\ Len(file) \in Nat
    BY DEF SafeInv, TypeOK
  <2> HIDE DEF c
  <2>4. file' \in Seq(Unit) /\ Len(file') = ArrUnits(c)
    <3>1. file' = [p \in 1 .. ArrUnits(c) |-> file[p]]
      BY <2>1, <2>2, <2>3 DEF Removes, CutAt, c
    <3>2. file' \in [1 .. ArrUnits(c) -> Unit]
      BY <2>2, <2>3, <3>1
    <3> QED BY <2>2, <3>2, FunIsSeq
  <2>5. curId' \in Nat /\ ArrUnits(curId') = ArrUnits(c)
    BY <2>1, <2>2 DEF Removes, CurIdsAfter, c
  <2>6. root' \in [Entries(curId') -> Nat]
    BY <2>1, <2>5 DEF Removes, Entries, c
  <2>7. wild' \in BOOLEAN
    BY <2>1 DEF Removes, SafeInv, TypeOK
  <2> QED BY <2>2, <2>4, <2>5, <2>6, <2>7 DEF SafeInv, TypeOK, SchemaInFile
<1> QED BY <1>1, <1>2 DEF RemoveNode

\* A call of the file's functions, with any id: what other modules do to it.
FileCall ==
    \/ UNCHANGED vars \/ GoWild \/ Adds
    \/ \E id : \E field \in NumFields, value \in Scalars : UpdateNum(id, field, value)
    \/ \E id : \E field \in TextFields : UpdateText(id, field)
    \/ \E id : RemoveNode(id)

LEMMA CallSafe == ASSUME SafeInv, FileCall PROVE SafeInv'
<1>1. CASE UNCHANGED vars \/ GoWild
  BY <1>1 DEF vars, GoWild, SafeInv, TypeOK, SchemaInFile
<1>2. CASE Adds
  BY <1>2, AddNodeSafe DEF Adds
<1>3. CASE \E id : \E field \in NumFields, value \in Scalars : UpdateNum(id, field, value)
  <2>1. PICK id : \E field \in NumFields, value \in Scalars : UpdateNum(id, field, value)
    BY <1>3
  <2> QED BY <2>1, UpdateNumSafe
<1>4. CASE \E id : \E field \in TextFields : UpdateText(id, field)
  <2>1. PICK id : \E field \in TextFields : UpdateText(id, field)
    BY <1>4
  <2> QED BY <2>1, UpdateTextSafe
<1>5. CASE \E id : RemoveNode(id)
  <2>1. PICK id : RemoveNode(id)
    BY <1>5
  <2> QED BY <2>1, RemoveNodeSafe
<1> QED BY <1>1, <1>2, <1>3, <1>4, <1>5 DEF FileCall

\* Every operation keeps the inductive invariant.
LEMMA SafeStep == SafeInv /\ [Next]_vars => SafeInv'
<1> SUFFICES ASSUME SafeInv, [Next]_vars PROVE SafeInv'
  OBVIOUS
<1>1. CASE Adds
  BY <1>1, AddNodeSafe DEF Adds
<1>2. CASE \E id \in 0 .. MaxIds, field \in NumFields, value \in Scalars :
              UpdateNum(id, field, value)
  BY <1>2, UpdateNumSafe
<1>3. CASE \E id \in 0 .. MaxIds, field \in TextFields : UpdateText(id, field)
  BY <1>3, UpdateTextSafe
<1>4. CASE \E id \in 0 .. MaxIds : RemoveNode(id)
  BY <1>4, RemoveNodeSafe
<1>5. CASE UNCHANGED vars
  BY <1>5 DEF vars, SafeInv, TypeOK, SchemaInFile
<1> QED BY <1>1, <1>2, <1>3, <1>4, <1>5 DEF Next

\* So it holds after any operations.
LEMMA SafeAlways == Spec => []SafeInv
BY SafeInit, SafeStep, PTL DEF Spec

\* After any operations, in any order and on any ids, the units of the file and
\* the id array are well-formed.
THEOREM TypeCorrect == Spec => []TypeOK
<1>1. SafeInv => TypeOK
  BY DEF SafeInv
<1> QED BY <1>1, SafeAlways, PTL

\* After any operations the id array readTreeSchema asks for is inside the file.
THEOREM SchemaAlwaysInFile == Spec => []SchemaInFile
<1>1. SafeInv => SchemaInFile
  BY DEF SafeInv
<1> QED BY <1>1, SafeAlways, PTL

----------------------------------------------------------------------------
(* The storage file implements IdAllocator under all operations *)

\* A step that lists curId and unlists nothing is an Append of the allocator.
LEMMA AppendStep ==
    ASSUME curId \in Nat, curId' = curId + 1, root'[curId] # 0,
           \A i \in 0 .. curId - 1 : root'[i] # 0 <=> root[i] # 0
    PROVE  Ids!Append
<1>1. 0 .. curId' - 1 = (0 .. curId - 1) \cup {curId}
  OBVIOUS
<1>2. Live' = {i \in 0 .. curId' - 1 : root'[i] # 0}
  BY DEF Live
<1>3. Live' = Live \cup {curId}
  BY <1>1, <1>2 DEF Live
<1> QED BY <1>3 DEF Ids!Append

\* The numbers below c are those below n and those from n on.
LEMMA SplitAt ==
    ASSUME NEW c \in Nat, NEW n \in 0 .. c
    PROVE  /\ \A i \in 0 .. c - 1 : i \in 0 .. n - 1 \/ i \in n .. c - 1
           /\ \A i \in 0 .. n - 1 : i \in 0 .. c - 1
OBVIOUS

\* A step that unlists id and the nodes of children is a Release of the
\* allocator.
LEMMA ReleaseStep ==
    ASSUME curId \in Nat, NEW id \in Live, NEW children \in SUBSET (Live \ {id}),
           curId' \in CurIdsAfter(CurIdAfter(id), children),
           \A i \in 0 .. CurIdAfter(id) - 1 :
              root'[i] # 0 <=> (i # id /\ i \notin children /\ root[i] # 0)
    PROVE  Ids!Release(id, children)
<1> DEFINE c == CurIdAfter(id)
<1>1. id \in 0 .. curId - 1 /\ c \in Nat
  BY DEF Live, CurIdAfter
<1>2. (0 .. c - 1) \ {id} = (0 .. curId - 1) \ {id}
  BY <1>1 DEF CurIdAfter
<1>3. curId' \in 0 .. c /\ curId' .. c - 1 \subseteq children
  BY DEF CurIdsAfter
<1>4. Ids!After(id) = c
  BY DEF Ids!After, CurIdAfter
<1> HIDE DEF c
<1>5. Live' = {i \in 0 .. curId' - 1 : root'[i] # 0}
  BY DEF Live
<1>6. \A i \in 0 .. c - 1 : i \notin children => i \in 0 .. curId' - 1
  BY <1>1, <1>3, SplitAt
<1>7. \A i \in 0 .. curId' - 1 : i \in 0 .. c - 1
  BY <1>1, <1>3, SplitAt
<1>8. Live' = {i \in 0 .. c - 1 : i # id /\ i \notin children /\ root[i] # 0}
  BY <1>5, <1>6, <1>7 DEF c
<1>9. Live' = Live \ ({id} \cup children)
  BY <1>2, <1>8 DEF Live
<1> QED BY <1>3, <1>4, <1>9 DEF Ids!Release

\* addNode gives out the next id, or goes astray and changes nothing.
LEMMA AddNodeRefines ==
    ASSUME SafeInv, NEW parent \in Parents, NEW text \in [TextFields -> Given],
           NEW num \in [NumFields -> Scalars], AddNode(parent, text, num)
    PROVE  Ids!Append \/ UNCHANGED <<root, curId>>
<1> DEFINE f == Appended(file, curId, parent, text, num)
           n == K * ArrUnits(curId)
<1>1. curId \in Nat /\ root \in [Entries(curId) -> Nat]
  BY DEF SafeInv, TypeOK
<1>2. Len(f) \in Nat /\ Len(f) # 0 /\ Len(f) + 1 # 0
  <2>1. Len(f) = Len(file) + NText + 1 /\ Len(file) \in Nat /\ NText \in Nat
    BY AppendedType, ScalarAssumption, TextAssumption, FieldAssumption DEF SafeInv, TypeOK
  <2> HIDE DEF f
  <2> QED BY <2>1
<1>3. /\ n \in Nat /\ n >= 2 /\ curId <= n /\ Entries(curId) = 0 .. n - 1
      /\ ArrUnits(curId) \in Nat
  <2>1. /\ ArrUnits(curId) \in Nat /\ n \in Nat /\ n >= 2 /\ curId <= n
    BY <1>1, UnitsBound
  <2> QED BY <2>1 DEF Entries
<1>4. AddInPlace(f) \/ AddGrowing(f) \/ AddCrossing(f)
  BY DEF AddNode
<1> HIDE DEF f, n
<1>5. CASE curId' = curId + 1 /\ curId < n /\ root' = [root EXCEPT ![curId] = Len(f)]
  <2>1. root'[curId] # 0 /\ \A i \in 0 .. curId - 1 : root'[i] = root[i]
    BY <1>1, <1>2, <1>3, <1>5
  <2> QED BY <1>1, <1>5, <2>1, AppendStep
<1>6. CASE AddInPlace(f)
  BY <1>5, <1>6 DEF AddInPlace, n
<1>7. CASE AddGrowing(f)
  <2> DEFINE src == FirstNode(curId)
             id  == f[src].id
  <2>1. curId < n /\ src # 0
    BY <1>1, <1>3, <1>7, GrowDueExactly DEF AddGrowing, n, FirstNode
  <2>2. CASE /\ TupleCanMove(f, root, src)
             /\ root' = [Relinked(root, id, Len(f) + 1) EXCEPT ![curId] = Len(f)]
             /\ curId' = curId + 1
    <3>1. id \in DOMAIN root /\ root[id] # 0
      BY <2>1, <2>2 DEF TupleCanMove, IsTuple, TakenForTuple
    <3> HIDE DEF src, id
    <3>2. root' = [[root EXCEPT ![id] = Len(f) + 1] EXCEPT ![curId] = Len(f)]
      BY <2>2 DEF Relinked
    <3>3. \A i \in 0 .. curId - 1 : root'[i] = IF i = id THEN Len(f) + 1 ELSE root[i]
      <4>1. \A i \in 0 .. curId - 1 : i \in DOMAIN root /\ i # curId
        BY <1>1, <1>3
      <4> QED BY <3>2, <4>1
    <3>4. root'[curId] = Len(f)
      BY <1>1, <1>3, <2>1, <3>2
    <3> QED BY <1>1, <1>2, <2>2, <3>1, <3>3, <3>4, AppendStep
  <2>3. CASE root' = [root EXCEPT ![curId] = Len(f)] /\ curId' = curId + 1
    BY <1>5, <2>1, <2>3
  <2>4. CASE GoWild
    BY <2>4 DEF GoWild
  <2> QED BY <1>7, <2>2, <2>3, <2>4 DEF AddGrowing
<1>8. CASE AddCrossing(f)
  <2>1. PICK heap : root' = [i \in Entries(curId + 1) |->
                               IF i < curId THEN root[i]
                               ELSE IF i = curId THEN Len(f) ELSE heap[i]]
    BY <1>8 DEF AddCrossing
  <2>2. curId + 1 \in Nat
    BY <1>1
  <2>3. K * ArrUnits(curId + 1) \in Nat /\ curId + 1 <= K * ArrUnits(curId + 1)
    BY <2>2, UnitsBound
  <2>4. \A i \in 0 .. curId : i \in Entries(curId + 1)
    BY <1>1, <2>3 DEF Entries
  <2>5. root'[curId] = Len(f) /\ \A i \in 0 .. curId - 1 : root'[i] = root[i]
    BY <1>1, <2>1, <2>4
  <2>6. curId' = curId + 1
    BY <1>8 DEF AddCrossing
  <2> QED BY <1>1, <1>2, <2>5, <2>6, AppendStep
<1> QED BY <1>4, <1>6, <1>7, <1>8

\* A removal as the id array sees it is a Release of the allocator.
LEMMA RemovesReleases ==
    ASSUME SafeInv, NEW id \in Live, NEW gone \in SUBSET (Live \ {id}), Removes(id, gone)
    PROVE  Ids!Release(id, gone)
<1>1. \A i \in 0 .. CurIdAfter(id) - 1 : i \in Entries(CurIdAfter(id))
  <2> DEFINE c == CurIdAfter(id)
  <2>1. c \in Nat
    BY ClearedType
  <2> HIDE DEF c
  <2>2. c <= K * ArrUnits(c) /\ K * ArrUnits(c) \in Nat
    BY <2>1, UnitsBound
  <2>3. \A i \in 0 .. c - 1 : i \in Entries(c)
    BY <2>1, <2>2 DEF Entries
  <2> QED BY <2>3 DEF c
<1>2. curId \in Nat
  BY DEF SafeInv, TypeOK
<1> QED BY <1>1, <1>2, ReleaseStep DEF Removes

\* It leaves neither the node nor any other id listed that was not.
LEMMA RemoveNodeUnlists ==
    ASSUME SafeInv, NEW id, RemoveNode(id), ~ GoWild
    PROVE  Live' \subseteq Live \ {id} /\ curId' <= curId
<1>1. id \in Live /\ RemoveListed(id)
  BY DEF RemoveNode
<1>2. PICK gone \in SUBSET (Live \ {id}) : Removes(id, gone)
  BY <1>1, RemoveListedGives
<1>3. Ids!Release(id, gone)
  BY <1>1, <1>2, RemovesReleases
<1>4. curId \in Nat
  BY DEF SafeInv, TypeOK
<1>5. curId' \in 0 .. Ids!After(id) /\ Ids!After(id) <= curId /\ Ids!After(id) \in Int
  BY <1>3, <1>4 DEF Ids!Release, Ids!After
<1>6. curId' <= curId
  BY <1>4, <1>5
<1> QED BY <1>3, <1>6 DEF Ids!Release

\* removeNode gives back the id it was asked for and those of the nodes it takes
\* for its children, and lists none, even when a unit it did not mean is copied,
\* or the program goes astray.
LEMMA RemoveNodeRefines ==
    ASSUME SafeInv, NEW id, RemoveNode(id)
    PROVE  Ids!Next \/ GoWild
<1> SUFFICES ASSUME ~ GoWild PROVE Ids!Next
  OBVIOUS
<1>1. id \in Live /\ RemoveListed(id)
  BY DEF RemoveNode
<1>2. PICK gone \in SUBSET (Live \ {id}) : Removes(id, gone)
  BY <1>1, RemoveListedGives
<1>3. Ids!Release(id, gone)
  BY <1>1, <1>2, RemovesReleases
<1> QED BY <1>1, <1>3 DEF Ids!Next

\* An empty file has given no id out.
LEMMA IdsInit == Init => Ids!Init
BY DEF Init, Ids!Init, Live

\* So is every call another module makes.
LEMMA CallRefines == ASSUME SafeInv, FileCall PROVE [Ids!Next]_(Ids!vars)
<1> SUFFICES Ids!Next \/ UNCHANGED Ids!vars
  OBVIOUS
<1>1. ASSUME UNCHANGED <<root, curId>> PROVE UNCHANGED Ids!vars
  BY <1>1 DEF Ids!vars, Live
<1>2. CASE UNCHANGED vars \/ GoWild
  BY <1>1, <1>2 DEF vars, GoWild
<1>3. CASE Adds
  BY <1>1, <1>3, AddNodeRefines DEF Adds, Ids!Next
<1>4. CASE \E id : \E field \in NumFields, value \in Scalars : UpdateNum(id, field, value)
  BY <1>1, <1>4 DEF UpdateNum, GoWild
<1>5. CASE \E id : \E field \in TextFields : UpdateText(id, field)
  BY <1>1, <1>5 DEF UpdateText, GoWild
<1>6. CASE \E id : RemoveNode(id)
  <2>1. PICK id : RemoveNode(id)
    BY <1>6
  <2> QED BY <1>1, <2>1, RemoveNodeRefines DEF Ids!Next, GoWild
<1> QED BY <1>2, <1>3, <1>4, <1>5, <1>6 DEF FileCall

\* Every operation on the file is one of the allocator, or none.
LEMMA IdsStep == SafeInv /\ [Next]_vars => [Ids!Next]_(Ids!vars)
<1> SUFFICES ASSUME SafeInv, [Next]_vars PROVE Ids!Next \/ UNCHANGED Ids!vars
  BY DEF Ids!vars
<1>1. ASSUME UNCHANGED <<root, curId>> PROVE UNCHANGED Ids!vars
  BY <1>1 DEF Ids!vars, Live
<1>2. CASE Adds
  BY <1>1, <1>2, AddNodeRefines DEF Adds, Ids!Next
<1>3. CASE \E id \in 0 .. MaxIds, field \in NumFields, value \in Scalars :
              UpdateNum(id, field, value)
  BY <1>1, <1>3 DEF UpdateNum, GoWild
<1>4. CASE \E id \in 0 .. MaxIds, field \in TextFields : UpdateText(id, field)
  BY <1>1, <1>4 DEF UpdateText, GoWild
<1>5. CASE \E id \in 0 .. MaxIds : RemoveNode(id)
  BY <1>1, <1>5, RemoveNodeRefines DEF Ids!Next, GoWild
<1>6. CASE UNCHANGED vars
  BY <1>1, <1>6 DEF vars
<1> QED BY <1>2, <1>3, <1>4, <1>5, <1>6 DEF Next

\* Whatever is added, updated or removed, ids are given out in order, each once
\* until it is given back; a removal lists none, and of the ids it unlists, the
\* node's and those of the nodes taken for its children, it gives back the ones
\* that are last at their turn and no other.
THEOREM IdsRefined == Spec => IdsSpec
<1>1. Spec => []SafeInv
  BY SafeAlways
<1> QED BY <1>1, IdsInit, IdsStep, PTL DEF Spec, IdsSpec, Ids!Spec

----------------------------------------------------------------------------
(* No id is listed before it is given out *)

\* The entries of the array's first unit from curId on are zero, whatever was
\* removed before and whatever lies in the units behind it.
Unlisted == \A i \in DOMAIN root : curId <= i /\ i < K => root[i] = 0

IdsInv == SafeInv /\ curId <= MaxIds /\ Unlisted

LEMMA IdsInvInit == Init => IdsInv
<1> SUFFICES ASSUME Init PROVE IdsInv
  OBVIOUS
<1>1. SafeInv
  BY SafeInit
<1> QED BY <1>1, BoundAssumption DEF Init, IdsInv, Unlisted

\* addNode lists the next id; a new unit of the array is never the first.
LEMMA AddNodeUnlisted ==
    ASSUME IdsInv, NEW parent \in Parents, NEW text \in [TextFields -> Given],
           NEW num \in [NumFields -> Scalars], AddNode(parent, text, num)
    PROVE  curId' <= MaxIds /\ Unlisted'
<1> DEFINE f == Appended(file, curId, parent, text, num)
           n == K * ArrUnits(curId)
<1>1. /\ curId \in Nat /\ curId + 1 \in Nat /\ root \in [Entries(curId) -> Nat]
      /\ MaxIds \in Nat /\ curId < MaxIds /\ K \in Nat
  BY BoundAssumption, KAssumption DEF IdsInv, SafeInv, TypeOK, AddNode
<1>2. n \in Nat /\ K <= n
  <2>1. ArrUnits(curId) \in Nat \ {0}
    BY <1>1, UnitsBound
  <2> HIDE DEF n
  <2> QED BY <1>1, <2>1, UnitsBound, KAssumption DEF n
<1>3. AddInPlace(f) \/ AddGrowing(f) \/ AddCrossing(f)
  BY DEF AddNode
<1> HIDE DEF f, n
<1>4. CASE AddInPlace(f)
  <2>1. root' = [root EXCEPT ![curId] = Len(f)] /\ curId' = curId + 1
    BY <1>4 DEF AddInPlace
  <2>2. DOMAIN root' = DOMAIN root /\ \A i \in DOMAIN root : i # curId => root'[i] = root[i]
    BY <1>1, <2>1
  <2>3. ASSUME NEW i \in DOMAIN root, curId + 1 <= i, i < K PROVE root[i] = 0 /\ i # curId
    <3>1. i \in Int
      BY <1>1, UnitsBound DEF Entries
    <3> QED BY <1>1, <2>3, <3>1 DEF IdsInv, Unlisted
  <2> QED BY <1>1, <2>1, <2>2, <2>3 DEF Unlisted
<1>5. CASE curId + 1 >= K /\ curId' = curId + 1
  <2>1. ASSUME NEW i \in DOMAIN root', curId' <= i, i < K PROVE FALSE
    <3>1. i \in Int
      <4>1. root' \in [Entries(curId') -> Nat]
        BY AddNodeSafe DEF IdsInv, SafeInv, TypeOK
      <4> QED BY <1>1, <1>5, <4>1, UnitsBound DEF Entries
    <3> QED BY <1>1, <1>5, <2>1, <3>1
  <2> QED BY <1>1, <1>5, <2>1 DEF Unlisted
<1>6. CASE AddGrowing(f)
  <2>1. curId + 1 = n
    BY <1>1, <1>6, GrowDueExactly DEF AddGrowing, n
  <2>2. curId' = curId + 1 \/ UNCHANGED <<curId, root>>
    BY <1>6 DEF AddGrowing, GoWild
  <2> QED BY <1>1, <1>2, <1>5, <2>1, <2>2 DEF Unlisted, IdsInv
<1>7. CASE AddCrossing(f)
  BY <1>1, <1>2, <1>5, <1>7 DEF AddCrossing, n
<1> QED BY <1>3, <1>4, <1>6, <1>7

\* removeNode lists nothing.
LEMMA RemoveNodeUnlisted ==
    ASSUME IdsInv, NEW id, RemoveNode(id)
    PROVE  curId' <= MaxIds /\ Unlisted'
<1>1. CASE GoWild
  BY <1>1 DEF GoWild, IdsInv, Unlisted
<1>2. CASE id \in Live /\ RemoveListed(id) /\ ~ GoWild
  <2> DEFINE c == CurIdAfter(id)
  <2>1. PICK gone \in SUBSET (Live \ {id}) : Removes(id, gone)
    BY <1>2, RemoveListedGives DEF IdsInv
  <2>2. /\ curId \in Nat /\ root \in [Entries(curId) -> Nat]
        /\ c \in Nat /\ c <= curId
        /\ ArrUnits(c) \in Nat \ {0} /\ MaxIds \in Nat /\ id \in 0 .. curId - 1
    BY <1>2, ClearedType, BoundAssumption DEF IdsInv, SafeInv, TypeOK, Live
  <2>3. c = IF curId - 1 = id THEN curId - 1 ELSE curId
    BY DEF CurIdAfter
  <2>4. curId' \in 0 .. c /\ curId' .. c - 1 \subseteq gone
    BY <2>1 DEF Removes, CurIdsAfter
  <2>5. DOMAIN root' = Entries(c)
    BY <2>1 DEF Removes
  <2>6. \A i \in Entries(c) : root'[i] # 0 => i # id /\ i \notin gone /\ root[i] # 0
    BY <2>1 DEF Removes
  <2> HIDE DEF c
  <2>7. Entries(c) \subseteq DOMAIN root /\ Entries(c) \subseteq Int
    <3>1. /\ K * ArrUnits(c) \in Nat /\ K * ArrUnits(curId) \in Nat
          /\ K * ArrUnits(c) <= K * ArrUnits(curId)
      BY <2>2, UnitsBound, UnitsMonotone
    <3> QED BY <2>2, <3>1 DEF Entries
  <2>8. ASSUME NEW i \in Entries(c), curId' <= i, i < K PROVE root'[i] = 0
    <3>1. i \in DOMAIN root /\ i \in Int
      BY <2>7
    <3>2. CASE i < c
      <4>1. i \in gone
        BY <2>2, <2>4, <2>8, <3>1, <3>2
      <4> QED BY <2>6, <4>1
    <3>3. CASE i >= c
      <4>1. i # id => curId <= i
        BY <2>2, <2>3, <3>1, <3>3
      <4>2. i # id => root[i] = 0
        BY <2>8, <3>1, <4>1 DEF IdsInv, Unlisted
      <4> QED BY <2>6, <4>2
    <3> QED BY <2>2, <3>1, <3>2, <3>3
  <2>9. curId' <= MaxIds
    BY <2>2, <2>4 DEF IdsInv
  <2> QED BY <2>5, <2>8, <2>9 DEF Unlisted
<1> QED BY <1>1, <1>2 DEF RemoveNode

\* No call another module makes lists an id that was not given out.
LEMMA CallUnlisted == ASSUME IdsInv, FileCall PROVE IdsInv'
<1>1. SafeInv'
  BY CallSafe DEF IdsInv
<1>2. CASE UNCHANGED <<root, curId>>
  BY <1>1, <1>2 DEF IdsInv, Unlisted
<1>3. CASE UNCHANGED vars \/ GoWild
  BY <1>2, <1>3 DEF vars, GoWild
<1>4. CASE Adds
  BY <1>1, <1>4, AddNodeUnlisted DEF Adds, IdsInv
<1>5. CASE \E id : \E field \in NumFields, value \in Scalars : UpdateNum(id, field, value)
  BY <1>2, <1>5 DEF UpdateNum, GoWild
<1>6. CASE \E id : \E field \in TextFields : UpdateText(id, field)
  BY <1>2, <1>6 DEF UpdateText, GoWild
<1>7. CASE \E id : RemoveNode(id)
  <2>1. PICK id : RemoveNode(id)
    BY <1>7
  <2> QED BY <1>1, <2>1, RemoveNodeUnlisted DEF IdsInv
<1> QED BY <1>3, <1>4, <1>5, <1>6, <1>7 DEF FileCall

----------------------------------------------------------------------------
(* The shape of a file with c nodes whose units start at lo, the units of   *)
(* `hole` left out: the invariants of loading, for a file between two steps *)
(* of appendToIdArray too.                                                  *)

Place(f, lo, hole) == (lo .. Len(f)) \ hole

Homes(f, r, c, lo, hole) ==
    \A i \in 0 .. c - 1 :
        r[i] \in Place(f, lo, hole) /\ f[r[i]].kind = "tuple" /\ f[r[i]].id = i

OwnBlock(f, t, j, b) ==
    /\ f[b].kind = "block" /\ f[b].prev = t /\ f[b].next = 0
    /\ \A h \in TextFields : f[t].text[h] = b => h = j

Links(f, r, c, lo, hole) ==
    \A i \in 0 .. c - 1 : \A j \in TextFields :
        LET b == f[r[i]].text[j]
        IN  b \in Place(f, lo, hole) /\ OwnBlock(f, r[i], j, b)

Used(f, r, c, lo, hole) ==
    \A p \in Place(f, lo, hole) :
        \E i \in 0 .. c - 1 : r[i] = p \/ \E j \in TextFields : f[r[i]].text[j] = p

Shape(f, r, c, lo, hole) ==
    Homes(f, r, c, lo, hole) /\ Links(f, r, c, lo, hole) /\ Used(f, r, c, lo, hole)

\* addNode puts a tuple and its texts after a file of that shape.
LEMMA AppendedShape ==
    ASSUME NEW f \in Seq(Unit), NEW r, NEW c \in Nat, NEW lo \in Nat \ {0}, NEW hole,
           hole \subseteq 1 .. Len(f), lo <= Len(f) + 1, Shape(f, r, c, lo, hole),
           NEW parent, NEW text, NEW num,
           NEW r2, r2[c] = TuplePos(f), \A i \in 0 .. c - 1 : r2[i] = r[i],
           NEW g, g = Appended(f, c, parent, text, num), Len(g) = TuplePos(f)
    PROVE  Shape(g, r2, c + 1, lo, hole)
<1> DEFINE L == Len(f)
           T == L + NText + 1
<1>1. /\ L \in Nat /\ NText \in Nat /\ T \in Nat /\ TuplePos(f) = T
      /\ TextFields = 1 .. NText
  BY FieldAssumption DEF TuplePos, TextFields
<1>2. /\ \A p \in 1 .. L : g[p] = f[p]
      /\ \A p \in L + 1 .. T - 1 : g[p].kind = "block" /\ g[p].prev = T /\ g[p].next = 0
      /\ g[T].kind = "tuple" /\ g[T].id = c
      /\ \A j \in TextFields : g[T].text[j] = L + j
  BY <1>1 DEF Appended, NewBlock
<1>3. Len(g) = T /\ r2[c] = T
  BY <1>1
<1> HIDE DEF L, T
<1>4. lo .. L \subseteq 1 .. L /\ Place(f, lo, hole) \subseteq Place(g, lo, hole)
  BY <1>1, <1>3 DEF Place, L, T
<1>5. Place(g, lo, hole) = Place(f, lo, hole) \cup (L + 1 .. T)
  BY <1>1, <1>3 DEF Place, L, T
<1>6. Place(f, lo, hole) \subseteq 1 .. L
  BY <1>4 DEF Place, L
<1>7. Homes(g, r2, c + 1, lo, hole)
  <2> SUFFICES ASSUME NEW i \in 0 .. c
               PROVE  r2[i] \in Place(g, lo, hole) /\ g[r2[i]].kind = "tuple" /\ g[r2[i]].id = i
    BY DEF Homes
  <2>1. CASE i = c
    BY <1>1, <1>2, <1>3, <1>5, <2>1 DEF T
  <2>2. CASE i \in 0 .. c - 1
    <3>1. r2[i] = r[i] /\ r[i] \in Place(f, lo, hole) /\ f[r[i]].kind = "tuple" /\ f[r[i]].id = i
      BY <2>2 DEF Shape, Homes
    <3> QED BY <1>2, <1>4, <1>6, <3>1
  <2> QED BY <2>1, <2>2
<1>8. Links(g, r2, c + 1, lo, hole)
  <2> SUFFICES ASSUME NEW i \in 0 .. c, NEW j \in TextFields
               PROVE  LET b == g[r2[i]].text[j]
                      IN  b \in Place(g, lo, hole) /\ OwnBlock(g, r2[i], j, b)
    BY DEF Links
  <2>1. CASE i = c
    <3>1. L + j \in L + 1 .. T - 1 /\ L + j \in L + 1 .. T
      BY <1>1 DEF T
    <3>2. r2[i] = T /\ g[r2[i]].text[j] = L + j
      BY <1>2, <1>3, <2>1
    <3>3. ASSUME NEW h \in TextFields, g[T].text[h] = L + j PROVE h = j
      <4>1. L + h = L + j
        BY <1>2, <3>3
      <4> QED BY <1>1, <4>1
    <3>4. L + j \in Place(g, lo, hole)
      BY <1>5, <3>1
    <3>5. OwnBlock(g, T, j, L + j)
      BY <1>2, <3>1, <3>3 DEF OwnBlock
    <3> QED BY <3>2, <3>4, <3>5
  <2>2. CASE i \in 0 .. c - 1
    <3>1. r2[i] = r[i] /\ r[i] \in 1 .. L
      BY <1>6, <2>2 DEF Shape, Homes
    <3>2. g[r2[i]] = f[r[i]]
      BY <1>2, <3>1
    <3> DEFINE b == f[r[i]].text[j]
    <3>3. /\ b \in Place(f, lo, hole)
          /\ f[b].kind = "block" /\ f[b].prev = r[i] /\ f[b].next = 0
          /\ \A h \in TextFields : f[r[i]].text[h] = b => h = j
      BY <2>2 DEF Shape, Links, OwnBlock
    <3>4. g[r2[i]].text = f[r[i]].text
      BY <3>2
    <3> HIDE DEF b
    <3>5. b \in Place(g, lo, hole) /\ b \in 1 .. L
      BY <1>4, <1>6, <3>3
    <3>6. g[b] = f[b]
      BY <1>2, <3>5
    <3>7. g[b].kind = "block" /\ g[b].prev = r2[i] /\ g[b].next = 0
      BY <3>1, <3>3, <3>6
    <3>8. \A h \in TextFields : g[r2[i]].text[h] = b => h = j
      BY <3>3, <3>4
    <3>9. g[r2[i]].text[j] = b
      BY <3>4 DEF b
    <3>10. OwnBlock(g, r2[i], j, b)
      BY <3>7, <3>8 DEF OwnBlock
    <3> QED BY <3>5, <3>9, <3>10
  <2> QED BY <2>1, <2>2
<1>9. Used(g, r2, c + 1, lo, hole)
  <2> SUFFICES ASSUME NEW p \in Place(g, lo, hole)
               PROVE  \E i \in 0 .. c : r2[i] = p \/ \E j \in TextFields : g[r2[i]].text[j] = p
    BY DEF Used
  <2>1. CASE p \in Place(f, lo, hole)
    <3>1. PICK i \in 0 .. c - 1 : r[i] = p \/ \E j \in TextFields : f[r[i]].text[j] = p
      BY <2>1 DEF Shape, Used
    <3>2. r2[i] = r[i] /\ g[r2[i]] = f[r[i]]
      BY <1>2, <1>6 DEF Shape, Homes
    <3> QED BY <3>1, <3>2
  <2>2. CASE p = T
    BY <1>3, <2>2
  <2>3. CASE p \in L + 1 .. T - 1
    <3>1. p - L \in TextFields /\ g[T].text[p - L] = p
      BY <1>1, <1>2, <2>3 DEF T
    <3> QED BY <1>3, <3>1
  <2> QED BY <1>1, <1>5, <2>1, <2>2, <2>3 DEF T
<1> QED BY <1>7, <1>8, <1>9 DEF Shape

\* swapNode moves the tuple at the first unit to the end of the file and the id
\* array follows: only the first unit is no longer used.
LEMMA TupleMovedShape ==
    ASSUME LastTexts = {},
           NEW f \in Seq(Unit), NEW r, NEW c \in Nat, NEW lo \in Nat \ {0},
           lo <= Len(f), Shape(f, r, c, lo, {}),
           NEW k \in 0 .. c - 1, r[k] = lo,
           NEW r2, r2[k] = Len(f) + 1, \A i \in 0 .. c - 1 : i # k => r2[i] = r[i],
           NEW g, g = TupleMoved(f, lo), Len(g) = Len(f) + 1
    PROVE  Shape(g, r2, c, lo, {lo})
<1> DEFINE L == Len(f)
           D == L + 1
<1>1. L \in Nat /\ D \in Nat /\ f \in [1 .. L -> Unit]
  OBVIOUS
<1>2. f[lo] \in Tuple /\ f[lo].kind = "tuple" /\ f[lo].id = k
  BY UnitKinds DEF Shape, Homes
<1>3. Moved(f[lo]).kind = "tuple" /\ Moved(f[lo]).id = k /\ Moved(f[lo]).text = f[lo].text
  <2>1. [j \in TextFields |-> IF j \in LastTexts THEN 0 ELSE f[lo].text[j]] = f[lo].text
    BY <1>2 DEF Tuple
  <2> QED BY <1>2, <2>1 DEF Moved, Tuple
<1> DEFINE Mine(p) == \E j \in TextFields : f[lo].text[j] = p
<1>4. g[D] = Moved(f[lo])
  BY <1>1 DEF TupleMoved
<1>5. \A p \in 1 .. L : ~ Mine(p) => g[p] = f[p]
  BY <1>1 DEF TupleMoved
<1>6. ASSUME NEW p \in 1 .. L, Mine(p)
      PROVE  g[p].kind = "block" /\ g[p].prev = D /\ g[p].next = 0
             /\ f[p].kind = "block" /\ f[p].prev = lo
  <2>1. f[p].kind = "block" /\ f[p].next = 0 /\ f[p].prev = lo
    BY <1>6 DEF Shape, Links, OwnBlock
  <2>2. f[p] \in Block
    BY <1>1, <2>1, UnitKinds
  <2>3. g[p] = [f[p] EXCEPT !.prev = D]
    BY <1>1, <1>6 DEF TupleMoved
  <2> QED BY <2>1, <2>2, <2>3 DEF Block
<1> HIDE DEF L, D, Mine
<1>7. Place(g, lo, {lo}) = (Place(f, lo, {}) \ {lo}) \cup {D} /\ Place(f, lo, {}) = lo .. L
  BY <1>1 DEF Place, L, D
<1>8. \A p \in lo .. L : p \in 1 .. L /\ p # D
  BY <1>1 DEF D
<1>9. Homes(g, r2, c, lo, {lo})
  <2> SUFFICES ASSUME NEW i \in 0 .. c - 1
               PROVE  r2[i] \in Place(g, lo, {lo}) /\ g[r2[i]].kind = "tuple" /\ g[r2[i]].id = i
    BY DEF Homes
  <2>1. CASE i = k
    BY <1>3, <1>4, <1>7, <2>1 DEF D, L
  <2>2. CASE i # k
    <3>1. r2[i] = r[i] /\ r[i] \in lo .. L /\ f[r[i]].kind = "tuple" /\ f[r[i]].id = i
      BY <1>7, <2>2 DEF Shape, Homes
    <3>2. r[i] # lo
      BY <1>2, <2>2, <3>1
    <3>3. ~ Mine(r[i])
      BY <1>6, <1>8, <3>1
    <3> QED BY <1>5, <1>7, <1>8, <3>1, <3>2, <3>3
  <2> QED BY <2>1, <2>2
<1>10. Links(g, r2, c, lo, {lo})
  <2> SUFFICES ASSUME NEW i \in 0 .. c - 1, NEW j \in TextFields
               PROVE  LET b == g[r2[i]].text[j]
                      IN  b \in Place(g, lo, {lo}) /\ OwnBlock(g, r2[i], j, b)
    BY DEF Links
  <2> DEFINE b == f[r[i]].text[j]
  <2>0. b \in Place(f, lo, {}) /\ OwnBlock(f, r[i], j, b)
    BY DEF Shape, Links
  <2>1. /\ b \in lo .. L /\ f[b].kind = "block" /\ f[b].prev = r[i] /\ f[b].next = 0
        /\ \A h \in TextFields : f[r[i]].text[h] = b => h = j
    BY <1>7, <2>0 DEF OwnBlock
  <2> HIDE DEF b
  <2>2. b # lo
    BY <1>2, <2>1
  <2>3. CASE i = k
    <3>1. g[r2[i]].text = f[r[i]].text /\ r2[i] = D /\ r[i] = lo
      BY <1>3, <1>4, <2>3 DEF D, L
    <3>2. Mine(b)
      BY <3>1 DEF Mine, b
    <3> QED BY <1>6, <1>7, <1>8, <2>1, <2>2, <3>1, <3>2 DEF b, OwnBlock
  <2>4. CASE i # k
    <3>1. r2[i] = r[i] /\ r[i] \in lo .. L /\ f[r[i]].kind = "tuple" /\ f[r[i]].id = i
      BY <1>7, <2>4 DEF Shape, Homes
    <3>2. r[i] # lo
      BY <1>2, <2>4, <3>1
    <3>3. ~ Mine(r[i]) /\ ~ Mine(b)
      BY <1>6, <1>8, <2>1, <3>1, <3>2
    <3>4. g[r2[i]] = f[r[i]] /\ g[b] = f[b]
      BY <1>5, <1>8, <2>1, <3>1, <3>3
    <3> QED BY <1>7, <2>1, <2>2, <3>1, <3>4 DEF b, OwnBlock
  <2> QED BY <2>3, <2>4
<1>11. Used(g, r2, c, lo, {lo})
  <2> SUFFICES ASSUME NEW p \in Place(g, lo, {lo})
               PROVE  \E i \in 0 .. c - 1 : r2[i] = p \/ \E j \in TextFields : g[r2[i]].text[j] = p
    BY DEF Used
  <2>1. CASE p = D
    BY <2>1 DEF D, L
  <2>2. CASE p \in lo .. L /\ p # lo
    <3>1. PICK i \in 0 .. c - 1 : r[i] = p \/ \E j \in TextFields : f[r[i]].text[j] = p
      BY <1>7, <2>2 DEF Shape, Used
    <3>2. CASE i = k
      <4>1. g[r2[i]].text = f[r[i]].text
        BY <1>3, <1>4, <3>2 DEF D, L
      <4> QED BY <2>2, <3>1, <3>2, <4>1
    <3>3. CASE i # k
      <4>1. r2[i] = r[i] /\ r[i] \in lo .. L /\ f[r[i]].kind = "tuple"
        BY <1>7, <3>3 DEF Shape, Homes
      <4>2. ~ Mine(r[i])
        BY <1>6, <1>8, <4>1
      <4>3. g[r2[i]] = f[r[i]]
        BY <1>5, <1>8, <4>1, <4>2
      <4> QED BY <3>1, <4>1, <4>3
    <3> QED BY <3>2, <3>3
  <2> QED BY <1>7, <2>1, <2>2
<1> QED BY <1>9, <1>10, <1>11 DEF Shape

\* swapNode moves the only block of a text from the first unit to the end of the
\* file and its tuple follows: only the first unit is no longer used.
LEMMA BlockMovedShape ==
    ASSUME NEW f \in Seq(Unit), NEW r, NEW c \in Nat, NEW lo \in Nat \ {0},
           lo <= Len(f), Shape(f, r, c, lo, {}),
           NEW k \in 0 .. c - 1, NEW m \in TextFields, f[r[k]].text[m] = lo,
           NEW r2, \A i \in 0 .. c - 1 : r2[i] = r[i],
           NEW g, g = BlockMoved(f, lo), Len(g) = Len(f) + 1
    PROVE  Shape(g, r2, c, lo, {lo})
<1> DEFINE L == Len(f)
           D == L + 1
           t == r[k]
<1>1. L \in Nat /\ D \in Nat /\ f \in [1 .. L -> Unit]
  OBVIOUS
<1>2. f[lo].kind = "block" /\ f[lo].prev = t /\ f[lo].next = 0
  BY DEF Shape, Links, OwnBlock
<1>3. f[lo] \in Block
  BY <1>1, <1>2, UnitKinds
<1>4. Moved(f[lo]).kind = "block" /\ Moved(f[lo]).prev = t /\ Moved(f[lo]).next = 0
  BY <1>2, <1>3 DEF Moved, Block
<1>5. Place(g, lo, {lo}) = (Place(f, lo, {}) \ {lo}) \cup {D} /\ Place(f, lo, {}) = lo .. L
  BY <1>1 DEF Place
<1>6. \A p \in lo .. L : p \in 1 .. L /\ p # D
  BY <1>1
<1>7. t \in lo .. L /\ t # lo /\ f[t].kind = "tuple" /\ f[t].id = k
  BY <1>2, <1>5 DEF Shape, Homes
<1>8. f[t] \in Tuple
  BY <1>1, <1>6, <1>7, UnitKinds
<1>9. g[D] = Moved(f[lo])
  BY <1>1 DEF BlockMoved
<1>10. \A p \in 1 .. L : p # t => g[p] = f[p]
  BY <1>1, <1>2 DEF BlockMoved
<1>11. g[t] = [f[t] EXCEPT !.text = Redirected(f[t].text, lo, D)]
  <2>1. t \in 1 .. D /\ t # D /\ f[lo].prev = t
    BY <1>1, <1>2, <1>6, <1>7
  <2> HIDE DEF t
  <2> QED BY <2>1 DEF BlockMoved
<1>12. /\ g[t].kind = "tuple" /\ g[t].id = k
       /\ g[t].text = Redirected(f[t].text, lo, D)
  BY <1>7, <1>8, <1>11 DEF Tuple
<1> HIDE DEF L, D, t
<1>13. \A h \in TextFields : f[t].text[h] = lo => h = m
  BY DEF Shape, Links, OwnBlock, t
<1>14. ASSUME NEW j \in TextFields
       PROVE  g[t].text[j] = IF j = m THEN D ELSE f[t].text[j]
  <2>1. f[t].text[m] = lo
    BY DEF t
  <2>2. TextFields \subseteq Nat /\ \A h \in 1 .. m - 1 : h \in TextFields /\ h # m
    BY FieldAssumption DEF TextFields
  <2>3. \A h \in 1 .. m - 1 : f[t].text[h] # lo
    BY <1>13, <2>2
  <2> QED BY <1>12, <1>13, <2>1, <2>3 DEF Redirected
<1>15. Homes(g, r2, c, lo, {lo})
  <2> SUFFICES ASSUME NEW i \in 0 .. c - 1
               PROVE  r2[i] \in Place(g, lo, {lo}) /\ g[r2[i]].kind = "tuple" /\ g[r2[i]].id = i
    BY DEF Homes
  <2>1. r2[i] = r[i] /\ r[i] \in lo .. L /\ f[r[i]].kind = "tuple" /\ f[r[i]].id = i
    BY <1>5 DEF Shape, Homes
  <2>2. r[i] # lo
    BY <1>2, <2>1
  <2>3. CASE r[i] = t
    <3>1. i = k
      BY <1>7, <2>1, <2>3
    <3> QED BY <1>5, <1>12, <2>1, <2>2, <2>3, <3>1
  <2>4. CASE r[i] # t
    BY <1>5, <1>6, <1>10, <2>1, <2>2, <2>4
  <2> QED BY <2>3, <2>4
<1>16. Links(g, r2, c, lo, {lo})
  <2> SUFFICES ASSUME NEW i \in 0 .. c - 1, NEW j \in TextFields
               PROVE  LET b == g[r2[i]].text[j]
                      IN  b \in Place(g, lo, {lo}) /\ OwnBlock(g, r2[i], j, b)
    BY DEF Links
  <2> DEFINE b == f[r[i]].text[j]
  <2>0. b \in Place(f, lo, {}) /\ OwnBlock(f, r[i], j, b)
    BY DEF Shape, Links
  <2>1. /\ b \in lo .. L /\ f[b].kind = "block" /\ f[b].prev = r[i] /\ f[b].next = 0
        /\ \A h \in TextFields : f[r[i]].text[h] = b => h = j
    BY <1>5, <2>0 DEF OwnBlock
  <2>2. r2[i] = r[i] /\ r[i] \in lo .. L /\ f[r[i]].kind = "tuple" /\ f[r[i]].id = i
    BY <1>5 DEF Shape, Homes
  <2> HIDE DEF b
  <2>3. b # t /\ g[b] = f[b]
    BY <1>6, <1>7, <1>10, <2>1
  <2>4. CASE r[i] = t
    <3>1. \A h \in TextFields : g[r2[i]].text[h] = IF h = m THEN D ELSE f[t].text[h]
      BY <1>14, <2>2, <2>4
    <3>2. \A h \in TextFields : f[t].text[h] \in lo .. L
      BY <1>5 DEF Shape, Links, OwnBlock, t
    <3>3. CASE j = m
      <4>1. g[r2[i]].text[j] = D
        BY <3>1, <3>3
      <4>2. D \in Place(g, lo, {lo}) /\ D \notin lo .. L
        BY <1>5, <1>6
      <4>3. g[D].kind = "block" /\ g[D].prev = r2[i] /\ g[D].next = 0
        BY <1>4, <1>9, <2>2, <2>4
      <4>4. \A h \in TextFields : g[r2[i]].text[h] = D => h = j
        BY <3>1, <3>2, <3>3, <4>2
      <4> QED BY <4>1, <4>2, <4>3, <4>4 DEF OwnBlock
    <3>4. CASE j # m
      <4>1. b # lo /\ g[r2[i]].text[j] = b
        BY <1>13, <2>4, <3>1, <3>4 DEF b
      <4>2. \A h \in TextFields : g[r2[i]].text[h] = b => h = j
        BY <1>6, <2>1, <2>4, <3>1
      <4> QED BY <1>5, <2>1, <2>2, <2>3, <4>1, <4>2 DEF OwnBlock
    <3> QED BY <3>3, <3>4
  <2>5. CASE r[i] # t
    <3>1. g[r2[i]] = f[r[i]]
      BY <1>6, <1>10, <2>2, <2>5
    <3>2. b # lo
      BY <1>2, <2>1, <2>5
    <3> QED BY <1>5, <2>1, <2>2, <2>3, <3>1, <3>2 DEF b, OwnBlock
  <2> QED BY <2>4, <2>5
<1>17. Used(g, r2, c, lo, {lo})
  <2> SUFFICES ASSUME NEW p \in Place(g, lo, {lo})
               PROVE  \E i \in 0 .. c - 1 : r2[i] = p \/ \E j \in TextFields : g[r2[i]].text[j] = p
    BY DEF Used
  <2>1. CASE p = D
    <3>1. r2[k] = t /\ g[r2[k]].text[m] = D
      BY <1>14 DEF t
    <3> QED BY <2>1, <3>1
  <2>2. CASE p \in lo .. L /\ p # lo
    <3>1. PICK i \in 0 .. c - 1 : r[i] = p \/ \E j \in TextFields : f[r[i]].text[j] = p
      BY <1>5, <2>2 DEF Shape, Used
    <3>2. r2[i] = r[i] /\ r[i] \in lo .. L
      BY <1>5 DEF Shape, Homes
    <3>3. CASE r[i] = p
      BY <3>2, <3>3
    <3>4. ASSUME NEW j \in TextFields, f[r[i]].text[j] = p
          PROVE  g[r2[i]].text[j] = p
      <4>1. CASE r[i] = t
        BY <1>14, <2>2, <3>2, <3>4, <4>1 DEF t
      <4>2. CASE r[i] # t
        BY <1>6, <1>10, <3>2, <3>4, <4>2
      <4> QED BY <4>1, <4>2
    <3> QED BY <3>1, <3>3, <3>4
  <2> QED BY <1>5, <2>1, <2>2
<1> QED BY <1>15, <1>16, <1>17 DEF Shape

\* The id array grows over the unit that holds nothing.
LEMMA CrossedShape ==
    ASSUME NEW f \in Seq(Unit), NEW r, NEW c \in Nat, NEW lo \in Nat \ {0},
           lo <= Len(f), Shape(f, r, c, lo, {lo}),
           NEW r2, \A i \in 0 .. c - 1 : r2[i] = r[i],
           NEW g, g = [f EXCEPT ![lo] = IdsUnit], Len(g) = Len(f)
    PROVE  Shape(g, r2, c, lo + 1, {})
<1>1. Place(g, lo + 1, {}) = Place(f, lo, {lo})
  BY DEF Place
<1>2. \A p \in Place(f, lo, {lo}) : g[p] = f[p]
  BY DEF Place
<1>3. Homes(g, r2, c, lo + 1, {})
  <2> SUFFICES ASSUME NEW i \in 0 .. c - 1
               PROVE  r2[i] \in Place(g, lo + 1, {}) /\ g[r2[i]].kind = "tuple" /\ g[r2[i]].id = i
    BY DEF Homes
  <2>1. r2[i] = r[i] /\ r[i] \in Place(f, lo, {lo}) /\ f[r[i]].kind = "tuple" /\ f[r[i]].id = i
    BY DEF Shape, Homes
  <2> QED BY <1>1, <1>2, <2>1
<1>4. Links(g, r2, c, lo + 1, {})
  <2> SUFFICES ASSUME NEW i \in 0 .. c - 1, NEW j \in TextFields
               PROVE  LET b == g[r2[i]].text[j]
                      IN  b \in Place(g, lo + 1, {}) /\ OwnBlock(g, r2[i], j, b)
    BY DEF Links
  <2> DEFINE b == f[r[i]].text[j]
  <2>1. r2[i] = r[i] /\ g[r2[i]] = f[r[i]]
    BY <1>2 DEF Shape, Homes
  <2>2. /\ b \in Place(f, lo, {lo}) /\ f[b].kind = "block" /\ f[b].prev = r[i] /\ f[b].next = 0
        /\ \A h \in TextFields : f[r[i]].text[h] = b => h = j
    BY DEF Shape, Links, OwnBlock
  <2>3. g[b] = f[b]
    BY <1>2, <2>2
  <2>4. OwnBlock(g, r2[i], j, b)
    BY <2>1, <2>2, <2>3 DEF OwnBlock
  <2> QED BY <1>1, <2>1, <2>2, <2>4
<1>5. Used(g, r2, c, lo + 1, {})
  <2> SUFFICES ASSUME NEW p \in Place(f, lo, {lo})
               PROVE  \E i \in 0 .. c - 1 : r2[i] = p \/ \E j \in TextFields : g[r2[i]].text[j] = p
    BY <1>1 DEF Used
  <2>1. PICK i \in 0 .. c - 1 : r[i] = p \/ \E j \in TextFields : f[r[i]].text[j] = p
    BY DEF Shape, Used
  <2>2. r2[i] = r[i] /\ g[r2[i]] = f[r[i]]
    BY <1>2 DEF Shape, Homes
  <2> QED BY <2>1, <2>2
<1> QED BY <1>3, <1>4, <1>5 DEF Shape

\* Other values in the scalar fields of a tuple change no shape.
LEMMA NumShape ==
    ASSUME NEW f \in Seq(Unit), NEW r, NEW c \in Nat, NEW lo, NEW hole,
           Shape(f, r, c, lo, hole),
           NEW q \in DOMAIN f, f[q] \in Tuple, NEW num,
           NEW g, g = [f EXCEPT ![q] = [f[q] EXCEPT !.num = num]], Len(g) = Len(f)
    PROVE  Shape(g, r, c, lo, hole)
<1>1. Place(g, lo, hole) = Place(f, lo, hole)
  BY DEF Place
<1>2. \A p \in DOMAIN f : p # q => g[p] = f[p]
  OBVIOUS
<1>3. /\ g[q].kind = f[q].kind /\ g[q].id = f[q].id /\ g[q].text = f[q].text
      /\ f[q].kind = "tuple"
  BY DEF Tuple
<1>4. \A i \in 0 .. c - 1 :
         /\ r[i] \in Place(f, lo, hole)
         /\ g[r[i]].kind = "tuple" /\ g[r[i]].id = i /\ g[r[i]].text = f[r[i]].text
  BY <1>2, <1>3 DEF Shape, Homes, Place
<1>5. Homes(g, r, c, lo, hole)
  BY <1>1, <1>4 DEF Homes
<1>6. Links(g, r, c, lo, hole)
  <2> SUFFICES ASSUME NEW i \in 0 .. c - 1, NEW j \in TextFields
               PROVE  LET b == g[r[i]].text[j]
                      IN  b \in Place(g, lo, hole) /\ OwnBlock(g, r[i], j, b)
    BY DEF Links
  <2> DEFINE b == f[r[i]].text[j]
  <2>1. /\ b \in Place(f, lo, hole) /\ f[b].kind = "block" /\ f[b].prev = r[i] /\ f[b].next = 0
        /\ \A h \in TextFields : f[r[i]].text[h] = b => h = j
    BY DEF Shape, Links, OwnBlock
  <2>2. b # q
    BY <1>3, <2>1
  <2>3. g[b] = f[b]
    BY <2>2
  <2>4. OwnBlock(g, r[i], j, b)
    <3>1. g[r[i]].text = f[r[i]].text
      BY <1>4
    <3> HIDE DEF b
    <3> QED BY <2>1, <2>3, <3>1 DEF OwnBlock
  <2> QED BY <1>1, <1>4, <2>1, <2>4
<1>7. Used(g, r, c, lo, hole)
  BY <1>1, <1>4 DEF Shape, Used
<1> QED BY <1>5, <1>6, <1>7 DEF Shape

----------------------------------------------------------------------------
(* Loading keeps the invariant.  swapNode copies 16 bytes less than a unit; *)
(* it keeps the links of a tuple when the last two words of the template    *)
(* are no STRING fields, as in every template of less than 31 fields.       *)

LinksKept == LastTexts = {}

Full == curId = K * ArrUnits(curId)

Hole == IF Full THEN {FirstNode(curId)} ELSE {}

\* The invariant of loading in terms of shapes.
Loaded ==
    /\ TypeOK /\ SchemaInFile /\ NeverWild
    /\ Full => FirstNode(curId) <= Len(file)
    /\ Shape(file, root, curId, FirstNode(curId), Hole)

\* Seen as shapes the invariant says the same.
LEMMA LoadedIsLoadInv == LoadInv <=> Loaded
<1> SUFFICES ASSUME TypeOK PROVE LoadInv <=> Loaded
  BY DEF LoadInv, Loaded
<1> DEFINE lo == FirstNode(curId)
<1>1. /\ curId \in Nat /\ lo \in Nat /\ Len(file) \in Nat
      /\ NodeUnits = lo .. Len(file)
      /\ Reserved(lo) = Full
      /\ \A p : Reserved(p) <=> p \in Hole
  <2>1. curId \in Nat /\ Len(file) \in Nat
    BY DEF TypeOK
  <2>2. ArrUnits(curId) \in Nat
    BY <2>1, UnitsBound
  <2> QED BY <2>1, <2>2 DEF FirstNode, NodeUnits, Reserved, Full, Hole
<1>2. Place(file, lo, Hole) = NodeUnits \ Hole
  BY <1>1 DEF Place
<1>3. (Full => lo <= Len(file)) <=> (Full => lo \in NodeUnits)
  BY <1>1
<1>4. ASSUME RootLeadsHome, TextsLinkBack, ReservedIsFree, NoUnitLost
      PROVE  (Full => lo <= Len(file)) /\ Shape(file, root, curId, lo, Hole)
  <2>1. Full => lo \in NodeUnits
    BY <1>4 DEF ReservedIsFree, Full
  <2>2. \A i \in 0 .. curId - 1 :
           root[i] \notin Hole /\ \A j \in TextFields : file[root[i]].text[j] \notin Hole
    BY <1>4 DEF ReservedIsFree, Full, Hole
  <2>3. Homes(file, root, curId, lo, Hole)
    BY <1>2, <1>4, <2>2 DEF RootLeadsHome, Homes
  <2>4. Links(file, root, curId, lo, Hole)
    BY <1>2, <1>4, <2>2 DEF TextsLinkBack, Links, OwnBlock
  <2>5. Used(file, root, curId, lo, Hole)
    BY <1>1, <1>2, <1>4 DEF NoUnitLost, Used
  <2> QED BY <1>3, <2>1, <2>3, <2>4, <2>5 DEF Shape
<1>5. ASSUME Full => lo <= Len(file), Shape(file, root, curId, lo, Hole)
      PROVE  RootLeadsHome /\ TextsLinkBack /\ ReservedIsFree /\ NoUnitLost
  <2>1. RootLeadsHome
    BY <1>2, <1>5 DEF RootLeadsHome, Shape, Homes
  <2>2. TextsLinkBack
    BY <1>2, <1>5 DEF TextsLinkBack, Shape, Links, OwnBlock
  <2>3. \A i \in 0 .. curId - 1 :
           root[i] \notin Hole /\ \A j \in TextFields : file[root[i]].text[j] \notin Hole
    BY <1>2, <1>5 DEF Shape, Homes, Links, OwnBlock
  <2>4. ReservedIsFree
    BY <1>3, <1>5, <2>3 DEF ReservedIsFree, Full, Hole
  <2>5. NoUnitLost
    BY <1>1, <1>2, <1>5 DEF NoUnitLost, Shape, Used
  <2> QED BY <2>1, <2>2, <2>4, <2>5
<1> QED BY <1>4, <1>5 DEF LoadInv, Loaded

\* An empty file has the shape of one without nodes.
LEMMA LoadedInit == Init => Loaded
<1> SUFFICES ASSUME Init PROVE Loaded
  OBVIOUS
<1>1. TypeOK /\ SchemaInFile
  BY SafeInit DEF SafeInv
<1>2. ArrUnits(0) = 1 /\ curId = 0 /\ Len(file) = 1 /\ wild = FALSE
  BY UnitsBound DEF Init
<1>3. FirstNode(curId) = 2 /\ ~ Full
  BY <1>2, UnitsBound DEF FirstNode, Full
<1>4. Shape(file, root, curId, FirstNode(curId), Hole)
  BY <1>2, <1>3 DEF Shape, Homes, Links, OwnBlock, Used, Place
<1> QED BY <1>1, <1>2, <1>3, <1>4 DEF Loaded, NeverWild

\* addNode: in place, over a unit that moved, or into the unit that was freed.
LEMMA AddNodeLoaded ==
    ASSUME LinksKept, Loaded, NEW parent \in Parents, NEW text \in [TextFields -> Given],
           NEW num \in [NumFields -> Scalars], AddNode(parent, text, num)
    PROVE  Loaded'
<1> DEFINE f  == Appended(file, curId, parent, text, num)
           n  == K * ArrUnits(curId)
           lo == FirstNode(curId)
           r1 == [root EXCEPT ![curId] = Len(f)]
<1>1. SafeInv /\ SafeInv' /\ ~ wild
  BY AddNodeSafe DEF Loaded, SafeInv, NeverWild
<1>2. /\ curId \in Nat /\ root \in [Entries(curId) -> Nat]
      /\ Len(file) \in Nat /\ Len(file) >= ArrUnits(curId) /\ NText \in Nat
      /\ file \in Seq(Unit)
  BY <1>1, FieldAssumption DEF SafeInv, TypeOK, SchemaInFile
<1>3. /\ ArrUnits(curId) \in Nat \ {0} /\ n \in Nat /\ n >= 2 /\ curId <= n
      /\ Entries(curId) = 0 .. n - 1
      /\ lo = ArrUnits(curId) + 1 /\ lo \in Nat \ {0}
  <2>1. /\ ArrUnits(curId) \in Nat \ {0} /\ n \in Nat /\ n >= 2 /\ curId <= n
    BY <1>2, UnitsBound
  <2> QED BY <2>1 DEF Entries, FirstNode
<1>4. /\ curId < n => ArrUnits(curId + 1) = ArrUnits(curId)
      /\ curId = n => ArrUnits(curId + 1) = ArrUnits(curId) + 1
  BY <1>2, UnitsStep
<1>5. /\ f \in Seq(Unit) /\ Len(f) = Len(file) + NText + 1 /\ Len(f) = TuplePos(file)
      /\ TuplePos(file) = Len(file) + NText + 1
  BY <1>1, AppendedType, ScalarAssumption, TextAssumption DEF SafeInv, TuplePos
<1>4a. curId + 1 \in Nat /\ (curId + 1) - 1 = curId
  BY <1>2
<1>6. /\ Full <=> curId = n
      /\ Shape(file, root, curId, lo, Hole)
      /\ Full => lo <= Len(file)
      /\ Hole \subseteq 1 .. Len(file) /\ lo <= Len(file) + 1
  BY <1>2, <1>3 DEF Loaded, Full, Hole
<1>7. AddInPlace(f) \/ AddGrowing(f) \/ AddCrossing(f)
  BY DEF AddNode
<1>8. ASSUME NEW r2, r2[curId] = Len(f), \A i \in 0 .. curId - 1 : r2[i] = root[i]
      PROVE  Shape(f, r2, curId + 1, lo, Hole)
  BY <1>2, <1>3, <1>5, <1>6, <1>8, AppendedShape
<1> HIDE DEF f, n, lo
<1>9. CASE AddInPlace(f)
  <2>1. /\ curId' = curId + 1 /\ curId < n /\ curId + 1 # n
        /\ file' = f /\ wild' = wild /\ root' = r1
    BY <1>2, <1>9, GrowDueExactly DEF AddInPlace, n
  <2>2. ArrUnits(curId') = ArrUnits(curId) /\ ~ Full /\ ~ Full' /\ FirstNode(curId') = lo
    BY <1>2, <1>4, <1>6, <2>1 DEF Full, FirstNode, n, lo
  <2>3. r1[curId] = Len(f) /\ \A i \in 0 .. curId - 1 : r1[i] = root[i]
    BY <1>2, <1>3, <2>1
  <2>4. Shape(file', root', curId', lo, {})
    BY <1>8, <2>1, <2>2, <2>3 DEF Hole
  <2>5. Hole' = {} /\ FirstNode(curId)' = lo
    BY <2>2 DEF Hole
  <2> QED BY <1>1, <2>1, <2>2, <2>4, <2>5 DEF Loaded, SafeInv, NeverWild
<1>10. CASE AddGrowing(f)
  <2>1. curId + 1 = n /\ curId >= 1 /\ curId < n /\ ~ Full /\ Hole = {}
    BY <1>2, <1>3, <1>6, <1>10, GrowDueExactly DEF AddGrowing, n, Hole
  <2>2. /\ ArrUnits(curId + 1) = ArrUnits(curId)
        /\ r1[curId] = Len(f) /\ \A i \in 0 .. curId - 1 : r1[i] = root[i]
    BY <1>2, <1>3, <1>4, <2>1
  <2>3. Shape(f, r1, curId + 1, lo, {})
    BY <1>8, <2>1, <2>2
  <2>14. ASSUME NEW h \in 0 .. curId
         PROVE  /\ r1[h] \in lo .. Len(f) /\ f[r1[h]].kind = "tuple" /\ f[r1[h]].id = h
                /\ \A j \in TextFields :
                      LET b == f[r1[h]].text[j]
                      IN  /\ b \in lo .. Len(f)
                          /\ f[b].kind = "block" /\ f[b].prev = r1[h] /\ f[b].next = 0
    <3>1. h \in 0 .. (curId + 1) - 1 /\ Place(f, lo, {}) = lo .. Len(f)
      BY <1>4a DEF Place
    <3> HIDE DEF r1
    <3>2. r1[h] \in lo .. Len(f) /\ f[r1[h]].kind = "tuple" /\ f[r1[h]].id = h
      BY <2>3, <3>1 DEF Shape, Homes
    <3>3. ASSUME NEW j \in TextFields
          PROVE  LET b == f[r1[h]].text[j]
                 IN  /\ b \in lo .. Len(f)
                     /\ f[b].kind = "block" /\ f[b].prev = r1[h] /\ f[b].next = 0
      BY <2>3, <3>1 DEF Shape, Links, OwnBlock
    <3> QED BY <3>2, <3>3
  <2>4. lo <= Len(file)
    <3>1. 0 \in 0 .. curId - 1
      BY <1>2, <2>1
    <3>2. root[0] \in lo .. Len(file)
      BY <1>6, <2>1, <3>1 DEF Shape, Homes, Place
    <3> QED BY <1>2, <1>3, <3>2
  <2>5. lo <= Len(f) /\ lo # Len(f) /\ Len(f) \in Nat
    BY <1>2, <1>3, <1>5, <2>4
  <2>6. PICK i \in 0 .. curId - 1 : root[i] = lo \/ \E j \in TextFields : file[root[i]].text[j] = lo
    <3>1. lo \in Place(file, lo, {})
      BY <1>2, <1>3, <2>4 DEF Place
    <3> QED BY <1>6, <2>1, <3>1 DEF Shape, Used
  <2>7. i \in 0 .. curId /\ i \in 0 .. curId + 1 - 1 /\ i # curId /\ i \in Entries(curId) /\ 0 \in 0 .. curId - 1 /\ 0 \in Entries(curId)
    BY <1>2, <1>3, <2>1
  <2>8. /\ root[i] \in lo .. Len(f) /\ f[root[i]].kind = "tuple" /\ f[root[i]].id = i
        /\ r1[i] = root[i] /\ f[root[0]].kind = "tuple" /\ r1[0] = root[0]
    <3>1. 0 \in 0 .. curId
      BY <1>2
    <3> HIDE DEF r1
    <3>2. r1[i] = root[i] /\ r1[0] = root[0]
      BY <2>2, <2>7
    <3> QED BY <2>7, <2>14, <3>1, <3>2
  <2>9. \A p \in 1 .. Len(file) : f[p] = file[p]
    <3>1. \A p \in 1 .. Len(file) : p \in 1 .. TuplePos(file) /\ p <= Len(file)
      BY <1>2, <1>5
    <3> QED BY <3>1 DEF f, Appended
  <2>10. root[i] \in 1 .. Len(file)
    BY <1>2, <1>3, <1>6, <2>1 DEF Shape, Homes, Place
  <2>11. curId' = curId + 1 /\ wild' = wild /\ Shape(file', root', curId', lo, {lo}) /\ lo <= Len(file')
    <3>1. CASE root[i] = lo
      <4>1. TupleCanMove(f, root, lo)
        <5>1. IsTuple(f, lo)
          BY <1>3, <2>5, <2>8, <3>1 DEF IsTuple
        <5>2. TakenForTuple(root, f[lo], lo)
          BY <1>2, <2>7, <2>8, <3>1 DEF TakenForTuple
        <5>3. \A j \in TextFields : IsBlock(f, f[lo].text[j])
          <6> TAKE j \in TextFields
          <6>1. f[r1[i]].text[j] \in lo .. Len(f) /\ f[f[r1[i]].text[j]].kind = "block"
            <7> HIDE DEF r1
            <7> QED BY <2>7, <2>14
          <6> QED BY <1>3, <2>5, <2>8, <3>1, <6>1 DEF IsBlock
        <5> QED BY <5>1, <5>2, <5>3 DEF TupleCanMove
      <4>2. ~ BlockCanMove(f, root, lo)
        BY <2>8, <3>1 DEF BlockCanMove, IsBlock
      <4>3. /\ file' = TupleMoved(f, lo) /\ curId' = curId + 1 /\ wild' = wild
            /\ root' = [Relinked(root, f[lo].id, Len(f) + 1) EXCEPT ![curId] = Len(f)]
        BY <1>10, <4>1, <4>2 DEF AddGrowing, lo
      <4>4. /\ root'[i] = Len(f) + 1
            /\ \A h \in 0 .. curId : h # i => root'[h] = r1[h]
        <5>1. root' = [[root EXCEPT ![i] = Len(f) + 1] EXCEPT ![curId] = Len(f)]
          BY <2>8, <3>1, <4>3 DEF Relinked
        <5> QED BY <1>2, <1>3, <2>1, <2>7, <5>1
      <4>5. Len(file') = Len(f) + 1
        BY <1>5, <4>1, <4>3, TupleMovedType
      <4>6. Shape(file', root', curId + 1, lo, {lo})
        <5>1. r1[i] = lo /\ curId + 1 \in Nat /\ curId + 1 - 1 = curId
          BY <1>2, <2>8, <3>1
        <5> HIDE DEF r1
        <5>3. root'[i] = Len(f) + 1
          BY <4>4
        <5>4. i \in 0 .. (curId + 1) - 1
          BY <1>2
        <5>5. lo <= Len(f)
          BY <2>5
        <5>6. file' = TupleMoved(f, lo) /\ lo \in Nat \ {0}
          BY <1>3, <4>3
        <5>7. r1[i] = lo /\ curId + 1 \in Nat
          BY <5>1
        <5>8. f \in Seq(Unit)
          BY <1>5
        <5> HIDE DEF r1
        <5> DEFINE c == curId + 1
        <5>9. /\ c \in Nat /\ i \in 0 .. c - 1 /\ Shape(f, r1, c, lo, {})
              /\ \A h \in 0 .. c - 1 : h # i => root'[h] = r1[h]
          <6>1. c \in Nat /\ i \in 0 .. c - 1
            BY <5>4, <5>7
          <6>2. Shape(f, r1, c, lo, {})
            BY <2>3
          <6>3. \A h \in 0 .. c - 1 : h # i => root'[h] = r1[h]
            <7> SUFFICES ASSUME NEW h \in 0 .. c - 1, h # i PROVE root'[h] = r1[h]
              OBVIOUS
            <7>1. h \in 0 .. curId
              BY <1>4a
            <7> QED BY <4>4, <7>1
          <6> QED BY <6>1, <6>2, <6>3
        <5> HIDE DEF c
        <5>10. Shape(file', root', c, lo, {lo})
          BY <4>5, <5>3, <5>5, <5>6, <5>7, <5>8, <5>9, TupleMovedShape DEF LinksKept
        <5> QED BY <5>10 DEF c
      <4>7. lo <= Len(file')
        BY <1>3, <2>5, <4>5
      <4> QED BY <4>3, <4>6, <4>7
    <3>2. CASE \E j \in TextFields : file[root[i]].text[j] = lo
      <4>1. PICK j \in TextFields : f[root[i]].text[j] = lo
        BY <2>9, <2>10, <3>2
      <4>2. /\ f[lo].kind = "block" /\ f[lo].prev = root[i] /\ f[lo].next = 0
        <5> HIDE DEF r1
        <5>1. f[r1[i]].text[j] = lo /\ r1[i] = root[i]
          BY <2>8, <4>1
        <5> QED BY <2>7, <2>14, <5>1
      <4>3. BlockCanMove(f, root, lo)
        <5>1. IsBlock(f, lo) /\ IsTuple(f, f[lo].prev)
          BY <1>3, <2>5, <2>8, <4>2 DEF IsBlock, IsTuple
        <5>2. ~ TakenForTuple(root, f[lo], lo)
          BY <2>8, <4>2 DEF TakenForTuple
        <5> QED BY <4>2, <5>1, <5>2 DEF BlockCanMove
      <4>4. ~ TupleCanMove(f, root, lo)
        BY <4>2 DEF TupleCanMove, IsTuple
      <4>5. file' = BlockMoved(f, lo) /\ curId' = curId + 1 /\ wild' = wild /\ root' = r1
        BY <1>10, <4>3, <4>4 DEF AddGrowing, lo
      <4>6. Len(file') = Len(f) + 1
        BY <1>5, <4>3, <4>5, BlockMovedType
      <4>7. Shape(file', root', curId + 1, lo, {lo})
        <5>2. f[r1[i]].text[j] = lo
          BY <2>8, <4>1
        <5> HIDE DEF r1
        <5>3. \A h \in 0 .. curId + 1 - 1 : root'[h] = r1[h]
          BY <4>5
        <5> QED BY <1>3, <1>5, <1>4a, <2>3, <2>5, <2>7, <4>5, <4>6, <5>2, <5>3, BlockMovedShape
      <4>8. lo <= Len(file')
        BY <1>3, <2>5, <4>6
      <4> QED BY <4>5, <4>7, <4>8
    <3> QED BY <2>6, <3>1, <3>2
  <2>12. Full' /\ FirstNode(curId)' = lo
    BY <2>1, <2>2, <2>11 DEF Full, FirstNode, n, lo
  <2>13. Hole' = {lo}
    BY <2>12 DEF Hole
  <2> QED BY <1>1, <2>11, <2>12, <2>13 DEF Loaded, SafeInv, NeverWild
<1>11. CASE AddCrossing(f)
  <2>1. curId = n /\ curId' = curId + 1 /\ wild' = wild /\ file' = [f EXCEPT ![lo] = IdsUnit]
    BY <1>11 DEF AddCrossing, n, lo
  <2>2. ArrUnits(curId') = ArrUnits(curId) + 1 /\ Hole = {lo} /\ lo <= Len(file)
    BY <1>4, <1>6, <2>1 DEF Hole, lo
  <2>3. FirstNode(curId') = lo + 1
    BY <1>3, <2>2 DEF FirstNode
  <2>4. ~ Full'
    <3>1. K * (ArrUnits(curId) + 1) = n + K
      BY <1>3, KAssumption DEF n
    <3> QED BY <1>2, <1>3, <2>1, <2>2, <3>1, KAssumption DEF Full
  <2>5. root'[curId] = Len(f) /\ \A i \in 0 .. curId - 1 : root'[i] = root[i]
    <3>1. PICK heap : root' = [i \in Entries(curId + 1) |->
                        IF i < curId THEN root[i]
                        ELSE IF i = curId THEN Len(f) ELSE heap[i]]
      BY <1>11 DEF AddCrossing
    <3>2. K * ArrUnits(curId + 1) \in Nat /\ curId + 1 <= K * ArrUnits(curId + 1)
      BY <1>4a, UnitsBound
    <3>3. \A i \in 0 .. curId : i \in Entries(curId + 1)
      BY <1>2, <3>2 DEF Entries
    <3> QED BY <1>2, <3>1, <3>3
  <2>6. Shape(f, root', curId + 1, lo, {lo})
    BY <1>8, <2>2, <2>5
  <2>7. Len(file') = Len(f) /\ lo <= Len(f)
    <3>1. lo \in 1 .. Len(f)
      BY <1>2, <1>3, <1>5, <2>2
    <3> QED BY <1>5, <2>1, <3>1
  <2>8. Shape(file', root', curId', lo + 1, {})
    <3>1. \A i \in 0 .. curId + 1 - 1 : root'[i] = root'[i]
      OBVIOUS
    <3> QED BY <1>3, <1>5, <1>4a, <2>1, <2>6, <2>7, <3>1, CrossedShape
  <2>9. Hole' = {} /\ FirstNode(curId)' = lo + 1
    BY <2>3, <2>4 DEF Hole
  <2> QED BY <1>1, <2>1, <2>4, <2>8, <2>9 DEF Loaded, SafeInv, NeverWild
<1> QED BY <1>7, <1>9, <1>10, <1>11

\* updateNode of a scalar field of a listed node finds its tuple and changes
\* nothing but that field.
LEMMA UpdateNumLoaded ==
    ASSUME Loaded, NEW id \in Live, NEW field \in NumFields, NEW value \in Scalars,
           UpdateNum(id, field, value)
    PROVE  Loaded'
<1>1. SafeInv /\ SafeInv'
  BY UpdateNumSafe DEF Loaded, SafeInv
<1>2. IsTuple(file, root[id])
  <2>1. id \in 0 .. curId - 1 /\ FirstNode(curId) \in Nat \ {0} /\ Len(file) \in Nat
    <3>1. curId \in Nat
      BY <1>1 DEF SafeInv, TypeOK
    <3>2. ArrUnits(curId) \in Nat
      BY <3>1, UnitsBound
    <3> QED BY <1>1, <3>1, <3>2 DEF Live, SafeInv, TypeOK, FirstNode
  <2>2. root[id] \in FirstNode(curId) .. Len(file) /\ file[root[id]].kind = "tuple"
    BY <2>1 DEF Loaded, Shape, Homes, Place
  <2> QED BY <1>1, <2>1, <2>2 DEF IsTuple, SafeInv, TypeOK
<1>3. /\ file' = [file EXCEPT ![root[id]].num[field] = value]
      /\ UNCHANGED <<root, curId, wild>>
  BY <1>2 DEF UpdateNum
<1> DEFINE q == root[id]
<1>4. /\ file \in Seq(Unit) /\ curId \in Nat /\ q \in DOMAIN file /\ file[q] \in Tuple
  BY <1>1, <1>2, UnitKinds DEF SafeInv, TypeOK, IsTuple
<1>5. file' = [file EXCEPT ![q] = [file[q] EXCEPT !.num = [file[q].num EXCEPT ![field] = value]]]
  BY <1>3
<1>6. Len(file') = Len(file)
  BY <1>4, <1>5
<1> HIDE DEF q
<1>7. Shape(file', root, curId, FirstNode(curId), Hole)
  BY <1>4, <1>5, <1>6, NumShape DEF Loaded
<1>8. Full' = Full /\ FirstNode(curId)' = FirstNode(curId) /\ Hole' = Hole
  BY <1>3 DEF Full, Hole
<1> QED BY <1>1, <1>3, <1>6, <1>7, <1>8 DEF Loaded, SafeInv, NeverWild

\* Every step of loading keeps the invariant.
LEMMA LoadedStep == ASSUME LinksKept PROVE Loaded /\ [LoadNext]_vars => Loaded'
<1> SUFFICES ASSUME Loaded, [LoadNext]_vars PROVE Loaded'
  OBVIOUS
<1>1. CASE Adds
  BY <1>1, AddNodeLoaded DEF Adds
<1>2. CASE \E id \in Live, field \in NumFields, value \in Scalars : UpdateNum(id, field, value)
  BY <1>2, UpdateNumLoaded
<1>3. CASE UNCHANGED vars
  BY <1>3 DEF vars, Loaded, TypeOK, SchemaInFile, NeverWild, Full, Hole
<1> QED BY <1>1, <1>2, <1>3 DEF LoadNext

\* When a move keeps the links, then loading a file and updating scalar fields,
\* however long, keeps all of its invariants: every id leads to its
\* tuple, every text to its block and back, no unit of a node is lost, the unit
\* the id array grows over next is free, and no offset ever leads astray.
THEOREM LoadingIsSafe == ASSUME LinksKept PROVE LoadSpec => []LoadInv
<1>1. LoadSpec => []Loaded
  BY LoadedInit, LoadedStep, PTL DEF LoadSpec
<1> QED BY <1>1, LoadedIsLoadInv, PTL

\* In particular every id given out leads home, after any number of growths.
THEOREM RootAlwaysLeadsHome == ASSUME LinksKept PROVE LoadSpec => []RootLeadsHome
<1>1. LoadInv => RootLeadsHome
  BY DEF LoadInv
<1> QED BY <1>1, LoadingIsSafe, PTL

\* A text block and its tuple always point at each other, whichever of the two a
\* growth of the id array moved last.
THEOREM TextsAlwaysLinkBack == ASSUME LinksKept PROVE LoadSpec => []TextsLinkBack
<1>1. LoadInv => TextsLinkBack
  BY DEF LoadInv
<1> QED BY <1>1, LoadingIsSafe, PTL

\* The unit the id array is about to be written over never holds a node.
THEOREM ReservedIsAlwaysFree == ASSUME LinksKept PROVE LoadSpec => []ReservedIsFree
<1>1. LoadInv => ReservedIsFree
  BY DEF LoadInv
<1> QED BY <1>1, LoadingIsSafe, PTL

\* Loading never leaves a unit behind that belongs to no node.
THEOREM NoUnitIsEverLost == ASSUME LinksKept PROVE LoadSpec => []NoUnitLost
<1>1. LoadInv => NoUnitLost
  BY DEF LoadInv
<1> QED BY <1>1, LoadingIsSafe, PTL

\* Loading never follows an offset to a unit it did not mean.
THEOREM LoadingNeverGoesAstray == ASSUME LinksKept PROVE LoadSpec => []NeverWild
<1>1. LoadInv => NeverWild
  BY DEF LoadInv
<1> QED BY <1>1, LoadingIsSafe, PTL

----------------------------------------------------------------------------
(* Loading implements the tree: the nodes read as they were given *)

\* The last bytes of a unit, which swapNode does not copy, hold nothing.
NothingCut == LastNums = {} /\ LastTexts = {} /\ \A t \in Texts : Cut[t] = t

\* The node whose tuple is unit p of f, as getNode reads it.
NodeAt(f, p) ==
    [parent |-> f[p].parent,
     text   |-> [j \in TextFields |-> f[f[p].text[j]].text],
     num    |-> f[p].num]

\* Two tuples that agree in everything a node shows.
LEMMA SameNode ==
    ASSUME NEW f, NEW p, NEW g, NEW q,
           g[q].parent = f[p].parent, g[q].num = f[p].num,
           \A j \in TextFields : g[g[q].text[j]].text = f[f[p].text[j]].text
    PROVE  NodeAt(g, q) = NodeAt(f, p)
BY DEF NodeAt

\* Where a file of that shape has a node, and where its texts.
LEMMA ShapeGives ==
    ASSUME NEW f, NEW r, NEW c, NEW lo, NEW hole, Shape(f, r, c, lo, hole), NEW i \in 0 .. c - 1
    PROVE  /\ r[i] \in Place(f, lo, hole) /\ f[r[i]].kind = "tuple" /\ f[r[i]].id = i
           /\ \A j \in TextFields : f[r[i]].text[j] \in Place(f, lo, hole)
                                   /\ f[f[r[i]].text[j]].kind = "block"
<1>1. r[i] \in Place(f, lo, hole) /\ f[r[i]].kind = "tuple" /\ f[r[i]].id = i
  BY DEF Shape, Homes
<1>2. ASSUME NEW j \in TextFields
      PROVE  f[r[i]].text[j] \in Place(f, lo, hole) /\ OwnBlock(f, r[i], j, f[r[i]].text[j])
  BY DEF Shape, Links
<1>3. ASSUME NEW j \in TextFields PROVE f[f[r[i]].text[j]].kind = "block"
  BY <1>2 DEF OwnBlock
<1> QED BY <1>1, <1>2, <1>3

\* What addNode appends changes no node.
LEMMA AppendedNodes ==
    ASSUME NEW f \in Seq(Unit), NEW r, NEW c \in Nat, NEW lo \in Nat \ {0}, NEW hole,
           Shape(f, r, c, lo, hole),
           NEW id, NEW parent, NEW text \in [TextFields -> Given], NEW num,
           NEW g, g = Appended(f, id, parent, text, num)
    PROVE  /\ \A i \in 0 .. c - 1 : NodeAt(g, r[i]) = NodeAt(f, r[i])
           /\ NodeAt(g, TuplePos(f)) = [parent |-> parent, text |-> text, num |-> num]
<1> DEFINE L == Len(f)
           T == L + NText + 1
<1>1. /\ L \in Nat /\ NText \in Nat /\ T \in Nat /\ TuplePos(f) = T
      /\ TextFields = 1 .. NText
  BY FieldAssumption DEF TuplePos, TextFields
<1>2. /\ \A p \in 1 .. L : g[p] = f[p]
      /\ \A j \in TextFields : g[L + j].text = text[j]
      /\ g[T].parent = parent /\ g[T].num = num
      /\ \A j \in TextFields : g[T].text[j] = L + j
  BY <1>1 DEF Appended, NewBlock
<1>3. Place(f, lo, hole) \subseteq 1 .. L
  BY <1>1 DEF Place
<1> HIDE DEF L, T
<1>4. ASSUME NEW i \in 0 .. c - 1 PROVE NodeAt(g, r[i]) = NodeAt(f, r[i])
  <2>1. g[r[i]] = f[r[i]]
    BY <1>2, <1>3 DEF Shape, Homes
  <2>2. ASSUME NEW j \in TextFields PROVE g[g[r[i]].text[j]].text = f[f[r[i]].text[j]].text
    <3>1. f[r[i]].text[j] \in 1 .. L
      BY <1>3 DEF Shape, Links
    <3> QED BY <1>2, <2>1, <3>1
  <2> QED BY <2>1, <2>2, SameNode
<1>5. NodeAt(g, T) = [parent |-> parent, text |-> text, num |-> num]
  <2>1. [j \in TextFields |-> g[g[T].text[j]].text] = text
    <3>1. [j \in TextFields |-> g[g[T].text[j]].text] = [j \in TextFields |-> text[j]]
      BY <1>2
    <3> QED BY <3>1
  <2> QED BY <1>2, <2>1 DEF NodeAt
<1> QED BY <1>1, <1>4, <1>5

\* A tuple that is moved, and whatever points to it, is the same node.
LEMMA TupleMovedNodes ==
    ASSUME NothingCut,
           NEW f \in Seq(Unit), NEW r, NEW c \in Nat, NEW lo \in Nat \ {0},
           lo <= Len(f), Shape(f, r, c, lo, {}),
           NEW k \in 0 .. c - 1, r[k] = lo,
           NEW r2, r2[k] = Len(f) + 1, \A i \in 0 .. c - 1 : i # k => r2[i] = r[i],
           NEW g, g = TupleMoved(f, lo)
    PROVE  \A i \in 0 .. c - 1 : NodeAt(g, r2[i]) = NodeAt(f, r[i])
<1> DEFINE L == Len(f)
           D == L + 1
<1>1. L \in Nat /\ D \in Nat /\ f \in [1 .. L -> Unit]
  OBVIOUS
<1>2. f[lo] \in Tuple /\ f[lo].kind = "tuple"
  BY UnitKinds DEF Shape, Homes
<1>3. /\ Moved(f[lo]).parent = f[lo].parent /\ Moved(f[lo]).text = f[lo].text
      /\ Moved(f[lo]).num = f[lo].num
  <2>1. f[lo].num = [n \in NumFields |-> f[lo].num[n]]
    BY <1>2 DEF Tuple
  <2>2. [n \in NumFields |-> IF n \in LastNums THEN 0 ELSE f[lo].num[n]]
          = [n \in NumFields |-> f[lo].num[n]]
    BY DEF NothingCut
  <2>3. [j \in TextFields |-> IF j \in LastTexts THEN 0 ELSE f[lo].text[j]] = f[lo].text
    BY <1>2 DEF NothingCut, Tuple
  <2>4. Moved(f[lo]) = [f[lo] EXCEPT !.num = f[lo].num, !.text = f[lo].text]
    BY <1>2, <2>1, <2>2, <2>3 DEF Moved
  <2> QED BY <1>2, <2>4 DEF Tuple
<1>4. g[D] = Moved(f[lo])
  BY <1>1 DEF TupleMoved
<1>5. Place(f, lo, {}) = lo .. L /\ \A p \in lo .. L : p \in 1 .. L
  BY <1>1 DEF Place
\* Only the back pointers of its blocks are written.
<1>6. ASSUME NEW p \in 1 .. L
      PROVE  /\ f[p].kind = "tuple" => g[p].parent = f[p].parent /\ g[p].text = f[p].text
                                       /\ g[p].num = f[p].num
             /\ f[p].kind = "block" => g[p].text = f[p].text
  <2>1. CASE \E j \in TextFields : f[lo].text[j] = p
    <3>1. f[p].kind = "block"
      BY <2>1 DEF Shape, Links, OwnBlock
    <3>2. g[p] = [f[p] EXCEPT !.prev = D]
      BY <1>1, <2>1 DEF TupleMoved
    <3>3. f[p] \in Block
      BY <1>1, <3>1, UnitKinds
    <3> QED BY <3>1, <3>2, <3>3 DEF Block
  <2>2. CASE ~ \E j \in TextFields : f[lo].text[j] = p
    BY <1>1, <2>2 DEF TupleMoved
  <2> QED BY <2>1, <2>2
<1> HIDE DEF L, D
<1> SUFFICES ASSUME NEW i \in 0 .. c - 1 PROVE NodeAt(g, r2[i]) = NodeAt(f, r[i])
  OBVIOUS
<1>7. /\ g[r2[i]].parent = f[r[i]].parent /\ g[r2[i]].text = f[r[i]].text
      /\ g[r2[i]].num = f[r[i]].num
  <2>1. CASE i = k
    BY <1>3, <1>4, <2>1 DEF D, L
  <2>2. CASE i # k
    <3>1. r2[i] = r[i] /\ r[i] \in 1 .. L /\ f[r[i]].kind = "tuple"
      BY <1>5, <2>2 DEF Shape, Homes
    <3> QED BY <1>6, <3>1
  <2> QED BY <2>1, <2>2
<1>8. ASSUME NEW j \in TextFields PROVE g[g[r2[i]].text[j]].text = f[f[r[i]].text[j]].text
  <2>1. f[r[i]].text[j] \in 1 .. L /\ f[f[r[i]].text[j]].kind = "block"
    <3>1. Links(f, r, c, lo, {})
      BY DEF Shape
    <3>2. f[r[i]].text[j] \in Place(f, lo, {}) /\ OwnBlock(f, r[i], j, f[r[i]].text[j])
      BY <3>1 DEF Links
    <3> QED BY <1>5, <3>2 DEF OwnBlock
  <2> QED BY <1>6, <1>7, <2>1
<1>9. g[r2[i]].parent = f[r[i]].parent /\ g[r2[i]].num = f[r[i]].num
  BY <1>7
<1> QED BY <1>8, <1>9 DEF NodeAt

\* A text that is moved, and its tuple told, is the same text of the same node.
LEMMA BlockMovedNodes ==
    ASSUME NothingCut,
           NEW f \in Seq(Unit), NEW r, NEW c \in Nat, NEW lo \in Nat \ {0},
           lo <= Len(f), Shape(f, r, c, lo, {}),
           NEW k \in 0 .. c - 1, NEW m \in TextFields, f[r[k]].text[m] = lo,
           NEW g, g = BlockMoved(f, lo)
    PROVE  \A i \in 0 .. c - 1 : NodeAt(g, r[i]) = NodeAt(f, r[i])
<1> DEFINE L == Len(f)
           D == L + 1
           t == r[k]
<1>1. L \in Nat /\ D \in Nat /\ f \in [1 .. L -> Unit]
  OBVIOUS
<1>2. f[lo].kind = "block" /\ f[lo].prev = t /\ f[lo].next = 0
  BY DEF Shape, Links, OwnBlock
<1>3. f[lo] \in Block
  BY <1>1, <1>2, UnitKinds
<1>4. Moved(f[lo]).text = f[lo].text
  <2>1. Cut[f[lo].text] = f[lo].text
    BY <1>3 DEF NothingCut, Block
  <2> QED BY <1>2, <1>3, <2>1 DEF Moved, Block
<1>5. Place(f, lo, {}) = lo .. L /\ \A p \in lo .. L : p \in 1 .. L /\ p # D
  BY <1>1 DEF Place
<1>6. t \in lo .. L /\ t # lo /\ f[t].kind = "tuple"
  BY <1>2, <1>5 DEF Shape, Homes
<1>7. f[t] \in Tuple
  BY <1>1, <1>5, <1>6, UnitKinds
<1>8. g[D] = Moved(f[lo])
  BY <1>1 DEF BlockMoved
<1>9. \A p \in 1 .. L : p # t => g[p] = f[p]
  BY <1>1, <1>2 DEF BlockMoved
<1>10. g[t] = [f[t] EXCEPT !.text = Redirected(f[t].text, lo, D)]
  <2>1. t \in 1 .. D /\ t # D /\ f[lo].prev = t
    BY <1>1, <1>2, <1>5, <1>6
  <2> HIDE DEF t
  <2> QED BY <2>1 DEF BlockMoved
<1>11. /\ g[t].parent = f[t].parent /\ g[t].num = f[t].num
       /\ g[t].text = Redirected(f[t].text, lo, D)
  BY <1>7, <1>10 DEF Tuple
<1> HIDE DEF L, D, t
\* Each text it holds is where its tuple now says.
<1>12. ASSUME NEW j \in TextFields
       PROVE  g[g[t].text[j]].text = f[f[t].text[j]].text
  <2>1. f[t].text[j] \in lo .. L /\ f[f[t].text[j]].kind = "block"
    <3>1. Links(f, r, c, lo, {})
      BY DEF Shape
    <3>2. f[r[k]].text[j] \in Place(f, lo, {}) /\ OwnBlock(f, r[k], j, f[r[k]].text[j])
      BY <3>1 DEF Links
    <3> QED BY <1>5, <3>2 DEF OwnBlock, t
  <2>2. g[t].text[j] = IF f[t].text[j] = lo /\ \A h \in 1 .. j - 1 : f[t].text[h] # lo
                       THEN D ELSE f[t].text[j]
    BY <1>11 DEF Redirected
  <2>3. CASE g[t].text[j] = D /\ f[t].text[j] = lo
    BY <1>4, <1>8, <2>3
  <2>4. CASE g[t].text[j] = f[t].text[j]
    <3>1. f[t].text[j] \in 1 .. L /\ f[t].text[j] # t
      BY <1>5, <1>6, <2>1
    <3> QED BY <1>9, <2>4, <3>1
  <2> QED BY <2>2, <2>3, <2>4
<1> SUFFICES ASSUME NEW i \in 0 .. c - 1 PROVE NodeAt(g, r[i]) = NodeAt(f, r[i])
  OBVIOUS
<1>13. CASE r[i] = t
  BY <1>11, <1>12, <1>13, SameNode
<1>14. CASE r[i] # t
  <2>1. r[i] \in 1 .. L /\ g[r[i]] = f[r[i]]
    BY <1>5, <1>9, <1>14 DEF Shape, Homes
  <2>2. ASSUME NEW j \in TextFields PROVE g[g[r[i]].text[j]].text = f[f[r[i]].text[j]].text
    <3>1. f[r[i]].text[j] \in 1 .. L /\ f[f[r[i]].text[j]].kind = "block"
      <4>1. Links(f, r, c, lo, {})
        BY DEF Shape
      <4>2. f[r[i]].text[j] \in Place(f, lo, {}) /\ OwnBlock(f, r[i], j, f[r[i]].text[j])
        BY <4>1 DEF Links
      <4> QED BY <1>5, <4>2 DEF OwnBlock
    <3>2. f[r[i]].text[j] # t
      BY <1>6, <3>1
    <3> QED BY <1>9, <2>1, <3>1, <3>2
  <2>3. g[r[i]].parent = f[r[i]].parent /\ g[r[i]].num = f[r[i]].num
    BY <2>1
  <2> QED BY <2>2, <2>3 DEF NodeAt
<1> QED BY <1>13, <1>14

\* The unit the array grows over is no node's.
LEMMA CrossedNodes ==
    ASSUME NEW f \in Seq(Unit), NEW r, NEW c \in Nat, NEW lo \in Nat \ {0},
           Shape(f, r, c, lo, {lo}),
           NEW g, \A p \in 1 .. Len(f) : p # lo => g[p] = f[p]
    PROVE  \A i \in 0 .. c - 1 : NodeAt(g, r[i]) = NodeAt(f, r[i])
<1>1. \A p \in Place(f, lo, {lo}) : g[p] = f[p]
  BY DEF Place
<1> SUFFICES ASSUME NEW i \in 0 .. c - 1 PROVE NodeAt(g, r[i]) = NodeAt(f, r[i])
  OBVIOUS
<1>2. g[r[i]] = f[r[i]]
  BY <1>1 DEF Shape, Homes
<1>3. ASSUME NEW j \in TextFields PROVE g[g[r[i]].text[j]].text = f[f[r[i]].text[j]].text
  <2>1. f[r[i]].text[j] \in Place(f, lo, {lo})
    BY DEF Shape, Links
  <2> QED BY <1>1, <1>2, <2>1
<1>4. g[r[i]].parent = f[r[i]].parent /\ g[r[i]].num = f[r[i]].num
  BY <1>2
<1> QED BY <1>3, <1>4, SameNode

\* The tuple or text at the first node unit is what appendToIdArray moves.
LEMMA GrowingMoves ==
    ASSUME LinksKept, Loaded, NEW parent \in Parents, NEW text \in [TextFields -> Given],
           NEW num \in [NumFields -> Scalars], AddNode(parent, text, num),
           NEW f, f = Appended(file, curId, parent, text, num), AddGrowing(f),
           NEW lo, lo = FirstNode(curId), lo <= Len(file),
           NEW r1, r1 = [root EXCEPT ![curId] = Len(f)],
           Shape(f, r1, curId + 1, lo, {})
    PROVE  \/ \E k \in 0 .. curId - 1 :
                 /\ root[k] = lo
                 /\ file' = TupleMoved(f, lo)
                 /\ root' = [[root EXCEPT ![k] = Len(f) + 1] EXCEPT ![curId] = Len(f)]
           \/ \E k \in 0 .. curId - 1, m \in TextFields :
                 /\ r1[k] = root[k] /\ f[r1[k]].text[m] = lo
                 /\ file' = BlockMoved(f, lo)
                 /\ root' = r1
<1>1. /\ curId \in Nat /\ root \in [Entries(curId) -> Nat] /\ file \in Seq(Unit)
      /\ ~ wild /\ ~ wild' /\ Len(file) \in Nat
  BY AddNodeLoaded DEF LinksKept, Loaded, TypeOK, NeverWild
<1>2. curId + 1 = K * ArrUnits(curId) /\ ~ Full /\ Hole = {}
  BY <1>1, GrowDueExactly DEF AddGrowing, Full, Hole
<1>3. lo \in 1 .. Len(file) /\ lo \in Place(file, lo, {})
  <2>1. ArrUnits(curId) \in Nat
    BY <1>1, UnitsBound
  <2> QED BY <1>1, <2>1 DEF FirstNode, Place
<1>4. f[lo] = file[lo] /\ \A p \in Place(file, lo, {}) : f[p] = file[p]
  <2>1. \A p \in 1 .. Len(file) : p \in 1 .. TuplePos(file) /\ p <= Len(file)
    BY <1>1, FieldAssumption DEF TuplePos
  <2>2. \A p \in 1 .. Len(file) : f[p] = file[p]
    BY <2>1 DEF Appended
  <2> QED BY <1>1, <1>3, <2>2 DEF Place
<1>5. Shape(file, root, curId, lo, {})
  BY <1>2 DEF Loaded
<1>6. PICK i \in 0 .. curId - 1 : root[i] = lo \/ \E j \in TextFields : file[root[i]].text[j] = lo
  BY <1>3, <1>5 DEF Shape, Used
<1>7. /\ file[root[i]].kind = "tuple" /\ file[root[i]].id = i /\ root[i] \in Place(file, lo, {})
      /\ i \in Entries(curId) /\ i # curId
  <2>1. i \in Entries(curId) /\ i # curId
    BY <1>1, <1>2 DEF Entries
  <2> QED BY <1>5, <2>1 DEF Shape, Homes
<1>8. CASE TupleCanMove(f, root, lo) /\ file' = TupleMoved(f, lo)
             /\ root' = [Relinked(root, f[lo].id, Len(f) + 1) EXCEPT ![curId] = Len(f)]
  <2>1. file[lo].kind = "tuple"
    BY <1>4, <1>8 DEF TupleCanMove, IsTuple
  <2>2. ASSUME NEW j \in TextFields PROVE file[root[i]].text[j] # lo
    <3>1. file[file[root[i]].text[j]].kind = "block"
      BY <1>5, ShapeGives
    <3> QED BY <2>1, <3>1
  <2>3. root[i] = lo /\ f[lo].id = i
    BY <1>4, <1>6, <1>7, <2>2
  <2> QED BY <1>8, <2>3 DEF Relinked
<1>9. CASE BlockCanMove(f, root, lo) /\ file' = BlockMoved(f, lo) /\ root' = r1
  <2>1. file[lo].kind = "block"
    BY <1>4, <1>9 DEF BlockCanMove, IsBlock
  <2>2. PICK j \in TextFields : file[root[i]].text[j] = lo
    BY <1>6, <1>7, <2>1
  <2>3. r1[i] = root[i]
    BY <1>1, <1>7
  <2>4. f[r1[i]] = file[root[i]]
    BY <1>4, <1>7, <2>3
  <2> QED BY <1>9, <2>2, <2>3, <2>4
<1> QED BY <1>1, <1>8, <1>9 DEF AddGrowing, GoWild

\* addNode leaves every node as it was, and the new one reads as it was given.
LEMMA AddNodeNodes ==
    ASSUME NothingCut, Loaded, NEW parent \in Parents, NEW text \in [TextFields -> Given],
           NEW num \in [NumFields -> Scalars], AddNode(parent, text, num)
    PROVE  /\ curId' = curId + 1
           /\ \A i \in 0 .. curId - 1 : NodeAt(file', root'[i]) = NodeAt(file, root[i])
           /\ NodeAt(file', root'[curId]) = [parent |-> parent, text |-> text, num |-> num]
<1> DEFINE f  == Appended(file, curId, parent, text, num)
           n  == K * ArrUnits(curId)
           lo == FirstNode(curId)
           r1 == [root EXCEPT ![curId] = Len(f)]
           new == [parent |-> parent, text |-> text, num |-> num]
<1>1. /\ curId \in Nat /\ root \in [Entries(curId) -> Nat] /\ file \in Seq(Unit)
      /\ ~ wild' /\ Len(file) \in Nat /\ NText \in Nat
  BY AddNodeLoaded, FieldAssumption DEF NothingCut, LinksKept, Loaded, TypeOK, NeverWild
<1>2. /\ ArrUnits(curId) \in Nat \ {0} /\ n \in Nat /\ curId <= n
      /\ Entries(curId) = 0 .. n - 1 /\ lo \in Nat \ {0} /\ lo = ArrUnits(curId) + 1
  <2>1. ArrUnits(curId) \in Nat \ {0} /\ n \in Nat /\ curId <= n
    BY <1>1, UnitsBound
  <2> QED BY <2>1 DEF Entries, FirstNode
<1>3. f \in Seq(Unit) /\ Len(f) = TuplePos(file) /\ TuplePos(file) = Len(file) + NText + 1
  <2>1. TypeOK /\ parent \in Nat /\ text \in [TextFields -> Texts]
    BY ScalarAssumption, TextAssumption DEF Loaded
  <2> QED BY <2>1, AppendedType DEF TuplePos
<1>4. /\ Shape(file, root, curId, lo, Hole) /\ (Full => lo <= Len(file))
      /\ Hole \subseteq 1 .. Len(file) /\ lo <= Len(file) + 1
  BY <1>1, <1>2 DEF Loaded, Hole, SchemaInFile
<1>5. /\ \A i \in 0 .. curId - 1 : NodeAt(f, root[i]) = NodeAt(file, root[i])
      /\ NodeAt(f, Len(f)) = new
  <2>1. /\ \A i \in 0 .. curId - 1 : NodeAt(f, root[i]) = NodeAt(file, root[i])
        /\ NodeAt(f, TuplePos(file)) = new
    BY <1>1, <1>2, <1>4, AppendedNodes
  <2> QED BY <1>3, <2>1
<1>6. ASSUME NEW r2, r2[curId] = Len(f), \A i \in 0 .. curId - 1 : r2[i] = root[i]
      PROVE  Shape(f, r2, curId + 1, lo, Hole)
  BY <1>1, <1>2, <1>3, <1>4, <1>6, AppendedShape
<1>7. AddInPlace(f) \/ AddGrowing(f) \/ AddCrossing(f)
  BY DEF AddNode
<1>8. curId + 1 \in Nat /\ (curId + 1) - 1 = curId
      /\ 0 .. curId = (0 .. curId - 1) \cup {curId} /\ curId \notin 0 .. curId - 1
  BY <1>1
<1> HIDE DEF f, n, lo, new
\* Whatever leaves the nodes of f where r2 says they are will do.
<1>9. ASSUME NEW r2, r2[curId] = Len(f), \A i \in 0 .. curId - 1 : r2[i] = root[i],
             \A i \in 0 .. curId : NodeAt(file', root'[i]) = NodeAt(f, r2[i])
      PROVE  /\ \A i \in 0 .. curId - 1 : NodeAt(file', root'[i]) = NodeAt(file, root[i])
             /\ NodeAt(file', root'[curId]) = new
  BY <1>5, <1>8, <1>9
<1>10. CASE AddInPlace(f)
  <2>1. file' = f /\ root' = r1 /\ curId' = curId + 1 /\ curId \in Entries(curId)
    BY <1>1, <1>2, <1>10 DEF AddInPlace, n
  <2>2. r1[curId] = Len(f) /\ \A i \in 0 .. curId - 1 : r1[i] = root[i]
    BY <1>1, <1>2, <1>8, <2>1
  <2> HIDE DEF r1
  <2>3. \A i \in 0 .. curId : NodeAt(file', root'[i]) = NodeAt(f, r1[i])
    BY <2>1
  <2> QED BY <1>9, <2>1, <2>2, <2>3 DEF new
<1>11. CASE AddGrowing(f)
  <2>1. curId + 1 = n /\ curId >= 1 /\ ~ Full /\ Hole = {} /\ curId \in Entries(curId)
    <3>1. curId + 1 = n /\ n >= 2
      BY <1>1, <1>11, GrowDueExactly, UnitsBound DEF AddGrowing, n
    <3> QED BY <1>1, <1>2, <3>1 DEF Full, Hole, n
  <2>2. r1[curId] = Len(f) /\ \A i \in 0 .. curId - 1 : r1[i] = root[i]
    BY <1>1, <1>2, <1>8, <2>1
  <2>3. Shape(f, r1, curId + 1, lo, {})
    BY <1>6, <2>1, <2>2
  <2>4. lo <= Len(file) /\ lo <= Len(f) /\ Len(f) \in Nat /\ lo # Len(f)
    <3>1. 0 \in 0 .. curId - 1
      BY <1>1, <2>1
    <3>2. root[0] \in lo .. Len(file)
      BY <1>4, <2>1, <3>1 DEF Shape, Homes, Place
    <3> QED BY <1>1, <1>2, <1>3, <3>2
  <2>5. curId' = curId + 1
    BY <1>1, <1>11 DEF AddGrowing, GoWild
  <2>6. \/ \E k \in 0 .. curId - 1 :
              /\ root[k] = lo
              /\ file' = TupleMoved(f, lo)
              /\ root' = [[root EXCEPT ![k] = Len(f) + 1] EXCEPT ![curId] = Len(f)]
        \/ \E k \in 0 .. curId - 1, m \in TextFields :
              /\ r1[k] = root[k] /\ f[r1[k]].text[m] = lo
              /\ file' = BlockMoved(f, lo)
              /\ root' = r1
    BY <1>11, <2>3, <2>4, GrowingMoves DEF NothingCut, LinksKept, f, lo
  <2>7. ASSUME NEW k \in 0 .. curId - 1, root[k] = lo, file' = TupleMoved(f, lo),
               root' = [[root EXCEPT ![k] = Len(f) + 1] EXCEPT ![curId] = Len(f)]
        PROVE  \A i \in 0 .. curId : NodeAt(file', root'[i]) = NodeAt(f, r1[i])
    <3>1. /\ root'[k] = Len(f) + 1 /\ r1[k] = lo
          /\ \A i \in 0 .. curId : i # k => root'[i] = r1[i]
      BY <1>1, <1>2, <1>8, <2>1, <2>7
    <3> HIDE DEF r1
    <3> DEFINE c == curId + 1
    <3>2. /\ c \in Nat /\ k \in 0 .. c - 1 /\ Shape(f, r1, c, lo, {})
          /\ \A i \in 0 .. c - 1 : i # k => root'[i] = r1[i]
      BY <1>8, <2>3, <3>1
    <3>3. 0 .. c - 1 = 0 .. curId
      BY <1>8
    <3> HIDE DEF c
    <3>4. \A i \in 0 .. c - 1 : NodeAt(file', root'[i]) = NodeAt(f, r1[i])
      <4> DEFINE r2 == root'
                 g  == file'
      <4>1. /\ r2[k] = Len(f) + 1 /\ \A i \in 0 .. c - 1 : i # k => r2[i] = r1[i]
            /\ g = TupleMoved(f, lo)
        BY <2>7, <3>1, <3>2
      <4>3. c \in Nat /\ f \in Seq(Unit) /\ lo \in Nat \ {0} /\ lo <= Len(f)
            /\ k \in 0 .. c - 1 /\ Shape(f, r1, c, lo, {}) /\ r1[k] = lo
        BY <1>2, <1>3, <2>4, <3>1, <3>2
      <4> HIDE DEF r2, g
      <4>2. \A i \in 0 .. c - 1 : NodeAt(g, r2[i]) = NodeAt(f, r1[i])
        BY <4>1, <4>3, TupleMovedNodes
      <4> QED BY <4>2 DEF r2, g
    <3> QED BY <3>3, <3>4
  <2>8. ASSUME NEW k \in 0 .. curId - 1, NEW m \in TextFields,
               f[r1[k]].text[m] = lo, file' = BlockMoved(f, lo), root' = r1
        PROVE  \A i \in 0 .. curId : NodeAt(file', root'[i]) = NodeAt(f, r1[i])
    <3> HIDE DEF r1
    <3> DEFINE c == curId + 1
    <3>2. c \in Nat /\ k \in 0 .. c - 1 /\ Shape(f, r1, c, lo, {}) /\ 0 .. c - 1 = 0 .. curId
      BY <1>8, <2>3
    <3> HIDE DEF c
    <3>4. \A i \in 0 .. c - 1 : NodeAt(file', r1[i]) = NodeAt(f, r1[i])
      <4> DEFINE g == file'
      <4>1. /\ c \in Nat /\ f \in Seq(Unit) /\ lo \in Nat \ {0} /\ lo <= Len(f)
            /\ k \in 0 .. c - 1 /\ Shape(f, r1, c, lo, {}) /\ g = BlockMoved(f, lo)
        BY <1>2, <1>3, <2>4, <2>8, <3>2
      <4> HIDE DEF g
      <4>2. \A i \in 0 .. c - 1 : NodeAt(g, r1[i]) = NodeAt(f, r1[i])
        BY <2>8, <4>1, BlockMovedNodes
      <4> QED BY <4>2 DEF g
    <3> QED BY <2>8, <3>2, <3>4
  <2> HIDE DEF r1
  <2>9. \A i \in 0 .. curId : NodeAt(file', root'[i]) = NodeAt(f, r1[i])
    BY <2>6, <2>7, <2>8
  <2> QED BY <1>9, <2>2, <2>5, <2>9 DEF new
<1>12. CASE AddCrossing(f)
  <2>1. curId = n /\ curId' = curId + 1 /\ file' = [f EXCEPT ![lo] = IdsUnit] /\ Hole = {lo}
    BY <1>12 DEF AddCrossing, n, lo, Hole, Full
  <2>2. root'[curId] = Len(f) /\ \A i \in 0 .. curId - 1 : root'[i] = root[i]
    <3>1. PICK heap : root' = [i \in Entries(curId + 1) |->
                        IF i < curId THEN root[i]
                        ELSE IF i = curId THEN Len(f) ELSE heap[i]]
      BY <1>12 DEF AddCrossing
    <3>2. K * ArrUnits(curId + 1) \in Nat /\ curId + 1 <= K * ArrUnits(curId + 1)
      BY <1>8, UnitsBound
    <3>3. \A i \in 0 .. curId : i \in Entries(curId + 1)
      BY <1>1, <3>2 DEF Entries
    <3> QED BY <1>1, <3>1, <3>3
  <2>3. Shape(f, root', curId + 1, lo, {lo})
    BY <1>6, <2>1, <2>2
  <2>4. \A i \in 0 .. curId : NodeAt(file', root'[i]) = NodeAt(f, root'[i])
    <3> DEFINE c == curId + 1
    <3>1. c \in Nat /\ Shape(f, root', c, lo, {lo}) /\ 0 .. c - 1 = 0 .. curId
      BY <1>8, <2>3
    <3>3. \A p \in 1 .. Len(f) : p # lo => file'[p] = f[p]
      BY <1>3, <2>1
    <3> HIDE DEF c
    <3>2. \A i \in 0 .. c - 1 : NodeAt(file', root'[i]) = NodeAt(f, root'[i])
      <4> DEFINE r2 == root'
                 g  == file'
      <4>1. Shape(f, r2, c, lo, {lo}) /\ \A p \in 1 .. Len(f) : p # lo => g[p] = f[p]
        BY <3>1, <3>3
      <4> HIDE DEF r2, g
      <4>3. c \in Nat /\ f \in Seq(Unit) /\ lo \in Nat \ {0}
        BY <1>2, <1>3, <3>1
      <4>2. \A i \in 0 .. c - 1 : NodeAt(g, r2[i]) = NodeAt(f, r2[i])
        BY <4>1, <4>3, CrossedNodes
      <4> QED BY <4>2 DEF r2, g
    <3> QED BY <3>1, <3>2
  <2> QED BY <1>9, <2>1, <2>2, <2>4 DEF new
<1> QED BY <1>7, <1>10, <1>11, <1>12

----------------------------------------------------------------------------
(* The steps of the tree *)

\* While loading every id given out is listed.
LEMMA LoadedLive == Loaded => Live = 0 .. curId - 1
<1> SUFFICES ASSUME Loaded PROVE Live = 0 .. curId - 1
  OBVIOUS
<1>1. curId \in Nat /\ FirstNode(curId) \in Nat \ {0}
  <2>1. curId \in Nat
    BY DEF Loaded, TypeOK
  <2> QED BY <2>1, UnitsBound DEF FirstNode
<1>2. \A i \in 0 .. curId - 1 : root[i] # 0
  BY <1>1 DEF Loaded, Shape, Homes, Place
<1> QED BY <1>2 DEF Live

LEMMA LoadedLiveNext == (Loaded => Live = 0 .. curId - 1)'
BY LoadedLive, PTL

LEMMA NodesInit == Init => Tree!Init
<1> SUFFICES ASSUME Init PROVE Tree!Init
  OBVIOUS
<1>1. curId = 0 /\ Live = {}
  BY DEF Init, Live
<1>2. [i \in Live |-> NodeOf(i)] = <<>>
  <2> DEFINE s == [i \in Live |-> NodeOf(i)]
  <2>1. s \in [1 .. 0 -> {}]
    BY <1>1
  <2>2. s \in Seq({}) /\ Len(s) = 0
    BY <2>1
  <2> HIDE DEF s
  <2>3. s = <<>>
    BY <2>2, EmptySeq
  <2> QED BY <2>3 DEF s
<1> QED BY <1>1, <1>2 DEF Tree!Init

\* addNode lists one more node, which reads as it was given, and leaves every
\* other one as it was.
LEMMA AddNodeGives ==
    ASSUME NothingCut, Loaded, NEW parent \in Parents, NEW text \in [TextFields -> Given],
           NEW num \in [NumFields -> Scalars], AddNode(parent, text, num)
    PROVE  /\ curId' = curId + 1 /\ Live' = Live \cup {curId} /\ curId \notin Live
           /\ \A i \in Live : NodeOf(i)' = NodeOf(i)
           /\ NodeAt(file', root'[curId]) = [parent |-> parent, text |-> text, num |-> num]
<1>1. /\ curId' = curId + 1
      /\ \A i \in 0 .. curId - 1 : NodeAt(file', root'[i]) = NodeAt(file, root[i])
      /\ NodeAt(file', root'[curId]) = [parent |-> parent, text |-> text, num |-> num]
  BY AddNodeNodes
<1>2. curId \in Nat /\ Live = 0 .. curId - 1 /\ Live' = 0 .. curId' - 1
  BY AddNodeLoaded, LoadedLive, LoadedLiveNext DEF NothingCut, LinksKept, Loaded, TypeOK
<1>3. Live' = Live \cup {curId} /\ curId \notin Live
  BY <1>1, <1>2
<1>4. \A i \in Live : NodeOf(i)' = NodeOf(i)
  BY <1>1, <1>2 DEF NodeOf, NodeAt
<1> QED BY <1>1, <1>3, <1>4

\* addNode is the Insert of the tree for the parent, texts and scalars it got.
LEMMA AddNodeInserts ==
    ASSUME NothingCut, Loaded, NEW parent \in Parents, NEW text \in [TextFields -> Given],
           NEW num \in [NumFields -> Scalars], AddNode(parent, text, num)
    PROVE  /\ [parent |-> parent, text |-> text, num |-> num] \in Tree!Node
           /\ Tree!Insert([parent |-> parent, text |-> text, num |-> num])
<1> DEFINE new == [parent |-> parent, text |-> text, num |-> num]
<1>1. /\ curId' = curId + 1
      /\ Live' = Live \cup {curId} /\ curId \notin Live
      /\ \A i \in Live : NodeOf(i)' = NodeOf(i)
      /\ NodeAt(file', root'[curId]) = new
  BY AddNodeGives
<1>2. new \in Tree!Node
  BY TextAssumption DEF Tree!Node
<1> HIDE DEF new
<1>3. [i \in Live' |-> NodeOf(i)'] = [i \in Live \cup {curId} |-> IF i = curId THEN new ELSE NodeOf(i)]
  <2>1. ASSUME NEW i \in Live' PROVE NodeOf(i)' = IF i = curId THEN new ELSE NodeOf(i)
    BY <1>1 DEF NodeOf, NodeAt
  <2> QED BY <1>1, <2>1
<1>4. Tree!Insert(new)
  BY <1>1, <1>3 DEF Tree!Insert
<1> QED BY <1>2, <1>4 DEF new

\* A scalar update of a listed node changes that value, and no other node.
LEMMA UpdateNumNodes ==
    ASSUME Loaded, NEW id \in Live, NEW field \in NumFields, NEW value \in Scalars,
           UpdateNum(id, field, value)
    PROVE  /\ UNCHANGED <<root, curId, wild>> /\ Live' = Live
           /\ \A i \in Live : i # id => NodeOf(i)' = NodeOf(i)
           /\ NodeOf(id).num \in [NumFields -> Scalars]
           /\ NodeOf(id)' = [NodeOf(id) EXCEPT !.num = [@ EXCEPT ![field] = value]]
<1> DEFINE q == root[id]
<1>1. /\ curId \in Nat /\ Live = 0 .. curId - 1 /\ file \in Seq(Unit)
      /\ FirstNode(curId) \in Nat \ {0}
  <2>1. curId \in Nat
    BY DEF Loaded, TypeOK
  <2>2. FirstNode(curId) \in Nat \ {0}
    BY <2>1, UnitsBound DEF FirstNode
  <2> QED BY <2>1, <2>2, LoadedLive DEF Loaded, TypeOK
<1>2. \A i \in Live : root[i] \in DOMAIN file /\ file[root[i]].kind = "tuple" /\ file[root[i]].id = i
  <2>1. Place(file, FirstNode(curId), Hole) \subseteq DOMAIN file
    BY <1>1 DEF Place
  <2> QED BY <1>1, <2>1, ShapeGives DEF Loaded
<1>3. /\ q \in DOMAIN file /\ file[q] \in Tuple
      /\ file' = [file EXCEPT ![q].num[field] = value] /\ UNCHANGED <<root, curId, wild>>
  BY <1>1, <1>2, UnitKinds DEF UpdateNum, IsTuple
<1>4. file' = [file EXCEPT ![q] = [file[q] EXCEPT !.num = [file[q].num EXCEPT ![field] = value]]]
  BY <1>3
<1>5. /\ file'[q].parent = file[q].parent /\ file'[q].text = file[q].text
      /\ file'[q].num = [file[q].num EXCEPT ![field] = value]
      /\ \A p \in DOMAIN file : p # q => file'[p] = file[p]
  BY <1>1, <1>3, <1>4 DEF Tuple
<1>6. \A i \in Live : i # id => root[i] # q
  BY <1>2
<1>7. \A i \in Live : \A j \in TextFields :
        file[root[i]].text[j] \in DOMAIN file /\ file[root[i]].text[j] # q
  <2>1. Place(file, FirstNode(curId), Hole) \subseteq DOMAIN file
    BY <1>1 DEF Place
  <2>2. ASSUME NEW i \in Live, NEW j \in TextFields
        PROVE  file[root[i]].text[j] \in DOMAIN file /\ file[file[root[i]].text[j]].kind = "block"
    BY <1>1, <2>1, ShapeGives DEF Loaded
  <2>3. file[q].kind = "tuple"
    BY <1>2
  <2> QED BY <2>2, <2>3
<1> HIDE DEF q
<1>8. ASSUME NEW i \in Live, i # id PROVE NodeOf(i)' = NodeOf(i)
  <2>1. file'[root[i]] = file[root[i]]
    BY <1>2, <1>5, <1>6, <1>8
  <2>2. \A j \in TextFields : file'[file[root[i]].text[j]] = file[file[root[i]].text[j]]
    BY <1>5, <1>7
  <2>3. NodeAt(file', root[i]) = NodeAt(file, root[i])
    BY <2>1, <2>2, SameNode
  <2> QED BY <1>3, <2>3 DEF NodeOf, NodeAt
<1>9. NodeOf(id)' = [NodeOf(id) EXCEPT !.num = [@ EXCEPT ![field] = value]]
  <2>1. \A j \in TextFields : file'[file[q].text[j]] = file[file[q].text[j]]
    BY <1>5, <1>7 DEF q
  <2>2. root'[id] = q /\ root[id] = q
    BY <1>3 DEF q
  <2> DEFINE text == [j \in TextFields |-> file[file[q].text[j]].text]
             num  == [file[q].num EXCEPT ![field] = value]
  <2>3. NodeOf(id) = [parent |-> file[q].parent, text |-> text, num |-> file[q].num]
    BY <2>2 DEF NodeOf
  <2>4. [j \in TextFields |-> file'[file'[q].text[j]].text] = text
    BY <1>5, <2>1
  <2>5. NodeOf(id)' = [parent |-> file'[q].parent,
                      text |-> [j \in TextFields |-> file'[file'[q].text[j]].text],
                      num |-> file'[q].num]
    BY <2>2 DEF NodeOf
  <2>6. NodeOf(id)' = [parent |-> file[q].parent, text |-> text, num |-> num]
    BY <1>5, <2>4, <2>5
  <2> HIDE DEF text
  <2> QED BY <2>3, <2>6
<1>10. Live' = Live
  BY <1>3 DEF Live
<1>11. NodeOf(id).num \in [NumFields -> Scalars]
  BY <1>3 DEF NodeOf, Tuple, q
<1> QED BY <1>3, <1>8, <1>9, <1>10, <1>11

\* It is the update of the tree with the same arguments.
LEMMA UpdateNumUpdates ==
    ASSUME Loaded, NEW id \in Live, NEW field \in NumFields, NEW value \in Scalars,
           UpdateNum(id, field, value)
    PROVE  Tree!UpdateNum(id, field, value)
<1> DEFINE nodes == [i \in Live |-> NodeOf(i)]
<1>1. /\ UNCHANGED curId /\ Live' = Live
      /\ \A i \in Live : i # id => NodeOf(i)' = NodeOf(i)
      /\ NodeOf(id)' = [NodeOf(id) EXCEPT !.num = [@ EXCEPT ![field] = value]]
  BY UpdateNumNodes
<1>2. [i \in Live' |-> NodeOf(i)'] = [nodes EXCEPT ![id] = [nodes[id] EXCEPT !.num = [@ EXCEPT ![field] = value]]]
  BY <1>1
<1>3. Tree!UpdateNum(id, field, value)
  BY <1>1, <1>2 DEF Tree!UpdateNum
<1> QED BY <1>3

\* Every step of loading is the step of the tree for the same call.
LEMMA TreeStep ==
    ASSUME NothingCut
    PROVE  /\ Loaded /\ [LoadNext]_vars => [Tree!Next]_(Tree!vars)
           /\ Loaded /\ [LoadNext]_vars => [CallsDoTheSame]_vars
<1> SUFFICES ASSUME Loaded, [LoadNext]_vars
             PROVE  [Tree!Next]_(Tree!vars) /\ [CallsDoTheSame]_vars
  OBVIOUS
<1>1. CASE Adds
  <2>1. PICK parent \in Parents, text \in [TextFields -> Given], num \in [NumFields -> Scalars] :
           AddNode(parent, text, num)
    BY <1>1 DEF Adds
  <2> DEFINE new == [parent |-> parent, text |-> text, num |-> num]
  <2>2. new \in Tree!Node /\ Tree!Insert(new)
    BY <2>1, AddNodeInserts
  <2>3. CallsDoTheSame
    BY <2>1, <2>2 DEF CallsDoTheSame
  <2> HIDE DEF new
  <2>4. Tree!Next
    BY <2>2 DEF Tree!Next
  <2> QED BY <2>3, <2>4
<1>2. CASE \E id \in Live, field \in NumFields, value \in Scalars : UpdateNum(id, field, value)
  <2>1. PICK id \in Live, field \in NumFields, value \in Scalars : UpdateNum(id, field, value)
    BY <1>2
  <2>2. Tree!UpdateNum(id, field, value)
    BY <2>1, UpdateNumUpdates
  <2>3. CallsDoTheSame
    BY <2>1, <2>2 DEF CallsDoTheSame
  <2>4. id \in DOMAIN [i \in Live |-> NodeOf(i)]
    OBVIOUS
  <2>5. Tree!Next
    BY <2>2, <2>4 DEF Tree!Next
  <2> QED BY <2>3, <2>5
<1>3. CASE UNCHANGED vars
  BY <1>3 DEF vars, Tree!vars, Live, NodeOf
<1> QED BY <1>1, <1>2, <1>3 DEF LoadNext

\* When the last bytes of units hold nothing, loading implements the tree of the
\* help text call by call, whatever the id array grows over: a new node is there
\* under the next id with the parent, texts and scalars of that call, a scalar
\* update changes that one value, and every other node stays as it was (addNode,
\* appendToIdArray, swapNode, updateNode).
THEOREM LoadingIsATree == ASSUME NothingCut PROVE LoadSpec => TreeSpec
<1>1. LinksKept
  BY DEF NothingCut, LinksKept
<1>2. LoadSpec => Tree!Init /\ [][Tree!Next]_(Tree!vars) /\ [][CallsDoTheSame]_vars
  BY <1>1, NodesInit, LoadedInit, LoadedStep, TreeStep, PTL DEF LoadSpec
<1> QED BY <1>2 DEF TreeSpec, Tree!Spec
=============================================================================
