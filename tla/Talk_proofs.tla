----------------------------- MODULE Talk_proofs -----------------------------
(* Proof of the round trip: what this program's sender says (Talk) the decoder  *)
(* (Wire) takes as it was said, for every message that fits its struct, every    *)
(* number of them, and every byte after which the sender may die.                *)
EXTENDS Talk, Wire_proofs

----------------------------------------------------------------------------
(* Recursive functions on the numbers up to a bound *)

\* A value for each number up to k, each from the one before.
Recursive(f, S, base, step, k) ==
    /\ f \in [0 .. k -> S]
    /\ f[0] = base
    /\ \A i \in 1 .. k : f[i] = step[i][f[i - 1]]

\* There is such a function, for every bound.
LEMMA RecursionExists ==
    ASSUME NEW S, NEW base \in S, NEW N \in Nat, NEW step \in [1 .. N -> [S -> S]]
    PROVE  \A k \in 0 .. N : \E f : Recursive(f, S, base, step, k)
<1> DEFINE T == {k \in 0 .. N : ~ \E f : Recursive(f, S, base, step, k)}
<1> SUFFICES ASSUME T # {} PROVE FALSE
  OBVIOUS
<1>1. T \in SUBSET Nat
  OBVIOUS
<1>2. PICK k \in T : \A j \in T : k <= j
  BY <1>1, LeastOf
<1>3. k \in 0 .. N /\ ~ \E f : Recursive(f, S, base, step, k)
  OBVIOUS
<1>4. \A j \in 0 .. N : j < k => \E f : Recursive(f, S, base, step, j)
  BY <1>2, <1>3
<1> HIDE DEF T
<1>5. CASE k = 0
  <2> DEFINE zero == [i \in 0 .. 0 |-> base]
  <2>1. Recursive(zero, S, base, step, 0)
    BY DEF Recursive
  <2> QED BY <1>3, <1>5, <2>1
<1>6. CASE k # 0
  <2>1. k - 1 \in 0 .. N /\ k - 1 < k /\ k \in 1 .. N
    BY <1>3, <1>6
  <2>2. PICK f : Recursive(f, S, base, step, k - 1)
    BY <1>4, <2>1
  <2> DEFINE g == [i \in 0 .. k |-> IF i = k THEN step[k][f[k - 1]] ELSE f[i]]
  <2>3. f \in [0 .. k - 1 -> S] /\ f[0] = base /\ \A i \in 1 .. k - 1 : f[i] = step[i][f[i - 1]]
    BY <2>2 DEF Recursive
  <2>4. f[k - 1] \in S /\ step[k][f[k - 1]] \in S
    <3>1. k - 1 \in 0 .. k - 1
      BY <2>1
    <3>2. f[k - 1] \in S
      BY <2>3, <3>1
    <3>3. step[k] \in [S -> S]
      BY <2>1
    <3> QED BY <3>2, <3>3
  <2>5. \A i \in 0 .. k : i = k \/ i \in 0 .. k - 1
    BY <2>1
  <2>6. g \in [0 .. k -> S]
    BY <2>3, <2>4, <2>5
  <2>7. g[0] = base
    BY <2>1, <2>3
  <2>8. ASSUME NEW i \in 1 .. k PROVE g[i] = step[i][g[i - 1]]
    <3>1. i - 1 \in 0 .. k /\ i - 1 # k /\ i \in 0 .. k
      BY <2>1
    <3>2. g[i - 1] = f[i - 1]
      BY <3>1
    <3>3. CASE i = k
      BY <3>1, <3>2, <3>3
    <3>4. CASE i # k
      <4>1. i \in 1 .. k - 1
        BY <2>1, <3>4
      <4> QED BY <2>3, <3>1, <3>2, <3>4, <4>1
    <3> QED BY <3>3, <3>4
  <2> HIDE DEF g
  <2>9. Recursive(g, S, base, step, k)
    BY <2>6, <2>7, <2>8 DEF Recursive
  <2> QED BY <1>3, <2>9
<1> QED BY <1>5, <1>6

----------------------------------------------------------------------------
(* The groups of seven bits of a number *)

\* Shifting out one group more divides by 128.
LEMMA ShiftedIs ==
    ASSUME NEW n \in Nat, NEW N \in Nat
    PROVE  /\ Shifted(n, 0) = n
           /\ Shifted(n, N) \in Nat
           /\ Shifted(n, N + 1) = Shifted(n, N) \div 128
<1> DEFINE M == N + 1
           step == [i \in 1 .. M |-> [x \in Nat |-> x \div 128]]
           At(rest, j) == IF j = 0 THEN n ELSE rest[j - 1] \div 128
           Is(rest, k) == rest = [j \in 0 .. k |-> At(rest, j)]
           Rest(k) == CHOOSE rest : Is(rest, k)
<1>1. M \in Nat /\ \A k \in 0 .. M : k \in Nat
  OBVIOUS
<1>2. step \in [1 .. M -> [Nat -> Nat]]
  OBVIOUS
<1>3. \A i \in 1 .. M : \A x \in Nat : step[i][x] = x \div 128
  OBVIOUS
<1> HIDE DEF M, step
<1>4. \A k \in 0 .. M : \E f : Recursive(f, Nat, n, step, k)
  BY <1>1, <1>2, RecursionExists
<1>5. PICK f : Recursive(f, Nat, n, step, M)
  BY <1>1, <1>4
<1>6. f \in [0 .. M -> Nat] /\ f[0] = n /\ \A i \in 1 .. M : f[i] = f[i - 1] \div 128
  <2>1. ASSUME NEW i \in 1 .. M PROVE f[i] = f[i - 1] \div 128
    <3>1. i - 1 \in 0 .. M
      BY <1>1
    <3>2. f[i - 1] \in Nat
      BY <1>5, <3>1 DEF Recursive
    <3>3. f[i] = step[i][f[i - 1]]
      BY <1>5 DEF Recursive
    <3> QED BY <1>3, <3>2, <3>3
  <2> QED BY <1>5, <2>1 DEF Recursive
<1>7. ASSUME NEW k \in 0 .. M PROVE Shifted(n, k) = f[k]
  <2> DEFINE g == [j \in 0 .. k |-> f[j]]
  <2>1. ASSUME NEW j \in 0 .. k PROVE g[j] = At(g, j)
    <3>1. CASE j = 0
      BY <1>6, <3>1
    <3>2. CASE j # 0
      <4>1. j \in 1 .. M /\ j - 1 \in 0 .. k
        BY <1>1, <3>2
      <4> QED BY <1>6, <3>2, <4>1
    <3> QED BY <3>1, <3>2
  <2>2. Is(g, k)
    BY <2>1
  <2>3. Is(Rest(k), k)
    <3>1. \E rest : Is(rest, k)
      BY <2>2
    <3> HIDE DEF Is
    <3> QED BY <3>1
  <2> DEFINE a == Rest(k)
  <2>4. \A j \in 0 .. k : a[j] = At(a, j)
    BY <2>3
  <2>5. Shifted(n, k) = a[k]
    BY DEF Shifted
  <2> HIDE DEF a, g
  <2>6. \A j \in 0 .. k : a[j] = f[j]
    <3> DEFINE T == {j \in 0 .. k : a[j] # f[j]}
    <3> SUFFICES ASSUME T # {} PROVE FALSE
      OBVIOUS
    <3>1. T \in SUBSET Nat
      BY <1>1
    <3>2. PICK j \in T : \A i \in T : j <= i
      BY <3>1, LeastOf
    <3>3. j \in 0 .. k /\ a[j] # f[j]
      OBVIOUS
    <3>4. j # 0
      BY <1>6, <2>4, <3>3
    <3>5. j - 1 \in 0 .. k /\ j \in 1 .. M /\ j - 1 < j
      BY <1>1, <3>3, <3>4
    <3>6. a[j - 1] = f[j - 1]
      BY <3>2, <3>3, <3>5
    <3> QED BY <1>6, <2>4, <3>3, <3>4, <3>5, <3>6
  <2> QED BY <1>1, <2>5, <2>6
<1>8. N \in 0 .. M /\ 0 \in 0 .. M /\ N + 1 \in 1 .. M /\ N + 1 \in 0 .. M /\ (N + 1) - 1 = N
  BY DEF M
<1>9. Shifted(n, N) = f[N] /\ Shifted(n, 0) = f[0] /\ Shifted(n, N + 1) = f[N + 1]
  BY <1>7, <1>8
<1>10. f[N] \in Nat /\ f[N + 1] = f[N] \div 128
  BY <1>6, <1>8
<1> QED BY <1>6, <1>9, <1>10

\* Shifting goes on where it stopped.
LEMMA ShiftedTwice ==
    ASSUME NEW n \in Nat, NEW k \in Nat, NEW i \in Nat
    PROVE  Shifted(Shifted(n, k), i) = Shifted(n, k + i)
<1> DEFINE x == Shifted(n, k)
           T == {j \in Nat : Shifted(x, j) # Shifted(n, k + j)}
<1> SUFFICES ASSUME T # {} PROVE FALSE
  OBVIOUS
<1>1. x \in Nat
  BY ShiftedIs
<1>2. T \in SUBSET Nat
  OBVIOUS
<1>3. PICK j \in T : \A h \in T : j <= h
  BY <1>2, LeastOf
<1>4. j \in Nat /\ Shifted(x, j) # Shifted(n, k + j)
  OBVIOUS
<1>5. j # 0
  BY <1>1, <1>4, ShiftedIs
<1> DEFINE h == j - 1
<1>6. h \in Nat /\ h < j /\ j = h + 1
  BY <1>4, <1>5
<1>7. Shifted(x, h) = Shifted(n, k + h)
  BY <1>3, <1>4, <1>6
<1>8. Shifted(x, h + 1) = Shifted(x, h) \div 128
  <2> HIDE DEF x, h, T
  <2> QED BY <1>1, <1>6, ShiftedIs
<1>9. k + h \in Nat /\ k + (h + 1) = (k + h) + 1
  BY <1>6
<1>10. Shifted(n, (k + h) + 1) = Shifted(n, k + h) \div 128
  BY <1>9, ShiftedIs
<1> HIDE DEF T, x, h
<1> QED BY <1>4, <1>6, <1>7, <1>8, <1>9, <1>10

\* Shifted often enough nothing is left.
LEMMA ShiftedAway ==
    ASSUME NEW n \in Nat
    PROVE  \E k \in 0 .. n : Shifted(n, k) < 128 /\ (k > 0 => Shifted(n, k - 1) >= 128)
<1>0. \A i \in Nat : Shifted(n, i) \in Nat /\ Shifted(n, i + 1) = Shifted(n, i) \div 128
  BY ShiftedIs
<1> DEFINE T == {j \in Nat : Shifted(n, j) > n - j /\ Shifted(n, j) # 0}
<1>1. T = {}
  <2> SUFFICES ASSUME T # {} PROVE FALSE
    OBVIOUS
  <2>1. T \in SUBSET Nat
    OBVIOUS
  <2>2. PICK j \in T : \A h \in T : j <= h
    BY <2>1, LeastOf
  <2>3. j \in Nat /\ Shifted(n, j) > n - j /\ Shifted(n, j) # 0
    OBVIOUS
  <2>4. j # 0
    BY <2>3, ShiftedIs
  <2> DEFINE h == j - 1
  <2>5. h \in Nat /\ h < j /\ j = h + 1
    BY <2>3, <2>4
  <2>6. h \notin T
    BY <2>2, <2>3, <2>5
  <2>7. ~ (Shifted(n, h) > n - h) \/ Shifted(n, h) = 0
    BY <2>5, <2>6
  <2>8. Shifted(n, h) \in Nat /\ Shifted(n, h + 1) = Shifted(n, h) \div 128
    <3> HIDE DEF h, T
    <3> QED BY <1>0, <2>5
  <2> DEFINE a == Shifted(n, h)
             b == Shifted(n, j)
  <2>9. a \in Nat /\ b = a \div 128 /\ b > n - j /\ b # 0 /\ (a <= n - h \/ a = 0)
    BY <2>3, <2>5, <2>7, <2>8
  <2> HIDE DEF a, b, h, T
  <2> QED BY <2>5, <2>9
<1>2. Shifted(n, n) \in Nat /\ (Shifted(n, n) <= 0 \/ Shifted(n, n) = 0)
  <2>1. Shifted(n, n) \in Nat
    BY ShiftedIs
  <2>2. n \notin T
    BY <1>1
  <2> QED BY <2>1, <2>2
<1>3. Shifted(n, n) < 128
  BY <1>2
<1> DEFINE U == {j \in 0 .. n : Shifted(n, j) < 128}
<1>4. U \in SUBSET Nat /\ n \in U
  BY <1>3
<1>5. PICK k \in U : \A j \in U : k <= j
  BY <1>4, LeastOf
<1>6. k \in 0 .. n /\ Shifted(n, k) < 128
  OBVIOUS
<1>7. ASSUME k > 0 PROVE Shifted(n, k - 1) >= 128
  <2>1. k - 1 \in 0 .. n /\ k - 1 < k /\ k - 1 \in Nat
    BY <1>6, <1>7
  <2>2. Shifted(n, k - 1) \in Nat
    BY <2>1, ShiftedIs
  <2>3. k - 1 \notin U
    BY <1>5, <1>6, <2>1
  <2> QED BY <2>1, <2>2, <2>3
<1> QED BY <1>6, <1>7

\* The powers of two that the varints use.
LEMMA SmallPowers == 2 ^ 0 = 1 /\ 2 ^ 3 = 8 /\ 2 ^ 4 = 16 /\ 2 ^ 7 = 128
<1> DEFINE L == LongBits
<1>1. L \in Nat /\ 7 < L
  BY WidthAssumption
<1>2. \A m \in 0 .. L : 2 ^ m \in Nat \ {0} /\ \A n \in 0 .. L - m : 2 ^ (m + n) = 2 ^ m * 2 ^ n
  BY PowerAssumption
<1>3. 2 ^ 1 = 2
  BY PowerAssumption
<1> HIDE DEF L
<1>4. 2 ^ 0 = 1
  <2>1. 0 \in 0 .. L /\ 1 \in 0 .. L - 0
    BY <1>1
  <2>2. 2 ^ (0 + 1) = 2 ^ 0 * 2 ^ 1 /\ 2 ^ 0 \in Nat
    BY <1>2, <2>1
  <2> QED BY <1>3, <2>2
<1>5. 2 ^ (1 + 1) = 2 * 2
  BY <1>1, <1>2, <1>3
<1>6. 2 ^ (2 + 1) = 4 * 2
  BY <1>1, <1>2, <1>3, <1>5
<1>7. 2 ^ (3 + 1) = 8 * 2
  BY <1>1, <1>2, <1>3, <1>6
<1>8. 2 ^ (4 + 3) = 16 * 8
  <2>1. 4 \in 0 .. L /\ 3 \in 0 .. L - 4
    BY <1>1
  <2>2. 2 ^ (4 + 3) = 2 ^ 4 * 2 ^ 3
    BY <1>2, <2>1
  <2> QED BY <1>6, <1>7, <2>2
<1> QED BY <1>4, <1>6, <1>7, <1>8

\* Numbers of so many whole groups.
Many(j) == 2 ^ (7 * j)

\* Seven bits more hold 128 times as many numbers.
LEMMA ManyIs ==
    ASSUME NEW j \in Nat, 7 * j <= LongBits
    PROVE  /\ Many(j) \in Nat \ {0}
           /\ Many(0) = 1
           /\ j > 0 => Many(j) = 128 * Many(j - 1)
<1>1. LongBits \in Nat
  BY WidthAssumption
<1>2. Many(j) \in Nat \ {0}
  BY <1>1, PowerAssumption DEF Many
<1>3. Many(0) = 1
  BY SmallPowers DEF Many
<1>4. ASSUME j > 0 PROVE Many(j) = 128 * Many(j - 1)
  <2> DEFINE m == 7 * (j - 1)
  <2>1. m \in 0 .. LongBits /\ 7 \in 0 .. LongBits - m /\ m + 7 = 7 * j
    BY <1>1, <1>4
  <2> HIDE DEF m
  <2>2. 2 ^ (m + 7) = 2 ^ m * 2 ^ 7 /\ 2 ^ m \in Nat
    BY <2>1, PowerAssumption
  <2>3. 2 ^ (7 * j) = 2 ^ m * 128
    BY <2>1, <2>2, SmallPowers
  <2>4. 2 ^ m * 128 = 128 * 2 ^ m
    BY <2>2
  <2> QED BY <2>3, <2>4 DEF Many, m
<1> QED BY <1>2, <1>3, <1>4

\* An int32 has some whole groups and four bits more, an int64 one bit more.
IntGroups == IntBits \div 7
LongGroups == LongBits \div 7

\* An int has four bits behind its last whole group, a long one.
LEMMA WidthsAre ==
    /\ IntGroups \in Nat \ {0} /\ IntBits = 7 * IntGroups + 4 /\ 2 ^ IntBits = 16 * Many(IntGroups)
    /\ LongGroups \in Nat \ {0} /\ LongBits = 7 * LongGroups + 1 /\ 2 ^ LongBits = 2 * Many(LongGroups)
    /\ IntGroups < LongGroups /\ Many(IntGroups) \in Nat \ {0} /\ Many(LongGroups) \in Nat \ {0}
<1>1. /\ IntBits \in Nat /\ LongBits \in Nat
      /\ IntBits % 7 = 4 /\ LongBits % 7 = 1 /\ 7 < IntBits /\ IntBits < LongBits
  BY WidthAssumption
<1>2. IntGroups \in Nat \ {0} /\ IntBits = 7 * IntGroups + 4
  BY <1>1 DEF IntGroups
<1>3. LongGroups \in Nat \ {0} /\ LongBits = 7 * LongGroups + 1
  BY <1>1 DEF LongGroups
<1>4. IntGroups < LongGroups
  BY <1>1, <1>2, <1>3
<1>5. Many(IntGroups) \in Nat \ {0} /\ Many(LongGroups) \in Nat \ {0}
  BY <1>1, <1>2, <1>3, ManyIs
<1> DEFINE a == 7 * IntGroups
           b == 7 * LongGroups
<1>6. a \in 0 .. LongBits /\ 4 \in 0 .. LongBits - a /\ b \in 0 .. LongBits /\ 1 \in 0 .. LongBits - b
  BY <1>1, <1>2, <1>3
<1>7. IntBits = a + 4 /\ LongBits = b + 1 /\ Many(IntGroups) = 2 ^ a /\ Many(LongGroups) = 2 ^ b
  BY <1>2, <1>3 DEF Many
<1> HIDE DEF a, b
<1>8. 2 ^ (a + 4) = 2 ^ a * 2 ^ 4 /\ 2 ^ (b + 1) = 2 ^ b * 2 ^ 1
  BY <1>6, PowerAssumption
<1>9. 2 ^ (a + 4) = 2 ^ a * 16 /\ 2 ^ (b + 1) = 2 ^ b * 2
  BY <1>8, SmallPowers, PowerAssumption
<1>10. \A x \in Nat : x * 16 = 16 * x /\ x * 2 = 2 * x
  OBVIOUS
<1>11. 2 ^ IntBits = 16 * Many(IntGroups) /\ 2 ^ LongBits = 2 * Many(LongGroups)
  BY <1>5, <1>7, <1>9, <1>10
<1> QED BY <1>2, <1>3, <1>4, <1>5, <1>11

\* A number of q whole groups and a little more loses a group at a time.
LEMMA ShiftedBelow ==
    ASSUME NEW q \in Nat, 7 * q <= LongBits, NEW c \in Nat, NEW n \in Nat, n < c * Many(q)
    PROVE  \A i \in 0 .. q : Shifted(n, i) < c * Many(q - i)
<1> DEFINE T == {j \in 0 .. q : ~ (Shifted(n, j) < c * Many(q - j))}
<1> SUFFICES ASSUME T # {} PROVE FALSE
  OBVIOUS
<1>1. T \in SUBSET Nat
  OBVIOUS
<1>2. PICK j \in T : \A h \in T : j <= h
  BY <1>1, LeastOf
<1>3. j \in 0 .. q /\ ~ (Shifted(n, j) < c * Many(q - j))
  OBVIOUS
<1>4. j # 0
  <2>1. q - 0 = q
    OBVIOUS
  <2> QED BY <1>3, <2>1, ShiftedIs
<1> DEFINE h == j - 1
           a == Shifted(n, h)
           b == Shifted(n, j)
           d == Many(q - j)
<1>5. h \in 0 .. q /\ h \in Nat /\ h < j /\ j = h + 1 /\ q - h = (q - j) + 1 /\ q - h > 0 /\ q - h \in Nat
  BY <1>3, <1>4
<1>6. a < c * Many(q - h)
  BY <1>2, <1>3, <1>5
<1>7. a \in Nat /\ b = a \div 128
  <2>1. Shifted(n, h) \in Nat /\ Shifted(n, h + 1) = Shifted(n, h) \div 128
    BY <1>5, ShiftedIs
  <2> QED BY <1>5, <2>1
<1>8. Many(q - h) = 128 * d /\ d \in Nat
  <2>1. 7 * (q - h) <= LongBits /\ 7 * (q - j) <= LongBits /\ (q - h) - 1 = q - j /\ q - j \in Nat
    BY <1>3, <1>5, WidthAssumption
  <2>2. Many(q - h) = 128 * Many((q - h) - 1)
    BY <1>5, <2>1, ManyIs
  <2>3. Many(q - j) \in Nat
    BY <2>1, ManyIs
  <2> QED BY <2>1, <2>2, <2>3
<1> HIDE DEF a, b, d, h, T
<1>9. a < c * (128 * d)
  BY <1>6, <1>8
<1> DEFINE e == c * d
<1>10. e \in Nat /\ c * (128 * d) = 128 * e
  BY <1>8
<1> HIDE DEF e
<1>11. a < 128 * e
  BY <1>9, <1>10
<1>12. b < e
  BY <1>7, <1>10, <1>11
<1> QED BY <1>3, <1>12 DEF b, d, e

\* bs are the groups of n, m of them marked, and the last one not.
IsForm(bs, n, m) ==
    /\ bs \in Seq(Byte) /\ Len(bs) = m + 1
    /\ \A i \in 1 .. m : bs[i] = (Shifted(n, i - 1) % 128) + 128
    /\ bs[m + 1] = Shifted(n, m) /\ Shifted(n, m) < 128
    /\ m > 0 => Shifted(n, m - 1) >= 128

\* Marked groups are bytes.
LEMMA MarkedIs ==
    ASSUME NEW n \in Nat, NEW c \in Nat
    PROVE  /\ Marked(n, c) \in Seq(Byte) /\ Len(Marked(n, c)) = c
           /\ \A i \in 1 .. c : Marked(n, c)[i] = (Shifted(n, i - 1) % 128) + 128
<1>1. ASSUME NEW i \in 1 .. c PROVE (Shifted(n, i - 1) % 128) + 128 \in Byte
  <2>1. i - 1 \in Nat
    OBVIOUS
  <2>2. Shifted(n, i - 1) \in Nat
    BY <2>1, ShiftedIs
  <2>3. \A x \in Nat : (x % 128) + 128 \in 0 .. 255
    OBVIOUS
  <2> QED BY <2>2, <2>3 DEF Byte
<1>2. Marked(n, c) \in [1 .. c -> Byte]
  BY <1>1 DEF Marked
<1>3. Marked(n, c) \in Seq(Byte) /\ Len(Marked(n, c)) = c
  BY <1>2
<1> QED BY <1>3 DEF Marked

\* A byte is below 256.
LEMMA ByteIs == \A b \in Byte : b \in Nat /\ b < 256
BY DEF Byte

\* One byte is a sequence of bytes.
LEMMA OneByte ==
    ASSUME NEW b \in Byte
    PROVE  <<b>> \in Seq(Byte) /\ Len(<<b>>) = 1 /\ <<b>>[1] = b
OBVIOUS

\* The bytes of two sequences, one behind the other.
LEMMA Joined ==
    ASSUME NEW a \in Seq(Byte), NEW b \in Seq(Byte)
    PROVE  /\ a \o b \in Seq(Byte) /\ Len(a \o b) = Len(a) + Len(b)
           /\ \A i \in 1 .. Len(a) + Len(b) :
                 (a \o b)[i] = IF i <= Len(a) THEN a[i] ELSE b[i - Len(a)]
BY ConcatProperties

\* Marked groups with a last one behind them.
LEMMA FormOf ==
    ASSUME NEW n \in Nat, NEW m \in Nat, Shifted(n, m) < 128,
           m > 0 => Shifted(n, m - 1) >= 128
    PROVE  IsForm(Marked(n, m) \o <<Shifted(n, m)>>, n, m)
<1> DEFINE a == Marked(n, m)
           x == Shifted(n, m)
           s == <<x>>
           t == a \o s
<1>1. a \in Seq(Byte) /\ Len(a) = m /\ \A i \in 1 .. m : a[i] = (Shifted(n, i - 1) % 128) + 128
  BY MarkedIs
<1>2. x \in Byte
  <2>1. Shifted(n, m) \in Nat
    BY ShiftedIs
  <2> QED BY <2>1 DEF Byte
<1>3. s \in Seq(Byte) /\ Len(s) = 1 /\ s[1] = x
  BY <1>2, OneByte
<1> HIDE DEF a, s
<1>4. /\ t \in Seq(Byte) /\ Len(t) = Len(a) + Len(s)
      /\ \A i \in 1 .. Len(a) + Len(s) : t[i] = IF i <= Len(a) THEN a[i] ELSE s[i - Len(a)]
  <2>1. a \in Seq(Byte) /\ s \in Seq(Byte)
    BY <1>1, <1>3
  <2> QED BY <2>1, ConcatProperties
<1> HIDE DEF t
<1>5. Len(t) = m + 1 /\ t[m + 1] = x
  BY <1>1, <1>3, <1>4
<1>6. \A i \in 1 .. m : t[i] = a[i]
  BY <1>1, <1>3, <1>4
<1>7. IsForm(t, n, m)
  BY <1>1, <1>4, <1>5, <1>6 DEF IsForm
<1> QED BY <1>7 DEF t, a, s

\* A number whose groups are found by pb_encode_varint_32 has the form of a varint.
LEMMA GroupsIs ==
    ASSUME NEW n \in Nat
    PROVE  \E m \in Nat : IsForm(Groups(n), n, m)
<1> DEFINE Is(k) == Shifted(n, k) < 128 /\ (k > 0 => Shifted(n, k - 1) >= 128)
           more == CHOOSE k \in 0 .. n : Is(k)
<1>1. \E k \in 0 .. n : Is(k)
  BY ShiftedAway
<1>2. more \in 0 .. n /\ Is(more)
  <2> HIDE DEF Is
  <2> QED BY <1>1
<1>3. Groups(n) = Marked(n, more) \o <<Shifted(n, more)>>
  BY DEF Groups
<1> HIDE DEF more
<1>4. more \in Nat
  BY <1>2
<1>5. IsForm(Groups(n), n, more)
  BY <1>2, <1>3, <1>4, FormOf
<1> QED BY <1>4, <1>5

\* The lower half of a long has as many whole groups as an int32; the bits of
\* the upper half follow the four that are left.
LEMMA HalvesAre ==
    ASSUME NEW low \in Nat, low < 2 ^ IntBits, NEW high \in Nat, NEW n \in Nat,
           n = low + high * 2 ^ IntBits
    PROVE  /\ \A i \in 0 .. IntGroups - 1 : Shifted(n, i) % 128 = Shifted(low, i) % 128
           /\ Shifted(low, IntGroups) < 16
           /\ Shifted(n, IntGroups) = Shifted(low, IntGroups) + 16 * high
           /\ high > 0 => \A i \in 0 .. IntGroups - 1 : Shifted(n, i) >= 128
<1> DEFINE w == IntGroups
           R(i) == Many(w - i) * high
           Q(i) == 16 * R(i)
           T == {j \in 0 .. w : Shifted(n, j) # Shifted(low, j) + Q(j)}
<1>1. w \in Nat \ {0} /\ 7 * w <= LongBits /\ 2 ^ IntBits = 16 * Many(w) /\ Many(w) \in Nat
  BY WidthsAre, WidthAssumption
<1> HIDE DEF w
<1>2. \A i \in 0 .. w : Many(w - i) \in Nat \ {0} /\ R(i) \in Nat /\ (i < w => R(i) = 128 * R(i + 1))
  <2> SUFFICES ASSUME NEW i \in 0 .. w
               PROVE  /\ Many(w - i) \in Nat \ {0} /\ R(i) \in Nat
                      /\ i < w => R(i) = 128 * R(i + 1)
    OBVIOUS
  <2> DEFINE j == w - i
  <2>1. j \in Nat /\ 7 * j <= LongBits
    BY <1>1, WidthAssumption
  <2>2. Many(j) \in Nat \ {0} /\ (j > 0 => Many(j) = 128 * Many(j - 1))
    BY <2>1, ManyIs
  <2>3. R(i) \in Nat
    BY <2>2
  <2>4. ASSUME i < w PROVE R(i) = 128 * R(i + 1)
    <3>1. j - 1 \in Nat /\ 7 * (j - 1) <= LongBits /\ w - (i + 1) = j - 1 /\ j > 0
      BY <1>1, <2>1, <2>4, WidthAssumption
    <3>2. Many(j - 1) \in Nat
      BY <3>1, ManyIs
    <3>3. \A x, y \in Nat : (128 * x) * y = 128 * (x * y)
      OBVIOUS
    <3> QED BY <2>2, <3>1, <3>2, <3>3
  <2> QED BY <2>2, <2>3, <2>4
<1>3. Many(w - w) = 1 /\ R(w) = high
  <2>1. w - w = 0 /\ Many(0) = 1
    BY <1>1, ManyIs, WidthAssumption
  <2> QED BY <2>1
<1>4. n = low + Q(0)
  <2>1. w - 0 = w
    BY <1>1
  <2>2. \A x, y \in Nat : x * (16 * y) = 16 * (y * x)
    OBVIOUS
  <2> QED BY <1>1, <2>1, <2>2
<1> HIDE DEF R
<1>5. T = {}
  <2> SUFFICES ASSUME T # {} PROVE FALSE
    OBVIOUS
  <2>1. T \in SUBSET Nat
    BY <1>1
  <2>2. PICK j \in T : \A h \in T : j <= h
    BY <2>1, LeastOf
  <2>3. j \in 0 .. w /\ Shifted(n, j) # Shifted(low, j) + Q(j)
    OBVIOUS
  <2>4. j # 0
    BY <1>4, <2>3, ShiftedIs
  <2> DEFINE h == j - 1
  <2>5. h \in 0 .. w /\ h < w /\ h < j /\ j = h + 1 /\ h \in Nat
    BY <1>1, <2>3, <2>4
  <2>6. Shifted(n, h) = Shifted(low, h) + Q(h)
    BY <2>2, <2>3, <2>5
  <2>7. R(h) = 128 * R(j) /\ R(j) \in Nat
    BY <1>2, <2>3, <2>5
  <2>8. /\ Shifted(n, h) \in Nat /\ Shifted(n, j) = Shifted(n, h) \div 128
        /\ Shifted(low, h) \in Nat /\ Shifted(low, j) = Shifted(low, h) \div 128
    BY <2>5, ShiftedIs
  <2> DEFINE a == Shifted(low, h)
             b == Shifted(n, h)
             r == R(j)
  <2>9. a \in Nat /\ r \in Nat /\ b = a + 16 * (128 * r)
    BY <2>6, <2>7, <2>8
  <2>10. Shifted(n, j) # (a \div 128) + 16 * r
    BY <2>3, <2>8
  <2>11. Shifted(n, j) = b \div 128
    BY <2>8
  <2> HIDE DEF a, b, r, h, T
  <2> QED BY <2>9, <2>10, <2>11
<1>6. \A i \in 0 .. w : Shifted(n, i) = Shifted(low, i) + Q(i) /\ Shifted(low, i) \in Nat
  <2> SUFFICES ASSUME NEW i \in 0 .. w
               PROVE  Shifted(n, i) = Shifted(low, i) + Q(i) /\ Shifted(low, i) \in Nat
    OBVIOUS
  <2>1. i \notin T
    BY <1>5
  <2>2. i \in Nat
    BY <1>1
  <2>3. Shifted(low, i) \in Nat
    BY <2>2, ShiftedIs
  <2> QED BY <2>1, <2>3
<1> HIDE DEF T
<1>7. ASSUME NEW i \in 0 .. w - 1
      PROVE  Shifted(n, i) % 128 = Shifted(low, i) % 128 /\ (high > 0 => Shifted(n, i) >= 128)
  <2>1. i \in 0 .. w /\ i < w /\ i + 1 \in 0 .. w
    BY <1>1
  <2>2. Shifted(n, i) = Shifted(low, i) + Q(i) /\ Shifted(low, i) \in Nat /\ R(i) = 128 * R(i + 1) /\ R(i + 1) \in Nat
    BY <1>2, <1>6, <2>1
  <2> DEFINE a == Shifted(low, i)
             r == R(i + 1)
  <2>3. a \in Nat /\ r \in Nat /\ Shifted(n, i) = a + 16 * (128 * r)
    BY <2>2
  <2>4. high > 0 => r > 0
    <3>1. Many(w - (i + 1)) \in Nat \ {0}
      BY <1>2, <2>1
    <3>2. \A x, y \in Nat \ {0} : x * y > 0
      OBVIOUS
    <3> QED BY <3>1, <3>2 DEF R
  <2>5. Shifted(low, i) = a
    OBVIOUS
  <2> HIDE DEF a, r
  <2> QED BY <2>3, <2>4, <2>5
<1>8. Shifted(low, w) < 16
  <2>1. \A i \in 0 .. w : Shifted(low, i) < 16 * Many(w - i)
    BY <1>1, ShiftedBelow
  <2>2. Shifted(low, w) < 16 * Many(w - w)
    BY <1>1, <2>1
  <2> QED BY <1>3, <2>2
<1>9. Shifted(n, w) = Shifted(low, w) + 16 * high
  BY <1>1, <1>3, <1>6
<1> QED BY <1>7, <1>8, <1>9 DEF w

\* However the encoder splits a number, its groups are sent from the lowest on.
LEMMA VarintIs ==
    ASSUME NEW n \in Nat
    PROVE  \E m \in Nat : IsForm(Varint(n), n, m)
<1> DEFINE low == n % 2 ^ IntBits
           high == n \div 2 ^ IntBits
           w == IntGroups
           s == Shifted(low, w)
           between == s + (high % 8) * 16
<1>1. low \in Nat /\ low < 2 ^ IntBits /\ high \in Nat /\ n = low + high * 2 ^ IntBits
  <2> DEFINE d == 2 ^ IntBits
  <2>1. d \in Nat \ {0}
    BY IntRange
  <2> HIDE DEF d
  <2>2. n % d \in Nat /\ n % d < d /\ n \div d \in Nat /\ n = (n % d) + (n \div d) * d
    BY <2>1
  <2> QED BY <2>2 DEF d
<1>2. Varint(n) = IF high = 0 THEN Groups(low)
                  ELSE Marked(low, w)
                       \o (IF high < 8 THEN <<between>>
                           ELSE <<between + 128>> \o Groups(high \div 8))
  BY DEF Varint, Halves, Last4, First3, IntGroups
<1>3. CASE high = 0
  <2>1. n = low
    <3> DEFINE d == 2 ^ IntBits
    <3>1. d \in Nat
      BY IntRange
    <3>2. high * d = 0
      BY <1>3, <3>1
    <3> QED BY <1>1, <3>2
  <2> HIDE DEF low, high
  <2>2. Varint(n) = Groups(n)
    BY <1>2, <1>3, <2>1
  <2> QED BY <2>2, GroupsIs
<1>4. CASE high > 0
  <2> HIDE DEF low, high
  <2>1. w \in Nat \ {0}
    BY WidthsAre
  <2>2. /\ \A i \in 0 .. w - 1 : Shifted(n, i) % 128 = Shifted(low, i) % 128
        /\ s < 16
        /\ Shifted(n, w) = s + 16 * high
        /\ \A i \in 0 .. w - 1 : Shifted(n, i) >= 128
    BY <1>1, <1>4, HalvesAre
  <2>3. s \in Nat
    BY <1>1, <2>1, ShiftedIs
  <2> HIDE DEF s, w
  <2>4. between \in Nat /\ between < 128 /\ between = Shifted(n, w) % 128
        /\ (high < 8 => between = Shifted(n, w))
    BY <1>1, <2>2, <2>3
  <2> DEFINE a == Marked(low, w)
  <2>5. /\ a \in Seq(Byte) /\ Len(a) = w
        /\ \A i \in 1 .. w : a[i] = (Shifted(n, i - 1) % 128) + 128
    <3>1. /\ a \in Seq(Byte) /\ Len(a) = w
          /\ \A i \in 1 .. w : a[i] = (Shifted(low, i - 1) % 128) + 128
      <4>1. low \in Nat /\ w \in Nat
        BY <1>1, <2>1
      <4> QED BY <4>1, MarkedIs
    <3>2. \A i \in 1 .. w : i - 1 \in 0 .. w - 1
      BY <2>1
    <3> HIDE DEF a
    <3> QED BY <2>2, <3>1, <3>2
  <2>6. CASE high < 8
    <3>1. a = Marked(n, w)
      <4>1. /\ Marked(n, w) \in Seq(Byte) /\ Len(Marked(n, w)) = w
            /\ \A i \in 1 .. w : Marked(n, w)[i] = (Shifted(n, i - 1) % 128) + 128
        BY <2>1, MarkedIs
      <4> HIDE DEF a
      <4> QED BY <2>5, <4>1, SeqEqual
    <3>2. Varint(n) = Marked(n, w) \o <<Shifted(n, w)>>
      <4>1. high # 0 /\ between = Shifted(n, w)
        BY <1>1, <1>4, <2>4, <2>6
      <4> HIDE DEF between
      <4>2. Varint(n) = a \o <<between>>
        BY <1>2, <2>6, <4>1
      <4> QED BY <3>1, <4>1, <4>2
    <3>3. w - 1 \in 0 .. w - 1 /\ w \in Nat
      BY <2>1
    <3>4. Shifted(n, w) < 128 /\ (w > 0 => Shifted(n, w - 1) >= 128)
      BY <2>2, <2>4, <2>6, <3>3
    <3>5. IsForm(Varint(n), n, w)
      BY <3>2, <3>3, <3>4, FormOf
    <3> QED BY <3>3, <3>5
  <2>7. CASE ~ (high < 8)
    <3> DEFINE x == high \div 8
               g == Groups(x)
               b == <<between + 128>>
    <3>1. x \in Nat /\ x = Shifted(n, w + 1)
      <4>1. Shifted(n, w + 1) = Shifted(n, w) \div 128
        BY <2>1, ShiftedIs
      <4> QED BY <1>1, <2>2, <2>3, <4>1
    <3>2. PICK k \in Nat : IsForm(g, x, k)
      BY <3>1, GroupsIs
    <3> DEFINE m == (w + 1) + k
               bg == b \o g
               t == a \o bg
    <3>3. Varint(n) = t
      BY <1>2, <1>4, <2>7
    <3>4. b \in Seq(Byte) /\ Len(b) = 1 /\ b[1] = between + 128
      <4>1. between + 128 \in Byte
        BY <2>4 DEF Byte
      <4> QED BY <4>1, OneByte
    <3>5. /\ g \in Seq(Byte) /\ Len(g) = k + 1
          /\ \A i \in 1 .. k : g[i] = (Shifted(x, i - 1) % 128) + 128
          /\ g[k + 1] = Shifted(x, k) /\ Shifted(x, k) < 128
          /\ k > 0 => Shifted(x, k - 1) >= 128
      BY <3>2 DEF IsForm
    <3>6. \A i \in Nat : Shifted(x, i) = Shifted(n, (w + 1) + i)
      <4>1. w + 1 \in Nat
        BY <2>1
      <4> HIDE DEF x
      <4> QED BY <3>1, <4>1, ShiftedTwice
    <3> HIDE DEF b, g, x, a
    <3>7. /\ bg \in Seq(Byte) /\ Len(bg) = k + 2
          /\ \A i \in 1 .. k + 2 : bg[i] = IF i <= 1 THEN b[i] ELSE g[i - 1]
      <4>1. /\ bg \in Seq(Byte) /\ Len(bg) = Len(b) + Len(g)
            /\ \A i \in 1 .. Len(b) + Len(g) : bg[i] = IF i <= Len(b) THEN b[i] ELSE g[i - Len(b)]
        <5>1. b \in Seq(Byte) /\ g \in Seq(Byte)
          BY <3>4, <3>5
        <5> QED BY <5>1, Joined
      <4>2. 1 + (k + 1) = k + 2
        OBVIOUS
      <4> HIDE DEF bg
      <4> QED BY <3>4, <3>5, <4>1, <4>2
    <3> HIDE DEF bg
    <3>8. /\ t \in Seq(Byte) /\ Len(t) = m + 1
          /\ \A i \in 1 .. m + 1 : t[i] = IF i <= w THEN a[i] ELSE bg[i - w]
      <4>1. /\ t \in Seq(Byte) /\ Len(t) = Len(a) + Len(bg)
            /\ \A i \in 1 .. Len(a) + Len(bg) : t[i] = IF i <= Len(a) THEN a[i] ELSE bg[i - Len(a)]
        <5>1. a \in Seq(Byte) /\ bg \in Seq(Byte)
          BY <2>5, <3>7
        <5> QED BY <5>1, Joined
      <4>2. w + (k + 2) = m + 1
        BY <2>1
      <4> HIDE DEF t, m
      <4> QED BY <2>5, <3>7, <4>1, <4>2
    <3> HIDE DEF t
    <3>9. ASSUME NEW i \in 1 .. m PROVE t[i] = (Shifted(n, i - 1) % 128) + 128
      <4>1. CASE i <= w
        BY <2>1, <2>5, <3>8, <4>1
      <4>2. CASE i = w + 1
        <5>1. t[i] = bg[1]
          BY <2>1, <3>8, <4>2
        <5>2. bg[1] = between + 128
          BY <3>4, <3>7
        <5> QED BY <2>1, <2>4, <4>2, <5>1, <5>2
      <4>3. CASE i > w + 1
        <5> DEFINE j == i - (w + 1)
        <5>1. j \in 1 .. k /\ i - w = j + 1 /\ i - w \in 1 .. k + 2 /\ j - 1 \in Nat
              /\ (w + 1) + (j - 1) = i - 1 /\ i \in 1 .. m + 1 /\ ~ (i <= w) /\ (i - w) - 1 = j /\ ~ (i - w <= 1)
          BY <2>1, <4>3
        <5> HIDE DEF j
        <5>2. t[i] = bg[i - w] /\ bg[i - w] = g[j]
          BY <3>7, <3>8, <5>1
        <5>3. g[j] = (Shifted(x, j - 1) % 128) + 128 /\ Shifted(x, j - 1) = Shifted(n, i - 1)
          BY <3>5, <3>6, <5>1
        <5> QED BY <5>2, <5>3
      <4> QED BY <2>1, <4>1, <4>2, <4>3
    <3>10. t[m + 1] = Shifted(n, m) /\ Shifted(n, m) < 128
      <4>1. m + 1 \in 1 .. m + 1 /\ ~ (m + 1 <= w) /\ (m + 1) - w = k + 2 /\ k + 2 \in 1 .. k + 2 /\ ~ (k + 2 <= 1)
            /\ (k + 2) - 1 = k + 1
        BY <2>1
      <4>2. t[m + 1] = bg[k + 2] /\ bg[k + 2] = g[k + 1]
        BY <3>7, <3>8, <4>1
      <4> QED BY <3>5, <3>6, <4>2
    <3>11. Shifted(n, m - 1) >= 128
      <4>1. CASE k > 0
        <5>1. k - 1 \in Nat /\ (w + 1) + (k - 1) = m - 1
          BY <2>1, <4>1
        <5> QED BY <3>5, <3>6, <4>1, <5>1
      <4>2. CASE k = 0
        <5>1. m - 1 = w
          BY <2>1, <4>2
        <5>2. Shifted(n, w) >= 128
          BY <1>1, <2>2, <2>3, <2>7
        <5> QED BY <5>1, <5>2
      <4> QED BY <4>1, <4>2
    <3>12. m \in Nat
      BY <2>1
    <3> HIDE DEF m
    <3>13. IsForm(t, n, m)
      BY <3>8, <3>9, <3>10, <3>11 DEF IsForm
    <3> QED BY <3>3, <3>12, <3>13
  <2> QED BY <2>6, <2>7
<1>5. high = 0 \/ high > 0
  BY <1>1
<1> QED BY <1>3, <1>4, <1>5

----------------------------------------------------------------------------
(* The decoder reads the numbers that the encoder sends *)

\* The groups of a number, put together again, are the number.
LEMMA GroupedBack ==
    ASSUME NEW n \in Nat, NEW m \in Nat, NEW bs, IsForm(bs, n, m), NEW bits
    PROVE  Grouped(bs, bits) = n % 2 ^ bits
<1>1. /\ bs \in Seq(Byte) /\ Len(bs) = m + 1
      /\ \A i \in 1 .. m : bs[i] = (Shifted(n, i - 1) % 128) + 128
      /\ bs[m + 1] = Shifted(n, m) /\ Shifted(n, m) < 128
  BY DEF IsForm
<1>2. PICK f \in [0 .. Len(bs) -> Nat] :
              /\ f[0] = 0
              /\ \A i \in 1 .. Len(bs) : f[i] = 128 * f[i - 1] + (bs[Len(bs) - i + 1] % 128)
              /\ Grouped(bs, bits) = f[Len(bs)] % 2 ^ bits
  BY <1>1, GroupsAdd
<1> DEFINE k == m + 1
<1>3. k \in Nat /\ Len(bs) = k
  BY <1>1
<1>4. /\ f \in [0 .. k -> Nat] /\ f[0] = 0
      /\ \A i \in 1 .. k : f[i] = 128 * f[i - 1] + (bs[k - i + 1] % 128)
  BY <1>2, <1>3
<1>5. ASSUME NEW i \in 0 .. m PROVE Shifted(n, i) \in Nat /\ bs[i + 1] % 128 = Shifted(n, i) % 128
  <2>1. Shifted(n, i) \in Nat
    <3>1. i \in Nat
      OBVIOUS
    <3> QED BY <3>1, ShiftedIs
  <2>2. CASE i = m
    <3>1. bs[i + 1] = Shifted(n, i)
      BY <1>1, <2>2
    <3> QED BY <3>1
  <2>3. CASE i # m
    <3>1. i + 1 \in 1 .. m /\ (i + 1) - 1 = i
      BY <2>3
    <3>2. bs[i + 1] = (Shifted(n, i) % 128) + 128
      BY <1>1, <3>1
    <3> QED BY <2>1, <3>2
  <2> QED BY <2>1, <2>2, <2>3
<1>6. Shifted(n, k) = 0
  <2>1. Shifted(n, m + 1) = Shifted(n, m) \div 128 /\ Shifted(n, m) \in Nat
    BY ShiftedIs
  <2>2. \A x \in Nat : x < 128 => x \div 128 = 0
    OBVIOUS
  <2> QED BY <1>1, <2>1, <2>2
<1> DEFINE T == {i \in 0 .. k : f[i] # Shifted(n, k - i)}
<1>7. T = {}
  <2> SUFFICES ASSUME T # {} PROVE FALSE
    OBVIOUS
  <2>1. T \in SUBSET Nat
    BY <1>3
  <2>2. PICK i \in T : \A h \in T : i <= h
    BY <2>1, LeastOf
  <2>3. i \in 0 .. k /\ f[i] # Shifted(n, k - i)
    OBVIOUS
  <2>4. i # 0
    <3>1. k - 0 = k
      BY <1>3
    <3> QED BY <1>4, <1>6, <2>3, <3>1
  <2> DEFINE h == i - 1
             j == k - i
  <2>5. h \in 0 .. k /\ h < i /\ i \in 1 .. k /\ j \in 0 .. m /\ k - h = j + 1 /\ k - i + 1 = j + 1 /\ j \in Nat
    BY <1>3, <2>3, <2>4
  <2>6. f[h] = Shifted(n, j + 1)
    BY <2>2, <2>3, <2>5
  <2>7. f[i] = 128 * f[h] + (bs[j + 1] % 128)
    BY <1>4, <2>5
  <2>8. Shifted(n, j + 1) = Shifted(n, j) \div 128
    BY <2>5, ShiftedIs
  <2>9. Shifted(n, j) \in Nat /\ bs[j + 1] % 128 = Shifted(n, j) % 128
    BY <1>5, <2>5
  <2> DEFINE a == Shifted(n, j)
  <2>10. a \in Nat /\ f[i] = 128 * (a \div 128) + (a % 128) /\ f[i] # a
    BY <2>3, <2>6, <2>7, <2>8, <2>9
  <2> HIDE DEF a
  <2>11. 128 * (a \div 128) + (a % 128) = a
    BY <2>10
  <2> QED BY <2>10, <2>11
<1>8. f[k] = Shifted(n, 0)
  <2>1. k \in 0 .. k /\ k - k = 0
    BY <1>3
  <2>2. k \notin T
    BY <1>7
  <2> QED BY <2>1, <2>2
<1> QED BY <1>2, <1>3, <1>8, ShiftedIs

\* No byte of a number within a width is refused as too big for it.
LEMMA NotTooBig ==
    ASSUME NEW n \in Nat, NEW m \in Nat, NEW bs, IsForm(bs, n, m),
           NEW bits \in {IntBits, LongBits}, n < 2 ^ bits,
           NEW here, NEW i \in 1 .. m + 1, here[i] = bs[i]
    PROVE  ~ TooBig(here, i, bits)
<1>1. /\ bs[m + 1] = Shifted(n, m) /\ Shifted(n, m) < 128
      /\ m > 0 => Shifted(n, m - 1) >= 128
  BY DEF IsForm
<1>2. ASSUME NEW q \in Nat, 7 * q <= LongBits, NEW c \in Nat, c < 128, n < c * Many(q)
      PROVE  m <= q /\ (m = q => Shifted(n, m) < c)
  <2>1. \A j \in 0 .. q : Shifted(n, j) < c * Many(q - j)
    BY <1>2, ShiftedBelow
  <2>2. Shifted(n, q) < c
    <3>1. q - q = 0 /\ Many(0) = 1
      BY <1>2, ManyIs
    <3>2. Shifted(n, q) < c * Many(q - q)
      BY <2>1
    <3> QED BY <3>1, <3>2
  <2>3. ASSUME q < m PROVE FALSE
    <3> DEFINE T == {j \in Nat : q + j < m /\ ~ (Shifted(n, q + j) < c)}
    <3>1. T = {}
      <4> SUFFICES ASSUME T # {} PROVE FALSE
        OBVIOUS
      <4>1. T \in SUBSET Nat
        OBVIOUS
      <4>2. PICK j \in T : \A h \in T : j <= h
        BY <4>1, LeastOf
      <4>3. j \in Nat /\ q + j < m /\ ~ (Shifted(n, q + j) < c)
        OBVIOUS
      <4>4. j # 0
        BY <2>2, <4>3
      <4> DEFINE h == j - 1
                 g == q + h
      <4>5. h \in Nat /\ h < j /\ q + h < m /\ g \in Nat /\ g + 1 = q + j
        BY <4>3, <4>4
      <4>6. Shifted(n, g) < c
        BY <4>2, <4>3, <4>5
      <4>7. Shifted(n, g) \in Nat /\ Shifted(n, g + 1) = Shifted(n, g) \div 128
        <5>1. g \in Nat
          BY <4>5
        <5> HIDE DEF g
        <5> QED BY <5>1, ShiftedIs
      <4>8. Shifted(n, g + 1) < c
        <5> HIDE DEF g
        <5> QED BY <1>2, <4>6, <4>7
      <4> QED BY <4>3, <4>5, <4>8
    <3> DEFINE j == (m - 1) - q
    <3>2. j \in Nat /\ q + j < m /\ q + j = m - 1 /\ m > 0 /\ m - 1 \in Nat
      BY <2>3
    <3>3. Shifted(n, m - 1) < c
      <4>1. j \notin T
        BY <3>1
      <4> QED BY <3>2, <4>1
    <3>4. Shifted(n, m - 1) \in Nat
      BY <3>2, ShiftedIs
    <3> QED BY <1>1, <1>2, <3>2, <3>3, <3>4
  <2>4. m <= q
    BY <2>3
  <2> QED BY <2>2, <2>4
<1>3. CASE bits = IntBits
  <2> DEFINE w == IntGroups
  <2>1. w \in Nat \ {0} /\ IntBits = 7 * w + 4 /\ 2 ^ IntBits = 16 * Many(w) /\ 7 * w <= LongBits
    BY WidthsAre, WidthAssumption
  <2> HIDE DEF w
  <2>2. m <= w /\ (m = w => Shifted(n, m) < 16)
    BY <1>2, <1>3, <2>1
  <2>3. ~ (Place(i) >= IntBits)
    BY <2>1, <2>2 DEF Place
  <2>4. ASSUME Place(i) = IntBits - 4 PROVE ~ (here[i] % 128 >= 16)
    <3>1. i = w + 1 /\ m = w
      BY <2>1, <2>2, <2>4 DEF Place
    <3>2. here[i] = Shifted(n, m) /\ Shifted(n, m) \in Nat
      BY <1>1, <3>1, ShiftedIs
    <3> QED BY <2>2, <3>1, <3>2
  <2>5. ~ IntTooBig(here, i)
    BY <2>3, <2>4 DEF IntTooBig
  <2>6. LongBits # IntBits
    BY WidthAssumption
  <2> QED BY <1>3, <2>5, <2>6 DEF TooBig
<1>4. CASE bits = LongBits
  <2> DEFINE w == LongGroups
  <2>1. w \in Nat \ {0} /\ LongBits = 7 * w + 1 /\ 2 ^ LongBits = 2 * Many(w) /\ 7 * w <= LongBits
    BY WidthsAre
  <2> HIDE DEF w
  <2>2. m <= w /\ (m = w => Shifted(n, m) < 2)
    BY <1>2, <1>4, <2>1
  <2>4. ASSUME Place(i) >= LongBits - 1 PROVE ~ (here[i] > 1)
    <3>1. i = w + 1 /\ m = w
      BY <2>1, <2>2, <2>4 DEF Place
    <3>2. here[i] = Shifted(n, m) /\ Shifted(n, m) \in Nat
      BY <1>1, <3>1, ShiftedIs
    <3> QED BY <2>2, <3>1, <3>2
  <2>5. ~ LongTooBig(here, i)
    BY <2>4 DEF LongTooBig
  <2>6. LongBits # IntBits
    BY WidthAssumption
  <2> QED BY <1>4, <2>5, <2>6 DEF TooBig
<1> QED BY <1>3, <1>4

----------------------------------------------------------------------------
(* What is read of what was sent *)

\* The bytes x, of which the sender still owes y, are those of t and g.
Meet(x, y, t, g) ==
    /\ \A i \in 1 .. Len(x) : i <= Len(t) => x[i] = t[i]
    /\ Len(x) < Len(t) => y # <<>>
    /\ Len(t) <= Len(x) => SubSeq(x, 1, Len(t)) = t /\ After(x, Len(t)) \o y = g

\* It is so whenever both are the same together.
LEMMA Aligned ==
    ASSUME NEW x \in Seq(Byte), NEW y \in Seq(Byte), NEW t \in Seq(Byte), NEW g \in Seq(Byte),
           x \o y = t \o g
    PROVE  Meet(x, y, t, g)
<1> DEFINE xy == x \o y
           tg == t \o g
<1>1. /\ xy \in Seq(Byte) /\ Len(xy) = Len(x) + Len(y)
      /\ \A i \in 1 .. Len(x) + Len(y) : xy[i] = IF i <= Len(x) THEN x[i] ELSE y[i - Len(x)]
  BY Joined
<1>2. /\ tg \in Seq(Byte) /\ Len(tg) = Len(t) + Len(g)
      /\ \A i \in 1 .. Len(t) + Len(g) : tg[i] = IF i <= Len(t) THEN t[i] ELSE g[i - Len(t)]
  BY Joined
<1>3. xy = tg
  OBVIOUS
<1>4. Len(x) \in Nat /\ Len(y) \in Nat /\ Len(t) \in Nat /\ Len(g) \in Nat
  OBVIOUS
<1> HIDE DEF xy, tg
<1>5. Len(x) + Len(y) = Len(t) + Len(g)
  BY <1>1, <1>2, <1>3
<1>6. ASSUME NEW i \in 1 .. Len(x), i <= Len(t) PROVE x[i] = t[i]
  <2>1. i \in 1 .. Len(x) + Len(y) /\ i \in 1 .. Len(t) + Len(g) /\ i <= Len(x)
    BY <1>4, <1>6
  <2>2. xy[i] = x[i]
    BY <1>1, <2>1
  <2>3. tg[i] = t[i]
    BY <1>2, <1>6, <2>1
  <2> QED BY <1>3, <2>2, <2>3
<1>7. ASSUME Len(x) < Len(t) PROVE y # <<>>
  <2>1. Len(y) # 0
    BY <1>4, <1>5, <1>7
  <2> QED BY <2>1
<1>8. ASSUME Len(t) <= Len(x) PROVE SubSeq(x, 1, Len(t)) = t /\ After(x, Len(t)) \o y = g
  <2> DEFINE u == SubSeq(x, 1, Len(t))
             a == After(x, Len(t))
             ay == a \o y
  <2>1. u \in Seq(Byte) /\ Len(u) = Len(t) /\ \A i \in 1 .. Len(t) : u[i] = x[i]
    BY <1>4, <1>8
  <2>2. a \in Seq(Byte) /\ Len(a) = Len(x) - Len(t) /\ \A i \in 1 .. Len(x) - Len(t) : a[i] = x[Len(t) + i]
    BY <1>4, <1>8, AfterIs
  <2> HIDE DEF u, a
  <2>3. \A i \in 1 .. Len(u) : u[i] = t[i]
    BY <1>4, <1>6, <1>8, <2>1
  <2>4. u = t
    BY <2>1, <2>3, SeqEqual
  <2>5. /\ ay \in Seq(Byte) /\ Len(ay) = Len(a) + Len(y)
        /\ \A i \in 1 .. Len(a) + Len(y) : ay[i] = IF i <= Len(a) THEN a[i] ELSE y[i - Len(a)]
    BY <2>2, Joined
  <2> HIDE DEF ay
  <2>6. Len(ay) = Len(g)
    BY <1>4, <1>5, <2>2, <2>5
  <2>7. ASSUME NEW i \in 1 .. Len(ay) PROVE ay[i] = g[i]
    <3> DEFINE j == Len(t) + i
    <3>1. /\ j \in 1 .. Len(t) + Len(g) /\ j \in 1 .. Len(x) + Len(y) /\ ~ (j <= Len(t)) /\ j - Len(t) = i
          /\ i \in 1 .. Len(a) + Len(y)
      BY <1>4, <1>5, <2>5, <2>6
    <3>2. tg[j] = g[i]
      BY <1>2, <3>1
    <3>3. xy[j] = IF j <= Len(x) THEN x[j] ELSE y[j - Len(x)]
      BY <1>1, <3>1
    <3>4. ay[i] = IF i <= Len(a) THEN a[i] ELSE y[i - Len(a)]
      BY <2>5, <3>1
    <3>5. CASE j <= Len(x)
      <4>1. i <= Len(a) /\ i \in 1 .. Len(x) - Len(t)
        BY <1>4, <2>2, <3>1, <3>5
      <4>2. a[i] = x[j]
        BY <2>2, <4>1
      <4> QED BY <1>3, <3>2, <3>3, <3>4, <3>5, <4>1, <4>2
    <3>6. CASE ~ (j <= Len(x))
      <4>1. ~ (i <= Len(a)) /\ j - Len(x) = i - Len(a)
        BY <1>4, <2>2, <3>1, <3>6
      <4> QED BY <1>3, <3>2, <3>3, <3>4, <3>6, <4>1
    <3> QED BY <3>5, <3>6
  <2>8. ay = g
    BY <2>5, <2>6, <2>7, SeqEqual
  <2> QED BY <2>4, <2>8 DEF u, a, ay
<1> QED BY <1>6, <1>7, <1>8 DEF Meet

\* r is the stream s behind the bytes t, which say v; or they have not all come.
\* What comes of s is x, and y is what the sender owes of t and g.
Took(s, r, t, v, y, g) ==
    /\ IsStream(r)
    /\ IF r.ok THEN r.val = v /\ r.left = s.left - Len(t) /\ r.inp \o y = g
       ELSE y # <<>>

\* A number that pb_encode_varint sends pb_decode_varint reads as that number, at
\* every width, for every number the width can hold, and takes no byte behind it;
\* it fails only if the sender died inside the number.
THEOREM TakesVarint ==
    ASSUME NEW n \in Nat, NEW bits \in {IntBits, LongBits}, n < 2 ^ bits,
           NEW s, IsStream(s), s.ok, Len(Varint(n)) <= s.left,
           NEW y \in Seq(Byte), NEW g \in Seq(Byte), s.inp \o y = Varint(n) \o g
    PROVE  Took(s, ReadVarint(s, bits), Varint(n), n, y, g)
<1> DEFINE t == Varint(n)
           inn == s.inp
           c == Least(s.left, Len(inn))
           here == SubSeq(inn, 1, c)
           ends == {i \in DOMAIN here : here[i] < 128 \/ TooBig(here, i, bits)}
           last == CHOOSE i \in ends : \A j \in ends : i <= j
           none == [Failed(s) EXCEPT !.inp = SubSeq(@, Len(here) + 1, Len(@)), !.left = 0]
           r == ReadVarint(s, bits)
<1>1. PICK m \in Nat : IsForm(t, n, m)
  BY VarintIs
<1>2. /\ t \in Seq(Byte) /\ Len(t) = m + 1
      /\ \A i \in 1 .. m : t[i] >= 128
      /\ t[m + 1] < 128
  <2>1. \A i \in 1 .. m : Shifted(n, i - 1) \in Nat
    <3>1. \A i \in 1 .. m : i - 1 \in Nat
      OBVIOUS
    <3> QED BY <3>1, ShiftedIs
  <2>2. \A x \in Nat : (x % 128) + 128 >= 128
    OBVIOUS
  <2> HIDE DEF t
  <2> QED BY <1>1, <2>1, <2>2 DEF IsForm
<1>3. s.left \in Nat /\ Len(inn) \in Nat /\ inn \in Seq(Byte) /\ m + 1 <= s.left /\ s.ok
      /\ DOMAIN s = {"ok", "inp", "left", "val"}
  BY <1>2 DEF IsStream
<1>4. c \in Nat /\ c <= s.left /\ c <= Len(inn) /\ (c = s.left \/ c = Len(inn))
  BY <1>3 DEF Least
<1>5. r = IF ends = {} THEN none
          ELSE IF TooBig(here, last, bits) THEN Failed(Past(s, last, 0))
          ELSE Past(s, last, Grouped(SubSeq(here, 1, last), bits))
  BY DEF ReadVarint
<1>6. IsStream(r)
  BY ReadVarintIs
<1> HIDE DEF c
<1>7. here \in Seq(Byte) /\ Len(here) = c /\ DOMAIN here = 1 .. c /\ \A i \in 1 .. c : here[i] = inn[i]
  BY <1>3, <1>4
<1>8. inn \o y = t \o g
  OBVIOUS
<1> HIDE DEF t, inn
<1>9. IF r.ok THEN r.val = n /\ r.left = s.left - Len(t) /\ r.inp \o y = g ELSE y # <<>>
  <2> HIDE DEF here
  <2>1. /\ \A i \in 1 .. Len(inn) : i <= Len(t) => inn[i] = t[i]
        /\ Len(inn) < Len(t) => y # <<>>
        /\ Len(t) <= Len(inn) => SubSeq(inn, 1, Len(t)) = t /\ After(inn, Len(t)) \o y = g
    <3>1. inn \in Seq(Byte) /\ t \in Seq(Byte)
      BY <1>2, <1>3
    <3>2. Meet(inn, y, t, g)
      BY <1>8, <3>1, Aligned
    <3> QED BY <3>2 DEF Meet
  <2>2. \A i \in 1 .. c : i <= m + 1 => here[i] = t[i] /\ i \in 1 .. m + 1
    <3> SUFFICES ASSUME NEW i \in 1 .. c, i <= m + 1 PROVE here[i] = t[i] /\ i \in 1 .. m + 1
      OBVIOUS
    <3>1. i \in 1 .. Len(inn) /\ i \in 1 .. m + 1
      BY <1>3, <1>4
    <3>2. here[i] = inn[i]
      BY <1>7
    <3>3. inn[i] = t[i]
      BY <1>2, <2>1, <3>1
    <3> QED BY <3>1, <3>2, <3>3
  <2>3. \A i \in 1 .. c : i <= m + 1 => ~ TooBig(here, i, bits)
    BY <1>1, <2>2, NotTooBig
  <2>4. \A i \in 1 .. c : i <= m => i \notin ends
    <3> SUFFICES ASSUME NEW i \in 1 .. c, i <= m PROVE i \notin ends
      OBVIOUS
    <3>1. i <= m + 1 /\ i \in 1 .. m
      BY <1>4
    <3>2. here[i] = t[i] /\ t[i] >= 128 /\ ~ TooBig(here, i, bits)
      BY <1>2, <2>2, <2>3, <3>1
    <3>3. t[i] \in Nat
      <4>1. i \in 1 .. Len(t)
        BY <1>2, <3>1
      <4>2. t[i] \in Byte
        BY <1>2, <4>1, ElementOfSeq
      <4> QED BY <4>2, ByteIs
    <3> QED BY <3>2, <3>3
  <2>5. CASE Len(inn) < m + 1
    <3>1. c <= m
      BY <1>3, <1>4, <2>5
    <3>2. ends = {}
      <4>1. \A i \in ends : i \in 1 .. c
        BY <1>7
      <4>2. \A i \in 1 .. c : i <= m
        BY <1>4, <3>1
      <4> HIDE DEF ends
      <4> QED BY <2>4, <4>1, <4>2
    <3>3. r = none
      BY <1>5, <3>2
    <3>4. ~ none.ok
      BY <1>3 DEF Failed
    <3>5. y # <<>>
      BY <1>2, <2>1, <2>5
    <3> HIDE DEF r, none
    <3> QED BY <3>3, <3>4, <3>5
  <2>6. CASE m + 1 <= Len(inn)
    <3> DEFINE k == m + 1
    <3>1. k \in 1 .. c /\ k \in Nat /\ k <= s.left /\ k <= Len(inn)
      BY <1>3, <1>4, <2>6
    <3>2. here[k] = t[k] /\ ~ TooBig(here, k, bits)
      BY <2>2, <2>3, <3>1
    <3>3. k \in ends
      BY <1>2, <1>7, <3>1, <3>2
    <3>4. \A i \in ends : k <= i
      <4> SUFFICES ASSUME NEW i \in ends PROVE k <= i
        OBVIOUS
      <4>1. i \in 1 .. c
        BY <1>7
      <4>2. ~ (i <= m)
        BY <2>4, <4>1
      <4> QED BY <4>1, <4>2
    <3>5. ends \in SUBSET Nat
      BY <1>4, <1>7
    <3>6. last = k
      <4> HIDE DEF ends, k
      <4>1. last \in ends /\ \A j \in ends : last <= j
        BY <3>3, <3>4
      <4> HIDE DEF last
      <4>2. last <= k /\ k <= last /\ last \in Nat
        BY <3>3, <3>4, <3>5, <4>1
      <4> QED BY <3>1, <4>2
    <3> DEFINE u == SubSeq(here, 1, k)
               v == Grouped(u, bits)
    <3>7. r = Past(s, k, v)
      <4> HIDE DEF ends, k, last, r
      <4> QED BY <1>5, <3>2, <3>3, <3>6
    <3>8. u = t
      <4>1. u \in Seq(Byte) /\ Len(u) = k /\ \A i \in 1 .. k : u[i] = here[i]
        BY <1>4, <1>7, <3>1
      <4>2. \A i \in 1 .. k : i \in 1 .. c /\ i <= m + 1
        BY <1>4, <3>1
      <4> HIDE DEF u
      <4>3. \A i \in 1 .. k : u[i] = t[i]
        BY <2>2, <4>1, <4>2
      <4> QED BY <1>2, <4>1, <4>3, SeqEqual
    <3>9. v = n
      <4>1. v = n % 2 ^ bits
        BY <1>1, <3>8, GroupedBack
      <4>2. 2 ^ bits \in Nat \ {0}
        BY WidthAssumption, PowerAssumption
      <4> DEFINE d == 2 ^ bits
      <4>3. d \in Nat \ {0} /\ n < d
        BY <4>2
      <4> HIDE DEF d
      <4>4. n % d = n
        <5>1. \A b \in Nat \ {0} : \A a \in Nat : a < b => a % b = a
          OBVIOUS
        <5> QED BY <4>3, <5>1
      <4> QED BY <4>1, <4>4 DEF d
    <3> HIDE DEF v, u, k, r
    <3>10. /\ Past(s, k, v).ok = s.ok
           /\ Past(s, k, v).left = s.left - k
           /\ Past(s, k, v).val = v
      BY <1>3 DEF Past
    <3>11. Past(s, k, v).inp = After(inn, k)
      BY <1>3 DEF Past, After, inn
    <3>12. Len(t) = k
      BY <1>2 DEF k
    <3>13. After(inn, k) \o y = g
      BY <2>1, <3>1, <3>12
    <3> QED BY <1>3, <3>7, <3>9, <3>10, <3>11, <3>12, <3>13
  <2>7. Len(inn) < m + 1 \/ m + 1 <= Len(inn)
    BY <1>3
  <2> QED BY <2>5, <2>6, <2>7
<1> QED BY <1>6, <1>9 DEF Took, t

\* It does not matter which two of three sequences are joined first.
LEMMA JoinedTwice ==
    ASSUME NEW a \in Seq(Byte), NEW b \in Seq(Byte), NEW c \in Seq(Byte)
    PROVE  (a \o b) \o c = a \o (b \o c)
BY ConcatAssociative

\* Bytes that were sent are read back (pb_read).
LEMMA TookBytes ==
    ASSUME NEW v \in Seq(Byte), NEW n, n = Len(v),
           NEW s, IsStream(s), s.ok, n <= s.left,
           NEW y \in Seq(Byte), NEW g \in Seq(Byte), s.inp \o y = v \o g
    PROVE  Took(s, ReadBytes(s, n), v, v, y, g)
<1> DEFINE r == ReadBytes(s, n)
           inn == s.inp
<1>1. /\ n \in Nat /\ inn \in Seq(Byte) /\ s.left \in Nat /\ Len(inn) \in Nat
      /\ DOMAIN s = {"ok", "inp", "left", "val"}
  BY DEF IsStream
<1>2. IsStream(r)
  BY <1>1, ReadBytesIs
<1>3. r = IF n = 0 THEN [s EXCEPT !.val = <<>>]
          ELSE IF Len(inn) < n THEN Starved(s) ELSE Past(s, n, SubSeq(inn, 1, n))
  BY <1>1 DEF ReadBytes
<1>4. /\ Len(inn) < n => y # <<>>
      /\ n <= Len(inn) => SubSeq(inn, 1, n) = v /\ After(inn, n) \o y = g
  <2>1. inn \o y = v \o g /\ inn \in Seq(Byte)
    BY <1>1
  <2> HIDE DEF inn, r
  <2>2. /\ Len(inn) < Len(v) => y # <<>>
        /\ Len(v) <= Len(inn) => SubSeq(inn, 1, Len(v)) = v /\ After(inn, Len(v)) \o y = g
    <3>1. Meet(inn, y, v, g)
      BY <2>1, Aligned
    <3> QED BY <3>1 DEF Meet
  <2> QED BY <2>2
<1> HIDE DEF r
<1>5. CASE n = 0
  <2>1. v = <<>> /\ n <= Len(inn)
    <3>1. v = <<>>
      <4>1. Len(v) = 0
        BY <1>5
      <4> QED BY <4>1, EmptySeq
    <3> QED BY <1>1, <1>5, <3>1
  <2>2. After(inn, 0) = inn
    BY <1>1, AfterNothing
  <2>3. inn \o y = g
    BY <1>4, <1>5, <2>1, <2>2
  <2>4. r = [s EXCEPT !.val = <<>>]
    BY <1>3, <1>5
  <2>5. r.ok /\ r.val = <<>> /\ r.left = s.left /\ r.inp = inn
    BY <1>1, <2>4
  <2> HIDE DEF inn
  <2>6. s.left - Len(v) = s.left
    BY <1>1, <1>5
  <2> QED BY <1>2, <2>1, <2>3, <2>5, <2>6 DEF Took, r
<1>6. CASE n # 0 /\ Len(inn) < n
  <2>1. r = Starved(s)
    BY <1>3, <1>6
  <2>2. ~ r.ok
    BY <2>1, StarvedIs
  <2> QED BY <1>2, <1>4, <1>6, <2>2 DEF Took, r
<1>7. CASE n # 0 /\ ~ (Len(inn) < n)
  <2> DEFINE u == SubSeq(inn, 1, n)
  <2>1. n <= Len(inn)
    BY <1>1, <1>7
  <2>2. u = v /\ After(inn, n) \o y = g
    BY <1>4, <2>1
  <2>3. r = Past(s, n, u)
    BY <1>3, <1>7
  <2> HIDE DEF u
  <2>4. r.ok /\ r.val = v /\ r.left = s.left - n /\ r.inp = After(inn, n)
    BY <1>1, <2>2, <2>3 DEF Past, After
  <2> QED BY <1>2, <2>2, <2>4 DEF Took, r
<1> QED BY <1>5, <1>6, <1>7

\* What is read goes on behind what was read.
LEMMA TookBoth ==
    ASSUME NEW s, IsStream(s), NEW t1 \in Seq(Byte), NEW t2 \in Seq(Byte),
           NEW y \in Seq(Byte), NEW g \in Seq(Byte), NEW v1, NEW v2,
           NEW r, Took(s, r, t1, v1, y, t2 \o g), r.ok,
           NEW q, Took(r, q, t2, v2, y, g)
    PROVE  Took(s, q, t1 \o t2, v2, y, g)
<1>1. Len(t1 \o t2) = Len(t1) + Len(t2) /\ Len(t1) \in Nat /\ Len(t2) \in Nat
  BY Joined
<1>2. s.left \in Nat
  BY DEF IsStream
<1>3. s.left - Len(t1 \o t2) = (s.left - Len(t1)) - Len(t2)
  BY <1>1, <1>2
<1> QED BY <1>3 DEF Took

\* A number is sent as one byte or more.
LEMMA VarintBytes ==
    ASSUME NEW n \in Nat
    PROVE  Varint(n) \in Seq(Byte) /\ Len(Varint(n)) \in Nat \ {0}
<1>1. PICK m \in Nat : IsForm(Varint(n), n, m)
  BY VarintIs
<1> QED BY <1>1 DEF IsForm

\* What is sent behind its length.
LEMMA LengthFirstIs ==
    ASSUME NEW b \in Seq(Byte)
    PROVE  /\ LengthFirst(b) = Varint(Len(b)) \o b
           /\ LengthFirst(b) \in Seq(Byte)
           /\ Len(LengthFirst(b)) = Len(Varint(Len(b))) + Len(b)
           /\ Varint(Len(b)) \in Seq(Byte) /\ Len(Varint(Len(b))) \in Nat \ {0}
           /\ Len(b) \in Nat /\ Len(b) < Len(LengthFirst(b))
<1>1. Len(b) \in Nat
  OBVIOUS
<1>2. Varint(Len(b)) \in Seq(Byte) /\ Len(Varint(Len(b))) \in Nat \ {0}
  BY <1>1, VarintBytes
<1> DEFINE l == Varint(Len(b))
<1> HIDE DEF l
<1>3. l \o b \in Seq(Byte) /\ Len(l \o b) = Len(l) + Len(b)
  BY <1>2, Joined DEF l
<1> QED BY <1>1, <1>2, <1>3 DEF LengthFirst, l

\* A length that was sent is read.
LEMMA TookLength ==
    ASSUME NEW b \in Seq(Byte), Len(b) < 2 ^ IntBits,
           NEW s, IsStream(s), s.ok, Len(Varint(Len(b))) <= s.left,
           NEW y \in Seq(Byte), NEW g \in Seq(Byte), s.inp \o y = LengthFirst(b) \o g
    PROVE  Took(s, ReadLength(s), Varint(Len(b)), Len(b), y, b \o g)
<1> DEFINE l == Varint(Len(b))
<1>1. Len(b) \in Nat /\ l \in Seq(Byte) /\ LengthFirst(b) = l \o b
  BY LengthFirstIs
<1> HIDE DEF l
<1>2. (l \o b) \o g = l \o (b \o g) /\ b \o g \in Seq(Byte)
  <2>1. b \o g \in Seq(Byte)
    BY Joined
  <2>2. l \in Seq(Byte)
    BY <1>1
  <2>3. (l \o b) \o g = l \o (b \o g)
    BY <2>2, JoinedTwice
  <2> QED BY <2>1, <2>3
<1>3. s.inp \o y = l \o (b \o g)
  BY <1>1, <1>2
<1>4. Took(s, ReadVarint(s, IntBits), l, Len(b), y, b \o g)
  BY <1>1, <1>2, <1>3, TakesVarint DEF l
<1> QED BY <1>4 DEF ReadLength, l

----------------------------------------------------------------------------
(* Numbers with a sign *)

\* What is left of a number that lost a multiple of the width.
LEMMA Remainder ==
    ASSUME NEW d \in Nat \ {0}, NEW a \in Nat, a < d, NEW k \in Nat
    PROVE  (a + k * d) % d = a
<1> DEFINE n == a + k * d
           q == n \div d
           r == n % d
<1>1. k * d \in Nat /\ n \in Nat
  OBVIOUS
<1> HIDE DEF n
<1>2. q \in Nat /\ r \in Nat /\ r < d /\ n = q * d + r
  BY <1>1
<1> HIDE DEF q, r
<1>3. a + k * d = q * d + r
  BY <1>2 DEF n
<1>4. ASSUME q < k PROVE FALSE
  <2>1. PICK e \in Nat : k = q + 1 + e
    <3>1. k - q - 1 \in Nat /\ k = q + 1 + (k - q - 1)
      BY <1>2, <1>4
    <3> QED BY <3>1
  <2>2. k * d = q * d + d + e * d /\ e * d \in Nat /\ q * d \in Nat
    BY <1>2, <2>1
  <2> QED BY <1>2, <1>3, <2>2
<1>5. ASSUME k < q PROVE FALSE
  <2>1. PICK e \in Nat : q = k + 1 + e
    <3>1. q - k - 1 \in Nat /\ q = k + 1 + (q - k - 1)
      BY <1>2, <1>5
    <3> QED BY <3>1
  <2>2. q * d = k * d + d + e * d /\ e * d \in Nat /\ k * d \in Nat
    BY <1>2, <2>1
  <2> QED BY <1>2, <1>3, <2>2
<1>6. q = k
  BY <1>2, <1>4, <1>5
<1>7. r = a
  <2>1. k * d \in Nat
    OBVIOUS
  <2> DEFINE e == k * d
  <2>2. e \in Nat /\ a + e = e + r
    BY <1>3, <1>6, <2>1
  <2> HIDE DEF e
  <2> QED BY <1>2, <2>2
<1> QED BY <1>7 DEF r, n

\* Half of the numbers of a width are negative; those of the long are so many
\* times those of the int32.
LEMMA Widths ==
    ASSUME NEW bits \in {IntBits, LongBits}
    PROVE  \E p \in Nat \ {0}, q \in Nat \ {0} :
              2 ^ (bits - 1) = p /\ 2 ^ bits = 2 * p /\ 2 ^ LongBits = q * (2 * p)
<1>1. bits \in Nat /\ bits > 0 /\ bits <= LongBits /\ LongBits \in Nat
  BY WidthAssumption
<1> DEFINE a == bits - 1
           b == LongBits - bits
<1>2. a \in 0 .. LongBits /\ 1 \in 0 .. LongBits - a /\ a + 1 = bits
      /\ b \in 0 .. LongBits /\ bits \in 0 .. LongBits - b /\ b + bits = LongBits
  BY <1>1
<1> HIDE DEF a, b
<1>3. 2 ^ a \in Nat \ {0} /\ 2 ^ (a + 1) = 2 ^ a * 2 ^ 1 /\ 2 ^ 1 = 2
  BY <1>2, PowerAssumption
<1>4. 2 ^ b \in Nat \ {0} /\ 2 ^ (b + bits) = 2 ^ b * 2 ^ bits
  BY <1>2, PowerAssumption
<1>5. 2 ^ a * 2 = 2 * 2 ^ a
  BY <1>3
<1>6. 2 ^ bits = 2 * 2 ^ a
  BY <1>2, <1>3, <1>5
<1>7. 2 ^ LongBits = 2 ^ b * (2 * 2 ^ a)
  BY <1>2, <1>4, <1>6
<1> QED BY <1>3, <1>4, <1>6, <1>7 DEF a

\* A number with a sign comes back from the long it was extended to.
LEMMA SignedIs ==
    ASSUME NEW bits \in {IntBits, LongBits}, NEW v \in Numbers(bits)
    PROVE  /\ Unsigned(v) \in Nat /\ Unsigned(v) < 2 ^ LongBits
           /\ Signed(Unsigned(v) % 2 ^ bits, bits) = v
<1>1. PICK p \in Nat \ {0}, q \in Nat \ {0} :
         2 ^ (bits - 1) = p /\ 2 ^ bits = 2 * p /\ 2 ^ LongBits = q * (2 * p)
  BY Widths
<1>2. v \in Int /\ -p <= v /\ v < p
  BY <1>1 DEF Numbers
<1> DEFINE d == 2 * p
<1>3. d \in Nat \ {0} /\ p < d
  OBVIOUS
<1>4. PICK k \in Nat : q * d = k * d + d /\ k * d \in Nat
  <2>1. q - 1 \in Nat /\ q = (q - 1) + 1
    OBVIOUS
  <2>2. \A k \in Nat : (k + 1) * d = k * d + d /\ k * d \in Nat
    BY <1>3
  <2> QED BY <2>1, <2>2
<1>5. /\ Unsigned(v) = IF v < 0 THEN v + q * d ELSE v
      /\ Signed(Unsigned(v) % 2 ^ bits, bits) =
            IF Unsigned(v) % d >= p THEN (Unsigned(v) % d) - d ELSE Unsigned(v) % d
  BY <1>1 DEF Unsigned, Signed
<1>6. CASE v < 0
  <2> DEFINE a == v + d
             n == a + k * d
  <2>1. a \in Nat /\ a < d /\ a >= p
    BY <1>2, <1>6
  <2>2. Unsigned(v) = n /\ n \in Nat /\ n < q * d
    <3> DEFINE e == k * d
    <3>1. e \in Nat /\ q * d = e + d
      BY <1>4
    <3> HIDE DEF e
    <3>2. v + (e + d) = a + e /\ a + e \in Nat /\ a + e < e + d
      BY <1>2, <1>3, <2>1, <3>1
    <3> QED BY <1>5, <1>6, <3>1, <3>2 DEF e
  <2>3. n % d = a
    <3> HIDE DEF a, d
    <3> QED BY <1>3, <2>1, Remainder
  <2>4. a - d = v
    BY <1>2
  <2> HIDE DEF n, a, d
  <2> QED BY <1>1, <1>5, <2>1, <2>2, <2>3, <2>4 DEF d
<1>7. CASE ~ (v < 0)
  <2>1. v \in Nat /\ v < d /\ v < p
    BY <1>2, <1>7
  <2>2. v % d = v
    BY <1>3, <2>1
  <2>3. v < q * d
    BY <1>3, <1>4, <2>1
  <2> HIDE DEF d
  <2> QED BY <1>1, <1>5, <1>7, <2>1, <2>2, <2>3 DEF d
<1> QED BY <1>6, <1>7

\* An int32 or int64 that was sent is read back (pb_dec_varint).
LEMMA TookNumber ==
    ASSUME NEW bits \in {IntBits, LongBits}, NEW v \in Numbers(bits),
           NEW s, IsStream(s), s.ok, Len(Varint(Unsigned(v))) <= s.left,
           NEW y \in Seq(Byte), NEW g \in Seq(Byte), s.inp \o y = Varint(Unsigned(v)) \o g
    PROVE  Took(s, ReadNumber(s, bits), Varint(Unsigned(v)), v, y, g)
<1> DEFINE n == Unsigned(v)
           r == ReadVarint(s, LongBits)
           q == ReadNumber(s, bits)
<1>1. n \in Nat /\ n < 2 ^ LongBits /\ Signed(n % 2 ^ bits, bits) = v
  BY SignedIs
<1> HIDE DEF n
<1>2. Took(s, r, Varint(n), n, y, g)
  BY <1>1, TakesVarint DEF n
<1>3. q = IF r.ok THEN [r EXCEPT !.val = Signed(@ % 2 ^ bits, bits)] ELSE r
  BY DEF ReadNumber
<1> HIDE DEF r, q
<1>4. CASE ~ r.ok
  BY <1>2, <1>3, <1>4 DEF Took, q, n
<1>5. CASE r.ok
  <2>1. IsStream(r) /\ r.val = n /\ r.left = s.left - Len(Varint(n)) /\ r.inp \o y = g
    BY <1>2, <1>5 DEF Took
  <2>2. q = [r EXCEPT !.val = v]
    BY <1>1, <1>3, <1>5, <2>1
  <2>3. IsStream(q) /\ q.ok /\ q.val = v /\ q.left = r.left /\ q.inp = r.inp
    BY <1>5, <2>1, <2>2 DEF IsStream
  <2>4. Took(s, q, Varint(n), v, y, g)
    BY <2>1, <2>3 DEF Took
  <2> QED BY <2>4 DEF q, n
<1> QED BY <1>4, <1>5

\* A string that was sent is read back (pb_dec_string).
LEMMA TookString ==
    ASSUME NEW v \in Strings, Len(v) < 2 ^ IntBits,
           NEW s, IsStream(s), s.ok, Len(LengthFirst(v)) <= s.left,
           NEW y \in Seq(Byte), NEW g \in Seq(Byte), s.inp \o y = LengthFirst(v) \o g
    PROVE  Took(s, ReadString(s), LengthFirst(v), v, y, g)
<1> DEFINE l == Varint(Len(v))
           size == ReadLength(s)
           q == ReadString(s)
<1>1. /\ v \in Seq(Byte) /\ Len(v) \in Nat /\ Len(v) < StrSize
      /\ LengthFirst(v) = l \o v /\ l \in Seq(Byte) /\ Len(l) \in Nat
      /\ Len(LengthFirst(v)) = Len(l) + Len(v)
  BY LengthFirstIs DEF Strings, StringFits
<1> HIDE DEF l
<1>2. s.left \in Nat /\ Len(l) <= s.left
  BY <1>1 DEF IsStream
<1>3. Took(s, size, l, Len(v), y, v \o g)
  BY <1>1, <1>2, TookLength DEF l
<1>4. q = IF ~ size.ok \/ TooLong(size.val) THEN Failed(size) ELSE ReadBytes(size, size.val)
  BY DEF ReadString
<1> HIDE DEF size, q
<1>5. CASE ~ size.ok
  <2>1. q = Failed(size) /\ IsStream(size) /\ y # <<>>
    BY <1>3, <1>4, <1>5 DEF Took
  <2>2. IsStream(q) /\ ~ q.ok
    BY <2>1, FailedIs
  <2> QED BY <2>1, <2>2 DEF Took, q
<1>6. CASE size.ok
  <2>1. IsStream(size) /\ size.val = Len(v) /\ size.left = s.left - Len(l) /\ size.inp \o y = v \o g
    BY <1>3, <1>6 DEF Took
  <2>2. ~ TooLong(Len(v))
    BY <1>1, WidthAssumption DEF TooLong
  <2>3. q = ReadBytes(size, Len(v))
    BY <1>4, <1>6, <2>1, <2>2
  <2>4. Len(v) <= size.left
    BY <1>1, <1>2, <2>1
  <2>5. Took(size, q, v, v, y, g)
    BY <1>1, <1>6, <2>1, <2>3, <2>4, TookBytes
  <2>6. Took(s, q, l \o v, v, y, g)
    BY <1>1, <1>3, <1>6, <2>5, TookBoth
  <2> QED BY <1>1, <2>6 DEF q
<1> QED BY <1>5, <1>6

\* So is every scalar.
LEMMA TookScalar ==
    ASSUME NEW type \in {"int32", "int64", "float", "string"}, NEW v \in ValuesOf(type),
           Len(Scalar(type, v)) < 2 ^ IntBits,
           NEW s, IsStream(s), s.ok, Len(Scalar(type, v)) <= s.left,
           NEW y \in Seq(Byte), NEW g \in Seq(Byte), s.inp \o y = Scalar(type, v) \o g
    PROVE  Took(s, ReadScalar(s, type), Scalar(type, v), v, y, g)
<1>1. CASE type = "int32"
  <2>1. v \in Numbers(IntBits) /\ Scalar(type, v) = Varint(Unsigned(v))
    BY <1>1 DEF ValuesOf, Scalar
  <2>2. ReadScalar(s, type) = ReadNumber(s, IntBits)
    BY <1>1 DEF ReadScalar
  <2> QED BY <2>1, <2>2, TookNumber
<1>2. CASE type = "int64"
  <2>1. v \in Numbers(LongBits) /\ Scalar(type, v) = Varint(Unsigned(v))
    BY <1>2 DEF ValuesOf, Scalar
  <2>2. ReadScalar(s, type) = ReadNumber(s, LongBits)
    BY <1>2 DEF ReadScalar
  <2> QED BY <2>1, <2>2, TookNumber
<1>3. CASE type = "float"
  <2>1. v \in Floats /\ Scalar(type, v) = v
    BY <1>3 DEF ValuesOf, Scalar
  <2>2. ReadScalar(s, type) = ReadBytes(s, 4)
    BY <1>3 DEF ReadScalar
  <2>3. v \in Seq(Byte) /\ Len(v) = 4
    <3>1. v \in [1 .. 4 -> Byte] /\ 4 \in Nat
      BY <2>1 DEF Floats
    <3>2. v \in Seq(Byte) /\ DOMAIN v = 1 .. 4
      BY <3>1, SeqDef
    <3>3. DOMAIN v = 1 .. Len(v) /\ Len(v) \in Nat
      BY <3>2, LenProperties
    <3> QED BY <3>2, <3>3
  <2>4. 4 <= s.left
    BY <2>1, <2>3
  <2> QED BY <2>1, <2>2, <2>3, <2>4, TookBytes
<1>4. CASE type = "string"
  <2>1. v \in Strings /\ Scalar(type, v) = LengthFirst(v)
    BY <1>4 DEF ValuesOf, Scalar
  <2>2. ReadScalar(s, type) = ReadString(s)
    BY <1>4 DEF ReadScalar
  <2>3. Len(v) < 2 ^ IntBits
    <3>1. v \in Seq(Byte)
      BY <2>1 DEF Strings
    <3>2. Len(v) < Len(LengthFirst(v)) /\ Len(v) \in Nat /\ Len(LengthFirst(v)) \in Nat
      BY <3>1, LengthFirstIs
    <3> QED BY <2>1, <3>2, IntRange
  <2> QED BY <2>1, <2>2, <2>3, TookString
<1> QED BY <1>1, <1>2, <1>3, <1>4

----------------------------------------------------------------------------
(* Sequences that are put one behind the other *)

\* The sequences up to the i-th, joined, are those before it and itself.
LEMMA Flattened ==
    ASSUME NEW S, NEW seqs \in Seq(Seq(S))
    PROVE  \E f \in [0 .. Len(seqs) -> Seq(S)] :
              /\ f[0] = <<>>
              /\ \A i \in 1 .. Len(seqs) : f[i] = f[i - 1] \o seqs[i]
              /\ FlattenSeq(seqs) = f[Len(seqs)]
<1> DEFINE n == Len(seqs)
           step == [i \in 1 .. n |-> [x \in Seq(S) |-> x \o seqs[i]]]
<1>1. n \in Nat /\ \A i \in 1 .. n : seqs[i] \in Seq(S)
  OBVIOUS
<1>2. step \in [1 .. n -> [Seq(S) -> Seq(S)]]
  <2>1. ASSUME NEW i \in 1 .. n, NEW x \in Seq(S) PROVE x \o seqs[i] \in Seq(S)
    <3>1. seqs[i] \in Seq(S)
      BY <1>1
    <3> QED BY <3>1, ConcatProperties
  <2> QED BY <2>1
<1>3. \A i \in 1 .. n : \A x \in Seq(S) : step[i][x] = x \o seqs[i]
  OBVIOUS
<1>4. <<>> \in Seq(S)
  OBVIOUS
<1> HIDE DEF n, step
<1>5. PICK f : Recursive(f, Seq(S), <<>>, step, n)
  <2>1. \A k \in 0 .. n : \E f : Recursive(f, Seq(S), <<>>, step, k)
    BY <1>1, <1>2, <1>4, RecursionExists
  <2> QED BY <1>1, <2>1
<1>6. f \in [0 .. n -> Seq(S)] /\ f[0] = <<>> /\ \A i \in 1 .. n : f[i] = f[i - 1] \o seqs[i]
  <2>1. ASSUME NEW i \in 1 .. n PROVE f[i] = f[i - 1] \o seqs[i]
    <3>1. i - 1 \in 0 .. n
      BY <1>1
    <3>2. f[i - 1] \in Seq(S)
      BY <1>5, <3>1 DEF Recursive
    <3>3. f[i] = step[i][f[i - 1]]
      BY <1>5 DEF Recursive
    <3> QED BY <1>3, <3>2, <3>3
  <2> QED BY <1>5, <2>1 DEF Recursive
<1>7. FlattenSeq(seqs) = f[n]
  <2>1. CASE n = 0
    <3>1. FlattenSeq(seqs) = seqs
      BY <2>1 DEF FlattenSeq, n
    <3>2. seqs = <<>>
      <4>1. Len(seqs) = 0
        BY <2>1 DEF n
      <4> QED BY <4>1, EmptySeq
    <3> QED BY <1>6, <2>1, <3>1, <3>2
  <2>3. n # 0 => f[1] = seqs[1]
    <3> SUFFICES ASSUME n # 0 PROVE f[1] = seqs[1]
      OBVIOUS
    <3>1. 1 \in 1 .. n /\ 1 - 1 = 0
      BY <1>1
    <3>2. f[1] = f[0] \o seqs[1] /\ seqs[1] \in Seq(S)
      BY <1>1, <1>6, <3>1
    <3>3. <<>> \o seqs[1] = seqs[1]
      BY <3>2, ConcatEmptySeq
    <3> QED BY <1>6, <3>2, <3>3
  <2>2. CASE n # 0
    <3> DEFINE At(h, i) == IF i = 1 THEN seqs[i] ELSE h[i - 1] \o seqs[i]
               Is(h) == h = [i \in 1 .. n |-> At(h, i)]
               all == CHOOSE h : Is(h)
               g == [i \in 1 .. n |-> f[i]]
    <3>1. ASSUME NEW i \in 1 .. n PROVE g[i] = At(g, i)
      <4>1. CASE i = 1
        <5>1. f[i] = seqs[i]
          BY <2>2, <2>3, <4>1
        <5> QED BY <4>1, <5>1
      <4>2. CASE i # 1
        <5>1. i - 1 \in 1 .. n
          BY <1>1, <4>2
        <5> QED BY <1>6, <4>2, <5>1
      <4> QED BY <4>1, <4>2
    <3>2. Is(g)
      BY <3>1
    <3>3. Is(all)
      <4> HIDE DEF Is
      <4> QED BY <3>2
    <3>4. \A i \in 1 .. n : all[i] = At(all, i)
      BY <3>3
    <3>5. FlattenSeq(seqs) = all[n]
      BY <2>2 DEF FlattenSeq, n
    <3> HIDE DEF all, g, Is
    <3> DEFINE T == {i \in 1 .. n : all[i] # f[i]}
    <3>6. T = {}
      <4> SUFFICES ASSUME T # {} PROVE FALSE
        OBVIOUS
      <4>1. T \in SUBSET Nat
        BY <1>1
      <4>2. PICK i \in T : \A j \in T : i <= j
        BY <4>1, LeastOf
      <4>3. i \in 1 .. n /\ all[i] # f[i]
        OBVIOUS
      <4>4. CASE i = 1
        <5>1. f[i] = seqs[i]
          BY <2>2, <2>3, <4>4
        <5>2. all[i] = seqs[i]
          BY <3>4, <4>3, <4>4
        <5> QED BY <4>3, <5>1, <5>2
      <4>5. CASE i # 1
        <5>1. i - 1 \in 1 .. n /\ i - 1 < i
          BY <1>1, <4>3, <4>5
        <5>2. all[i - 1] = f[i - 1]
          BY <4>2, <4>3, <5>1
        <5>3. all[i] = all[i - 1] \o seqs[i]
          BY <3>4, <4>3, <4>5
        <5> QED BY <1>6, <4>3, <5>2, <5>3
      <4> QED BY <4>4, <4>5
    <3>7. n \in 1 .. n
      BY <1>1, <2>2
    <3> QED BY <3>5, <3>6, <3>7
  <2> QED BY <2>1, <2>2
<1> QED BY <1>6, <1>7 DEF n

\* What is left of the flattened sequences behind each of them.
IsRest(r, seqs) ==
    /\ r \in [0 .. Len(seqs) -> Seq(Byte)]
    /\ r[Len(seqs)] = <<>>
    /\ \A k \in 1 .. Len(seqs) : r[k - 1] = seqs[k] \o r[k]
    /\ r[0] = FlattenSeq(seqs)
RestOf(seqs) == CHOOSE r : IsRest(r, seqs)

\* There is what follows each of a list of sequences.
LEMMA RestOfIs ==
    ASSUME NEW seqs \in Seq(Seq(Byte))
    PROVE  IsRest(RestOf(seqs), seqs)
<1> DEFINE n == Len(seqs)
           S == Seq(Byte)
           step == [i \in 1 .. n |-> [x \in S |-> seqs[n - i + 1] \o x]]
<1>1. n \in Nat /\ \A i \in 1 .. n : seqs[i] \in S
  OBVIOUS
<1>2. step \in [1 .. n -> [S -> S]]
  <2>1. ASSUME NEW i \in 1 .. n, NEW x \in S PROVE seqs[n - i + 1] \o x \in S
    <3>1. n - i + 1 \in 1 .. n
      BY <1>1
    <3>2. seqs[n - i + 1] \in S
      BY <1>1, <3>1
    <3> QED BY <3>2, Joined
  <2> QED BY <2>1
<1>3. \A i \in 1 .. n : \A x \in S : step[i][x] = seqs[n - i + 1] \o x
  OBVIOUS
<1>4. <<>> \in S
  OBVIOUS
<1>5. PICK h \in [0 .. n -> S] :
              /\ h[0] = <<>>
              /\ \A i \in 1 .. n : h[i] = h[i - 1] \o seqs[i]
              /\ FlattenSeq(seqs) = h[n]
  BY Flattened
<1> HIDE DEF n, step, S
<1>6. PICK f : Recursive(f, S, <<>>, step, n)
  <2>1. \A k \in 0 .. n : \E f : Recursive(f, S, <<>>, step, k)
    BY <1>1, <1>2, <1>4, RecursionExists
  <2> QED BY <1>1, <2>1
<1>7. f \in [0 .. n -> S] /\ f[0] = <<>> /\ \A i \in 1 .. n : f[i] = seqs[n - i + 1] \o f[i - 1]
  <2>1. ASSUME NEW i \in 1 .. n PROVE f[i] = seqs[n - i + 1] \o f[i - 1]
    <3>1. i - 1 \in 0 .. n
      BY <1>1
    <3>2. f[i - 1] \in S
      BY <1>6, <3>1 DEF Recursive
    <3>3. f[i] = step[i][f[i - 1]]
      BY <1>6 DEF Recursive
    <3> QED BY <1>3, <3>2, <3>3
  <2> QED BY <1>6, <2>1 DEF Recursive
<1> DEFINE r == [k \in 0 .. n |-> f[n - k]]
<1>8. r \in [0 .. n -> S] /\ r[n] = <<>>
  <2>1. \A k \in 0 .. n : n - k \in 0 .. n
    BY <1>1
  <2>2. n - n = 0 /\ n \in 0 .. n
    BY <1>1
  <2> QED BY <1>7, <2>1, <2>2
<1>9. \A k \in 1 .. n : r[k - 1] = seqs[k] \o r[k]
  <2> SUFFICES ASSUME NEW k \in 1 .. n PROVE r[k - 1] = seqs[k] \o r[k]
    OBVIOUS
  <2> DEFINE i == n - (k - 1)
  <2>1. i \in 1 .. n /\ i - 1 = n - k /\ n - i + 1 = k /\ k - 1 \in 0 .. n /\ k \in 0 .. n
    BY <1>1
  <2>2. f[i] = seqs[k] \o f[n - k]
    BY <1>7, <2>1
  <2> QED BY <2>1, <2>2
<1> HIDE DEF r
<1>10. \A k \in 0 .. n : h[k] \o r[k] = r[0]
  <2> DEFINE T == {k \in 0 .. n : h[k] \o r[k] # r[0]}
  <2> SUFFICES ASSUME T # {} PROVE FALSE
    OBVIOUS
  <2>1. T \in SUBSET Nat
    BY <1>1
  <2>2. PICK k \in T : \A j \in T : k <= j
    BY <2>1, LeastOf
  <2>3. k \in 0 .. n /\ h[k] \o r[k] # r[0]
    OBVIOUS
  <2>4. k # 0
    <3>1. r[0] \in Seq(Byte)
      BY <1>1, <1>8 DEF S
    <3>2. <<>> \o r[0] = r[0]
      BY <3>1, ConcatEmptySeq
    <3> QED BY <1>5, <2>3, <3>2
  <2>5. k \in 1 .. n /\ k - 1 \in 0 .. n /\ k - 1 < k
    BY <1>1, <2>3, <2>4
  <2>6. h[k - 1] \o r[k - 1] = r[0]
    <3>1. k - 1 \notin T
      <4>1. \A j \in T : k <= j
        BY <2>2
      <4> HIDE DEF T
      <4> QED BY <1>1, <2>5, <4>1
    <3> QED BY <2>5, <3>1
  <2>7. r[k - 1] = seqs[k] \o r[k] /\ h[k] = h[k - 1] \o seqs[k]
    BY <1>5, <1>9, <2>5
  <2>8. r[k] \in Seq(Byte) /\ h[k - 1] \in Seq(Byte) /\ seqs[k] \in Seq(Byte)
    BY <1>1, <1>5, <1>8, <2>3, <2>5 DEF S
  <2>9. (h[k - 1] \o seqs[k]) \o r[k] = h[k - 1] \o (seqs[k] \o r[k])
    BY <2>8, JoinedTwice
  <2> QED BY <2>3, <2>6, <2>7, <2>9
<1>11. r[0] = FlattenSeq(seqs)
  <2>1. n \in 0 .. n
    BY <1>1
  <2>2. h[n] \o r[n] = r[0]
    BY <1>10, <2>1
  <2>3. h[n] \in Seq(Byte)
    BY <1>5, <2>1 DEF S
  <2>4. h[n] \o <<>> = h[n]
    BY <2>3, ConcatEmptySeq
  <2> QED BY <1>5, <1>8, <2>2, <2>4
<1>12. IsRest(r, seqs)
  BY <1>8, <1>9, <1>11 DEF IsRest, n, S
<1> QED BY <1>12 DEF RestOf

----------------------------------------------------------------------------
(* The fields of a message as they are sent *)

\* Messages with each of their fields once.
Flat == {"ValueSetting", "Comparator", "KeyValuePair", "Response"}

\* These messages have at most five fields, all required.
LEMMA FlatFields ==
    ASSUME NEW msg \in Flat
    PROVE  /\ msg \in DOMAIN Desc /\ msg # "Query" /\ msg # "Filter"
           /\ \E n \in 1 .. 5 : DOMAIN Desc[msg] = 1 .. n /\ Len(Desc[msg]) = n
           /\ \A i \in DOMAIN Desc[msg] : Desc[msg][i].rule = "required"
<1>1. CASE msg = "ValueSetting"
  BY <1>1, TypesAre, RuleAndType DEF Desc
<1>2. CASE msg = "Comparator"
  BY <1>2, TypesAre, RuleAndType DEF Desc
<1>3. CASE msg = "KeyValuePair"
  BY <1>3, TypesAre, RuleAndType DEF Desc
<1>4. CASE msg = "Response"
  BY <1>4, TypesAre, RuleAndType DEF Desc
<1> QED BY <1>1, <1>2, <1>3, <1>4 DEF Flat

\* Their values have one part for each field.
LEMMA FlatValues ==
    ASSUME NEW msg \in Flat, NEW w \in ValuesOf(msg)
    PROVE  /\ w = [i \in DOMAIN Desc[msg] |-> w[i]]
           /\ \A i \in DOMAIN Desc[msg] : w[i] \in ValuesOf(Desc[msg][i].type)
<1>1. CASE msg = "ValueSetting"
  <2>1. DOMAIN Desc[msg] = 1 .. 1 /\ Desc[msg][1].type = "KeyValuePair"
    BY <1>1, FieldsAre, TypesAre, RuleAndType
  <2>2. w \in Settings
    BY <1>1 DEF ValuesOf
  <2>3. w \in [1 .. 1 -> Pairs]
    BY <2>2 DEF Settings
  <2>4. ValuesOf("KeyValuePair") = Pairs
    BY DEF ValuesOf
  <2> QED BY <2>1, <2>3, <2>4
<1>2. CASE msg = "Comparator"
  <2>1. DOMAIN Desc[msg] = 1 .. 2 /\ Desc[msg][1].type = "int32" /\ Desc[msg][2].type = "KeyValuePair"
    BY <1>2, FieldsAre, TypesAre, RuleAndType
  <2>2. w \in Numbers(IntBits) \X Pairs
    BY <1>2 DEF ValuesOf, Comparators
  <2>3. ValuesOf("KeyValuePair") = Pairs /\ ValuesOf("int32") = Numbers(IntBits)
    BY DEF ValuesOf
  <2> QED BY <2>1, <2>2, <2>3
<1>3. CASE msg = "KeyValuePair"
  <2>1. DOMAIN Desc[msg] = 1 .. 5 /\ Desc[msg][1].type = "string" /\ Desc[msg][2].type = "int32"
        /\ Desc[msg][3].type = "int64" /\ Desc[msg][4].type = "float" /\ Desc[msg][5].type = "string"
    BY <1>3, FieldsAre, TypesAre, RuleAndType
  <2>2. w \in Strings \X Numbers(IntBits) \X Numbers(LongBits) \X Floats \X Strings
    BY <1>3 DEF ValuesOf, Pairs
  <2>3. /\ ValuesOf("string") = Strings /\ ValuesOf("int32") = Numbers(IntBits)
        /\ ValuesOf("int64") = Numbers(LongBits) /\ ValuesOf("float") = Floats
    BY DEF ValuesOf
  <2> QED BY <2>1, <2>2, <2>3
<1>4. CASE msg = "Response"
  <2>1. DOMAIN Desc[msg] = 1 .. 2 /\ Desc[msg][1].type = "string" /\ Desc[msg][2].type = "int32"
    BY <1>4, FieldsAre, TypesAre, RuleAndType
  <2>2. w \in Strings \X Numbers(IntBits)
    BY <1>4 DEF ValuesOf, Responses
  <2>3. ValuesOf("string") = Strings /\ ValuesOf("int32") = Numbers(IntBits)
    BY DEF ValuesOf
  <2> QED BY <2>1, <2>2, <2>3
<1> QED BY <1>1, <1>2, <1>3, <1>4 DEF Flat

\* A filter is a list of comparators.
LEMMA FilterValues ==
    ASSUME NEW w \in ValuesOf("Filter")
    PROVE  /\ w = <<w[1]>> /\ DOMAIN w = 1 .. 1
           /\ w[1] \in Seq(ValuesOf("Comparator")) /\ Len(w[1]) <= MaxCount
<1>1. w \in [1 .. 1 -> Few(Comparators)]
  BY DEF ValuesOf, Filters
<1>2. ValuesOf("Comparator") = Comparators
  BY DEF ValuesOf
<1>3. w[1] \in Seq(Comparators) /\ Len(w[1]) <= MaxCount
  BY <1>1 DEF Few
<1>4. w = <<w[1]>> /\ DOMAIN w = 1 .. 1
  BY <1>1
<1> QED BY <1>2, <1>3, <1>4

\* A query is a number, a list of filters and a list of settings.
LEMMA QueryValues ==
    ASSUME NEW w \in ValuesOf("Query")
    PROVE  /\ w = <<w[1], w[2], w[3]>> /\ DOMAIN w = 1 .. 3
           /\ w[1] \in ValuesOf("int32")
           /\ w[2] \in Seq(ValuesOf("Filter")) /\ Len(w[2]) <= MaxCount
           /\ w[3] \in Seq(ValuesOf("ValueSetting")) /\ Len(w[3]) <= MaxCount
<1>1. w \in Numbers(IntBits) \X Few(Filters) \X Few(Settings)
  BY DEF ValuesOf, Queries
<1>2. /\ ValuesOf("Filter") = Filters /\ ValuesOf("ValueSetting") = Settings
      /\ ValuesOf("int32") = Numbers(IntBits)
  BY DEF ValuesOf
<1>3. w = <<w[1], w[2], w[3]>> /\ DOMAIN w = 1 .. 3
  BY <1>1
<1>4. w[1] \in Numbers(IntBits) /\ w[2] \in Few(Filters) /\ w[3] \in Few(Settings)
  BY <1>1
<1> QED BY <1>2, <1>3, <1>4 DEF Few

\* How many fields a message has on the wire, which one the k-th is, and its value.
Size(msg, w) ==
    IF msg = "Query" THEN 1 + Len(w[2]) + Len(w[3])
    ELSE IF msg = "Filter" THEN Len(w[1]) ELSE Len(Desc[msg])
FieldAt(msg, w, k) ==
    IF msg = "Query" THEN IF k = 1 THEN 1 ELSE IF k <= 1 + Len(w[2]) THEN 2 ELSE 3
    ELSE IF msg = "Filter" THEN 1 ELSE k
ValueAt(msg, w, k) ==
    IF msg = "Query"
    THEN IF k = 1 THEN w[1]
         ELSE IF k <= 1 + Len(w[2]) THEN w[2][k - 1] ELSE w[3][k - 1 - Len(w[2])]
    ELSE IF msg = "Filter" THEN w[1][k] ELSE w[k]
TypeAt(msg, w, k) == Desc[msg][FieldAt(msg, w, k)].type

\* Every part of a value is one that its field's type allows.
LEMMA FieldsAt ==
    ASSUME NEW msg \in DOMAIN Desc, NEW w \in ValuesOf(msg)
    PROVE  /\ Size(msg, w) \in Nat
           /\ \A k \in 1 .. Size(msg, w) :
                 /\ FieldAt(msg, w, k) \in DOMAIN Desc[msg]
                 /\ FieldAt(msg, w, k) \in 1 .. 5
                 /\ ValueAt(msg, w, k) \in ValuesOf(TypeAt(msg, w, k))
<1>1. CASE msg = "Query"
  <2>1. /\ w[1] \in ValuesOf("int32") /\ w[2] \in Seq(ValuesOf("Filter"))
        /\ w[3] \in Seq(ValuesOf("ValueSetting"))
    BY <1>1, QueryValues
  <2>2. /\ DOMAIN Desc[msg] = 1 .. 3
        /\ Desc[msg][1].type = "int32" /\ Desc[msg][2].type = "Filter" /\ Desc[msg][3].type = "ValueSetting"
    BY <1>1, FieldsAre, TypesAre, RuleAndType
  <2>3. Size(msg, w) = 1 + Len(w[2]) + Len(w[3]) /\ Len(w[2]) \in Nat /\ Len(w[3]) \in Nat
    BY <1>1, <2>1 DEF Size
  <2>4. ASSUME NEW k \in 1 .. Size(msg, w)
        PROVE  /\ FieldAt(msg, w, k) \in 1 .. 3
               /\ ValueAt(msg, w, k) \in ValuesOf(TypeAt(msg, w, k))
    <3>1. CASE k = 1
      BY <1>1, <2>1, <2>2, <3>1 DEF FieldAt, ValueAt, TypeAt
    <3>2. CASE k # 1 /\ k <= 1 + Len(w[2])
      <4>1. k - 1 \in 1 .. Len(w[2])
        BY <2>3, <3>2
      <4>2. w[2][k - 1] \in ValuesOf("Filter")
        BY <2>1, <4>1
      <4> QED BY <1>1, <2>2, <3>2, <4>2 DEF FieldAt, ValueAt, TypeAt
    <3>3. CASE k # 1 /\ ~ (k <= 1 + Len(w[2]))
      <4>1. k - 1 - Len(w[2]) \in 1 .. Len(w[3])
        <5> DEFINE a == Len(w[2])
                   b == Len(w[3])
                   z == Size(msg, w)
        <5>1. z = 1 + a + b /\ a \in Nat /\ b \in Nat /\ k \in 1 .. z /\ k # 1 /\ ~ (k <= 1 + a)
          BY <2>3, <3>3
        <5> HIDE DEF a, b, z
        <5>2. k - 1 - a \in 1 .. b
          BY <5>1
        <5> QED BY <5>2 DEF a, b
      <4>2. w[3][k - 1 - Len(w[2])] \in ValuesOf("ValueSetting")
        BY <2>1, <4>1
      <4> QED BY <1>1, <2>2, <3>3, <4>2 DEF FieldAt, ValueAt, TypeAt
    <3> QED BY <3>1, <3>2, <3>3
  <2>5. Size(msg, w) \in Nat
    <3> DEFINE a == Len(w[2])
               b == Len(w[3])
    <3>1. Size(msg, w) = 1 + a + b /\ a \in Nat /\ b \in Nat
      BY <2>3
    <3> HIDE DEF a, b
    <3> QED BY <3>1
  <2>6. 1 .. 3 \subseteq 1 .. 5
    OBVIOUS
  <2> QED BY <2>2, <2>4, <2>5, <2>6
<1>2. CASE msg = "Filter"
  <2>1. w[1] \in Seq(ValuesOf("Comparator"))
    BY <1>2, FilterValues
  <2>2. DOMAIN Desc[msg] = 1 .. 1 /\ Desc[msg][1].type = "Comparator"
    BY <1>2, FieldsAre, TypesAre, RuleAndType
  <2>3. Size(msg, w) = Len(w[1]) /\ Len(w[1]) \in Nat
    BY <1>2, <2>1 DEF Size
  <2>4. ASSUME NEW k \in 1 .. Size(msg, w)
        PROVE  FieldAt(msg, w, k) = 1 /\ ValueAt(msg, w, k) \in ValuesOf(TypeAt(msg, w, k))
    BY <1>2, <2>1, <2>2, <2>3 DEF FieldAt, ValueAt, TypeAt
  <2> QED BY <2>2, <2>3, <2>4
<1>3. CASE msg \in Flat
  <2>1. PICK n \in 1 .. 5 : DOMAIN Desc[msg] = 1 .. n /\ Len(Desc[msg]) = n
    BY <1>3, FlatFields
  <2>2. \A i \in 1 .. n : w[i] \in ValuesOf(Desc[msg][i].type)
    BY <1>3, <2>1, FlatValues
  <2>3. msg # "Query" /\ msg # "Filter"
    BY <1>3, FlatFields
  <2>4. Size(msg, w) = n
    BY <2>1, <2>3 DEF Size
  <2> QED BY <2>1, <2>2, <2>3, <2>4 DEF FieldAt, ValueAt, TypeAt
<1> QED BY <1>1, <1>2, <1>3, MessagesAre DEF Flat

\* One sequence behind the other, of whatever.
LEMMA JoinedList ==
    ASSUME NEW S, NEW a \in Seq(S), NEW b \in Seq(S)
    PROVE  /\ a \o b \in Seq(S) /\ Len(a \o b) = Len(a) + Len(b)
           /\ \A i \in 1 .. Len(a) + Len(b) :
                 (a \o b)[i] = IF i <= Len(a) THEN a[i] ELSE b[i - Len(a)]
BY ConcatProperties

\* A repeated field is sent as one entry for each of its values.
LEMMA TaggedList ==
    ASSUME NEW S, NEW v, IsList(v), NEW i, \A n \in 1 .. Len(v) : <<i, v[n]>> \in S
    PROVE  LET t == [n \in DOMAIN v |-> <<i, v[n]>>]
           IN  /\ t \in Seq(S) /\ Len(t) = Len(v)
               /\ \A n \in 1 .. Len(v) : t[n] = <<i, v[n]>>
<1> DEFINE t == [n \in DOMAIN v |-> <<i, v[n]>>]
           m == Len(v)
<1>1. m \in Nat /\ DOMAIN v = 1 .. m
  BY ListIs
<1>2. t = [n \in 1 .. m |-> <<i, v[n]>>]
  BY <1>1
<1>3. t \in [1 .. m -> S]
  BY <1>2
<1> HIDE DEF m
<1>4. t \in Seq(S)
  <2> HIDE DEF t
  <2> QED BY <1>1, <1>3, SeqDef
<1>5. DOMAIN t = 1 .. m /\ DOMAIN t = 1 .. Len(t) /\ Len(t) \in Nat
  <2>1. DOMAIN t = 1 .. m
    BY <1>2
  <2> HIDE DEF t
  <2> QED BY <1>4, <2>1, LenProperties
<1>6. Len(t) = m
  <2> HIDE DEF t
  <2> QED BY <1>1, <1>5
<1>7. \A n \in 1 .. m : t[n] = <<i, v[n]>>
  BY <1>2
<1> QED BY <1>4, <1>6, <1>7 DEF m

IsEntries(e, msg, w) ==
    /\ IsList(e) /\ Len(e) = Size(msg, w)
    /\ \A k \in 1 .. Size(msg, w) : e[k] = <<FieldAt(msg, w, k), ValueAt(msg, w, k)>>

\* The encoder sends these fields, in this order.
LEMMA EntriesAre ==
    ASSUME NEW msg \in DOMAIN Desc, NEW w \in ValuesOf(msg)
    PROVE  IsEntries(Entries(msg, w), msg, w)
<1> DEFINE Sent(i) == IF Desc[msg][i].rule = "repeated"
                      THEN [n \in DOMAIN w[i] |-> <<i, w[i][n]>>]
                      ELSE << <<i, w[i]>> >>
           seqs == [i \in DOMAIN Desc[msg] |-> Sent(i)]
<1>1. Entries(msg, w) = FlattenSeq(seqs)
  BY DEF Entries
<1>2. ASSUME NEW S, NEW x \in S PROVE <<x>> \in Seq(S) /\ Len(<<x>>) = 1 /\ <<x>>[1] = x
  OBVIOUS
<1>3. ASSUME NEW S, NEW n \in 1 .. 5, DOMAIN Desc[msg] = 1 .. n, \A i \in 1 .. n : Sent(i) \in Seq(S)
      PROVE  \E f \in [0 .. n -> Seq(S)] :
                /\ f[0] = <<>>
                /\ \A i \in 1 .. n : f[i] = f[i - 1] \o Sent(i)
                /\ Entries(msg, w) = f[n]
  <2>1. seqs \in [1 .. n -> Seq(S)] /\ \A i \in 1 .. n : seqs[i] = Sent(i)
    BY <1>3
  <2> HIDE DEF seqs
  <2>2. seqs \in Seq(Seq(S)) /\ DOMAIN seqs = 1 .. n /\ n \in Nat
    BY <2>1, SeqDef
  <2>3. Len(seqs) = n
    BY <2>2, LenProperties
  <2>4. PICK f \in [0 .. Len(seqs) -> Seq(S)] :
              /\ f[0] = <<>>
              /\ \A i \in 1 .. Len(seqs) : f[i] = f[i - 1] \o seqs[i]
              /\ FlattenSeq(seqs) = f[Len(seqs)]
    BY <2>2, Flattened
  <2> QED BY <1>1, <2>1, <2>3, <2>4
<1>4. CASE msg \in Flat
  <2>1. PICK n \in 1 .. 5 : DOMAIN Desc[msg] = 1 .. n /\ Len(Desc[msg]) = n
    BY <1>4, FlatFields
  <2>2. \A i \in 1 .. n : Desc[msg][i].rule = "required"
    BY <1>4, <2>1, FlatFields
  <2> DEFINE S == {<<i, w[i]>> : i \in 1 .. n}
  <2>3. \A i \in 1 .. n : Sent(i) = << <<i, w[i]>> >> /\ <<i, w[i]>> \in S
    BY <2>2
  <2>4. /\ Size(msg, w) = n
        /\ \A k \in 1 .. n : FieldAt(msg, w, k) = k /\ ValueAt(msg, w, k) = w[k]
    <3>1. msg # "Query" /\ msg # "Filter"
      BY <1>4, FlatFields
    <3> QED BY <2>1, <3>1 DEF Size, FieldAt, ValueAt
  <2> HIDE DEF S, Sent
  <2>5. \A i \in 1 .. n : Sent(i) \in Seq(S) /\ Len(Sent(i)) = 1 /\ Sent(i)[1] = <<i, w[i]>>
    BY <1>2, <2>3
  <2>6. PICK f \in [0 .. n -> Seq(S)] :
                /\ f[0] = <<>>
                /\ \A i \in 1 .. n : f[i] = f[i - 1] \o Sent(i)
                /\ Entries(msg, w) = f[n]
    BY <1>3, <2>1, <2>5
  <2> DEFINE Good(k) == Len(f[k]) = k /\ \A j \in 1 .. k : f[k][j] = <<j, w[j]>>
             T == {k \in 0 .. n : ~ Good(k)}
  <2>7. ASSUME NEW k \in 1 .. n, Good(k - 1) PROVE Good(k)
    <3>1. f[k] = f[k - 1] \o Sent(k) /\ f[k - 1] \in Seq(S) /\ Sent(k) \in Seq(S)
          /\ Len(f[k - 1]) = k - 1 /\ Len(Sent(k)) = 1 /\ Sent(k)[1] = <<k, w[k]>>
          /\ \A j \in 1 .. k - 1 : f[k - 1][j] = <<j, w[j]>>
      <4>1. k - 1 \in 0 .. n
        OBVIOUS
      <4> QED BY <2>5, <2>6, <2>7, <4>1
    <3> DEFINE a == f[k - 1]
               b == Sent(k)
    <3> HIDE DEF a, b
    <3>2. /\ Len(a \o b) = Len(a) + Len(b)
          /\ \A i \in 1 .. Len(a) + Len(b) : (a \o b)[i] = IF i <= Len(a) THEN a[i] ELSE b[i - Len(a)]
      BY <3>1, JoinedList DEF a, b
    <3>3. Len(a) = k - 1 /\ Len(b) = 1 /\ f[k] = a \o b /\ b[1] = <<k, w[k]>>
          /\ \A j \in 1 .. k - 1 : a[j] = <<j, w[j]>>
      BY <3>1 DEF a, b
    <3>4. Len(a) + Len(b) = k
      BY <3>3
    <3>5. Len(f[k]) = k
      BY <3>2, <3>3, <3>4
    <3>6. ASSUME NEW j \in 1 .. k PROVE f[k][j] = <<j, w[j]>>
      <4>1. f[k][j] = IF j <= k - 1 THEN a[j] ELSE b[j - (k - 1)]
        BY <3>2, <3>3, <3>4
      <4>2. CASE j <= k - 1
        BY <3>3, <4>1, <4>2
      <4>3. CASE ~ (j <= k - 1)
        <5>1. j = k /\ j - (k - 1) = 1
          BY <4>3
        <5> QED BY <3>3, <4>1, <4>3, <5>1
      <4> QED BY <4>2, <4>3
    <3> QED BY <3>5, <3>6
  <2>8. Good(0)
    BY <2>6
  <2> HIDE DEF Good
  <2>9. T = {}
    <3> SUFFICES ASSUME T # {} PROVE FALSE
      OBVIOUS
    <3>1. T \in SUBSET Nat
      OBVIOUS
    <3>2. PICK k \in T : \A j \in T : k <= j
      BY <3>1, LeastOf
    <3>3. k \in 0 .. n /\ ~ Good(k)
      OBVIOUS
    <3>4. k \in 1 .. n /\ k - 1 \in 0 .. n
      BY <2>8, <3>3
    <3>5. k - 1 \notin T
      BY <3>2, <3>3
    <3>6. Good(k - 1)
      BY <3>4, <3>5
    <3> QED BY <2>7, <3>3, <3>4, <3>6
  <2>10. Good(n)
    <3>1. n \in 0 .. n
      OBVIOUS
    <3> QED BY <2>9, <3>1
  <2>11. IsList(f[n])
    <3>1. f[n] \in Seq(S)
      BY <2>6
    <3> QED BY <3>1, ListOf
  <2> QED BY <2>4, <2>6, <2>10, <2>11 DEF IsEntries, Good
<1>5. CASE msg = "Filter"
  <2>1. w[1] \in Seq(ValuesOf("Comparator"))
    BY <1>5, FilterValues
  <2>2. DOMAIN Desc[msg] = 1 .. 1 /\ Desc[msg][1].rule = "repeated"
    BY <1>5, FieldsAre, TypesAre, RuleAndType
  <2> DEFINE v == w[1]
             t == [n \in DOMAIN v |-> <<1, v[n]>>]
             S == {<<1, v[n]>> : n \in 1 .. Len(v)}
  <2>3. IsList(v)
    BY <2>1, ListOf
  <2>4. Sent(1) = t
    BY <2>2
  <2>5. t \in Seq(S) /\ Len(t) = Len(v) /\ \A n \in 1 .. Len(v) : t[n] = <<1, v[n]>>
    <3>1. \A n \in 1 .. Len(v) : <<1, v[n]>> \in S
      OBVIOUS
    <3> HIDE DEF S, v
    <3> QED BY <2>3, <3>1, TaggedList
  <2> HIDE DEF t, S, Sent
  <2>6. PICK f \in [0 .. 1 -> Seq(S)] :
                /\ f[0] = <<>>
                /\ \A i \in 1 .. 1 : f[i] = f[i - 1] \o Sent(i)
                /\ Entries(msg, w) = f[1]
    <3>1. \A i \in 1 .. 1 : Sent(i) \in Seq(S)
      BY <2>4, <2>5
    <3> QED BY <1>3, <2>2, <3>1
  <2>7. Entries(msg, w) = t
    <3>1. f[1] = <<>> \o t
      <4>1. 1 - 1 = 0 /\ 1 \in 1 .. 1
        OBVIOUS
      <4> QED BY <2>4, <2>6, <4>1
    <3>2. <<>> \o t = t
      BY <2>5, ConcatEmptySeq
    <3> QED BY <2>6, <3>1, <3>2
  <2>8. Size(msg, w) = Len(v) /\ \A k \in 1 .. Len(v) : FieldAt(msg, w, k) = 1 /\ ValueAt(msg, w, k) = v[k]
    BY <1>5 DEF Size, FieldAt, ValueAt
  <2>9. IsList(t)
    BY <2>5, ListOf
  <2> QED BY <2>5, <2>7, <2>8, <2>9 DEF IsEntries
<1>6. CASE msg = "Query"
  <2>1. w[2] \in Seq(ValuesOf("Filter")) /\ w[3] \in Seq(ValuesOf("ValueSetting"))
    BY <1>6, QueryValues
  <2>2. DOMAIN Desc[msg] = 1 .. 3 /\ Desc[msg][1].rule = "required"
        /\ Desc[msg][2].rule = "repeated" /\ Desc[msg][3].rule = "repeated"
    BY <1>6, FieldsAre, TypesAre, RuleAndType
  <2> DEFINE c == << <<1, w[1]>> >>
             u == w[2]
             v == w[3]
             s == [n \in DOMAIN u |-> <<2, u[n]>>]
             t == [n \in DOMAIN v |-> <<3, v[n]>>]
             S == {<<1, w[1]>>} \cup {<<2, u[n]>> : n \in 1 .. Len(u)} \cup {<<3, v[n]>> : n \in 1 .. Len(v)}
  <2>3. IsList(u) /\ IsList(v) /\ Len(u) \in Nat /\ Len(v) \in Nat
    BY <2>1, ListOf
  <2>4. Sent(1) = c /\ Sent(2) = s /\ Sent(3) = t
    BY <2>2
  <2>5. s \in Seq(S) /\ Len(s) = Len(u) /\ \A n \in 1 .. Len(u) : s[n] = <<2, u[n]>>
    <3>1. \A n \in 1 .. Len(u) : <<2, u[n]>> \in S
      OBVIOUS
    <3> HIDE DEF S, u
    <3> QED BY <2>3, <3>1, TaggedList
  <2>6. t \in Seq(S) /\ Len(t) = Len(v) /\ \A n \in 1 .. Len(v) : t[n] = <<3, v[n]>>
    <3>1. \A n \in 1 .. Len(v) : <<3, v[n]>> \in S
      OBVIOUS
    <3> HIDE DEF S, v
    <3> QED BY <2>3, <3>1, TaggedList
  <2>7. c \in Seq(S) /\ Len(c) = 1 /\ c[1] = <<1, w[1]>>
    <3>1. <<1, w[1]>> \in S
      OBVIOUS
    <3> HIDE DEF S
    <3> QED BY <1>2, <3>1
  <2>8. /\ Size(msg, w) = 1 + Len(u) + Len(v)
        /\ \A k \in 1 .. Size(msg, w) :
              <<FieldAt(msg, w, k), ValueAt(msg, w, k)>> =
                 IF k = 1 THEN <<1, w[1]>>
                 ELSE IF k <= 1 + Len(u) THEN <<2, u[k - 1]>> ELSE <<3, v[k - 1 - Len(u)]>>
    BY <1>6 DEF Size, FieldAt, ValueAt
  <2> HIDE DEF c, s, t, S, Sent, u, v
  <2>9. PICK f \in [0 .. 3 -> Seq(S)] :
                /\ f[0] = <<>>
                /\ \A i \in 1 .. 3 : f[i] = f[i - 1] \o Sent(i)
                /\ Entries(msg, w) = f[3]
    <3>1. \A i \in 1 .. 3 : Sent(i) \in Seq(S)
      <4>1. \A i \in 1 .. 3 : i = 1 \/ i = 2 \/ i = 3
        OBVIOUS
      <4> QED BY <2>4, <2>5, <2>6, <2>7, <4>1
    <3>2. 3 \in 1 .. 5
      OBVIOUS
    <3> QED BY <1>3, <2>2, <3>1, <3>2
  <2>10. Entries(msg, w) = (c \o s) \o t
    <3>1. f[1] = f[0] \o c /\ f[2] = f[1] \o s /\ f[3] = f[2] \o t
      <4>1. 1 - 1 = 0 /\ 2 - 1 = 1 /\ 3 - 1 = 2 /\ 1 \in 1 .. 3 /\ 2 \in 1 .. 3 /\ 3 \in 1 .. 3
        OBVIOUS
      <4> QED BY <2>4, <2>9, <4>1
    <3>2. <<>> \o c = c
      BY <2>7, ConcatEmptySeq
    <3> QED BY <2>9, <3>1, <3>2
  <2> DEFINE cs == c \o s
             all == cs \o t
  <2>11. cs \in Seq(S) /\ Len(cs) = 1 + Len(u)
         /\ \A i \in 1 .. 1 + Len(u) : cs[i] = IF i <= 1 THEN c[i] ELSE s[i - 1]
    <3>1. /\ cs \in Seq(S) /\ Len(cs) = Len(c) + Len(s)
          /\ \A i \in 1 .. Len(c) + Len(s) : cs[i] = IF i <= Len(c) THEN c[i] ELSE s[i - Len(c)]
      <4>1. c \in Seq(S) /\ s \in Seq(S)
        BY <2>5, <2>7
      <4> QED BY <4>1, JoinedList
    <3> HIDE DEF cs
    <3> QED BY <2>5, <2>7, <3>1
  <2> HIDE DEF cs
  <2>12. all \in Seq(S) /\ Len(all) = 1 + Len(u) + Len(v)
         /\ \A i \in 1 .. 1 + Len(u) + Len(v) :
               all[i] = IF i <= 1 + Len(u) THEN cs[i] ELSE t[i - (1 + Len(u))]
    <3>1. /\ all \in Seq(S) /\ Len(all) = Len(cs) + Len(t)
          /\ \A i \in 1 .. Len(cs) + Len(t) : all[i] = IF i <= Len(cs) THEN cs[i] ELSE t[i - Len(cs)]
      <4>1. cs \in Seq(S) /\ t \in Seq(S)
        BY <2>6, <2>11
      <4> QED BY <4>1, JoinedList
    <3> HIDE DEF all
    <3> QED BY <2>6, <2>11, <3>1
  <2> HIDE DEF all
  <2>13. ASSUME NEW k \in 1 .. Size(msg, w)
         PROVE  all[k] = <<FieldAt(msg, w, k), ValueAt(msg, w, k)>>
    <3> DEFINE a == Len(u)
               b == Len(v)
               e == <<FieldAt(msg, w, k), ValueAt(msg, w, k)>>
    <3>1. k \in 1 .. 1 + a + b /\ a \in Nat /\ b \in Nat
      BY <2>3, <2>8
    <3>2. e = IF k = 1 THEN <<1, w[1]>>
              ELSE IF k <= 1 + a THEN <<2, u[k - 1]>> ELSE <<3, v[k - 1 - a]>>
      BY <2>8
    <3>3. all[k] = IF k <= 1 + a THEN cs[k] ELSE t[k - (1 + a)]
      BY <2>12, <3>1
    <3>4. \A i \in 1 .. 1 + a : cs[i] = IF i <= 1 THEN c[i] ELSE s[i - 1]
      BY <2>11
    <3>5. (\A n \in 1 .. a : s[n] = <<2, u[n]>>) /\ (\A n \in 1 .. b : t[n] = <<3, v[n]>>)
      BY <2>5, <2>6
    <3> HIDE DEF a, b, e
    <3>6. CASE k = 1
      BY <2>7, <3>1, <3>2, <3>3, <3>4, <3>6 DEF e
    <3>7. CASE k # 1 /\ k <= 1 + a
      <4>1. k \in 1 .. 1 + a /\ ~ (k <= 1) /\ k - 1 \in 1 .. a
        BY <3>1, <3>7
      <4> QED BY <3>2, <3>3, <3>4, <3>5, <3>7, <4>1 DEF e
    <3>8. CASE ~ (k <= 1 + a)
      <4>1. k - (1 + a) \in 1 .. b /\ k - (1 + a) = k - 1 - a /\ k # 1
        BY <3>1, <3>8
      <4> QED BY <3>2, <3>3, <3>5, <3>8, <4>1 DEF e
    <3> QED BY <3>6, <3>7, <3>8
  <2>14. IsList(all)
    BY <2>12, ListOf
  <2> QED BY <2>8, <2>10, <2>12, <2>13, <2>14 DEF IsEntries, all, cs
<1> QED BY <1>4, <1>5, <1>6, MessagesAre DEF Flat

----------------------------------------------------------------------------
(* A message as the encoder sends it, field by field *)

\* A field of a message: a submessage behind its length, or a scalar.
Payload(type, x) == IF IsMessage(type) THEN LengthFirst(Encoded(type, x)) ELSE Scalar(type, x)
TagAt(msg, w, k) == TagOf(FieldAt(msg, w, k), WireType(TypeAt(msg, w, k)))
Part(msg, w, k) == TagAt(msg, w, k) \o Payload(TypeAt(msg, w, k), ValueAt(msg, w, k))
Parts(msg, w) == [k \in 1 .. Size(msg, w) |-> Part(msg, w, k)]

\* The levels of pb_encode_submessage: a pair,
LEMMA PairFieldsAre ==
    ASSUME NEW msg \in DOMAIN Desc, NEW w \in ValuesOf(msg)
    PROVE  Fields(msg, w, InPair) = FlattenSeq([k \in 1 .. Size(msg, w) |->
               TagAt(msg, w, k) \o InPair(TypeAt(msg, w, k), ValueAt(msg, w, k))])
<1>1. IsEntries(Entries(msg, w), msg, w)
  BY EntriesAre
<1>2. DOMAIN Entries(msg, w) = 1 .. Size(msg, w)
  BY <1>1, ListIs DEF IsEntries
<1>3. \A k \in 1 .. Size(msg, w) : /\ Entries(msg, w)[k][1] = FieldAt(msg, w, k)
                                   /\ Entries(msg, w)[k][2] = ValueAt(msg, w, k)
  BY <1>1 DEF IsEntries
<1> QED BY <1>2, <1>3 DEF Fields, TagAt, TypeAt

\* what is in a comparator or a setting,
LEMMA ComparatorFieldsAre ==
    ASSUME NEW msg \in DOMAIN Desc, NEW w \in ValuesOf(msg)
    PROVE  Fields(msg, w, InComparator) = FlattenSeq([k \in 1 .. Size(msg, w) |->
               TagAt(msg, w, k) \o InComparator(TypeAt(msg, w, k), ValueAt(msg, w, k))])
<1>1. IsEntries(Entries(msg, w), msg, w)
  BY EntriesAre
<1>2. DOMAIN Entries(msg, w) = 1 .. Size(msg, w)
  BY <1>1, ListIs DEF IsEntries
<1>3. \A k \in 1 .. Size(msg, w) : /\ Entries(msg, w)[k][1] = FieldAt(msg, w, k)
                                   /\ Entries(msg, w)[k][2] = ValueAt(msg, w, k)
  BY <1>1 DEF IsEntries
<1> QED BY <1>2, <1>3 DEF Fields, TagAt, TypeAt

\* what is in a filter,
LEMMA FilterFieldsAre ==
    ASSUME NEW msg \in DOMAIN Desc, NEW w \in ValuesOf(msg)
    PROVE  Fields(msg, w, InFilter) = FlattenSeq([k \in 1 .. Size(msg, w) |->
               TagAt(msg, w, k) \o InFilter(TypeAt(msg, w, k), ValueAt(msg, w, k))])
<1>1. IsEntries(Entries(msg, w), msg, w)
  BY EntriesAre
<1>2. DOMAIN Entries(msg, w) = 1 .. Size(msg, w)
  BY <1>1, ListIs DEF IsEntries
<1>3. \A k \in 1 .. Size(msg, w) : /\ Entries(msg, w)[k][1] = FieldAt(msg, w, k)
                                   /\ Entries(msg, w)[k][2] = ValueAt(msg, w, k)
  BY <1>1 DEF IsEntries
<1> QED BY <1>2, <1>3 DEF Fields, TagAt, TypeAt

\* and the message itself.
LEMMA QueryFieldsAre ==
    ASSUME NEW msg \in DOMAIN Desc, NEW w \in ValuesOf(msg)
    PROVE  Encoded(msg, w) = FlattenSeq([k \in 1 .. Size(msg, w) |->
               TagAt(msg, w, k) \o InQuery(TypeAt(msg, w, k), ValueAt(msg, w, k))])
<1>1. IsEntries(Entries(msg, w), msg, w)
  BY EntriesAre
<1>2. DOMAIN Entries(msg, w) = 1 .. Size(msg, w)
  BY <1>1, ListIs DEF IsEntries
<1>3. \A k \in 1 .. Size(msg, w) : /\ Entries(msg, w)[k][1] = FieldAt(msg, w, k)
                                   /\ Entries(msg, w)[k][2] = ValueAt(msg, w, k)
  BY <1>1 DEF IsEntries
<1> QED BY <1>2, <1>3 DEF Encoded, Fields, TagAt, TypeAt

\* The types of fields without a message in them.
Scalars == {"int32", "int64", "float", "string"}
\* What each message is made of.
LEMMA Inner ==
    ASSUME NEW msg \in DOMAIN Desc, NEW i \in DOMAIN Desc[msg]
    PROVE  LET type == Desc[msg][i].type
           IN  /\ msg \in {"KeyValuePair", "Response"} => type \in Scalars
               /\ msg \in {"Comparator", "ValueSetting"} => type \in Scalars \cup {"KeyValuePair"}
               /\ msg = "Filter" => type = "Comparator"
               /\ msg = "Query" => type \in Scalars \cup {"Filter", "ValueSetting"}
<1>1. msg = "KeyValuePair" => i = 1 \/ i = 2 \/ i = 3 \/ i = 4 \/ i = 5
  BY FieldsAre
<1>2. msg = "Query" => i = 1 \/ i = 2 \/ i = 3
  BY FieldsAre
<1>3. msg \in {"Response", "Comparator"} => i = 1 \/ i = 2
  BY FieldsAre
<1>4. msg \in {"Filter", "ValueSetting"} => i = 1
  BY FieldsAre
<1> QED BY <1>1, <1>2, <1>3, <1>4, TypesAre, RuleAndType DEF Scalars

\* The types of message.proto are scalars or messages.
LEMMA NoScalarIsMessage ==
    /\ \A type \in Scalars : ~ IsMessage(type)
    /\ \A msg \in DOMAIN Desc : IsMessage(msg)
BY MessagesAre DEF Scalars, IsMessage

\* On every level a message is sent as its fields, each behind its tag.
LEMMA EncodedIs ==
    ASSUME NEW msg \in DOMAIN Desc, NEW w \in ValuesOf(msg)
    PROVE  Encoded(msg, w) = FlattenSeq(Parts(msg, w))
<1>1. \A type \in Scalars : \A x : /\ InPair(type, x) = Scalar(type, x)
                                   /\ InComparator(type, x) = Scalar(type, x)
                                   /\ InFilter(type, x) = Scalar(type, x)
                                   /\ InQuery(type, x) = Scalar(type, x)
                                   /\ Payload(type, x) = Scalar(type, x)
  BY NoScalarIsMessage DEF InPair, InComparator, InFilter, InQuery, Payload
<1>2. ASSUME NEW m \in DOMAIN Desc, NEW x \in ValuesOf(m), NEW k \in 1 .. Size(m, x)
      PROVE  /\ m \in {"KeyValuePair", "Response"} => TypeAt(m, x, k) \in Scalars
             /\ m \in {"Comparator", "ValueSetting"} => TypeAt(m, x, k) \in Scalars \cup {"KeyValuePair"}
             /\ m = "Filter" => TypeAt(m, x, k) = "Comparator"
             /\ m = "Query" => TypeAt(m, x, k) \in Scalars \cup {"Filter", "ValueSetting"}
             /\ ValueAt(m, x, k) \in ValuesOf(TypeAt(m, x, k))
  <2>1. FieldAt(m, x, k) \in DOMAIN Desc[m] /\ ValueAt(m, x, k) \in ValuesOf(TypeAt(m, x, k))
    BY <1>2, FieldsAt
  <2> QED BY <2>1, Inner DEF TypeAt
<1>3. ASSUME NEW x \in ValuesOf("KeyValuePair")
      PROVE  /\ Fields("KeyValuePair", x, InPair) = Encoded("KeyValuePair", x)
             /\ Fields("KeyValuePair", x, InComparator) = Encoded("KeyValuePair", x)
             /\ Fields("KeyValuePair", x, InFilter) = Encoded("KeyValuePair", x)
  <2> DEFINE m == "KeyValuePair"
  <2>1. m \in DOMAIN Desc
    BY MessagesAre
  <2>2. \A k \in 1 .. Size(m, x) : TypeAt(m, x, k) \in Scalars
    BY <1>2, <2>1
  <2> HIDE DEF m
  <2>3. /\ Fields(m, x, InPair) = Encoded(m, x)
        /\ Fields(m, x, InComparator) = Encoded(m, x)
        /\ Fields(m, x, InFilter) = Encoded(m, x)
    <3>1. x \in ValuesOf(m)
      BY DEF m
    <3> DEFINE a == [k \in 1 .. Size(m, x) |-> TagAt(m, x, k) \o InPair(TypeAt(m, x, k), ValueAt(m, x, k))]
               b == [k \in 1 .. Size(m, x) |-> TagAt(m, x, k) \o InComparator(TypeAt(m, x, k), ValueAt(m, x, k))]
               c == [k \in 1 .. Size(m, x) |-> TagAt(m, x, k) \o InFilter(TypeAt(m, x, k), ValueAt(m, x, k))]
               d == [k \in 1 .. Size(m, x) |-> TagAt(m, x, k) \o InQuery(TypeAt(m, x, k), ValueAt(m, x, k))]
    <3>2. a = d /\ b = d /\ c = d
      BY <1>1, <2>2
    <3>3. Encoded(m, x) = FlattenSeq(d)
      BY <2>1, <3>1, QueryFieldsAre
    <3>4. Fields(m, x, InPair) = FlattenSeq(a)
      BY <2>1, <3>1, PairFieldsAre
    <3>5. Fields(m, x, InComparator) = FlattenSeq(b)
      BY <2>1, <3>1, ComparatorFieldsAre
    <3>6. Fields(m, x, InFilter) = FlattenSeq(c)
      BY <2>1, <3>1, FilterFieldsAre
    <3> HIDE DEF a, b, c, d
    <3> QED BY <3>2, <3>3, <3>4, <3>5, <3>6
  <2> QED BY <2>3 DEF m
<1>4. ASSUME NEW type \in Scalars \cup {"KeyValuePair"}, NEW x \in ValuesOf(type)
      PROVE  /\ InComparator(type, x) = Payload(type, x)
             /\ InFilter(type, x) = Payload(type, x)
             /\ InQuery(type, x) = Payload(type, x)
  <2>1. CASE type = "KeyValuePair"
    BY <1>3, <2>1 DEF InComparator, InFilter, InQuery, Payload
  <2>2. CASE type \in Scalars
    BY <1>1, <2>2
  <2> QED BY <2>1, <2>2
<1>5. ASSUME NEW m \in {"Comparator", "ValueSetting"}, NEW x \in ValuesOf(m)
      PROVE  /\ Fields(m, x, InComparator) = Encoded(m, x)
             /\ Fields(m, x, InFilter) = Encoded(m, x)
  <2>1. m \in DOMAIN Desc
    BY MessagesAre
  <2>2. \A k \in 1 .. Size(m, x) : /\ TypeAt(m, x, k) \in Scalars \cup {"KeyValuePair"}
                                   /\ ValueAt(m, x, k) \in ValuesOf(TypeAt(m, x, k))
    BY <1>2, <2>1
  <2> DEFINE b == [k \in 1 .. Size(m, x) |-> TagAt(m, x, k) \o InComparator(TypeAt(m, x, k), ValueAt(m, x, k))]
             c == [k \in 1 .. Size(m, x) |-> TagAt(m, x, k) \o InFilter(TypeAt(m, x, k), ValueAt(m, x, k))]
             d == [k \in 1 .. Size(m, x) |-> TagAt(m, x, k) \o InQuery(TypeAt(m, x, k), ValueAt(m, x, k))]
  <2>3. b = d /\ c = d
    BY <1>4, <2>2
  <2>4. Encoded(m, x) = FlattenSeq(d)
    BY <2>1, QueryFieldsAre
  <2>5. Fields(m, x, InComparator) = FlattenSeq(b)
    BY <2>1, ComparatorFieldsAre
  <2>6. Fields(m, x, InFilter) = FlattenSeq(c)
    BY <2>1, FilterFieldsAre
  <2> HIDE DEF b, c, d
  <2> QED BY <2>3, <2>4, <2>5, <2>6
<1>6. ASSUME NEW type \in {"Comparator", "ValueSetting"}, NEW x \in ValuesOf(type)
      PROVE  /\ InFilter(type, x) = Payload(type, x)
             /\ InQuery(type, x) = Payload(type, x)
  BY <1>5 DEF InFilter, InQuery, Payload
<1>7. ASSUME NEW x \in ValuesOf("Filter")
      PROVE  Fields("Filter", x, InFilter) = Encoded("Filter", x)
  <2> DEFINE m == "Filter"
  <2>1. m \in DOMAIN Desc /\ x \in ValuesOf(m)
    BY MessagesAre
  <2>2. \A k \in 1 .. Size(m, x) : /\ TypeAt(m, x, k) = "Comparator"
                                   /\ ValueAt(m, x, k) \in ValuesOf(TypeAt(m, x, k))
    BY <1>2, <2>1
  <2> HIDE DEF m
  <2> DEFINE c == [k \in 1 .. Size(m, x) |-> TagAt(m, x, k) \o InFilter(TypeAt(m, x, k), ValueAt(m, x, k))]
             d == [k \in 1 .. Size(m, x) |-> TagAt(m, x, k) \o InQuery(TypeAt(m, x, k), ValueAt(m, x, k))]
  <2>3. c = d
    BY <1>6, <2>2
  <2>4. Encoded(m, x) = FlattenSeq(d)
    BY <2>1, QueryFieldsAre
  <2>6. Fields(m, x, InFilter) = FlattenSeq(c)
    BY <2>1, FilterFieldsAre
  <2> HIDE DEF c, d
  <2>7. Fields(m, x, InFilter) = Encoded(m, x)
    BY <2>3, <2>4, <2>6
  <2> QED BY <2>7 DEF m
<1>8. ASSUME NEW x \in ValuesOf("Filter")
      PROVE  InQuery("Filter", x) = Payload("Filter", x)
  BY <1>7 DEF InQuery, Payload
<1>9. ASSUME NEW k \in 1 .. Size(msg, w)
      PROVE  InQuery(TypeAt(msg, w, k), ValueAt(msg, w, k)) = Payload(TypeAt(msg, w, k), ValueAt(msg, w, k))
  <2>1. /\ TypeAt(msg, w, k) \in Scalars \cup {"KeyValuePair", "Comparator", "ValueSetting", "Filter"}
        /\ ValueAt(msg, w, k) \in ValuesOf(TypeAt(msg, w, k))
    BY <1>2, MessagesAre
  <2> QED BY <1>4, <1>6, <1>8, <2>1
<1> DEFINE d == [k \in 1 .. Size(msg, w) |-> TagAt(msg, w, k) \o InQuery(TypeAt(msg, w, k), ValueAt(msg, w, k))]
<1>10. d = Parts(msg, w)
  BY <1>9 DEF Parts, Part
<1>11. Encoded(msg, w) = FlattenSeq(d)
  BY QueryFieldsAre
<1> HIDE DEF d
<1> QED BY <1>10, <1>11

\* A scalar is sent as bytes.
LEMMA ScalarBytes ==
    ASSUME NEW type \in Scalars, NEW v \in ValuesOf(type)
    PROVE  Scalar(type, v) \in Seq(Byte)
<1>1. CASE type = "int32"
  <2>1. v \in Numbers(IntBits)
    BY <1>1 DEF ValuesOf
  <2>2. Unsigned(v) \in Nat
    BY <2>1, SignedIs
  <2> QED BY <1>1, <2>2, VarintBytes DEF Scalar
<1>2. CASE type = "int64"
  <2>1. v \in Numbers(LongBits)
    BY <1>2 DEF ValuesOf
  <2>2. Unsigned(v) \in Nat
    BY <2>1, SignedIs
  <2> QED BY <1>2, <2>2, VarintBytes DEF Scalar
<1>3. CASE type = "float"
  <2>1. v \in [1 .. 4 -> Byte]
    BY <1>3 DEF ValuesOf, Floats
  <2>2. v \in Seq(Byte)
    <3>1. \E n \in Nat : v \in [1 .. n -> Byte]
      <4>1. 4 \in Nat
        OBVIOUS
      <4> QED BY <2>1, <4>1
    <3> QED BY <3>1, SeqDef
  <2> QED BY <1>3, <2>2 DEF Scalar
<1>4. CASE type = "string"
  <2>1. v \in Seq(Byte)
    BY <1>4 DEF ValuesOf, Strings
  <2> QED BY <1>4, <2>1, LengthFirstIs DEF Scalar
<1> QED BY <1>1, <1>2, <1>3, <1>4 DEF Scalars

\* The tag in front of the k-th field, as a number.
TagNumber(msg, w, k) == FieldAt(msg, w, k) * 8 + WireType(TypeAt(msg, w, k))

\* The tag says which field it is and how it is sent.
LEMMA TagIs ==
    ASSUME NEW msg \in DOMAIN Desc, NEW w \in ValuesOf(msg), NEW k \in 1 .. Size(msg, w)
    PROVE  LET n == TagNumber(msg, w, k)
           IN  /\ TagAt(msg, w, k) = Varint(n)
               /\ n \in Nat /\ n < 2 ^ IntBits
               /\ n \div 8 = FieldAt(msg, w, k) /\ n % 8 = WireType(TypeAt(msg, w, k))
               /\ TagAt(msg, w, k) \in Seq(Byte) /\ Len(TagAt(msg, w, k)) \in Nat \ {0}
<1> DEFINE f == FieldAt(msg, w, k)
           t == WireType(TypeAt(msg, w, k))
           d == 2 ^ IntBits
           n == f * 8 + t
<1>1. f \in 1 .. 5
  BY FieldsAt
<1>2. t \in {0, 2, 5}
  BY DEF WireType
<1>3. d \in Nat /\ 128 <= d
  <2>1. d = 16 * Many(IntGroups) /\ IntGroups \in Nat \ {0} /\ 7 * IntGroups <= LongBits
    BY WidthsAre, WidthAssumption
  <2>2. Many(IntGroups) = 128 * Many(IntGroups - 1)
    BY <2>1, ManyIs
  <2>3. Many(IntGroups - 1) \in Nat \ {0}
    <3>1. IntGroups - 1 \in Nat /\ 7 * (IntGroups - 1) <= LongBits
      BY <2>1, WidthsAre
    <3> QED BY <3>1, ManyIs
  <2> DEFINE x == Many(IntGroups - 1)
  <2>4. d = 16 * (128 * x) /\ x \in Nat \ {0}
    BY <2>1, <2>2, <2>3
  <2> HIDE DEF d, x
  <2> QED BY <2>4
<1>4. TagAt(msg, w, k) = Varint(n)
  BY DEF TagAt, TagOf
<1> HIDE DEF f, t, d
<1>5. n \in Nat /\ n < d /\ n \div 8 = f /\ n % 8 = t
  <2>1. CASE t = 0
    BY <1>1, <1>3, <2>1
  <2>2. CASE t = 2
    BY <1>1, <1>3, <2>2
  <2>3. CASE t = 5
    BY <1>1, <1>3, <2>3
  <2> QED BY <1>2, <2>1, <2>2, <2>3
<1> HIDE DEF n
<1>6. Varint(n) \in Seq(Byte) /\ Len(Varint(n)) \in Nat \ {0}
  BY <1>5, VarintBytes
<1>7. n = TagNumber(msg, w, k)
  BY DEF TagNumber, n, f, t
<1> QED BY <1>4, <1>5, <1>6, <1>7 DEF f, t, d

\* Whatever is in its fields, a message of them is a sequence of bytes.
LEMMA PartsBytes ==
    ASSUME NEW msg \in DOMAIN Desc, NEW w \in ValuesOf(msg),
           \A k \in 1 .. Size(msg, w) : Payload(TypeAt(msg, w, k), ValueAt(msg, w, k)) \in Seq(Byte)
    PROVE  /\ Parts(msg, w) \in Seq(Seq(Byte)) /\ Len(Parts(msg, w)) = Size(msg, w)
           /\ Encoded(msg, w) \in Seq(Byte)
<1> DEFINE n == Size(msg, w)
           p == Parts(msg, w)
           S == Seq(Byte)
<1>1. n \in Nat
  BY FieldsAt
<1>2. ASSUME NEW k \in 1 .. n PROVE Part(msg, w, k) \in S
  <2> DEFINE a == TagAt(msg, w, k)
             b == Payload(TypeAt(msg, w, k), ValueAt(msg, w, k))
  <2>1. a \in Seq(Byte) /\ b \in Seq(Byte)
    BY TagIs
  <2> HIDE DEF a, b
  <2>2. a \o b \in Seq(Byte)
    BY <2>1, Joined
  <2> QED BY <2>2 DEF Part, a, b
<1>3. p \in [1 .. n -> S]
  BY <1>2 DEF Parts
<1>4. DOMAIN p = 1 .. n
  BY <1>3
<1> HIDE DEF p, n, S
<1>5. p \in Seq(S)
  BY <1>1, <1>3, SeqDef
<1>6. Len(p) = n
  BY <1>1, <1>4, <1>5, LenProperties
<1>7. IsRest(RestOf(p), p)
  BY <1>5, RestOfIs DEF S
<1>8. FlattenSeq(p) \in S
  <2>1. 0 \in 0 .. Len(p)
    BY <1>1, <1>6
  <2> QED BY <1>7, <2>1 DEF IsRest, S
<1>9. Encoded(msg, w) = FlattenSeq(p)
  BY EncodedIs DEF p
<1> QED BY <1>5, <1>6, <1>8, <1>9 DEF p, n, S

\* So is what is in a field.
LEMMA PayloadBytes ==
    ASSUME NEW msg \in DOMAIN Desc, NEW w \in ValuesOf(msg), NEW k \in 1 .. Size(msg, w)
    PROVE  Payload(TypeAt(msg, w, k), ValueAt(msg, w, k)) \in Seq(Byte)
<1>1. \A type \in Scalars : \A x \in ValuesOf(type) : Payload(type, x) \in Seq(Byte)
  BY ScalarBytes, NoScalarIsMessage DEF Payload
<1>2. ASSUME NEW m \in DOMAIN Desc, NEW x \in ValuesOf(m), NEW i \in 1 .. Size(m, x)
      PROVE  /\ m \in {"KeyValuePair", "Response"} => TypeAt(m, x, i) \in Scalars
             /\ m \in {"Comparator", "ValueSetting"} => TypeAt(m, x, i) \in Scalars \cup {"KeyValuePair"}
             /\ m = "Filter" => TypeAt(m, x, i) = "Comparator"
             /\ m = "Query" => TypeAt(m, x, i) \in Scalars \cup {"Filter", "ValueSetting"}
             /\ ValueAt(m, x, i) \in ValuesOf(TypeAt(m, x, i))
  <2>1. FieldAt(m, x, i) \in DOMAIN Desc[m] /\ ValueAt(m, x, i) \in ValuesOf(TypeAt(m, x, i))
    BY <1>2, FieldsAt
  <2> QED BY <2>1, Inner DEF TypeAt
<1>3. ASSUME NEW type \in DOMAIN Desc, NEW x \in ValuesOf(type), Encoded(type, x) \in Seq(Byte)
      PROVE  Payload(type, x) \in Seq(Byte)
  BY <1>3, LengthFirstIs, NoScalarIsMessage DEF Payload
<1>4. "KeyValuePair" \in DOMAIN Desc /\ "Comparator" \in DOMAIN Desc
      /\ "ValueSetting" \in DOMAIN Desc /\ "Filter" \in DOMAIN Desc
  BY MessagesAre
<1>5. ASSUME NEW type \in {"KeyValuePair"}, NEW x \in ValuesOf(type)
      PROVE  Payload(type, x) \in Seq(Byte)
  <2>1. type \in DOMAIN Desc
    BY <1>4
  <2>2. \A i \in 1 .. Size(type, x) : Payload(TypeAt(type, x, i), ValueAt(type, x, i)) \in Seq(Byte)
    BY <1>1, <1>2, <2>1
  <2>3. Encoded(type, x) \in Seq(Byte)
    BY <2>1, <2>2, PartsBytes
  <2> QED BY <1>3, <2>1, <2>3
<1>6. ASSUME NEW type \in {"Comparator", "ValueSetting"}, NEW x \in ValuesOf(type)
      PROVE  Payload(type, x) \in Seq(Byte)
  <2>1. type \in DOMAIN Desc
    BY <1>4
  <2>2. \A i \in 1 .. Size(type, x) : Payload(TypeAt(type, x, i), ValueAt(type, x, i)) \in Seq(Byte)
    BY <1>1, <1>2, <1>5, <2>1
  <2>3. Encoded(type, x) \in Seq(Byte)
    BY <2>1, <2>2, PartsBytes
  <2> QED BY <1>3, <2>1, <2>3
<1>7. ASSUME NEW type \in {"Filter"}, NEW x \in ValuesOf(type)
      PROVE  Payload(type, x) \in Seq(Byte)
  <2>1. type \in DOMAIN Desc
    BY <1>4
  <2>2. \A i \in 1 .. Size(type, x) : Payload(TypeAt(type, x, i), ValueAt(type, x, i)) \in Seq(Byte)
    BY <1>2, <1>6, <2>1
  <2>3. Encoded(type, x) \in Seq(Byte)
    BY <2>1, <2>2, PartsBytes
  <2> QED BY <1>3, <2>1, <2>3
<1>8. /\ TypeAt(msg, w, k) \in Scalars \cup {"KeyValuePair", "Comparator", "ValueSetting", "Filter"}
      /\ ValueAt(msg, w, k) \in ValuesOf(TypeAt(msg, w, k))
  BY <1>2, MessagesAre
<1> QED BY <1>1, <1>5, <1>6, <1>7, <1>8

\* What of a message follows its k-th field.
Rest(msg, w, k) == RestOf(Parts(msg, w))[k]

\* The rest of a message begins with its next field.
LEMMA RestIs ==
    ASSUME NEW msg \in DOMAIN Desc, NEW w \in ValuesOf(msg)
    PROVE  /\ Size(msg, w) \in Nat
           /\ \A k \in 0 .. Size(msg, w) : Rest(msg, w, k) \in Seq(Byte)
           /\ Rest(msg, w, Size(msg, w)) = <<>>
           /\ Rest(msg, w, 0) = Encoded(msg, w)
           /\ \A k \in 1 .. Size(msg, w) : Rest(msg, w, k - 1) = Part(msg, w, k) \o Rest(msg, w, k)
<1>1. \A k \in 1 .. Size(msg, w) : Payload(TypeAt(msg, w, k), ValueAt(msg, w, k)) \in Seq(Byte)
  BY PayloadBytes
<1>2. Parts(msg, w) \in Seq(Seq(Byte)) /\ Len(Parts(msg, w)) = Size(msg, w)
  BY <1>1, PartsBytes
<1>3. IsRest(RestOf(Parts(msg, w)), Parts(msg, w))
  BY <1>2, RestOfIs
<1>4. \A k \in 1 .. Size(msg, w) : Parts(msg, w)[k] = Part(msg, w, k)
  BY DEF Parts
<1>5. Size(msg, w) \in Nat
  BY FieldsAt
<1>6. Encoded(msg, w) = FlattenSeq(Parts(msg, w))
  BY EncodedIs
<1> DEFINE r == RestOf(Parts(msg, w))
           n == Size(msg, w)
           p == Parts(msg, w)
<1>7. /\ r \in [0 .. n -> Seq(Byte)]
      /\ r[n] = <<>>
      /\ \A k \in 1 .. n : r[k - 1] = p[k] \o r[k]
      /\ r[0] = FlattenSeq(p)
  BY <1>2, <1>3 DEF IsRest
<1>8. \A k : Rest(msg, w, k) = r[k]
  BY DEF Rest
<1> HIDE DEF r, n, p
<1>9. \A k \in 0 .. n : r[k] \in Seq(Byte)
  BY <1>7
<1> QED BY <1>4, <1>5, <1>6, <1>7, <1>8, <1>9 DEF n, p

\* The next field is its tag, what is in it, and what follows.
Continues(msg, w, k) ==
    LET a == TagAt(msg, w, k)
        b == Payload(TypeAt(msg, w, k), ValueAt(msg, w, k))
        c == Rest(msg, w, k)
    IN  /\ a \in Seq(Byte) /\ b \in Seq(Byte) /\ c \in Seq(Byte)
        /\ Len(a) \in Nat \ {0} /\ Len(b) \in Nat /\ Len(c) \in Nat
        /\ Rest(msg, w, k - 1) = a \o (b \o c)
        /\ Len(Rest(msg, w, k - 1)) = Len(a) + Len(b) + Len(c)
        /\ \A g \in Seq(Byte) : Rest(msg, w, k - 1) \o g = a \o (b \o (c \o g))

\* So it is with every field.
LEMMA NextField ==
    ASSUME NEW msg \in DOMAIN Desc, NEW w \in ValuesOf(msg), NEW k \in 1 .. Size(msg, w)
    PROVE  Continues(msg, w, k)
<1> DEFINE a == TagAt(msg, w, k)
           b == Payload(TypeAt(msg, w, k), ValueAt(msg, w, k))
           c == Rest(msg, w, k)
           d == Rest(msg, w, k - 1)
<1>1. a \in Seq(Byte) /\ Len(a) \in Nat \ {0}
  BY TagIs
<1>2. b \in Seq(Byte)
  BY PayloadBytes
<1>3. c \in Seq(Byte)
  <2>1. k \in 0 .. Size(msg, w)
    BY RestIs
  <2> QED BY <2>1, RestIs
<1>4. d = (a \o b) \o c
  BY RestIs DEF Part
<1> HIDE DEF a, b, c, d
<1>5. d = a \o (b \o c)
  BY <1>1, <1>2, <1>3, <1>4, JoinedTwice
<1>6. b \o c \in Seq(Byte) /\ Len(b \o c) = Len(b) + Len(c)
  BY <1>2, <1>3, Joined
<1>7. Len(d) = Len(a) + Len(b \o c)
  BY <1>1, <1>5, <1>6, Joined
<1>8. Len(a) \in Nat /\ Len(b) \in Nat /\ Len(c) \in Nat
  BY <1>1, <1>2, <1>3, LenProperties
<1>9. Len(d) = Len(a) + Len(b) + Len(c)
  BY <1>6, <1>7, <1>8
<1>10. ASSUME NEW g \in Seq(Byte) PROVE d \o g = a \o (b \o (c \o g))
  <2>1. (a \o (b \o c)) \o g = a \o ((b \o c) \o g)
    BY <1>1, <1>6, JoinedTwice
  <2>2. (b \o c) \o g = b \o (c \o g)
    BY <1>2, <1>3, JoinedTwice
  <2> QED BY <1>5, <2>1, <2>2
<1> QED BY <1>1, <1>2, <1>3, <1>5, <1>8, <1>9, <1>10 DEF a, b, c, d, Continues

\* What follows the last field is nothing, and only that.
LEMMA RestEnds ==
    ASSUME NEW msg \in DOMAIN Desc, NEW w \in ValuesOf(msg), NEW k \in 0 .. Size(msg, w)
    PROVE  /\ Rest(msg, w, k) \in Seq(Byte) /\ Len(Rest(msg, w, k)) \in Nat
           /\ Len(Rest(msg, w, k)) = 0 <=> k = Size(msg, w)
           /\ Len(Rest(msg, w, k)) # 0 => k + 1 \in 1 .. Size(msg, w) /\ k + 1 - 1 = k
<1>1. Rest(msg, w, k) \in Seq(Byte) /\ Size(msg, w) \in Nat
  BY RestIs
<1>2. Len(Rest(msg, w, k)) \in Nat
  BY <1>1, LenProperties
<1>3. CASE k = Size(msg, w)
  <2>1. Rest(msg, w, k) = <<>>
    BY <1>3, RestIs
  <2> QED BY <1>1, <1>3, <2>1
<1>4. CASE k # Size(msg, w)
  <2>1. k + 1 \in 1 .. Size(msg, w) /\ k + 1 - 1 = k
    BY <1>1, <1>4
  <2> DEFINE j == k + 1
             x == Len(TagAt(msg, w, j))
             y == Len(Payload(TypeAt(msg, w, j), ValueAt(msg, w, j)))
             z == Len(Rest(msg, w, j))
  <2>2. x \in Nat \ {0} /\ y \in Nat /\ z \in Nat /\ Len(Rest(msg, w, j - 1)) = x + y + z
    <3>1. Continues(msg, w, k + 1)
      BY <2>1, NextField
    <3> QED BY <2>1, <3>1 DEF Continues
  <2>3. j - 1 = k
    BY <2>1
  <2> HIDE DEF x, y, z, j
  <2>4. Len(Rest(msg, w, k)) # 0
    BY <2>2, <2>3
  <2> QED BY <1>1, <1>2, <1>4, <2>1, <2>4
<1> QED BY <1>3, <1>4

\* A number below the range of a length takes no more bytes than that range.
LEMMA VarintShort ==
    ASSUME NEW n \in Nat, NEW d \in Nat \ {0}, n < d
    PROVE  Len(Varint(n)) <= d
<1>1. PICK m \in Nat : IsForm(Varint(n), n, m)
  BY VarintIs
<1>2. Len(Varint(n)) = m + 1 /\ (m > 0 => Shifted(n, m - 1) >= 128)
  BY <1>1 DEF IsForm
<1> DEFINE Falls(i) == Shifted(n, i) = 0 \/ Shifted(n, i) + i <= n
           T == {i \in Nat : ~ Falls(i)}
<1>3. Falls(0)
  BY ShiftedIs
<1>4. ASSUME NEW i \in Nat, Falls(i) PROVE Falls(i + 1)
  <2> DEFINE x == Shifted(n, i)
             y == Shifted(n, i + 1)
  <2>1. x \in Nat /\ y = x \div 128
    BY ShiftedIs
  <2>2. x = 0 \/ x + i <= n
    BY <1>4
  <2> HIDE DEF x, y
  <2>3. y = 0 \/ y + (i + 1) <= n
    BY <2>1, <2>2
  <2> QED BY <2>3 DEF x, y
<1> HIDE DEF Falls
<1>5. T = {}
  <2> SUFFICES ASSUME T # {} PROVE FALSE
    OBVIOUS
  <2>1. T \in SUBSET Nat
    OBVIOUS
  <2>2. PICK k \in T : \A j \in T : k <= j
    BY <2>1, LeastOf
  <2>3. k \in Nat /\ ~ Falls(k)
    OBVIOUS
  <2>4. k - 1 \in Nat /\ k - 1 + 1 = k
    BY <1>3, <2>3
  <2>5. k - 1 \notin T
    <3>1. \A j \in T : k <= j
      BY <2>2
    <3> HIDE DEF T
    <3> QED BY <2>3, <2>4, <3>1
  <2>6. Falls(k - 1)
    BY <2>4, <2>5
  <2> QED BY <1>4, <2>3, <2>4, <2>6
<1>6. CASE m > 0
  <2>1. m - 1 \in Nat /\ Shifted(n, m - 1) \in Nat
    BY <1>6, ShiftedIs
  <2>2. Falls(m - 1)
    BY <1>5, <2>1
  <2>3. Shifted(n, m - 1) = 0 \/ Shifted(n, m - 1) + (m - 1) <= n
    BY <2>2 DEF Falls
  <2>4. Shifted(n, m - 1) >= 128
    BY <1>2, <1>6
  <2> DEFINE x == Shifted(n, m - 1)
  <2>5. x \in Nat /\ x >= 128 /\ (x = 0 \/ x + (m - 1) <= n)
    BY <2>1, <2>3, <2>4
  <2> HIDE DEF x
  <2>6. m + 1 <= d
    BY <2>5
  <2> QED BY <1>2, <2>6
<1>7. CASE m = 0
  BY <1>2, <1>7
<1> QED BY <1>6, <1>7

----------------------------------------------------------------------------
(* The value of a message of which only the first fields were read *)

\* Two lists are the same if they have the same entries.
LEMMA ListEqual ==
    ASSUME NEW s, IsList(s), NEW t, IsList(t), Len(s) = Len(t),
           \A i \in 1 .. Len(s) : s[i] = t[i]
    PROVE  s = t
<1> DEFINE n == Len(s)
<1>1. DOMAIN s = 1 .. n /\ DOMAIN t = 1 .. n
  BY ListIs
<1>2. s = [i \in DOMAIN s |-> s[i]] /\ t = [i \in DOMAIN t |-> t[i]]
  BY DEF IsList
<1>3. \A i \in 1 .. n : s[i] = t[i]
  OBVIOUS
<1> HIDE DEF n
<1> QED BY <1>1, <1>2, <1>3

\* The first entries of a list, one more, none and all of them.
LEMMA HeadOn ==
    ASSUME NEW s, IsList(s), NEW n \in 1 .. Len(s)
    PROVE  SubSeq(s, 1, n) = Append(SubSeq(s, 1, n - 1), s[n])
<1> DEFINE a == SubSeq(s, 1, n - 1)
           b == SubSeq(s, 1, n)
           c == Append(a, s[n])
<1>1. Len(s) \in Nat /\ n - 1 \in 0 .. Len(s) /\ n \in 0 .. Len(s)
  BY ListIs
<1>2. IsList(a) /\ Len(a) = n - 1 /\ \A i \in 1 .. n - 1 : a[i] = s[i]
  BY <1>1, ListSub
<1>3. IsList(b) /\ Len(b) = n /\ \A i \in 1 .. n : b[i] = s[i]
  BY <1>1, ListSub
<1> HIDE DEF a, b
<1>4. /\ IsList(c) /\ Len(c) = Len(a) + 1
      /\ \A i \in 1 .. Len(a) : c[i] = a[i]
      /\ c[Len(a) + 1] = s[n]
  BY <1>2, ListAppend
<1> HIDE DEF c
<1>5. Len(c) = n /\ c[n] = s[n] /\ \A i \in 1 .. n - 1 : c[i] = s[i]
  <2>1. n - 1 + 1 = n
    BY <1>1
  <2> QED BY <1>2, <1>4, <2>1
<1>6. \A i \in 1 .. n : b[i] = c[i]
  <2> SUFFICES ASSUME NEW i \in 1 .. n PROVE b[i] = c[i]
    OBVIOUS
  <2>1. i = n \/ i \in 1 .. n - 1
    BY <1>1
  <2> QED BY <1>3, <1>5, <2>1
<1>7. b = c
  BY <1>3, <1>4, <1>5, <1>6, ListEqual
<1> QED BY <1>7 DEF a, b, c

\* All and none of a list.
LEMMA HeadAll ==
    ASSUME NEW s, IsList(s)
    PROVE  SubSeq(s, 1, Len(s)) = s /\ SubSeq(s, 1, 0) = <<>>
<1>1. Len(s) \in Nat /\ Len(s) \in 0 .. Len(s) /\ 0 \in 0 .. Len(s)
  BY ListIs
<1> DEFINE a == SubSeq(s, 1, Len(s))
           b == SubSeq(s, 1, 0)
<1>2. IsList(a) /\ Len(a) = Len(s) /\ \A i \in 1 .. Len(s) : a[i] = s[i]
  BY <1>1, ListSub
<1>3. IsList(b) /\ Len(b) = 0
  BY <1>1, ListSub
<1> HIDE DEF a, b
<1>4. a = s
  BY <1>2, ListEqual
<1>5. b = <<>>
  BY <1>3, NotEmpty
<1> QED BY <1>4, <1>5 DEF a, b

Clip(n, m) == IF n < 0 THEN 0 ELSE IF n < m THEN n ELSE m

ReadTo(msg, w, k) ==
    IF msg = "Query"
    THEN << IF k >= 1 THEN w[1] ELSE 0,
            SubSeq(w[2], 1, Clip(k - 1, Len(w[2]))),
            SubSeq(w[3], 1, Clip(k - 1 - Len(w[2]), Len(w[3]))) >>
    ELSE IF msg = "Filter" THEN << SubSeq(w[1], 1, k) >>
    ELSE [i \in DOMAIN Desc[msg] |-> IF i <= k THEN w[i] ELSE Zeros[msg][i]]

\* A field that was read goes to its place.
Put(msg, v, n, x) ==
    IF Desc[msg][n].rule = "repeated" THEN [v EXCEPT ![n] = Append(@, x)]
    ELSE [v EXCEPT ![n] = x]

\* What these messages hold before they are read has one part for each field.
LEMMA ZerosAre ==
    ASSUME NEW msg \in Flat
    PROVE  Zeros[msg] = [i \in DOMAIN Desc[msg] |-> Zeros[msg][i]]
<1>1. CASE msg = "ValueSetting"
  BY <1>1, FieldsAre DEF Zeros
<1>2. CASE msg = "Comparator"
  BY <1>2, FieldsAre DEF Zeros
<1>3. CASE msg = "KeyValuePair"
  BY <1>3, FieldsAre DEF Zeros, ZeroPair
<1>4. CASE msg = "Response"
  BY <1>4, FieldsAre DEF Zeros
<1> QED BY <1>1, <1>2, <1>3, <1>4 DEF Flat

\* No field read is what the struct is set to; all fields read are the whole value.
LEMMA ReadNoneAll ==
    ASSUME NEW msg \in DOMAIN Desc, NEW w \in ValuesOf(msg)
    PROVE  ReadTo(msg, w, 0) = Zeros[msg] /\ ReadTo(msg, w, Size(msg, w)) = w
<1>1. CASE msg = "Query"
  <2>1. /\ w = <<w[1], w[2], w[3]>>
        /\ w[2] \in Seq(ValuesOf("Filter")) /\ w[3] \in Seq(ValuesOf("ValueSetting"))
    BY <1>1, QueryValues
  <2> DEFINE a == w[2]
             b == w[3]
             m == Len(a)
             n == Len(b)
  <2>2. IsList(a) /\ IsList(b)
    BY <2>1, ListOf
  <2>3. SubSeq(a, 1, m) = a /\ SubSeq(a, 1, 0) = <<>> /\ SubSeq(b, 1, n) = b /\ SubSeq(b, 1, 0) = <<>>
    BY <2>2, HeadAll
  <2>4. m \in Nat /\ n \in Nat
    BY <2>2, ListIs
  <2>5. Size(msg, w) = 1 + m + n
    BY <1>1 DEF Size
  <2>6. \A k : ReadTo(msg, w, k) = << IF k >= 1 THEN w[1] ELSE 0,
                                     SubSeq(a, 1, Clip(k - 1, m)), SubSeq(b, 1, Clip(k - 1 - m, n)) >>
    BY <1>1 DEF ReadTo
  <2>7. Zeros[msg] = <<0, <<>>, <<>>>>
    BY <1>1 DEF Zeros
  <2>8. w = <<w[1], a, b>>
    BY <2>1
  <2> HIDE DEF a, b, m, n
  <2>9. Clip(0 - 1, m) = 0 /\ Clip(0 - 1 - m, n) = 0
    BY <2>4 DEF Clip
  <2> DEFINE z == 1 + m + n
  <2>10. Clip(z - 1, m) = m /\ Clip(z - 1 - m, n) = n /\ z >= 1
    BY <2>4 DEF Clip
  <2> HIDE DEF z
  <2>11. ReadTo(msg, w, 0) = <<0, <<>>, <<>>>>
    <3>1. ReadTo(msg, w, 0) = << IF 0 >= 1 THEN w[1] ELSE 0,
                                     SubSeq(a, 1, Clip(0 - 1, m)), SubSeq(b, 1, Clip(0 - 1 - m, n)) >>
      BY <2>6
    <3>2. ~ (0 >= 1)
      OBVIOUS
    <3> QED BY <2>3, <2>9, <3>1, <3>2
  <2>12. ReadTo(msg, w, z) = <<w[1], a, b>>
    <3>1. ReadTo(msg, w, z) = << IF z >= 1 THEN w[1] ELSE 0,
                                     SubSeq(a, 1, Clip(z - 1, m)), SubSeq(b, 1, Clip(z - 1 - m, n)) >>
      BY <2>6
    <3> QED BY <2>3, <2>10, <3>1
  <2> QED BY <2>5, <2>7, <2>8, <2>11, <2>12 DEF z
<1>2. CASE msg = "Filter"
  <2>1. w = <<w[1]>> /\ w[1] \in Seq(ValuesOf("Comparator"))
    BY <1>2, FilterValues
  <2>2. IsList(w[1])
    BY <2>1, ListOf
  <2>3. SubSeq(w[1], 1, Len(w[1])) = w[1] /\ SubSeq(w[1], 1, 0) = <<>>
    BY <2>2, HeadAll
  <2>4. Zeros[msg] = << <<>> >>
    BY <1>2 DEF Zeros
  <2>5. Size(msg, w) = Len(w[1])
    BY <1>2 DEF Size
  <2>6. \A k : ReadTo(msg, w, k) = << SubSeq(w[1], 1, k) >>
    BY <1>2 DEF ReadTo
  <2> QED BY <2>1, <2>3, <2>4, <2>5, <2>6
<1>3. CASE msg \in Flat
  <2>1. msg # "Query" /\ msg # "Filter"
    BY <1>3, FlatFields
  <2>2. PICK n \in 1 .. 5 : DOMAIN Desc[msg] = 1 .. n /\ Len(Desc[msg]) = n
    BY <1>3, FlatFields
  <2>3. Size(msg, w) = n
    BY <2>1, <2>2 DEF Size
  <2>4. \A k : ReadTo(msg, w, k) = [i \in 1 .. n |-> IF i <= k THEN w[i] ELSE Zeros[msg][i]]
    BY <2>1, <2>2 DEF ReadTo
  <2>5. Zeros[msg] = [i \in 1 .. n |-> Zeros[msg][i]]
    BY <1>3, <2>2, ZerosAre
  <2>6. w = [i \in 1 .. n |-> w[i]]
    BY <1>3, <2>2, FlatValues
  <2>7. ReadTo(msg, w, 0) = [i \in 1 .. n |-> Zeros[msg][i]]
    <3>1. \A i \in 1 .. n : ~ (i <= 0)
      OBVIOUS
    <3> QED BY <2>4, <3>1
  <2>8. ReadTo(msg, w, n) = [i \in 1 .. n |-> w[i]]
    <3>1. \A i \in 1 .. n : i <= n
      OBVIOUS
    <3> QED BY <2>4, <3>1
  <2> QED BY <2>3, <2>5, <2>6, <2>7, <2>8
<1> QED BY <1>1, <1>2, <1>3, MessagesAre DEF Flat


\* The next field goes to its place, which is there and not yet used.
LEMMA ReadOn ==
    ASSUME NEW msg \in DOMAIN Desc, NEW w \in ValuesOf(msg), NEW k \in 1 .. Size(msg, w)
    PROVE  LET n == FieldAt(msg, w, k)
               before == ReadTo(msg, w, k - 1)
           IN  /\ ReadTo(msg, w, k) = Put(msg, before, n, ValueAt(msg, w, k))
               /\ Desc[msg][n].rule = "repeated" => Len(before[n]) < MaxCount
               /\ Desc[msg][n].rule = "required" => before[n] = Zeros[msg][n]
<1>1. CASE msg = "Query"
  <2>1. /\ w[2] \in Seq(ValuesOf("Filter")) /\ w[3] \in Seq(ValuesOf("ValueSetting"))
        /\ Len(w[2]) <= MaxCount /\ Len(w[3]) <= MaxCount
    BY <1>1, QueryValues
  <2> DEFINE a == w[2]
             b == w[3]
             m == Len(a)
             n == Len(b)
             x == ValueAt(msg, w, k)
             f == FieldAt(msg, w, k)
  <2>2. IsList(a) /\ IsList(b) /\ Len(a) <= MaxCount /\ Len(b) <= MaxCount
    BY <2>1, ListOf
  <2>3. m \in Nat /\ n \in Nat /\ m <= MaxCount /\ n <= MaxCount /\ MaxCount \in Nat
    BY <2>2, ListIs, WidthAssumption
  <2>4. k \in 1 .. 1 + m + n
    BY <1>1 DEF Size
  <2>5. \A j : ReadTo(msg, w, j) = << IF j >= 1 THEN w[1] ELSE 0,
                                     SubSeq(a, 1, Clip(j - 1, m)), SubSeq(b, 1, Clip(j - 1 - m, n)) >>
    BY <1>1 DEF ReadTo
  <2>6. /\ f = IF k = 1 THEN 1 ELSE IF k <= 1 + m THEN 2 ELSE 3
        /\ x = IF k = 1 THEN w[1] ELSE IF k <= 1 + m THEN a[k - 1] ELSE b[k - 1 - m]
    BY <1>1 DEF FieldAt, ValueAt
  <2>7. \A i \in 1 .. m : SubSeq(a, 1, i) = Append(SubSeq(a, 1, i - 1), a[i])
    BY <2>2, HeadOn
  <2>8. \A i \in 1 .. n : SubSeq(b, 1, i) = Append(SubSeq(b, 1, i - 1), b[i])
    BY <2>2, HeadOn
  <2>9. /\ Desc[msg][1].rule = "required" /\ Desc[msg][2].rule = "repeated"
        /\ Desc[msg][3].rule = "repeated" /\ Zeros[msg][1] = 0
    BY <1>1, TypesAre, RuleAndType DEF Zeros
  <2>10. (\A i \in 0 .. m : Len(SubSeq(a, 1, i)) = i) /\ (\A i \in 0 .. n : Len(SubSeq(b, 1, i)) = i)
    BY <2>2, ListSub
  <2> HIDE DEF a, b, m, n
  <2>11. /\ ReadTo(msg, w, k) = << w[1], SubSeq(a, 1, Clip(k - 1, m)), SubSeq(b, 1, Clip(k - 1 - m, n)) >>
         /\ ReadTo(msg, w, k - 1) = << IF k = 1 THEN 0 ELSE w[1],
                SubSeq(a, 1, Clip(k - 1 - 1, m)), SubSeq(b, 1, Clip(k - 1 - 1 - m, n)) >>
    <3>1. ReadTo(msg, w, k - 1) = << IF k - 1 >= 1 THEN w[1] ELSE 0,
                SubSeq(a, 1, Clip(k - 1 - 1, m)), SubSeq(b, 1, Clip(k - 1 - 1 - m, n)) >>
      BY <2>5
    <3>2. ReadTo(msg, w, k) = << IF k >= 1 THEN w[1] ELSE 0,
                SubSeq(a, 1, Clip(k - 1, m)), SubSeq(b, 1, Clip(k - 1 - m, n)) >>
      BY <2>5
    <3>3. k >= 1 /\ (k - 1 >= 1 <=> k # 1)
      BY <2>3, <2>4
    <3> QED BY <3>1, <3>2, <3>3
  <2> DEFINE r == ReadTo(msg, w, k)
             q == ReadTo(msg, w, k - 1)
             a1 == SubSeq(a, 1, Clip(k - 1, m))
             a0 == SubSeq(a, 1, Clip(k - 1 - 1, m))
             b1 == SubSeq(b, 1, Clip(k - 1 - m, n))
             b0 == SubSeq(b, 1, Clip(k - 1 - 1 - m, n))
             c0 == IF k = 1 THEN 0 ELSE w[1]
  <2>12. r = <<w[1], a1, b1>> /\ q = <<c0, a0, b0>>
    BY <2>11
  <2>13. CASE k = 1
    <3>1. Clip(k - 1, m) = 0 /\ Clip(k - 1 - 1, m) = 0 /\ Clip(k - 1 - m, n) = 0 /\ Clip(k - 1 - 1 - m, n) = 0
      BY <2>3, <2>13 DEF Clip
    <3>2. a1 = a0 /\ b1 = b0 /\ c0 = 0 /\ f = 1 /\ x = w[1]
      BY <2>6, <2>13, <3>1
    <3> HIDE DEF a1, a0, b1, b0, c0, f, x, r, q
    <3>3. r = [q EXCEPT ![1] = x] /\ q[1] = 0
      BY <2>12, <3>2
    <3>4. Put(msg, q, f, x) = [q EXCEPT ![1] = x]
      BY <2>9, <3>2 DEF Put
    <3> QED BY <2>9, <3>2, <3>3, <3>4 DEF r, q, f, x
  <2>14. CASE k # 1 /\ k <= 1 + m
    <3>1. /\ Clip(k - 1, m) = k - 1 /\ Clip(k - 1 - 1, m) = k - 1 - 1
          /\ Clip(k - 1 - m, n) = 0 /\ Clip(k - 1 - 1 - m, n) = 0 /\ k - 1 \in 1 .. m /\ k - 1 - 1 \in 0 .. m
      BY <2>3, <2>4, <2>14 DEF Clip
    <3>2. a1 = Append(a0, a[k - 1]) /\ b1 = b0 /\ c0 = w[1] /\ f = 2 /\ x = a[k - 1]
      BY <2>6, <2>7, <2>14, <3>1
    <3>3. Len(a0) = k - 1 - 1
      BY <2>10, <3>1
    <3>4. Len(a0) < MaxCount
      BY <2>3, <3>1, <3>3
    <3> HIDE DEF a1, a0, b1, b0, c0, f, x, r, q
    <3>5. q[2] = a0
      BY <2>12
    <3>6. r = [q EXCEPT ![2] = Append(@, x)]
      BY <2>12, <3>2, <3>5
    <3>7. Put(msg, q, f, x) = [q EXCEPT ![2] = Append(@, x)]
      BY <2>9, <3>2 DEF Put
    <3> QED BY <2>9, <3>2, <3>4, <3>5, <3>6, <3>7 DEF r, q, f, x
  <2>15. CASE ~ (k <= 1 + m)
    <3>1. /\ Clip(k - 1, m) = m /\ Clip(k - 1 - 1, m) = m
          /\ Clip(k - 1 - m, n) = k - 1 - m /\ Clip(k - 1 - 1 - m, n) = k - 1 - 1 - m
          /\ k - 1 - m \in 1 .. n /\ k - 1 - 1 - m \in 0 .. n /\ k - 1 - 1 - m = k - 1 - m - 1 /\ k # 1
      BY <2>3, <2>4, <2>15 DEF Clip
    <3>2. b1 = Append(b0, b[k - 1 - m]) /\ a1 = a0 /\ c0 = w[1] /\ f = 3 /\ x = b[k - 1 - m]
      BY <2>6, <2>8, <2>15, <3>1
    <3>3. Len(b0) = k - 1 - 1 - m
      BY <2>10, <3>1
    <3>4. Len(b0) < MaxCount
      BY <2>3, <3>1, <3>3
    <3> HIDE DEF a1, a0, b1, b0, c0, f, x, r, q
    <3>5. q[3] = b0
      BY <2>12
    <3>6. r = [q EXCEPT ![3] = Append(@, x)]
      <4>1. r = <<w[1], a0, Append(b0, x)>> /\ q = <<w[1], a0, b0>>
        BY <2>12, <3>2
      <4> DEFINE y == Append(b0, x)
      <4>2. [q EXCEPT ![3] = y] = <<w[1], a0, y>>
        <5> HIDE DEF y
        <5> QED BY <4>1
      <4> QED BY <3>5, <4>1, <4>2
    <3>7. Put(msg, q, f, x) = [q EXCEPT ![3] = Append(@, x)]
      BY <2>9, <3>2 DEF Put
    <3> QED BY <2>9, <3>2, <3>4, <3>5, <3>6, <3>7 DEF r, q, f, x
  <2> QED BY <2>13, <2>14, <2>15
<1>2. CASE msg = "Filter"
  <2>1. w[1] \in Seq(ValuesOf("Comparator")) /\ Len(w[1]) <= MaxCount
    BY <1>2, FilterValues
  <2>2. IsList(w[1]) /\ Len(w[1]) \in Nat /\ MaxCount \in Nat
    BY <2>1, ListOf, WidthAssumption
  <2>3. k \in 1 .. Len(w[1]) /\ k - 1 \in 0 .. Len(w[1]) /\ k - 1 < Len(w[1])
    BY <1>2, <2>2 DEF Size
  <2> DEFINE a0 == SubSeq(w[1], 1, k - 1)
             a1 == SubSeq(w[1], 1, k)
             x == w[1][k]
  <2>4. a1 = Append(a0, x)
    BY <2>2, <2>3, HeadOn
  <2>5. Len(a0) = k - 1
    BY <2>2, <2>3, ListSub
  <2>6. ReadTo(msg, w, k) = <<a1>> /\ ReadTo(msg, w, k - 1) = <<a0>>
    BY <1>2 DEF ReadTo
  <2>7. FieldAt(msg, w, k) = 1 /\ ValueAt(msg, w, k) = x
    BY <1>2 DEF FieldAt, ValueAt
  <2>8. Desc[msg][1].rule = "repeated"
    BY <1>2, TypesAre, RuleAndType
  <2>9. Len(a0) < MaxCount
    BY <2>1, <2>2, <2>3, <2>5
  <2> HIDE DEF a0, a1, x
  <2> DEFINE q == <<a0>>
  <2>10. q[1] = a0
    OBVIOUS
  <2>11. <<a1>> = [q EXCEPT ![1] = Append(@, x)]
    BY <2>4
  <2>12. Put(msg, q, 1, x) = [q EXCEPT ![1] = Append(@, x)]
    BY <2>8 DEF Put
  <2> HIDE DEF q
  <2>13. ReadTo(msg, w, k - 1) = q
    BY <2>6 DEF q
  <2> QED BY <2>6, <2>7, <2>8, <2>9, <2>10, <2>11, <2>12, <2>13
<1>3. CASE msg \in Flat
  <2>1. msg # "Query" /\ msg # "Filter"
    BY <1>3, FlatFields
  <2>2. PICK n \in 1 .. 5 : DOMAIN Desc[msg] = 1 .. n /\ Len(Desc[msg]) = n
    BY <1>3, FlatFields
  <2>3. \A i \in 1 .. n : Desc[msg][i].rule = "required"
    BY <1>3, <2>2, FlatFields
  <2>4. k \in 1 .. n
    BY <2>1, <2>2 DEF Size
  <2>5. \A j : ReadTo(msg, w, j) = [i \in 1 .. n |-> IF i <= j THEN w[i] ELSE Zeros[msg][i]]
    BY <2>1, <2>2 DEF ReadTo
  <2>6. FieldAt(msg, w, k) = k /\ ValueAt(msg, w, k) = w[k]
    BY <2>1 DEF FieldAt, ValueAt
  <2> DEFINE q == ReadTo(msg, w, k - 1)
             r == ReadTo(msg, w, k)
  <2>7. q = [i \in 1 .. n |-> IF i <= k - 1 THEN w[i] ELSE Zeros[msg][i]]
    BY <2>5
  <2>8. r = [i \in 1 .. n |-> IF i <= k THEN w[i] ELSE Zeros[msg][i]]
    BY <2>5
  <2> HIDE DEF q, r
  <2>9. r = [q EXCEPT ![k] = w[k]]
    <3>1. \A i \in 1 .. n : (i <= k <=> i <= k - 1 \/ i = k) /\ ~ (k <= k - 1)
      BY <2>4
    <3> QED BY <2>4, <2>7, <2>8, <3>1
  <2>10. q[k] = Zeros[msg][k]
    <3>1. ~ (k <= k - 1)
      BY <2>4
    <3> QED BY <2>4, <2>7, <3>1
  <2>11. Desc[msg][k].rule = "required"
    BY <2>3, <2>4
  <2>12. Put(msg, q, k, w[k]) = [q EXCEPT ![k] = w[k]]
    BY <2>11 DEF Put
  <2> QED BY <2>6, <2>9, <2>10, <2>11, <2>12 DEF q, r
<1> QED BY <1>1, <1>2, <1>3, MessagesAre DEF Flat

\* The required fields among the first of a message.
SeenTo(msg, k) == {j \in Required(msg) : j <= k}

\* The fields that must be there.
LEMMA RequiredAre ==
    /\ Required("Query") = {1} /\ Required("Filter") = {}
    /\ \A msg \in Flat : Required(msg) = DOMAIN Desc[msg]
<1>1. Required("Query") = {1}
  <2>1. \A i \in 1 .. 3 : i = 1 \/ i = 2 \/ i = 3
    OBVIOUS
  <2>2. 1 \in 1 .. 3
    OBVIOUS
  <2> QED BY <2>1, <2>2, FieldsAre, TypesAre, RuleAndType DEF Required
<1>2. Required("Filter") = {}
  <2>1. \A i \in 1 .. 1 : i = 1
    OBVIOUS
  <2> QED BY <2>1, FieldsAre, TypesAre, RuleAndType DEF Required
<1>3. \A msg \in Flat : Required(msg) = DOMAIN Desc[msg]
  BY FlatFields DEF Required
<1> QED BY <1>1, <1>2, <1>3

\* Which required fields were seen after k fields, and when that is all of them.
LEMMA SeenIs ==
    ASSUME NEW msg \in DOMAIN Desc, NEW w \in ValuesOf(msg)
    PROVE  /\ SeenTo(msg, 0) = {}
           /\ Required(msg) \subseteq SeenTo(msg, Size(msg, w))
           /\ \A k \in 0 .. Size(msg, w) : Required(msg) \subseteq SeenTo(msg, k) =>
                 /\ msg \in Flat => k = Size(msg, w)
                 /\ msg = "Query" => k >= 1
           /\ \A k \in 1 .. Size(msg, w) :
                 LET n == FieldAt(msg, w, k)
                 IN  SeenTo(msg, k) = IF Desc[msg][n].rule = "required"
                                      THEN SeenTo(msg, k - 1) \cup {n} ELSE SeenTo(msg, k - 1)
<1>0. Size(msg, w) \in Nat
  BY FieldsAt
<1>1. CASE msg = "Query"
  <2>1. Required(msg) = {1}
    BY <1>1, RequiredAre
  <2>2. \A k : SeenTo(msg, k) = {j \in {1} : j <= k}
    BY <2>1 DEF SeenTo
  <2>3. w[2] \in Seq(ValuesOf("Filter")) /\ w[3] \in Seq(ValuesOf("ValueSetting"))
    BY <1>1, QueryValues
  <2> DEFINE a == Len(w[2])
             b == Len(w[3])
  <2>4. a \in Nat /\ b \in Nat /\ Size(msg, w) = 1 + a + b
    BY <1>1, <2>3 DEF Size
  <2>5. \A k : FieldAt(msg, w, k) = IF k = 1 THEN 1 ELSE IF k <= 1 + a THEN 2 ELSE 3
    BY <1>1 DEF FieldAt
  <2>6. Desc[msg][1].rule = "required" /\ Desc[msg][2].rule = "repeated" /\ Desc[msg][3].rule = "repeated"
    BY <1>1, TypesAre, RuleAndType
  <2> HIDE DEF a, b
  <2>7. 1 <= Size(msg, w)
    BY <2>4
  <2>8. SeenTo(msg, 0) = {} /\ SeenTo(msg, Size(msg, w)) = {1}
    BY <2>2, <2>7
  <2>9. ASSUME NEW k \in 0 .. Size(msg, w), 1 \in SeenTo(msg, k) PROVE k >= 1
    BY <1>0, <2>2, <2>9
  <2>10. ASSUME NEW k \in 1 .. Size(msg, w)
         PROVE  LET n == FieldAt(msg, w, k)
                IN  SeenTo(msg, k) = IF Desc[msg][n].rule = "required"
                                     THEN SeenTo(msg, k - 1) \cup {n} ELSE SeenTo(msg, k - 1)
    <3>1. CASE k = 1
      <4>1. FieldAt(msg, w, k) = 1
        BY <2>5, <3>1
      <4>2. SeenTo(msg, k) = {1} /\ SeenTo(msg, k - 1) = {}
        BY <2>2, <3>1
      <4> QED BY <2>6, <4>1, <4>2
    <3>2. CASE k # 1
      <4>1. 1 <= k /\ 1 <= k - 1
        BY <1>0, <3>2
      <4>2. SeenTo(msg, k) = {1} /\ SeenTo(msg, k - 1) = {1}
        BY <2>2, <4>1
      <4>3. FieldAt(msg, w, k) = 2 \/ FieldAt(msg, w, k) = 3
        BY <2>5, <3>2
      <4> QED BY <2>6, <4>2, <4>3
    <3> QED BY <3>1, <3>2
  <2>11. msg \notin Flat
    BY <1>1 DEF Flat
  <2> QED BY <2>1, <2>8, <2>9, <2>10, <2>11
<1>2. CASE msg = "Filter"
  <2>1. Required(msg) = {} /\ msg \notin Flat /\ msg # "Query"
    BY <1>2, RequiredAre DEF Flat
  <2>2. \A k : SeenTo(msg, k) = {}
    BY <2>1 DEF SeenTo
  <2>3. \A k : Desc[msg][FieldAt(msg, w, k)].rule = "repeated"
    BY <1>2, TypesAre, RuleAndType DEF FieldAt
  <2> QED BY <2>1, <2>2, <2>3
<1>3. CASE msg \in Flat
  <2>1. msg # "Query" /\ msg # "Filter"
    BY <1>3, FlatFields
  <2>2. PICK n \in 1 .. 5 : DOMAIN Desc[msg] = 1 .. n /\ Len(Desc[msg]) = n
    BY <1>3, FlatFields
  <2>3. \A i \in 1 .. n : Desc[msg][i].rule = "required"
    BY <1>3, <2>2, FlatFields
  <2>4. Size(msg, w) = n /\ \A k : FieldAt(msg, w, k) = k
    BY <2>1, <2>2 DEF Size, FieldAt
  <2>5. Required(msg) = 1 .. n
    BY <1>3, <2>2, RequiredAre
  <2>6. \A k : SeenTo(msg, k) = {j \in 1 .. n : j <= k}
    BY <2>5 DEF SeenTo
  <2>7. SeenTo(msg, 0) = {} /\ SeenTo(msg, n) = 1 .. n
    <3>1. \A j \in 1 .. n : j <= n /\ ~ (j <= 0)
      OBVIOUS
    <3> QED BY <2>6, <3>1
  <2>8. ASSUME NEW k \in 0 .. n, 1 .. n \subseteq SeenTo(msg, k) PROVE k = n
    <3>1. n \in SeenTo(msg, k)
      BY <2>8
    <3>2. n <= k
      BY <2>6, <3>1
    <3> QED BY <3>2
  <2>9. ASSUME NEW k \in 1 .. n PROVE SeenTo(msg, k) = SeenTo(msg, k - 1) \cup {k}
    <3>1. \A j \in 1 .. n : j <= k <=> j <= k - 1 \/ j = k
      OBVIOUS
    <3> QED BY <2>6, <3>1
  <2> QED BY <2>1, <2>3, <2>4, <2>5, <2>7, <2>8, <2>9
<1> QED BY <1>1, <1>2, <1>3, MessagesAre DEF Flat

\* A list begins with each of its own beginnings.
LEMMA PrefixHead ==
    ASSUME NEW s, IsList(s), NEW n \in 0 .. Len(s)
    PROVE  IsPrefix(SubSeq(s, 1, n), s)
<1>1. Len(s) \in Nat /\ Len(SubSeq(s, 1, n)) = n
  BY ListIs, ListSub
<1> DEFINE a == SubSeq(s, 1, n)
<1>2. IsList(a) /\ Len(a) = n
  BY ListSub
<1> HIDE DEF a
<1>3. SubSeq(a, 1, n) = a
  BY <1>2, HeadAll
<1> QED BY <1>1, <1>2, <1>3 DEF IsPrefix, a

\* What the server may take of a message whose sender died.
Cut(msg, v, w) ==
    IF msg = "Query" THEN QueryCut(v, w)
    ELSE IF msg = "Filter" THEN FilterCut(v, w) ELSE v = w

\* The filters and settings of a query that was read up to its k-th field.
LEMMA QueryReadTo ==
    ASSUME NEW w \in ValuesOf("Query"), NEW k \in 1 .. Size("Query", w)
    PROVE  LET q == ReadTo("Query", w, k)
           IN  /\ q = <<w[1], q[2], q[3]>>
               /\ IsList(w[2]) /\ IsList(w[3]) /\ IsList(q[2]) /\ IsList(q[3])
               /\ Len(q[2]) <= Len(w[2]) /\ \A i \in 1 .. Len(q[2]) : q[2][i] = w[2][i]
               /\ k <= 1 + Len(w[2]) => Len(q[2]) = k - 1 /\ q[3] = <<>>
               /\ k > 1 + Len(w[2]) => Len(q[2]) = Len(w[2])
               /\ IsPrefix(q[3], w[3])
<1> DEFINE a == w[2]
           b == w[3]
           m == Len(a)
           n == Len(b)
           q == ReadTo("Query", w, k)
           i2 == Clip(k - 1, m)
           i3 == Clip(k - 1 - m, n)
           a1 == SubSeq(a, 1, i2)
           b1 == SubSeq(b, 1, i3)
<1>1. w[2] \in Seq(ValuesOf("Filter")) /\ w[3] \in Seq(ValuesOf("ValueSetting"))
  BY QueryValues
<1>2. IsList(a) /\ IsList(b)
  BY <1>1, ListOf
<1>3. m \in Nat /\ n \in Nat /\ k \in 1 .. 1 + m + n
  BY <1>2, ListIs DEF Size
<1>4. q = << IF k >= 1 THEN w[1] ELSE 0, a1, b1 >>
  BY DEF ReadTo
<1> HIDE DEF q, a1, b1, a, b, m, n
<1>5. q = <<w[1], a1, b1>>
  BY <1>3, <1>4
<1>6. /\ i2 \in 0 .. m /\ i3 \in 0 .. n
      /\ k <= 1 + m => i2 = k - 1 /\ i3 = 0
      /\ k > 1 + m => i2 = m
  BY <1>3 DEF Clip
<1> HIDE DEF i2, i3
<1>7. IsList(a1) /\ Len(a1) = i2 /\ \A i \in 1 .. i2 : a1[i] = a[i]
  BY <1>2, <1>6, ListSub DEF a1, m
<1>8. IsList(b1) /\ Len(b1) = i3
  BY <1>2, <1>6, ListSub DEF b1, n
<1>9. i3 = 0 => b1 = <<>>
  BY <1>8, NotEmpty
<1>10. IsPrefix(b1, b)
  BY <1>2, <1>6, PrefixHead DEF b1, n
<1>11. i2 <= m
  BY <1>3, <1>6
<1>12. /\ q = <<w[1], q[2], q[3]>> /\ q[2] = a1 /\ q[3] = b1
  BY <1>5
<1> QED BY <1>2, <1>3, <1>6, <1>7, <1>8, <1>9, <1>10, <1>11, <1>12 DEF a, b, m, n, q

\* A message that is complete after k fields lacks nothing but entries at its end.
LEMMA CutRead ==
    ASSUME NEW msg \in DOMAIN Desc, NEW w \in ValuesOf(msg), NEW k \in 0 .. Size(msg, w),
           Required(msg) \subseteq SeenTo(msg, k)
    PROVE  Cut(msg, ReadTo(msg, w, k), w)
<1>0. Size(msg, w) \in Nat
  BY FieldsAt
<1>1. CASE msg = "Query"
  <2>1. k \in 1 .. Size(msg, w)
    <3>1. k >= 1
      BY <1>1, SeenIs
    <3> QED BY <1>0, <3>1
  <2> DEFINE q == ReadTo("Query", w, k)
  <2>2. /\ q = <<w[1], q[2], q[3]>>
        /\ IsList(w[2]) /\ IsList(q[2]) /\ IsList(q[3])
        /\ Len(q[2]) <= Len(w[2]) /\ \A i \in 1 .. Len(q[2]) : q[2][i] = w[2][i]
        /\ k <= 1 + Len(w[2]) => q[3] = <<>>
        /\ k > 1 + Len(w[2]) => Len(q[2]) = Len(w[2])
        /\ IsPrefix(q[3], w[3])
    BY <1>1, <2>1, QueryReadTo
  <2> HIDE DEF q
  <2>3. q[1] = w[1]
    <3> DEFINE a == q[2]
               b == q[3]
    <3>1. q = <<w[1], a, b>>
      BY <2>2
    <3> HIDE DEF a, b
    <3> QED BY <3>1
  <2>4. DOMAIN q[2] = 1 .. Len(q[2]) /\ Len(q[2]) \in Nat /\ Len(w[2]) \in Nat
    BY <2>2, ListIs
  <2>5. \A i \in 1 .. Len(q[2]) : FilterCut(w[2][i], w[2][i])
    <3> SUFFICES ASSUME NEW i \in 1 .. Len(q[2]) PROVE FilterCut(w[2][i], w[2][i])
      OBVIOUS
    <3>1. i \in 1 .. Len(w[2])
      BY <2>2, <2>4
    <3>2. w[2] \in Seq(ValuesOf("Filter"))
      BY <1>1, QueryValues
    <3>3. w[2][i] \in ValuesOf("Filter")
      BY <3>1, <3>2
    <3> DEFINE f == w[2][i]
    <3> HIDE DEF f
    <3>4. f[1] \in Seq(ValuesOf("Comparator"))
      BY <3>3, FilterValues DEF f
    <3>5. IsList(f[1]) /\ Len(f[1]) \in 0 .. Len(f[1])
      BY <3>4, ListOf
    <3>6. SubSeq(f[1], 1, Len(f[1])) = f[1] /\ IsPrefix(SubSeq(f[1], 1, Len(f[1])), f[1])
      BY <3>5, HeadAll, PrefixHead
    <3> QED BY <3>6 DEF FilterCut, f
  <2>6. q[3] # <<>> => Len(q[2]) = Len(w[2])
    <3>1. k <= 1 + Len(w[2]) \/ k > 1 + Len(w[2])
      BY <2>4
    <3> QED BY <2>2, <3>1
  <2>7. QueryCut(q, w)
    BY <2>2, <2>3, <2>4, <2>5, <2>6 DEF QueryCut
  <2> QED BY <1>1, <2>7 DEF Cut, q
<1>2. CASE msg = "Filter"
  <2>1. w[1] \in Seq(ValuesOf("Comparator"))
    BY <1>2, FilterValues
  <2>2. IsList(w[1]) /\ k \in 0 .. Len(w[1])
    BY <1>2, <2>1, ListOf DEF Size
  <2>3. IsPrefix(SubSeq(w[1], 1, k), w[1])
    BY <2>2, PrefixHead
  <2>4. ReadTo(msg, w, k)[1] = SubSeq(w[1], 1, k)
    BY <1>2 DEF ReadTo
  <2> QED BY <1>2, <2>3, <2>4 DEF Cut, FilterCut
<1>3. CASE msg \in Flat
  <2>1. k = Size(msg, w)
    BY <1>3, SeenIs
  <2>2. ReadTo(msg, w, k) = w
    BY <2>1, ReadNoneAll
  <2>3. msg # "Query" /\ msg # "Filter"
    BY <1>3, FlatFields
  <2> QED BY <2>2, <2>3 DEF Cut
<1> QED BY <1>1, <1>2, <1>3, MessagesAre DEF Flat

\* A message of which nothing is missing is one of these.
LEMMA CutWhole ==
    ASSUME NEW msg \in DOMAIN Desc, NEW w \in ValuesOf(msg)
    PROVE  Cut(msg, w, w)
<1>1. Size(msg, w) \in Nat /\ Size(msg, w) \in 0 .. Size(msg, w)
  BY FieldsAt
<1>2. Required(msg) \subseteq SeenTo(msg, Size(msg, w)) /\ ReadTo(msg, w, Size(msg, w)) = w
  BY SeenIs, ReadNoneAll
<1>3. Cut(msg, ReadTo(msg, w, Size(msg, w)), w)
  BY <1>1, <1>2, CutRead
<1> QED BY <1>2, <1>3

\* The last filter of a query may be cut itself.
LEMMA CutInside ==
    ASSUME NEW w \in ValuesOf("Query"), NEW k \in 1 .. Size("Query", w),
           FieldAt("Query", w, k) = 2, NEW f, FilterCut(f, ValueAt("Query", w, k))
    PROVE  Cut("Query", Put("Query", ReadTo("Query", w, k - 1), 2, f), w)
<1> DEFINE a == w[2]
           m == Len(a)
           q == ReadTo("Query", w, k - 1)
           b == q[2]
           c == Append(b, f)
<1>1. w[2] \in Seq(ValuesOf("Filter")) /\ w[3] \in Seq(ValuesOf("ValueSetting"))
  BY QueryValues
<1>2. Len(w[2]) \in Nat /\ Len(w[3]) \in Nat
  BY <1>1
<1>3. k \in 2 .. 1 + m /\ k - 1 \in 1 .. Size("Query", w) /\ k - 1 \in 1 .. m
  <2> DEFINE n == Len(w[3])
             z == Size("Query", w)
  <2>1. z = 1 + m + n /\ k \in 1 .. z
    BY DEF Size
  <2>4. k # 1 /\ k <= 1 + m
    <3>1. FieldAt("Query", w, k) = IF k = 1 THEN 1 ELSE IF k <= 1 + m THEN 2 ELSE 3
      BY DEF FieldAt
    <3> HIDE DEF m
    <3> QED BY <3>1
  <2>2. m \in Nat /\ n \in Nat
    BY <1>2
  <2> HIDE DEF m, n, z
  <2>3. k \in 2 .. 1 + m /\ k - 1 \in 1 .. z /\ k - 1 \in 1 .. m
    BY <2>1, <2>2, <2>4
  <2> QED BY <2>3 DEF z
<1>4. FilterCut(f, a[k - 1])
  <2>1. ValueAt("Query", w, k) = IF k = 1 THEN w[1] ELSE IF k <= 1 + m THEN a[k - 1] ELSE w[3][k - 1 - m]
    BY DEF ValueAt
  <2>2. k # 1 /\ k <= 1 + m
    <3> HIDE DEF m
    <3> QED BY <1>2, <1>3 DEF m
  <2> HIDE DEF m, a
  <2> QED BY <2>1, <2>2
<1>5. /\ q = <<w[1], q[2], q[3]>>
      /\ IsList(w[2]) /\ IsList(q[2]) /\ IsList(q[3])
      /\ \A i \in 1 .. Len(q[2]) : q[2][i] = w[2][i]
      /\ k - 1 <= 1 + Len(w[2]) => Len(q[2]) = k - 1 - 1 /\ q[3] = <<>>
      /\ IsPrefix(q[3], w[3])
  BY <1>3, QueryReadTo
<1>6. Len(b) = k - 2 /\ q[3] = <<>>
  <2>1. k - 1 <= 1 + m /\ k - 1 - 1 = k - 2
    BY <1>2, <1>3
  <2> QED BY <1>5, <2>1
<1>7. IsList(b) /\ \A i \in 1 .. k - 2 : b[i] = a[i]
  BY <1>5, <1>6
<1> HIDE DEF m
<1>8. /\ IsList(c) /\ Len(c) = k - 1 /\ DOMAIN c = 1 .. k - 1
      /\ \A i \in 1 .. k - 2 : c[i] = a[i]
      /\ c[k - 1] = f
  <2> HIDE DEF b
  <2>1. /\ IsList(c) /\ Len(c) = Len(b) + 1 /\ DOMAIN c = 1 .. Len(b) + 1
        /\ \A i \in 1 .. Len(b) : c[i] = b[i]
        /\ c[Len(b) + 1] = f
    BY <1>7, ListAppend
  <2>2. k - 2 + 1 = k - 1
    BY <1>3
  <2> HIDE DEF c
  <2> QED BY <1>6, <1>7, <2>1, <2>2
<1> DEFINE r == Put("Query", q, 2, f)
<1>9. r = <<w[1], c, <<>>>>
  <2>1. Desc["Query"][2].rule = "repeated"
    BY TypesAre, RuleAndType
  <2>2. r = [q EXCEPT ![2] = Append(@, f)]
    BY <2>1 DEF Put
  <2>3. q = <<w[1], b, <<>>>>
    BY <1>5, <1>6
  <2> HIDE DEF q, b
  <2>4. q[2] = b
    BY <2>3
  <2> HIDE DEF r, c
  <2>5. r = [q EXCEPT ![2] = c]
    BY <2>2, <2>4 DEF c
  <2> QED BY <2>3, <2>5
<1>10. IsPrefix(<<>>, w[3])
  BY <1>5, <1>6
<1> HIDE DEF r, c, q, b
<1>11. r[1] = w[1] /\ r[2] = c /\ r[3] = <<>>
  BY <1>9
<1>12. \A i \in 1 .. k - 1 : IF i < k - 1 THEN c[i] = a[i] ELSE FilterCut(c[i], a[i])
  <2> SUFFICES ASSUME NEW i \in 1 .. k - 1
               PROVE  IF i < k - 1 THEN c[i] = a[i] ELSE FilterCut(c[i], a[i])
    OBVIOUS
  <2>1. CASE i < k - 1
    <3>1. i \in 1 .. k - 2
      BY <1>3, <2>1
    <3> QED BY <1>8, <2>1, <3>1
  <2>2. CASE ~ (i < k - 1)
    <3>1. i = k - 1
      BY <1>3, <2>2
    <3> QED BY <1>4, <1>8, <2>2, <3>1
  <2> QED BY <2>1, <2>2
<1>13. Len(r[2]) <= Len(w[2])
  <2>1. k - 1 <= m /\ Len(c) = k - 1
    BY <1>2, <1>3, <1>8
  <2> QED BY <1>11, <2>1 DEF m
<1>14. QueryCut(r, w)
  BY <1>8, <1>10, <1>11, <1>12, <1>13 DEF QueryCut
<1> QED BY <1>14 DEF Cut, r, q

----------------------------------------------------------------------------
(* The messages of a talk on their way *)

Told(msgs) == [k \in DOMAIN msgs |-> Delimited(Root, msgs[k])]
\* What is sent after the m-th message.
More(msgs, m) == RestOf(Told(msgs))[m]

\* The message that the server waits for is one of message.proto.
LEMMA RootIs == Root \in DOMAIN Desc
BY WireAssumption

\* A message is sent as bytes.
LEMMA EncodedBytes ==
    ASSUME NEW msg \in DOMAIN Desc, NEW w \in ValuesOf(msg)
    PROVE  Encoded(msg, w) \in Seq(Byte) /\ Len(Encoded(msg, w)) \in Nat
<1>1. Size(msg, w) \in Nat /\ 0 \in 0 .. Size(msg, w)
  BY FieldsAt
<1>2. Encoded(msg, w) \in Seq(Byte)
  BY <1>1, RestIs
<1> QED BY <1>2, LenProperties

\* The messages of a talk, each as it is sent.
LEMMA ToldIs ==
    ASSUME NEW msgs \in Seq(ValuesOf(Root))
    PROVE  /\ Len(msgs) \in Nat
           /\ Told(msgs) \in Seq(Seq(Byte)) /\ Len(Told(msgs)) = Len(msgs)
           /\ \A m \in 1 .. Len(msgs) : Told(msgs)[m] = LengthFirst(Encoded(Root, msgs[m]))
<1> DEFINE n == Len(msgs)
           t == Told(msgs)
           S == Seq(Byte)
<1>1. n \in Nat /\ DOMAIN msgs = 1 .. n
  OBVIOUS
<1>2. \A m \in 1 .. n : LengthFirst(Encoded(Root, msgs[m])) \in S
  <2> SUFFICES ASSUME NEW m \in 1 .. n PROVE LengthFirst(Encoded(Root, msgs[m])) \in S
    OBVIOUS
  <2>1. msgs[m] \in ValuesOf(Root)
    OBVIOUS
  <2>2. Encoded(Root, msgs[m]) \in Seq(Byte)
    BY <2>1, RootIs, EncodedBytes
  <2> QED BY <2>2, LengthFirstIs
<1>3. t = [m \in 1 .. n |-> LengthFirst(Encoded(Root, msgs[m]))]
  BY <1>1 DEF Told, Delimited
<1>4. t \in [1 .. n -> S]
  BY <1>2, <1>3
<1>5. DOMAIN t = 1 .. n
  BY <1>3
<1> HIDE DEF t, n, S
<1>6. t \in Seq(S)
  BY <1>1, <1>4, SeqDef
<1>7. Len(t) = n
  BY <1>1, <1>5, <1>6, LenProperties
<1> QED BY <1>1, <1>3, <1>6, <1>7 DEF t, n, S

\* What is left to send begins with the next message behind its length.
LEMMA MoreIs ==
    ASSUME NEW msgs \in Seq(ValuesOf(Root))
    PROVE  /\ Len(msgs) \in Nat
           /\ \A m \in 0 .. Len(msgs) : More(msgs, m) \in Seq(Byte)
           /\ More(msgs, Len(msgs)) = <<>>
           /\ More(msgs, 0) = Said(msgs)
           /\ \A m \in 1 .. Len(msgs) :
                 More(msgs, m - 1) = LengthFirst(Encoded(Root, msgs[m])) \o More(msgs, m)
<1> DEFINE t == Told(msgs)
           n == Len(msgs)
           r == RestOf(t)
<1>1. /\ n \in Nat /\ t \in Seq(Seq(Byte)) /\ Len(t) = n
      /\ \A m \in 1 .. n : t[m] = LengthFirst(Encoded(Root, msgs[m]))
  BY ToldIs
<1>2. IsRest(r, t)
  BY <1>1, RestOfIs
<1>3. \A m : More(msgs, m) = r[m]
  BY DEF More
<1>4. Said(msgs) = FlattenSeq(t)
  BY DEF Said, Told
<1> HIDE DEF t, n, r
<1>5. /\ r \in [0 .. n -> Seq(Byte)]
      /\ r[n] = <<>>
      /\ \A k \in 1 .. n : r[k - 1] = t[k] \o r[k]
      /\ r[0] = FlattenSeq(t)
  BY <1>1, <1>2 DEF IsRest
<1>6. \A m \in 0 .. n : r[m] \in Seq(Byte)
  BY <1>5
<1> QED BY <1>1, <1>3, <1>4, <1>5, <1>6 DEF n

----------------------------------------------------------------------------
(* The invariant: the reader is where the sender was *)

\* Of what is left to send, g, all is still to be read, or the end is missing.
Coming(i, bytes, g) ==
    \E y \in Seq(Byte) : bytes \o y = g /\ (i.whole => y = <<>>)

\* A message that was read up to its k-th field; `after` follows it.
Reads(f, e) ==
    /\ e.w \in ValuesOf(f.msg) /\ e.k \in 0 .. Size(f.msg, e.w)
    /\ e.after \in Seq(Byte)
    /\ Len(Rest(f.msg, e.w, e.k)) < 2 ^ IntBits
    /\ f.seen = SeenTo(f.msg, e.k)

\* The k-th field is a submessage, which is being read.
Waits(f, e, sub, s) ==
    /\ e.k # 0
    /\ f.value = ReadTo(f.msg, e.w, e.k - 1)
    /\ f.left = Len(Rest(f.msg, e.w, e.k))
    /\ sub.field = FieldAt(f.msg, e.w, e.k)
    /\ sub.msg = TypeAt(f.msg, e.w, e.k)
    /\ s.w = ValueAt(f.msg, e.w, e.k)
    /\ s.after = Rest(f.msg, e.w, e.k) \o e.after

\* The messages being read are the m-th of the talk, a submessage of it, ...
Planned(i, st, p, m) ==
    /\ \A j \in 1 .. Len(st) : Reads(st[j], p[j])
    /\ \A j \in 2 .. Len(st) : Waits(st[j - 1], p[j - 1], st[j], p[j])
    /\ p[1].w = i.sent[m] /\ p[1].after = More(i.sent, m)

\* The innermost of them.
Innermost(i, bytes, f, e) ==
    /\ f.value = ReadTo(f.msg, e.w, e.k)
    /\ Coming(i, bytes, Rest(f.msg, e.w, e.k) \o e.after)
    /\ \/ f.left = Len(Rest(f.msg, e.w, e.k))
       \/ f.left = 0 /\ bytes = <<>> /\ ~ i.whole

Ended(i, bytes) == bytes = <<>> /\ ~ i.whole

Some(i, g, m) == m \in 0 .. Len(i.sent) /\ g = SubSeq(i.sent, 1, m)
SomeCut(i, g) ==
    \E m \in 1 .. Len(i.sent) : \E v :
        g = Append(SubSeq(i.sent, 1, m - 1), v) /\ Cut(Root, v, i.sent[m])

Listens(i, bytes, g) ==
    \/ \E m : Some(i, g, m) /\ Coming(i, bytes, More(i.sent, m))
    \/ SomeCut(i, g) /\ Ended(i, bytes)
InPlan(i, bytes, st, g) ==
    \E m \in 1 .. Len(i.sent) : \E p :
        Some(i, g, m - 1) /\ Planned(i, st, p, m) /\ Innermost(i, bytes, st[Len(st)], p[Len(st)])
LastCut(i, bytes, st, g) ==
    \E m \in 1 .. Len(i.sent) :
        /\ Some(i, g, m - 1) /\ Ended(i, bytes)
        /\ Len(st) = 1 /\ Cut(Root, st[1].value, i.sent[m])
GivenUp(i, g) == ~ i.whole /\ (SomeCut(i, g) \/ \E m : Some(i, g, m))

\* The inductive invariant: the reader is where the sender was.
TalkInv ==
    /\ status = "listening" => Listens(input, inp, got)
    /\ status = "reading"   => InPlan(input, inp, stack, got) \/ LastCut(input, inp, stack, got)
    /\ status = "unwinding" => GivenUp(input, got)
    /\ status = "refused"   => got = input.sent \/ GivenUp(input, got)

\* At its beginning all of a talk is to come, or its end is missing.
LEMMA TalkIs ==
    ASSUME NEW i, IsTalk(i)
    PROVE  /\ i.sent \in Seq(ValuesOf(Root)) /\ Len(i.sent) \in Nat /\ IsList(i.sent)
           /\ \A m \in 1 .. Len(i.sent) : /\ i.sent[m] \in ValuesOf(Root)
                                          /\ Encoded(Root, i.sent[m]) \in Seq(Byte)
                                          /\ Len(Encoded(Root, i.sent[m])) < 2 ^ IntBits
           /\ i.whole \in BOOLEAN
           /\ Coming(i, i.bytes, More(i.sent, 0))
<1>1. i.sent \in Seq(ValuesOf(Root)) /\ \A m \in DOMAIN i.sent : Len(Encoded(Root, i.sent[m])) < 2 ^ IntBits
  BY DEF IsTalk
<1>2. Len(i.sent) \in Nat /\ DOMAIN i.sent = 1 .. Len(i.sent) /\ IsList(i.sent)
  BY <1>1, ListOf
<1>3. \A m \in 1 .. Len(i.sent) : i.sent[m] \in ValuesOf(Root) /\ Encoded(Root, i.sent[m]) \in Seq(Byte)
  BY <1>1, RootIs, EncodedBytes
<1> DEFINE all == More(i.sent, 0)
<1>4. all = Said(i.sent) /\ all \in Seq(Byte)
  <2>1. 0 \in 0 .. Len(i.sent)
    BY <1>2
  <2> QED BY <1>1, <2>1, MoreIs
<1>5. PICK n \in 0 .. Len(all) : i.bytes = SubSeq(all, 1, n) /\ i.whole = (n = Len(all))
  BY <1>4 DEF IsTalk
<1> DEFINE y == After(all, n)
           x == SubSeq(all, 1, n)
<1> HIDE DEF all
<1>6. n \in Nat /\ n <= Len(all) /\ Len(all) \in Nat
  BY <1>4, <1>5, LenProperties
<1>7. y \in Seq(Byte) /\ Len(y) = Len(all) - n /\ \A j \in 1 .. Len(all) - n : y[j] = all[n + j]
  BY <1>4, <1>6, AfterIs
<1>8. x \in Seq(Byte) /\ Len(x) = n /\ \A j \in 1 .. n : x[j] = all[j]
  BY <1>4, <1>6
<1> HIDE DEF x, y
<1>9. x \o y = all
  <2>1. /\ x \o y \in Seq(Byte) /\ Len(x \o y) = Len(x) + Len(y)
        /\ \A j \in 1 .. Len(x) + Len(y) : (x \o y)[j] = IF j <= Len(x) THEN x[j] ELSE y[j - Len(x)]
    BY <1>7, <1>8, Joined
  <2> DEFINE z == x \o y
  <2> HIDE DEF z
  <2>2. Len(z) = Len(all) /\ z \in Seq(Byte)
    BY <1>6, <1>7, <1>8, <2>1 DEF z
  <2>3. \A j \in 1 .. Len(all) : z[j] = all[j]
    <3> SUFFICES ASSUME NEW j \in 1 .. Len(all) PROVE z[j] = all[j]
      OBVIOUS
    <3>1. z[j] = IF j <= n THEN x[j] ELSE y[j - n]
      BY <1>6, <1>7, <1>8, <2>1 DEF z
    <3>2. CASE j <= n
      BY <1>6, <1>8, <3>1, <3>2
    <3>3. CASE ~ (j <= n)
      <4>1. j - n \in 1 .. Len(all) - n /\ n + (j - n) = j
        BY <1>6, <3>3
      <4> QED BY <1>7, <3>1, <3>3, <4>1
    <3> QED BY <3>2, <3>3
  <2>4. z = all
    <3>1. IsList(z) /\ IsList(all)
      BY <1>4, <2>2, ListOf
    <3> QED BY <2>2, <2>3, <3>1, ListEqual
  <2> QED BY <2>4 DEF z
<1>10. i.whole => y = <<>>
  <2> SUFFICES ASSUME i.whole PROVE y = <<>>
    OBVIOUS
  <2>1. n = Len(all)
    BY <1>5
  <2>2. Len(y) = 0
    BY <1>6, <1>7, <2>1
  <2> QED BY <1>7, <2>2, EmptySeq
<1>11. Coming(i, i.bytes, all)
  <2>1. i.bytes = x
    BY <1>5 DEF x
  <2> QED BY <1>7, <1>9, <1>10, <2>1 DEF Coming
<1> QED BY <1>1, <1>2, <1>3, <1>5, <1>11 DEF all

\* The invariant holds when nothing was read.
LEMMA TalkInit == IsTalk(input) /\ Init => TalkInv
<1> SUFFICES ASSUME IsTalk(input), Init PROVE TalkInv
  OBVIOUS
<1>1. inp = input.bytes /\ status = "listening" /\ got = <<>>
  BY DEF Init
<1>3. Coming(input, inp, More(input.sent, 0)) /\ IsList(input.sent) /\ Len(input.sent) \in Nat
  BY <1>1, TalkIs
<1>4. SubSeq(input.sent, 1, 0) = <<>>
  BY <1>3, HeadAll
<1>5. Some(input, got, 0)
  BY <1>1, <1>3, <1>4 DEF Some
<1> QED BY <1>1, <1>3, <1>5 DEF TalkInv, Listens

\* The innermost message is read on: it stays in its place.
LEMMA PlannedTop ==
    ASSUME NEW i, NEW st, IsList(st), Len(st) # 0, NEW p, NEW m, Planned(i, st, p, m),
           NEW f, NEW e, Reads(f, e), f.msg = st[Len(st)].msg, f.field = st[Len(st)].field,
           e.w = p[Len(st)].w, e.after = p[Len(st)].after
    PROVE  LET t == Append(Front(st), f)
           IN  /\ Len(t) = Len(st) /\ t[Len(t)] = f
               /\ \E q : Planned(i, t, q, m) /\ q[Len(t)] = e
<1> DEFINE n == Len(st)
           t == Append(Front(st), f)
           q == [j \in 1 .. n |-> IF j = n THEN e ELSE p[j]]
<1>1. n \in Nat \ {0}
  BY ListIs
<1>2. Len(t) = n /\ t[n] = f /\ \A j \in 1 .. n - 1 : t[j] = st[j]
  BY ListReplace
<1>3. q[n] = e /\ \A j \in 1 .. n - 1 : q[j] = p[j]
  BY <1>1
<1>4. /\ \A j \in 1 .. n : Reads(st[j], p[j])
      /\ \A j \in 2 .. n : Waits(st[j - 1], p[j - 1], st[j], p[j])
      /\ p[1].w = i.sent[m] /\ p[1].after = More(i.sent, m)
      /\ f.msg = st[n].msg /\ f.field = st[n].field /\ e.w = p[n].w /\ e.after = p[n].after
  BY DEF Planned
<1> HIDE DEF n, t, q
<1>5. \A j \in 1 .. n : Reads(t[j], q[j])
  <2> SUFFICES ASSUME NEW j \in 1 .. n PROVE Reads(t[j], q[j])
    OBVIOUS
  <2>1. j = n \/ j \in 1 .. n - 1
    BY <1>1
  <2> QED BY <1>2, <1>3, <1>4, <2>1
<1>6. \A j \in 2 .. n : Waits(t[j - 1], q[j - 1], t[j], q[j])
  <2> SUFFICES ASSUME NEW j \in 2 .. n PROVE Waits(t[j - 1], q[j - 1], t[j], q[j])
    OBVIOUS
  <2>1. j - 1 \in 1 .. n - 1 /\ (j = n \/ j \in 1 .. n - 1)
    BY <1>1
  <2>2. t[j - 1] = st[j - 1] /\ q[j - 1] = p[j - 1]
    BY <1>2, <1>3, <2>1
  <2>3. t[j].field = st[j].field /\ t[j].msg = st[j].msg /\ q[j].w = p[j].w /\ q[j].after = p[j].after
    BY <1>2, <1>3, <1>4, <2>1
  <2>4. Waits(st[j - 1], p[j - 1], st[j], p[j])
    BY <1>4
  <2> QED BY <2>2, <2>3, <2>4 DEF Waits
<1>7. q[1].w = i.sent[m] /\ q[1].after = More(i.sent, m)
  <2>1. 1 = n \/ 1 \in 1 .. n - 1
    BY <1>1
  <2> QED BY <1>3, <1>4, <2>1
<1>8. Planned(i, t, q, m)
  BY <1>2, <1>5, <1>6, <1>7 DEF Planned
<1>9. Len(t) = n /\ t[Len(t)] = f /\ q[Len(t)] = e
  BY <1>2, <1>3
<1> QED BY <1>8, <1>9 DEF n, t

\* Nothing is left of nothing.
LEMMA BothEmpty ==
    ASSUME NEW a \in Seq(Byte), NEW b \in Seq(Byte), NEW c \in Seq(Byte), NEW d \in Seq(Byte),
           a \o b = c \o d, a = <<>>, b = <<>>
    PROVE  Len(c) = 0 /\ Len(d) = 0
<1>1. Len(a \o b) = Len(a) + Len(b) /\ Len(c \o d) = Len(c) + Len(d)
  BY Joined
<1>2. Len(a) = 0 /\ Len(b) = 0 /\ Len(c) \in Nat /\ Len(d) \in Nat
  BY LenProperties
<1> QED BY <1>1, <1>2

\* pb_decode_delimited: the length that was sent is read, or the talk is over or cut.
LEMMA BeginTalks ==
    ASSUME IsTalk(input), DecoderInv, TalkInv, Begin
    PROVE  TalkInv'
<1> DEFINE size == Announced(inp)
           s == Stream(2 ^ IntBits)
<1>1. /\ status = "listening" /\ inp' = size.inp /\ input' = input /\ got' = got
      /\ size.ok => stack' = <<Frame(Root, 0, size.val, Zeros[Root])>> /\ status' = "reading"
      /\ ~ size.ok => status' = "refused"
  BY DEF Begin
<1>2. inp \in Seq(Byte)
  BY DEF DecoderInv
<1>3. size = ReadLength(s)
  BY DEF Announced, Stream
<1>4. IsStream(s) /\ s.ok /\ s.left = 2 ^ IntBits /\ s.inp = inp /\ 2 ^ IntBits \in Nat \ {0}
  <2>1. 2 ^ IntBits \in Nat \ {0}
    BY IntRange
  <2> DEFINE d == 2 ^ IntBits
  <2> HIDE DEF d
  <2>2. d \in Nat
    BY <2>1 DEF d
  <2>3. IsStream(Stream(d)) /\ Stream(d).ok /\ Stream(d).left = d
    BY <1>2, <2>2, StreamIs
  <2>4. Stream(d).inp = inp
    BY DEF Stream, StreamOf
  <2> QED BY <2>1, <2>3, <2>4 DEF d
<1>5. inp = <<>> => ~ size.ok
  BY <1>2, NothingAnnounced
<1>6. Listens(input, inp, got)
  BY <1>1 DEF TalkInv
<1>7. /\ input.sent \in Seq(ValuesOf(Root)) /\ Len(input.sent) \in Nat /\ IsList(input.sent)
      /\ \A m \in 1 .. Len(input.sent) : /\ input.sent[m] \in ValuesOf(Root)
                                         /\ Encoded(Root, input.sent[m]) \in Seq(Byte)
                                         /\ Len(Encoded(Root, input.sent[m])) < 2 ^ IntBits
  BY <1>2, TalkIs
<1> HIDE DEF size, s
<1>8. CASE SomeCut(input, got) /\ Ended(input, inp)
  <2>1. GivenUp(input, got) /\ ~ size.ok
    BY <1>5, <1>8 DEF GivenUp, Ended
  <2> QED BY <1>1, <1>2, <2>1 DEF TalkInv
<1>9. ASSUME NEW m, Some(input, got, m), Coming(input, inp, More(input.sent, m))
      PROVE  TalkInv'
  <2>1. m \in 0 .. Len(input.sent) /\ got = SubSeq(input.sent, 1, m)
    BY <1>9 DEF Some
  <2>2. PICK y \in Seq(Byte) : inp \o y = More(input.sent, m) /\ (input.whole => y = <<>>)
    BY <1>9 DEF Coming
  <2>3. CASE m = Len(input.sent)
    <3>1. got = input.sent
      BY <1>7, <2>1, <2>3, HeadAll
    <3>2. inp = <<>>
      <4>1. More(input.sent, m) = <<>>
        BY <1>7, <2>3, MoreIs
      <4>2. Len(inp \o y) = Len(inp) + Len(y) /\ Len(inp) \in Nat /\ Len(y) \in Nat
        BY <1>2, Joined, LenProperties
      <4>3. Len(inp) = 0
        BY <2>2, <4>1, <4>2
      <4> QED BY <1>2, <4>3, EmptySeq
    <3> QED BY <1>1, <1>2, <1>5, <3>1, <3>2 DEF TalkInv
  <2>4. CASE m # Len(input.sent)
    <3> DEFINE j == m + 1
               w == input.sent[j]
               b == Encoded(Root, w)
               g == More(input.sent, j)
    <3>1. j \in 1 .. Len(input.sent) /\ j \in 0 .. Len(input.sent) /\ j - 1 = m
      BY <1>7, <2>1, <2>4
    <3> HIDE DEF j
    <3>2. w \in ValuesOf(Root) /\ b \in Seq(Byte) /\ Len(b) < 2 ^ IntBits
      BY <1>7, <3>1
    <3>3. g \in Seq(Byte) /\ More(input.sent, m) = LengthFirst(b) \o g
      <4>1. More(input.sent, j - 1) = LengthFirst(b) \o g /\ g \in Seq(Byte)
        BY <1>7, <3>1, MoreIs
      <4> QED BY <3>1, <4>1
    <3> HIDE DEF w, b, g
    <3>4. Len(Varint(Len(b))) <= s.left
      <4>1. Len(b) \in Nat
        BY <3>2, LenProperties
      <4> DEFINE d == 2 ^ IntBits
                 x == Len(b)
      <4>2. d \in Nat \ {0} /\ x \in Nat /\ x < d
        BY <1>4, <3>2, <4>1
      <4> HIDE DEF d, x
      <4>3. Len(Varint(x)) <= d
        BY <4>2, VarintShort
      <4> QED BY <1>4, <4>3 DEF d, x
    <3>5. Took(s, size, Varint(Len(b)), Len(b), y, b \o g)
      <4>1. s.inp \o y = LengthFirst(b) \o g
        BY <1>4, <2>2, <3>3
      <4> QED BY <1>3, <1>4, <3>2, <3>3, <3>4, <4>1, TookLength
    <3>6. CASE ~ size.ok
      <4>1. y # <<>>
        BY <3>5, <3>6 DEF Took
      <4>2. GivenUp(input, got)
        BY <1>9, <2>2, <4>1 DEF GivenUp
      <4> QED BY <1>1, <1>2, <3>6, <4>2 DEF TalkInv
    <3>7. CASE size.ok
      <4> DEFINE f == Frame(Root, 0, size.val, Zeros[Root])
                 e == [w |-> w, k |-> 0, after |-> g]
                 p == <<e>>
                 st == <<f>>
      <4>1. size.val = Len(b) /\ size.inp \o y = b \o g
        BY <3>5, <3>7 DEF Took
      <4>2. f.msg = Root /\ f.seen = {} /\ f.value = Zeros[Root] /\ f.left = Len(b)
        BY <4>1 DEF Frame
      <4>3. e.w = w /\ e.k = 0 /\ e.after = g
        OBVIOUS
      <4>4. Len(st) = 1 /\ st[1] = f /\ p[1] = e
        OBVIOUS
      <4> HIDE DEF f, e, p, st
      <4>5. Size(Root, w) \in Nat /\ 0 \in 0 .. Size(Root, w)
        BY <3>2, RootIs, FieldsAt
      <4>6. Rest(Root, w, 0) = b
        BY <3>2, RootIs, RestIs DEF b
      <4>7. SeenTo(Root, 0) = {} /\ ReadTo(Root, w, 0) = Zeros[Root]
        BY <3>2, RootIs, SeenIs, ReadNoneAll
      <4>8. Reads(f, e)
        BY <3>2, <3>3, <4>2, <4>3, <4>5, <4>6, <4>7 DEF Reads
      <4>9. Planned(input, st, p, j)
        <5>1. \A x \in 1 .. Len(st) : x = 1
          BY <4>4
        <5>2. \A x \in 2 .. Len(st) : FALSE
          BY <4>4
        <5>3. p[1].w = input.sent[j] /\ p[1].after = More(input.sent, j)
          BY <4>3, <4>4 DEF w, g
        <5> QED BY <4>4, <4>8, <5>1, <5>2, <5>3 DEF Planned
      <4>10. Innermost(input, size.inp, f, e)
        <5>1. Coming(input, size.inp, Rest(f.msg, e.w, e.k) \o e.after)
          BY <2>2, <4>1, <4>2, <4>3, <4>6 DEF Coming
        <5> QED BY <4>2, <4>3, <4>6, <4>7, <5>1 DEF Innermost
      <4>11. Some(input, got, j - 1)
        BY <1>9, <3>1
      <4>12. InPlan(input, size.inp, st, got)
        BY <3>1, <4>4, <4>9, <4>10, <4>11 DEF InPlan
      <4>13. stack' = st
        BY <1>1, <3>7 DEF st, f
      <4> QED BY <1>1, <1>2, <3>7, <4>12, <4>13 DEF TalkInv
    <3> QED BY <3>6, <3>7
  <2> QED BY <2>3, <2>4
<1> QED BY <1>6, <1>8, <1>9 DEF Listens

\* A refusal is the end of a talk that was cut.
LEMMA RefuseTalks ==
    ASSUME TalkInv, NEW s, Refuse(s), GivenUp(input, got)
    PROVE  TalkInv'
BY DEF TalkInv, Refuse

\* Where the input ends between two fields the rest of the message is missing.
LEMMA InputEndsTalks ==
    ASSUME DecoderInv, TalkInv, stack # <<>>, InputEnds
    PROVE  TalkInv'
<1> DEFINE n == Len(stack)
           f == [Top EXCEPT !.left = 0]
           t == WithTop(f)
<1>1. /\ status = "reading" /\ Top.left > 0 /\ inp = <<>> /\ stack' = t
      /\ inp' = inp /\ input' = input /\ status' = status /\ got' = got
  BY DEF InputEnds, InMessage
<1>2. inp \in Seq(Byte) /\ Nested(stack)
  BY DEF DecoderInv
<1>3. n \in Nat \ {0} /\ IsFrame(Top) /\ IsList(stack) /\ Top = stack[n]
  BY <1>2, TopIs DEF Nested, Top
<1>4. f.msg = Top.msg /\ f.field = Top.field /\ f.value = Top.value /\ f.seen = Top.seen /\ f.left = 0
  BY <1>3 DEF IsFrame
<1>5. Top.msg \in DOMAIN Desc
  BY <1>3 DEF IsFrame
<1> HIDE DEF f
<1>6. ASSUME NEW m \in 1 .. Len(input.sent), Some(input, got, m - 1), Ended(input, inp),
             Len(stack) = 1, Cut(Root, stack[1].value, input.sent[m])
      PROVE  TalkInv'
  <2>1. Len(t) = 1 /\ t[1] = f
    BY <1>3, <1>6, ListReplace DEF WithTop
  <2>2. t[1].value = stack[1].value
    BY <1>3, <1>4, <1>6, <2>1
  <2> HIDE DEF t
  <2>3. LastCut(input, inp, t, got)
    BY <1>6, <2>1, <2>2 DEF LastCut
  <2> QED BY <1>1, <1>2, <2>3 DEF TalkInv
<1>7. ASSUME NEW m \in 1 .. Len(input.sent), Some(input, got, m - 1), NEW p, Planned(input, stack, p, m),
             Innermost(input, inp, stack[n], p[n])
      PROVE  TalkInv'
  <2> DEFINE e == p[n]
  <2>1. Reads(Top, e)
    BY <1>3, <1>7 DEF Planned
  <2>2. Reads(f, e)
    BY <1>4, <2>1 DEF Reads
  <2>3. \E q : Planned(input, t, q, m) /\ t[Len(t)] = f /\ q[Len(t)] = e
    BY <1>3, <1>4, <1>7, <2>2, PlannedTop DEF WithTop
  <2> HIDE DEF e, t
  <2>4. /\ Top.value = ReadTo(Top.msg, e.w, e.k)
        /\ Coming(input, inp, Rest(Top.msg, e.w, e.k) \o e.after)
        /\ Top.left = Len(Rest(Top.msg, e.w, e.k))
    <3>1. Innermost(input, inp, Top, e)
      BY <1>3, <1>7 DEF e
    <3>2. Top.left # 0
      BY <1>1
    <3> QED BY <3>1, <3>2 DEF Innermost
  <2>5. ~ input.whole
    <3> SUFFICES ASSUME input.whole PROVE FALSE
      OBVIOUS
    <3>1. inp \o <<>> = Rest(Top.msg, e.w, e.k) \o e.after
      BY <2>4 DEF Coming
    <3>2. Rest(Top.msg, e.w, e.k) \in Seq(Byte) /\ e.after \in Seq(Byte)
      <4>1. e.w \in ValuesOf(Top.msg) /\ e.k \in 0 .. Size(Top.msg, e.w) /\ e.after \in Seq(Byte)
        BY <2>1 DEF Reads
      <4> QED BY <1>5, <4>1, RestIs
    <3>3. <<>> \in Seq(Byte)
      OBVIOUS
    <3>4. Len(Rest(Top.msg, e.w, e.k)) = 0
      BY <1>1, <1>2, <3>1, <3>2, <3>3, BothEmpty
    <3> QED BY <1>1, <2>4, <3>4
  <2>6. Innermost(input, inp, f, e)
    BY <1>1, <1>4, <2>4, <2>5 DEF Innermost
  <2>7. InPlan(input, inp, t, got)
    BY <1>7, <2>3, <2>6 DEF InPlan
  <2> QED BY <1>1, <1>2, <2>7 DEF TalkInv
<1>8. InPlan(input, inp, stack, got) \/ LastCut(input, inp, stack, got)
  BY <1>1 DEF TalkInv
<1> QED BY <1>6, <1>7, <1>8 DEF InPlan, LastCut

\* The m-th message is being read, its innermost one as far as e says; there is a
\* k-th field; y is missing of what is still to come.
AtField(m, p, e, k, y) ==
    /\ Some(input, got, m - 1) /\ Planned(input, stack, p, m)
    /\ e = p[Len(stack)]
    /\ Reads(Top, e) /\ Top.value = ReadTo(Top.msg, e.w, e.k)
    /\ Top.left = Len(Rest(Top.msg, e.w, e.k))
    /\ inp \o y = Rest(Top.msg, e.w, e.k) \o e.after
    /\ y \in Seq(Byte) /\ (input.whole => y = <<>>)
    /\ k \in 1 .. Size(Top.msg, e.w) /\ k - 1 = e.k

\* Where there is more to read of a message, its next field is what the sender sent next.
LEMMA PlanToRead ==
    ASSUME DecoderInv, TalkInv, stack # <<>>, InMessage, inp # <<>>
    PROVE  \E m \in 1 .. Len(input.sent) : \E p, e, k, y : AtField(m, p, e, k, y)
<1>1. status = "reading" /\ Top.left > 0
  BY DEF InMessage
<1>2. ~ LastCut(input, inp, stack, got)
  BY DEF LastCut, Ended
<1>3. InPlan(input, inp, stack, got)
  BY <1>1, <1>2 DEF TalkInv
<1>4. PICK m \in 1 .. Len(input.sent) : \E p :
          Some(input, got, m - 1) /\ Planned(input, stack, p, m)
          /\ Innermost(input, inp, stack[Len(stack)], p[Len(stack)])
  BY <1>3 DEF InPlan
<1>5. PICK p : Some(input, got, m - 1) /\ Planned(input, stack, p, m)
               /\ Innermost(input, inp, stack[Len(stack)], p[Len(stack)])
  BY <1>4
<1> DEFINE e == p[Len(stack)]
           n == Len(stack)
<1>6. n \in Nat \ {0} /\ IsFrame(Top) /\ Top = stack[n]
  BY TopIs DEF DecoderInv, Top
<1>7. Reads(Top, e)
  BY <1>5, <1>6 DEF Planned
<1>8. Innermost(input, inp, Top, e)
  BY <1>5, <1>6
<1> HIDE DEF e
<1>9. PICK y \in Seq(Byte) : inp \o y = Rest(Top.msg, e.w, e.k) \o e.after /\ (input.whole => y = <<>>)
  BY <1>8 DEF Innermost, Coming
<1>10. Top.value = ReadTo(Top.msg, e.w, e.k) /\ Top.left = Len(Rest(Top.msg, e.w, e.k))
  BY <1>1, <1>8 DEF Innermost
<1>11. Top.msg \in DOMAIN Desc /\ e.w \in ValuesOf(Top.msg) /\ e.k \in 0 .. Size(Top.msg, e.w)
  BY <1>6, <1>7 DEF IsFrame, Reads
<1>12. \E k \in 1 .. Size(Top.msg, e.w) : k - 1 = e.k
  <2>1. Len(Rest(Top.msg, e.w, e.k)) # 0
    BY <1>1, <1>10
  <2>2. e.k + 1 \in 1 .. Size(Top.msg, e.w)
    BY <1>11, <2>1, RestEnds
  <2>3. (e.k + 1) - 1 = e.k
    BY <1>11
  <2> QED BY <2>2, <2>3
<1>13. e = p[Len(stack)]
  BY DEF e
<1>14. PICK k \in 1 .. Size(Top.msg, e.w) : k - 1 = e.k
  BY <1>12
<1>15. AtField(m, p, e, k, y)
  BY <1>5, <1>7, <1>9, <1>10, <1>13, <1>14 DEF AtField
<1> QED BY <1>15

\* Where a field begins the reader finds the tag that was sent, if it gets all of it.
LEMMA TagTalks ==
    ASSUME DecoderInv, stack # <<>>, NEW m, NEW p, NEW e, NEW k, NEW y, AtField(m, p, e, k, y)
    PROVE  /\ IsStream(Tag)
           /\ ~ Tag.ok => y # <<>>
           /\ Tag.ok => /\ Number = FieldAt(Top.msg, e.w, k) /\ Known
                        /\ Type = TypeAt(Top.msg, e.w, k) /\ Wire = WireType(Type)
                        /\ ~ NoRoom
                        /\ Tag.inp \o y = Payload(Type, ValueAt(Top.msg, e.w, k))
                                          \o (Rest(Top.msg, e.w, k) \o e.after)
                        /\ Tag.left = Len(Payload(Type, ValueAt(Top.msg, e.w, k)))
                                      + Len(Rest(Top.msg, e.w, k))
<1> DEFINE msg == Top.msg
           w == e.w
           a == TagAt(msg, w, k)
           b == Payload(TypeAt(msg, w, k), ValueAt(msg, w, k))
           c == Rest(msg, w, k)
           g == c \o e.after
           n == TagNumber(msg, w, k)
           s == TopStream
<1>0. /\ Reads(Top, e) /\ Top.value = ReadTo(Top.msg, e.w, e.k)
      /\ Top.left = Len(Rest(Top.msg, e.w, e.k)) /\ y \in Seq(Byte)
      /\ inp \o y = Rest(Top.msg, e.w, e.k) \o e.after
      /\ k \in 1 .. Size(Top.msg, e.w) /\ k - 1 = e.k
  <2>1. /\ Reads(Top, e) /\ Top.value = ReadTo(Top.msg, e.w, e.k)
        /\ Top.left = Len(Rest(Top.msg, e.w, e.k)) /\ y \in Seq(Byte)
        /\ inp \o y = Rest(Top.msg, e.w, e.k) \o e.after
    BY DEF AtField
  <2>2. k \in 1 .. Size(Top.msg, e.w) /\ k - 1 = e.k
    BY DEF AtField
  <2> QED BY <2>1, <2>2
<1>1. msg \in DOMAIN Desc /\ w \in ValuesOf(msg) /\ e.after \in Seq(Byte)
  BY <1>0, TopIs DEF DecoderInv, IsFrame, Reads
<1>2. IsStream(s) /\ s.ok /\ IsStream(Tag) /\ s.inp = inp /\ s.left = Top.left
  BY Streams DEF TopStream, Stream, StreamOf
<1>3. /\ a \in Seq(Byte) /\ b \in Seq(Byte) /\ c \in Seq(Byte)
      /\ Len(a) \in Nat \ {0} /\ Len(b) \in Nat /\ Len(c) \in Nat
      /\ Len(Rest(msg, w, k - 1)) = Len(a) + Len(b) + Len(c)
      /\ Rest(msg, w, k - 1) \o e.after = a \o (b \o (c \o e.after))
  <2>1. Continues(msg, w, k)
    BY <1>0, <1>1, NextField
  <2> QED BY <1>1, <2>1 DEF Continues
<1>4. /\ a = Varint(n) /\ n \in Nat /\ n < 2 ^ IntBits
      /\ n \div 8 = FieldAt(msg, w, k) /\ n % 8 = WireType(TypeAt(msg, w, k))
  BY <1>0, <1>1, TagIs
<1>5. FieldAt(msg, w, k) \in DOMAIN Desc[msg]
  BY <1>0, <1>1, FieldsAt
<1>6. /\ Desc[msg][FieldAt(msg, w, k)].rule = "repeated" =>
            Len(ReadTo(msg, w, k - 1)[FieldAt(msg, w, k)]) < MaxCount
  BY <1>0, <1>1, ReadOn
<1>7. g \in Seq(Byte) /\ b \o g \in Seq(Byte)
  <2>1. g \in Seq(Byte)
    BY <1>1, <1>3, Joined
  <2> HIDE DEF g
  <2> QED BY <1>3, <2>1, Joined
<1>8. s.inp \o y = a \o (b \o g) /\ s.left = Len(a) + Len(b) + Len(c)
  BY <1>0, <1>2, <1>3
<1>9. Tag = ReadVarint(s, IntBits)
  BY DEF Tag, ReadLength
<1>10. Top.value = ReadTo(msg, w, k - 1)
  BY <1>0
<1> HIDE DEF a, b, c, g, n, s
<1>11. Took(s, Tag, a, n, y, b \o g)
  <2>1. Len(a) <= s.left
    BY <1>3, <1>8
  <2> DEFINE r == b \o g
  <2>2. r \in Seq(Byte) /\ y \in Seq(Byte) /\ s.inp \o y = Varint(n) \o r /\ Len(Varint(n)) <= s.left /\ n < 2 ^ IntBits
    BY <1>0, <1>4, <1>7, <1>8, <2>1
  <2> HIDE DEF r
  <2>3. Took(s, ReadVarint(s, IntBits), Varint(n), n, y, r)
    BY <1>2, <1>4, <2>2, TakesVarint
  <2> QED BY <1>4, <1>9, <2>3 DEF r
<1>12. ~ Tag.ok => y # <<>>
  BY <1>11 DEF Took
<1>13. ASSUME Tag.ok
       PROVE  /\ Number = FieldAt(msg, w, k) /\ Known
              /\ Type = TypeAt(msg, w, k) /\ Wire = WireType(Type)
              /\ ~ NoRoom
              /\ Tag.inp \o y = b \o g
              /\ Tag.left = Len(b) + Len(c)
  <2>1. Tag.val = n /\ Tag.left = s.left - Len(a) /\ Tag.inp \o y = b \o g
    BY <1>11, <1>13 DEF Took
  <2>2. Number = FieldAt(msg, w, k) /\ Wire = WireType(TypeAt(msg, w, k))
    BY <1>4, <2>1 DEF Number, Wire
  <2>3. Known /\ Type = TypeAt(msg, w, k)
    BY <1>5, <1>13, <2>2 DEF Known, Type, TypeAt
  <2>4. ~ NoRoom
    <3> SUFFICES ASSUME Rule = "repeated" PROVE ~ (Len(Top.value[Number]) >= MaxCount)
      BY DEF NoRoom
    <3>1. Len(ReadTo(msg, w, k - 1)[FieldAt(msg, w, k)]) < MaxCount
      BY <1>6, <2>2 DEF Rule
    <3>2. Len(Top.value[Number]) < MaxCount
      BY <1>10, <2>2, <3>1
    <3> DEFINE x == Len(Top.value[Number])
    <3>3. x \in Nat
      <4>1. Number \in DOMAIN Desc[msg] /\ Rule = Desc[msg][Number].rule
        BY <1>5, <2>2 DEF Rule
      <4>2. IsOf(msg, Top.value)
        BY TopIs DEF DecoderInv, IsFrame
      <4>3. IsList(Top.value[Number])
        BY <1>1, <4>1, <4>2, RepeatedIs
      <4> QED BY <4>3, ListIs
    <3>4. x < MaxCount /\ MaxCount \in Nat
      BY <3>2, WidthAssumption
    <3> HIDE DEF x
    <3>5. ~ (x >= MaxCount)
      BY <3>3, <3>4
    <3> QED BY <3>5 DEF x
  <2>5. Tag.left = Len(b) + Len(c)
    BY <1>3, <1>8, <2>1
  <2> QED BY <2>1, <2>2, <2>3, <2>4, <2>5
<1> QED BY <1>2, <1>12, <1>13 DEF b, c, g

\* Giving up is right when the sender died.
LEMMA SomeGivenUp ==
    ASSUME ~ input.whole, NEW m, Some(input, got, m)
    PROVE  GivenUp(input, got)
BY DEF GivenUp

\* No field is refused or skipped; only a tag of which bytes are missing is.
LEMMA TagFailsTalks ==
    ASSUME DecoderInv, TalkInv, stack # <<>>, BadTag \/ SkipUnknown \/ BadField
    PROVE  TalkInv'
<1>1. InMessage /\ inp # <<>>
  BY DEF BadTag, SkipUnknown, BadField
<1>2. PICK m \in 1 .. Len(input.sent) : \E p, e, k, y : AtField(m, p, e, k, y)
  BY <1>1, PlanToRead
<1>3. PICK p, e, k, y : AtField(m, p, e, k, y)
  BY <1>2
<1>4. /\ Some(input, got, m - 1) /\ Reads(Top, e) /\ (input.whole => y = <<>>)
      /\ k \in 1 .. Size(Top.msg, e.w)
  BY <1>3 DEF AtField
<1>6. /\ IsStream(Tag) /\ (~ Tag.ok => y # <<>>)
      /\ Tag.ok => /\ Number = FieldAt(Top.msg, e.w, k) /\ Known
                   /\ Wire = WireType(Type) /\ ~ NoRoom
  BY <1>3, TagTalks
<1>7. FieldAt(Top.msg, e.w, k) # 0
  <2>1. Top.msg \in DOMAIN Desc /\ e.w \in ValuesOf(Top.msg)
    BY <1>4, TopIs DEF DecoderInv, IsFrame, Reads
  <2>2. FieldAt(Top.msg, e.w, k) \in 1 .. 5
    BY <1>4, <2>1, FieldsAt
  <2> QED BY <2>2
<1>8. ~ Tag.ok /\ Refuse(Tag)
  <2>1. CASE BadTag
    BY <1>6, <1>7, <2>1 DEF BadTag
  <2>2. CASE SkipUnknown
    BY <1>6, <2>2 DEF SkipUnknown
  <2>3. CASE BadField
    BY <1>6, <2>3 DEF BadField, Known
  <2> QED BY <2>1, <2>2, <2>3
<1>9. GivenUp(input, got)
  BY <1>4, <1>6, <1>8, SomeGivenUp
<1> QED BY <1>8, <1>9, RefuseTalks

\* The innermost message is read on, up to the end of its next field.
LEMMA ReadsOn ==
    ASSUME DecoderInv, TalkInv, stack # <<>>, status = "reading",
           NEW m \in 1 .. Len(input.sent), NEW p, NEW e, NEW k, NEW y, AtField(m, p, e, k, y),
           inp' \o y = Rest(Top.msg, e.w, k) \o e.after,
           NEW f, f.msg = Top.msg, f.field = Top.field, f.seen = SeenTo(Top.msg, k),
           f.value = ReadTo(Top.msg, e.w, k), f.left = Len(Rest(Top.msg, e.w, k)),
           stack' = WithTop(f), UNCHANGED <<input, status, got>>
    PROVE  TalkInv'
<1> DEFINE d == [w |-> e.w, k |-> k, after |-> e.after]
           n == Len(stack)
           t == WithTop(f)
<1>0. /\ Some(input, got, m - 1) /\ Planned(input, stack, p, m) /\ e = p[Len(stack)]
      /\ Reads(Top, e) /\ y \in Seq(Byte) /\ (input.whole => y = <<>>)
      /\ k \in 1 .. Size(Top.msg, e.w) /\ k - 1 = e.k
  <2>1. /\ Some(input, got, m - 1) /\ Planned(input, stack, p, m) /\ e = p[Len(stack)]
        /\ Reads(Top, e) /\ y \in Seq(Byte) /\ (input.whole => y = <<>>)
    BY DEF AtField
  <2>2. k \in 1 .. Size(Top.msg, e.w) /\ k - 1 = e.k
    BY DEF AtField
  <2> QED BY <2>1, <2>2
<1>1. d.w = e.w /\ d.k = k /\ d.after = e.after
  OBVIOUS
<1>2. Top.msg \in DOMAIN Desc /\ e.w \in ValuesOf(Top.msg) /\ e.k \in 0 .. Size(Top.msg, e.w)
      /\ e.after \in Seq(Byte) /\ Len(Rest(Top.msg, e.w, e.k)) < 2 ^ IntBits
  BY <1>0, TopIs DEF DecoderInv, IsFrame, Reads
<1>3. n \in Nat \ {0} /\ IsList(stack) /\ Top = stack[n]
  BY TopIs DEF DecoderInv, Nested, Top
<1> HIDE DEF d
<1>4. Len(Rest(Top.msg, e.w, k)) < 2 ^ IntBits /\ k \in 0 .. Size(Top.msg, e.w)
  <2> DEFINE a == Len(TagAt(Top.msg, e.w, k))
             b == Len(Payload(TypeAt(Top.msg, e.w, k), ValueAt(Top.msg, e.w, k)))
             c == Len(Rest(Top.msg, e.w, k))
             z == 2 ^ IntBits
  <2>1. a \in Nat \ {0} /\ b \in Nat /\ c \in Nat /\ Len(Rest(Top.msg, e.w, k - 1)) = a + b + c
    <3>1. Continues(Top.msg, e.w, k)
      BY <1>0, <1>2, NextField
    <3> QED BY <3>1 DEF Continues
  <2>2. a + b + c < z /\ z \in Nat
    BY <1>0, <1>2, <2>1, IntRange
  <2>3. k \in 0 .. Size(Top.msg, e.w)
    BY <1>0, <1>2, FieldsAt
  <2> HIDE DEF a, b, c, z
  <2>4. c < z
    BY <2>1, <2>2
  <2> QED BY <2>3, <2>4 DEF c, z
<1>5. Reads(f, d)
  BY <1>1, <1>2, <1>4 DEF Reads
<1>6. \E q : Planned(input, t, q, m) /\ t[Len(t)] = f /\ q[Len(t)] = d
  <2>1. /\ f.msg = stack[n].msg /\ f.field = stack[n].field
        /\ d.w = p[n].w /\ d.after = p[n].after /\ n # 0
    BY <1>0, <1>1, <1>3
  <2>2. Planned(input, stack, p, m)
    BY <1>0
  <2> QED BY <1>3, <1>5, <2>1, <2>2, PlannedTop DEF WithTop
<1>7. Innermost(input, inp', f, d)
  <2>1. Coming(input, inp', Rest(f.msg, d.w, d.k) \o d.after)
    BY <1>0, <1>1 DEF Coming
  <2> QED BY <1>1, <2>1 DEF Innermost
<1> HIDE DEF t
<1>8. InPlan(input, inp', t, got)
  BY <1>0, <1>6, <1>7 DEF InPlan
<1>9. stack' = t
  BY DEF t
<1> QED BY <1>8, <1>9 DEF TalkInv

\* A scalar field gets the value that was sent (pb_decode_field).
LEMMA ReadFieldTalks ==
    ASSUME DecoderInv, TalkInv, stack # <<>>, ReadField
    PROVE  TalkInv'
<1> DEFINE s == ReadScalar(Tag, Type)
           h == [Top EXCEPT !.seen = Seen, !.value[Number] = s.val]
           f == [h EXCEPT !.left = s.left]
<1>1. InMessage /\ inp # <<>> /\ Known /\ ~ IsMessage(Type) /\ GoOn(s, h) /\ status = "reading"
  BY DEF ReadField, InMessage
<1>2. PICK m \in 1 .. Len(input.sent) : \E p, e, k, y : AtField(m, p, e, k, y)
  BY <1>1, PlanToRead
<1>3. PICK p, e, k, y : AtField(m, p, e, k, y)
  BY <1>2
<1>4. /\ Some(input, got, m - 1) /\ Reads(Top, e) /\ (input.whole => y = <<>>) /\ y \in Seq(Byte)
      /\ Top.value = ReadTo(Top.msg, e.w, e.k)
      /\ k \in 1 .. Size(Top.msg, e.w) /\ k - 1 = e.k
  BY <1>3 DEF AtField
<1> DEFINE msg == Top.msg
           w == e.w
           x == ValueAt(msg, w, k)
           c == Rest(msg, w, k)
           b == Payload(Type, x)
<1>5. /\ IsStream(Tag) /\ Tag.ok /\ Number = FieldAt(msg, w, k) /\ Type = TypeAt(msg, w, k)
      /\ Tag.inp \o y = b \o (c \o e.after) /\ Tag.left = Len(b) + Len(c)
  <2>1. Tag.ok
    BY <1>1 DEF Known
  <2>2. /\ IsStream(Tag)
        /\ Tag.ok => /\ Number = FieldAt(Top.msg, e.w, k) /\ Known
                     /\ Type = TypeAt(Top.msg, e.w, k) /\ Wire = WireType(Type)
                     /\ ~ NoRoom
                     /\ Tag.inp \o y = Payload(Type, ValueAt(Top.msg, e.w, k))
                                       \o (Rest(Top.msg, e.w, k) \o e.after)
                     /\ Tag.left = Len(Payload(Type, ValueAt(Top.msg, e.w, k)))
                                   + Len(Rest(Top.msg, e.w, k))
    BY <1>3, TagTalks
  <2> QED BY <2>1, <2>2
<1>6. /\ msg \in DOMAIN Desc /\ w \in ValuesOf(msg) /\ e.after \in Seq(Byte)
      /\ Len(Rest(msg, w, k - 1)) < 2 ^ IntBits /\ Top.seen = SeenTo(msg, k - 1)
  BY <1>4, TopIs DEF DecoderInv, IsFrame, Reads
<1>7. Number \in DOMAIN Desc[msg] /\ Rule = Desc[msg][Number].rule /\ Type = Desc[msg][Number].type
  BY <1>1, FieldIs
<1>8. Rule = "required" /\ Type \in Scalars /\ x \in ValuesOf(Type)
  <2>1. Rule = "required" /\ Type \in DOMAIN Desc \cup Scalars
    BY <1>1, <1>6, <1>7, FieldKinds DEF Scalars
  <2>2. Type \in Scalars
    BY <1>1, <2>1 DEF IsMessage
  <2>3. x \in ValuesOf(Type)
    BY <1>4, <1>5, <1>6, FieldsAt
  <2> QED BY <2>1, <2>2, <2>3
<1>9. /\ b = Scalar(Type, x) /\ b \in Seq(Byte) /\ c \in Seq(Byte) /\ Len(b) \in Nat /\ Len(c) \in Nat
      /\ Len(b) < 2 ^ IntBits
  <2>1. b = Scalar(Type, x)
    BY <1>8, NoScalarIsMessage DEF Payload
  <2> DEFINE a == TagAt(msg, w, k)
  <2>2. /\ b \in Seq(Byte) /\ c \in Seq(Byte) /\ Len(a) \in Nat /\ Len(b) \in Nat /\ Len(c) \in Nat
        /\ Len(Rest(msg, w, k - 1)) = Len(a) + Len(b) + Len(c)
    <3>1. Continues(msg, w, k)
      BY <1>4, <1>6, NextField
    <3> QED BY <1>5, <3>1 DEF Continues
  <2> DEFINE z == 2 ^ IntBits
             la == Len(a)
             lb == Len(b)
             lc == Len(c)
  <2>3. la \in Nat /\ lb \in Nat /\ lc \in Nat /\ la + lb + lc < z /\ z \in Nat
    BY <1>6, <2>2, IntRange
  <2> HIDE DEF z, la, lb, lc
  <2>4. lb < z
    BY <2>3
  <2> QED BY <2>1, <2>2, <2>4 DEF z, lb
<1> HIDE DEF b, c, x
<1>10. Took(Tag, s, b, x, y, c \o e.after)
  <2> DEFINE g == c \o e.after
  <2>1. g \in Seq(Byte)
    BY <1>6, <1>9, Joined
  <2>2. Len(b) <= Tag.left
    BY <1>5, <1>9
  <2> HIDE DEF g
  <2>3. Tag.inp \o y = Scalar(Type, x) \o g /\ Len(Scalar(Type, x)) <= Tag.left
        /\ Len(Scalar(Type, x)) < 2 ^ IntBits
    BY <1>5, <1>9, <2>2 DEF g
  <2>4. Took(Tag, ReadScalar(Tag, Type), Scalar(Type, x), x, y, g)
    BY <1>4, <1>5, <1>8, <2>1, <2>3, TookScalar DEF Scalars
  <2> QED BY <1>9, <2>4 DEF g
<1>11. CASE ~ s.ok
  <2>1. Refuse(s)
    BY <1>1, <1>11 DEF GoOn
  <2>2. y # <<>>
    BY <1>10, <1>11 DEF Took
  <2>3. GivenUp(input, got)
    BY <1>4, <2>2, SomeGivenUp
  <2> QED BY <2>1, <2>3, RefuseTalks
<1>12. CASE s.ok
  <2>1. s.val = x /\ s.left = Len(c) /\ s.inp \o y = c \o e.after
    <3>1. s.val = x /\ s.left = Tag.left - Len(b) /\ s.inp \o y = c \o e.after
      BY <1>10, <1>12 DEF Took
    <3> QED BY <1>5, <1>9, <3>1
  <2>2. inp' = s.inp /\ stack' = WithTop(f) /\ UNCHANGED <<input, status, got>>
    BY <1>1, <1>12 DEF GoOn
  <2>3. /\ f.msg = Top.msg /\ f.field = Top.field /\ f.seen = Seen
        /\ f.value = [Top.value EXCEPT ![Number] = s.val] /\ f.left = s.left
    BY TopIs DEF DecoderInv, IsFrame
  <2> HIDE DEF f, h, s
  <2>4. f.value = ReadTo(msg, w, k)
    <3>1. ReadTo(msg, w, k) = Put(msg, ReadTo(msg, w, k - 1), Number, x)
      BY <1>4, <1>5, <1>6, ReadOn DEF x
    <3>2. \A v : Put(msg, v, Number, x) = [v EXCEPT ![Number] = x]
      BY <1>7, <1>8 DEF Put
    <3> QED BY <1>4, <2>1, <2>3, <3>1, <3>2
  <2>5. f.seen = SeenTo(msg, k)
    <3>1. Seen = SeenTo(msg, k - 1) \cup {Number}
      BY <1>6, <1>8 DEF Seen
    <3>2. SeenTo(msg, k) = SeenTo(msg, k - 1) \cup {Number}
      <4>1. SeenTo(msg, k) = IF Desc[msg][FieldAt(msg, w, k)].rule = "required"
                             THEN SeenTo(msg, k - 1) \cup {FieldAt(msg, w, k)} ELSE SeenTo(msg, k - 1)
        BY <1>4, <1>6, SeenIs
      <4> QED BY <1>5, <1>7, <1>8, <4>1
    <3> QED BY <2>3, <3>1, <3>2
  <2>6. f.left = Len(Rest(msg, w, k)) /\ inp' \o y = Rest(msg, w, k) \o e.after
    BY <2>1, <2>2, <2>3 DEF c
  <2>7. /\ inp' \o y = Rest(Top.msg, e.w, k) \o e.after
        /\ f.msg = Top.msg /\ f.field = Top.field /\ f.seen = SeenTo(Top.msg, k)
        /\ f.value = ReadTo(Top.msg, e.w, k) /\ f.left = Len(Rest(Top.msg, e.w, k))
        /\ stack' = WithTop(f) /\ UNCHANGED <<input, status, got>>
    BY <2>2, <2>3, <2>4, <2>5, <2>6
  <2>8. status = "reading"
    BY <1>1
  <2> QED BY <1>3, <2>7, <2>8, ReadsOn
<1> QED BY <1>11, <1>12

\* A submessage is opened inside the innermost message.
LEMMA PlannedPush ==
    ASSUME NEW i, NEW st, IsList(st), Len(st) # 0, NEW p, NEW m, Planned(i, st, p, m),
           NEW sub, NEW s, Reads(sub, s), Waits(st[Len(st)], p[Len(st)], sub, s)
    PROVE  LET t == Append(st, sub)
           IN  /\ Len(t) = Len(st) + 1 /\ t[Len(t)] = sub
               /\ \E q : Planned(i, t, q, m) /\ q[Len(t)] = s
<1> DEFINE n == Len(st)
           t == Append(st, sub)
           q == [j \in 1 .. n + 1 |-> IF j = n + 1 THEN s ELSE p[j]]
<1>1. n \in Nat \ {0}
  BY ListIs
<1>2. Len(t) = n + 1 /\ t[n + 1] = sub /\ \A j \in 1 .. n : t[j] = st[j]
  BY ListAppend
<1>3. q[n + 1] = s /\ \A j \in 1 .. n : q[j] = p[j]
  BY <1>1
<1>4. /\ \A j \in 1 .. n : Reads(st[j], p[j])
      /\ \A j \in 2 .. n : Waits(st[j - 1], p[j - 1], st[j], p[j])
      /\ p[1].w = i.sent[m] /\ p[1].after = More(i.sent, m)
      /\ Waits(st[n], p[n], sub, s)
  BY DEF Planned
<1> HIDE DEF n, t, q
<1>5. \A j \in 1 .. n + 1 : Reads(t[j], q[j])
  <2> SUFFICES ASSUME NEW j \in 1 .. n + 1 PROVE Reads(t[j], q[j])
    OBVIOUS
  <2>1. j = n + 1 \/ j \in 1 .. n
    BY <1>1
  <2> QED BY <1>2, <1>3, <1>4, <2>1
<1>6. \A j \in 2 .. n + 1 : Waits(t[j - 1], q[j - 1], t[j], q[j])
  <2> SUFFICES ASSUME NEW j \in 2 .. n + 1 PROVE Waits(t[j - 1], q[j - 1], t[j], q[j])
    OBVIOUS
  <2>1. CASE j = n + 1
    <3>1. j - 1 = n /\ n \in 1 .. n
      BY <1>1, <2>1
    <3> QED BY <1>2, <1>3, <1>4, <2>1, <3>1
  <2>2. CASE j # n + 1
    <3>1. j \in 2 .. n /\ j \in 1 .. n /\ j - 1 \in 1 .. n
      BY <1>1, <2>2
    <3> QED BY <1>2, <1>3, <1>4, <3>1
  <2> QED BY <2>1, <2>2
<1>7. q[1].w = i.sent[m] /\ q[1].after = More(i.sent, m)
  <2>1. 1 \in 1 .. n
    BY <1>1
  <2> QED BY <1>3, <1>4, <2>1
<1>8. Planned(i, t, q, m)
  BY <1>2, <1>5, <1>6, <1>7 DEF Planned
<1>9. Len(t) = n + 1 /\ t[Len(t)] = sub /\ q[Len(t)] = s
  BY <1>2, <1>3
<1> QED BY <1>8, <1>9 DEF n, t

\* t is the list st without its innermost message, the one around it read on.
Pops(i, st, p, m, f, t) ==
    /\ IsList(st) /\ Planned(i, st, p, m) /\ Len(st) > 1
    /\ Reads(f, p[Len(st) - 1])
    /\ f.msg = st[Len(st) - 1].msg /\ f.field = st[Len(st) - 1].field
    /\ t = Append(SubSeq(st, 1, Len(st) - 2), f)

\* The innermost message is closed, and the one around it read on.
LEMMA PlannedPop ==
    ASSUME NEW i, NEW st, NEW p, NEW m, NEW f, NEW t, Pops(i, st, p, m, f, t)
    PROVE  Planned(i, t, p, m) /\ t[Len(t)] = f /\ Len(t) = Len(st) - 1
<1> DEFINE n == Len(st)
           a == SubSeq(st, 1, n - 2)
<1>0. /\ IsList(st) /\ Planned(i, st, p, m) /\ n > 1 /\ n = Len(st)
      /\ Reads(f, p[n - 1]) /\ f.msg = st[n - 1].msg /\ f.field = st[n - 1].field
      /\ t = Append(a, f)
  BY DEF Pops
<1>1. n \in Nat /\ n - 2 \in 0 .. n
  BY <1>0, ListIs
<1>2. IsList(a) /\ Len(a) = n - 2 /\ \A j \in 1 .. n - 2 : a[j] = st[j]
  BY <1>0, <1>1, ListSub
<1> HIDE DEF a, n
<1>3. Len(t) = n - 1 /\ t[n - 1] = f /\ \A j \in 1 .. n - 2 : t[j] = st[j]
  <2>1. Len(t) = Len(a) + 1 /\ t[Len(a) + 1] = f /\ \A j \in 1 .. Len(a) : t[j] = a[j]
    BY <1>0, <1>2, ListAppend
  <2>2. (n - 2) + 1 = n - 1
    BY <1>1
  <2> QED BY <1>2, <2>1, <2>2
<1>4. /\ \A j \in 1 .. n : Reads(st[j], p[j])
      /\ \A j \in 2 .. n : Waits(st[j - 1], p[j - 1], st[j], p[j])
      /\ p[1].w = i.sent[m] /\ p[1].after = More(i.sent, m)
  BY <1>0 DEF Planned
<1>5. \A j \in 1 .. n - 1 : Reads(t[j], p[j])
  <2> SUFFICES ASSUME NEW j \in 1 .. n - 1 PROVE Reads(t[j], p[j])
    OBVIOUS
  <2>1. (j = n - 1 \/ j \in 1 .. n - 2) /\ j \in 1 .. n
    BY <1>1
  <2> QED BY <1>0, <1>3, <1>4, <2>1
<1>6. \A j \in 2 .. n - 1 : Waits(t[j - 1], p[j - 1], t[j], p[j])
  <2> SUFFICES ASSUME NEW j \in 2 .. n - 1 PROVE Waits(t[j - 1], p[j - 1], t[j], p[j])
    OBVIOUS
  <2>1. j - 1 \in 1 .. n - 2 /\ (j = n - 1 \/ j \in 1 .. n - 2) /\ j \in 2 .. n
    BY <1>1
  <2>2. t[j - 1] = st[j - 1]
    BY <1>3, <2>1
  <2>3. t[j].field = st[j].field /\ t[j].msg = st[j].msg
    BY <1>0, <1>3, <2>1
  <2>4. Waits(st[j - 1], p[j - 1], st[j], p[j])
    BY <1>4, <2>1
  <2> QED BY <2>2, <2>3, <2>4 DEF Waits
<1>7. Planned(i, t, p, m)
  BY <1>0, <1>3, <1>4, <1>5, <1>6 DEF Planned
<1>8. t[Len(t)] = f /\ Len(t) = n - 1
  BY <1>0, <1>3
<1> QED BY <1>7, <1>8 DEF n

\* A required submessage is empty before it is read.
LEMMA ZeroInside ==
    ASSUME NEW msg \in DOMAIN Desc, NEW n \in DOMAIN Desc[msg],
           Desc[msg][n].rule = "required", IsMessage(Desc[msg][n].type)
    PROVE  Zeros[msg][n] = Zeros[Desc[msg][n].type]
<1>1. \A type \in Scalars : ~ IsMessage(type)
  BY NoScalarIsMessage
<1>2. CASE msg = "Query"
  <2>1. n = 1 \/ n = 2 \/ n = 3
    BY <1>2, FieldsAre
  <2> QED BY <1>1, <1>2, <2>1, TypesAre, RuleAndType DEF Scalars
<1>3. CASE msg = "Filter"
  BY <1>3, FieldsAre, TypesAre, RuleAndType
<1>4. CASE msg = "ValueSetting"
  BY <1>4, FieldsAre, TypesAre, RuleAndType DEF Zeros
<1>5. CASE msg = "Comparator"
  <2>1. n = 1 \/ n = 2
    BY <1>5, FieldsAre
  <2> QED BY <1>1, <1>5, <2>1, TypesAre, RuleAndType DEF Scalars, Zeros
<1>6. CASE msg \in {"KeyValuePair", "Response"}
  <2>1. Desc[msg][n].type \in Scalars
    BY <1>6, Inner
  <2> QED BY <1>1, <2>1
<1> QED BY <1>2, <1>3, <1>4, <1>5, <1>6, MessagesAre

\* A submessage gets as many bytes as were sent for it (pb_make_string_substream).
LEMMA OpenTalks ==
    ASSUME DecoderInv, TalkInv, stack # <<>>, OpenSubmessage
    PROVE  TalkInv'
<1> DEFINE size == ReadLength(Tag)
           f == [Top EXCEPT !.left = size.left - size.val, !.seen = Seen]
           t == WithTop(f)
           sub == Frame(Type, Number, size.val, Entry)
<1>1. /\ InMessage /\ inp # <<>> /\ Known /\ IsMessage(Type) /\ status = "reading"
      /\ IF size.ok /\ size.left >= size.val
         THEN /\ inp' = size.inp /\ stack' = Append(t, sub)
              /\ UNCHANGED <<input, status, got>>
         ELSE Refuse(size)
  BY DEF OpenSubmessage, InMessage
<1>2. PICK m \in 1 .. Len(input.sent) : \E p, e, k, y : AtField(m, p, e, k, y)
  BY <1>1, PlanToRead
<1>3. PICK p, e, k, y : AtField(m, p, e, k, y)
  BY <1>2
<1>4. /\ Some(input, got, m - 1) /\ Planned(input, stack, p, m) /\ e = p[Len(stack)]
      /\ Reads(Top, e) /\ (input.whole => y = <<>>) /\ y \in Seq(Byte)
      /\ Top.value = ReadTo(Top.msg, e.w, e.k)
      /\ k \in 1 .. Size(Top.msg, e.w) /\ k - 1 = e.k
  BY <1>3 DEF AtField
<1> DEFINE msg == Top.msg
           w == e.w
           x == ValueAt(msg, w, k)
           c == Rest(msg, w, k)
           b == Encoded(Type, x)
           g == c \o e.after
<1>5. /\ IsStream(Tag) /\ Tag.ok /\ Number = FieldAt(msg, w, k) /\ Type = TypeAt(msg, w, k)
      /\ Tag.inp \o y = Payload(Type, x) \o g /\ Tag.left = Len(Payload(Type, x)) + Len(c)
  <2>1. Tag.ok
    BY <1>1 DEF Known
  <2>2. /\ IsStream(Tag)
        /\ Tag.ok => /\ Number = FieldAt(Top.msg, e.w, k) /\ Known
                     /\ Type = TypeAt(Top.msg, e.w, k) /\ Wire = WireType(Type)
                     /\ ~ NoRoom
                     /\ Tag.inp \o y = Payload(Type, ValueAt(Top.msg, e.w, k))
                                       \o (Rest(Top.msg, e.w, k) \o e.after)
                     /\ Tag.left = Len(Payload(Type, ValueAt(Top.msg, e.w, k)))
                                   + Len(Rest(Top.msg, e.w, k))
    BY <1>3, TagTalks
  <2> QED BY <2>1, <2>2
<1>6. /\ msg \in DOMAIN Desc /\ w \in ValuesOf(msg) /\ e.k \in 0 .. Size(msg, w)
      /\ e.after \in Seq(Byte)
      /\ Len(Rest(msg, w, k - 1)) < 2 ^ IntBits /\ Top.seen = SeenTo(msg, k - 1)
  BY <1>4, TopIs DEF DecoderInv, IsFrame, Reads
<1>7. /\ Number \in DOMAIN Desc[msg] /\ Rule = Desc[msg][Number].rule /\ Type = Desc[msg][Number].type
      /\ Rule \in {"required", "repeated"}
  <2>1. Number \in DOMAIN Desc[msg] /\ Rule = Desc[msg][Number].rule /\ Type = Desc[msg][Number].type
    BY <1>1, FieldIs
  <2> QED BY <1>6, <2>1, FieldKinds
<1>8. Type \in DOMAIN Desc /\ x \in ValuesOf(Type)
  <2>1. x \in ValuesOf(Type)
    BY <1>4, <1>5, <1>6, FieldsAt
  <2> QED BY <1>1, <2>1 DEF IsMessage
<1>9. /\ Payload(Type, x) = LengthFirst(b) /\ b \in Seq(Byte) /\ c \in Seq(Byte)
      /\ Len(b) \in Nat /\ Len(c) \in Nat
      /\ Len(Varint(Len(b))) \in Nat
      /\ Tag.left = Len(Varint(Len(b))) + Len(b) + Len(c)
      /\ Len(b) < 2 ^ IntBits /\ Len(c) < 2 ^ IntBits
  <2>1. Payload(Type, x) = LengthFirst(b)
    BY <1>1 DEF Payload
  <2>2. b \in Seq(Byte) /\ Len(b) \in Nat
    BY <1>8, EncodedBytes
  <2> DEFINE a == TagAt(msg, w, k)
  <2>3. /\ c \in Seq(Byte) /\ Len(a) \in Nat /\ Len(c) \in Nat
        /\ Len(Rest(msg, w, k - 1)) = Len(a) + Len(Payload(TypeAt(msg, w, k), x)) + Len(c)
    <3>1. Continues(msg, w, k)
      BY <1>4, <1>6, NextField
    <3> QED BY <3>1 DEF Continues
  <2>4. Len(LengthFirst(b)) = Len(Varint(Len(b))) + Len(b) /\ Len(Varint(Len(b))) \in Nat
    BY <2>2, LengthFirstIs
  <2>5. Len(Rest(msg, w, k - 1)) = Len(a) + Len(LengthFirst(b)) + Len(c)
    BY <1>5, <2>1, <2>3
  <2>6. Tag.left = Len(LengthFirst(b)) + Len(c)
    BY <1>5, <2>1
  <2> DEFINE z == 2 ^ IntBits
             la == Len(a)
             lv == Len(Varint(Len(b)))
             lb == Len(b)
             lc == Len(c)
  <2>7. la \in Nat /\ lv \in Nat /\ lb \in Nat /\ lc \in Nat /\ la + (lv + lb) + lc < z /\ z \in Nat
        /\ Tag.left = (lv + lb) + lc
    BY <1>6, <2>2, <2>3, <2>4, <2>5, <2>6, IntRange
  <2> HIDE DEF z, la, lv, lb, lc
  <2>8. lb < z /\ lc < z /\ Tag.left = lv + lb + lc
    BY <2>7
  <2> QED BY <2>1, <2>2, <2>3, <2>4, <2>8 DEF z, lv, lb, lc
<1>10. g \in Seq(Byte)
  BY <1>6, <1>9, Joined
<1> HIDE DEF b, c, x, g
<1>11. Took(Tag, size, Varint(Len(b)), Len(b), y, b \o g)
  <2>1. Len(Varint(Len(b))) <= Tag.left
    <3> DEFINE lv == Len(Varint(Len(b)))
               lb == Len(b)
               lc == Len(c)
    <3>1. lv \in Nat /\ lb \in Nat /\ lc \in Nat /\ Tag.left = lv + lb + lc
      BY <1>9
    <3> HIDE DEF lv, lb, lc
    <3>2. lv <= Tag.left
      BY <3>1
    <3> QED BY <3>2 DEF lv
  <2>2. Tag.inp \o y = LengthFirst(b) \o g
    BY <1>5, <1>9
  <2>3. b \in Seq(Byte) /\ Len(b) < 2 ^ IntBits
    BY <1>9
  <2> QED BY <1>4, <1>5, <1>10, <2>1, <2>2, <2>3, TookLength
<1>12. CASE ~ size.ok
  <2>1. Refuse(size)
    BY <1>1, <1>12
  <2>2. y # <<>>
    BY <1>11, <1>12 DEF Took
  <2>3. GivenUp(input, got)
    BY <1>4, <2>2, SomeGivenUp
  <2> QED BY <2>1, <2>3, RefuseTalks
<1>13. CASE size.ok
  <2>1. size.val = Len(b) /\ size.left = Tag.left - Len(Varint(Len(b))) /\ size.inp \o y = b \o g
    BY <1>11, <1>13 DEF Took
  <2>2. size.left >= size.val /\ size.left - size.val = Len(c)
    <3> DEFINE lv == Len(Varint(Len(b)))
               lb == Len(b)
               lc == Len(c)
               r == size.left
    <3>1. lv \in Nat /\ lb \in Nat /\ lc \in Nat /\ Tag.left = lv + lb + lc /\ r = Tag.left - lv
      BY <1>9, <2>1
    <3> HIDE DEF lv, lb, lc, r
    <3>2. r >= lb /\ r - lb = lc
      BY <3>1
    <3> QED BY <2>1, <3>2 DEF r, lb, lc
  <2>3. inp' = size.inp /\ stack' = Append(t, sub) /\ UNCHANGED <<input, status, got>>
    BY <1>1, <1>13, <2>2
  <2>4. /\ f.msg = Top.msg /\ f.field = Top.field /\ f.seen = Seen
        /\ f.value = Top.value /\ f.left = Len(c)
    BY <2>2, TopIs DEF DecoderInv, IsFrame
  <2>5. /\ sub.msg = Type /\ sub.field = Number /\ sub.left = Len(b)
        /\ sub.seen = {} /\ sub.value = Entry
    BY <2>1 DEF Frame
  <2> HIDE DEF f, sub
  <2>6. f.seen = SeenTo(msg, k)
    <3>1. SeenTo(msg, k) = IF Desc[msg][FieldAt(msg, w, k)].rule = "required"
                           THEN SeenTo(msg, k - 1) \cup {FieldAt(msg, w, k)} ELSE SeenTo(msg, k - 1)
      BY <1>4, <1>6, SeenIs
    <3> QED BY <1>5, <1>6, <1>7, <2>4, <3>1 DEF Seen
  <2>7. Entry = Zeros[Type]
    <3>1. CASE Rule = "required"
      <4>1. ReadTo(msg, w, k - 1)[FieldAt(msg, w, k)] = Zeros[msg][FieldAt(msg, w, k)]
        BY <1>4, <1>5, <1>6, <1>7, <3>1, ReadOn
      <4>2. Zeros[msg][Number] = Zeros[Type]
        BY <1>1, <1>6, <1>7, <3>1, ZeroInside
      <4> QED BY <1>4, <1>5, <3>1, <4>1, <4>2 DEF Entry
    <3>2. CASE Rule # "required"
      BY <3>2 DEF Entry
    <3> QED BY <3>1, <3>2
  <2> DEFINE d == [w |-> w, k |-> k, after |-> e.after]
             s == [w |-> x, k |-> 0, after |-> g]
  <2>8. d.w = w /\ d.k = k /\ d.after = e.after /\ s.w = x /\ s.k = 0 /\ s.after = g
    OBVIOUS
  <2> HIDE DEF d, s
  <2>9. Reads(f, d)
    <3>1. k \in 0 .. Size(msg, w)
      BY <1>4, <1>6, FieldsAt
    <3> QED BY <1>6, <1>9, <2>4, <2>6, <2>8, <3>1 DEF Reads, c
  <2>10. Reads(sub, s)
    <3>1. Size(Type, x) \in Nat /\ 0 \in 0 .. Size(Type, x) /\ Rest(Type, x, 0) = b
      BY <1>8, RestIs DEF b
    <3>2. SeenTo(Type, 0) = {}
      BY <1>8, SeenIs
    <3> QED BY <1>8, <1>9, <1>10, <2>5, <2>8, <3>1, <3>2 DEF Reads
  <2>11. Waits(f, d, sub, s)
    <3>1. d.k # 0
      BY <1>4, <1>6, <2>8, FieldsAt
    <3>2. f.value = ReadTo(f.msg, d.w, d.k - 1)
      BY <1>4, <2>4, <2>8
    <3>3. f.left = Len(Rest(f.msg, d.w, d.k))
      BY <2>4, <2>8 DEF c
    <3>4. sub.field = FieldAt(f.msg, d.w, d.k) /\ sub.msg = TypeAt(f.msg, d.w, d.k)
      BY <1>5, <2>4, <2>5, <2>8
    <3>5. s.w = ValueAt(f.msg, d.w, d.k) /\ s.after = Rest(f.msg, d.w, d.k) \o d.after
      BY <2>4, <2>8 DEF x, g, c
    <3> QED BY <3>1, <3>2, <3>3, <3>4, <3>5 DEF Waits
  <2>12. Len(stack) \in Nat \ {0} /\ IsList(stack) /\ Top = stack[Len(stack)]
    BY TopIs DEF DecoderInv, Nested, Top
  <2>13. Len(t) = Len(stack) /\ t[Len(t)] = f /\ IsList(t)
         /\ \E q : Planned(input, t, q, m) /\ q[Len(t)] = d
    <3>1. /\ f.msg = stack[Len(stack)].msg /\ f.field = stack[Len(stack)].field
          /\ d.w = p[Len(stack)].w /\ d.after = p[Len(stack)].after /\ Len(stack) # 0
      BY <1>4, <2>4, <2>8, <2>12
    <3>2. Len(t) = Len(stack) /\ t[Len(t)] = f /\ \E q : Planned(input, t, q, m) /\ q[Len(t)] = d
      BY <1>4, <2>9, <2>12, <3>1, PlannedTop DEF WithTop
    <3>3. IsList(t)
      BY <2>12, ListReplace DEF WithTop
    <3> QED BY <3>2, <3>3
  <2>14. PICK q : Planned(input, t, q, m) /\ q[Len(t)] = d
    BY <2>13
  <2> DEFINE u == Append(t, sub)
  <2> HIDE DEF t
  <2>15. u[Len(u)] = sub /\ \E r : Planned(input, u, r, m) /\ r[Len(u)] = s
    <3>1. Len(t) # 0 /\ Waits(t[Len(t)], q[Len(t)], sub, s)
      BY <2>11, <2>12, <2>13, <2>14
    <3> QED BY <2>10, <2>13, <2>14, <3>1, PlannedPush
  <2> HIDE DEF u
  <2>16. Innermost(input, inp', sub, s)
    <3>1. Rest(sub.msg, s.w, s.k) = b
      BY <1>8, <2>5, <2>8, RestIs DEF b
    <3>2. sub.value = ReadTo(sub.msg, s.w, s.k)
      BY <1>8, <2>5, <2>7, <2>8, ReadNoneAll
    <3>3. Coming(input, inp', Rest(sub.msg, s.w, s.k) \o s.after)
      BY <1>4, <2>1, <2>3, <2>8, <3>1 DEF Coming
    <3> QED BY <2>5, <3>1, <3>2, <3>3 DEF Innermost
  <2>17. InPlan(input, inp', u, got)
    BY <1>4, <2>15, <2>16 DEF InPlan
  <2>18. stack' = u
    BY <2>3 DEF u
  <2> QED BY <1>1, <2>3, <2>17, <2>18 DEF TalkInv
<1> QED BY <1>12, <1>13

\* After a refusal nothing is taken any more.
LEMMA UnwindTalks ==
    ASSUME TalkInv, Unwind
    PROVE  TalkInv'
BY DEF TalkInv, Unwind

\* A submessage goes to its place in the message around it.
LEMMA StoredIs ==
    ASSUME NEW f, IsFrame(f), NEW sub
    PROVE  LET g == Stored(f, sub)
           IN  /\ g.msg = f.msg /\ g.field = f.field /\ g.left = f.left /\ g.seen = f.seen
               /\ g.value = Put(f.msg, f.value, sub.field, sub.value)
<1>1. CASE Desc[f.msg][sub.field].rule = "repeated"
  BY <1>1 DEF IsFrame, Stored, Put
<1>2. CASE Desc[f.msg][sub.field].rule # "repeated"
  BY <1>2 DEF IsFrame, Stored, Put
<1> QED BY <1>1, <1>2

\* The first messages of a talk, and one more.
LEMMA OneMore ==
    ASSUME NEW i, IsList(i.sent), NEW m \in 1 .. Len(i.sent), NEW g, Some(i, g, m - 1), NEW v
    PROVE  /\ v = i.sent[m] => Some(i, Append(g, v), m)
           /\ Cut(Root, v, i.sent[m]) => SomeCut(i, Append(g, v))
<1>1. g = SubSeq(i.sent, 1, m - 1)
  BY DEF Some
<1>2. Len(i.sent) \in Nat /\ m \in 0 .. Len(i.sent)
  BY ListIs
<1>3. SubSeq(i.sent, 1, m) = Append(SubSeq(i.sent, 1, m - 1), i.sent[m])
  BY HeadOn
<1> QED BY <1>1, <1>2, <1>3 DEF Some, SomeCut

\* A submessage that was read to its end goes to the message around it, which is
\* read on.
LEMMA CloseTalks ==
    ASSUME DecoderInv, TalkInv, status = "reading", stack # <<>>,
           NEW m \in 1 .. Len(input.sent), NEW p,
           Some(input, got, m - 1), Planned(input, stack, p, m),
           NEW n, n = Len(stack), n > 1, Reads(Top, p[n]), p[n].k = Size(Top.msg, p[n].w),
           Innermost(input, inp, Top, p[n]),
           stack' = Append(SubSeq(stack, 1, n - 2), Stored(stack[n - 1], Top)),
           UNCHANGED <<input, inp, status, got>>
    PROVE  TalkInv'
<1> DEFINE e == p[n]
           d == p[n - 1]
           f == Stored(stack[n - 1], Top)
           o == stack[n - 1]
           c == Rest(o.msg, d.w, d.k)
<1>1. n \in Nat /\ Top = stack[n] /\ IsList(stack) /\ IsFrame(Top) /\ n - 1 \in 1 .. n /\ n \in 2 .. n
  BY TopIs DEF DecoderInv, Nested, Top
<1>2. IsFrame(o)
  BY <1>1 DEF DecoderInv, Nested
<1>3. Waits(o, d, Top, e) /\ Reads(o, d)
  BY <1>1 DEF Planned
<1>4. f.msg = o.msg /\ f.field = o.field /\ f.left = o.left /\ f.seen = o.seen
      /\ f.value = Put(o.msg, o.value, Top.field, Top.value)
  BY <1>2, StoredIs
<1> HIDE DEF f, o
<1>5. Reads(f, d)
  BY <1>3, <1>4 DEF Reads
<1>6. Top.msg \in DOMAIN Desc /\ e.w \in ValuesOf(Top.msg) /\ e.k = Size(Top.msg, e.w) /\ e.after \in Seq(Byte)
  BY <1>1 DEF IsFrame, Reads
<1>7. o.msg \in DOMAIN Desc /\ d.w \in ValuesOf(o.msg) /\ d.k \in 0 .. Size(o.msg, d.w) /\ d.after \in Seq(Byte)
  BY <1>2, <1>3 DEF IsFrame, Reads
<1>8. d.k # 0 /\ o.value = ReadTo(o.msg, d.w, d.k - 1) /\ o.left = Len(c)
      /\ Top.field = FieldAt(o.msg, d.w, d.k) /\ e.w = ValueAt(o.msg, d.w, d.k)
      /\ e.after = c \o d.after
  BY <1>3 DEF Waits
<1>9. Top.value = e.w
  <2>1. Top.value = ReadTo(Top.msg, e.w, e.k)
    BY DEF Innermost
  <2> QED BY <1>6, <2>1, ReadNoneAll
<1>10. f.value = ReadTo(o.msg, d.w, d.k)
  <2>1. d.k \in 1 .. Size(o.msg, d.w)
    BY <1>7, <1>8, FieldsAt
  <2>2. ReadTo(o.msg, d.w, d.k) = Put(o.msg, ReadTo(o.msg, d.w, d.k - 1), FieldAt(o.msg, d.w, d.k), ValueAt(o.msg, d.w, d.k))
    BY <1>7, <2>1, ReadOn
  <2> QED BY <1>4, <1>8, <1>9, <2>2
<1>11. Coming(input, inp, c \o d.after)
  <2>1. Coming(input, inp, Rest(Top.msg, e.w, e.k) \o e.after)
    BY DEF Innermost
  <2>2. Rest(Top.msg, e.w, e.k) = <<>>
    BY <1>6, RestIs
  <2>3. <<>> \o e.after = e.after
    BY <1>6
  <2> QED BY <1>8, <2>1, <2>2, <2>3
<1>12. Innermost(input, inp, f, d)
  BY <1>4, <1>8, <1>10, <1>11 DEF Innermost
<1> DEFINE t == Append(SubSeq(stack, 1, n - 2), f)
<1>13. Planned(input, t, p, m) /\ t[Len(t)] = f /\ p[Len(t)] = d
  <2>1. Pops(input, stack, p, m, f, t)
    BY <1>1, <1>4, <1>5 DEF Pops, o
  <2> HIDE DEF t
  <2>2. Planned(input, t, p, m) /\ t[Len(t)] = f /\ Len(t) = Len(stack) - 1
    BY <2>1, PlannedPop
  <2> QED BY <1>1, <2>2
<1>14. stack' = t
  BY DEF f, o
<1> HIDE DEF t
<1>15. InPlan(input, inp, t, got)
  BY <1>12, <1>13 DEF InPlan
<1> QED BY <1>14, <1>15 DEF TalkInv

\* So does a filter whose last comparators are missing; nothing follows it.
LEMMA CloseCutTalks ==
    ASSUME DecoderInv, TalkInv, status = "reading", stack # <<>>,
           NEW m \in 1 .. Len(input.sent), NEW p,
           Some(input, got, m - 1), Planned(input, stack, p, m),
           NEW n, n = Len(stack), n > 1, Reads(Top, p[n]), p[n].k # Size(Top.msg, p[n].w),
           Innermost(input, inp, Top, p[n]), Complete, Ended(input, inp),
           stack' = Append(SubSeq(stack, 1, n - 2), Stored(stack[n - 1], Top)),
           UNCHANGED <<input, inp, status, got>>
    PROVE  TalkInv'
<1> DEFINE e == p[n]
           d == p[n - 1]
           f == Stored(stack[n - 1], Top)
           o == stack[n - 1]
<1>1. n \in Nat /\ Top = stack[n] /\ IsList(stack) /\ IsFrame(Top) /\ n - 1 \in 1 .. n /\ n \in 2 .. n
  BY TopIs DEF DecoderInv, Nested, Top
<1>2. IsFrame(o)
  BY <1>1 DEF DecoderInv, Nested
<1>3. Waits(o, d, Top, e) /\ Reads(o, d)
  BY <1>1 DEF Planned
<1>4. f.value = Put(o.msg, o.value, Top.field, Top.value)
  BY <1>2, StoredIs
<1> HIDE DEF f
<1>6. /\ Top.msg \in DOMAIN Desc /\ e.w \in ValuesOf(Top.msg) /\ e.k \in 0 .. Size(Top.msg, e.w)
      /\ Top.seen = SeenTo(Top.msg, e.k) /\ Top.value = ReadTo(Top.msg, e.w, e.k)
  BY <1>1 DEF IsFrame, Reads, Innermost
<1>7. o.msg \in DOMAIN Desc /\ d.w \in ValuesOf(o.msg) /\ d.k \in 0 .. Size(o.msg, d.w)
  BY <1>2, <1>3 DEF IsFrame, Reads
<1>8. d.k # 0 /\ o.value = ReadTo(o.msg, d.w, d.k - 1)
      /\ Top.field = FieldAt(o.msg, d.w, d.k) /\ e.w = ValueAt(o.msg, d.w, d.k)
      /\ Top.msg = TypeAt(o.msg, d.w, d.k)
  BY <1>3 DEF Waits
<1>9. d.k \in 1 .. Size(o.msg, d.w)
  BY <1>7, <1>8, FieldsAt
<1>10. Required(Top.msg) \subseteq SeenTo(Top.msg, e.k)
  BY <1>6 DEF Complete
<1>11. Top.msg \notin Flat
  BY <1>6, <1>10, SeenIs
<1>12. Top.field \in DOMAIN Desc[o.msg] /\ Top.msg = Desc[o.msg][Top.field].type
  BY <1>7, <1>8, <1>9, FieldsAt DEF TypeAt
<1>13. ~ (Top.msg \in Scalars)
  BY <1>6, NoScalarIsMessage DEF IsMessage
<1>14. Top.msg = "Filter" /\ o.msg = "Query"
  <2>1. Top.msg \in {"Query", "Filter"}
    BY <1>6, <1>11, MessagesAre DEF Flat
  <2>2. /\ o.msg \in {"KeyValuePair", "Response"} => Top.msg \in Scalars
        /\ o.msg \in {"Comparator", "ValueSetting"} => Top.msg \in Scalars \cup {"KeyValuePair"}
        /\ o.msg = "Filter" => Top.msg = "Comparator"
        /\ o.msg = "Query" => Top.msg \in Scalars \cup {"Filter", "ValueSetting"}
    BY <1>7, <1>12, Inner
  <2> QED BY <1>7, <1>13, <2>1, <2>2, MessagesAre
<1>15. FieldAt(o.msg, d.w, d.k) = 2
  <2>1. Top.field = 1 \/ Top.field = 2 \/ Top.field = 3
    BY <1>12, <1>14, FieldsAre
  <2>2. Desc["Query"][1].type = "int32" /\ Desc["Query"][3].type = "ValueSetting"
    BY TypesAre, RuleAndType
  <2>3. Top.field = 2
    BY <1>12, <1>14, <2>1, <2>2
  <2> QED BY <1>8, <2>3
<1>16. n = 2
  <2> SUFFICES ASSUME n # 2 PROVE FALSE
    OBVIOUS
  <2> DEFINE u == stack[n - 2]
             c == p[n - 2]
  <2>1. n - 1 \in 2 .. n /\ n - 2 \in 1 .. n /\ (n - 1) - 1 = n - 2
    BY <1>1
  <2>2. IsFrame(u)
    BY <2>1 DEF DecoderInv, Nested
  <2>3. Waits(u, c, o, d) /\ Reads(u, c)
    <3>1. Waits(stack[(n - 1) - 1], p[(n - 1) - 1], stack[n - 1], p[n - 1])
      BY <2>1 DEF Planned
    <3> QED BY <2>1, <3>1 DEF Planned
  <2> HIDE DEF u, c
  <2>4. u.msg \in DOMAIN Desc /\ c.w \in ValuesOf(u.msg) /\ c.k \in 0 .. Size(u.msg, c.w) /\ c.k # 0
        /\ o.msg = TypeAt(u.msg, c.w, c.k)
    BY <2>2, <2>3 DEF IsFrame, Reads, Waits
  <2>5. c.k \in 1 .. Size(u.msg, c.w)
    BY <2>4, FieldsAt
  <2> DEFINE j == FieldAt(u.msg, c.w, c.k)
  <2>6. j \in DOMAIN Desc[u.msg] /\ Desc[u.msg][j].type = "Query"
    BY <1>14, <2>4, <2>5, FieldsAt DEF TypeAt
  <2>7. "Query" \notin Scalars
    BY DEF Scalars
  <2> HIDE DEF j
  <2>8. /\ u.msg \in {"KeyValuePair", "Response"} => "Query" \in Scalars
        /\ u.msg \in {"Comparator", "ValueSetting"} => "Query" \in Scalars \cup {"KeyValuePair"}
        /\ u.msg = "Filter" => "Query" = "Comparator"
        /\ u.msg = "Query" => "Query" \in Scalars \cup {"Filter", "ValueSetting"}
    BY <2>4, <2>6, Inner
  <2> QED BY <2>4, <2>7, <2>8, MessagesAre
<1>17. Root = "Query" /\ d.w = input.sent[m]
  <2>1. o = stack[1] /\ d = p[1]
    BY <1>16
  <2>2. stack[1].msg = Root
    BY DEF DecoderInv, Nested
  <2> QED BY <1>14, <2>1, <2>2 DEF Planned
<1>18. FilterCut(Top.value, e.w)
  <2>1. Cut(Top.msg, Top.value, e.w)
    BY <1>6, <1>10, CutRead
  <2> QED BY <1>14, <2>1 DEF Cut
<1>19. Cut(Root, f.value, input.sent[m])
  <2>1. Cut("Query", Put("Query", ReadTo("Query", d.w, d.k - 1), 2, Top.value), d.w)
    BY <1>7, <1>8, <1>9, <1>14, <1>15, <1>18, CutInside
  <2> QED BY <1>4, <1>8, <1>14, <1>15, <1>17, <2>1
<1> DEFINE a == SubSeq(stack, 1, n - 2)
           t == Append(a, f)
<1>20. Len(t) = 1 /\ t[1] = f
  <2>1. n - 2 \in 0 .. Len(stack) /\ n - 2 = 0
    BY <1>1, <1>16
  <2>2. IsList(a) /\ Len(a) = 0
    BY <1>1, <2>1, ListSub
  <2> HIDE DEF a
  <2>3. Len(t) = Len(a) + 1 /\ t[Len(a) + 1] = f
    BY <2>2, ListAppend
  <2> QED BY <2>2, <2>3
<1>21. stack' = t
  BY DEF f
<1> HIDE DEF t
<1>22. LastCut(input, inp, t, got)
  BY <1>19, <1>20 DEF LastCut
<1> QED BY <1>21, <1>22 DEF TalkInv

\* Where a message ends it is taken as it was sent, or cut, or refused.
LEMMA EndMessageTalks ==
    ASSUME IsTalk(input), DecoderInv, TalkInv, stack # <<>>, EndMessage
    PROVE  TalkInv'
<1> DEFINE n == Len(stack)
<1>1. /\ status = "reading" /\ Top.left = 0
      /\ ~ Complete => Refuse(TopStream)
      /\ Complete /\ Len(stack) = 1 => /\ got' = Append(got, Top.value)
                                       /\ stack' = <<>> /\ status' = "listening"
                                       /\ UNCHANGED <<input, inp>>
      /\ Complete /\ Len(stack) # 1 =>
            /\ stack' = Append(SubSeq(stack, 1, Len(stack) - 2), Stored(stack[Len(stack) - 1], Top))
            /\ UNCHANGED <<input, inp, status, got>>
  BY DEF EndMessage
<1>2. n \in Nat \ {0} /\ IsFrame(Top) /\ IsList(stack) /\ Top = stack[n] /\ stack[1].msg = Root
  BY TopIs DEF DecoderInv, Nested, Top
<1>4. IsList(input.sent)
  BY TalkIs
\* The next message was taken, as it was sent or cut.
<1>5. ASSUME NEW m \in 1 .. Len(input.sent), Some(input, got, m - 1), Ended(input, inp),
             Cut(Root, Top.value, input.sent[m]), Complete, Len(stack) = 1
      PROVE  TalkInv'
  <2>1. SomeCut(input, got')
    BY <1>1, <1>4, <1>5, OneMore
  <2> QED BY <1>1, <1>5, <2>1 DEF TalkInv, Listens
<1>6. ASSUME NEW m \in 1 .. Len(input.sent), Some(input, got, m - 1), Ended(input, inp),
             Len(stack) = 1, Cut(Root, stack[1].value, input.sent[m])
      PROVE  TalkInv'
  <2>1. CASE Complete
    BY <1>2, <1>5, <1>6, <2>1
  <2>2. CASE ~ Complete
    <3>1. GivenUp(input, got)
      BY <1>6, SomeGivenUp DEF Ended
    <3> QED BY <1>1, <2>2, <3>1, RefuseTalks
  <2> QED BY <2>1, <2>2
<1>7. ASSUME NEW m \in 1 .. Len(input.sent), NEW p, Some(input, got, m - 1),
             Planned(input, stack, p, m), Innermost(input, inp, stack[n], p[n])
      PROVE  TalkInv'
  <2> DEFINE e == p[n]
  <2>1. Reads(Top, e) /\ Innermost(input, inp, Top, e)
    BY <1>2, <1>7 DEF Planned
  <2> HIDE DEF e
  <2>2. /\ Top.msg \in DOMAIN Desc /\ e.w \in ValuesOf(Top.msg) /\ e.k \in 0 .. Size(Top.msg, e.w)
        /\ Top.seen = SeenTo(Top.msg, e.k) /\ Top.value = ReadTo(Top.msg, e.w, e.k)
    BY <1>2, <2>1 DEF IsFrame, Reads, Innermost
  <2>3. CASE e.k = Size(Top.msg, e.w)
    <3>1. Complete
      <4>1. Required(Top.msg) \subseteq SeenTo(Top.msg, Size(Top.msg, e.w))
        BY <2>2, SeenIs
      <4> QED BY <2>2, <2>3, <4>1 DEF Complete
    <3>2. CASE n = 1
      <4>1. e.w = input.sent[m] /\ e.after = More(input.sent, m)
        BY <1>7, <3>2 DEF Planned, e
      <4>2. Top.value = input.sent[m]
        BY <2>2, <2>3, <4>1, ReadNoneAll
      <4>3. Some(input, got', m)
        BY <1>1, <1>4, <1>7, <3>1, <3>2, <4>2, OneMore
      <4>4. Coming(input, inp, More(input.sent, m))
        <5>1. Coming(input, inp, Rest(Top.msg, e.w, e.k) \o e.after)
          BY <2>1 DEF Innermost
        <5>2. Rest(Top.msg, e.w, e.k) = <<>>
          BY <2>2, <2>3, RestIs
        <5>3. e.after \in Seq(Byte)
          BY <2>1 DEF Reads
        <5>4. <<>> \o e.after = e.after
          BY <5>3
        <5> QED BY <4>1, <5>1, <5>2, <5>4
      <4> QED BY <1>1, <3>1, <3>2, <4>3, <4>4 DEF TalkInv, Listens
    <3>3. CASE n # 1
      <4>1. n > 1
        <5> DEFINE x == n
        <5>1. x \in Nat \ {0} /\ x # 1
          BY <1>2, <3>3
        <5> HIDE DEF x
        <5>2. x > 1
          BY <5>1
        <5> QED BY <5>2 DEF x
      <4>2. stack' = Append(SubSeq(stack, 1, n - 2), Stored(stack[n - 1], Top))
            /\ UNCHANGED <<input, inp, status, got>>
        BY <1>1, <3>1, <3>3
      <4>3. Reads(Top, p[n]) /\ p[n].k = Size(Top.msg, p[n].w) /\ Innermost(input, inp, Top, p[n])
        BY <2>1, <2>3 DEF e
      <4> QED BY <1>1, <1>7, <4>1, <4>2, <4>3, CloseTalks
    <3> QED BY <3>2, <3>3
  <2>4. CASE e.k # Size(Top.msg, e.w)
    <3>1. Ended(input, inp)
      <4>1. Len(Rest(Top.msg, e.w, e.k)) # 0
        BY <2>2, <2>4, RestEnds
      <4> QED BY <1>1, <2>1, <4>1 DEF Innermost, Ended
    <3>2. CASE ~ Complete
      <4>1. GivenUp(input, got)
        BY <1>7, <3>1, SomeGivenUp DEF Ended
      <4> QED BY <1>1, <3>2, <4>1, RefuseTalks
    <3>3. CASE Complete /\ n = 1
      <4>1. Cut(Top.msg, Top.value, e.w)
        <5>1. Required(Top.msg) \subseteq SeenTo(Top.msg, e.k)
          BY <2>2, <3>3 DEF Complete
        <5> QED BY <2>2, <5>1, CutRead
      <4>2. Top.msg = Root /\ e.w = input.sent[m]
        BY <1>2, <1>7, <3>3 DEF Planned, e
      <4> QED BY <1>5, <1>7, <3>1, <3>3, <4>1, <4>2
    <3>4. CASE Complete /\ n # 1
      <4>1. n > 1
        <5> DEFINE x == n
        <5>1. x \in Nat \ {0} /\ x # 1
          BY <1>2, <3>4
        <5> HIDE DEF x
        <5>2. x > 1
          BY <5>1
        <5> QED BY <5>2 DEF x
      <4>2. stack' = Append(SubSeq(stack, 1, n - 2), Stored(stack[n - 1], Top))
            /\ UNCHANGED <<input, inp, status, got>>
        BY <1>1, <3>4
      <4>3. Reads(Top, p[n]) /\ p[n].k # Size(Top.msg, p[n].w) /\ Innermost(input, inp, Top, p[n])
        BY <2>1, <2>4 DEF e
      <4> QED BY <1>1, <1>7, <3>1, <3>4, <4>1, <4>2, <4>3, CloseCutTalks
    <3> QED BY <3>2, <3>3, <3>4
  <2> QED BY <2>3, <2>4
<1>8. InPlan(input, inp, stack, got) \/ LastCut(input, inp, stack, got)
  BY <1>1 DEF TalkInv
<1>9. CASE LastCut(input, inp, stack, got)
  BY <1>6, <1>9 DEF LastCut
<1>10. CASE InPlan(input, inp, stack, got)
  <2>1. PICK m \in 1 .. Len(input.sent) : \E p :
            Some(input, got, m - 1) /\ Planned(input, stack, p, m)
            /\ Innermost(input, inp, stack[n], p[n])
    BY <1>10 DEF InPlan
  <2>2. PICK p : Some(input, got, m - 1) /\ Planned(input, stack, p, m)
                 /\ Innermost(input, inp, stack[n], p[n])
    BY <2>1
  <2> QED BY <1>7, <2>2
<1> QED BY <1>8, <1>9, <1>10

\* Every step keeps the reader where the sender was.
LEMMA StepTalks == IsTalk(input) /\ DecoderInv /\ TalkInv /\ [Next]_vars => TalkInv'
<1> SUFFICES ASSUME IsTalk(input), DecoderInv, TalkInv, [Next]_vars PROVE TalkInv'
  OBVIOUS
<1>1. status \in {"reading", "unwinding"} => stack # <<>>
  BY DEF DecoderInv
<1>2. CASE Begin
  BY <1>2, BeginTalks
<1>3. CASE InputEnds
  BY <1>1, <1>3, InputEndsTalks DEF InputEnds, InMessage
<1>4. CASE BadTag \/ SkipUnknown \/ BadField
  BY <1>1, <1>4, TagFailsTalks DEF BadTag, SkipUnknown, BadField, InMessage
<1>5. CASE ReadField
  BY <1>1, <1>5, ReadFieldTalks DEF ReadField, InMessage
<1>6. CASE OpenSubmessage
  BY <1>1, <1>6, OpenTalks DEF OpenSubmessage, InMessage
<1>7. CASE EndMessage
  BY <1>1, <1>7, EndMessageTalks DEF EndMessage
<1>8. CASE Unwind
  BY <1>8, UnwindTalks
<1>9. CASE UNCHANGED vars
  <2>1. inp' = inp /\ stack' = stack /\ status' = status /\ got' = got /\ input' = input
    BY <1>9 DEF vars
  <2> QED BY <2>1 DEF TalkInv
<1> QED BY <1>2, <1>3, <1>4, <1>5, <1>6, <1>7, <1>8, <1>9 DEF Next

\* The input is what it was.
LEMMA SameTalk == [Next]_vars => input' = input
BY DEF Next, vars, Begin, InputEnds, BadTag, SkipUnknown, BadField, ReadField, OpenSubmessage,
       EndMessage, Unwind, GoOn, Refuse

\* So it is there at every moment.
LEMMA TalkAlways == Spec => [](DecoderInv /\ (IsTalk(input) => TalkInv))
<1>1. Init => (IsTalk(input) => TalkInv)
  BY TalkInit
<1>2. DecoderInv /\ (IsTalk(input) => TalkInv) /\ [Next]_vars => (IsTalk(input) => TalkInv)'
  <2> SUFFICES ASSUME DecoderInv, IsTalk(input) => TalkInv, [Next]_vars, IsTalk(input)'
               PROVE  TalkInv'
    OBVIOUS
  <2>1. IsTalk(input)
    BY SameTalk
  <2> QED BY <2>1, StepTalks
<1> QED BY <1>1, <1>2, DecoderAlways, PTL DEF Spec

\* Where the reader can be in a talk.
LEMMA TalkStands ==
    ASSUME IsTalk(input), DecoderInv, TalkInv
    PROVE  /\ GivenUp(input, got) \/ \E m : Some(input, got, m)
           /\ status = "refused" => got = input.sent \/ ~ input.whole
<1>2. IsList(input.sent) /\ Len(input.sent) \in Nat
  BY TalkIs
<1>3. got = input.sent => Some(input, got, Len(input.sent))
  BY <1>2, HeadAll DEF Some
<1>4. status \in {"listening", "reading", "unwinding", "refused"}
  BY DEF DecoderInv
<1>5. status = "listening" => GivenUp(input, got) \/ \E m : Some(input, got, m)
  BY DEF TalkInv, Listens, GivenUp, Ended
<1>6. status = "reading" => \E m : Some(input, got, m)
  BY DEF TalkInv, InPlan, LastCut
<1>7. status = "unwinding" => GivenUp(input, got)
  BY DEF TalkInv
<1>8. status = "refused" => got = input.sent \/ GivenUp(input, got)
  BY DEF TalkInv
<1>9. GivenUp(input, got) => ~ input.whole
  BY DEF GivenUp
<1> QED BY <1>3, <1>4, <1>5, <1>6, <1>7, <1>8, <1>9

\* Whatever messages that fit their structs are sent, and however many: each of
\* them is taken as it was sent, in their order, and all of them before the
\* connection ends (pb_encode_delimited, pb_decode_delimited).
THEOREM TalkIsReceived ==
    Spec => [](IsTalk(input) => GotWhatWasSent)
<1>1. IsTalk(input) /\ DecoderInv /\ TalkInv => GotWhatWasSent
  <2> SUFFICES ASSUME IsTalk(input), DecoderInv, TalkInv, input.whole
               PROVE  IsPrefix(got, input.sent) /\ (status = "refused" => got = input.sent)
    BY DEF GotWhatWasSent
  <2>1. /\ GivenUp(input, got) \/ \E m : Some(input, got, m)
        /\ status = "refused" => got = input.sent \/ ~ input.whole
    BY TalkStands
  <2>2. PICK m : Some(input, got, m)
    BY <2>1 DEF GivenUp
  <2>3. IsList(input.sent) /\ m \in 0 .. Len(input.sent) /\ got = SubSeq(input.sent, 1, m)
    BY <2>2, TalkIs DEF Some
  <2> QED BY <2>1, <2>3, PrefixHead
<1> QED BY <1>1, TalkAlways, PTL

\* The first messages, the last of them cut.
LEMMA CutIsSome ==
    ASSUME NEW i, IsTalk(i), NEW g, SomeCut(i, g) \/ \E m : Some(i, g, m)
    PROVE  /\ Len(g) <= Len(i.sent) /\ DOMAIN g = 1 .. Len(g) /\ Len(g) \in Nat
           /\ \A j \in 1 .. Len(g) : IF j < Len(g) THEN g[j] = i.sent[j] ELSE Cut(Root, g[j], i.sent[j])
<1> DEFINE s == i.sent
           l == Len(s)
<1>1. IsList(s) /\ l \in Nat /\ \A j \in 1 .. l : s[j] \in ValuesOf(Root)
  BY TalkIs
<1>2. \A j \in 1 .. l : Cut(Root, s[j], s[j])
  BY <1>1, RootIs, CutWhole
<1>3. ASSUME NEW m, Some(i, g, m)
      PROVE  /\ Len(g) <= l /\ DOMAIN g = 1 .. Len(g) /\ Len(g) \in Nat
             /\ \A j \in 1 .. Len(g) : IF j < Len(g) THEN g[j] = s[j] ELSE Cut(Root, g[j], s[j])
  <2>1. m \in 0 .. l /\ g = SubSeq(s, 1, m)
    BY <1>3 DEF Some
  <2> HIDE DEF s
  <2>2. IsList(SubSeq(s, 1, m)) /\ Len(SubSeq(s, 1, m)) = m /\ \A j \in 1 .. m : SubSeq(s, 1, m)[j] = s[j]
    BY <1>1, <2>1, ListSub
  <2>3. IsList(g) /\ Len(g) = m /\ \A j \in 1 .. m : g[j] = s[j]
    BY <2>1, <2>2
  <2>4. DOMAIN g = 1 .. m
    BY <2>3, ListIs
  <2> HIDE DEF l
  <2> QED BY <1>1, <1>2, <2>1, <2>3, <2>4
<1>4. ASSUME NEW m \in 1 .. l, NEW v, g = Append(SubSeq(s, 1, m - 1), v), Cut(Root, v, s[m])
      PROVE  /\ Len(g) <= l /\ DOMAIN g = 1 .. Len(g) /\ Len(g) \in Nat
             /\ \A j \in 1 .. Len(g) : IF j < Len(g) THEN g[j] = s[j] ELSE Cut(Root, g[j], s[j])
  <2> DEFINE a == SubSeq(s, 1, m - 1)
  <2>1. m - 1 \in 0 .. l /\ (m - 1) + 1 = m /\ m <= l /\ m \in Nat
    BY <1>1, <1>4
  <2> HIDE DEF s
  <2>2. IsList(a) /\ Len(a) = m - 1 /\ \A j \in 1 .. m - 1 : a[j] = s[j]
    BY <1>1, <2>1, ListSub
  <2>3. g = Append(a, v)
    BY <1>4
  <2> HIDE DEF a, l
  <2>4. /\ Len(Append(a, v)) = Len(a) + 1 /\ DOMAIN Append(a, v) = 1 .. Len(a) + 1
        /\ \A j \in 1 .. Len(a) : Append(a, v)[j] = a[j]
        /\ Append(a, v)[Len(a) + 1] = v
    BY <2>2, ListAppend
  <2>5. Len(g) = m /\ DOMAIN g = 1 .. m /\ (\A j \in 1 .. m - 1 : g[j] = s[j]) /\ g[m] = v
    BY <2>1, <2>2, <2>3, <2>4
  <2>6. \A j \in 1 .. m : IF j < m THEN g[j] = s[j] ELSE Cut(Root, g[j], s[j])
    <3> SUFFICES ASSUME NEW j \in 1 .. m PROVE IF j < m THEN g[j] = s[j] ELSE Cut(Root, g[j], s[j])
      OBVIOUS
    <3>1. (j \in 1 .. m - 1 /\ j < m) \/ (j = m /\ ~ (j < m))
      BY <2>1
    <3> QED BY <1>4, <2>5, <3>1
  <2> QED BY <2>1, <2>5, <2>6
<1> QED BY <1>3, <1>4 DEF SomeCut

\* Whatever queries are sent, and after whatever byte the sender dies: the server
\* has those sent before as they were, and of the last one at most filters,
\* comparators and settings are missing, from its end (pb_decode_inner).
THEOREM TalkIsCutAtTheEnd ==
    ASSUME Root = "Query"
    PROVE  Spec => [](IsTalk(input) => CutAtTheEnd)
<1>1. IsTalk(input) /\ DecoderInv /\ TalkInv => CutAtTheEnd
  <2> SUFFICES ASSUME IsTalk(input), DecoderInv, TalkInv PROVE CutAtTheEnd
    OBVIOUS
  <2>1. GivenUp(input, got) \/ \E m : Some(input, got, m)
    BY TalkStands
  <2>2. SomeCut(input, got) \/ \E m : Some(input, got, m)
    BY <2>1 DEF GivenUp
  <2>3. /\ Len(got) <= Len(input.sent) /\ DOMAIN got = 1 .. Len(got)
        /\ \A j \in 1 .. Len(got) : IF j < Len(got) THEN got[j] = input.sent[j]
                                    ELSE Cut(Root, got[j], input.sent[j])
    BY <2>2, CutIsSome
  <2>4. \A v, w : Cut(Root, v, w) <=> QueryCut(v, w)
    BY DEF Cut
  <2> QED BY <2>3, <2>4 DEF CutAtTheEnd
<1> QED BY <1>1, TalkAlways, PTL

=============================================================================
