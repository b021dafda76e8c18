--------------------------- MODULE Payload_proofs ---------------------------
(***************************************************************************)
(* Payload for every size, every document and any number of entries: the   *)
(* arithmetic of padding, that what was saved reads back up to the limit   *)
(* of the payload, and what a command may do to the entries.               *)
(*                                                                         *)
(* The module starts with induction on the natural numbers for a set in    *)
(* place of a predicate, from which follows that a function may be defined *)
(* by recursion.                                                           *)
(***************************************************************************)
EXTENDS Payload, TLAPS, WellFoundedInduction, FiniteSetTheorems, SequenceTheorems

(***************************************************************************)
(* Induction and recursion.                                                *)
(***************************************************************************)
\* A set with 0 and the successor of each of its numbers has all of them: there
\* is no least one outside.
LEMMA SetInduction ==
    ASSUME NEW S, 0 \in S, \A n \in Nat : n \in S => n + 1 \in S
    PROVE  Nat \subseteq S
<1> SUFFICES ASSUME Nat \ S # {}
             PROVE  FALSE
  OBVIOUS
<1>1. IsWellFoundedOn(OpToRel(<, Nat), Nat)
  BY NatLessThanWellFounded
<1>2. PICK n \in Nat \ S : \A m \in Nat \ S : <<m, n>> \notin OpToRel(<, Nat)
  BY <1>1, WFMin
<1>3. n - 1 \in Nat \ S
  OBVIOUS
<1>4. <<n - 1, n>> \in OpToRel(<, Nat)
  BY <1>3 DEF OpToRel
<1> QED
  BY <1>2, <1>3, <1>4

\* f starts at base and takes the first n steps.
Follows(f, base, step, n) == f[0] = base /\ \A i \in 0 .. n - 1 : f[i + 1] = step[i][f[i]]

Recurs(f, base, step) == f[0] = base /\ \A n \in Nat : f[n + 1] = step[n][f[n]]

LEMMA PrefixExists ==
    ASSUME NEW T, NEW base \in T, NEW step \in [Nat -> [T -> T]], NEW n \in Nat
    PROVE  \E f \in [0 .. n -> T] : Follows(f, base, step, n)
<1> DEFINE S == {m \in Nat : \E f \in [0 .. m -> T] : Follows(f, base, step, m)}
<1>1. 0 \in S
  <2>1. [i \in 0 .. 0 |-> base] \in [0 .. 0 -> T] /\ Follows([i \in 0 .. 0 |-> base], base, step, 0)
    BY DEF Follows
  <2> QED
    BY <2>1
<1>2. ASSUME NEW m \in Nat, m \in S
      PROVE  m + 1 \in S
  <2>1. PICK g \in [0 .. m -> T] : Follows(g, base, step, m)
    BY <1>2
  <2> DEFINE h == [i \in 0 .. m + 1 |-> IF i = m + 1 THEN step[m][g[m]] ELSE g[i]]
  <2>2. step[m][g[m]] \in T
    BY <2>1
  <2>3. h \in [0 .. m + 1 -> T]
    BY <2>1, <2>2
  <2>4. ASSUME NEW i \in 0 .. m
        PROVE  h[i + 1] = step[i][h[i]]
    <3>1. CASE i = m
      BY <3>1
    <3>2. CASE i # m
      BY <2>1, <3>2 DEF Follows
    <3> QED
      BY <3>1, <3>2
  <2>5. h[0] = base
    BY <2>1 DEF Follows
  <2>6. Follows(h, base, step, m + 1)
    <3> HIDE DEF h
    <3>1. 0 .. (m + 1) - 1 = 0 .. m
      OBVIOUS
    <3> QED
      BY <2>4, <2>5, <3>1 DEF Follows
  <2> QED
    BY <2>3, <2>6
<1> HIDE DEF S
<1>3. Nat \subseteq S
  BY <1>1, <1>2, SetInduction
<1> QED
  BY <1>3 DEF S

LEMMA PrefixesAgree ==
    ASSUME NEW base, NEW step, NEW n \in Nat, NEW m \in Nat, n <= m,
           NEW g, Follows(g, base, step, n), NEW h, Follows(h, base, step, m)
    PROVE  \A i \in 0 .. n : g[i] = h[i]
<1> DEFINE E == {i \in Nat : i <= n => g[i] = h[i]}
<1>1. 0 \in E
  BY DEF Follows
<1>2. ASSUME NEW i \in Nat, i \in E
      PROVE  i + 1 \in E
  <2> SUFFICES ASSUME i + 1 <= n
               PROVE  g[i + 1] = h[i + 1]
    OBVIOUS
  <2>1. i \in 0 .. n - 1 /\ i \in 0 .. m - 1 /\ g[i] = h[i]
    BY <1>2
  <2> QED
    BY <2>1 DEF Follows
<1> HIDE DEF E
<1>3. Nat \subseteq E
  BY <1>1, <1>2, SetInduction
<1> QED
  BY <1>3 DEF E

\* Each step may use its number and the value before it.
LEMMA RecursionExists ==
    ASSUME NEW T, NEW base \in T, NEW step \in [Nat -> [T -> T]]
    PROVE  \E f \in [Nat -> T] : Recurs(f, base, step)
<1> DEFINE F == [n \in Nat |-> CHOOSE f \in [0 .. n -> T] : Follows(f, base, step, n)]
           f == [n \in Nat |-> F[n][n]]
<1>1. \A n \in Nat : F[n] \in [0 .. n -> T] /\ Follows(F[n], base, step, n)
  BY PrefixExists
<1> HIDE DEF F
<1>2. f \in [Nat -> T]
  BY <1>1
<1>3. f[0] = base
  BY <1>1 DEF Follows
<1>4. ASSUME NEW n \in Nat
      PROVE  f[n + 1] = step[n][f[n]]
  <2>1. F[n + 1][n] = F[n][n]
    BY <1>1, PrefixesAgree
  <2>2. F[n + 1][n + 1] = step[n][F[n + 1][n]]
    BY <1>1 DEF Follows
  <2> QED
    BY <2>1, <2>2
<1> QED
  BY <1>2, <1>3, <1>4 DEF Recurs

(***************************************************************************)
(* Powers of two and bit lengths.                                          *)
(***************************************************************************)
LEMMA TwoToValues ==
    /\ TwoTo \in [Nat -> Nat]
    /\ TwoTo[0] = 1
    /\ \A k \in Nat : TwoTo[k + 1] = 2 * TwoTo[k]
<1> DEFINE step == [n \in Nat |-> [x \in Nat |-> 2 * x]]
<1>1. PICK f \in [Nat -> Nat] : f[0] = 1 /\ \A n \in Nat : f[n + 1] = step[n][f[n]]
  <2>1. step \in [Nat -> [Nat -> Nat]] /\ 1 \in Nat
    OBVIOUS
  <2> HIDE DEF step
  <2>2. \E f \in [Nat -> Nat] : Recurs(f, 1, step)
    BY <2>1, RecursionExists
  <2> QED
    BY <2>2 DEF Recurs
<1>2. f = [k \in Nat |-> IF k = 0 THEN 1 ELSE 2 * f[k - 1]]
  <2> SUFFICES ASSUME NEW k \in Nat
               PROVE  f[k] = IF k = 0 THEN 1 ELSE 2 * f[k - 1]
    BY <1>1
  <2>1. CASE k = 0
    BY <1>1, <2>1
  <2>2. CASE k # 0
    <3>1. k - 1 \in Nat /\ (k - 1) + 1 = k /\ f[k - 1] \in Nat
      BY <2>2
    <3>2. f[(k - 1) + 1] = step[k - 1][f[k - 1]]
      BY <1>1, <3>1
    <3> QED
      BY <2>2, <3>1, <3>2
  <2> QED
    BY <2>1, <2>2
<1>3. TwoTo = [k \in Nat |-> IF k = 0 THEN 1 ELSE 2 * TwoTo[k - 1]]
  <2> HIDE DEF step
  <2> QED
    BY <1>2, Zenon DEF TwoTo
<1>4. TwoTo[0] = 1
  BY <1>3
<1>5. ASSUME NEW k \in Nat
      PROVE  TwoTo[k + 1] = 2 * TwoTo[k]
  <2>1. k + 1 \in Nat /\ k + 1 # 0 /\ (k + 1) - 1 = k
    OBVIOUS
  <2>2. TwoTo[k + 1] = IF k + 1 = 0 THEN 1 ELSE 2 * TwoTo[(k + 1) - 1]
    BY <1>3, <2>1
  <2> QED
    BY <2>1, <2>2
<1>6. TwoTo \in [Nat -> Nat]
  <2> DEFINE S == {k \in Nat : TwoTo[k] \in Nat}
  <2>1. 0 \in S /\ \A k \in Nat : k \in S => k + 1 \in S
    BY <1>4, <1>5
  <2> HIDE DEF S
  <2>2. Nat \subseteq S
    BY <2>1, SetInduction
  <2> QED
    BY <1>3, <2>2 DEF S
<1> QED
  BY <1>4, <1>5, <1>6

LEMMA TwoToPositive == \A k \in Nat : TwoTo[k] \in Nat /\ TwoTo[k] >= 1
<1> DEFINE S == {k \in Nat : TwoTo[k] >= 1}
<1>1. 0 \in S /\ \A k \in Nat : k \in S => k + 1 \in S
  BY TwoToValues
<1> HIDE DEF S
<1>2. Nat \subseteq S
  BY <1>1, SetInduction
<1> QED
  BY <1>2, TwoToValues DEF S

LEMMA TwoToSum ==
    ASSUME NEW i \in Nat, NEW j \in Nat
    PROVE  TwoTo[i + j] = TwoTo[i] * TwoTo[j]
<1> DEFINE S == {k \in Nat : TwoTo[i + k] = TwoTo[i] * TwoTo[k]}
<1>1. 0 \in S
  <2>1. i + 0 = i
    OBVIOUS
  <2> QED
    BY <2>1, TwoToValues, TwoToPositive
<1>2. ASSUME NEW k \in Nat, k \in S
      PROVE  k + 1 \in S
  <2>1. TwoTo[i + (k + 1)] = 2 * TwoTo[i + k]
    <3>1. i + (k + 1) = (i + k) + 1 /\ i + k \in Nat
      OBVIOUS
    <3> QED
      BY <3>1, TwoToValues
  <2>2. TwoTo[k + 1] = 2 * TwoTo[k]
    BY TwoToValues
  <2>3. 2 * (TwoTo[i] * TwoTo[k]) = TwoTo[i] * (2 * TwoTo[k])
    <3>1. TwoTo[i] \in Nat /\ TwoTo[k] \in Nat
      BY TwoToPositive
    <3> QED
      BY <3>1
  <2> QED
    BY <1>2, <2>1, <2>2, <2>3
<1> HIDE DEF S
<1>3. Nat \subseteq S
  BY <1>1, <1>2, SetInduction
<1> QED
  BY <1>3 DEF S

LEMMA TwoToMonotone ==
    ASSUME NEW i \in Nat, NEW j \in Nat, i <= j
    PROVE  TwoTo[i] <= TwoTo[j]
<1>1. j - i \in Nat /\ i + (j - i) = j
  OBVIOUS
<1>2. TwoTo[j] = TwoTo[i] * TwoTo[j - i]
  BY <1>1, TwoToSum
<1>3. TwoTo[i] \in Nat /\ TwoTo[j - i] \in Nat /\ TwoTo[j - i] >= 1
  BY <1>1, TwoToPositive
<1> QED
  BY <1>2, <1>3

\* k bits are needed to write n.
Needs(n, k) == k \in Nat /\ n < TwoTo[k] /\ (k # 0 => TwoTo[k - 1] <= n)

LEMMA NeedsExists ==
    ASSUME NEW n \in Nat
    PROVE  \E k \in Nat : Needs(n, k)
<1> DEFINE S == {m \in Nat : \E k \in Nat : Needs(m, k)}
<1>1. 0 \in S
  <2>1. Needs(0, 0)
    BY TwoToValues DEF Needs
  <2> QED
    BY <2>1
<1>2. ASSUME NEW m \in Nat, m \in S
      PROVE  m + 1 \in S
  <2>1. PICK k \in Nat : Needs(m, k)
    BY <1>2
  <2>2. TwoTo[k] \in Nat /\ TwoTo[k] >= 1 /\ TwoTo[k + 1] = 2 * TwoTo[k] /\ (k # 0 => TwoTo[k - 1] \in Nat)
    BY TwoToPositive, TwoToValues
  <2>3. CASE m + 1 < TwoTo[k]
    <3>1. Needs(m + 1, k)
      BY <2>1, <2>2, <2>3 DEF Needs
    <3> QED
      BY <3>1
  <2>4. CASE ~(m + 1 < TwoTo[k])
    <3>1. k + 1 \in Nat /\ (k + 1) - 1 = k
      OBVIOUS
    <3>2. Needs(m + 1, k + 1)
      BY <2>1, <2>2, <2>4, <3>1 DEF Needs
    <3> QED
      BY <3>1, <3>2
  <2> QED
    BY <2>3, <2>4
<1> HIDE DEF S
<1>3. Nat \subseteq S
  BY <1>1, <1>2, SetInduction
<1> QED
  BY <1>3 DEF S

LEMMA NeedsUnique ==
    ASSUME NEW n \in Nat, NEW j, Needs(n, j), NEW k, Needs(n, k)
    PROVE  j = k
<1> SUFFICES ASSUME NEW a \in Nat, NEW b \in Nat, Needs(n, a), Needs(n, b), a < b
             PROVE  FALSE
  BY DEF Needs
<1>1. b - 1 \in Nat /\ a <= b - 1
  OBVIOUS
<1>2. TwoTo[a] <= TwoTo[b - 1] /\ TwoTo[a] \in Nat /\ TwoTo[b - 1] \in Nat
  BY <1>1, TwoToMonotone, TwoToPositive
<1> QED
  BY <1>2 DEF Needs

\* Half of n takes one bit less.
LEMMA NeedsHalf ==
    ASSUME NEW n \in Nat, n # 0, NEW k \in Nat, Needs(n, k)
    PROVE  k # 0 /\ n \div 2 \in Nat /\ Needs(n \div 2, k - 1)
<1>1. k # 0
  BY TwoToValues DEF Needs
<1>2. k - 1 \in Nat /\ (k - 1) + 1 = k
  BY <1>1
<1>3. TwoTo[k] = 2 * TwoTo[k - 1] /\ TwoTo[k - 1] \in Nat
  BY <1>2, TwoToValues, TwoToPositive
<1>4. n \div 2 \in Nat /\ n \div 2 < TwoTo[k - 1]
  BY <1>3 DEF Needs
<1>5. ASSUME k - 1 # 0
      PROVE  TwoTo[(k - 1) - 1] <= n \div 2
  <2>1. (k - 1) - 1 \in Nat /\ ((k - 1) - 1) + 1 = k - 1
    BY <1>2, <1>5
  <2>2. TwoTo[k - 1] = 2 * TwoTo[(k - 1) - 1] /\ TwoTo[(k - 1) - 1] \in Nat
    BY <2>1, TwoToValues, TwoToPositive
  <2>3. TwoTo[k - 1] <= n
    BY <1>1 DEF Needs
  <2> QED
    BY <2>2, <2>3
<1> QED
  BY <1>1, <1>2, <1>4, <1>5 DEF Needs

LEMMA BitLengthEquation ==
    \A n \in Nat : bitLength[n] = IF n = 0 THEN 0 ELSE 1 + bitLength[n \div 2]
<1> DEFINE f == [n \in Nat |-> CHOOSE k \in Nat : Needs(n, k)]
<1>1. \A n \in Nat : f[n] \in Nat /\ Needs(n, f[n])
  BY NeedsExists
<1> HIDE DEF f
<1>2. ASSUME NEW n \in Nat
      PROVE  f[n] = IF n = 0 THEN 0 ELSE 1 + f[n \div 2]
  <2>1. CASE n = 0
    <3>1. Needs(0, 0)
      BY TwoToValues DEF Needs
    <3>2. Needs(0, f[0])
      BY <1>1
    <3>3. f[0] = 0
      BY <3>1, <3>2, NeedsUnique
    <3> QED
      BY <2>1, <3>3
  <2>2. CASE n # 0
    <3>1. f[n] # 0 /\ n \div 2 \in Nat /\ Needs(n \div 2, f[n] - 1)
      BY <1>1, <2>2, NeedsHalf
    <3>2. f[n \div 2] = f[n] - 1
      BY <1>1, <3>1, NeedsUnique
    <3>3. f[n] \in Nat
      BY <1>1
    <3> QED
      BY <2>2, <3>2, <3>3
  <2> QED
    BY <2>1, <2>2
<1>3. f = [n \in Nat |-> IF n = 0 THEN 0 ELSE 1 + f[n \div 2]]
  <2>1. f = [n \in Nat |-> f[n]]
    BY DEF f
  <2> QED
    BY <1>2, <2>1
<1>4. bitLength = [n \in Nat |-> IF n = 0 THEN 0 ELSE 1 + bitLength[n \div 2]]
  BY <1>3, Zenon DEF bitLength
<1> QED
  BY <1>4

\* The bit length is as many bits as the number needs.
LEMMA BitLengthNeeds ==
    ASSUME NEW n \in Nat
    PROVE  Needs(n, bitLength[n])
<1> DEFINE S == {m \in Nat : \A l \in 0 .. m : Needs(l, bitLength[l])}
<1>1. Needs(0, bitLength[0])
  BY BitLengthEquation, TwoToValues DEF Needs
<1>2. 0 \in S
  BY <1>1
<1>3. ASSUME NEW m \in Nat, m \in S
      PROVE  m + 1 \in S
  <2> DEFINE h == (m + 1) \div 2
  <2>1. PICK k \in Nat : Needs(m + 1, k)
    BY NeedsExists
  <2>2. k # 0 /\ h \in Nat /\ Needs(h, k - 1)
    BY <2>1, NeedsHalf
  <2>3. h \in 0 .. m
    OBVIOUS
  <2>4. Needs(h, bitLength[h])
    BY <1>3, <2>3
  <2>5. bitLength[h] = k - 1
    BY <2>2, <2>4, NeedsUnique
  <2>6. bitLength[m + 1] = 1 + bitLength[h]
    BY BitLengthEquation
  <2>7. bitLength[m + 1] = k
    BY <2>5, <2>6
  <2>8. Needs(m + 1, bitLength[m + 1])
    BY <2>1, <2>7
  <2>9. ASSUME NEW l \in 0 .. m + 1
        PROVE  Needs(l, bitLength[l])
    <3>1. CASE l = m + 1
      BY <2>8, <3>1
    <3>2. CASE l \in 0 .. m
      BY <1>3, <3>2
    <3> QED
      BY <3>1, <3>2
  <2> QED
    BY <2>9
<1> HIDE DEF S
<1>4. Nat \subseteq S
  BY <1>2, <1>3, SetInduction
<1> QED
  BY <1>4 DEF S

(***************************************************************************)
(* Padding.                                                                *)
(***************************************************************************)
\* The least multiple of b that is not below n.
RoundUp(n, b) == ((n + b - 1) \div b) * b

LEMMA RoundUpBounds ==
    ASSUME NEW n \in Nat, NEW b \in Nat, b >= 1
    PROVE  RoundUp(n, b) \in Nat /\ n <= RoundUp(n, b) /\ RoundUp(n, b) <= n + b - 1
<1> DEFINE x == n + b - 1
           q == x \div b
           r == x % b
<1>1. x \in Nat /\ q \in Nat /\ r \in Nat /\ r <= b - 1
  OBVIOUS
<1>2. x = b * q + r
  OBVIOUS
<1>3. RoundUp(n, b) = q * b
  BY DEF RoundUp
<1>4. q * b = b * q /\ b * q \in Nat
  BY <1>1
<1> HIDE DEF q, r
<1> QED
  BY <1>1, <1>2, <1>3, <1>4

LEMMA RoundUpLeast ==
    ASSUME NEW n \in Nat, NEW b \in Nat, b >= 1, NEW q \in Nat, n <= q * b
    PROVE  RoundUp(n, b) <= q * b
<1> DEFINE p == (n + b - 1) \div b
<1>1. p \in Nat /\ b * p <= n + b - 1
  OBVIOUS
<1>2. RoundUp(n, b) = p * b
  BY DEF RoundUp
<1> HIDE DEF p
<1>3. CASE p <= q
  BY <1>1, <1>2, <1>3
<1>4. CASE p >= q + 1
  <2>1. b * p >= b * (q + 1)
    BY <1>1, <1>4
  <2>2. b * (q + 1) = q * b + b /\ q * b \in Nat /\ b * p \in Nat
    BY <1>1
  <2> QED
    BY <1>1, <2>1, <2>2
<1> QED
  BY <1>1, <1>3, <1>4

LEMMA RoundUpMultiple ==
    ASSUME NEW b \in Nat, b >= 1, NEW q \in Nat
    PROVE  RoundUp(q * b, b) = q * b
<1>1. q * b \in Nat
  OBVIOUS
<1>2. RoundUp(q * b, b) <= q * b /\ q * b <= RoundUp(q * b, b) /\ RoundUp(q * b, b) \in Nat
  BY <1>1, RoundUpBounds, RoundUpLeast
<1> QED
  BY <1>1, <1>2

\* The exponent of a length, the bits it takes to write it, and the bucket.
Exponent(n) == bitLength[n] - 1
Bits(n) == bitLength[Exponent(n)]
Bucket(n) == TwoTo[Exponent(n) - Bits(n)]

LEMMA BitsFit ==
    ASSUME NEW e \in Nat
    PROVE  bitLength[e] \in Nat /\ bitLength[e] <= e
<1> DEFINE S == {k \in Nat : k < TwoTo[k]}
<1>1. 0 \in S /\ \A k \in Nat : k \in S => k + 1 \in S
  BY TwoToValues, TwoToPositive
<1> HIDE DEF S
<1>2. Nat \subseteq S
  BY <1>1, SetInduction
<1>3. Needs(e, bitLength[e])
  BY BitLengthNeeds
<1> SUFFICES ASSUME bitLength[e] > e
             PROVE  FALSE
  BY <1>3 DEF Needs
<1>4. bitLength[e] - 1 \in Nat /\ e <= bitLength[e] - 1
  BY <1>3 DEF Needs
<1>5. TwoTo[e] <= TwoTo[bitLength[e] - 1] /\ TwoTo[e] \in Nat /\ TwoTo[bitLength[e] - 1] \in Nat
  BY <1>4, TwoToMonotone, TwoToPositive
<1>6. TwoTo[bitLength[e] - 1] <= e
  BY <1>3, <1>4 DEF Needs
<1>7. e < TwoTo[e]
  BY <1>2 DEF S
<1> QED
  BY <1>5, <1>6, <1>7

LEMMA Buckets ==
    ASSUME NEW n \in Nat, n >= 1
    PROVE  /\ Exponent(n) \in Nat /\ Bits(n) \in Nat /\ Bits(n) <= Exponent(n)
           /\ TwoTo[Exponent(n)] \in Nat /\ TwoTo[Exponent(n)] <= n /\ n < 2 * TwoTo[Exponent(n)]
           /\ Bucket(n) \in Nat /\ Bucket(n) >= 1
           /\ TwoTo[Bits(n)] \in Nat /\ TwoTo[Bits(n)] >= 1
           /\ TwoTo[Exponent(n)] = TwoTo[Bits(n)] * Bucket(n)
<1>1. Needs(n, bitLength[n])
  BY BitLengthNeeds
<1>2. bitLength[n] # 0
  BY <1>1, TwoToValues DEF Needs
<1>3. Exponent(n) \in Nat /\ Exponent(n) + 1 = bitLength[n]
  BY <1>1, <1>2 DEF Exponent, Needs
<1>4. TwoTo[Exponent(n)] \in Nat /\ TwoTo[bitLength[n]] = 2 * TwoTo[Exponent(n)]
  BY <1>3, TwoToValues
<1>5. TwoTo[Exponent(n)] <= n /\ n < 2 * TwoTo[Exponent(n)]
  BY <1>1, <1>2, <1>4 DEF Needs, Exponent
<1>6. Bits(n) \in Nat /\ Bits(n) <= Exponent(n)
  BY <1>3, BitsFit DEF Bits
<1>7. Exponent(n) - Bits(n) \in Nat /\ Bits(n) + (Exponent(n) - Bits(n)) = Exponent(n)
  BY <1>3, <1>6
<1>8. TwoTo[Exponent(n)] = TwoTo[Bits(n)] * Bucket(n)
  BY <1>6, <1>7, TwoToSum DEF Bucket
<1>9. Bucket(n) \in Nat /\ Bucket(n) >= 1 /\ TwoTo[Bits(n)] \in Nat /\ TwoTo[Bits(n)] >= 1
  BY <1>6, <1>7, TwoToPositive DEF Bucket
<1> QED
  BY <1>3, <1>4, <1>5, <1>6, <1>8, <1>9

LEMMA PadmeIsRoundUp ==
    ASSUME NEW n \in Nat
    PROVE  Padme(n) = IF n <= MinPadded THEN MinPadded ELSE RoundUp(n, Bucket(n))
  BY DEF Padme, RoundUp, Bucket, Exponent, Bits

LEMMA AboveFloor ==
    ASSUME NEW n \in Nat, n > MinPadded
    PROVE  /\ n >= 1
           /\ Padme(n) = RoundUp(n, Bucket(n)) /\ Padme(n) \in Nat
           /\ n <= Padme(n) /\ Padme(n) <= n + Bucket(n) - 1
           /\ Padme(n) <= 2 * TwoTo[Exponent(n)]
<1>1. n >= 1
  BY SizesAssumption
<1>2. Padme(n) = RoundUp(n, Bucket(n))
  BY PadmeIsRoundUp, SizesAssumption
<1>3. Bucket(n) \in Nat /\ Bucket(n) >= 1
  BY <1>1, Buckets
<1>4. RoundUp(n, Bucket(n)) \in Nat /\ n <= RoundUp(n, Bucket(n)) /\ RoundUp(n, Bucket(n)) <= n + Bucket(n) - 1
  BY <1>3, RoundUpBounds
<1> DEFINE q == 2 * TwoTo[Bits(n)]
<1>5. q \in Nat /\ q * Bucket(n) = 2 * TwoTo[Exponent(n)]
  <2>1. TwoTo[Bits(n)] \in Nat /\ TwoTo[Exponent(n)] = TwoTo[Bits(n)] * Bucket(n)
    BY <1>1, Buckets
  <2> QED
    BY <1>3, <2>1
<1>6. n <= q * Bucket(n)
  <2>1. n < 2 * TwoTo[Exponent(n)] /\ TwoTo[Exponent(n)] \in Nat
    BY <1>1, Buckets
  <2> QED
    BY <1>5, <2>1
<1> HIDE DEF q
<1>7. RoundUp(n, Bucket(n)) <= q * Bucket(n)
  BY <1>3, <1>5, <1>6, RoundUpLeast
<1> QED
  BY <1>1, <1>2, <1>4, <1>5, <1>7

LEMMA PadmeReaches ==
    ASSUME NEW n \in Nat
    PROVE  Padme(n) \in Nat /\ Padme(n) >= n /\ Padme(n) >= MinPadded
<1>1. CASE n <= MinPadded
  BY <1>1, PadmeIsRoundUp, SizesAssumption
<1>2. CASE n > MinPadded
  BY <1>2, AboveFloor, SizesAssumption
<1> QED
  BY <1>1, <1>2, SizesAssumption

LEMMA ExponentMonotone ==
    ASSUME NEW m \in Nat, m >= 1, NEW n \in Nat, m <= n
    PROVE  Exponent(m) = Exponent(n) \/ 2 * TwoTo[Exponent(m)] <= TwoTo[Exponent(n)]
<1>1. /\ Exponent(m) \in Nat /\ TwoTo[Exponent(m)] \in Nat /\ TwoTo[Exponent(m)] <= m
      /\ Exponent(n) \in Nat /\ TwoTo[Exponent(n)] \in Nat /\ n < 2 * TwoTo[Exponent(n)]
  BY Buckets
<1>2. CASE Exponent(m) < Exponent(n)
  <2>1. TwoTo[Exponent(m) + 1] <= TwoTo[Exponent(n)]
    BY <1>1, <1>2, TwoToMonotone
  <2> QED
    BY <1>1, <2>1, TwoToValues
<1>3. CASE Exponent(n) < Exponent(m)
  <2>1. TwoTo[Exponent(n) + 1] <= TwoTo[Exponent(m)]
    BY <1>1, <1>3, TwoToMonotone
  <2>2. TwoTo[Exponent(n) + 1] = 2 * TwoTo[Exponent(n)]
    BY <1>1, TwoToValues
  <2> QED
    BY <1>1, <2>1, <2>2
<1> QED
  BY <1>1, <1>2, <1>3

\* More contents never make a smaller file.
LEMMA PadmeMonotone ==
    ASSUME NEW m \in Nat, NEW n \in Nat, m <= n
    PROVE  Padme(m) <= Padme(n)
<1>1. CASE m <= MinPadded
  <2>1. Padme(m) = MinPadded
    BY <1>1, PadmeIsRoundUp
  <2> QED
    BY <2>1, PadmeReaches
<1>2. CASE m > MinPadded
  <2>1. n > MinPadded /\ m >= 1 /\ n >= 1
    BY <1>2, SizesAssumption
  <2>2. /\ Padme(m) = RoundUp(m, Bucket(m)) /\ Padme(m) \in Nat
        /\ Padme(m) <= 2 * TwoTo[Exponent(m)]
        /\ Padme(n) = RoundUp(n, Bucket(n)) /\ Padme(n) \in Nat /\ n <= Padme(n)
    BY <1>2, <2>1, AboveFloor
  <2>3. CASE Exponent(m) = Exponent(n)
    <3>1. Bucket(m) = Bucket(n) /\ Bucket(n) \in Nat /\ Bucket(n) >= 1
      BY <2>1, <2>3, Buckets DEF Bucket, Bits
    <3> DEFINE q == (n + Bucket(n) - 1) \div Bucket(n)
    <3>2. q \in Nat /\ Padme(n) = q * Bucket(n)
      BY <2>2, <3>1 DEF RoundUp
    <3>3. m <= q * Bucket(n)
      BY <2>2, <3>2
    <3> HIDE DEF q
    <3>4. RoundUp(m, Bucket(n)) <= q * Bucket(n)
      BY <3>1, <3>2, <3>3, RoundUpLeast
    <3> QED
      BY <2>2, <3>1, <3>2, <3>4
  <2>4. CASE 2 * TwoTo[Exponent(m)] <= TwoTo[Exponent(n)]
    <3>1. TwoTo[Exponent(n)] <= n /\ TwoTo[Exponent(n)] \in Nat /\ TwoTo[Exponent(m)] \in Nat
      BY <2>1, Buckets
    <3> QED
      BY <2>2, <2>4, <3>1
  <2> QED
    BY <2>1, <2>3, <2>4, ExponentMonotone
<1> QED
  BY <1>1, <1>2, SizesAssumption

\* A padded length pads to itself.
LEMMA PadmeIdempotent ==
    ASSUME NEW n \in Nat
    PROVE  Padme(Padme(n)) = Padme(n)
<1>1. CASE n <= MinPadded
  <2>1. Padme(n) = MinPadded /\ MinPadded \in Nat
    BY <1>1, PadmeIsRoundUp, SizesAssumption
  <2> QED
    BY <2>1, PadmeIsRoundUp
<1>2. CASE n > MinPadded
  <2> DEFINE p == Padme(n)
  <2>1. /\ n >= 1 /\ p = RoundUp(n, Bucket(n)) /\ p \in Nat /\ n <= p
        /\ p <= 2 * TwoTo[Exponent(n)]
    BY <1>2, AboveFloor
  <2>2. p > MinPadded /\ p >= 1
    BY <1>2, <2>1, SizesAssumption
  <2>3. /\ Exponent(n) \in Nat /\ Bucket(n) \in Nat /\ Bucket(n) >= 1
        /\ Exponent(p) \in Nat /\ Bucket(p) \in Nat /\ Bucket(p) >= 1
        /\ TwoTo[Exponent(n)] \in Nat /\ TwoTo[Exponent(p)] \in Nat /\ TwoTo[Exponent(p)] <= p
        /\ TwoTo[Bits(p)] \in Nat /\ TwoTo[Exponent(p)] = TwoTo[Bits(p)] * Bucket(p)
    BY <2>1, <2>2, Buckets
  <2>4. Padme(p) = RoundUp(p, Bucket(p))
    BY <2>1, <2>2, AboveFloor
  <2> HIDE DEF p
  <2>5. CASE Exponent(n) = Exponent(p)
    <3> DEFINE q == (n + Bucket(n) - 1) \div Bucket(n)
    <3>1. Bucket(n) = Bucket(p)
      BY <2>5 DEF Bucket, Bits
    <3>2. q \in Nat /\ p = q * Bucket(n)
      BY <2>1, <2>3 DEF RoundUp
    <3> HIDE DEF q
    <3>3. RoundUp(p, Bucket(p)) = p
      BY <2>3, <3>1, <3>2, RoundUpMultiple
    <3> QED
      BY <2>4, <3>3 DEF p
  <2>6. CASE 2 * TwoTo[Exponent(n)] <= TwoTo[Exponent(p)]
    <3>1. p = TwoTo[Bits(p)] * Bucket(p)
      BY <2>1, <2>3, <2>6
    <3>2. RoundUp(p, Bucket(p)) = p
      BY <2>3, <3>1, RoundUpMultiple
    <3> QED
      BY <2>4, <3>2 DEF p
  <2> QED
    BY <2>1, <2>5, <2>6, ExponentMonotone
<1> QED
  BY <1>1, <1>2, SizesAssumption

\* The overhead per exponent: 2^Bits(n) is more than Exponent(n).
Small(n) ==
    \/ Exponent(n) = 0 /\ Bits(n) = 0 /\ Bucket(n) = 1 /\ TwoTo[Exponent(n)] = 1
    \/ Exponent(n) = 1 /\ Bits(n) = 1 /\ Bucket(n) = 1 /\ TwoTo[Exponent(n)] = 2
    \/ Exponent(n) = 2 /\ Bits(n) = 2 /\ Bucket(n) = 1 /\ TwoTo[Exponent(n)] = 4
    \/ Exponent(n) = 3 /\ Bits(n) = 2 /\ Bucket(n) = 2 /\ TwoTo[Exponent(n)] = 8
    \/ Exponent(n) = 4 /\ Bits(n) = 3 /\ Bucket(n) = 2 /\ TwoTo[Exponent(n)] = 16
    \/ Exponent(n) = 5 /\ Bits(n) = 3 /\ Bucket(n) = 4 /\ TwoTo[Exponent(n)] = 32
    \/ Exponent(n) = 6 /\ Bits(n) = 3 /\ Bucket(n) = 8 /\ TwoTo[Exponent(n)] = 64
    \/ Exponent(n) = 7 /\ Bits(n) = 3 /\ Bucket(n) = 16 /\ TwoTo[Exponent(n)] = 128

LEMMA SmallTwoTo ==
    /\ TwoTo[0] = 1 /\ TwoTo[1] = 2 /\ TwoTo[2] = 4 /\ TwoTo[3] = 8
    /\ TwoTo[4] = 16 /\ TwoTo[5] = 32 /\ TwoTo[6] = 64 /\ TwoTo[7] = 128
<1>1. TwoTo[0 + 1] = 2 * TwoTo[0] /\ TwoTo[1 + 1] = 2 * TwoTo[1] /\ TwoTo[2 + 1] = 2 * TwoTo[2]
  BY TwoToValues
<1>2. TwoTo[3 + 1] = 2 * TwoTo[3] /\ TwoTo[4 + 1] = 2 * TwoTo[4]
  BY TwoToValues
<1>3. TwoTo[5 + 1] = 2 * TwoTo[5] /\ TwoTo[6 + 1] = 2 * TwoTo[6]
  BY TwoToValues
<1> QED
  BY <1>1, <1>2, <1>3, TwoToValues

LEMMA SmallBits ==
    /\ bitLength[0] = 0 /\ bitLength[1] = 1 /\ bitLength[2] = 2 /\ bitLength[3] = 2
    /\ bitLength[4] = 3 /\ bitLength[5] = 3 /\ bitLength[6] = 3 /\ bitLength[7] = 3
<1>1. /\ Needs(0, 0) /\ Needs(1, 1) /\ Needs(2, 2) /\ Needs(3, 2)
      /\ Needs(4, 3) /\ Needs(5, 3) /\ Needs(6, 3) /\ Needs(7, 3)
  BY SmallTwoTo DEF Needs
<1> QED
  BY <1>1, BitLengthNeeds, NeedsUnique

LEMMA SmallCases ==
    ASSUME NEW n \in Nat, n >= 1, Exponent(n) <= 7
    PROVE  Small(n)
<1>1. Exponent(n) \in Nat
  BY Buckets
<1>2. Exponent(n) \in {0, 1, 2, 3, 4, 5, 6, 7}
  BY <1>1
<1> QED
  BY <1>2, SmallTwoTo, SmallBits DEF Small, Bits, Bucket

\* From exponent 8 on, the bucket is at most a sixteenth of the length.
LEMMA LargeBuckets ==
    ASSUME NEW n \in Nat, n >= 1, Exponent(n) >= 8
    PROVE  16 * Bucket(n) <= n
<1>1. /\ Exponent(n) \in Nat /\ Bits(n) \in Nat /\ Bucket(n) \in Nat
      /\ TwoTo[Exponent(n)] <= n /\ TwoTo[Exponent(n)] = TwoTo[Bits(n)] * Bucket(n)
  BY Buckets
<1>2. Exponent(n) < TwoTo[Bits(n)]
  BY <1>1, BitLengthNeeds DEF Needs, Bits
<1>3. Bits(n) >= 4
  <2> SUFFICES ASSUME Bits(n) <= 3
               PROVE  FALSE
    BY <1>1
  <2>1. TwoTo[Bits(n)] <= TwoTo[3]
    BY <1>1, TwoToMonotone
  <2>2. TwoTo[Bits(n)] \in Nat
    BY <1>1, TwoToPositive
  <2> QED
    BY <1>1, <1>2, <2>1, <2>2, SmallTwoTo
<1>4. 16 <= TwoTo[Bits(n)] /\ TwoTo[Bits(n)] \in Nat
  BY <1>1, <1>3, TwoToMonotone, TwoToPositive, SmallTwoTo
<1>5. 16 * Bucket(n) <= TwoTo[Bits(n)] * Bucket(n)
  BY <1>1, <1>4
<1>6. TwoTo[Bits(n)] * Bucket(n) \in Nat
  BY <1>1, <1>4
<1> QED
  BY <1>1, <1>5, <1>6

\* Padding costs at most 12 % beyond the floor.
LEMMA PadmeOverhead ==
    ASSUME NEW n \in Nat, n > MinPadded
    PROVE  100 * (Padme(n) - n) <= 12 * n
<1>1. /\ n >= 1 /\ Padme(n) = RoundUp(n, Bucket(n)) /\ Padme(n) \in Nat
      /\ Padme(n) <= n + Bucket(n) - 1
  BY AboveFloor
<1>2. /\ Bucket(n) \in Nat /\ Bucket(n) >= 1 /\ Exponent(n) \in Nat
      /\ TwoTo[Exponent(n)] \in Nat /\ TwoTo[Exponent(n)] <= n
      /\ TwoTo[Bits(n)] \in Nat /\ TwoTo[Exponent(n)] = TwoTo[Bits(n)] * Bucket(n)
  BY <1>1, Buckets
<1>3. CASE Exponent(n) >= 8
  <2>1. 16 * Bucket(n) <= n
    BY <1>1, <1>3, LargeBuckets
  <2> QED
    BY <1>1, <1>2, <2>1
<1>4. CASE Exponent(n) <= 7 /\ n = TwoTo[Exponent(n)]
  <2>1. RoundUp(n, Bucket(n)) = n
    BY <1>2, <1>4, RoundUpMultiple
  <2> QED
    BY <1>1, <2>1
<1>5. CASE Exponent(n) <= 7 /\ n # TwoTo[Exponent(n)]
  <2>1. n >= TwoTo[Exponent(n)] + 1
    BY <1>2, <1>5
  <2>2. 100 * (Bucket(n) - 1) <= 12 * (TwoTo[Exponent(n)] + 1)
    BY <1>1, <1>5, SmallCases DEF Small
  <2> QED
    BY <1>1, <1>2, <2>1, <2>2
<1> QED
  BY <1>2, <1>3, <1>4, <1>5

(***************************************************************************)
(* What a list comprehension keeps, and the bytes of a document.           *)
(***************************************************************************)
ChosenFrom(c, s, keep) ==
    c = [i \in 0 .. Len(s) |->
            IF i = 0 THEN <<>>
            ELSE IF i \in keep THEN Append(c[i - 1], s[i]) ELSE c[i - 1]]

LEMMA ChosenExists ==
    ASSUME NEW T, NEW s \in Seq(T), NEW keep
    PROVE  \E c : ChosenFrom(c, s, keep) /\ Chosen(s, keep) = c[Len(s)]
<1> DEFINE step == [n \in Nat |-> [x \in Seq(T) |->
                       IF n + 1 \in keep /\ n + 1 <= Len(s) THEN Append(x, s[n + 1]) ELSE x]]
<1>1. step \in [Nat -> [Seq(T) -> Seq(T)]]
  <2> SUFFICES ASSUME NEW n \in Nat, NEW x \in Seq(T), n + 1 \in keep, n + 1 <= Len(s)
               PROVE  Append(x, s[n + 1]) \in Seq(T)
    OBVIOUS
  <2>1. s[n + 1] \in T
    OBVIOUS
  <2> QED
    BY <2>1
<1>2. <<>> \in Seq(T) /\ Len(s) \in Nat
  OBVIOUS
<1>3. PICK c \in [0 .. Len(s) -> Seq(T)] : Follows(c, <<>>, step, Len(s))
  <2> HIDE DEF step
  <2> QED
    BY <1>1, <1>2, PrefixExists
<1>4. ASSUME NEW i \in 0 .. Len(s)
      PROVE  c[i] = IF i = 0 THEN <<>>
                    ELSE IF i \in keep THEN Append(c[i - 1], s[i]) ELSE c[i - 1]
  <2>1. CASE i = 0
    BY <1>3, <2>1 DEF Follows
  <2>2. CASE i # 0
    <3>1. i - 1 \in 0 .. Len(s) - 1 /\ i - 1 \in 0 .. Len(s) /\ i - 1 \in Nat /\ (i - 1) + 1 = i
      BY <1>2, <2>2
    <3>2. c[i] = step[i - 1][c[i - 1]]
      <4> HIDE DEF step
      <4> QED
        BY <1>3, <3>1 DEF Follows
    <3>3. c[i - 1] \in Seq(T) /\ i <= Len(s)
      <4> HIDE DEF step
      <4> QED
        BY <1>2, <1>3, <3>1
    <3>4. step[i - 1][c[i - 1]] =
              IF (i - 1) + 1 \in keep /\ (i - 1) + 1 <= Len(s)
              THEN Append(c[i - 1], s[(i - 1) + 1]) ELSE c[i - 1]
      BY <3>1, <3>3
    <3> HIDE DEF step
    <3> QED
      BY <2>2, <3>1, <3>2, <3>3, <3>4
  <2> QED
    BY <2>1, <2>2
<1>5. ChosenFrom(c, s, keep)
  <2>1. c = [i \in 0 .. Len(s) |-> c[i]]
    BY <1>3
  <2> HIDE DEF step
  <2> QED
    BY <1>4, <2>1 DEF ChosenFrom
<1> DEFINE d == CHOOSE d : ChosenFrom(d, s, keep)
<1>6. ChosenFrom(d, s, keep)
  BY <1>5, Zenon
<1>7. Chosen(s, keep) = d[Len(s)]
  BY Zenon DEF Chosen, ChosenFrom
<1> QED
  BY <1>6, <1>7

\* Place by place: what is kept of the first n elements.
KeptOf(c, s, keep, n) ==
    \E at \in [{i \in 1 .. n : i \in keep} -> 1 .. Len(c)] :
        /\ \A i, j \in {k \in 1 .. n : k \in keep} : at[i] = at[j] => i = j
        /\ \A p \in 1 .. Len(c) : \E i \in {k \in 1 .. n : k \in keep} : at[i] = p
        /\ \A i \in {k \in 1 .. n : k \in keep} : c[at[i]] = s[i]

\* The elements that stay are those asked for, each at a place of its own.
LEMMA ChosenKeeps ==
    ASSUME NEW T, NEW s \in Seq(T), NEW keep
    PROVE  Chosen(s, keep) \in Seq(T) /\ KeptOf(Chosen(s, keep), s, keep, Len(s))
<1>1. PICK c : ChosenFrom(c, s, keep) /\ Chosen(s, keep) = c[Len(s)]
  BY ChosenExists
<1> DEFINE S == {n \in Nat : n <= Len(s) => c[n] \in Seq(T) /\ KeptOf(c[n], s, keep, n)}
<1>2. Len(s) \in Nat
  OBVIOUS
<1>3. 0 \in S
  <2>1. c[0] = <<>>
    BY <1>1, <1>2 DEF ChosenFrom
  <2>2. Len(<<>>) = 0 /\ 1 .. 0 = {} /\ <<>> \in Seq(T)
    OBVIOUS
  <2>3. {i \in 1 .. 0 : i \in keep} = {}
    OBVIOUS
  <2> DEFINE at == [i \in {k \in 1 .. 0 : k \in keep} |-> 1]
  <2>4. at \in [{i \in 1 .. 0 : i \in keep} -> 1 .. Len(<<>>)]
    BY <2>3
  <2>5. KeptOf(<<>>, s, keep, 0)
    BY <2>2, <2>3, <2>4 DEF KeptOf
  <2> QED
    BY <2>1, <2>2, <2>5
<1>4. ASSUME NEW n \in Nat, n \in S
      PROVE  n + 1 \in S
  <2> SUFFICES ASSUME n + 1 <= Len(s)
               PROVE  c[n + 1] \in Seq(T) /\ KeptOf(c[n + 1], s, keep, n + 1)
    OBVIOUS
  <2> DEFINE old == {k \in 1 .. n : k \in keep}
             new == {k \in 1 .. n + 1 : k \in keep}
  <2>1. c[n] \in Seq(T) /\ KeptOf(c[n], s, keep, n)
    BY <1>2, <1>4
  <2>2. c[n + 1] = IF n + 1 \in keep THEN Append(c[n], s[n + 1]) ELSE c[n]
    <3>1. n + 1 \in 0 .. Len(s) /\ n + 1 # 0 /\ (n + 1) - 1 = n
      BY <1>2
    <3> QED
      BY <1>1, <3>1 DEF ChosenFrom
  <2>3. PICK at \in [old -> 1 .. Len(c[n])] :
            /\ \A i, j \in old : at[i] = at[j] => i = j
            /\ \A p \in 1 .. Len(c[n]) : \E i \in old : at[i] = p
            /\ \A i \in old : c[n][at[i]] = s[i]
    BY <2>1 DEF KeptOf
  <2>4. s[n + 1] \in T
    OBVIOUS
  <2>5. CASE n + 1 \notin keep
    <3>1. c[n + 1] = c[n] /\ new = old
      BY <2>2, <2>5
    <3> HIDE DEF old, new
    <3>2. \E bt \in [new -> 1 .. Len(c[n])] :
              /\ \A i, j \in new : bt[i] = bt[j] => i = j
              /\ \A p \in 1 .. Len(c[n]) : \E i \in new : bt[i] = p
              /\ \A i \in new : c[n][bt[i]] = s[i]
      BY <2>3, <3>1
    <3>3. KeptOf(c[n], s, keep, n + 1)
      BY <3>2 DEF KeptOf, new
    <3> QED
      BY <2>1, <3>1, <3>3
  <2>6. CASE n + 1 \in keep
    <3> DEFINE a == Append(c[n], s[n + 1])
               l == Len(c[n])
               bt == [i \in new |-> IF i = n + 1 THEN l + 1 ELSE at[i]]
    <3>1. c[n + 1] = a /\ new = old \union {n + 1} /\ n + 1 \notin old
      BY <2>2, <2>6
    <3>2. /\ l \in Nat /\ a \in Seq(T) /\ Len(a) = l + 1 /\ a[l + 1] = s[n + 1]
          /\ \A j \in 1 .. l : a[j] = c[n][j]
      BY <2>1, <2>4
    <3> HIDE DEF a, l, old, new
    <3>3. \A i \in old : at[i] \in 1 .. l
      BY <2>3 DEF l
    <3>4. \A p \in 1 .. l : \E i \in old : at[i] = p
      BY <2>3 DEF l
    <3>5. bt \in [new -> 1 .. l + 1]
      BY <3>1, <3>2, <3>3
    <3>6. \A i, j \in new : bt[i] = bt[j] => i = j
      BY <2>3, <3>1, <3>2, <3>3
    <3>7. \A p \in 1 .. l + 1 : \E i \in new : bt[i] = p
      <4> SUFFICES ASSUME NEW p \in 1 .. l + 1
                   PROVE  \E i \in new : bt[i] = p
        OBVIOUS
      <4>1. CASE p = l + 1
        BY <3>1, <4>1
      <4>2. CASE p \in 1 .. l
        BY <3>1, <3>4, <4>2
      <4> QED
        BY <3>2, <4>1, <4>2
    <3>8. \A i \in new : a[bt[i]] = s[i]
      <4> SUFFICES ASSUME NEW i \in new
                   PROVE  a[bt[i]] = s[i]
        OBVIOUS
      <4>1. CASE i = n + 1
        BY <3>2, <4>1
      <4>2. CASE i \in old
        BY <2>3, <3>1, <3>2, <3>3, <4>2
      <4> QED
        BY <3>1, <4>1, <4>2
    <3> HIDE DEF bt
    <3>9. KeptOf(a, s, keep, n + 1)
      BY <3>2, <3>5, <3>6, <3>7, <3>8 DEF KeptOf, new
    <3> QED
      BY <3>1, <3>2, <3>9
  <2> QED
    BY <2>5, <2>6
<1> HIDE DEF S
<1>5. Nat \subseteq S
  BY <1>3, <1>4, SetInduction
<1> QED
  BY <1>1, <1>2, <1>5 DEF S

BytesFrom(c, d) ==
    c = [i \in 0 .. Len(d.entries) |->
            IF i = 0 THEN EmptyBytes + (IF d.unknown THEN FieldBytes ELSE 0)
                     ELSE c[i - 1] + EntryBytes(d.entries[i])]

LEMMA EntryBytesNat ==
    ASSUME NEW e \in Entries
    PROVE  EntryBytes(e) \in Nat
  BY BytesAssumption DEF EntryBytes, Entries

LEMMA DocBytesNat ==
    ASSUME NEW d \in Docs
    PROVE  DocBytes(d) \in Nat
<1> DEFINE l == Len(d.entries)
           base == EmptyBytes + (IF d.unknown THEN FieldBytes ELSE 0)
           step == [n \in Nat |-> [x \in Nat |->
                       IF n + 1 <= l THEN x + EntryBytes(d.entries[n + 1]) ELSE x]]
<1>1. l \in Nat /\ \A i \in 1 .. l : EntryBytes(d.entries[i]) \in Nat
  <2>1. d.entries \in Seq(Entries)
    BY DEF Docs
  <2>2. l \in Nat /\ \A i \in 1 .. l : d.entries[i] \in Entries
    BY <2>1
  <2> QED
    BY <2>2, EntryBytesNat
<1>2. base \in Nat
  BY BytesAssumption
<1>3. step \in [Nat -> [Nat -> Nat]]
  <2> SUFFICES ASSUME NEW n \in Nat, NEW x \in Nat, n + 1 <= l
               PROVE  x + EntryBytes(d.entries[n + 1]) \in Nat
    OBVIOUS
  <2> HIDE DEF l
  <2>1. n + 1 \in 1 .. l
    BY <1>1
  <2>2. EntryBytes(d.entries[n + 1]) \in Nat
    BY <1>1, <2>1
  <2> QED
    BY <2>2
<1>4. PICK c \in [0 .. l -> Nat] : Follows(c, base, step, l)
  <2> HIDE DEF step, base, l
  <2> QED
    BY <1>1, <1>2, <1>3, PrefixExists
<1>5. ASSUME NEW i \in 0 .. l
      PROVE  c[i] = IF i = 0 THEN base ELSE c[i - 1] + EntryBytes(d.entries[i])
  <2>1. CASE i = 0
    BY <1>4, <2>1 DEF Follows
  <2>2. CASE i # 0
    <3>1. i - 1 \in 0 .. l - 1 /\ i - 1 \in 0 .. l /\ i - 1 \in Nat /\ (i - 1) + 1 = i /\ i <= l
      <4> HIDE DEF l, base, step
      <4> QED
        BY <1>1, <2>2
    <3>2. c[i] = step[i - 1][c[i - 1]] /\ c[i - 1] \in Nat
      <4> HIDE DEF step, l, base
      <4> QED
        BY <1>4, <3>1 DEF Follows
    <3>3. step[i - 1][c[i - 1]] =
              IF (i - 1) + 1 <= l THEN c[i - 1] + EntryBytes(d.entries[(i - 1) + 1]) ELSE c[i - 1]
      BY <3>1, <3>2
    <3> HIDE DEF step, l, base
    <3> QED
      BY <2>2, <3>1, <3>2, <3>3
  <2> QED
    BY <2>1, <2>2
<1>6. BytesFrom(c, d)
  <2>1. c = [i \in 0 .. l |-> c[i]]
    BY <1>4
  <2> HIDE DEF step
  <2> QED
    BY <1>5, <2>1 DEF BytesFrom
<1> DEFINE b == CHOOSE b : BytesFrom(b, d)
<1>7. BytesFrom(b, d)
  BY <1>6, Zenon
<1>8. DocBytes(d) = b[l]
  BY Zenon DEF DocBytes, BytesFrom
<1> DEFINE S == {n \in Nat : n <= l => b[n] \in Nat}
<1>9. 0 \in S
  <2>1. b[0] = base
    <3> HIDE DEF b
    <3> QED
      BY <1>1, <1>7 DEF BytesFrom
  <2> HIDE DEF base, b
  <2> QED
    BY <1>2, <2>1
<1>10. ASSUME NEW n \in Nat, n \in S
       PROVE  n + 1 \in S
  <2> SUFFICES ASSUME n + 1 <= l
               PROVE  b[n + 1] \in Nat
    OBVIOUS
  <2> HIDE DEF b
  <2>1. n + 1 \in 0 .. l /\ n + 1 \in 1 .. l /\ n + 1 # 0 /\ (n + 1) - 1 = n /\ b[n] \in Nat
    <3> HIDE DEF l
    <3> QED
      BY <1>1, <1>10
  <2>2. b[n + 1] = b[n] + EntryBytes(d.entries[n + 1])
    BY <1>7, <2>1 DEF BytesFrom
  <2>3. EntryBytes(d.entries[n + 1]) \in Nat
    BY <1>1, <2>1
  <2> QED
    BY <2>1, <2>2, <2>3
<1> HIDE DEF S, b, l
<1>11. Nat \subseteq S
  BY <1>9, <1>10, SetInduction
<1> QED
  BY <1>1, <1>8, <1>11 DEF S

(***************************************************************************)
(* The invariant.                                                          *)
(***************************************************************************)
DrawnIds == 1 .. ids \union ForeignIds

\* A stored vault is sized by what it holds and has a usable cost.  Only ids
\* that were drawn are in use, once each until an import brings one again.
VaultOK ==
    /\ box.length = DocBytes(doc)
    /\ Validate(kdf)
    /\ IdsOf(doc.entries) \subseteq DrawnIds
    /\ ~duplicated => Distinct(doc.entries)

IInv ==
    /\ TypeOK
    /\ box = Padded(box.length)
    /\ doc # NoVault => VaultOK
    /\ export # NoExport => IdsOf(export) \subseteq DrawnIds

(***************************************************************************)
(* What each command does to the document.                                 *)
(***************************************************************************)
\* Every entry is where it was, as it was.
Grows ==
    \A i \in DOMAIN doc.entries :
        i \in DOMAIN doc'.entries /\ Known(doc'.entries[i]) = Known(doc.entries[i])

\* So is every entry but k, which keeps its id.
Edited(k) ==
    /\ DOMAIN doc'.entries = DOMAIN doc.entries
    /\ \A i \in DOMAIN doc.entries : doc'.entries[i].id = doc.entries[i].id
    /\ \A i \in DOMAIN doc.entries \ {k} : Known(doc'.entries[i]) = Known(doc.entries[i])

\* No entry of the id is left, and every other has a place of its own.
Dropped(id) ==
    LET keep == {i \in DOMAIN doc.entries : doc.entries[i].id # id}
    IN  \E at \in [keep -> DOMAIN doc'.entries] :
            /\ \A i, j \in keep : at[i] = at[j] => i = j
            /\ \A p \in DOMAIN doc'.entries : \E i \in keep : at[i] = p
            /\ \A i \in keep : Known(doc'.entries[at[i]]) = Known(doc.entries[i])

Written == doc' \in Docs /\ doc'.unknown = doc.unknown /\ box' = Padded(DocBytes(doc'))

LEMMA KnownFields ==
    ASSUME NEW e, NEW f, Known(e) = Known(f)
    PROVE  e.id = f.id /\ e.title = f.title /\ e.notes = f.notes
  BY DEF Known

LEMMA OpenedIs ==
    ASSUME doc \in Docs
    PROVE  /\ FromDict(doc) \in Docs /\ FromDict(doc).unknown = doc.unknown
           /\ Opened \in Seq(Entries) /\ doc.entries \in Seq(Entries)
           /\ Len(Opened) = Len(doc.entries) /\ Len(doc.entries) \in Nat
           /\ DOMAIN Opened = 1 .. Len(doc.entries) /\ DOMAIN doc.entries = 1 .. Len(doc.entries)
           /\ \A i \in 1 .. Len(doc.entries) :
                  Opened[i] \in Entries /\ Known(Opened[i]) = Known(doc.entries[i])
<1> DEFINE old == doc.entries
           new == [i \in DOMAIN old |-> [old[i] EXCEPT !.extra = FALSE]]
<1>1. old \in Seq(Entries) /\ doc.unknown \in BOOLEAN
  BY DEF Docs
<1>2. Len(old) \in Nat /\ DOMAIN old = 1 .. Len(old) /\ \A i \in 1 .. Len(old) : old[i] \in Entries
  BY <1>1
<1>3. \A i \in 1 .. Len(old) : new[i] \in Entries /\ Known(new[i]) = Known(old[i])
  BY <1>2 DEF Entries, Known
<1>4. new \in Seq(Entries) /\ Len(new) = Len(old) /\ DOMAIN new = 1 .. Len(old)
  <2>1. new \in [1 .. Len(old) -> Entries]
    BY <1>2, <1>3
  <2> QED
    BY <1>2, <2>1
<1>5. FromDict(doc) = [doc EXCEPT !.entries = new]
  BY DEF FromDict
<1> HIDE DEF new
<1>6. FromDict(doc) \in Docs /\ FromDict(doc).unknown = doc.unknown /\ FromDict(doc).entries = new
  BY <1>4, <1>5 DEF Docs
<1> QED
  BY <1>1, <1>2, <1>3, <1>4, <1>6 DEF Opened

LEMMA SaveWrites ==
    ASSUME doc \in Docs, NEW entries \in Seq(Entries), Save(entries)
    PROVE  Written /\ doc'.entries = entries
<1>1. FromDict(doc) \in Docs /\ FromDict(doc).unknown = doc.unknown
  BY OpenedIs
<1>2. doc' = [FromDict(doc) EXCEPT !.entries = entries] /\ box' = Padded(DocBytes(doc'))
  BY DEF Save, Seal, ToDict
<1> QED
  BY <1>1, <1>2 DEF Written, Docs

LEMMA NamedPlaces ==
    ASSUME NEW entries
    PROVE  Named(entries) \subseteq DOMAIN entries
  BY DEF Named, GetById, GetByTitle

LEMMA AddEffect ==
    ASSUME IInv, CmdAdd
    PROVE  /\ doc # NoVault /\ Written /\ Grows
           /\ ids < MaxIds /\ ids' = ids + 1
           /\ DOMAIN doc'.entries = DOMAIN doc.entries \union {Len(doc.entries) + 1}
           /\ doc'.entries[Len(doc.entries) + 1].id = ids'
<1>1. PICK title \in Title, notes \in Notes : Save(Append(Opened, EntryOf(NewId, title, notes)))
  BY DEF CmdAdd
<1>2. doc # NoVault /\ doc \in Docs /\ ids \in 0 .. MaxIds /\ ids < MaxIds /\ ids' = ids + 1
  BY DEF IInv, TypeOK, CmdAdd, Unlocked
<1> DEFINE e == EntryOf(NewId, title, notes)
           l == Len(doc.entries)
<1>3. e \in Entries /\ e.id = ids + 1
  BY <1>2, IdsAssumption DEF EntryOf, NewId, Entries, Ids, Words
<1>4. Append(Opened, e) \in Seq(Entries) /\ Len(Append(Opened, e)) = l + 1
  BY <1>2, <1>3, OpenedIs
<1>5. /\ DOMAIN Append(Opened, e) = 1 .. l + 1 /\ Append(Opened, e)[l + 1] = e
      /\ \A i \in 1 .. l : Append(Opened, e)[i] = Opened[i]
  BY <1>2, <1>3, OpenedIs
<1>6. Written /\ doc'.entries = Append(Opened, e)
  BY <1>1, <1>2, <1>4, SaveWrites
<1> HIDE DEF e
<1>7. Grows
  BY <1>2, <1>5, <1>6, OpenedIs DEF Grows
<1>8. 1 .. l + 1 = (1 .. l) \union {l + 1} /\ DOMAIN doc.entries = 1 .. l
  BY <1>2, OpenedIs
<1> QED
  BY <1>2, <1>3, <1>5, <1>6, <1>7, <1>8

LEMMA EditEffect ==
    ASSUME IInv, CmdEdit
    PROVE  doc # NoVault /\ Written /\ \E k \in DOMAIN doc.entries : Edited(k)
<1>1. PICK k \in Named(Opened), title \in Words, notes \in Notes :
          Save([Opened EXCEPT ![k].title = title, ![k].notes = notes])
  BY DEF CmdEdit
<1>2. doc # NoVault /\ doc \in Docs
  BY DEF IInv, TypeOK, CmdEdit, Unlocked
<1> DEFINE l == Len(doc.entries)
           new == [Opened EXCEPT ![k].title = title, ![k].notes = notes]
<1>3. k \in 1 .. l
  BY <1>2, NamedPlaces, OpenedIs
<1>4. /\ DOMAIN new = 1 .. l
      /\ \A i \in 1 .. l : new[i] \in Entries /\ new[i].id = Opened[i].id
      /\ \A i \in (1 .. l) \ {k} : new[i] = Opened[i]
  <2>1. DOMAIN Opened = 1 .. l /\ \A i \in 1 .. l : Opened[i] \in Entries
    BY <1>2, OpenedIs
  <2>2. DOMAIN new = 1 .. l /\ \A i \in (1 .. l) \ {k} : new[i] = Opened[i]
    BY <1>3, <2>1
  <2>3. new[k] = [Opened[k] EXCEPT !.title = title, !.notes = notes]
    BY <1>3, <2>1
  <2>4. new[k] \in Entries /\ new[k].id = Opened[k].id
    BY <1>3, <2>1, <2>3 DEF Entries
  <2> HIDE DEF new
  <2> QED
    BY <2>1, <2>2, <2>4
<1>5. new \in Seq(Entries)
  <2>1. new = [i \in 1 .. l |-> new[i]]
    BY <1>2, <1>4, OpenedIs
  <2>2. l \in Nat
    BY <1>2, OpenedIs
  <2> HIDE DEF new, l
  <2> QED
    BY <1>4, <2>1, <2>2
<1>6. Written /\ doc'.entries = new
  BY <1>1, <1>2, <1>5, SaveWrites
<1> HIDE DEF new
<1>7. Edited(k)
  <2>1. DOMAIN doc.entries = 1 .. l
    BY <1>2, OpenedIs
  <2>2. \A i \in 1 .. l : Opened[i].id = doc.entries[i].id /\ Known(Opened[i]) = Known(doc.entries[i])
    BY <1>2, OpenedIs, KnownFields
  <2> QED
    BY <1>4, <1>6, <2>1, <2>2 DEF Edited
<1> QED
  BY <1>2, <1>3, <1>6, <1>7, OpenedIs

LEMMA RmEffect ==
    ASSUME IInv, CmdRm
    PROVE  /\ doc # NoVault /\ Written
           /\ \E k \in DOMAIN doc.entries : Dropped(doc.entries[k].id)
<1>1. PICK k \in Named(Opened) : Save(Remove(Opened, Opened[k].id))
  BY DEF CmdRm
<1>2. doc # NoVault /\ doc \in Docs
  BY DEF IInv, TypeOK, CmdRm, Unlocked
<1> DEFINE l == Len(doc.entries)
           id == doc.entries[k].id
           keep == {i \in DOMAIN doc.entries : doc.entries[i].id # id}
           new == Remove(Opened, Opened[k].id)
<1>3. /\ k \in 1 .. l /\ DOMAIN doc.entries = 1 .. l /\ DOMAIN Opened = 1 .. l /\ Len(Opened) = l
      /\ Opened \in Seq(Entries)
      /\ \A i \in 1 .. l : Opened[i].id = doc.entries[i].id /\ Known(Opened[i]) = Known(doc.entries[i])
  BY <1>2, NamedPlaces, OpenedIs, KnownFields
<1>4. new = Chosen(Opened, keep)
  BY <1>3 DEF Remove
<1>5. new \in Seq(Entries) /\ KeptOf(new, Opened, keep, l)
  BY <1>3, <1>4, ChosenKeeps
<1>6. Written /\ doc'.entries = new
  BY <1>1, <1>2, <1>5, SaveWrites
<1>7. DOMAIN new = 1 .. Len(new) /\ {i \in 1 .. l : i \in keep} = keep
  <2>1. DOMAIN new = 1 .. Len(new)
    BY <1>5
  <2> QED
    BY <1>3, <2>1
<1> HIDE DEF new, keep
<1>8. PICK at \in [keep -> 1 .. Len(new)] :
          /\ \A i, j \in keep : at[i] = at[j] => i = j
          /\ \A p \in 1 .. Len(new) : \E i \in keep : at[i] = p
          /\ \A i \in keep : new[at[i]] = Opened[i]
  BY <1>5, <1>7 DEF KeptOf
<1>9. keep \subseteq 1 .. l
  BY <1>3 DEF keep
<1>10. \A i \in keep : Known(doc'.entries[at[i]]) = Known(doc.entries[i])
  BY <1>3, <1>6, <1>8, <1>9
<1>11. Dropped(id)
  BY <1>6, <1>7, <1>8, <1>10 DEF Dropped, keep
<1> QED
  BY <1>2, <1>3, <1>6, <1>11

LEMMA ResaveEffect ==
    ASSUME IInv, Resave
    PROVE  doc # NoVault /\ Written /\ Grows /\ DOMAIN doc'.entries = DOMAIN doc.entries
<1>1. doc # NoVault /\ doc \in Docs /\ Save(Opened)
  BY DEF IInv, TypeOK, Resave, Unlocked
<1>2. Opened \in Seq(Entries)
  BY <1>1, OpenedIs
<1>3. Written /\ doc'.entries = Opened
  BY <1>1, <1>2, SaveWrites
<1> QED
  BY <1>1, <1>3, OpenedIs DEF Grows

LEMMA NewerEffect ==
    ASSUME IInv, NewerClient
    PROVE  /\ doc # NoVault /\ doc' \in Docs /\ (doc.unknown => doc'.unknown)
           /\ box' = Padded(DocBytes(doc')) /\ Grows
           /\ DOMAIN doc'.entries = DOMAIN doc.entries
<1>1. doc # NoVault /\ doc \in Docs /\ box' = Padded(DocBytes(doc'))
  BY DEF IInv, TypeOK, NewerClient, Unlocked
<1>2. doc.entries \in Seq(Entries) /\ doc.unknown \in BOOLEAN
  BY <1>1 DEF Docs
<1>3. CASE doc' = [doc EXCEPT !.unknown = TRUE]
  <2>1. doc' \in Docs /\ doc'.entries = doc.entries /\ doc'.unknown
    BY <1>1, <1>3 DEF Docs
  <2> QED
    BY <1>1, <2>1 DEF Grows
<1>4. ASSUME NEW k \in DOMAIN doc.entries, doc' = [doc EXCEPT !.entries[k].extra = TRUE]
      PROVE  /\ doc' \in Docs /\ doc'.unknown = doc.unknown /\ Grows
             /\ DOMAIN doc'.entries = DOMAIN doc.entries
  <2> DEFINE new == [doc.entries EXCEPT ![k] = [doc.entries[k] EXCEPT !.extra = TRUE]]
             l == Len(doc.entries)
  <2>1. l \in Nat /\ DOMAIN doc.entries = 1 .. l /\ \A i \in 1 .. l : doc.entries[i] \in Entries
    BY <1>2
  <2>2. /\ DOMAIN new = 1 .. l
        /\ \A i \in 1 .. l : new[i] \in Entries /\ Known(new[i]) = Known(doc.entries[i])
    <3>1. [doc.entries[k] EXCEPT !.extra = TRUE] \in Entries
      BY <1>4, <2>1 DEF Entries
    <3>2. Known([doc.entries[k] EXCEPT !.extra = TRUE]) = Known(doc.entries[k])
      BY <1>4, <2>1 DEF Entries, Known
    <3> QED
      BY <1>4, <2>1, <3>1, <3>2
  <2>3. new = [i \in 1 .. l |-> new[i]]
    BY <2>1
  <2>4. doc' = [doc EXCEPT !.entries = new]
    BY <1>1, <1>4 DEF Docs
  <2> HIDE DEF new, l
  <2>5. new \in Seq(Entries)
    BY <2>1, <2>2, <2>3
  <2>6. doc' \in Docs /\ doc'.entries = new /\ doc'.unknown = doc.unknown
    BY <1>1, <2>4, <2>5 DEF Docs
  <2> QED
    BY <2>1, <2>2, <2>6 DEF Grows
<1> QED
  BY <1>1, <1>3, <1>4 DEF NewerClient

LEMMA RowsOfFile ==
    ASSUME IInv, NEW file \in Files \union ({export} \ {NoExport})
    PROVE  /\ file \in Seq(Rows)
           /\ \A i \in DOMAIN file : file[i].id = NoId \/ file[i].id \in DrawnIds
<1>1. CASE file \in Files
  <2> DEFINE R == [id : ForeignIds \union {NoId}, title : Words, notes : Notes]
  <2>1. file \in Seq(R)
    BY <1>1, FilesAssumption
  <2>2. R \subseteq Rows
    BY DEF Rows, Ids
  <2>3. \A i \in DOMAIN file : file[i] \in R
    <3> HIDE DEF R
    <3> QED
      BY <2>1
  <2>4. \A i \in DOMAIN file : file[i].id = NoId \/ file[i].id \in ForeignIds
    BY <2>3
  <2> HIDE DEF R
  <2>5. file \in Seq(Rows)
    BY <2>1, <2>2
  <2> QED
    BY <2>4, <2>5 DEF DrawnIds
<1>2. CASE file = export /\ export # NoExport
  BY <1>2 DEF IInv, TypeOK, IdsOf
<1> QED
  BY <1>1, <1>2

LEMMA TitledRows ==
    ASSUME IInv, NEW file \in Files \union ({export} \ {NoExport})
    PROVE  /\ Titled(file) \in Seq(Rows)
           /\ \A j \in DOMAIN Titled(file) : Titled(file)[j].id = NoId \/ Titled(file)[j].id \in DrawnIds
<1> DEFINE keep == {i \in DOMAIN file : file[i].title # NoTitle}
           t == Chosen(file, keep)
<1>1. file \in Seq(Rows) /\ \A i \in DOMAIN file : file[i].id = NoId \/ file[i].id \in DrawnIds
  BY RowsOfFile
<1>2. Titled(file) = t
  BY DEF Titled
<1> HIDE DEF keep
<1>3. t \in Seq(Rows) /\ KeptOf(t, file, keep, Len(file))
  BY <1>1, ChosenKeeps
<1> HIDE DEF t
<1>4. DOMAIN t = 1 .. Len(t) /\ DOMAIN file = 1 .. Len(file)
  BY <1>1, <1>3
<1>5. \A j \in 1 .. Len(t) : \E i \in 1 .. Len(file) : t[j] = file[i]
  <2>1. PICK at \in [{i \in 1 .. Len(file) : i \in keep} -> 1 .. Len(t)] :
            /\ \A p \in 1 .. Len(t) : \E i \in {k \in 1 .. Len(file) : k \in keep} : at[i] = p
            /\ \A i \in {k \in 1 .. Len(file) : k \in keep} : t[at[i]] = file[i]
    BY <1>3 DEF KeptOf
  <2> QED
    BY <2>1
<1> QED
  BY <1>1, <1>2, <1>3, <1>4, <1>5

LEMMA ImportEffect ==
    ASSUME IInv, CmdImport
    PROVE  /\ doc # NoVault /\ Written /\ Grows
           /\ ids' \in 0 .. MaxIds /\ ids <= ids'
           /\ \A j \in DOMAIN doc'.entries \ DOMAIN doc.entries :
                  doc'.entries[j].id \in 1 .. ids' \union ForeignIds
           /\ duplicated' = (duplicated \/ ~Distinct(doc'.entries))
<1>1. PICK file \in Files \union ({export} \ {NoExport}) :
          /\ NoId \in IdsOf(Titled(file)) => ids < MaxIds
          /\ Save(Opened \o Imported(Titled(file)))
          /\ ids' = IF NoId \in IdsOf(Titled(file)) THEN ids + 1 ELSE ids
          /\ duplicated' = (duplicated \/ ~Distinct(Opened \o Imported(Titled(file))))
  BY DEF CmdImport
<1>2. doc # NoVault /\ doc \in Docs /\ ids \in 0 .. MaxIds
  BY DEF IInv, TypeOK, CmdImport, Unlocked
<1> DEFINE rows == Titled(file)
           l == Len(doc.entries)
           m == Len(rows)
           new == Imported(rows)
           all == Opened \o new
<1>3. rows \in Seq(Rows) /\ \A j \in DOMAIN rows : rows[j].id = NoId \/ rows[j].id \in DrawnIds
  BY TitledRows
<1> HIDE DEF rows
<1>4. m \in Nat /\ DOMAIN rows = 1 .. m /\ \A j \in 1 .. m : rows[j] \in Rows
  BY <1>3
<1>5. ids' \in 0 .. MaxIds /\ ids <= ids'
  BY <1>1, <1>2, IdsAssumption
<1>6. ASSUME NEW j \in 1 .. m
      PROVE  new[j] \in Entries /\ new[j].id \in 1 .. ids' \union ForeignIds
  <2> DEFINE id == IF rows[j].id = NoId THEN NewId ELSE rows[j].id
  <2>1. new[j] = EntryOf(id, rows[j].title, rows[j].notes)
    BY <1>4 DEF Imported
  <2>2. id \in 1 .. ids' \union ForeignIds
    <3>1. CASE rows[j].id = NoId
      <4>1. NoId \in IdsOf(rows)
        BY <1>4, <3>1 DEF IdsOf
      <4>2. ids' = ids + 1 /\ id = ids + 1
        BY <1>1, <3>1, <4>1 DEF NewId, rows
      <4> QED
        BY <1>2, <4>2
    <3>2. CASE rows[j].id # NoId
      <4>1. id \in DrawnIds
        BY <1>3, <1>4, <3>2
      <4> QED
        BY <1>2, <1>5, <4>1, IdsAssumption DEF DrawnIds
    <3> QED
      BY <3>1, <3>2
  <2>3. rows[j].title \in Words /\ rows[j].notes \in Notes
    BY <1>4 DEF Rows
  <2> HIDE DEF id
  <2>4. id \in Ids
    BY <1>5, <2>2, IdsAssumption DEF Ids
  <2> QED
    BY <2>1, <2>2, <2>3, <2>4 DEF EntryOf, Entries
<1>7. new \in Seq(Entries) /\ Len(new) = m
  <2>1. new = [j \in 1 .. m |-> new[j]]
    BY <1>4 DEF Imported
  <2> HIDE DEF new, m
  <2> QED
    BY <1>4, <1>6, <2>1
<1>8. /\ Opened \in Seq(Entries) /\ l \in Nat /\ Len(Opened) = l /\ DOMAIN doc.entries = 1 .. l
      /\ \A i \in 1 .. l : Known(Opened[i]) = Known(doc.entries[i])
  BY <1>2, OpenedIs
<1> HIDE DEF new, l, m
<1>9. /\ all \in Seq(Entries) /\ DOMAIN all = 1 .. l + m
      /\ \A i \in 1 .. l : all[i] = Opened[i]
      /\ \A i \in l + 1 .. l + m : all[i] = new[i - l]
  BY <1>4, <1>7, <1>8
<1>10. Written /\ doc'.entries = all
  BY <1>1, <1>2, <1>9, SaveWrites DEF new, rows
<1>11. duplicated' = (duplicated \/ ~Distinct(doc'.entries))
  BY <1>1, <1>10 DEF new, rows
<1> HIDE DEF all
<1>12. Grows
  BY <1>4, <1>8, <1>9, <1>10 DEF Grows
<1>13. \A j \in DOMAIN doc'.entries \ DOMAIN doc.entries :
           doc'.entries[j].id \in 1 .. ids' \union ForeignIds
  <2> SUFFICES ASSUME NEW j \in l + 1 .. l + m
               PROVE  all[j].id \in 1 .. ids' \union ForeignIds
    BY <1>4, <1>8, <1>9, <1>10
  <2>1. j - l \in 1 .. m /\ all[j] = new[j - l]
    BY <1>4, <1>8, <1>9
  <2> QED
    BY <1>6, <2>1
<1> QED
  BY <1>2, <1>5, <1>10, <1>11, <1>12, <1>13

LEMMA InitEffect ==
    ASSUME IInv, CmdInit
    PROVE  /\ doc = NoVault /\ doc' \in Docs /\ doc'.entries = <<>>
           /\ box' = Padded(DocBytes(doc'))
           /\ Validate(kdf') /\ kdf' \in [ops : Nat, mem : Nat]
<1>1. doc = NoVault /\ doc' = [entries |-> <<>>, unknown |-> FALSE] /\ box' = Padded(DocBytes(doc'))
  BY DEF CmdInit, Seal, ToDict
<1>2. PICK cost \in Costs \union TuneKdf : Validate(cost) /\ kdf' = cost
  BY DEF CmdInit, Usable
<1>3. cost \in [ops : Nat, mem : Nat]
  <2>1. CASE cost \in Costs
    BY <2>1, CostsAssumption
  <2>2. CASE cost \in TuneKdf
    <3>1. PICK o \in MinOps .. TuneOps, k \in (0 .. 12) \union {0} : cost = [ops |-> o, mem |-> MinMem * TwoTo[k]]
      BY <2>2 DEF TuneKdf
    <3>2. o \in Nat /\ k \in Nat
      BY <3>1, CostsAssumption
    <3>3. MinMem * TwoTo[k] \in Nat
      BY <3>2, TwoToPositive, CostsAssumption
    <3> QED
      BY <3>1, <3>2, <3>3
  <2> QED
    BY <2>1, <2>2
<1>4. doc' \in Docs /\ doc'.entries = <<>>
  BY <1>1 DEF Docs
<1> QED
  BY <1>1, <1>2, <1>3, <1>4

(***************************************************************************)
(* The invariant holds in every reachable state.                           *)
(***************************************************************************)
LEMMA PaddedIs ==
    ASSUME NEW n \in Nat
    PROVE  /\ Padded(n) \in [length : Nat, padded : Nat]
           /\ Padded(n).length = n /\ Padded(n).padded = Padme(n + Prefix)
<1>1. n + Prefix \in Nat
  BY DEF Prefix
<1>2. Padme(n + Prefix) \in Nat
  BY <1>1, PadmeReaches
<1> QED
  BY <1>2 DEF Padded

LEMMA BoxWritten ==
    ASSUME doc' \in Docs, box' = Padded(DocBytes(doc'))
    PROVE  /\ box' \in [length : Nat, padded : Nat]
           /\ box' = Padded(box'.length) /\ box'.length = DocBytes(doc')
<1>1. DocBytes(doc') \in Nat
  BY DocBytesNat
<1> QED
  BY <1>1, PaddedIs

LEMMA InvInit == Init => IInv
<1> SUFFICES ASSUME Init
             PROVE  IInv
  OBVIOUS
<1>1. Padded(0) \in [length : Nat, padded : Nat] /\ Padded(0).length = 0
  BY PaddedIs
<1>2. box \in [length : Nat, padded : Nat] /\ box = Padded(box.length)
  BY <1>1 DEF Init
<1>3. kdf \in [ops : Nat, mem : Nat] /\ ids \in 0 .. MaxIds /\ duplicated \in BOOLEAN
  <2>1. MaxIds \in Nat /\ MinOps \in Nat /\ MinMem \in Nat
    BY CostsAssumption, IdsAssumption
  <2>2. kdf = [ops |-> MinOps, mem |-> MinMem] /\ ids = 0
    BY DEF Init
  <2>3. kdf \in [ops : Nat, mem : Nat] /\ ids \in 0 .. MaxIds
    BY <2>1, <2>2
  <2>4. duplicated \in BOOLEAN
    BY Zenon DEF Init
  <2> QED
    BY <2>3, <2>4
<1>4. TypeOK
  BY <1>2, <1>3 DEF Init, TypeOK
<1> QED
  BY <1>2, <1>4 DEF Init, IInv

\* Where entries stand and what ids they have, in terms of the step.
EntriesOK ==
    /\ IdsOf(doc'.entries) \subseteq 1 .. ids' \union ForeignIds
    /\ ~duplicated' => Distinct(doc'.entries)

LEMMA VaultKept ==
    ASSUME IInv, doc # NoVault, doc' \in Docs, box' = Padded(DocBytes(doc')), EntriesOK,
           UNCHANGED <<kdf, export>>, ids' \in 0 .. MaxIds, ids <= ids', duplicated' \in BOOLEAN
    PROVE  IInv'
<1>1. /\ box' \in [length : Nat, padded : Nat]
      /\ box' = Padded(box'.length) /\ box'.length = DocBytes(doc')
  BY BoxWritten
<1>2. ids \in 0 .. MaxIds /\ kdf \in [ops : Nat, mem : Nat] /\ export \in Seq(Rows) \union {NoExport}
  BY DEF IInv, TypeOK
<1>3. TypeOK'
  BY <1>1, <1>2 DEF TypeOK
<1>4. VaultOK'
  BY <1>1 DEF IInv, VaultOK, EntriesOK, DrawnIds, Validate
<1>5. export' # NoExport => IdsOf(export') \subseteq (DrawnIds)'
  <2>1. 1 .. ids \subseteq 1 .. ids'
    BY <1>2, IdsAssumption
  <2> QED
    BY <2>1 DEF IInv, DrawnIds
<1> QED
  BY <1>1, <1>3, <1>4, <1>5 DEF IInv

\* Ids are as they were.
SameIds ==
    /\ DOMAIN doc'.entries = DOMAIN doc.entries
    /\ \A i \in DOMAIN doc.entries : doc'.entries[i].id = doc.entries[i].id

LEMMA SameIdsKept ==
    ASSUME IInv, doc # NoVault, SameIds, UNCHANGED <<ids, duplicated>>
    PROVE  EntriesOK
  BY DEF IInv, VaultOK, SameIds, EntriesOK, IdsOf, Distinct, DrawnIds

LEMMA AddKept ==
    ASSUME IInv, CmdAdd
    PROVE  IInv'
<1> DEFINE l == Len(doc.entries)
<1>1. /\ doc # NoVault /\ Written /\ Grows /\ ids < MaxIds /\ ids' = ids + 1
      /\ DOMAIN doc'.entries = DOMAIN doc.entries \union {l + 1}
      /\ doc'.entries[l + 1].id = ids'
  BY AddEffect
<1>2. UNCHANGED <<kdf, export, duplicated>>
  BY DEF CmdAdd
<1>3. ids \in 0 .. MaxIds /\ ids' \in 0 .. MaxIds /\ ids <= ids' /\ doc \in Docs /\ duplicated \in BOOLEAN
  BY <1>1, IdsAssumption DEF IInv, TypeOK
<1>4. DOMAIN doc.entries = 1 .. l /\ l \in Nat
  BY <1>3, OpenedIs
<1>5. \A i \in 1 .. l : doc'.entries[i].id = doc.entries[i].id /\ doc.entries[i].id \in 1 .. ids \union ForeignIds
  BY <1>1, <1>4, KnownFields DEF Grows, IInv, VaultOK, IdsOf, DrawnIds
<1>6. \A i \in 1 .. l : doc'.entries[i].id # ids'
  BY <1>1, <1>3, <1>5, IdsAssumption
<1>7. IdsOf(doc'.entries) \subseteq 1 .. ids' \union ForeignIds
  <2>1. 1 .. ids \subseteq 1 .. ids' /\ ids' \in 1 .. ids'
    BY <1>1, <1>3
  <2> QED
    BY <1>1, <1>4, <1>5, <2>1 DEF IdsOf
<1>8. ~duplicated' => Distinct(doc'.entries)
  <2> SUFFICES ASSUME ~duplicated
               PROVE  Distinct(doc'.entries)
    BY <1>2
  <2>1. Distinct(doc.entries)
    BY <1>1 DEF IInv, VaultOK
  <2> QED
    BY <1>1, <1>4, <1>5, <1>6, <2>1 DEF Distinct
<1> QED
  BY <1>1, <1>2, <1>3, <1>7, <1>8, VaultKept DEF EntriesOK, Written

LEMMA EditKept ==
    ASSUME IInv, CmdEdit
    PROVE  IInv'
<1>1. doc # NoVault /\ Written /\ \E k \in DOMAIN doc.entries : Edited(k)
  BY EditEffect
<1>2. UNCHANGED <<kdf, export, ids, duplicated>>
  BY DEF CmdEdit
<1>3. SameIds
  BY <1>1 DEF Edited, SameIds
<1>4. ids' \in 0 .. MaxIds /\ ids <= ids' /\ duplicated' \in BOOLEAN
  BY <1>2, IdsAssumption DEF IInv, TypeOK
<1> QED
  BY <1>1, <1>2, <1>3, <1>4, SameIdsKept, VaultKept DEF Written

LEMMA RmKept ==
    ASSUME IInv, CmdRm
    PROVE  IInv'
<1>1. PICK k \in DOMAIN doc.entries : doc # NoVault /\ Written /\ Dropped(doc.entries[k].id)
  BY RmEffect
<1>2. UNCHANGED <<kdf, export, ids, duplicated>>
  BY DEF CmdRm
<1> DEFINE keep == {i \in DOMAIN doc.entries : doc.entries[i].id # doc.entries[k].id}
<1>3. PICK at \in [keep -> DOMAIN doc'.entries] :
          /\ \A i, j \in keep : at[i] = at[j] => i = j
          /\ \A p \in DOMAIN doc'.entries : \E i \in keep : at[i] = p
          /\ \A i \in keep : Known(doc'.entries[at[i]]) = Known(doc.entries[i])
  BY <1>1 DEF Dropped
<1>4. \A i \in keep : doc'.entries[at[i]].id = doc.entries[i].id
  BY <1>3, KnownFields
<1>5. IdsOf(doc'.entries) \subseteq 1 .. ids' \union ForeignIds
  BY <1>1, <1>2, <1>3, <1>4 DEF IInv, VaultOK, IdsOf, DrawnIds
<1>6. ~duplicated' => Distinct(doc'.entries)
  <2> SUFFICES ASSUME ~duplicated, NEW p \in DOMAIN doc'.entries, NEW q \in DOMAIN doc'.entries,
                      doc'.entries[p].id = doc'.entries[q].id
               PROVE  p = q
    BY <1>2 DEF Distinct
  <2>1. PICK i \in keep, j \in keep : at[i] = p /\ at[j] = q
    BY <1>3
  <2>2. doc.entries[i].id = doc.entries[j].id
    BY <1>4, <2>1
  <2>3. Distinct(doc.entries)
    BY <1>1 DEF IInv, VaultOK
  <2> QED
    BY <2>1, <2>2, <2>3 DEF Distinct
<1>7. ids' \in 0 .. MaxIds /\ ids <= ids' /\ duplicated' \in BOOLEAN
  BY <1>2, IdsAssumption DEF IInv, TypeOK
<1> QED
  BY <1>1, <1>2, <1>5, <1>6, <1>7, VaultKept DEF EntriesOK, Written

LEMMA ImportKept ==
    ASSUME IInv, CmdImport
    PROVE  IInv'
<1>1. /\ doc # NoVault /\ Written /\ Grows /\ ids' \in 0 .. MaxIds /\ ids <= ids'
      /\ \A j \in DOMAIN doc'.entries \ DOMAIN doc.entries :
             doc'.entries[j].id \in 1 .. ids' \union ForeignIds
      /\ duplicated' = (duplicated \/ ~Distinct(doc'.entries))
  BY ImportEffect
<1>2. UNCHANGED <<kdf, export>>
  BY DEF CmdImport
<1>3. \A i \in DOMAIN doc.entries :
          /\ doc'.entries[i].id = doc.entries[i].id
          /\ doc.entries[i].id \in 1 .. ids \union ForeignIds
  BY <1>1, KnownFields DEF Grows, IInv, VaultOK, IdsOf, DrawnIds
<1>4. ids \in 0 .. MaxIds
  BY DEF IInv, TypeOK
<1>5. 1 .. ids \subseteq 1 .. ids'
  BY <1>1, <1>4, IdsAssumption
<1>6. IdsOf(doc'.entries) \subseteq 1 .. ids' \union ForeignIds
  BY <1>1, <1>3, <1>5 DEF IdsOf
<1>7. (~duplicated' => Distinct(doc'.entries)) /\ duplicated' \in BOOLEAN
  BY <1>1, Zenon
<1> QED
  BY <1>1, <1>2, <1>6, <1>7, VaultKept DEF EntriesOK, Written

LEMMA ResaveKept ==
    ASSUME IInv, Resave
    PROVE  IInv'
<1>1. doc # NoVault /\ Written /\ Grows /\ DOMAIN doc'.entries = DOMAIN doc.entries
  BY ResaveEffect
<1>2. UNCHANGED <<kdf, export, ids, duplicated>>
  BY DEF Resave
<1>3. SameIds
  BY <1>1, KnownFields DEF Grows, SameIds
<1>4. ids' \in 0 .. MaxIds /\ ids <= ids' /\ duplicated' \in BOOLEAN
  BY <1>2, IdsAssumption DEF IInv, TypeOK
<1> QED
  BY <1>1, <1>2, <1>3, <1>4, SameIdsKept, VaultKept DEF Written

LEMMA NewerKept ==
    ASSUME IInv, NewerClient
    PROVE  IInv'
<1>1. /\ doc # NoVault /\ doc' \in Docs /\ box' = Padded(DocBytes(doc')) /\ Grows
      /\ DOMAIN doc'.entries = DOMAIN doc.entries
  BY NewerEffect
<1>2. UNCHANGED <<kdf, export, ids, duplicated>>
  BY DEF NewerClient
<1>3. SameIds
  BY <1>1, KnownFields DEF Grows, SameIds
<1>4. ids' \in 0 .. MaxIds /\ ids <= ids' /\ duplicated' \in BOOLEAN
  BY <1>2, IdsAssumption DEF IInv, TypeOK
<1> QED
  BY <1>1, <1>2, <1>3, <1>4, SameIdsKept, VaultKept

LEMMA InitKept ==
    ASSUME IInv, CmdInit
    PROVE  IInv'
<1>1. /\ doc' \in Docs /\ doc'.entries = <<>> /\ box' = Padded(DocBytes(doc'))
      /\ Validate(kdf') /\ kdf' \in [ops : Nat, mem : Nat]
  BY InitEffect
<1>2. UNCHANGED <<export, ids, duplicated>>
  BY DEF CmdInit
<1>3. /\ box' \in [length : Nat, padded : Nat]
      /\ box' = Padded(box'.length) /\ box'.length = DocBytes(doc')
  BY <1>1, BoxWritten
<1>4. TypeOK'
  BY <1>1, <1>2, <1>3 DEF IInv, TypeOK
<1>5. VaultOK'
  BY <1>1, <1>3 DEF VaultOK, IdsOf, Distinct, Validate
<1> QED
  BY <1>2, <1>3, <1>4, <1>5 DEF IInv, DrawnIds

LEMMA ExportKept ==
    ASSUME IInv, CmdExport
    PROVE  IInv'
<1>1. doc # NoVault /\ doc \in Docs
  BY DEF IInv, TypeOK, CmdExport, Unlocked
<1>2. UNCHANGED <<doc, box, kdf, ids, duplicated>>
  BY DEF CmdExport
<1> DEFINE l == Len(doc.entries)
<1>3. /\ DOMAIN Opened = 1 .. l /\ DOMAIN doc.entries = 1 .. l /\ l \in Nat
      /\ \A i \in 1 .. l : Opened[i] \in Entries /\ Opened[i].id = doc.entries[i].id
  BY <1>1, OpenedIs, KnownFields
<1> HIDE DEF l
<1>4. export' = [i \in 1 .. l |-> [id |-> Opened[i].id, title |-> Opened[i].title,
                                   notes |-> Opened[i].notes]]
  BY <1>3 DEF CmdExport
<1>5. \A i \in 1 .. l : export'[i] \in Rows /\ export'[i].id = doc.entries[i].id
  BY <1>3, <1>4 DEF Entries, Rows
<1>6. export' \in Seq(Rows)
  BY <1>3, <1>4, <1>5
<1>7. IdsOf(export') \subseteq DrawnIds
  BY <1>1, <1>3, <1>4, <1>5 DEF IInv, VaultOK, IdsOf
<1>8. TypeOK'
  BY <1>2, <1>6 DEF IInv, TypeOK
<1>9. VaultOK' = VaultOK /\ DrawnIds' = DrawnIds
  BY <1>2 DEF VaultOK, DrawnIds
<1> QED
  BY <1>2, <1>7, <1>8, <1>9 DEF IInv

LEMMA StutterKept ==
    ASSUME IInv, UNCHANGED vars
    PROVE  IInv'
<1>1. UNCHANGED <<doc, box, kdf, export, ids, duplicated>>
  BY DEF vars
<1>2. TypeOK' = TypeOK /\ VaultOK' = VaultOK /\ DrawnIds' = DrawnIds
  BY <1>1 DEF TypeOK, VaultOK, DrawnIds
<1> QED
  BY <1>1, <1>2 DEF IInv

LEMMA InvStep == IInv /\ [Next]_vars => IInv'
  BY AddKept, EditKept, RmKept, ImportKept, ResaveKept, NewerKept, InitKept, ExportKept,
     StutterKept DEF Next

LEMMA Invariance == Spec => []IInv
  BY InvInit, InvStep, PTL DEF Spec

\* Every reachable state has its types (src/zkvault/model.py, vault.py).
THEOREM TypeCorrect == Spec => []TypeOK
<1>1. IInv => TypeOK
  BY DEF IInv
<1> QED
  BY <1>1, Invariance, PTL

(***************************************************************************)
(* Padding and the limits of the reader.                                   *)
(***************************************************************************)
\* padme (src/zkvault/vault.py:110) for every length there is: it reaches the
\* length, is monotone and idempotent, and costs at most 12 % beyond the floor.
THEOREM PadmeForEveryLength ==
    /\ \A m, n \in Nat : m <= n => Padme(m) <= Padme(n)
    /\ \A n \in Nat : Padme(n) \in Nat /\ n <= Padme(n) /\ Padme(Padme(n)) = Padme(n)
    /\ \A n \in Nat : n > MinPadded => 100 * (Padme(n) - n) <= 12 * n
  BY PadmeReaches, PadmeMonotone, PadmeIdempotent, PadmeOverhead

LEMMA PadmeIsSound == PadmeSound
<1> SUFFICES ASSUME NEW n \in Lengths
             PROVE  /\ Padme(n) >= n /\ Padme(n + 1) >= Padme(n)
                    /\ Padme(Padme(n)) = Padme(n)
                    /\ n > MinPadded => 100 * (Padme(n) - n) <= 12 * n
  BY DEF PadmeSound
<1>1. n \in Nat /\ n + 1 \in Nat /\ n <= n + 1
  BY SizesAssumption
<1>2. Padme(n) \in Nat /\ Padme(n + 1) \in Nat /\ Padme(n) >= n /\ Padme(n) <= Padme(n + 1)
  BY <1>1, PadmeReaches, PadmeMonotone
<1> QED
  BY <1>1, <1>2, PadmeIdempotent, PadmeOverhead

\* The size of every vault: enough for its contents, and at most 12 % more than
\* them beyond the floor (padme, pad_payload).
THEOREM PaddingHolds == Spec => []PaddingBounded
<1>1. IInv => PaddingBounded
  <2> SUFFICES ASSUME IInv
               PROVE  PaddingBounded
    OBVIOUS
  <2> DEFINE n == box.length + Prefix
  <2>1. box \in [length : Nat, padded : Nat] /\ box = Padded(box.length)
    BY DEF IInv, TypeOK
  <2>2. box.length \in Nat /\ n \in Nat /\ box.padded = Padme(n)
    BY <2>1, PaddedIs DEF Prefix
  <2>3. Padme(n) \in Nat /\ n <= Padme(n)
    BY <2>2, PadmeReaches
  <2>4. Padme(n) > MinPadded => n > MinPadded
    BY <2>2, PadmeIsRoundUp, SizesAssumption
  <2>5. Padme(n) > MinPadded => 100 * (Padme(n) - n) <= 12 * n
    BY <2>2, <2>4, PadmeOverhead
  <2>6. Padme(n) - n = box.padded - box.length - Prefix
    BY <2>2, <2>3 DEF Prefix
  <2> HIDE DEF n
  <2>7. n <= box.padded /\ (box.padded > MinPadded => 100 * (box.padded - box.length - Prefix) <= 12 * n)
    BY <2>2, <2>3, <2>5, <2>6
  <2> QED
    BY <2>7, PadmeIsSound DEF PaddingBounded, n
<1> QED
  BY <1>1, Invariance, PTL

\* A payload may be read when its length, prefix included, is within the limit:
\* padding goes no further than the limit, which is a padded length itself.
LEMMA ReadsUpToTheLimit ==
    ASSUME NEW n \in Nat, NEW cost, Validate(cost)
    PROVE  Reads(Padded(n), cost) <=> n + Prefix <= MaxPayload
<1> DEFINE p == Padme(n + Prefix)
<1>1. /\ Padded(n).length = n /\ Padded(n).padded = p /\ p \in Nat
      /\ n + Prefix \in Nat /\ n + Prefix <= p
  BY PaddedIs, PadmeReaches DEF Prefix
<1>2. MaxPayload \in Nat /\ MaxFile \in Nat /\ MinPadded \in Nat
  BY SizesAssumption
<1>3. n + Prefix <= MaxPayload <=> p <= MaxPayload
  <2>1. n + Prefix <= MaxPayload => p <= MaxPayload
    BY <1>1, <1>2, PadmeMonotone, LimitsAssumption
  <2> QED
    BY <1>1, <1>2, <2>1
<1> HIDE DEF p
<1>4. p <= MaxPayload => FileBytes(p) <= MaxFile
  <2>1. FileBytes(MaxPayload) <= MaxFile
    BY LimitsAssumption
  <2>2. p <= MaxPayload => (p + Tag + 2) \div 3 <= (MaxPayload + Tag + 2) \div 3
    BY <1>1, <1>2 DEF Tag
  <2>3. (p + Tag + 2) \div 3 \in Nat /\ (MaxPayload + Tag + 2) \div 3 \in Nat
    BY <1>1, <1>2 DEF Tag
  <2> QED
    BY <1>2, <2>1, <2>2, <2>3 DEF FileBytes
<1>5. p <= MaxPayload => Unpads(Padded(n))
  BY <1>1, <1>2 DEF Unpads, Prefix
<1>6. Reads(Padded(n), cost) => p <= MaxPayload
  BY <1>1, <1>2 DEF Reads, FitsFile, FitsPayload, Tag
<1>7. p <= MaxPayload => Reads(Padded(n), cost)
  BY <1>1, <1>2, <1>4, <1>5 DEF Reads, FitsFile, FitsPayload, Tag
<1> QED
  BY <1>3, <1>6, <1>7

\* What was saved opens again, with what was saved, exactly up to the limit of
\* the payload (src/zkvault/vault.py:65-72, VaultFile.from_bytes, unpad_payload).
THEOREM SavedReadsBack == Spec => []ReadsBack
<1>1. IInv => ReadsBack
  <2> SUFFICES ASSUME IInv, doc # NoVault
               PROVE  Reads(box, kdf) <=> DocBytes(doc) + Prefix <= MaxPayload
    BY DEF ReadsBack, IInv, VaultOK
  <2>1. box = Padded(DocBytes(doc)) /\ Validate(kdf) /\ doc \in Docs
    BY DEF IInv, VaultOK, TypeOK
  <2> QED
    BY <2>1, DocBytesNat, ReadsUpToTheLimit
<1> QED
  BY <1>1, Invariance, PTL

(***************************************************************************)
(* What a step may do to the entries.                                      *)
(***************************************************************************)
LEMMA Steps ==
    ASSUME IInv, [Next]_vars
    PROVE  \/ doc' = doc
           \/ doc = NoVault
           \/ /\ doc \in Docs /\ doc' \in Docs /\ doc # NoVault /\ doc' # NoVault
              /\ doc.unknown => doc'.unknown
              /\ \/ Grows
                 \/ \E k \in DOMAIN doc.entries : Edited(k) \/ Dropped(doc.entries[k].id)
<1>1. doc # NoVault => doc \in Docs
  BY DEF IInv, TypeOK
<1>2. doc' \in Docs => doc' # NoVault
  BY NoneAssumption
<1>3. CASE CmdAdd
  BY <1>1, <1>2, <1>3, AddEffect DEF Written
<1>4. CASE CmdEdit
  BY <1>1, <1>2, <1>4, EditEffect DEF Written
<1>5. CASE CmdRm
  BY <1>1, <1>2, <1>5, RmEffect DEF Written
<1>6. CASE Resave
  BY <1>1, <1>2, <1>6, ResaveEffect DEF Written
<1>7. CASE CmdImport
  BY <1>1, <1>2, <1>7, ImportEffect DEF Written
<1>8. CASE NewerClient
  BY <1>1, <1>2, <1>8, NewerEffect
<1>9. CASE CmdInit
  BY <1>9, InitEffect
<1>10. CASE CmdExport \/ UNCHANGED vars
  BY <1>10 DEF CmdExport, vars
<1> QED
  BY <1>3, <1>4, <1>5, <1>6, <1>7, <1>8, <1>9, <1>10 DEF Next

LEMMA FiniteCopies ==
    ASSUME NEW d \in Docs \union {NoVault}, NEW id
    PROVE  IsFiniteSet(Copies(d, id))
<1>1. CASE d = NoVault
  BY <1>1, FS_EmptySet DEF Copies
<1>2. CASE d # NoVault
  <2>1. PICK l \in Nat : DOMAIN d.entries = 1 .. l
    BY <1>2 DEF Docs
  <2>2. IsFiniteSet(1 .. l)
    BY FS_Interval
  <2>3. Copies(d, id) \subseteq 1 .. l
    BY <1>2, <2>1 DEF Copies
  <2> QED
    BY <2>2, <2>3, FS_Subset
<1> QED
  BY <1>1, <1>2

\* What an older client does not know of the document is in it after every save
\* (VaultContents.from_dict and to_dict, src/zkvault/model.py).
THEOREM UnknownFieldsKept == Spec => UnknownKept
<1>1. IInv /\ [Next]_vars => (doc # NoVault /\ doc.unknown => doc'.unknown)
  BY Steps
<1> QED
  BY <1>1, Invariance, PTL DEF Spec, UnknownKept

LEMMA NothingDisturbed ==
    ASSUME doc' # NoVault, Grows
    PROVE  Disturbed = {}
  BY DEF Disturbed, Grows

LEMMA OneDisturbed ==
    ASSUME doc' # NoVault, NEW k \in DOMAIN doc.entries, Edited(k)
    PROVE  Disturbed \subseteq {k}
  BY DEF Disturbed, Edited

LEMMA OneDropped ==
    ASSUME doc' # NoVault, NEW k \in DOMAIN doc.entries, Dropped(doc.entries[k].id),
           Distinct(doc.entries)
    PROVE  Disturbed \subseteq {k}
<1> DEFINE keep == {i \in DOMAIN doc.entries : doc.entries[i].id # doc.entries[k].id}
<1>1. PICK at \in [keep -> DOMAIN doc'.entries] :
          \A i \in keep : Known(doc'.entries[at[i]]) = Known(doc.entries[i])
  BY DEF Dropped
<1>2. \A i \in keep : i \notin Disturbed
  BY <1>1 DEF Disturbed
<1>3. \A i \in DOMAIN doc.entries : i # k => i \in keep
  BY DEF Distinct
<1> QED
  BY <1>2, <1>3 DEF Disturbed

\* A command touches one entry, until an import has brought an id again
\* (VaultContents.remove, add and edit, src/zkvault/model.py).
THEOREM OthersAreLeftAlone == Spec => OneEntryAtATime
<1>1. IInv /\ [Next]_vars => (doc # NoVault /\ ~duplicated => Cardinality(Disturbed) <= 1)
  <2> SUFFICES ASSUME IInv, [Next]_vars, doc # NoVault, ~duplicated
               PROVE  Cardinality(Disturbed) <= 1
    OBVIOUS
  <2>1. Distinct(doc.entries)
    BY DEF IInv, VaultOK
  <2>2. \A k : Disturbed \subseteq {k} => Cardinality(Disturbed) <= 1
    <3> SUFFICES ASSUME NEW k, Disturbed \subseteq {k}
                 PROVE  Cardinality(Disturbed) <= 1
      OBVIOUS
    <3>1. IsFiniteSet({k}) /\ Cardinality({k}) = 1
      BY FS_Singleton
    <3> QED
      BY <3>1, FS_Subset
  <2>3. CASE doc' = doc
    BY <2>2, <2>3 DEF Disturbed
  <2>4. CASE doc' # NoVault /\ Grows
    BY <2>2, <2>4, NothingDisturbed
  <2>5. ASSUME doc' # NoVault, NEW k \in DOMAIN doc.entries, Edited(k) \/ Dropped(doc.entries[k].id)
        PROVE  Disturbed \subseteq {k}
    BY <2>1, <2>5, OneDisturbed, OneDropped
  <2> QED
    BY <2>2, <2>3, <2>4, <2>5, Steps
<1> QED
  BY <1>1, Invariance, PTL DEF Spec, OneEntryAtATime

LEMMA NoFewerCopies ==
    ASSUME doc \in Docs, doc' \in Docs, doc # NoVault, doc' # NoVault, NEW id,
           NEW at \in [Copies(doc, id) -> Copies(doc', id)],
           \A i, j \in Copies(doc, id) : at[i] = at[j] => i = j
    PROVE  ~(Cardinality(Copies(doc', id)) < Cardinality(Copies(doc, id)))
<1>1. IsFiniteSet(Copies(doc, id)) /\ IsFiniteSet(Copies(doc', id))
  BY FiniteCopies
<1>2. at \in Injection(Copies(doc, id), Copies(doc', id))
  BY DEF Injection, IsInjective
<1>3. Cardinality(Copies(doc, id)) <= Cardinality(Copies(doc', id))
  BY <1>1, <1>2, FS_Injection
<1>4. Cardinality(Copies(doc, id)) \in Nat /\ Cardinality(Copies(doc', id)) \in Nat
  BY <1>1, FS_CardinalityType
<1> QED
  BY <1>3, <1>4

LEMMA CopiesStay ==
    ASSUME doc \in Docs, doc' \in Docs, doc # NoVault, doc' # NoVault, NEW id,
           \A i \in DOMAIN doc.entries :
               i \in DOMAIN doc'.entries /\ doc'.entries[i].id = doc.entries[i].id
    PROVE  ~(Cardinality(Copies(doc', id)) < Cardinality(Copies(doc, id)))
<1> DEFINE at == [i \in Copies(doc, id) |-> i]
<1>1. at \in [Copies(doc, id) -> Copies(doc', id)]
  BY DEF Copies
<1>2. \A i, j \in Copies(doc, id) : at[i] = at[j] => i = j
  OBVIOUS
<1> HIDE DEF at
<1> QED
  BY <1>1, <1>2, NoFewerCopies

LEMMA CopiesDropped ==
    ASSUME doc \in Docs, doc' \in Docs, doc # NoVault, doc' # NoVault, NEW id,
           NEW gone, Dropped(gone)
    PROVE  IF id = gone THEN Copies(doc', id) = {}
           ELSE ~(Cardinality(Copies(doc', id)) < Cardinality(Copies(doc, id)))
<1> DEFINE keep == {i \in DOMAIN doc.entries : doc.entries[i].id # gone}
<1>1. PICK at \in [keep -> DOMAIN doc'.entries] :
          /\ \A i, j \in keep : at[i] = at[j] => i = j
          /\ \A p \in DOMAIN doc'.entries : \E i \in keep : at[i] = p
          /\ \A i \in keep : Known(doc'.entries[at[i]]) = Known(doc.entries[i])
  BY DEF Dropped
<1>2. \A i \in keep : doc'.entries[at[i]].id = doc.entries[i].id
  BY <1>1, KnownFields
<1>3. CASE id = gone
  BY <1>1, <1>2, <1>3 DEF Copies
<1>4. CASE id # gone
  <2> DEFINE to == [i \in Copies(doc, id) |-> at[i]]
  <2>1. Copies(doc, id) \subseteq keep
    BY <1>4 DEF Copies
  <2>2. to \in [Copies(doc, id) -> Copies(doc', id)]
    BY <1>1, <1>2, <2>1 DEF Copies
  <2>3. \A i, j \in Copies(doc, id) : to[i] = to[j] => i = j
    BY <1>1, <2>1
  <2> HIDE DEF to
  <2>4. ~(Cardinality(Copies(doc', id)) < Cardinality(Copies(doc, id)))
    BY <2>2, <2>3, NoFewerCopies
  <2> QED
    BY <1>4, <2>4
<1> QED
  BY <1>3, <1>4

\* A removal leaves no copy of what it removes (VaultContents.remove takes every
\* entry of the id, src/zkvault/model.py), and nothing else removes.
THEOREM RemovalIsComplete == Spec => RemovedIsGone
<1>1. IInv /\ [Next]_vars =>
          \A id \in Ids :
              Cardinality(Copies(doc', id)) < Cardinality(Copies(doc, id)) => Copies(doc', id) = {}
  <2> SUFFICES ASSUME IInv, [Next]_vars, NEW id \in Ids,
                      Cardinality(Copies(doc', id)) < Cardinality(Copies(doc, id))
               PROVE  Copies(doc', id) = {}
    OBVIOUS
  <2>1. IsFiniteSet(Copies(doc, id))
    BY FiniteCopies DEF IInv, TypeOK
  <2>2. doc = NoVault => Copies(doc, id) = {}
    BY DEF Copies
  <2>3. Cardinality(Copies(doc, id)) \in Nat
    BY <2>1, FS_CardinalityType
  <2>4. CASE doc' = doc
    BY <2>3, <2>4
  <2>5. CASE doc = NoVault
    <3>1. doc' \in Docs \union {NoVault}
      BY InvStep DEF IInv, TypeOK
    <3>2. IsFiniteSet(Copies(doc', id))
      BY <3>1, FiniteCopies
    <3>3. Cardinality(Copies(doc', id)) \in Nat /\ Cardinality(Copies(doc, id)) = 0
      BY <2>2, <2>5, <3>2, FS_EmptySet, FS_CardinalityType
    <3> QED
      BY <3>3
  <2>6. CASE doc \in Docs /\ doc' \in Docs /\ doc # NoVault /\ doc' # NoVault /\ Grows
    BY <2>6, CopiesStay, KnownFields DEF Grows
  <2>7. ASSUME doc \in Docs, doc' \in Docs, doc # NoVault, doc' # NoVault,
               NEW k \in DOMAIN doc.entries, Edited(k)
        PROVE  FALSE
    BY <2>7, CopiesStay DEF Edited
  <2>8. ASSUME doc \in Docs, doc' \in Docs, doc # NoVault, doc' # NoVault,
               NEW k \in DOMAIN doc.entries, Dropped(doc.entries[k].id)
        PROVE  Copies(doc', id) = {}
    BY <2>8, CopiesDropped
  <2> QED
    BY <2>4, <2>5, <2>6, <2>7, <2>8, Steps
<1> QED
  BY <1>1, Invariance, PTL DEF Spec, RemovedIsGone
=============================================================================
