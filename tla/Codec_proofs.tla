---------------------------- MODULE Codec_proofs ----------------------------
(* Theorems of Codec: what the conversions of a number give, and that a     *)
(* message decrypts to what was encrypted.                                  *)
EXTENDS Codec, SequenceTheorems, WellFoundedInduction, FiniteSetTheorems, TLAPS

-----------------------------------------------------------------------------
(* Induction: a set of natural numbers that is not empty has a least one.   *)

LEMMA LeastNumber ==
  ASSUME NEW Bad \in SUBSET Nat, Bad # {}
  PROVE  \E m \in Bad : \A k \in Bad : m <= k
<1> DEFINE R == OpToRel(<, Nat)
<1>1. IsWellFoundedOn(R, Nat)
  BY NatLessThanWellFounded
<1>2. PICK m \in Bad : \A k \in Bad : ~(<<k, m>> \in R)
  <2> HIDE DEF R
  <2> QED
    BY <1>1, WFMin
<1>3. \A k \in Bad : <<k, m>> \in R <=> k < m
  BY DEF OpToRel
<1> HIDE DEF R
<1>4. \A k \in Bad : ~(k < m)
  BY <1>2, <1>3, Zenon
<1>5. m \in Nat /\ \A k \in Bad : k \in Nat
  OBVIOUS
<1>6. \A k \in Bad : m <= k
  BY <1>4, <1>5, SMT
<1> QED
  BY <1>6

-----------------------------------------------------------------------------
(* The value of digits.                                                     *)

\* What strtol's loop adds up.
Value(s) == FoldLeft(LAMBDA v, c : v * Base + (c - Zero), 0, s)

\* g is what the fold computes of the positions 1..k of s.
Sums(g, s, k) ==
  g = [P \in SUBSET (1..k) |->
         IF P = {} THEN 0 ELSE g[P \ {Max(P)}] * Base + (s[Max(P)] - Zero)]

LEMMA ValueSums ==
  ASSUME NEW s, NEW n \in Nat, DOMAIN s = 1..n
  PROVE  Value(s) = (CHOOSE g : Sums(g, s, n))[1..n]
BY DEF Value, Sums, FoldLeft, MapThenFoldSet

LEMMA MaxIs ==
  ASSUME NEW P \in SUBSET Int, NEW m \in P, \A y \in P : m >= y
  PROVE  Max(P) = m
<1>1. \A x \in P : (\A y \in P : x >= y) => x = m
  OBVIOUS
<1> QED
  BY <1>1 DEF Max

LEMMA MaxOf ==
  ASSUME NEW k \in Nat, NEW P \in SUBSET (1..(k + 1)), k + 1 \in P
  PROVE  Max(P) = k + 1 /\ P \ {Max(P)} \in SUBSET (1..k)
<1>1. \A y \in P : k + 1 >= y
  OBVIOUS
<1>2. Max(P) = k + 1
  BY <1>1, MaxIs
<1> QED
  BY <1>2

LEMMA SumsExist ==
  ASSUME NEW s, NEW n \in Nat
  PROVE  \E g : Sums(g, s, n)
<1> DEFINE Bad == {k \in 0..n : ~\E g : Sums(g, s, k)}
<1>1. ASSUME NEW k \in Nat, NEW g, Sums(g, s, k)
      PROVE  \E h : Sums(h, s, k + 1)
  <2> DEFINE h == [P \in SUBSET (1..(k + 1)) |->
                     IF k + 1 \in P THEN g[P \ {k + 1}] * Base + (s[k + 1] - Zero) ELSE g[P]]
             Right(P) == IF P = {} THEN 0 ELSE h[P \ {Max(P)}] * Base + (s[Max(P)] - Zero)
  <2>1. \A P \in SUBSET (1..k) : P \in SUBSET (1..(k + 1)) /\ k + 1 \notin P /\ h[P] = g[P]
    OBVIOUS
  <2>2. ASSUME NEW P \in SUBSET (1..(k + 1))
        PROVE  h[P] = Right(P)
    <3>1. CASE k + 1 \in P
      BY <2>1, <3>1, MaxOf
    <3>2. CASE k + 1 \notin P
      <4>1. P \in SUBSET (1..k)
        BY <3>2
      <4>2. P # {} => P \ {Max(P)} \in SUBSET (1..k)
        BY <4>1
      <4>3. g[P] = IF P = {} THEN 0 ELSE g[P \ {Max(P)}] * Base + (s[Max(P)] - Zero)
        BY <1>1, <4>1 DEF Sums
      <4> QED
        BY <2>1, <4>1, <4>2, <4>3
    <3> QED
      BY <3>1, <3>2
  <2>3. h = [P \in SUBSET (1..(k + 1)) |-> Right(P)]
    <3> HIDE DEF Right
    <3> QED
      BY <2>2
  <2>4. Sums(h, s, k + 1)
    <3> HIDE DEF h
    <3> QED
      BY <2>3 DEF Sums
  <2> QED
    BY <2>4
<1>2. Sums([P \in SUBSET (1..0) |-> 0], s, 0)
  <2>1. \A P \in SUBSET (1..0) : P = {}
    OBVIOUS
  <2> QED
    BY <2>1 DEF Sums
<1>3. ASSUME NEW m \in Bad, \A k \in Bad : m <= k
      PROVE  FALSE
  <2>1. m # 0
    BY <1>2
  <2>2. m - 1 \in 0..n /\ m - 1 \notin Bad /\ m - 1 \in Nat /\ (m - 1) + 1 = m
    BY <1>3, <2>1
  <2>3. PICK g : Sums(g, s, m - 1)
    BY <2>2
  <2> QED
    BY <1>1, <2>2, <2>3
<1>4. Bad = {}
  <2> HIDE DEF Bad
  <2>1. Bad \in SUBSET Nat
    BY DEF Bad
  <2> QED
    BY <1>3, <2>1, LeastNumber
<1> QED
  BY <1>4

LEMMA SumsPrefix ==
  ASSUME NEW s, NEW n \in Nat, NEW g, Sums(g, s, n)
  PROVE  /\ g[1..0] = 0
         /\ \A k \in 1..n : g[1..k] = g[1..(k - 1)] * Base + (s[k] - Zero)
<1>1. ASSUME NEW P \in SUBSET (1..n)
      PROVE  g[P] = IF P = {} THEN 0 ELSE g[P \ {Max(P)}] * Base + (s[Max(P)] - Zero)
  BY <1>1 DEF Sums
<1>2. g[1..0] = 0
  <2>1. 1..0 = {} /\ 1..0 \in SUBSET (1..n)
    OBVIOUS
  <2> QED
    BY <1>1, <2>1
<1>3. ASSUME NEW k \in 1..n
      PROVE  g[1..k] = g[1..(k - 1)] * Base + (s[k] - Zero)
  <2>1. /\ 1..k \in SUBSET (1..n) /\ 1..k # {}
        /\ k - 1 \in Nat /\ (k - 1) + 1 = k
    OBVIOUS
  <2>2. Max(1..k) = k
    <3>1. 1..k \in SUBSET Int /\ k \in 1..k /\ \A y \in 1..k : k >= y
      OBVIOUS
    <3> QED
      BY <3>1, MaxIs
  <2>3. (1..k) \ {k} = 1..(k - 1)
    OBVIOUS
  <2> QED
    BY <1>1, <2>1, <2>2, <2>3
<1> QED
  BY <1>2, <1>3

\* The sum over a prefix is the same whatever follows it.
LEMMA SumsAgree ==
  ASSUME NEW s, NEW t, NEW m \in Nat, NEW n \in Nat, NEW k \in Nat, k <= m, k <= n,
         NEW g, Sums(g, s, m), NEW h, Sums(h, t, n),
         \A i \in 1..k : s[i] = t[i]
  PROVE  g[1..k] = h[1..k]
<1> DEFINE Bad == {i \in 0..k : g[1..i] # h[1..i]}
<1>1. /\ g[1..0] = 0 /\ h[1..0] = 0
      /\ \A i \in 1..k : g[1..i] = g[1..(i - 1)] * Base + (s[i] - Zero)
      /\ \A i \in 1..k : h[1..i] = h[1..(i - 1)] * Base + (t[i] - Zero)
  <2>1. g[1..0] = 0 /\ \A i \in 1..m : g[1..i] = g[1..(i - 1)] * Base + (s[i] - Zero)
    BY SumsPrefix
  <2>2. h[1..0] = 0 /\ \A i \in 1..n : h[1..i] = h[1..(i - 1)] * Base + (t[i] - Zero)
    BY SumsPrefix
  <2>3. 1..k \in SUBSET (1..m) /\ 1..k \in SUBSET (1..n)
    OBVIOUS
  <2> QED
    BY <2>1, <2>2, <2>3
<1>2. ASSUME NEW i \in Bad, \A j \in Bad : i <= j
      PROVE  FALSE
  <2>1. i # 0
    BY <1>1
  <2>2. i \in 1..k /\ i - 1 \in 0..k /\ i - 1 \notin Bad
    BY <1>2, <2>1
  <2>3. g[1..(i - 1)] = h[1..(i - 1)] /\ g[1..i] # h[1..i]
    BY <2>2
  <2> HIDE DEF Bad
  <2> QED
    BY <1>1, <2>2, <2>3
<1>3. Bad = {}
  <2> HIDE DEF Bad
  <2>1. Bad \in SUBSET Nat
    BY DEF Bad
  <2> QED
    BY <1>2, <2>1, LeastNumber
<1> QED
  BY <1>3

Figures == Zero..(Zero + Base - 1)

\* The value of digits, from left to right.
LEMMA ValueOfNone == Value(<<>>) = 0
<1>1. DOMAIN << >> = 1..0
  OBVIOUS
<1>2. PICK g : Sums(g, <<>>, 0)
  BY SumsExist
<1>3. Sums(CHOOSE f : Sums(f, <<>>, 0), <<>>, 0)
  BY <1>2
<1> QED
  BY <1>1, <1>3, ValueSums, SumsPrefix

LEMMA ValueOfMore ==
  ASSUME NEW s \in Seq(Figures), NEW x \in Figures
  PROVE  Value(Append(s, x)) = Value(s) * Base + (x - Zero)
<1> DEFINE n == Len(s)
           t == Append(s, x)
           g == CHOOSE f : Sums(f, s, n)
           h == CHOOSE f : Sums(f, t, n + 1)
<1>1. /\ n \in Nat /\ DOMAIN s = 1..n /\ DOMAIN t = 1..(n + 1) /\ t[n + 1] = x
      /\ \A i \in 1..n : s[i] = t[i]
  BY LenProperties, AppendProperties
<1> HIDE DEF n, t
<1>2. Sums(g, s, n) /\ Sums(h, t, n + 1)
  <2>1. n \in Nat /\ n + 1 \in Nat
    BY <1>1
  <2>2. (\E f : Sums(f, s, n)) /\ \E f : Sums(f, t, n + 1)
    BY <2>1, SumsExist
  <2> QED
    BY <2>2
<1>3. Value(s) = g[1..n] /\ Value(t) = h[1..(n + 1)]
  BY <1>1, ValueSums
<1> HIDE DEF g, h
<1>4. g[1..n] = h[1..n]
  <2>1. n \in Nat /\ n + 1 \in Nat /\ n <= n /\ n <= n + 1
    BY <1>1
  <2>2. \A i \in 1..n : s[i] = t[i]
    BY <1>1
  <2> QED
    BY <1>2, <2>1, <2>2, SumsAgree
<1>5. h[1..(n + 1)] = h[1..n] * Base + (t[n + 1] - Zero)
  <2>1. n + 1 \in 1..(n + 1) /\ (n + 1) - 1 = n /\ n + 1 \in Nat
    BY <1>1
  <2> QED
    BY <1>2, <2>1, SumsPrefix
<1> QED
  BY <1>1, <1>3, <1>4, <1>5 DEF t

LEMMA ValueIsNat ==
  ASSUME NEW s \in Seq(Figures)
  PROVE  Value(s) \in Nat
<1> DEFINE n == Len(s)
           g == CHOOSE f : Sums(f, s, n)
           Bad == {i \in 0..n : g[1..i] \notin Nat}
<1>1. n \in Nat /\ DOMAIN s = 1..n /\ \A i \in 1..n : s[i] \in Figures
  BY LenProperties, ElementOfSeq
<1>2. Sums(g, s, n)
  BY <1>1, SumsExist
<1>3. Value(s) = g[1..n]
  BY <1>1, ValueSums
<1> HIDE DEF g, n
<1>4. /\ g[1..0] = 0
      /\ \A k \in 1..n : g[1..k] = g[1..(k - 1)] * Base + (s[k] - Zero)
  BY <1>1, <1>2, SumsPrefix
<1>5. ASSUME NEW i \in Bad, \A j \in Bad : i <= j
      PROVE  FALSE
  <2>1. i \in 1..n /\ i - 1 \in 0..n /\ i - 1 \notin Bad
    BY <1>1, <1>4, <1>5
  <2>2. g[1..(i - 1)] \in Nat /\ g[1..i] \notin Nat
    BY <2>1
  <2>3. s[i] - Zero \in Nat /\ Base \in Nat
    BY <1>1, <2>1, CodecAssumption DEF Figures, Zero
  <2>4. g[1..(i - 1)] * Base \in Nat
    BY <2>2, <2>3
  <2> QED
    BY <1>4, <2>1, <2>2, <2>3, <2>4
<1>6. Bad = {}
  <2> HIDE DEF Bad
  <2>1. Bad \in SUBSET Nat
    BY <1>1 DEF Bad
  <2> QED
    BY <1>5, <2>1, LeastNumber
<1> QED
  BY <1>1, <1>3, <1>6

-----------------------------------------------------------------------------
(* Powers of two: 2^n counts the subsets of 1..n.                           *)

LEMMA PowerCounts ==
  ASSUME NEW n \in Nat
  PROVE  IsFiniteSet(SUBSET (1..n)) /\ Cardinality(SUBSET (1..n)) = 2^n
<1>1. IsFiniteSet(1..n) /\ Cardinality(1..n) = n
  BY FS_Interval
<1> QED
  BY <1>1, FS_SUBSET

LEMMA PowerGrows ==
  ASSUME NEW m \in Nat, NEW n \in Nat, m <= n
  PROVE  2^m \in Nat \ {0} /\ 2^n \in Nat /\ 2^m <= 2^n
<1>1. SUBSET (1..m) \in SUBSET (SUBSET (1..n)) /\ {} \in SUBSET (1..m)
  OBVIOUS
<1>2. 2^m <= 2^n
  <2>1. /\ IsFiniteSet(SUBSET (1..n)) /\ Cardinality(SUBSET (1..n)) = 2^n
        /\ Cardinality(SUBSET (1..m)) = 2^m
    BY PowerCounts
  <2>2. Cardinality(SUBSET (1..m)) <= Cardinality(SUBSET (1..n))
    BY <1>1, <2>1, FS_Subset, Zenon
  <2> QED
    BY <2>1, <2>2
<1>3. 2^m \in Nat /\ 2^n \in Nat
  BY PowerCounts, FS_CardinalityType
<1>4. 2^m # 0
  <2>1. IsFiniteSet(SUBSET (1..m)) /\ Cardinality(SUBSET (1..m)) = 2^m
    BY PowerCounts
  <2>2. SUBSET (1..m) # {}
    BY <1>1
  <2> HIDE <1>1
  <2> QED
    BY <2>1, <2>2, FS_EmptySet
<1> QED
  BY <1>2, <1>3, <1>4

LEMMA PowerDoubles ==
  ASSUME NEW n \in Nat
  PROVE  2^(n + 1) = 2 * 2^n
<1> DEFINE S == SUBSET (1..n)
           T == {P \cup {n + 1} : P \in S}
           f == [P \in S |-> P \cup {n + 1}]
<1>1. n + 1 \notin 1..n
  OBVIOUS
<1>2. SUBSET (1..(n + 1)) = S \cup T
  <2>1. ASSUME NEW P \in SUBSET (1..(n + 1)) PROVE P \in S \cup T
    <3>1. CASE n + 1 \in P
      <4>1. P \ {n + 1} \in S /\ P = (P \ {n + 1}) \cup {n + 1}
        BY <3>1
      <4> QED
        BY <4>1
    <3>2. CASE n + 1 \notin P
      BY <3>2
    <3> QED
      BY <3>1, <3>2
  <2>2. ASSUME NEW P \in S \cup T PROVE P \in SUBSET (1..(n + 1))
    OBVIOUS
  <2> QED
    BY <2>1, <2>2
<1>3. S \cap T = {}
  BY <1>1
<1>4. f \in Bijection(S, T)
  <2>1. ASSUME NEW P \in S, NEW Q \in S, P \cup {n + 1} = Q \cup {n + 1}
        PROVE  P = Q
    BY <1>1, <2>1
  <2>2. f \in [S -> T] /\ \A Q \in T : \E P \in S : f[P] = Q
    OBVIOUS
  <2>3. \A P, Q \in S : f[P] = f[Q] => P = Q
    BY <2>1
  <2> HIDE DEF S, T, f
  <2> QED
    BY <2>2, <2>3 DEF Bijection, Injection, Surjection, IsInjective
<1>5. IsFiniteSet(S) /\ Cardinality(S) = 2^n /\ Cardinality(S) \in Nat
  BY PowerCounts, FS_CardinalityType
<1>6. n + 1 \in Nat /\ Cardinality(SUBSET (1..(n + 1))) = 2^(n + 1)
  BY PowerCounts
<1> HIDE DEF S, T, f
<1>7. IsFiniteSet(T) /\ Cardinality(T) = 2^n
  BY <1>4, <1>5, FS_Bijection DEF ExistsBijection
<1>8. Cardinality(S \cup T) = 2^n + 2^n
  <2>1. Cardinality({}) = 0
    BY FS_EmptySet
  <2>2. Cardinality(S \cup T) = Cardinality(S) + Cardinality(T) - Cardinality(S \cap T)
    BY <1>5, <1>7, FS_Union
  <2> QED
    BY <1>3, <1>5, <1>7, <2>1, <2>2
<1>9. 2^(n + 1) = 2^n + 2^n
  BY <1>2, <1>6, <1>8
<1> QED
  BY <1>5, <1>9

\* The ranges of int and long.
LEMMA Widths ==
  /\ MaxInt \in Nat /\ MaxLong \in Nat /\ MaxInt <= MaxLong
  /\ 2^IntBits = 2 * (MaxInt + 1)
<1>1. IntBits - 1 \in Nat /\ LongBits - 1 \in Nat /\ IntBits - 1 <= LongBits - 1
  BY CodecAssumption
<1> DEFINE i == IntBits - 1
           l == LongBits - 1
<1>2. IntBits = i + 1
  BY CodecAssumption
<1> HIDE DEF i
<1>3. 2^i \in Nat \ {0} /\ 2^l \in Nat \ {0} /\ 2^i <= 2^l /\ 2^(i + 1) = 2 * 2^i
  BY <1>1, PowerGrows, PowerDoubles DEF i, l
<1> QED
  BY <1>2, <1>3 DEF MaxInt, MaxLong, i

-----------------------------------------------------------------------------
(* The digits of a number.                                                  *)

\* d is Digits on the numbers up to k.
Writes(d, k) ==
  d = [n \in 0..k |-> IF n < Base THEN <<Zero + n>>
                      ELSE Append(d[n \div Base], Zero + (n % Base))]

\* A number of more than one digit is larger than what its last digit leaves.
LEMMA Quotient ==
  ASSUME NEW n \in Nat, n >= Base
  PROVE  /\ n \div Base \in 0..(n - 1) /\ n % Base \in 0..(Base - 1)
         /\ n = (n \div Base) * Base + (n % Base)
<1>0. Base \in Nat /\ Base > 1
  BY CodecAssumption
<1>1. n \div Base \in Nat /\ n % Base \in 0..(Base - 1)
  BY <1>0
<1>2. n = (n \div Base) * Base + (n % Base)
  BY <1>0
<1>3. n \div Base < n
  BY <1>0
<1> QED
  BY <1>1, <1>2, <1>3

LEMMA WritesExist ==
  ASSUME NEW m \in Nat
  PROVE  \E d : Writes(d, m)
<1> DEFINE Bad == {k \in 0..m : ~\E d : Writes(d, k)}
<1>0. Base \in Nat /\ Base > 1
  BY CodecAssumption
<1>1. ASSUME NEW k \in Nat, NEW d, Writes(d, k)
      PROVE  \E e : Writes(e, k + 1)
  <2> DEFINE last == IF k + 1 < Base THEN <<Zero + (k + 1)>>
                     ELSE Append(d[(k + 1) \div Base], Zero + ((k + 1) % Base))
             e == [n \in 0..(k + 1) |-> IF n <= k THEN d[n] ELSE last]
             Right(n) == IF n < Base THEN <<Zero + n>>
                         ELSE Append(e[n \div Base], Zero + (n % Base))
  <2>1. \A n \in 0..k : n \in 0..(k + 1) /\ e[n] = d[n]
    OBVIOUS
  <2>2. e[k + 1] = last
    OBVIOUS
  <2>3. \A n \in 0..(k + 1) : n >= Base => n \div Base \in 0..k
    BY Quotient
  <2>4. ASSUME NEW n \in 0..(k + 1)
        PROVE  e[n] = Right(n)
    <3>1. CASE n = k + 1
      <4> HIDE DEF e
      <4>1. n >= Base => e[n \div Base] = d[n \div Base]
        BY <2>1, <2>3
      <4> QED
        BY <1>0, <2>2, <3>1, <4>1
    <3>2. CASE n # k + 1
      <4> HIDE DEF e
      <4>1. n \in 0..k
        BY <3>2
      <4>2. d[n] = IF n < Base THEN <<Zero + n>>
                   ELSE Append(d[n \div Base], Zero + (n % Base))
        BY <1>1, <4>1 DEF Writes
      <4>3. n >= Base => e[n \div Base] = d[n \div Base]
        BY <2>1, <2>3
      <4> QED
        BY <1>0, <2>1, <4>1, <4>2, <4>3
    <3> QED
      BY <3>1, <3>2
  <2>5. e = [n \in 0..(k + 1) |-> Right(n)]
    <3> HIDE DEF Right
    <3> QED
      BY <2>4
  <2>6. Writes(e, k + 1)
    <3> HIDE DEF e
    <3> QED
      BY <2>5 DEF Writes
  <2> QED
    BY <2>6
<1>2. Writes([n \in 0..0 |-> <<Zero + n>>], 0)
  BY <1>0 DEF Writes
<1>3. ASSUME NEW k \in Bad, \A j \in Bad : k <= j
      PROVE  FALSE
  <2>1. k # 0
    BY <1>2
  <2>2. k - 1 \in 0..m /\ k - 1 \notin Bad /\ k - 1 \in Nat /\ (k - 1) + 1 = k
    BY <1>3, <2>1
  <2>3. PICK d : Writes(d, k - 1)
    BY <2>2
  <2> QED
    BY <1>1, <2>2, <2>3
<1>4. Bad = {}
  <2> HIDE DEF Bad
  <2>1. Bad \in SUBSET Nat
    BY DEF Bad
  <2> QED
    BY <1>3, <2>1, LeastNumber
<1> QED
  BY <1>4

LEMMA DigitsWrite ==
  ASSUME NEW n \in 0..(MaxInt + 1)
  PROVE  /\ n < Base => Digits[n] = <<Zero + n>>
         /\ ~(n < Base) => Digits[n] = Append(Digits[n \div Base], Zero + (n % Base))
<1>1. MaxInt + 1 \in Nat
  BY Widths
<1>2. Digits = CHOOSE d : Writes(d, MaxInt + 1)
  BY DEF Digits, Writes
<1>3. Writes(Digits, MaxInt + 1)
  BY <1>1, <1>2, WritesExist
<1>4. Digits[n] = IF n < Base THEN <<Zero + n>>
                  ELSE Append(Digits[n \div Base], Zero + (n % Base))
  BY <1>3 DEF Writes
<1> QED
  BY <1>4

\* The digits of a number are figures, and their value is the number.
LEMMA DigitsValue ==
  ASSUME NEW n \in 0..(MaxInt + 1)
  PROVE  /\ Digits[n] \in Seq(Figures) /\ Digits[n] # <<>>
         /\ Value(Digits[n]) = n
<1> DEFINE Good(k) == /\ Digits[k] \in Seq(Figures) /\ Digits[k] # <<>>
                      /\ Value(Digits[k]) = k
           Bad == {k \in 0..(MaxInt + 1) : ~Good(k)}
<1>0. MaxInt \in Nat /\ Base \in Nat /\ Base > 1
  BY Widths, CodecAssumption
<1>1. ASSUME NEW k \in 0..(MaxInt + 1), k < Base
      PROVE  Good(k)
  <2>1. Digits[k] = <<Zero + k>> /\ Zero + k \in Figures
    <3>1. Digits[k] = <<Zero + k>>
      BY <1>1, DigitsWrite
    <3>2. Zero + k \in Figures
      BY <1>0, <1>1 DEF Figures, Zero
    <3> QED
      BY <3>1, <3>2
  <2>2. <<Zero + k>> = Append(<<>>, Zero + k) /\ <<>> \in Seq(Figures)
    OBVIOUS
  <2>3. PICK x \in Figures : x = Zero + k
    BY <2>1
  <2>4. Value(Append(<<>>, x)) = Value(<<>>) * Base + (x - Zero)
    BY <2>2, ValueOfMore
  <2>5. Value(Digits[k]) = 0 * Base + (x - Zero)
    BY <2>1, <2>2, <2>3, <2>4, ValueOfNone
  <2>6. Value(Digits[k]) = k
    BY <1>0, <2>3, <2>5 DEF Zero
  <2>7. Digits[k] \in Seq(Figures) /\ Digits[k] # <<>>
    BY <2>1
  <2> QED
    BY <2>6, <2>7
<1>2. ASSUME NEW k \in Bad, \A j \in Bad : k <= j
      PROVE  FALSE
  <2>1. k \in 0..(MaxInt + 1) /\ k >= Base /\ ~Good(k) /\ k \in Nat
    BY <1>0, <1>1
  <2> HIDE DEF Good
  <2>2. /\ k \div Base \in 0..(k - 1) /\ k % Base \in 0..(Base - 1)
        /\ k = (k \div Base) * Base + (k % Base)
    BY <2>1, Quotient
  <2>3. Good(k \div Base)
    <3>1. k \div Base \in 0..(MaxInt + 1) /\ ~(k <= k \div Base)
      BY <1>0, <2>1, <2>2
    <3> QED
      BY <1>2, <3>1
  <2>4. Digits[k] = Append(Digits[k \div Base], Zero + (k % Base))
    <3>1. k \in 0..(MaxInt + 1) /\ ~(k < Base)
      BY <1>0, <2>1
    <3> QED
      BY <3>1, DigitsWrite
  <2>5. Zero + (k % Base) \in Figures
    BY <1>0, <2>2 DEF Figures, Zero
  <2>6. PICK x \in Figures : x = Zero + (k % Base)
    BY <2>5
  <2>7. Value(Digits[k]) = k
    <3>1. Digits[k \div Base] \in Seq(Figures) /\ Value(Digits[k \div Base]) = k \div Base
      BY <2>3 DEF Good
    <3>2. Value(Append(Digits[k \div Base], x)) = Value(Digits[k \div Base]) * Base + (x - Zero)
      BY <3>1, ValueOfMore
    <3>3. Value(Digits[k]) = (k \div Base) * Base + (x - Zero)
      BY <2>4, <2>6, <3>1, <3>2
    <3> QED
      BY <1>0, <2>2, <2>6, <3>3 DEF Zero
  <2>8. Digits[k] \in Seq(Figures) /\ Digits[k] # <<>>
    BY <2>3, <2>4, <2>5, AppendProperties DEF Good
  <2> QED
    BY <2>1, <2>7, <2>8 DEF Good
<1>3. Bad = {}
  <2> HIDE DEF Bad
  <2>1. Bad \in SUBSET Nat
    BY <1>0 DEF Bad
  <2> QED
    BY <1>2, <2>1, LeastNumber
<1> QED
  BY <1>3

-----------------------------------------------------------------------------
(* The way back: strtol, and the cast to int.                               *)

\* What SelectInSeq returns: the first position that passes the test, or 0.
FirstOf(I) == IF I # {} THEN Min(I) ELSE 0

LEMMA FirstOfIs ==
  ASSUME NEW I \in SUBSET (Nat \ {0})
  PROVE  IF I = {} THEN FirstOf(I) = 0
         ELSE FirstOf(I) \in I /\ \A k \in I : FirstOf(I) <= k
<1>1. I # {} => \E m \in I : \A k \in I : m <= k
  BY LeastNumber
<1>2. I # {} => Min(I) \in I /\ \A k \in I : Min(I) <= k
  BY <1>1 DEF Min
<1> QED
  BY <1>2 DEF FirstOf

LEMMA FirstOfUnique ==
  ASSUME NEW I \in SUBSET (Nat \ {0}), NEW m \in I, \A k \in I : m <= k
  PROVE  FirstOf(I) = m
<1>1. FirstOf(I) \in I /\ \A k \in I : FirstOf(I) <= k
  BY FirstOfIs
<1>2. m \in Nat /\ FirstOf(I) \in Nat /\ m <= FirstOf(I) /\ FirstOf(I) <= m
  BY <1>1
<1> QED
  BY <1>2

\* The parts of a number as strtol sees it.
Sign(s) == IF s # <<>> /\ s[1] = Minus THEN -1 ELSE 1
Body(s) == IF s # <<>> /\ s[1] \in {Minus, Plus} THEN Tail(s) ELSE s
Ends(s) == {i \in 1..Len(s) : ~IsDigit(s[i])}
Stem(s) == IF FirstOf(Ends(s)) = 0 THEN s ELSE SubSeq(s, 1, FirstOf(Ends(s)) - 1)
Clipped(v) == CASE v > MaxLong      -> MaxLong
                [] v < -MaxLong - 1 -> -MaxLong - 1
                [] OTHER            -> v

LEMMA StrtolParts ==
  ASSUME NEW s
  PROVE  Strtol(s) = Clipped(Sign(Trim(s)) * Value(Stem(Body(Trim(s)))))
BY DEF Strtol, Clipped, Sign, Value, Stem, Body, Ends, FirstOf, SelectInSeq

\* Where the text goes on after its blanks.
Solid(s) == {i \in 1..Len(s) : s[i] \notin Blanks}

LEMMA TrimIs ==
  ASSUME NEW s \in Seq(Int)
  PROVE  /\ Trim(s) \in Seq(Int)
         /\ Trim(s) = IF Solid(s) = {} THEN <<>> ELSE SubSeq(s, FirstOf(Solid(s)), Len(s))
         /\ Solid(s) # {} => /\ FirstOf(Solid(s)) \in Solid(s)
                             /\ \A k \in Solid(s) : FirstOf(Solid(s)) <= k
<1> DEFINE I == Solid(s)
           k == FirstOf(I)
<1>1. Len(s) \in Nat /\ \A i \in 1..Len(s) : s[i] \in Int
  BY LenProperties, ElementOfSeq
<1>2. I \in SUBSET (1..Len(s)) /\ I \in SUBSET (Nat \ {0})
  BY <1>1 DEF Solid
<1>3. Trim(s) = IF k = 0 THEN <<>> ELSE SubSeq(s, k, Len(s))
  BY DEF Trim, SelectInSeq, FirstOf, Solid
<1> HIDE DEF I
<1>4. IF I = {} THEN k = 0 ELSE k \in I /\ \A j \in I : k <= j
  BY <1>2, FirstOfIs
<1> HIDE DEF k
<1>5. CASE I = {}
  BY <1>3, <1>4, <1>5, EmptySeq DEF I, k
<1>6. CASE I # {}
  <2>1. k \in 1..Len(s) /\ k # 0
    BY <1>2, <1>4, <1>6
  <2>2. SubSeq(s, k, Len(s)) \in Seq(Int)
    BY <1>1, <2>1, SubSeqProperties
  <2> QED
    BY <1>3, <1>4, <1>6, <2>1, <2>2 DEF I, k
<1> QED
  BY <1>5, <1>6

\* Nothing is skipped of a text that begins with none of the blanks.
LEMMA TrimNothing ==
  ASSUME NEW s \in Seq(Int), s # <<>>, s[1] \notin Blanks
  PROVE  Trim(s) = s
<1>1. Len(s) \in Nat \ {0}
  BY LenProperties, EmptySeq
<1>2. 1 \in Solid(s) /\ Solid(s) \subseteq 1..Len(s)
  BY <1>1 DEF Solid
<1>3. Solid(s) \in SUBSET (Nat \ {0}) /\ \A k \in Solid(s) : 1 <= k
  BY <1>1, <1>2
<1>4. FirstOf(Solid(s)) = 1
  BY <1>2, <1>3, FirstOfUnique
<1>5. Trim(s) = IF Solid(s) = {} THEN <<>> ELSE SubSeq(s, FirstOf(Solid(s)), Len(s))
  BY TrimIs
<1>6. Trim(s) = SubSeq(s, 1, Len(s))
  BY <1>2, <1>4, <1>5
<1> QED
  BY <1>6, SubSeqFull

\* The stem is all digits.
LEMMA StemIsFigures ==
  ASSUME NEW s \in Seq(Int)
  PROVE  Stem(s) \in Seq(Figures)
<1> DEFINE k == FirstOf(Ends(s))
           n == Len(s)
<1>1. n \in Nat /\ \A i \in 1..n : s[i] \in Int
  BY LenProperties, ElementOfSeq
<1>2. Ends(s) \in SUBSET (Nat \ {0}) /\ Ends(s) \subseteq 1..n
  BY <1>1 DEF Ends
<1>3. \A i \in (1..n) \ Ends(s) : s[i] \in Figures
  BY DEF Ends, IsDigit, Figures
<1>4. CASE k = 0
  <2>1. \A i \in 1..n : s[i] \in Figures
    BY <1>2, <1>3, <1>4, FirstOfIs
  <2>2. s \in Seq(Figures)
    BY <1>1, <2>1
  <2> QED
    BY <1>4, <2>2 DEF Stem
<1>5. CASE k # 0
  <2>1. k \in 1..n /\ \A i \in Ends(s) : k <= i
    BY <1>2, <1>5, FirstOfIs
  <2>2. \A i \in 1..(k - 1) : s[i] \in Figures
    BY <1>1, <1>3, <2>1
  <2>3. SubSeq(s, 1, k - 1) \in Seq(Figures)
    BY <1>1, <2>1, <2>2, SubSeqProperties
  <2> QED
    BY <1>5, <2>3 DEF Stem
<1> QED
  BY <1>4, <1>5

LEMMA BodyIsText ==
  ASSUME NEW s \in Seq(Int)
  PROVE  Body(s) \in Seq(Int)
BY HeadTailProperties DEF Body

LEMMA StemOfFigures ==
  ASSUME NEW s \in Seq(Figures)
  PROVE  Stem(s) = s
<1>1. \A i \in 1..Len(s) : s[i] \in Figures
  BY ElementOfSeq
<1>2. Ends(s) = {}
  BY <1>1 DEF Ends, IsDigit, Figures
<1> QED
  BY <1>2 DEF Stem, FirstOf

\* Whatever its text, a number is an int.
LEMMA Str2NumIsInt ==
  ASSUME NEW s \in Seq(Int)
  PROVE  Strtol(s) \in Int /\ Str2Num(s) \in Ints
<1>1. Value(Stem(Body(Trim(s)))) \in Nat
  BY TrimIs, BodyIsText, StemIsFigures, ValueIsNat
<1>2. Sign(Trim(s)) * Value(Stem(Body(Trim(s)))) \in Int
  BY <1>1 DEF Sign
<1>3. MaxInt \in Nat /\ MaxLong \in Nat /\ 2^IntBits = 2 * (MaxInt + 1)
  BY Widths
<1>4. Strtol(s) \in Int
  BY <1>2, <1>3, StrtolParts DEF Clipped
<1> DEFINE w == 2^IntBits
           v == Strtol(s) + MaxInt + 1
<1>5. v \in Int /\ w \in Nat /\ w > 0 /\ w = 2 * (MaxInt + 1)
  BY <1>3, <1>4
<1>6. Str2Num(s) = (v % w) - (MaxInt + 1)
  BY DEF Str2Num
<1> HIDE DEF v, w
<1>7. v % w \in 0..(w - 1)
  BY <1>5
<1> QED
  BY <1>3, <1>4, <1>5, <1>6, <1>7 DEF Ints

\* A number that is written, read and cast is the number.
LEMMA Num2StrText ==
  ASSUME NEW n \in Ints
  PROVE  Num2Str(n) \in Seq(Int) /\ Num2Str(n) # <<>>
<1>0. MaxInt \in Nat /\ Figures \subseteq Int
  BY Widths, CodecAssumption DEF Figures, Zero
<1>1. CASE n < 0
  <2>1. Digits[-n] \in Seq(Figures)
    BY <1>0, <1>1, DigitsValue DEF Ints
  <2>2. Digits[-n] \in Seq(Int) /\ <<Minus>> \in Seq(Int)
    <3>1. Digits[-n] \in Seq(Int)
      BY <1>0, <2>1, SeqMonotonic
    <3>2. <<Minus>> \in Seq(Int)
      BY DEF Minus
    <3> QED
      BY <3>1, <3>2
  <2>3. Num2Str(n) = <<Minus>> \o Digits[-n]
    BY <1>1 DEF Num2Str
  <2> QED
    BY <2>2, <2>3, ConcatProperties
<1>2. CASE ~(n < 0)
  <2>1. Digits[n] \in Seq(Figures) /\ Digits[n] # <<>>
    BY <1>0, <1>2, DigitsValue DEF Ints
  <2>2. Num2Str(n) = Digits[n]
    BY <1>2 DEF Num2Str
  <2> QED
    BY <1>0, <2>1, <2>2, SeqMonotonic
<1> QED
  BY <1>1, <1>2

LEMMA StrtolOfInt ==
  ASSUME NEW n \in Ints
  PROVE  Strtol(Num2Str(n)) = n
<1> DEFINE s == Num2Str(n)
<1>0. /\ MaxInt \in Nat /\ MaxLong \in Nat /\ MaxInt <= MaxLong /\ Figures \subseteq Int
      /\ n \in Int /\ n <= MaxInt /\ -n <= MaxInt + 1
  BY Widths, CodecAssumption DEF Figures, Zero, Ints
<1>1. CASE n < 0
  <2>1. /\ Digits[-n] \in Seq(Figures) /\ Digits[-n] # <<>> /\ Value(Digits[-n]) = -n
    BY <1>0, <1>1, DigitsValue
  <2>2. s = <<Minus>> \o Digits[-n]
    BY <1>1 DEF Num2Str
  <2>3. s # <<>> /\ s[1] = Minus /\ Tail(s) = Digits[-n]
    BY <1>0, <2>1, <2>2, SeqMonotonic
  <2>4. Sign(s) = -1 /\ Stem(Body(s)) = Digits[-n]
    BY <2>1, <2>3, StemOfFigures DEF Sign, Body
  <2>5. Strtol(s) = Clipped(Sign(s) * Value(Stem(Body(s))))
    <3>1. s \in Seq(Int) /\ s[1] \notin Blanks
      BY <2>3, Num2StrText DEF Minus, Blanks
    <3> QED
      BY <2>3, <3>1, TrimNothing, StrtolParts
  <2>6. Sign(s) * Value(Stem(Body(s))) = n
    BY <1>0, <2>1, <2>4
  <2> QED
    BY <1>0, <1>1, <2>5, <2>6 DEF Clipped
<1>2. CASE ~(n < 0)
  <2>1. /\ Digits[n] \in Seq(Figures) /\ Digits[n] # <<>> /\ Value(Digits[n]) = n
    BY <1>0, <1>2, DigitsValue
  <2>2. s = Digits[n]
    BY <1>2 DEF Num2Str
  <2>3. s[1] \in Figures
    BY <2>1, <2>2
  <2>4. s[1] \notin {Minus, Plus}
    BY <2>3, CodecAssumption DEF Figures, Zero, Minus, Plus
  <2>5. Sign(s) = 1 /\ Stem(Body(s)) = Digits[n]
    BY <2>1, <2>2, <2>4, StemOfFigures DEF Sign, Body
  <2>6. Strtol(s) = Clipped(1 * n)
    <3>1. s \in Seq(Int) /\ s # <<>> /\ s[1] \notin Blanks
      BY <2>3, Num2StrText, CodecAssumption DEF Figures, Zero, Blanks
    <3>2. Trim(s) = s
      BY <3>1, TrimNothing
    <3> QED
      BY <2>1, <2>5, <3>2, StrtolParts
  <2> QED
    BY <1>0, <1>2, <2>6 DEF Clipped
<1> QED
  BY <1>1, <1>2

LEMMA Str2NumOfInt ==
  ASSUME NEW n \in Ints
  PROVE  Str2Num(Num2Str(n)) = n
<1>1. MaxInt \in Nat /\ 2^IntBits = 2 * (MaxInt + 1)
  BY Widths
<1> DEFINE w == 2^IntBits
           v == n + MaxInt + 1
<1>2. Str2Num(Num2Str(n)) = (v % w) - (MaxInt + 1)
  BY StrtolOfInt DEF Str2Num
<1>3. v \in Nat /\ w \in Nat /\ v < w
  BY <1>1 DEF Ints
<1> HIDE DEF w
<1>4. v % w = v
  <2> HIDE DEF v
  <2> QED
    BY <1>3
<1> QED
  BY <1>1, <1>2, <1>4 DEF Ints

-----------------------------------------------------------------------------
(* Padding, and what is left of it.                                         *)

LEMMA StartOf ==
  ASSUME NEW b \in Seq(Int), NEW t \in Seq(Int), NEW k \in 0..Len(b)
  PROVE  SubSeq(b \o t, 1, k) = SubSeq(b, 1, k)
<1>1. /\ b \o t \in Seq(Int) /\ Len(b) \in Nat /\ Len(t) \in Nat
      /\ \A i \in 1..(Len(b) + Len(t)) : (b \o t)[i] = IF i <= Len(b) THEN b[i] ELSE t[i - Len(b)]
  BY ConcatProperties, LenProperties
<1>2. \A i \in 1..k : (b \o t)[i] = b[i] /\ b[i] \in Int
  BY <1>1, ElementOfSeq
<1>3. /\ SubSeq(b, 1, k) \in Seq(Int) /\ Len(SubSeq(b, 1, k)) = k
      /\ \A i \in 1..k : SubSeq(b, 1, k)[i] = b[i]
  BY <1>1, <1>2, SubSeqProperties
<1>4. /\ SubSeq(b \o t, 1, k) \in Seq(Int) /\ Len(SubSeq(b \o t, 1, k)) = k
      /\ \A i \in 1..k : SubSeq(b \o t, 1, k)[i] = (b \o t)[i]
  BY <1>1, <1>2, SubSeqProperties
<1> QED
  BY <1>2, <1>3, <1>4, SeqEqual

\* The rest of a text with another behind it.
LEMMA SliceBefore ==
  ASSUME NEW b \in Seq(Int), NEW t \in Seq(Int), NEW k \in 1..(Len(b) + 1)
  PROVE  SubSeq(b \o t, k, Len(b) + Len(t)) = SubSeq(b, k, Len(b)) \o t
<1> DEFINE n == Len(b)
           m == Len(t)
           left == SubSeq(b \o t, k, n + m)
           right == SubSeq(b, k, n) \o t
<1>1. /\ b \o t \in Seq(Int) /\ n \in Nat /\ m \in Nat /\ Len(b \o t) = n + m
      /\ \A i \in 1..(n + m) : (b \o t)[i] = IF i <= n THEN b[i] ELSE t[i - n]
  BY ConcatProperties, LenProperties
<1>2. /\ \A i \in k..n : b[i] \in Int
      /\ \A i \in k..(n + m) : (b \o t)[i] \in Int
  BY <1>1, ElementOfSeq
<1> HIDE DEF n, m
<1>k. k \in 1..(n + 1)
  BY DEF n
<1>3. /\ SubSeq(b, k, n) \in Seq(Int) /\ Len(SubSeq(b, k, n)) = n - k + 1
      /\ \A i \in 1..(n - k + 1) : SubSeq(b, k, n)[i] = b[k + i - 1]
  BY <1>1, <1>2, <1>k, SubSeqProperties
<1>4. /\ left \in Seq(Int) /\ Len(left) = n + m - k + 1
      /\ \A i \in 1..(n + m - k + 1) : left[i] = (b \o t)[k + i - 1]
  BY <1>1, <1>2, <1>k, SubSeqProperties
<1>5. /\ right \in Seq(Int) /\ Len(right) = (n - k + 1) + m
      /\ \A i \in 1..((n - k + 1) + m) :
           right[i] = IF i <= n - k + 1 THEN SubSeq(b, k, n)[i] ELSE t[i - (n - k + 1)]
  BY <1>3, ConcatProperties DEF m
<1> HIDE DEF left, right
<1>6. ASSUME NEW i \in 1..Len(left) PROVE left[i] = right[i]
  <2>1. i \in 1..(n + m - k + 1) /\ i \in 1..((n - k + 1) + m) /\ k + i - 1 \in 1..(n + m)
    BY <1>1, <1>k, <1>4
  <2>2. CASE i <= n - k + 1
    <3>1. i \in 1..(n - k + 1) /\ k + i - 1 <= n
      BY <1>1, <1>k, <2>1, <2>2
    <3>2. left[i] = (b \o t)[k + i - 1] /\ right[i] = SubSeq(b, k, n)[i]
      BY <1>4, <1>5, <2>1, <2>2
    <3>3. SubSeq(b, k, n)[i] = b[k + i - 1]
      BY <1>3, <3>1
    <3>4. (b \o t)[k + i - 1] = b[k + i - 1]
      BY <1>1, <2>1, <3>1
    <3> QED
      BY <3>2, <3>3, <3>4
  <2>3. CASE ~(i <= n - k + 1)
    <3>1. ~(k + i - 1 <= n) /\ (k + i - 1) - n = i - (n - k + 1)
      BY <1>1, <1>k, <2>1, <2>3
    <3>2. left[i] = (b \o t)[k + i - 1] /\ right[i] = t[i - (n - k + 1)]
      BY <1>4, <1>5, <2>1, <2>3
    <3>3. (b \o t)[k + i - 1] = t[(k + i - 1) - n]
      BY <1>1, <2>1, <3>1
    <3> QED
      BY <3>1, <3>2, <3>3
  <2> QED
    BY <2>2, <2>3
<1>7. Len(left) = Len(right)
  BY <1>1, <1>k, <1>4, <1>5
<1>8. left = right
  BY <1>4, <1>5, <1>6, <1>7, SeqEqual
<1> QED
  BY <1>8 DEF left, right, n, m

\* strtol stops at a character that is no digit, whatever follows.
LEMMA StemStops ==
  ASSUME NEW b \in Seq(Int), NEW t \in Seq(Int), t # <<>>, ~IsDigit(t[1])
  PROVE  Stem(b \o t) = Stem(b)
<1> DEFINE n == Len(b)
           E == Ends(b)
           F == Ends(b \o t)
<1>1. /\ n \in Nat /\ Len(t) \in Nat /\ Len(t) > 0 /\ Len(b \o t) = n + Len(t)
      /\ \A i \in 1..(n + Len(t)) : (b \o t)[i] = IF i <= n THEN b[i] ELSE t[i - n]
  BY ConcatProperties, LenProperties, EmptySeq
<1>2. E \in SUBSET (1..n) /\ F \in SUBSET (1..(n + Len(t)))
  BY <1>1 DEF Ends
<1>3. \A i \in 1..n : i \in F <=> i \in E
  BY <1>1 DEF Ends
<1>4. n + 1 \in F
  <2>1. n + 1 \in 1..(n + Len(t)) /\ (b \o t)[n + 1] = t[1]
    BY <1>1
  <2> QED
    BY <1>1, <2>1 DEF Ends
<1> HIDE DEF n, E, F
<1>5. E \in SUBSET (Nat \ {0}) /\ F \in SUBSET (Nat \ {0}) /\ F # {}
  BY <1>1, <1>2, <1>4
<1>6. CASE E = {}
  <2>1. \A i \in F : n + 1 <= i
    BY <1>1, <1>2, <1>3, <1>6
  <2>2. FirstOf(F) = n + 1 /\ FirstOf(E) = 0
    BY <1>4, <1>5, <1>6, <2>1, FirstOfIs, FirstOfUnique
  <2>3. Stem(b \o t) = SubSeq(b \o t, 1, n)
    BY <1>1, <2>2 DEF Stem, F
  <2>4. Stem(b) = b
    BY <2>2 DEF Stem, E
  <2> QED
    BY <1>1, <2>3, <2>4, StartOf, SubSeqFull DEF n
<1>7. CASE E # {}
  <2>1. PICK m \in E : FirstOf(E) = m /\ \A k \in E : m <= k
    BY <1>5, <1>7, FirstOfIs
  <2>2. m \in F /\ \A k \in F : m <= k
    BY <1>1, <1>2, <1>3, <2>1
  <2>3. FirstOf(F) = m /\ m # 0
    BY <1>5, <2>2, FirstOfUnique
  <2>4. Stem(b \o t) = SubSeq(b \o t, 1, m - 1)
    BY <2>3 DEF Stem, F
  <2>5. Stem(b) = SubSeq(b, 1, m - 1)
    BY <2>1, <2>3 DEF Stem, E
  <2>6. m - 1 \in 0..Len(b)
    BY <1>1, <1>2, <2>1 DEF n
  <2> QED
    BY <2>4, <2>5, <2>6, StartOf
<1> QED
  BY <1>6, <1>7

LEMMA PaddedText ==
  ASSUME NEW text \in Seq(Int), OneBlock(text)
  PROVE  /\ Len(text) \in 1..BlockSize /\ Padding(text) = BlockSize - Len(text)
         /\ \E pad \in Seq(Int) :
              /\ Padded(text) = text \o pad /\ Len(pad) = Padding(text)
              /\ \A i \in 1..Len(pad) : pad[i] = Padding(text)
<1> DEFINE n == Len(text)
<1>1. n \in 1..BlockSize /\ BlockSize \in Nat
  BY LenProperties, EmptySeq, CodecAssumption DEF OneBlock
<1>2. Padding(text) = BlockSize - n
  <2> HIDE DEF n
  <2>1. CASE n = BlockSize
    <3>1. BlockSize % BlockSize = 0 /\ BlockSize > 0
      BY <1>1, CodecAssumption
    <3> QED
      BY <1>1, <2>1, <3>1 DEF Padding, n
  <2>2. CASE n < BlockSize
    <3>1. n % BlockSize = n /\ (BlockSize - n) % BlockSize = BlockSize - n
      BY <1>1, <2>2
    <3> QED
      BY <3>1 DEF Padding, n
  <2> QED
    BY <1>1, <2>1, <2>2
<1> DEFINE pad == [i \in 1..Padding(text) |-> Padding(text)]
<1>3. /\ pad \in Seq(Int) /\ Len(pad) = Padding(text)
      /\ \A i \in 1..Len(pad) : pad[i] = Padding(text)
  BY <1>1, <1>2
<1>4. Padded(text) = text \o pad
  BY DEF Padded
<1> QED
  BY <1>1, <1>2, <1>3, <1>4

\* Copies of one character behind a text are skipped with it when all of it is blank, and
\* stay behind it when not.
LEMMA TrimBefore ==
  ASSUME NEW b \in Seq(Int), NEW t \in Seq(Int),
         \A i \in 1..Len(t) : t[i] = t[1]
  PROVE  IF Solid(b) = {} THEN Trim(b) = <<>> /\ Trim(b \o t) \in {<<>>, t}
         ELSE Trim(b) # <<>> /\ Trim(b \o t) = Trim(b) \o t
<1> DEFINE n == Len(b)
           m == Len(t)
           S == Solid(b)
           U == Solid(b \o t)
<1>1. /\ n \in Nat /\ m \in Nat /\ b \o t \in Seq(Int) /\ Len(b \o t) = n + m
      /\ \A i \in 1..(n + m) : (b \o t)[i] = IF i <= n THEN b[i] ELSE t[i - n]
  BY ConcatProperties, LenProperties
<1>2. S \in SUBSET (1..n) /\ U \in SUBSET (1..(n + m))
  BY <1>1 DEF Solid
<1>3. /\ \A i \in 1..n : i \in U <=> i \in S
      /\ \A i \in (n + 1)..(n + m) : i \in U <=> t[1] \notin Blanks
  <2>1. \A i \in (n + 1)..(n + m) : i \in 1..(n + m) /\ ~(i <= n) /\ i - n \in 1..m
    BY <1>1
  <2>2. \A i \in 1..n : i \in 1..(n + m) /\ i <= n
    BY <1>1
  <2> QED
    BY <1>1, <2>1, <2>2 DEF Solid
<1>4. Trim(b \o t) = IF U = {} THEN <<>> ELSE SubSeq(b \o t, FirstOf(U), n + m)
  BY <1>1, TrimIs
<1>5. Trim(b) = IF S = {} THEN <<>> ELSE SubSeq(b, FirstOf(S), n)
  BY TrimIs
<1>6. S # {} => FirstOf(S) \in S /\ \A k \in S : FirstOf(S) <= k
  BY TrimIs
<1> HIDE DEF S, U, n, m
<1>7. ASSUME NEW k \in 1..(n + 1), U # {}, FirstOf(U) = k
      PROVE  Trim(b \o t) = SubSeq(b, k, n) \o t
  <2>1. SubSeq(b \o t, k, n + m) = SubSeq(b, k, n) \o t
    BY <1>1, SliceBefore DEF n, m
  <2> QED
    BY <1>4, <1>7, <2>1
<1>8. CASE S = {}
  <2>1. CASE U = {}
    BY <1>4, <1>5, <1>8, <2>1 DEF S
  <2>2. CASE U # {}
    <3>0. U \subseteq (n + 1)..(n + m)
      <4>1. \A i \in U : i \in 1..(n + m) /\ ~(i \in 1..n)
        BY <1>2, <1>3, <1>8
      <4> QED
        BY <1>1, <4>1
    <3>1. n + 1 \in U /\ \A k \in U : n + 1 <= k
      <4>1. PICK j \in U : j \in (n + 1)..(n + m)
        BY <2>2, <3>0
      <4>2. t[1] \notin Blanks
        BY <1>3, <4>1
      <4>3. n + 1 \in (n + 1)..(n + m)
        BY <1>1, <4>1
      <4>4. \A k \in U : n + 1 <= k
        BY <1>1, <3>0
      <4> QED
        BY <1>3, <4>2, <4>3, <4>4
    <3>2. U \in SUBSET (Nat \ {0})
      BY <1>1, <1>2
    <3>3. FirstOf(U) = n + 1
      BY <3>1, <3>2, FirstOfUnique
    <3>4. Trim(b \o t) = SubSeq(b, n + 1, n) \o t
      BY <1>1, <1>7, <2>2, <3>3
    <3>5. SubSeq(b, n + 1, n) = <<>>
      BY <1>1, SubSeqEmpty
    <3>6. <<>> \o t = t
      BY ConcatEmptySeq
    <3> QED
      BY <1>5, <1>8, <3>4, <3>5, <3>6 DEF S
  <2> QED
    BY <2>1, <2>2
<1>9. CASE S # {}
  <2>1. PICK k \in S : FirstOf(S) = k /\ \A j \in S : k <= j
    BY <1>6, <1>9
  <2>2. k \in U /\ \A j \in U : k <= j
    BY <1>1, <1>2, <1>3, <2>1
  <2>3. U \in SUBSET (Nat \ {0}) /\ k \in 1..n
    BY <1>1, <1>2
  <2>4. FirstOf(U) = k
    BY <2>2, <2>3, FirstOfUnique
  <2>5. Trim(b \o t) = SubSeq(b, k, n) \o t
    <3>1. k \in 1..(n + 1) /\ U # {}
      BY <1>1, <2>2, <2>3
    <3> QED
      BY <1>7, <2>4, <3>1
  <2>6. SubSeq(b, k, n) # <<>>
    <3>1. \A i \in k..n : b[i] \in Int
      BY <1>1, <2>3, ElementOfSeq DEF n
    <3>2. /\ SubSeq(b, k, n) \in Seq(Int)
          /\ Len(SubSeq(b, k, n)) = IF k <= n THEN n - k + 1 ELSE 0
      BY <1>1, <2>3, <3>1, SubSeqProperties
    <3>3. Len(SubSeq(b, k, n)) # 0
      BY <1>1, <2>3, <3>2
    <3> QED
      BY <3>2, <3>3, EmptySeq
  <2> QED
    BY <1>5, <1>9, <2>1, <2>5, <2>6 DEF S
<1> QED
  BY <1>8, <1>9 DEF S

\* A text that begins with no digit and no sign, or goes on without one, is 0.
LEMMA NoDigits ==
  ASSUME NEW s \in Seq(Int), \A i \in 1..Len(s) : ~IsDigit(s[i])
  PROVE  Value(Stem(Body(s))) = 0
<1>1. Body(s) \in Seq(Int) /\ \A i \in 1..Len(Body(s)) : ~IsDigit(Body(s)[i])
  <2>1. CASE Body(s) = s
    BY <2>1
  <2>2. CASE s # <<>> /\ Body(s) = Tail(s)
    <3>1. /\ Tail(s) \in Seq(Int) /\ Len(Tail(s)) = Len(s) - 1 /\ Len(s) \in Nat
          /\ \A i \in 1..Len(Tail(s)) : Tail(s)[i] = s[i + 1]
      BY <2>2, HeadTailProperties, LenProperties
    <3>2. \A i \in 1..Len(Tail(s)) : i + 1 \in 1..Len(s)
      BY <3>1
    <3> QED
      BY <2>2, <3>1, <3>2
  <2> QED
    BY <2>1, <2>2 DEF Body
<1> DEFINE body == Body(s)
           E == Ends(body)
<1>2. Len(body) \in Nat /\ E = 1..Len(body)
  BY <1>1, LenProperties DEF Ends
<1>3. Stem(body) = <<>>
  <2>1. CASE E = {}
    <3>1. Len(body) = 0
      BY <1>2, <2>1
    <3>2. FirstOf(E) = 0
      BY <2>1 DEF FirstOf
    <3> QED
      BY <1>1, <3>1, <3>2, EmptySeq DEF Stem
  <2>2. CASE E # {}
    <3>1. 1 \in E /\ (\A k \in E : 1 <= k) /\ E \in SUBSET (Nat \ {0})
      BY <1>2, <2>2
    <3>2. FirstOf(E) = 1
      BY <3>1, FirstOfUnique
    <3>3. Stem(body) = SubSeq(body, 1, 0)
      BY <3>2 DEF Stem
    <3> QED
      BY <1>1, <3>3, SubSeqEmpty
  <2> QED
    BY <2>1, <2>2
<1> QED
  BY <1>3, ValueOfNone

\* The padding that a salt of 0 leaves behind the digits is not read.
LEMMA PaddingIsNotRead ==
  ASSUME NEW text \in Seq(Int), OneBlock(text), Padding(text) # 0
  PROVE  Str2Num(Padded(text)) = Str2Num(text)
<1>1. PICK pad \in Seq(Int) :
        /\ Padded(text) = text \o pad /\ Len(pad) = Padding(text)
        /\ \A i \in 1..Len(pad) : pad[i] = Padding(text)
  BY PaddedText
<1>2. /\ Len(text) \in 1..BlockSize /\ Padding(text) \in 1..(BlockSize - 1)
      /\ Len(pad) \in Nat
  BY PaddedText, CodecAssumption, LenProperties
<1>3. ~IsDigit(Padding(text))
  BY <1>2, BlockAssumption, CodecAssumption DEF IsDigit, Zero
<1>4. /\ pad # <<>> /\ ~IsDigit(pad[1]) /\ \A i \in 1..Len(pad) : pad[i] = pad[1]
  BY <1>1, <1>2, <1>3
<1> DEFINE s == Trim(text)
           u == Trim(Padded(text))
<1>5. s \in Seq(Int)
  BY TrimIs
<1>6. CASE Solid(text) = {}
  <2>1. s = <<>> /\ u \in {<<>>, pad}
    BY <1>1, <1>4, <1>6, TrimBefore
  <2>2. Value(Stem(Body(s))) = 0
    <3>1. Len(s) = 0
      BY <2>1, EmptySeq
    <3> HIDE DEF s
    <3>2. \A i \in 1..Len(s) : ~IsDigit(s[i])
      BY <3>1
    <3> QED
      BY <1>5, <3>2, NoDigits
  <2>3. Value(Stem(Body(u))) = 0
    BY <2>1, <2>2, <1>1, <1>3, NoDigits
  <2>4. Sign(s) * 0 = 0 /\ Sign(u) * 0 = 0
    BY DEF Sign
  <2> QED
    BY <2>2, <2>3, <2>4, StrtolParts DEF Str2Num
<1>7. CASE Solid(text) # {}
  <2>1. s # <<>> /\ u = s \o pad
    BY <1>1, <1>4, <1>7, TrimBefore
  <2> HIDE DEF s, u
  <2>2. /\ s \o pad # <<>> /\ (s \o pad)[1] = s[1]
        /\ Tail(s \o pad) = Tail(s) \o pad /\ Tail(s) \in Seq(Int)
    BY <1>5, <2>1
  <2>3. Sign(u) = Sign(s) /\ Body(u) = Body(s) \o pad
    BY <2>1, <2>2 DEF Sign, Body
  <2>4. Stem(Body(u)) = Stem(Body(s))
    BY <1>4, <1>5, <2>3, BodyIsText, StemStops
  <2> QED
    BY <2>3, <2>4, StrtolParts DEF Str2Num, s, u
<1> QED
  BY <1>6, <1>7

LEMMA DecryptedText ==
  ASSUME NEW text \in Seq(Int), OneBlock(text), NEW password, NEW drawn \in Salts
  PROVE  LET back == AesDecrypt(AesEncrypt(text, password, drawn), password)
         IN  back = text \/ (Padding(text) # 0 /\ back = Padded(text))
<1> DEFINE salt == GenerateSalt(drawn, Padding(text))
           cipher == AesEncrypt(text, password, drawn)
           length == IF salt # 0 THEN BlockSize - Padded(text)[BlockSize] ELSE BlockSize
           back == AesDecrypt(cipher, password)
<1>1. PICK pad \in Seq(Int) :
        /\ Padded(text) = text \o pad /\ Len(pad) = Padding(text)
        /\ \A i \in 1..Len(pad) : pad[i] = Padding(text)
  BY PaddedText
<1>2. /\ Len(text) \in 1..BlockSize /\ Len(text) \in Nat /\ BlockSize \in Nat
      /\ Padding(text) = BlockSize - Len(text)
  BY PaddedText, CodecAssumption
<1>3. /\ Padded(text) \in Seq(Int) /\ Len(Padded(text)) = BlockSize
      /\ Padding(text) # 0 => Padded(text)[BlockSize] = Padding(text)
  <2>1. /\ text \o pad \in Seq(Int) /\ Len(text \o pad) = Len(text) + Len(pad)
        /\ \A i \in 1..(Len(text) + Len(pad)) :
             (text \o pad)[i] = IF i <= Len(text) THEN text[i] ELSE pad[i - Len(text)]
    BY ConcatProperties
  <2>2. Len(text) + Len(pad) = BlockSize
    BY <1>1, <1>2
  <2>3. ASSUME Padding(text) # 0
        PROVE  Padded(text)[BlockSize] = Padding(text)
    <3>1. BlockSize \in 1..(Len(text) + Len(pad)) /\ ~(BlockSize <= Len(text))
          /\ BlockSize - Len(text) \in 1..Len(pad)
      BY <1>1, <1>2, <2>3
    <3> QED
      BY <1>1, <2>1, <3>1
  <2> QED
    BY <1>1, <2>1, <2>2, <2>3
<1>4. /\ cipher.salt = salt /\ cipher.text = Padded(text) /\ cipher.key = <<password, salt>>
  BY DEF AesEncrypt
<1>5. back = IF length < 0 THEN Garbage ELSE SubSeq(Padded(text), 1, length)
  <2> HIDE DEF cipher, salt
  <2> QED
    BY <1>4 DEF AesDecrypt
<1> HIDE DEF salt, length, back
<1>6. CASE Padding(text) = 0
  <2>1. salt = 0 /\ length = BlockSize /\ Len(text) = BlockSize
    BY <1>2, <1>6 DEF GenerateSalt, salt, length
  <2>2. back = SubSeq(text \o pad, 1, Len(text))
    BY <1>1, <1>2, <1>5, <2>1
  <2> QED
    BY <1>2, <2>2, StartOf, SubSeqFull DEF back
<1>7. CASE Padding(text) # 0 /\ drawn # 0
  <2>1. salt # 0 /\ length = Len(text)
    BY <1>2, <1>3, <1>7 DEF GenerateSalt, salt, length
  <2>2. back = SubSeq(text \o pad, 1, Len(text))
    BY <1>1, <1>2, <1>5, <2>1
  <2> QED
    BY <1>2, <2>2, StartOf, SubSeqFull DEF back
<1>8. CASE Padding(text) # 0 /\ drawn = 0
  <2>1. salt = 0 /\ length = BlockSize
    BY <1>8 DEF GenerateSalt, salt, length
  <2>2. back = SubSeq(Padded(text), 1, Len(Padded(text)))
    BY <1>2, <1>3, <1>5, <2>1
  <2>3. back = Padded(text)
    BY <1>3, <2>2, SubSeqFull
  <2> QED
    BY <1>8, <2>3 DEF back
<1> QED
  BY <1>6, <1>7, <1>8

\* The command is read off the marker.
LEMMA MarkerRead ==
  ASSUME NEW c \in MarkedCommands, NEW salt
  PROVE  HmacDecrypt(HmacEncrypt(c, salt)) = c
<1> DEFINE m == HmacEncrypt(c, salt)
<1>1. m.salt = salt /\ m.digest = <<salt, c>>
  BY DEF HmacEncrypt
<1>2. \A d \in MarkedCommands : m.digest = <<m.salt, d>> <=> d = c
  BY <1>1
<1> HIDE DEF m
<1>3. HmacDecrypt(m) = CHOOSE d \in MarkedCommands : m.digest = <<m.salt, d>>
  BY <1>2 DEF HmacDecrypt
<1> QED
  BY <1>2, <1>3 DEF m

\* What is decrypted is what was encrypted: the command, and the number that its text has
\* for the side that made it, for every text that fits in a block, every password and every
\* salt, also one that begins with 0 by chance and so hides that there is padding
\* (aes_encrypt.c:43, 161, generate_key_util.c:12, hmac.c).
THEOREM MessagesDecrypt ==
  ASSUME NEW command \in MarkedCommands, NEW text \in Seq(Int), NEW salt \in Salts, NEW end,
         OneBlock(text) \/ (end = 0 /\ command \in {"CHECK", "REFILL"})
  PROVE  Decrypt(Encrypt(command, text, salt), end) =
           [op |-> command,
            n |-> IF end = 0 /\ command \in {"CHECK", "REFILL"} THEN 0 ELSE Str2Num(text)]
<1> DEFINE message == Encrypt(command, text, salt)
<1>1. message.marker = HmacEncrypt(command, salt)
  BY DEF Encrypt
<1>2. HmacDecrypt(message.marker) = command
  BY <1>1, MarkerRead
<1>3. CASE end = 0 /\ command \in {"CHECK", "REFILL"}
  BY <1>2, <1>3 DEF Decrypt
<1>4. CASE ~(end = 0 /\ command \in {"CHECK", "REFILL"})
  <2>1. OneBlock(text) /\ text # <<>>
    BY <1>4 DEF OneBlock
  <2>2. message.cipher = AesEncrypt(text, command, salt)
    BY <2>1 DEF Encrypt
  <2>3. Str2Num(AesDecrypt(message.cipher, command)) = Str2Num(text)
    BY <2>1, <2>2, DecryptedText, PaddingIsNotRead
  <2>4. Decrypt(message, end) = [op |-> command, n |-> Str2Num(text)]
    <3> HIDE DEF message
    <3> QED
      BY <1>2, <1>4, <2>3 DEF Decrypt
  <2> QED
    BY <1>4, <2>4
<1> QED
  BY <1>3, <1>4

\* Every int arrives: written, encrypted, decrypted and read it is the same number
\* (string_util.c, io_handler.c).
THEOREM IntsArrive ==
  ASSUME NEW n \in Ints, NEW command \in MarkedCommands, NEW salt \in Salts
  PROVE  Decrypt(Encrypt(command, Num2Str(n), salt), 1) = [op |-> command, n |-> n]
<1>1. Num2Str(n) \in Seq(Int) /\ OneBlock(Num2Str(n))
  BY Num2StrText, BlockAssumption DEF OneBlock
<1> QED
  BY <1>1, MessagesDecrypt, Str2NumOfInt
=============================================================================
