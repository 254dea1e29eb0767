----------------------- MODULE ValueSetAnalysis_proofs -----------------------
(***************************************************************************)
(* Proofs about value set analysis, for longs of any width and traces of   *)
(* any length.                                                             *)
(***************************************************************************)
EXTENDS ValueSetAnalysis, FiniteSetTheorems, WellFoundedInduction, TLAPS

-----------------------------------------------------------------------------
(***************************************************************************)
(* Longs.                                                                  *)
(***************************************************************************)
(* A power of two counts the subsets of a set.                             *)
LEMMA Power ==
  ASSUME NEW n \in Nat
  PROVE  2 ^ n \in Nat \ {0} /\ 2 ^ (n + 1) = 2 * 2 ^ n /\ n < 2 ^ n
<1> DEFINE S == 1 .. n
           T == {A \cup {n + 1} : A \in SUBSET S}
           f == [A \in SUBSET S |-> A \cup {n + 1}]
           U == {{i} : i \in S}
           g == [i \in S |-> {i}]
<1>1. /\ IsFiniteSet(S) /\ Cardinality(S) = n
      /\ IsFiniteSet(S \cup {n + 1}) /\ Cardinality(S \cup {n + 1}) = n + 1
  <2>1. IsFiniteSet(S) /\ Cardinality(S) = n
    <3>1. 1 \in Int /\ n \in Int
      OBVIOUS
    <3>2. IsFiniteSet(S) /\ Cardinality(S) = IF 1 > n THEN 0 ELSE n - 1 + 1
      BY <3>1, FS_Interval
    <3> QED BY <3>2
  <2>2. n + 1 \notin S
    OBVIOUS
  <2> HIDE DEF S
  <2> QED BY <2>1, <2>2, FS_AddElement
<1>2. /\ IsFiniteSet(SUBSET S) /\ Cardinality(SUBSET S) = 2 ^ n
      /\ Cardinality(SUBSET (S \cup {n + 1})) = 2 ^ (n + 1)
  BY <1>1, FS_SUBSET
<1>3. IsFiniteSet(T) /\ Cardinality(T) = 2 ^ n
  <2>1. f \in Bijection(SUBSET S, T)
    <3>1. ASSUME NEW A \in SUBSET S, NEW B \in SUBSET S, f[A] = f[B] PROVE A = B
      <4>1. n + 1 \notin A /\ n + 1 \notin B
        OBVIOUS
      <4>2. A \cup {n + 1} = B \cup {n + 1}
        BY <3>1
      <4> QED BY <4>1, <4>2
    <3>2. f \in [SUBSET S -> T] /\ \A C \in T : \E A \in SUBSET S : f[A] = C
      OBVIOUS
    <3> HIDE DEF f, T, S
    <3>3. f \in Injection(SUBSET S, T)
      BY <3>1, <3>2 DEF Injection, IsInjective
    <3>4. f \in Surjection(SUBSET S, T)
      BY <3>2 DEF Surjection
    <3> QED BY <3>3, <3>4 DEF Bijection
  <2> QED BY <2>1, <1>2, FS_Bijection DEF ExistsBijection
<1>4. SUBSET (S \cup {n + 1}) = (SUBSET S) \cup T
  <2>1. ASSUME NEW A \in SUBSET (S \cup {n + 1}), A \notin SUBSET S PROVE A \in T
    <3>1. A = (A \ {n + 1}) \cup {n + 1} /\ A \ {n + 1} \in SUBSET S
      BY <2>1
    <3> QED BY <3>1
  <2>2. ASSUME NEW A \in T PROVE A \in SUBSET (S \cup {n + 1})
    OBVIOUS
  <2> QED BY <2>1, <2>2
<1>5. (SUBSET S) \cap T = {}
  OBVIOUS
<1>6. IsFiniteSet(U) /\ Cardinality(U) = n /\ U \in SUBSET (SUBSET S) /\ U # SUBSET S
  <2>1. g \in Bijection(S, U)
    <3>1. ASSUME NEW i \in S, NEW j \in S, g[i] = g[j] PROVE i = j
      BY <3>1
    <3>2. g \in [S -> U] /\ \A u \in U : \E i \in S : g[i] = u
      OBVIOUS
    <3> HIDE DEF g, U, S
    <3>3. g \in Injection(S, U)
      BY <3>1, <3>2 DEF Injection, IsInjective
    <3>4. g \in Surjection(S, U)
      BY <3>2 DEF Surjection
    <3> QED BY <3>3, <3>4 DEF Bijection
  <2>2. {} \in SUBSET S /\ {} \notin U /\ U \in SUBSET (SUBSET S)
    OBVIOUS
  <2> HIDE DEF g, U, S
  <2>3. ExistsBijection(S, U)
    BY <2>1 DEF ExistsBijection
  <2>4. IsFiniteSet(U) /\ Cardinality(U) = Cardinality(S)
    BY <2>3, <1>1, FS_Bijection
  <2> QED BY <2>2, <2>4, <1>1
<1> HIDE DEF S, T, U, f, g
<1>7. 2 ^ n \in Nat /\ n <= 2 ^ n /\ n # 2 ^ n
  BY <1>2, <1>6, FS_Subset, FS_CardinalityType
<1>8. Cardinality((SUBSET S) \cap T) = 0
  BY <1>5, FS_EmptySet
<1>9. 2 ^ (n + 1) = 2 ^ n + 2 ^ n - 0
  BY <1>2, <1>3, <1>4, <1>8, FS_Union
<1> QED BY <1>7, <1>9

(* The numbers of a model of two's complement.                             *)
LEMMA LongBounds ==
  /\ Words \in Nat \ {0} /\ MinLong \in Int /\ MaxLong \in Int /\ MaxLong = MinLong + Words - 1
  /\ MinLong < 0 /\ MaxLong > 0 /\ MinLong = 0 - MaxLong - 1 /\ Bits - 1 <= MaxLong
  /\ \A n : n \in Longs <=> n \in Int /\ MinLong <= n /\ n <= MaxLong
<1>1. Bits \in Nat /\ Bits - 1 \in Nat /\ Bits - 2 \in Nat /\ Bits - 1 > 1
  BY BitsAssumption
<1> DEFINE h == 2 ^ (Bits - 1)
<1>2. h \in Nat /\ Words = 2 * h /\ Bits - 1 < h
  <2>1. (Bits - 1) + 1 = Bits
    BY <1>1
  <2> QED BY <1>1, <2>1, Power DEF Words
<1>3. MinLong = 0 - h /\ MaxLong = h - 1
  BY DEF MinLong, MaxLong
<1> HIDE DEF h
<1> QED BY <1>1, <1>2, <1>3 DEF Longs

(* Remainders that are equal up to a multiple are equal.                   *)
LEMMA SameRemainder ==
  ASSUME NEW m \in Nat \ {0}, NEW a \in Int, NEW b \in Int, NEW p \in Int, NEW q \in Int,
         0 <= a, a < m, 0 <= b, b < m, a + p * m = b + q * m
  PROVE  a = b /\ p = q
<1>1. CASE p < q
  <2>1. (q - p) * m >= m
    BY <1>1
  <2>2. q * m - p * m = (q - p) * m
    OBVIOUS
  <2> QED BY <2>1, <2>2
<1>2. CASE q < p
  <2>1. (p - q) * m >= m
    BY <1>2
  <2>2. p * m - q * m = (p - q) * m
    OBVIOUS
  <2> QED BY <2>1, <2>2
<1> QED BY <1>1, <1>2

LEMMA LongOf ==
  ASSUME NEW n \in Int
  PROVE  Long(n) \in Longs /\ \E q \in Int : Long(n) = n + q * Words
<1> DEFINE m == n - MinLong
           W == Words
<1>1. W \in Nat \ {0} /\ MinLong \in Int /\ m \in Int /\ Long(n) = (m % W) + MinLong
  BY LongBounds DEF Long
<1>2. m % W \in 0 .. W - 1 /\ m = (m \div W) * W + (m % W) /\ m \div W \in Int
  <2> HIDE DEF m, W
  <2> QED BY <1>1
<1>3. Long(n) = n + (0 - (m \div W)) * W
  <2> DEFINE r == m % W
             d == m \div W
  <2>1. r \in Int /\ d \in Int /\ m = d * W + r /\ Long(n) = r + MinLong /\ m = n - MinLong
    BY <1>1, <1>2
  <2> HIDE DEF r, m
  <2>2. SUFFICES Long(n) = n + (0 - d) * W
    OBVIOUS
  <2> HIDE DEF d, W
  <2> QED BY <2>1, <1>1
<1>4. Long(n) \in Longs
  BY <1>1, <1>2, LongBounds
<1> QED BY <1>2, <1>3, <1>4

(* The one long that is n up to a multiple of Words.                       *)
LEMMA LongIs ==
  ASSUME NEW n \in Int, NEW x \in Longs, NEW q \in Int, x = n + q * Words
  PROVE  Long(n) = x
<1>1. PICK p \in Int : Long(n) = n + p * Words
  BY LongOf
<1>2. Long(n) \in Longs
  BY LongOf
<1> DEFINE a == Long(n) - MinLong
           b == x - MinLong
           W == Words
<1>3. W \in Nat \ {0} /\ a \in Int /\ b \in Int /\ 0 <= a /\ a < W /\ 0 <= b /\ b < W
  BY <1>2, LongBounds
<1>4. a + q * W = b + p * W
  <2>1. q * W \in Int /\ p * W \in Int
    BY <1>3
  <2> QED BY <1>1, <2>1, LongBounds
<1>5. a = b
  <2> HIDE DEF a, b, W
  <2> QED BY <1>3, <1>4, SameRemainder
<1> QED BY <1>5, <1>2, LongBounds

LEMMA LongSame == \A n \in Longs : Long(n) = n
<1> TAKE n \in Longs
<1>1. n \in Int /\ n = n + 0 * Words
  BY LongBounds
<1> QED BY <1>1, LongIs

(* Reducing early makes no difference.                                     *)
LEMMA LongSum ==
  ASSUME NEW a \in Int, NEW b \in Int
  PROVE  Long(Long(a) + b) = Long(a + b) /\ Long(b + Long(a)) = Long(a + b)
<1>1. PICK p \in Int : Long(a) = a + p * Words
  BY LongOf
<1>2. PICK q \in Int : Long(a + b) = a + b + q * Words
  BY LongOf
<1>3. Long(a) \in Int /\ Long(a + b) \in Longs
  BY LongOf, LongBounds
<1>4. Long(a + b) = Long(a) + b + (q - p) * Words
  <2> DEFINE W == Words
  <2>1. W \in Int /\ (q - p) * W = q * W - p * W /\ q * W \in Int /\ p * W \in Int
    BY LongBounds
  <2> QED BY <1>1, <1>2, <2>1
<1>5. Long(Long(a) + b) = Long(a + b)
  BY <1>3, <1>4, LongIs
<1>6. Long(a) + b = b + Long(a)
  BY <1>3
<1> QED BY <1>5, <1>6

(* Between two numbers that stay as far apart, all others do.              *)
LEMMA LongBetween ==
  ASSUME NEW l \in Int, NEW u \in Int, NEW e \in Int, l <= e, e <= u,
         Long(u) - Long(l) = u - l
  PROVE  Long(e) = Long(l) + (e - l)
<1>1. PICK q \in Int : Long(l) = l + q * Words
  BY LongOf
<1>2. Long(l) \in Longs /\ Long(u) \in Longs
  BY LongOf
<1>3. Long(l) + (e - l) = e + q * Words
  <2> DEFINE W == q * Words
  <2>1. W \in Int /\ Long(l) = l + W
    BY <1>1, LongBounds
  <2> HIDE DEF W
  <2> SUFFICES Long(l) + (e - l) = e + W
    BY DEF W
  <2> QED BY <2>1
<1>4. Long(l) + (e - l) \in Longs
  BY <1>2, LongBounds
<1> QED BY <1>3, <1>4, LongIs

(* The least and the greatest member of a set of numbers.                  *)
LEMMA LeastMember ==
  ASSUME NEW M \in SUBSET Nat, M # {}
  PROVE  Min(M) \in M /\ \A n \in M : Min(M) <= n
<1>1. PICK m \in M : \A y \in M : ~ (<<y, m>> \in OpToRel(<, Nat))
  BY NatLessThanWellFounded, WFMin
<1>2. ASSUME NEW y \in M PROVE m <= y
  <2>1. ~ (y < m)
    BY <1>1 DEF OpToRel
  <2> QED BY <2>1
<1> DEFINE c == CHOOSE x \in M : \A y \in M : x <= y
<1>3. c \in M /\ \A y \in M : c <= y
  BY <1>2
<1> QED BY <1>3 DEF Min

LEMMA GreatestMember ==
  ASSUME NEW M \in SUBSET Nat, M # {}, NEW b \in Nat, \A m \in M : m <= b
  PROVE  Max(M) \in M /\ \A n \in M : n <= Max(M)
<1> DEFINE D == {k \in Nat : \E m \in M : m + k = b}
<1>1. D \subseteq Nat /\ D # {}
  <2>1. PICK m \in M : m \in Nat
    OBVIOUS
  <2>2. b - m \in Nat /\ m + (b - m) = b
    BY <2>1
  <2> QED BY <2>1, <2>2
<1>2. PICK k \in D : \A y \in D : ~ (<<y, k>> \in OpToRel(<, Nat))
  BY <1>1, NatLessThanWellFounded, WFMin
<1>3. PICK m \in M : m + k = b
  BY <1>2
<1>4. ASSUME NEW n \in M PROVE m >= n
  <2>1. b - n \in D /\ b - n \in Nat
    BY <1>3
  <2>2. ~ (b - n < k)
    BY <1>2, <2>1 DEF OpToRel
  <2> QED BY <1>3, <2>1, <2>2
<1> DEFINE c == CHOOSE x \in M : \A y \in M : x >= y
<1>5. c \in M /\ \A y \in M : c >= y
  BY <1>3, <1>4
<1> QED BY <1>5 DEF Max

(* Products, one fact at a time.                                           *)
LEMMA Distribute ==
  \A a, b, c \in Int : /\ (a + b) * c = a * c + b * c /\ (a - b) * c = a * c - b * c
                      /\ a * c = c * a /\ a * c \in Int
OBVIOUS

LEMMA Division ==
  ASSUME NEW d \in Int, NEW s \in Nat \ {0}
  PROVE  /\ d % s \in 0 .. s - 1 /\ d % s \in Int /\ d \div s \in Int
         /\ d = (d \div s) * s + (d % s)
OBVIOUS

LEMMA Monotone ==
  ASSUME NEW a \in Int, NEW b \in Int, NEW c \in Nat
  PROVE  /\ a <= b => a * c <= b * c
         /\ c # 0 /\ a < b => a * c + c <= b * c
<1>1. ASSUME a <= b PROVE a * c <= b * c
  <2>1. (b - a) * c >= 0
    BY <1>1
  <2>2. (b - a) * c = b * c - a * c
    BY Distribute
  <2> QED BY <2>1, <2>2
<1>2. ASSUME c # 0, a < b PROVE a * c + c <= b * c
  <2>1. (b - a - 1) * c >= 0
    BY <1>2
  <2>2. (b - a - 1) * c = b * c - a * c - c
    OBVIOUS
  <2> QED BY <2>1, <2>2
<1> QED BY <1>1, <1>2

-----------------------------------------------------------------------------
(***************************************************************************)
(* Strided intervals.                                                      *)
(***************************************************************************)
Intervals == {si \in [stride : Nat, lower_bound : Longs, upper_bound : Longs] : WellFormed(si)}

(* The upper bound is some number of strides away.                         *)
LEMMA IntervalIs ==
  ASSUME NEW s \in Nat, NEW l \in Longs, NEW u \in Longs, NEW m \in Nat, u = l + m * s
  PROVE  Interval(s, l, u) \in Intervals
<1>1. l \in Int /\ u \in Int /\ m * s \in Nat /\ l <= u
  BY LongBounds
<1>2. CASE s = 0
  <2>1. m * s = 0
    BY <1>2
  <2> QED BY <1>1, <1>2, <2>1 DEF Interval, Intervals, WellFormed
<1>3. CASE s # 0
  <2>1. (u - l) % s = 0
    <3> DEFINE d == u - l
    <3>1. d \in Int /\ d = m * s + 0 /\ s \in Nat \ {0}
      BY <1>1, <1>3
    <3>a. d \in Int /\ s \in Nat \ {0}
      BY <3>1
    <3> HIDE DEF d
    <3>2. d % s \in 0 .. s - 1 /\ d = (d \div s) * s + (d % s) /\ d \div s \in Int
      BY <3>a, Division
    <3> DEFINE q == d \div s
               r == d % s
    <3>3. 0 + m * s = r + q * s /\ r \in Int /\ q \in Int /\ 0 <= r /\ r < s
      BY <3>1, <3>2, <1>1
    <3>4. r = 0
      <4> HIDE DEF q, r
      <4>1. 0 \in Int /\ m \in Int /\ 0 <= 0 /\ 0 < s /\ s \in Nat \ {0}
        BY <3>a
      <4>2. \A x, y, p, z \in Int : \A w \in Nat \ {0} :
               0 <= x /\ x < w /\ 0 <= y /\ y < w /\ x + p * w = y + z * w => x = y
        BY SameRemainder, Zenon
      <4> QED BY <4>1, <4>2, <3>3, Zenon
    <3> QED BY <3>4 DEF d
  <2> QED BY <1>1, <1>3, <2>1 DEF Interval, Intervals, WellFormed
<1> QED BY <1>2, <1>3

LEMMA IntervalFacts ==
  ASSUME NEW si \in Intervals
  PROVE  /\ si.stride \in Nat /\ si.lower_bound \in Longs /\ si.upper_bound \in Longs
         /\ si.lower_bound \in Int /\ si.upper_bound \in Int /\ si.lower_bound <= si.upper_bound
         /\ si = Interval(si.stride, si.lower_bound, si.upper_bound)
         /\ \E m \in Nat : si.upper_bound = si.lower_bound + m * si.stride
         /\ si.stride = 0 => si.lower_bound = si.upper_bound
<1>1. /\ si.stride \in Nat /\ si.lower_bound \in Longs /\ si.upper_bound \in Longs
      /\ si.lower_bound <= si.upper_bound
      /\ si = Interval(si.stride, si.lower_bound, si.upper_bound)
  BY DEF Intervals, WellFormed, Interval
<1>2. si.lower_bound \in Int /\ si.upper_bound \in Int
  BY <1>1, LongBounds
<1>3. CASE si.stride = 0
  <2>1. si.lower_bound = si.upper_bound
    BY <1>3 DEF Intervals, WellFormed
  <2>2. si.upper_bound = si.lower_bound + 0 * si.stride
    BY <1>2, <2>1, <1>3
  <2> QED BY <1>1, <1>2, <2>1, <2>2
<1>4. CASE si.stride # 0
  <2> DEFINE s == si.stride
             d == si.upper_bound - si.lower_bound
             q == d \div s
  <2>1. d % s = 0
    BY <1>4 DEF Intervals, WellFormed
  <2>2. s \in Nat \ {0} /\ d \in Nat
    BY <1>1, <1>2, <1>4
  <2>3. d = q * s + (d % s) /\ q \in Nat
    <3> HIDE DEF d, s
    <3>1. d \in Int /\ s \in Nat \ {0}
      BY <2>2
    <3>2. d % s \in 0 .. s - 1 /\ d = (d \div s) * s + (d % s) /\ d \div s \in Int
      BY <3>1, Division
    <3>3. d \div s < 0 => (d \div s) * s + s <= 0 * s
      BY <3>1, <3>2, Monotone
    <3>4. (d \div s) * s \in Int /\ 0 * s = 0
      BY <3>1, <3>2, Distribute
    <3> DEFINE p == (d \div s) * s
               e == d \div s
               r == d % s
    <3>5. p \in Int /\ e \in Int /\ r \in 0 .. s - 1 /\ d = p + r /\ (e < 0 => p + s <= 0)
      BY <3>2, <3>3, <3>4
    <3> HIDE DEF p, e, r
    <3>6. e >= 0
      BY <3>5, <2>2
    <3> QED BY <3>6, <3>2 DEF e
  <2>4. si.upper_bound = si.lower_bound + q * s
    <3> DEFINE p == q * s
    <3>0. p \in Int
      BY <2>2, <2>3, Distribute
    <3> HIDE DEF p
    <3>1. d = p + (d % s)
      BY <2>3 DEF p
    <3> HIDE DEF q, s
    <3>2. si.upper_bound = si.lower_bound + p
      BY <3>0, <3>1, <2>1, <1>2
    <3> QED BY <3>2 DEF p
  <2> QED BY <1>1, <1>2, <1>4, <2>3, <2>4
<1> QED BY <1>3, <1>4

(* What an interval stands for: the places some strides above the lower    *)
(* bound that are not past the upper one.                                  *)
LEMMA ElementsOf ==
  ASSUME NEW si \in Intervals
  PROVE  /\ \A v \in Elements(si) :
              /\ v \in Longs /\ v \in Int /\ si.lower_bound <= v /\ v <= si.upper_bound
              /\ \E k \in Nat : v = si.lower_bound + k * si.stride
         /\ \A k \in Nat : si.lower_bound + k * si.stride <= si.upper_bound
              => si.lower_bound + k * si.stride \in Elements(si)
<1> DEFINE s == si.stride
           l == si.lower_bound
           u == si.upper_bound
<1>1. s \in Nat /\ l \in Int /\ u \in Int /\ l <= u /\ l \in Longs /\ u \in Longs
  BY IntervalFacts
<1>2. \A v \in Int : l <= v /\ v <= u => v \in Longs
  BY <1>1, LongBounds
<1>3. CASE s = 0
  <2>1. Elements(si) = {l}
    BY <1>3 DEF Elements
  <2>2. l = l + 0 * s /\ \A k \in Nat : l + k * s = l
    BY <1>1, <1>3
  <2> QED BY <1>1, <2>1, <2>2
<1>4. CASE s # 0
  <2> DEFINE d == u - l
             q == d \div s
  <2>1. Elements(si) = {l + k * s : k \in 0 .. q}
    BY <1>4 DEF Elements
  <2>2. d \in Nat /\ s \in Nat \ {0}
    BY <1>1, <1>4
  <2>3. d = q * s + (d % s) /\ d % s \in 0 .. s - 1 /\ q \in Int
    <3> HIDE DEF d, s
    <3>1. d \in Int /\ s \in Nat \ {0}
      BY <2>2
    <3> QED BY <3>1, Division
  <2> HIDE DEF d, q, s, l, u
  <2>4. ASSUME NEW k \in Nat PROVE k <= q <=> k * s <= d
    <3>1. ASSUME k <= q PROVE k * s <= q * s
      BY <3>1, <2>2, <2>3, Monotone
    <3>2. ASSUME q < k PROVE q * s + s <= k * s
      BY <3>2, <2>2, <2>3, Monotone
    <3>3. k * s \in Int /\ q * s \in Int
      BY <2>2, <2>3, Distribute
    <3> DEFINE a == k * s
               b == q * s
               r == d % s
    <3>4. /\ a \in Int /\ b \in Int /\ r \in 0 .. s - 1 /\ d = b + r
          /\ (k <= q => a <= b) /\ (q < k => b + s <= a)
      BY <3>1, <3>2, <3>3, <2>3
    <3> HIDE DEF a, b, r
    <3>5. k <= q <=> a <= d
      BY <3>4, <2>2, <2>3
    <3> QED BY <3>5 DEF a
  <2>5. ASSUME NEW v \in Elements(si)
        PROVE  /\ v \in Longs /\ v \in Int /\ l <= v /\ v <= u
               /\ \E k \in Nat : v = l + k * s
    <3>1. PICK k \in 0 .. q : v = l + k * s
      BY <2>1
    <3>2. k \in Nat /\ k <= q /\ k * s \in Nat
      BY <2>2, <2>3
    <3>3. k * s <= d
      BY <3>2, <2>4
    <3> DEFINE p == k * s
    <3>4. v = l + p /\ p \in Nat /\ p <= d
      BY <3>1, <3>2, <3>3
    <3> HIDE DEF p
    <3>5. v \in Int /\ l <= v /\ v <= u
      BY <3>4, <1>1 DEF d
    <3> QED BY <3>1, <3>2, <3>5, <1>2
  <2>6. ASSUME NEW k \in Nat, l + k * s <= u
        PROVE  l + k * s \in Elements(si)
    <3> DEFINE p == k * s
    <3>1. p \in Nat /\ l + p <= u
      BY <2>2, <2>6
    <3>2. p <= d
      <4> HIDE DEF p
      <4> QED BY <3>1, <1>1 DEF d
    <3>3. k \in 0 .. q
      BY <3>2, <2>3, <2>4
    <3> QED BY <2>1, <3>3
  <2> QED BY <2>5, <2>6 DEF l, u, s
<1> QED BY <1>3, <1>4

(* Nothing is known, or one number. *)
LEMMA FullIs ==
  /\ FullInterval \in Intervals /\ si_is_full(FullInterval)
  /\ \A n \in Longs : /\ One(n) \in Intervals /\ ~ si_is_full(One(n)) /\ Elements(One(n)) = {n}
                      /\ One(n).stride = 0 /\ One(n).lower_bound = n /\ One(n).upper_bound = n
<1>1. MinLong \in Longs /\ MaxLong \in Longs /\ Words - 1 \in Nat /\ MinLong # MaxLong
  BY LongBounds
<1>2. MaxLong = MinLong + (Words - 1) * 1
  BY LongBounds
<1>3. FullInterval \in Intervals
  BY <1>1, <1>2, IntervalIs DEF FullInterval, min_si, max_si
<1>4. si_is_full(FullInterval)
  BY DEF si_is_full, FullInterval, Interval
<1>5. ASSUME NEW n \in Longs
      PROVE  /\ One(n) \in Intervals /\ ~ si_is_full(One(n)) /\ Elements(One(n)) = {n}
             /\ One(n).stride = 0 /\ One(n).lower_bound = n /\ One(n).upper_bound = n
  <2>1. n = n + 0 * 0 /\ 0 \in Nat
    BY LongBounds
  <2>2. One(n) \in Intervals
    BY <2>1, IntervalIs DEF One
  <2>3. One(n).stride = 0 /\ One(n).lower_bound = n /\ One(n).upper_bound = n
    BY DEF One, Interval
  <2>4. ~ si_is_full(One(n))
    BY <2>3, <1>1 DEF si_is_full, min_si, max_si
  <2>5. Elements(One(n)) = {n}
    BY <2>3 DEF Elements
  <2> QED BY <2>2, <2>3, <2>4, <2>5
<1> QED BY <1>3, <1>4, <1>5

(* Both ends move by as much, and what is between them with them. *)
LEMMA Moved ==
  ASSUME NEW s \in Nat, NEW l \in Int, NEW m \in Nat,
         Long(l + m * s) - Long(l) = m * s
  PROVE  /\ Interval(s, Long(l), Long(l + m * s)) \in Intervals
         /\ \A k \in Nat : k <= m =>
              Long(l + k * s) \in Elements(Interval(s, Long(l), Long(l + m * s)))
<1> DEFINE si == Interval(s, Long(l), Long(l + m * s))
           p == m * s
<1>1. p \in Nat /\ p \in Int /\ l + p \in Int
  BY Distribute
<1>2. Long(l) \in Longs /\ Long(l + p) \in Longs /\ Long(l) \in Int /\ Long(l + p) \in Int
  BY <1>1, LongOf, LongBounds
<1>3. Long(l + p) = Long(l) + p
  <2> HIDE DEF p
  <2> QED BY <1>1, <1>2 DEF p
<1>4. si \in Intervals
  BY <1>2, <1>3, IntervalIs
<1>5. ASSUME NEW k \in Nat, k <= m PROVE Long(l + k * s) \in Elements(si)
  <2> DEFINE q == k * s
  <2>1. q \in Nat /\ q <= p
    BY <1>5, Monotone, Distribute
  <2>2. l + q \in Int /\ l <= l + q /\ l + q <= l + p /\ Long(l + p) - Long(l) = (l + p) - l
    <3> HIDE DEF p, q
    <3> QED BY <1>1, <1>2, <1>3, <2>1
  <2>3. Long(l + q) = Long(l) + ((l + q) - l)
    <3> HIDE DEF p, q
    <3> QED BY <1>1, <2>2, LongBetween
  <2>4. Long(l + q) = Long(l) + q
    <3> HIDE DEF p, q
    <3> QED BY <2>1, <2>3, <1>2
  <2>5. si.stride = s /\ si.lower_bound = Long(l) /\ si.upper_bound = Long(l + p)
    BY DEF Interval
  <2>6. Long(l) + q <= Long(l + p)
    <3> HIDE DEF p, q
    <3> QED BY <2>1, <1>1, <1>2, <1>3
  <2> HIDE DEF si
  <2>7. Long(l) + k * s \in Elements(si)
    BY <2>5, <2>6, <1>4, ElementsOf
  <2> QED BY <2>4, <2>7
<1> QED BY <1>4, <1>5

(* The members of an interval, one by one. *)
LEMMA MemberIs ==
  ASSUME NEW si \in Intervals, NEW m \in Nat, si.upper_bound = si.lower_bound + m * si.stride,
         NEW e \in Elements(si)
  PROVE  \E k \in Nat : k <= m /\ e = si.lower_bound + k * si.stride
<1>1. PICK k \in Nat : e = si.lower_bound + k * si.stride
  BY ElementsOf
<1>2. e <= si.upper_bound
  BY ElementsOf
<1>3. si.stride \in Nat /\ si.lower_bound \in Int
  BY IntervalFacts
<1>4. CASE si.stride = 0
  <2>1. k * si.stride = 0 * si.stride
    BY <1>4
  <2> QED BY <1>1, <2>1
<1>5. CASE si.stride # 0
  <2> DEFINE a == k * si.stride
             b == m * si.stride
  <2>1. a \in Int /\ b \in Int /\ (m < k => b + si.stride <= a)
    BY <1>3, <1>5, Monotone, Distribute
  <2>2. si.lower_bound + a <= si.lower_bound + b
    BY <1>1, <1>2
  <2> DEFINE s == si.stride
             l == si.lower_bound
  <2>3. /\ s \in Nat \ {0} /\ l \in Int /\ a \in Int /\ b \in Int
        /\ (m < k => b + s <= a) /\ l + a <= l + b
    BY <2>1, <2>2, <1>3, <1>5
  <2>4. ~ (m < k)
    <3> HIDE DEF a, b, s, l
    <3> QED BY <2>3
  <2> QED BY <1>1, <2>4
<1> QED BY <1>4, <1>5

LEMMA AddOffset ==
  ASSUME NEW si \in Intervals, NEW c \in Int,
         \/ si_is_full(si)
         \/ Long(si.upper_bound + c) - Long(si.lower_bound + c) = (si.upper_bound + c) - (si.lower_bound + c)
  PROVE  /\ si_add_offset(si, c) \in Intervals
         /\ si_is_full(si) => si_is_full(si_add_offset(si, c))
         /\ ~ si_is_full(si) => \A e \in Elements(si) : Long(e + c) \in Elements(si_add_offset(si, c))
<1>1. CASE si_is_full(si)
  BY <1>1 DEF si_add_offset
<1>2. CASE ~ si_is_full(si)
  <2> DEFINE s == si.stride
             l == si.lower_bound
             u == si.upper_bound
  <2>1. s \in Nat /\ l \in Int /\ u \in Int /\ si = Interval(s, l, u)
    BY IntervalFacts
  <2>2. PICK m \in Nat : u = l + m * s
    BY IntervalFacts
  <2> DEFINE p == m * s
  <2>3. p \in Int
    BY <2>1, Distribute
  <2>4. l + c \in Int /\ u + c = (l + c) + p /\ (u + c) - (l + c) = p
    <3>1. u = l + p
      BY <2>2
    <3> HIDE DEF p, l, u
    <3> QED BY <2>1, <2>3, <3>1
  <2>5. Long((l + c) + p) - Long(l + c) = p
    BY <2>4, <1>2
  <2>6. si_add_offset(si, c) = Interval(s, Long(l + c), Long((l + c) + p))
    <3>1. si_add_offset(si, c) = Interval(s, Long(l + c), Long(u + c))
      BY <1>2, <2>1 DEF si_add_offset, Interval
    <3> QED BY <3>1, <2>4
  <2>7. ASSUME NEW e \in Elements(si) PROVE Long(e + c) \in Elements(si_add_offset(si, c))
    <3>1. PICK k \in Nat : k <= m /\ e = l + k * s
      BY <2>2, MemberIs
    <3>2. Long((l + c) + k * s) \in Elements(si_add_offset(si, c))
      BY <3>1, <2>1, <2>4, <2>5, <2>6, Moved
    <3> DEFINE q == k * s
    <3>3. q \in Int /\ e = l + q
      BY <3>1, <2>1, Distribute
    <3>4. e + c = (l + c) + q
      <4> HIDE DEF q, l
      <4> QED BY <3>3, <2>1
    <3> QED BY <3>2, <3>4
  <2>8. si_add_offset(si, c) \in Intervals
    BY <2>1, <2>4, <2>5, <2>6, Moved
  <2> QED BY <2>7, <2>8, <1>2
<1> QED BY <1>1, <1>2

(* What divides both strides divides every difference. *)
LEMMA Gcd ==
  ASSUME NEW a \in Nat, NEW b \in Nat
  PROVE  gcd(a, b) \in Nat \ {0} /\ (\E p \in Nat : a = p * gcd(a, b)) /\ \E q \in Nat : b = q * gcd(a, b)
<1> DEFINE D == {d \in 1 .. Words : a % d = 0 /\ b % d = 0}
           g == gcd(a, b)
<1>1. Words \in Nat \ {0}
  BY LongBounds
<1>2. 1 \in D
  <2>1. a % 1 = 0 /\ b % 1 = 0
    OBVIOUS
  <2> QED BY <1>1, <2>1
<1>3. D \in SUBSET Nat /\ \A d \in D : d <= Words
  BY <1>1
<1>4. g \in D
  BY <1>1, <1>2, <1>3, GreatestMember DEF gcd
<1>5. g \in Nat \ {0} /\ a % g = 0 /\ b % g = 0
  BY <1>1, <1>4
<1>6. ASSUME NEW n \in Nat, n % g = 0 PROVE \E p \in Nat : n = p * g
  <2> HIDE DEF g
  <2>1. n \div g \in Int /\ n = (n \div g) * g + (n % g)
    BY <1>5, Division
  <2> DEFINE p == n \div g
             t == p * g
  <2>2. t \in Int /\ n = t /\ p \in Int
    <3>1. t \in Int /\ p \in Int /\ n = t + (n % g)
      BY <2>1, <1>5, Distribute
    <3> HIDE DEF t, p
    <3> QED BY <3>1, <1>6
  <2>3. p < 0 => t + g <= 0 * g
    BY <2>1, <1>5, Monotone
  <2>4. p \in Nat
    <3>1. 0 * g = 0
      BY <1>5
    <3> HIDE DEF t, p
    <3> QED BY <2>2, <2>3, <3>1, <1>5
  <2> QED BY <2>2, <2>4
<1> HIDE DEF g
<1>7. (\E p \in Nat : a = p * g) /\ \E q \in Nat : b = q * g
  BY <1>5, <1>6
<1> QED BY <1>5, <1>7 DEF g

LEMMA AddIntervals ==
  ASSUME NEW si \in Intervals, NEW ti \in Intervals,
         \/ si_is_full(si) \/ si_is_full(ti)
         \/ Long(si.upper_bound + ti.upper_bound) - Long(si.lower_bound + ti.lower_bound)
              = (si.upper_bound + ti.upper_bound) - (si.lower_bound + ti.lower_bound)
  PROVE  /\ si_add(si, ti) \in Intervals
         /\ si_is_full(si) \/ si_is_full(ti) => si_is_full(si_add(si, ti))
         /\ ~ si_is_full(si) /\ ~ si_is_full(ti) =>
              \A e \in Elements(si), f \in Elements(ti) : Long(e + f) \in Elements(si_add(si, ti))
<1>1. CASE si_is_full(si) \/ si_is_full(ti)
  <2>1. si_add(si, ti) = FullInterval
    BY <1>1 DEF si_add
  <2> QED BY <2>1, <1>1, FullIs
<1>2. CASE ~ si_is_full(si) /\ ~ si_is_full(ti)
  <2> DEFINE s == si.stride
             l == si.lower_bound
             u == si.upper_bound
             t == ti.stride
             j == ti.lower_bound
             v == ti.upper_bound
  <2>1. /\ s \in Nat /\ l \in Int /\ u \in Int /\ si = Interval(s, l, u)
        /\ t \in Nat /\ j \in Int /\ v \in Int /\ ti = Interval(t, j, v)
        /\ (s = 0 => l = u) /\ (t = 0 => j = v)
    BY IntervalFacts
  <2>2. Long(u + v) - Long(l + j) = (u + v) - (l + j)
    BY <1>2
  <2>3. CASE t = 0
    <3>1. si_add(si, ti) = si_add_offset(si, j)
      BY <1>2, <2>3 DEF si_add
    <3>2. Long(u + j) - Long(l + j) = (u + j) - (l + j)
      BY <2>1, <2>2, <2>3
    <3>3. /\ si_add_offset(si, j) \in Intervals
          /\ \A e \in Elements(si) : Long(e + j) \in Elements(si_add_offset(si, j))
      BY <1>2, <2>1, <3>2, AddOffset
    <3>4. Elements(ti) = {j}
      BY <2>3 DEF Elements
    <3> QED BY <1>2, <3>1, <3>3, <3>4
  <2>4. CASE t # 0 /\ s = 0
    <3>1. si_add(si, ti) = si_add_offset(ti, l)
      BY <1>2, <2>4 DEF si_add
    <3>2. Long(v + l) - Long(j + l) = (v + l) - (j + l)
      <4>1. u = l /\ u + v = v + l /\ l + j = j + l
        BY <2>1, <2>4
      <4> QED BY <2>2, <4>1
    <3>3. /\ si_add_offset(ti, l) \in Intervals
          /\ \A e \in Elements(ti) : Long(e + l) \in Elements(si_add_offset(ti, l))
      BY <1>2, <2>1, <3>2, AddOffset
    <3>4. Elements(si) = {l}
      BY <2>4 DEF Elements
    <3>5. \A e \in Elements(ti) : e + l = l + e
      <4>1. \A e \in Elements(ti) : e \in Int
        BY ElementsOf
      <4> QED BY <4>1, <2>1
    <3> QED BY <1>2, <3>1, <3>3, <3>4, <3>5
  <2>5. CASE t # 0 /\ s # 0
    <3> DEFINE g == gcd(s, t)
    <3>1. si_add(si, ti) = Interval(g, Long(l + j), Long(u + v))
      BY <1>2, <2>5 DEF si_add
    <3>2. PICK m \in Nat, n \in Nat : u = l + m * s /\ v = j + n * t
      BY IntervalFacts
    <3>3. PICK p \in Nat, q \in Nat : s = p * g /\ t = q * g /\ g \in Nat
      <4>1. s \in Nat /\ t \in Nat
        BY <2>1
      <4> HIDE DEF s, t
      <4>2. g \in Nat \ {0} /\ (\E p \in Nat : s = p * g) /\ \E q \in Nat : t = q * g
        BY <4>1, Gcd
      <4> HIDE DEF g
      <4> QED BY <4>2
    <3> HIDE DEF g, s, t, l, u, j, v
    <3>4. ASSUME NEW a \in Nat, NEW b \in Nat
          PROVE  /\ (l + a * s) + (j + b * t) = (l + j) + (a * p + b * q) * g
                 /\ a * p + b * q \in Nat
      <4>1. a * p \in Nat /\ b * q \in Nat /\ a * s \in Int /\ b * t \in Int
        BY <2>1, Distribute
      <4>2. a * s = (a * p) * g /\ b * t = (b * q) * g
        BY <3>3
      <4>3. (a * p) * g \in Int /\ (b * q) * g \in Int
            /\ (a * p + b * q) * g = (a * p) * g + (b * q) * g
        BY <4>1, <3>3, Distribute
      <4> DEFINE x == (a * p) * g
                 y == (b * q) * g
                 z == (a * p + b * q) * g
      <4>4. x \in Int /\ y \in Int /\ z = x + y /\ a * s = x /\ b * t = y
        BY <4>2, <4>3
      <4> HIDE DEF x, y, z
      <4>5. (l + a * s) + (j + b * t) = (l + j) + z
        BY <4>4, <2>1
      <4> QED BY <4>1, <4>5 DEF z
    <3> DEFINE w == m * p + n * q
    <3>5. u + v = (l + j) + w * g /\ w \in Nat
      BY <3>2, <3>4
    <3>6. w * g \in Int /\ l + j \in Int /\ (u + v) - (l + j) = w * g
      <4>1. w * g \in Int
        BY <3>3, <3>5, Distribute
      <4> DEFINE x == w * g
      <4>2. x \in Int /\ u + v = (l + j) + x
        BY <4>1, <3>5
      <4> HIDE DEF x, w
      <4>3. (u + v) - (l + j) = x
        BY <4>2, <2>1
      <4> QED BY <4>1, <4>3, <2>1 DEF x
    <3>7. Long((l + j) + w * g) - Long(l + j) = w * g
      BY <2>2, <3>5, <3>6
    <3> HIDE DEF w
    <3>8. /\ Interval(g, Long(l + j), Long((l + j) + w * g)) \in Intervals
          /\ \A k \in Nat : k <= w =>
              Long((l + j) + k * g) \in Elements(Interval(g, Long(l + j), Long((l + j) + w * g)))
      BY <3>3, <3>5, <3>6, <3>7, Moved
    <3>9. ASSUME NEW e \in Elements(si), NEW f \in Elements(ti)
          PROVE  Long(e + f) \in Elements(si_add(si, ti))
      <4>1. PICK a \in Nat : a <= m /\ e = l + a * s
        BY <3>2, MemberIs DEF l, s, u
      <4>2. PICK b \in Nat : b <= n /\ f = j + b * t
        BY <3>2, MemberIs DEF j, t, v
      <4>3. a * p + b * q <= w
        <5>1. a * p <= m * p /\ b * q <= n * q
          BY <4>1, <4>2, Monotone
        <5>2. a * p \in Nat /\ m * p \in Nat /\ b * q \in Nat /\ n * q \in Nat
          BY Distribute
        <5> QED BY <5>1, <5>2 DEF w
      <4>4. e + f = (l + j) + (a * p + b * q) * g /\ a * p + b * q \in Nat
        BY <4>1, <4>2, <3>4
      <4> DEFINE c == a * p + b * q
      <4>5. c \in Nat /\ c <= w /\ e + f = (l + j) + c * g
        BY <4>3, <4>4
      <4> HIDE DEF c
      <4> QED BY <4>5, <3>8, <3>5, <3>1
    <3> QED BY <1>2, <3>1, <3>5, <3>8, <3>9
  <2> QED BY <2>3, <2>4, <2>5
<1> QED BY <1>1, <1>2

(* The negative and the complement turn an interval round. *)
LEMMA TurnedRound ==
  ASSUME NEW si \in Intervals, NEW c \in Int,
         c - si.upper_bound \in Longs, c - si.lower_bound \in Longs
  PROVE  /\ Interval(si.stride, c - si.upper_bound, c - si.lower_bound) \in Intervals
         /\ \A e \in Elements(si) :
              c - e \in Elements(Interval(si.stride, c - si.upper_bound, c - si.lower_bound))
<1> DEFINE s == si.stride
           l == si.lower_bound
           u == si.upper_bound
           ti == Interval(s, c - u, c - l)
<1>1. s \in Nat /\ l \in Int /\ u \in Int
  BY IntervalFacts
<1>2. PICK m \in Nat : u = l + m * s
  BY IntervalFacts
<1>3. c - l = (c - u) + m * s
  <2> DEFINE p == m * s
  <2>1. p \in Int /\ u = l + p
    BY <1>1, <1>2, Distribute
  <2> HIDE DEF p, u, l
  <2>2. c - l = (c - u) + p
    BY <1>1, <2>1
  <2> QED BY <2>2 DEF p
<1>4. ti \in Intervals
  BY <1>1, <1>3, IntervalIs
<1>5. ASSUME NEW e \in Elements(si) PROVE c - e \in Elements(ti)
  <2>1. PICK k \in Nat : k <= m /\ e = l + k * s
    BY <1>2, MemberIs
  <2> DEFINE p == m * s
             q == k * s
             r == (m - k) * s
  <2>2. p \in Int /\ q \in Int /\ r \in Int /\ r = p - q /\ q >= 0 /\ u = l + p /\ e = l + q
    <3>1. q \in Nat
      BY <1>1
    <3>2. (m - k) * s = m * s - k * s
      BY <1>1, Distribute
    <3> QED BY <1>1, <1>2, <2>1, <3>1, <3>2, Distribute
  <2>3. m - k \in Nat
    BY <2>1
  <2>4. c - e = (c - u) + (m - k) * s /\ c - e <= c - l
    <3> HIDE DEF p, q, r, u, l
    <3>1. c - e = (c - u) + r /\ c - e <= c - l
      BY <1>1, <2>2
    <3> QED BY <3>1 DEF r
  <2>5. ti.stride = s /\ ti.lower_bound = c - u /\ ti.upper_bound = c - l
    BY DEF Interval
  <2> HIDE DEF ti
  <2> QED BY <2>3, <2>4, <2>5, <1>4, ElementsOf
<1> QED BY <1>4, <1>5

LEMMA NegInterval ==
  ASSUME NEW si \in Intervals
  PROVE  /\ si_neg(si) \in Intervals
         /\ si_is_full(si) => si_is_full(si_neg(si))
         /\ ~ si_is_full(si) => \/ si_is_full(si_neg(si))
                                \/ \A e \in Elements(si) : Long(0 - e) \in Elements(si_neg(si))
<1> DEFINE l == si.lower_bound
           u == si.upper_bound
<1>1. l \in Longs /\ u \in Longs /\ l \in Int /\ u \in Int
  BY IntervalFacts
<1>2. CASE si_is_full(si)
  BY <1>2 DEF si_neg
<1>3. CASE ~ si_is_full(si) /\ l = min_si /\ u = min_si
  <2>1. si_neg(si) = si
    BY <1>3 DEF si_neg
  <2>2. ASSUME NEW e \in Elements(si) PROVE Long(0 - e) = e
    <3>1. e = MinLong
      <4>1. l <= e /\ e <= u /\ e \in Int
        BY ElementsOf
      <4> QED BY <4>1, <1>3, LongBounds DEF min_si
    <3>2. e = (0 - e) + (0 - 1) * Words /\ e \in Longs
      BY <3>1, LongBounds
    <3>3. 0 - e \in Int /\ 0 - 1 \in Int
      BY <3>1, LongBounds
    <3> QED BY <3>2, <3>3, LongIs
  <2> QED BY <2>1, <2>2, <1>3
<1>4. CASE ~ si_is_full(si) /\ l = min_si /\ u # min_si
  <2>1. si_neg(si) = FullInterval
    BY <1>4 DEF si_neg
  <2> QED BY <2>1, <1>4, FullIs
<1>5. CASE ~ si_is_full(si) /\ l # min_si
  <2>1. si_neg(si) = Interval(si.stride, 0 - u, 0 - l)
    BY <1>5 DEF si_neg
  <2>2. 0 - u \in Longs /\ 0 - l \in Longs /\ 0 \in Int
    <3>1. l <= u
      BY IntervalFacts
    <3> QED BY <3>1, <1>1, <1>5, LongBounds DEF min_si
  <2>3. /\ si_neg(si) \in Intervals
        /\ \A e \in Elements(si) : 0 - e \in Elements(si_neg(si))
    BY <2>1, <2>2, TurnedRound
  <2>4. ASSUME NEW e \in Elements(si) PROVE Long(0 - e) = 0 - e
    <3>1. 0 - e \in Longs
      BY <2>3, ElementsOf
    <3> QED BY <3>1, LongSame
  <2> QED BY <2>3, <2>4, <1>5
<1> QED BY <1>2, <1>3, <1>4, <1>5

LEMMA NotInterval ==
  ASSUME NEW si \in Intervals
  PROVE  /\ si_not(si) \in Intervals
         /\ si_is_full(si) => si_is_full(si_not(si))
         /\ \A e \in Elements(si) : Long(0 - 1 - e) \in Elements(si_not(si))
<1> DEFINE l == si.lower_bound
           u == si.upper_bound
<1>1. l \in Longs /\ u \in Longs /\ l \in Int /\ u \in Int
  BY IntervalFacts
<1>2. si_not(si) = Interval(si.stride, (0 - 1) - u, (0 - 1) - l)
  <2>1. (0 - u) - 1 = (0 - 1) - u /\ (0 - l) - 1 = (0 - 1) - l
    BY <1>1
  <2> QED BY <2>1 DEF si_not
<1>3. (0 - 1) - u \in Longs /\ (0 - 1) - l \in Longs /\ 0 - 1 \in Int
  BY <1>1, LongBounds
<1>4. /\ si_not(si) \in Intervals
      /\ \A e \in Elements(si) : (0 - 1) - e \in Elements(si_not(si))
  BY <1>2, <1>3, TurnedRound
<1>5. ASSUME NEW e \in Elements(si) PROVE Long(0 - 1 - e) = (0 - 1) - e
  <2>1. (0 - 1) - e \in Longs
    BY <1>4, ElementsOf
  <2> QED BY <2>1, LongSame
<1>6. si_is_full(si) => si_is_full(si_not(si))
  <2>1. si_is_full(si) => l = MinLong /\ u = MaxLong
    BY DEF si_is_full, min_si, max_si
  <2>2. si_not(si).lower_bound = (0 - 1) - u /\ si_not(si).upper_bound = (0 - 1) - l
    BY <1>2 DEF Interval
  <2> QED BY <2>1, <2>2, LongBounds DEF si_is_full, min_si, max_si
<1> QED BY <1>4, <1>5, <1>6

LEMMA MulInterval ==
  ASSUME NEW si \in Intervals, NEW c \in Nat \ {0},
         si_is_full(si) \/ {si.lower_bound * c, si.upper_bound * c} \subseteq Longs
  PROVE  /\ si_mul_offset(si, c) \in Intervals
         /\ si_is_full(si) => si_is_full(si_mul_offset(si, c))
         /\ ~ si_is_full(si) => \A e \in Elements(si) : e * c \in Elements(si_mul_offset(si, c))
<1> DEFINE s == si.stride
           l == si.lower_bound
           u == si.upper_bound
           ti == si_mul_offset(si, c)
<1>1. s \in Nat /\ l \in Int /\ u \in Int
  BY IntervalFacts
<1>2. CASE si_is_full(si)
  BY <1>2 DEF si_mul_offset
<1>3. CASE ~ si_is_full(si)
  <2>1. l * c \in Longs /\ u * c \in Longs
    BY <1>3
  <2>2. ti = Interval(ULong(s * c), l * c, u * c)
    <3>1. ti = Interval(ULong(s * c), Long(l * c), Long(u * c))
      BY <1>3 DEF si_mul_offset
    <3> QED BY <3>1, <2>1, LongSame
  <2>3. PICK m \in Nat : u = l + m * s
    BY IntervalFacts
  <2>4. ASSUME NEW k \in Nat PROVE (l + k * s) * c = l * c + k * (s * c)
    <3>1. k * s \in Int /\ (k * s) * c = k * (s * c)
      BY <1>1, Distribute
    <3>2. (l + k * s) * c = l * c + (k * s) * c
      BY <1>1, <3>1, Distribute
    <3> QED BY <3>1, <3>2
  <2>5. s * c \in Nat /\ Words \in Nat \ {0}
    BY <1>1, LongBounds
  <2>6. ASSUME NEW k \in Nat, k <= m PROVE k * (s * c) <= m * (s * c)
    BY <2>5, <2>6, Monotone
  <2>7. ULong(s * c) \in Nat /\ (m # 0 => ULong(s * c) = s * c)
    <3> DEFINE t == s * c
    <3>0. t \in Int /\ Words \in Nat \ {0}
      BY <2>5
    <3> HIDE DEF t
    <3>1. t % Words \in 0 .. Words - 1 /\ t % Words \in Int /\ t \in Int
      BY <3>0, Division
    <3>2. ASSUME m # 0 PROVE t % Words = t
      <4>1. 1 * t <= m * t
        BY <3>2, <2>5, Monotone DEF t
      <4>2. u * c = l * c + m * t
        BY <2>3, <2>4 DEF t
      <4> DEFINE x == m * t
                 y == u * c
                 z == l * c
      <4>3. x \in Int /\ t <= x /\ y = z + x /\ y \in Longs /\ z \in Longs
        <5>1. x \in Int /\ 1 * t = t
          BY <3>1, Distribute
        <5> QED BY <5>1, <4>1, <4>2, <2>1
      <4> HIDE DEF x, y, z
      <4>4. t \in 0 .. Words - 1
        BY <4>3, <3>1, <2>5, LongBounds DEF t
      <4>5. t % Words = t
        <5> DEFINE W == Words
                   q == t \div W
                   r == t % W
        <5>1. W \in Nat \ {0} /\ t \in 0 .. W - 1
          BY <4>4, <2>5
        <5>2. r \in 0 .. W - 1 /\ r \in Int /\ q \in Int /\ t = q * W + r
          <6> HIDE DEF W
          <6> QED BY <5>1, <3>1, Division
        <5>3. t + 0 * W = r + q * W
          <6>1. q * W \in Int /\ 0 * W = 0
            BY <5>1, <5>2, Distribute
          <6> DEFINE p == q * W
          <6> HIDE DEF p, r, q, W
          <6>2. t + 0 = r + p
            BY <5>2, <6>1, <3>1 DEF p
          <6> QED BY <6>1, <6>2 DEF p
        <5> HIDE DEF r, q, W
        <5>4. t = r
          BY <5>1, <5>2, <5>3, <3>1, SameRemainder
        <5> QED BY <5>4 DEF r, W
      <4> QED BY <4>5
    <3> QED BY <3>1, <3>2 DEF t, ULong
  <2>8. ti \in Intervals
    <3>1. u * c = l * c + m * (s * c)
      BY <2>3, <2>4
    <3>2. m * ULong(s * c) = m * (s * c)
      <4>1. m = 0 => m * ULong(s * c) = m * (s * c)
        BY <2>5, <2>7
      <4> QED BY <4>1, <2>7
    <3> HIDE DEF ti, l, u, s
    <3> QED BY <2>1, <2>2, <2>7, <3>1, <3>2, IntervalIs
  <2>9. ASSUME NEW e \in Elements(si) PROVE e * c \in Elements(ti)
    <3>1. PICK k \in Nat : k <= m /\ e = l + k * s
      BY <2>3, MemberIs
    <3>2. k * ULong(s * c) = k * (s * c)
      <4>1. m = 0 => k = 0
        BY <3>1
      <4>2. k = 0 => k * ULong(s * c) = k * (s * c)
        BY <2>5, <2>7
      <4> QED BY <4>1, <4>2, <2>7
    <3>3. e * c = l * c + k * ULong(s * c)
      BY <3>1, <3>2, <2>4
    <3>4. l * c + k * ULong(s * c) <= u * c
      <4> DEFINE x == k * (s * c)
                 y == m * (s * c)
                 z == l * c
                 w == u * c
      <4>1. x \in Int /\ y \in Int /\ z \in Int /\ w = z + y /\ x <= y
        <5>1. x \in Int /\ y \in Int
          BY <2>5, Distribute
        <5>2. w = z + y
          BY <2>3, <2>4
        <5> QED BY <5>1, <5>2, <2>1, <2>6, <3>1, LongBounds
      <4> HIDE DEF x, y, z, w
      <4>2. z + x <= w
        BY <4>1
      <4> QED BY <4>2, <3>2 DEF x, z, w
    <3>5. ti.stride = ULong(s * c) /\ ti.lower_bound = l * c /\ ti.upper_bound = u * c
      BY <2>2 DEF Interval
    <3> HIDE DEF ti
    <3> QED BY <2>8, <3>1, <3>3, <3>4, <3>5, ElementsOf
  <2> QED BY <2>8, <2>9, <1>3
<1> QED BY <1>2, <1>3

-----------------------------------------------------------------------------
(***************************************************************************)
(* Comparisons.  A walk over an interval meets all that it stands for, also*)
(* when its counter wraps.                                                 *)
(***************************************************************************)
LEMMA Walked ==
  ASSUME NEW si \in Intervals, si.stride # 0
  PROVE  Elements(si) \subseteq Visited(si)
<1> DEFINE s == si.stride
           l == si.lower_bound
           u == si.upper_bound
<1>1. s \in Nat \ {0} /\ l \in Int /\ u \in Int /\ l \in Longs /\ u \in Longs /\ Words \in Nat \ {0}
  BY IntervalFacts, LongBounds
<1> SUFFICES ASSUME NEW e \in Elements(si) PROVE e \in Visited(si)
  OBVIOUS
<1>2. PICK k \in Nat : e = l + k * s
  BY ElementsOf
<1>3. e \in Longs /\ l <= e /\ e <= u /\ e \in Int
  BY ElementsOf
<1>4. Counter(si, k) = e
  BY <1>2, <1>3, LongSame DEF Counter
<1>5. k \in 0 .. Words - 1
  <2> DEFINE p == k * s
  <2>1. p \in Int /\ k * 1 <= p /\ e = l + p
    <3>1. 1 * k <= s * k
      BY <1>1, Monotone
    <3>2. 1 * k = k * 1 /\ s * k = p /\ p \in Int
      BY <1>1, Distribute
    <3> QED BY <3>1, <3>2, <1>2
  <2> HIDE DEF p, l, s, u
  <2> QED BY <2>1, <1>1, <1>3, LongBounds
<1>6. CASE ~ Ends(si)
  BY <1>4, <1>5, <1>6 DEF Visited
<1>7. CASE Ends(si)
  <2>1. Exits(si) \in SUBSET Nat /\ Exits(si) # {}
    BY <1>1, <1>7 DEF Ends, Exits
  <2> DEFINE n == Min(Exits(si))
  <2>2. n \in Exits(si)
    BY <2>1, LeastMember
  <2>3. n \in Nat /\ Counter(si, n) > u
    BY <2>1, <2>2 DEF Exits
  <2>4. k < n
    <3> SUFFICES ASSUME n <= k PROVE FALSE
      BY <2>3
    <3> DEFINE p == k * s
               q == n * s
    <3>1. p \in Int /\ q \in Nat /\ q <= p /\ e = l + p
      BY <1>1, <1>2, <2>3, Monotone, Distribute
    <3>2. l + q \in Longs /\ l + q <= u
      <4> HIDE DEF p, q, l, u, n, s
      <4>1. l + q <= e /\ l <= l + q /\ l + q \in Int
        BY <3>1, <1>1
      <4> QED BY <4>1, <1>1, <1>3, LongBounds
    <3>3. Counter(si, n) = l + q
      BY <3>2, LongSame DEF Counter
    <3> HIDE DEF q, l, u, n
    <3> QED BY <3>2, <3>3, <2>3, <1>1, LongBounds
  <2> HIDE DEF n
  <2>5. k \in 0 .. n - 1
    BY <2>3, <2>4
  <2> QED BY <1>4, <1>7, <2>5 DEF Visited, n
<1> QED BY <1>6, <1>7

(* An access whose cells are longs. *)
InReach(si) == ~ si_is_full(si) /\ si.upper_bound + 4 <= MaxLong

LEMMA Reached ==
  ASSUME NEW si \in Intervals, InReach(si)
  PROVE  \A e \in Elements(si) : e \in Int /\ Long(e + 4) = e + 4
<1> TAKE e \in Elements(si)
<1>1. e \in Int /\ e <= si.upper_bound /\ e \in Longs /\ si.upper_bound \in Int
  BY ElementsOf, IntervalFacts
<1>2. e + 4 \in Longs
  BY <1>1, LongBounds DEF InReach
<1> QED BY <1>1, <1>2, LongSame

(* What is said not to overlap does not.                                   *)
LEMMA OverlapNo ==
  ASSUME NEW n \in Longs, n + 4 <= MaxLong, NEW ti \in Intervals, ~ si_is_full(ti) => InReach(ti),
         si_overlap_with_len(One(n), 4, ti, 4) = No
  PROVE  ~ si_is_full(ti) /\ \A e \in Elements(ti) : n + 4 <= e \/ e + 4 <= n
<1>1. n \in Int /\ Long(n + 4) = n + 4
  <2>1. n \in Int /\ n + 4 \in Longs
    BY LongBounds
  <2> QED BY <2>1, LongSame
<1>2. ~ si_is_full(ti) /\ ~ si_is_full(One(n)) /\ One(n).stride = 0 /\ One(n).lower_bound = n
  BY FullIs DEF si_overlap_with_len, Yes, No
<1>3. \A e \in Elements(ti) : e \in Int /\ Long(e + 4) = e + 4
  BY <1>2, Reached
<1>4. \A e \in Elements(ti) : ~ overlap_offsets(n, 4, e, 4)
  <2>1. CASE ti.stride = 0
    <3>1. Elements(ti) = {ti.lower_bound}
      BY <2>1 DEF Elements
    <3>2. ~ overlap_offsets(n, 4, ti.lower_bound, 4)
      BY <1>2, <2>1 DEF si_overlap_with_len, Answer, Yes, No
    <3> QED BY <3>1, <3>2
  <2>2. CASE ti.stride # 0
    <3>1. WalkSome(ti, LAMBDA i : overlap_offsets(n, 4, i, 4)) = No
      BY <1>2, <2>2 DEF si_overlap_with_len
    <3>2. \A i \in Visited(ti) : ~ overlap_offsets(n, 4, i, 4)
      BY <3>1 DEF WalkSome, Yes, No
    <3> QED BY <3>2, <2>2, Walked
  <2> QED BY <2>1, <2>2
<1>5. ASSUME NEW e \in Elements(ti) PROVE n + 4 <= e \/ e + 4 <= n
  BY <1>1, <1>3, <1>4 DEF overlap_offsets
<1> QED BY <1>2, <1>5

(* What lies within one access of the same size is that access.            *)
LEMMA ContainYes ==
  ASSUME NEW n \in Longs, n + 4 <= MaxLong, NEW ti \in Intervals, ~ si_is_full(ti) => InReach(ti),
         si_contain_with_len(One(n), 4, ti, 4) # No
  PROVE  ~ si_is_full(ti) /\ \A e \in Elements(ti) : e = n
<1>1. n \in Int /\ Long(n + 4) = n + 4
  <2>1. n \in Int /\ n + 4 \in Longs
    BY LongBounds
  <2> QED BY <2>1, LongSame
<1>2. ~ si_is_full(One(n)) /\ One(n).stride = 0 /\ One(n).lower_bound = n
  BY FullIs
<1>3. ~ si_is_full(ti)
  BY <1>2 DEF si_contain_with_len
<1>4. \A e \in Elements(ti) : e \in Int /\ Long(e + 4) = e + 4
  BY <1>3, Reached
<1>5. \A e \in Elements(ti) : superset_offsets(n, 4, e, 4)
  <2>1. CASE ti.stride = 0
    <3>1. Elements(ti) = {ti.lower_bound}
      BY <2>1 DEF Elements
    <3>2. superset_offsets(n, 4, ti.lower_bound, 4)
      BY <1>2, <1>3, <2>1 DEF si_contain_with_len, Answer, Yes, No
    <3> QED BY <3>1, <3>2
  <2>2. CASE ti.stride # 0
    <3>1. WalkAll(ti, LAMBDA i : superset_offsets(n, 4, i, 4)) # No
      BY <1>2, <1>3, <2>2 DEF si_contain_with_len
    <3>2. \A i \in Visited(ti) : superset_offsets(n, 4, i, 4)
      BY <3>1 DEF WalkAll
    <3> QED BY <3>2, <2>2, Walked
  <2> QED BY <2>1, <2>2
<1>6. ASSUME NEW e \in Elements(ti) PROVE e = n
  BY <1>1, <1>4, <1>5 DEF superset_offsets
<1> QED BY <1>3, <1>6

-----------------------------------------------------------------------------
(***************************************************************************)
(* Values and value sets.  Without the operations on bits, a set has at    *)
(* most one region.                                                        *)
(***************************************************************************)
Regions ==
  ({CONST_REGION, GLOBAL_REGION, STACK_REGION}
     \cup {i.preset[1].region : i \in {j \in Instructions : j.preset # <<>>}}
     \cup {v[1] : v \in Unknowns}) \ {"none", "garbage"}
Values  == {Garbage} \cup ((Regions \ {GLOBAL_REGION}) \X Longs)
Sets    == {<<>>} \cup {Single(r, si) : r \in Regions, si \in Intervals}

LEMMA ValueFacts ==
  /\ \A v \in Values : \/ v = Garbage
                       \/ /\ v = <<v[1], v[2]>> /\ v[1] \in Regions /\ v[1] # GLOBAL_REGION
                          /\ v[1] # "garbage" /\ v[2] \in Longs /\ v[2] \in Int
  /\ \A v \in Values : v[2] \in Int /\ (v[1] = "garbage" <=> v = Garbage)
  /\ \A v \in Values : v # Garbage => Value(v[1], v[2]) = v
<1>1. Garbage[1] = "garbage" /\ Garbage[2] = 0
  BY DEF Garbage
<1>2. ASSUME NEW v \in (Regions \ {GLOBAL_REGION}) \X Longs
      PROVE  /\ v = <<v[1], v[2]>> /\ v[1] \in Regions /\ v[1] # GLOBAL_REGION
             /\ v[1] # "garbage" /\ v[2] \in Longs /\ v[2] \in Int /\ v # Garbage
             /\ Value(v[1], v[2]) = v
  <2>1. v = <<v[1], v[2]>> /\ v[1] \in Regions /\ v[1] # GLOBAL_REGION /\ v[2] \in Longs
    OBVIOUS
  <2>2. v[1] # "garbage" /\ v[2] \in Int
    BY <2>1, LongBounds DEF Regions
  <2>3. v # Garbage
    BY <2>2, <1>1
  <2>4. Value(v[1], v[2]) = v
    BY <2>1, <2>2, LongSame DEF Value
  <2> QED BY <2>1, <2>2, <2>3, <2>4
<1> QED BY <1>1, <1>2 DEF Values

LEMMA ValueOf ==
  /\ \A b \in Regions : \A n \in Int :
       b # GLOBAL_REGION => /\ Value(b, n) \in Values /\ Value(b, n)[1] = b /\ Value(b, n)[2] = Long(n)
                            /\ Value(b, n) = <<b, Long(n)>>
  /\ Garbage \in Values /\ \A n : Value("garbage", n) = Garbage
  /\ CONST_REGION \in Regions /\ GLOBAL_REGION \in Regions /\ STACK_REGION \in Regions
  /\ STACK_REGION # GLOBAL_REGION
  /\ CONST_REGION # GLOBAL_REGION /\ CONST_REGION # "garbage"
  /\ \A n \in Int : Num(n) \in Values /\ Num(n)[1] = CONST_REGION /\ Num(n)[2] = Long(n)
<1>1. CONST_REGION \in Regions /\ GLOBAL_REGION \in Regions /\ STACK_REGION \in Regions
      /\ STACK_REGION # GLOBAL_REGION
      /\ CONST_REGION # GLOBAL_REGION /\ CONST_REGION # "garbage"
  BY DEF Regions, CONST_REGION, GLOBAL_REGION, STACK_REGION
<1>2. ASSUME NEW b \in Regions, NEW n \in Int, b # GLOBAL_REGION
      PROVE  /\ Value(b, n) \in Values /\ Value(b, n)[1] = b /\ Value(b, n)[2] = Long(n)
             /\ Value(b, n) = <<b, Long(n)>>
  <2>1. b # "garbage"
    BY DEF Regions
  <2>2. Value(b, n) = <<b, Long(n)>> /\ Long(n) \in Longs
    BY <2>1, LongOf DEF Value
  <2> QED BY <2>2, <1>2 DEF Values
<1>3. Garbage \in Values /\ \A n : Value("garbage", n) = Garbage
  BY DEF Values, Value
<1> QED BY <1>1, <1>2, <1>3 DEF Num

LEMMA NumOf ==
  \A n \in Longs : Num(n) = <<CONST_REGION, n>> /\ Num(n) \in Values /\ Num(n)[2] = n /\ IsNumber(Num(n))
<1> TAKE n \in Longs
<1>1. n \in Int /\ Long(n) = n
  BY LongBounds, LongSame
<1> QED BY <1>1, ValueOf DEF Num, IsNumber

(* The value of a place some numbers further on. *)
LEMMA Shifted ==
  ASSUME NEW v \in Values, NEW n \in Int
  PROVE  /\ Value(v[1], n) \in Values
         /\ v # Garbage => /\ Value(v[1], n) = <<v[1], Long(n)>>
                           /\ Value(v[1], n)[1] = v[1] /\ Value(v[1], n)[2] = Long(n)
<1>1. CASE v = Garbage
  <2>1. v[1] = "garbage"
    BY <1>1 DEF Garbage
  <2> QED BY <2>1, <1>1, ValueOf
<1>2. CASE v # Garbage
  <2>1. v[1] \in Regions /\ v[1] # GLOBAL_REGION
    BY <1>2, ValueFacts
  <2> QED BY <2>1, ValueOf
<1> QED BY <1>1, <1>2

LEMMA SumOf ==
  ASSUME NEW v \in Values, NEW w \in Values
  PROVE  /\ Plus(v, w) \in Values /\ Minus(v, w) \in Values
         /\ \A n \in Int : Times(v, n) \in Values
         /\ Plus(v, Num(0)) = v
<1>1. v[2] \in Int /\ w[2] \in Int
  BY ValueFacts
<1>2. v[2] + w[2] \in Int /\ v[2] - w[2] \in Int
  BY <1>1
<1>3. Plus(v, w) \in Values
  BY <1>2, Shifted, ValueOf DEF Plus
<1>4. Minus(v, w) \in Values
  BY <1>2, Shifted, ValueOf DEF Minus
<1>5. ASSUME NEW n \in Int PROVE Times(v, n) \in Values
  <2>1. v[2] * n \in Int
    BY <1>1, Distribute
  <2> QED BY <2>1, ValueOf DEF Times
<1>6. Plus(v, Num(0)) = v
  <2>1. Num(0) = <<CONST_REGION, 0>> /\ IsNumber(Num(0)) /\ Num(0)[2] = 0 /\ Num(0)[1] = CONST_REGION
    <3>1. 0 \in Longs
      BY LongBounds
    <3> QED BY <3>1, NumOf, ValueOf
  <2>2. v[2] + 0 = v[2]
    BY <1>1
  <2>3. CASE v = Garbage
    <3>1. ~ IsNumber(v) /\ v[1] = "garbage"
      BY <2>3, ValueOf DEF IsNumber, Garbage
    <3> QED BY <3>1, <2>1, <2>3, ValueOf DEF Plus
  <2>4. CASE v # Garbage /\ IsNumber(v)
    <3>1. Plus(v, Num(0)) = Value(CONST_REGION, v[2])
      BY <2>1, <2>2, <2>4 DEF Plus
    <3>2. v[1] = CONST_REGION
      BY <2>4 DEF IsNumber
    <3> QED BY <3>1, <3>2, <2>4, ValueFacts
  <2>5. CASE v # Garbage /\ ~ IsNumber(v)
    <3>1. Plus(v, Num(0)) = Value(v[1], v[2])
      BY <2>1, <2>2, <2>5 DEF Plus
    <3> QED BY <3>1, <2>5, ValueFacts
  <2> QED BY <2>3, <2>4, <2>5
<1> QED BY <1>3, <1>4, <1>5, <1>6

(* A set of one region. *)
LEMMA OfSingle ==
  ASSUME NEW r, NEW si
  PROVE  /\ Len(Single(r, si)) = 1 /\ DOMAIN Single(r, si) = {1} /\ Single(r, si) # <<>>
         /\ Single(r, si)[1] = Entry(r, si) /\ Single(r, si)[1].region = r /\ Single(r, si)[1].si = si
         /\ ~ valset_is_empty(Single(r, si)) /\ (valset_is_const(Single(r, si)) <=> r = CONST_REGION)
         /\ \A q : Holds(q, Single(r, si)) <=> q = r
<1>1. /\ Len(Single(r, si)) = 1 /\ DOMAIN Single(r, si) = {1} /\ Single(r, si) # <<>>
      /\ Single(r, si)[1] = Entry(r, si) /\ Single(r, si)[1].region = r /\ Single(r, si)[1].si = si
  BY DEF Single, Entry
<1> QED BY <1>1 DEF valset_is_empty, valset_is_const, count_region_num, Holds

LEMMA FindSingle == ASSUME NEW r, NEW si PROVE find_region_in_valset(Single(r, si), r) = si
<1>1. {k \in DOMAIN Single(r, si) : Single(r, si)[k].region = r} = {1}
  BY OfSingle
<1>2. Min({1}) = 1
  BY DEF Min
<1>3. Min({k \in DOMAIN Single(r, si) : Single(r, si)[k].region = r}) = 1
  BY <1>1, <1>2, Zenon
<1>4. find_region_in_valset(Single(r, si), r)
        = Single(r, si)[Min({k \in DOMAIN Single(r, si) : Single(r, si)[k].region = r})].si
  BY DEF find_region_in_valset
<1>5. find_region_in_valset(Single(r, si), r) = Single(r, si)[1].si
  BY <1>3, <1>4, Zenon
<1> QED BY <1>5, OfSingle

LEMMA OfSets ==
  /\ \A vs \in Sets : vs = <<>> \/ \E r \in Regions, si \in Intervals : vs = Single(r, si)
  /\ <<>> \in Sets /\ \A r \in Regions, si \in Intervals : Single(r, si) \in Sets
  /\ valset_is_empty(<<>>) /\ DOMAIN <<>> = {} /\ ~ valset_is_const(<<>>)
  /\ \A n \in Longs : Number(n) \in Sets
<1>1. \A n \in Longs : Number(n) \in Sets
  BY FullIs, ValueOf DEF Number, Sets
<1> QED BY <1>1 DEF Sets, valset_is_empty, valset_is_const, count_region_num

LEMMA InSets ==
  /\ \A v : In(v, <<>>)
  /\ \A v, r, si : In(v, Single(r, si)) <=> si_is_full(si) \/ (Base(r) = v[1] /\ v[2] \in Elements(si))
<1>1. \A v : In(v, <<>>)
  BY DEF In
<1>2. ASSUME NEW v, NEW r, NEW si
      PROVE  In(v, Single(r, si)) <=> si_is_full(si) \/ (Base(r) = v[1] /\ v[2] \in Elements(si))
  BY OfSingle DEF In
<1> QED BY <1>1, <1>2

(* No region is called "garbage". *)
LEMMA BaseIs ==
  \A r \in Regions : /\ Base(r) \in Regions /\ Base(r) # GLOBAL_REGION /\ Base(r) # "garbage"
                     /\ (r # GLOBAL_REGION => Base(r) = r)
                     /\ Base(CONST_REGION) = CONST_REGION /\ Base(GLOBAL_REGION) = CONST_REGION
BY ValueOf DEF Base, Regions

-----------------------------------------------------------------------------
(***************************************************************************)
(* Operations on sets of one region.                                       *)
(***************************************************************************)
LEMMA OneTuple == ASSUME NEW e PROVE [k \in {1} |-> e] = <<e>>
OBVIOUS

LEMMA NoTuple == ASSUME NEW e PROVE [k \in DOMAIN <<>> |-> e] = <<>>
OBVIOUS

LEMMA AddOffsetOf ==
  ASSUME NEW c
  PROVE  /\ valset_add_offset(<<>>, <<>>, c) = <<>>
         /\ \A r, si : valset_add_offset(<<>>, Single(r, si), c) = Single(r, si_add_offset(si, c))
<1>1. valset_add_offset(<<>>, <<>>, c) = <<>>
  BY DEF valset_add_offset, OnCopy, OnEach, assign_value_set
<1>2. ASSUME NEW r, NEW si
      PROVE  valset_add_offset(<<>>, Single(r, si), c) = Single(r, si_add_offset(si, c))
  <2> DEFINE vs == Single(r, si)
  <2>1. valset_add_offset(<<>>, vs, c) = [k \in {1} |-> [vs[k] EXCEPT !.si = si_add_offset(@, c)]]
    BY OfSingle DEF valset_add_offset, OnCopy, OnEach, assign_value_set, valset_is_empty
  <2>2. [vs[1] EXCEPT !.si = si_add_offset(@, c)] = Entry(r, si_add_offset(si, c))
    BY DEF Single, Entry
  <2>3. [k \in {1} |-> [vs[k] EXCEPT !.si = si_add_offset(@, c)]] = [k \in {1} |-> Entry(r, si_add_offset(si, c))]
    BY <2>2
  <2> QED BY <2>1, <2>3, OneTuple DEF Single
<1> QED BY <1>1, <1>2

LEMMA MulOffsetOf ==
  ASSUME NEW c
  PROVE  /\ valset_mul_offset(<<>>, <<>>, c) = <<>>
         /\ \A r, si : valset_mul_offset(<<>>, Single(r, si), c) = Single(r, si_mul_offset(si, c))
<1>1. valset_mul_offset(<<>>, <<>>, c) = <<>>
  BY DEF valset_mul_offset, OnCopy, OnEach, assign_value_set
<1>2. ASSUME NEW r, NEW si
      PROVE  valset_mul_offset(<<>>, Single(r, si), c) = Single(r, si_mul_offset(si, c))
  <2> DEFINE vs == Single(r, si)
  <2>1. valset_mul_offset(<<>>, vs, c) = [k \in {1} |-> [vs[k] EXCEPT !.si = si_mul_offset(@, c)]]
    BY OfSingle DEF valset_mul_offset, OnCopy, OnEach, assign_value_set, valset_is_empty
  <2>2. [vs[1] EXCEPT !.si = si_mul_offset(@, c)] = Entry(r, si_mul_offset(si, c))
    BY DEF Single, Entry
  <2>3. [k \in {1} |-> [vs[k] EXCEPT !.si = si_mul_offset(@, c)]] = [k \in {1} |-> Entry(r, si_mul_offset(si, c))]
    BY <2>2
  <2> QED BY <2>1, <2>3, OneTuple DEF Single
<1> QED BY <1>1, <1>2

LEMMA AddSiOf ==
  ASSUME NEW c, NEW r, NEW si
  PROVE  valset_add_si(<<>>, Single(r, si), c) = Single(r, si_add(si, c))
<1> DEFINE vs == Single(r, si)
<1>1. valset_add_si(<<>>, vs, c) = [k \in {1} |-> [vs[k] EXCEPT !.si = si_add(@, c)]]
  BY OfSingle DEF valset_add_si, OnCopy, OnEach, assign_value_set, valset_is_empty
<1>2. [vs[1] EXCEPT !.si = si_add(@, c)] = Entry(r, si_add(si, c))
  BY DEF Single, Entry
<1>3. [k \in {1} |-> [vs[k] EXCEPT !.si = si_add(@, c)]] = [k \in {1} |-> Entry(r, si_add(si, c))]
  BY <1>2
<1> QED BY <1>1, <1>3, OneTuple DEF Single

LEMMA NotOf ==
  /\ valset_not(<<>>, <<>>) = <<>>
  /\ \A r, si : valset_not(<<>>, Single(r, si)) = Single(r, si_not(si))
<1>1. valset_not(<<>>, <<>>) = <<>>
  BY DEF valset_not, OnCopy, OnEach, assign_value_set
<1>2. ASSUME NEW r, NEW si
      PROVE  valset_not(<<>>, Single(r, si)) = Single(r, si_not(si))
  <2> DEFINE vs == Single(r, si)
  <2>1. valset_not(<<>>, vs) = [k \in {1} |-> [vs[k] EXCEPT !.si = si_not(@)]]
    BY OfSingle DEF valset_not, OnCopy, OnEach, assign_value_set, valset_is_empty
  <2>2. [vs[1] EXCEPT !.si = si_not(@)] = Entry(r, si_not(si))
    BY DEF Single, Entry
  <2>3. [k \in {1} |-> [vs[k] EXCEPT !.si = si_not(@)]] = [k \in {1} |-> Entry(r, si_not(si))]
    BY <2>2
  <2> QED BY <2>1, <2>3, OneTuple DEF Single
<1> QED BY <1>1, <1>2

LEMMA NegOf ==
  /\ valset_neg(<<>>) = <<>>
  /\ \A r, si : valset_neg(Single(r, si)) = Single(r, si_neg(si))
<1>1. valset_neg(<<>>) = <<>>
  BY DEF valset_neg, OnEach
<1>2. ASSUME NEW r, NEW si
      PROVE  valset_neg(Single(r, si)) = Single(r, si_neg(si))
  <2> DEFINE vs == Single(r, si)
  <2>1. valset_neg(vs) = [k \in {1} |-> [vs[k] EXCEPT !.si = si_neg(@)]]
    BY OfSingle DEF valset_neg, OnEach
  <2>2. [vs[1] EXCEPT !.si = si_neg(@)] = Entry(r, si_neg(si))
    BY DEF Single, Entry
  <2>3. [k \in {1} |-> [vs[k] EXCEPT !.si = si_neg(@)]] = [k \in {1} |-> Entry(r, si_neg(si))]
    BY <2>2
  <2> QED BY <2>1, <2>3, OneTuple DEF Single
<1> QED BY <1>1, <1>2

LEMMA ModifyRegionOf ==
  ASSUME NEW r, NEW si, NEW q
  PROVE  valset_modify_region(Single(r, si), q) = Single(q, si)
<1> DEFINE vs == Single(r, si)
<1>1. valset_modify_region(vs, q) = [k \in {1} |-> [vs[k] EXCEPT !.region = q]]
  BY OfSingle DEF valset_modify_region
<1>2. [vs[1] EXCEPT !.region = q] = Entry(q, si)
  BY DEF Single, Entry
<1>3. [k \in {1} |-> [vs[k] EXCEPT !.region = q]] = [k \in {1} |-> Entry(q, si)]
  BY <1>2
<1> QED BY <1>1, <1>3, OneTuple DEF Single

LEMMA AddNewOf ==
  ASSUME NEW r, NEW si
  PROVE  add_new_valset(<<>>, r, si) = Single(r, si)
<1>1. ~ check_vs_in_list(Entry(r, si), <<>>)
  BY DEF check_vs_in_list
<1>2. Append(<<>>, Entry(r, si)) = <<Entry(r, si)>>
  OBVIOUS
<1> QED BY <1>1, <1>2 DEF add_new_valset, Single

LEMMA SubOf ==
  ASSUME NEW q, NEW si, NEW r, NEW ti
  PROVE  valset_sub(<<>>, Single(q, si), Single(r, ti)) =
           IF q = r THEN Single(CONST_REGION, si_sub(si, ti))
           ELSE IF r = CONST_REGION THEN Single(q, si_sub(si, ti)) ELSE Abort
<1> DEFINE vs == Single(q, si)
           ws == Single(r, ti)
<1>1. valset_check_same_region(vs, ws) <=> q = r
  <2>1. valset_region_contain(vs, ws) <=> r = q
    BY OfSingle DEF valset_region_contain
  <2>2. valset_region_contain(ws, vs) <=> q = r
    BY OfSingle DEF valset_region_contain
  <2> QED BY <2>1, <2>2, OfSingle DEF valset_check_same_region, count_region_num
<1>2. CASE q = r
  <2> DEFINE D == DOMAIN vs
             new(dest, e) == add_new_valset(dest, CONST_REGION,
                               si_sub(e.si, find_region_in_valset(ws, e.region)))
             F(g) == [s \in SUBSET D |-> IF s = {} THEN <<>> ELSE new(g[s \ {Max(s)}], vs[Max(s)])]
             it == CHOOSE g : g = F(g)
             g0 == [s \in SUBSET D |-> IF s = {} THEN <<>> ELSE new(<<>>, vs[1])]
  <2>0. D = {1} /\ ~ valset_is_empty(vs) /\ ~ valset_is_empty(ws) /\ valset_check_same_region(vs, ws)
    BY <1>1, <1>2, OfSingle
  <2>1. Max({1}) = 1
    BY DEF Max
  <2>2. \A s \in SUBSET D : s = {} \/ s = {1}
    BY <2>0
  <2>3. {1} \ {1} = {} /\ {1} \in SUBSET D /\ {} \in SUBSET D /\ {1} # {}
    BY <2>0
  <2>7. valset_sub(<<>>, vs, ws) = it[D]
    <3> HIDE DEF vs, ws
    <3> QED BY <2>0, Zenon DEF valset_sub, FoldLeft, MapThenFoldSet
  <2>8. new(<<>>, vs[1]) = Single(CONST_REGION, si_sub(si, ti))
    BY <1>2, OfSingle, FindSingle, AddNewOf
  <2> HIDE DEF vs, ws
  <2>4. g0 = F(g0)
    <3> HIDE DEF new, D
    <3>1. \A s \in SUBSET D : g0[s] = IF s = {} THEN <<>> ELSE new(<<>>, vs[1])
      OBVIOUS
    <3>2. \A s \in SUBSET D : F(g0)[s] = IF s = {} THEN <<>> ELSE new(g0[s \ {Max(s)}], vs[Max(s)])
      OBVIOUS
    <3>3. g0[{}] = <<>>
      BY <2>3, <3>1
    <3>4. \A s \in SUBSET D : g0[s] = F(g0)[s]
      <4> SUFFICES ASSUME NEW s \in SUBSET D PROVE g0[s] = F(g0)[s]
        OBVIOUS
      <4>1. CASE s = {}
        BY <4>1, <3>1, <3>2
      <4>2. CASE s = {1}
        <5>1. g0[{1}] = new(<<>>, vs[1])
          BY <2>3, <3>1
        <5>2. F(g0)[{1}] = new(g0[{1} \ {Max({1})}], vs[Max({1})])
          BY <2>3, <3>2
        <5>3. F(g0)[{1}] = new(<<>>, vs[1])
          BY <5>2, <2>1, <2>3, <3>3
        <5> QED BY <4>2, <5>1, <5>3
      <4> QED BY <4>1, <4>2, <2>2
    <3> QED BY <3>4
  <2>5. it = F(it)
    <3> HIDE DEF F, g0
    <3> QED BY <2>4
  <2>6. it[{1}] = new(<<>>, vs[1])
    <3> HIDE DEF new, it, D
    <3>1. it[{}] = <<>>
      BY <2>5, <2>3
    <3>2. it[{1}] = new(it[{1} \ {Max({1})}], vs[Max({1})])
      BY <2>5, <2>3
    <3> QED BY <3>1, <3>2, <2>1, <2>3
  <2> QED BY <2>0, <2>6, <2>7, <2>8, <1>2 DEF vs, ws
<1>3. CASE q # r
  <2>1. ~ valset_is_empty(vs) /\ ~ valset_is_empty(ws) /\ ~ valset_check_same_region(vs, ws)
        /\ (valset_is_const(ws) <=> r = CONST_REGION) /\ ws[1].si = ti
    BY <1>1, <1>3, OfSingle
  <2>2. valset_sub_si(<<>>, vs, ti) = Single(q, si_sub(si, ti))
    BY AddSiOf DEF valset_sub_si, si_sub
  <2> HIDE DEF vs, ws
  <2>3. valset_sub(<<>>, vs, ws) = IF r = CONST_REGION THEN valset_sub_si(<<>>, vs, ti) ELSE Abort
    <3>1. valset_sub(<<>>, vs, ws) =
            IF valset_is_const(ws) THEN valset_sub_si(<<>>, vs, ws[1].si) ELSE Abort
      BY <2>1, Zenon DEF valset_sub
    <3> QED BY <2>1, <3>1
  <2> QED BY <2>2, <2>3, <1>3 DEF vs, ws
<1> QED BY <1>2, <1>3

(* Two sets of which a sum is not broken. *)
LEMMA UnbrokenOf ==
  ASSUME NEW q, NEW si, NEW r, NEW ti
  PROVE  Unbroken(Single(q, si), Single(r, ti)) <=>
           \/ si_is_full(si) \/ si_is_full(ti)
           \/ Long(si.upper_bound + ti.upper_bound) - Long(si.lower_bound + ti.lower_bound)
                = (si.upper_bound + ti.upper_bound) - (si.lower_bound + ti.lower_bound)
BY OfSingle DEF Unbroken

LEMMA UnbrokenByOf ==
  ASSUME NEW q, NEW si, NEW c \in Longs
  PROVE  Unbroken(Single(q, si), Number(c)) <=>
           \/ si_is_full(si)
           \/ Long(si.upper_bound + c) - Long(si.lower_bound + c) = (si.upper_bound + c) - (si.lower_bound + c)
<1>1. ~ si_is_full(One(c)) /\ One(c).upper_bound = c /\ One(c).lower_bound = c
  BY FullIs
<1> QED BY <1>1, UnbrokenOf DEF Number

(* A set that holds a value, moved on. *)
LEMMA AddOffsetSound ==
  ASSUME NEW vs \in Sets, NEW c \in Int, NEW v \in Values, In(v, vs),
         \A q \in Regions, si \in Intervals : vs = Single(q, si) =>
           \/ si_is_full(si)
           \/ Long(si.upper_bound + c) - Long(si.lower_bound + c) = (si.upper_bound + c) - (si.lower_bound + c)
  PROVE  /\ valset_add_offset(<<>>, vs, c) \in Sets
         /\ In(Value(v[1], v[2] + c), valset_add_offset(<<>>, vs, c))
<1>1. CASE vs = <<>>
  BY <1>1, AddOffsetOf, OfSets, InSets
<1>2. ASSUME NEW q \in Regions, NEW si \in Intervals, vs = Single(q, si)
      PROVE  /\ valset_add_offset(<<>>, vs, c) \in Sets
             /\ In(Value(v[1], v[2] + c), valset_add_offset(<<>>, vs, c))
  <2> DEFINE ti == si_add_offset(si, c)
  <2>1. valset_add_offset(<<>>, vs, c) = Single(q, ti)
    BY <1>2, AddOffsetOf
  <2>2. /\ ti \in Intervals /\ (si_is_full(si) => si_is_full(ti))
        /\ ~ si_is_full(si) => \A e \in Elements(si) : Long(e + c) \in Elements(ti)
    BY <1>2, AddOffset
  <2>3. CASE si_is_full(si)
    BY <2>1, <2>2, <2>3, OfSets, InSets
  <2>4. CASE ~ si_is_full(si)
    <3>1. Base(q) = v[1] /\ v[2] \in Elements(si)
      BY <1>2, <2>4, InSets
    <3>2. v # Garbage /\ v[2] \in Int
      BY <3>1, BaseIs, ValueFacts
    <3>3. Value(v[1], v[2] + c)[1] = v[1] /\ Value(v[1], v[2] + c)[2] = Long(v[2] + c)
      BY <3>2, Shifted
    <3> QED BY <2>1, <2>2, <2>4, <3>1, <3>3, OfSets, InSets
  <2> QED BY <2>3, <2>4
<1> QED BY <1>1, <1>2, OfSets

(* The number is taken for a long first, which makes no difference.        *)
LEMMA PlusNum ==
  ASSUME NEW v \in Values, NEW c \in Int
  PROVE  Plus(v, Num(c)) = Value(v[1], v[2] + c)
<1>1. Num(c)[2] = Long(c) /\ IsNumber(Num(c)) /\ Num(c)[1] = CONST_REGION /\ v[2] \in Int
  BY ValueOf, ValueFacts DEF IsNumber
<1>2. Plus(v, Num(c)) = Value(v[1], v[2] + Long(c))
  BY <1>1 DEF Plus, IsNumber
<1>3. Long(v[2] + Long(c)) = Long(v[2] + c)
  <2> DEFINE a == v[2]
  <2>1. a \in Int
    BY <1>1
  <2> HIDE DEF a
  <2>2. Long(a + Long(c)) = Long(c + a)
    BY <2>1, LongSum
  <2>3. c + a = a + c
    BY <2>1
  <2> QED BY <2>2, <2>3 DEF a
<1> QED BY <1>2, <1>3 DEF Value

(* What is added to a number. *)
LEMMA PlusOf ==
  ASSUME NEW v \in Values, NEW w \in Values
  PROVE  /\ IsNumber(v) => Plus(v, w) = Value(w[1], v[2] + w[2])
         /\ IsNumber(w) => Plus(v, w) = Value(v[1], v[2] + w[2])
BY DEF Plus, IsNumber

LEMMA AddSound ==
  ASSUME NEW vs \in Sets, NEW ws \in Sets, NEW v \in Values, NEW w \in Values, In(v, vs), In(w, ws),
         Unbroken(vs, ws), valset_add(<<>>, vs, ws) # Abort
  PROVE  valset_add(<<>>, vs, ws) \in Sets /\ In(Plus(v, w), valset_add(<<>>, vs, ws))
<1> DEFINE R == valset_add(<<>>, vs, ws)
<1>0. v[2] \in Int /\ w[2] \in Int /\ v[2] + w[2] \in Int /\ w[2] + v[2] = v[2] + w[2]
  BY ValueFacts
<1>1. CASE vs = <<>> \/ ws = <<>>
  <2>1. R = <<>>
    BY <1>1, OfSets DEF valset_add
  <2> QED BY <2>1, OfSets, InSets
<1>2. ASSUME NEW q \in Regions, NEW si \in Intervals, vs = Single(q, si),
             NEW r \in Regions, NEW ti \in Intervals, ws = Single(r, ti)
      PROVE  R \in Sets /\ In(Plus(v, w), R)
  <2>1. \/ si_is_full(si) \/ si_is_full(ti)
        \/ Long(si.upper_bound + ti.upper_bound) - Long(si.lower_bound + ti.lower_bound)
             = (si.upper_bound + ti.upper_bound) - (si.lower_bound + ti.lower_bound)
    BY <1>2, UnbrokenOf
  <2>2. /\ R = IF q = CONST_REGION THEN valset_add_si(<<>>, ws, si)
               ELSE IF r = CONST_REGION THEN valset_add_si(<<>>, vs, ti) ELSE Abort
    BY <1>2, OfSingle DEF valset_add
  <2>3. (v[1] = Base(q) /\ v[2] \in Elements(si)) \/ si_is_full(si)
    BY <1>2, InSets
  <2>4. (w[1] = Base(r) /\ w[2] \in Elements(ti)) \/ si_is_full(ti)
    BY <1>2, InSets
  <2>5. CASE q = CONST_REGION
    <3>1. R = Single(r, si_add(ti, si))
      BY <1>2, <2>2, <2>5, AddSiOf
    <3>2. /\ si_add(ti, si) \in Intervals
          /\ si_is_full(ti) \/ si_is_full(si) => si_is_full(si_add(ti, si))
          /\ ~ si_is_full(ti) /\ ~ si_is_full(si) =>
               \A e \in Elements(ti), f \in Elements(si) : Long(e + f) \in Elements(si_add(ti, si))
      <4>1. /\ si.upper_bound + ti.upper_bound = ti.upper_bound + si.upper_bound
            /\ si.lower_bound + ti.lower_bound = ti.lower_bound + si.lower_bound
        BY IntervalFacts
      <4> QED BY <4>1, <2>1, AddIntervals
    <3>3. CASE si_is_full(si) \/ si_is_full(ti)
      BY <3>1, <3>2, <3>3, OfSets, InSets
    <3>4. CASE ~ si_is_full(si) /\ ~ si_is_full(ti)
      <4>1. IsNumber(v) /\ w # Garbage
        BY <2>3, <2>4, <2>5, <3>4, BaseIs, ValueFacts DEF IsNumber
      <4>2. Plus(v, w) = Value(w[1], v[2] + w[2])
        BY <4>1, PlusOf
      <4>3. Plus(v, w)[1] = w[1] /\ Plus(v, w)[2] = Long(w[2] + v[2])
        BY <4>1, <4>2, <1>0, Shifted
      <4> QED BY <4>3, <3>1, <3>2, <2>3, <2>4, <3>4, OfSets, InSets
    <3> QED BY <3>3, <3>4
  <2>6. CASE q # CONST_REGION /\ r = CONST_REGION
    <3>1. R = Single(q, si_add(si, ti))
      BY <1>2, <2>2, <2>6, AddSiOf
    <3>2. /\ si_add(si, ti) \in Intervals
          /\ si_is_full(si) \/ si_is_full(ti) => si_is_full(si_add(si, ti))
          /\ ~ si_is_full(si) /\ ~ si_is_full(ti) =>
               \A e \in Elements(si), f \in Elements(ti) : Long(e + f) \in Elements(si_add(si, ti))
      BY <2>1, AddIntervals
    <3>3. CASE si_is_full(si) \/ si_is_full(ti)
      BY <3>1, <3>2, <3>3, OfSets, InSets
    <3>4. CASE ~ si_is_full(si) /\ ~ si_is_full(ti)
      <4>1. IsNumber(w) /\ v # Garbage
        BY <2>3, <2>4, <2>6, <3>4, BaseIs, ValueFacts DEF IsNumber
      <4>2. Plus(v, w) = Value(v[1], v[2] + w[2])
        BY <4>1, PlusOf
      <4>3. Plus(v, w)[1] = v[1] /\ Plus(v, w)[2] = Long(v[2] + w[2])
        BY <4>1, <4>2, <1>0, Shifted
      <4> QED BY <4>3, <3>1, <3>2, <2>3, <2>4, <3>4, OfSets, InSets
    <3> QED BY <3>3, <3>4
  <2>7. CASE q # CONST_REGION /\ r # CONST_REGION
    BY <2>2, <2>7
  <2> QED BY <2>5, <2>6, <2>7
<1> QED BY <1>1, <1>2, OfSets

LEMMA SubIntervals ==
  ASSUME NEW si \in Intervals, NEW ti \in Intervals,
         \/ si_is_full(si) \/ si_is_full(si_neg(ti))
         \/ Long(si.upper_bound + si_neg(ti).upper_bound) - Long(si.lower_bound + si_neg(ti).lower_bound)
              = (si.upper_bound + si_neg(ti).upper_bound) - (si.lower_bound + si_neg(ti).lower_bound)
  PROVE  /\ si_sub(si, ti) \in Intervals
         /\ si_is_full(si) \/ si_is_full(ti) => si_is_full(si_sub(si, ti))
         /\ ~ si_is_full(si) /\ ~ si_is_full(ti) =>
              \/ si_is_full(si_sub(si, ti))
              \/ \A e \in Elements(si), f \in Elements(ti) : Long(e - f) \in Elements(si_sub(si, ti))
<1> DEFINE ni == si_neg(ti)
<1>1. /\ ni \in Intervals
      /\ si_is_full(ti) => si_is_full(ni)
      /\ ~ si_is_full(ti) => \/ si_is_full(ni)
                             \/ \A f \in Elements(ti) : Long(0 - f) \in Elements(ni)
  BY NegInterval
<1>2. /\ si_add(si, ni) \in Intervals
      /\ si_is_full(si) \/ si_is_full(ni) => si_is_full(si_add(si, ni))
      /\ ~ si_is_full(si) /\ ~ si_is_full(ni) =>
           \A e \in Elements(si), f \in Elements(ni) : Long(e + f) \in Elements(si_add(si, ni))
  <2> HIDE DEF ni
  <2>1. \/ si_is_full(si) \/ si_is_full(ni)
        \/ Long(si.upper_bound + ni.upper_bound) - Long(si.lower_bound + ni.lower_bound)
             = (si.upper_bound + ni.upper_bound) - (si.lower_bound + ni.lower_bound)
    BY DEF ni
  <2> QED BY <2>1, <1>1, AddIntervals
<1>3. si_sub(si, ti) = si_add(si, ni)
  BY DEF si_sub
<1> HIDE DEF ni
<1>4. ASSUME ~ si_is_full(si), ~ si_is_full(ni), NEW e \in Elements(si), NEW f \in Elements(ti),
             Long(0 - f) \in Elements(ni)
      PROVE  Long(e - f) \in Elements(si_add(si, ni))
  <2>1. e \in Int /\ f \in Int /\ 0 - f \in Int
    BY ElementsOf
  <2>2. Long(e + Long(0 - f)) = Long(e + (0 - f))
    BY <2>1, LongSum
  <2>3. e + (0 - f) = e - f
    BY <2>1
  <2> QED BY <1>2, <1>4, <2>2, <2>3
<1> QED BY <1>1, <1>2, <1>3, <1>4

LEMMA SubSound ==
  ASSUME NEW vs \in Sets, NEW ws \in Sets, NEW v \in Values, NEW w \in Values, In(v, vs), In(w, ws),
         Unbroken(vs, valset_neg(ws)), valset_sub(<<>>, vs, ws) # Abort
  PROVE  valset_sub(<<>>, vs, ws) \in Sets /\ In(Minus(v, w), valset_sub(<<>>, vs, ws))
<1> DEFINE R == valset_sub(<<>>, vs, ws)
<1>0. v[2] \in Int /\ w[2] \in Int /\ v[2] - w[2] \in Int
  BY ValueFacts
<1>1. CASE vs = <<>> \/ ws = <<>>
  <2>1. R = <<>>
    BY <1>1, OfSets DEF valset_sub
  <2> QED BY <2>1, OfSets, InSets
<1>2. ASSUME NEW q \in Regions, NEW si \in Intervals, vs = Single(q, si),
             NEW r \in Regions, NEW ti \in Intervals, ws = Single(r, ti)
      PROVE  R \in Sets /\ In(Minus(v, w), R)
  <2> DEFINE di == si_sub(si, ti)
  <2>1. /\ di \in Intervals
        /\ si_is_full(si) \/ si_is_full(ti) => si_is_full(di)
        /\ ~ si_is_full(si) /\ ~ si_is_full(ti) =>
             \/ si_is_full(di)
             \/ \A e \in Elements(si), f \in Elements(ti) : Long(e - f) \in Elements(di)
    <3>1. Unbroken(Single(q, si), Single(r, si_neg(ti)))
      BY <1>2, NegOf
    <3> QED BY <3>1, UnbrokenOf, SubIntervals
  <2> HIDE DEF di
  <2>2. R = IF q = r THEN Single(CONST_REGION, di)
            ELSE IF r = CONST_REGION THEN Single(q, di) ELSE Abort
    <3>1. valset_sub(<<>>, Single(q, si), Single(r, ti)) =
            IF q = r THEN Single(CONST_REGION, di)
            ELSE IF r = CONST_REGION THEN Single(q, di) ELSE Abort
      BY SubOf DEF di
    <3> QED BY <3>1, <1>2
  <2>3. (v[1] = Base(q) /\ v[2] \in Elements(si)) \/ si_is_full(si)
    BY <1>2, InSets
  <2>4. (w[1] = Base(r) /\ w[2] \in Elements(ti)) \/ si_is_full(ti)
    BY <1>2, InSets
  <2>5. R \in Sets /\ (R = Single(CONST_REGION, di) \/ R = Single(q, di))
    BY <2>1, <2>2, OfSets, ValueOf
  <2>6. CASE si_is_full(di)
    BY <2>5, <2>6, InSets
  <2>7. CASE ~ si_is_full(di)
    <3>1. /\ ~ si_is_full(si) /\ ~ si_is_full(ti) /\ v[1] = Base(q) /\ w[1] = Base(r)
          /\ Long(v[2] - w[2]) \in Elements(di)
      BY <2>1, <2>3, <2>4, <2>7
    <3>2. v # Garbage /\ w # Garbage
      BY <3>1, BaseIs, ValueFacts
    <3>3. CASE v[1] = w[1]
      <4>1. Minus(v, w) = Num(v[2] - w[2])
        BY <3>2, <3>3 DEF Minus
      <4>2. Minus(v, w)[1] = CONST_REGION /\ Minus(v, w)[2] = Long(v[2] - w[2])
        BY <4>1, <1>0, ValueOf
      <4>3. R = Single(CONST_REGION, di) \/ (R = Single(q, di) /\ Base(q) = CONST_REGION)
        BY <2>2, <2>5, <3>1, <3>3, BaseIs
      <4> QED BY <2>5, <3>1, <4>2, <4>3, InSets, BaseIs
    <3>4. CASE v[1] # w[1]
      <4>1. R = Single(q, di) /\ r = CONST_REGION
        BY <2>2, <3>1, <3>4
      <4>2. IsNumber(w)
        BY <3>1, <4>1, BaseIs DEF IsNumber
      <4>3. Minus(v, w) = Value(v[1], v[2] - w[2])
        BY <3>4, <4>2 DEF Minus
      <4>4. Minus(v, w)[1] = v[1] /\ Minus(v, w)[2] = Long(v[2] - w[2])
        BY <4>3, <3>2, <1>0, Shifted
      <4> QED BY <2>5, <3>1, <4>1, <4>4, InSets
    <3> QED BY <3>3, <3>4
  <2> QED BY <2>6, <2>7
<1> QED BY <1>1, <1>2, OfSets

(* A number turned round; the region of a number stays what it is called.  *)
LEMMA NegSound ==
  ASSUME NEW vs \in Sets, NEW v \in Values, In(v, vs), IsNumber(v)
  PROVE  valset_neg(vs) \in Sets /\ In(Minus(Num(0), v), valset_neg(vs))
<1>0. v[2] \in Int /\ 0 - v[2] \in Int /\ v[1] = CONST_REGION /\ v # Garbage
  BY ValueFacts, ValueOf DEF IsNumber
<1>1. Minus(Num(0), v)[1] = CONST_REGION /\ Minus(Num(0), v)[2] = Long(0 - v[2])
  <2>1. 0 \in Longs
    BY LongBounds
  <2>2. Num(0)[1] = CONST_REGION /\ Num(0)[2] = 0 /\ Num(0) # Garbage
    BY <2>1, NumOf, ValueFacts, ValueOf
  <2>3. Minus(Num(0), v) = Num(0 - v[2])
    BY <2>2, <1>0 DEF Minus
  <2> QED BY <2>3, <1>0, ValueOf
<1>2. CASE vs = <<>>
  BY <1>2, NegOf, OfSets, InSets
<1>3. ASSUME NEW q \in Regions, NEW si \in Intervals, vs = Single(q, si)
      PROVE  valset_neg(vs) \in Sets /\ In(Minus(Num(0), v), valset_neg(vs))
  <2>1. valset_neg(vs) = Single(q, si_neg(si))
    BY <1>3, NegOf
  <2>2. /\ si_neg(si) \in Intervals
        /\ si_is_full(si) => si_is_full(si_neg(si))
        /\ ~ si_is_full(si) => \/ si_is_full(si_neg(si))
                               \/ \A e \in Elements(si) : Long(0 - e) \in Elements(si_neg(si))
    BY NegInterval
  <2>3. (v[1] = Base(q) /\ v[2] \in Elements(si)) \/ si_is_full(si)
    BY <1>3, InSets
  <2> QED BY <2>1, <2>2, <2>3, <1>0, <1>1, OfSets, InSets
<1> QED BY <1>2, <1>3, OfSets

LEMMA NotSound ==
  ASSUME NEW vs \in Sets, NEW v \in Values, In(v, vs), IsNumber(v)
  PROVE  valset_not(<<>>, vs) \in Sets /\ In(Minus(Num(-1), v), valset_not(<<>>, vs))
<1>0. v[2] \in Int /\ 0 - 1 - v[2] \in Int /\ v[1] = CONST_REGION /\ v # Garbage
  BY ValueFacts, ValueOf DEF IsNumber
<1>1. Minus(Num(-1), v)[1] = CONST_REGION /\ Minus(Num(-1), v)[2] = Long(0 - 1 - v[2])
  <2>1. -1 \in Longs
    BY LongBounds
  <2>2. Num(-1)[1] = CONST_REGION /\ Num(-1)[2] = -1 /\ Num(-1) # Garbage
    BY <2>1, NumOf, ValueFacts, ValueOf
  <2>3. Minus(Num(-1), v) = Num(-1 - v[2])
    BY <2>2, <1>0 DEF Minus
  <2>4. -1 - v[2] = 0 - 1 - v[2]
    BY <1>0
  <2> QED BY <2>3, <2>4, <1>0, ValueOf
<1>2. CASE vs = <<>>
  BY <1>2, NotOf, OfSets, InSets
<1>3. ASSUME NEW q \in Regions, NEW si \in Intervals, vs = Single(q, si)
      PROVE  valset_not(<<>>, vs) \in Sets /\ In(Minus(Num(-1), v), valset_not(<<>>, vs))
  <2>1. valset_not(<<>>, vs) = Single(q, si_not(si))
    BY <1>3, NotOf
  <2>2. /\ si_not(si) \in Intervals
        /\ si_is_full(si) => si_is_full(si_not(si))
        /\ \A e \in Elements(si) : Long(0 - 1 - e) \in Elements(si_not(si))
    BY NotInterval
  <2>3. (v[1] = Base(q) /\ v[2] \in Elements(si)) \/ si_is_full(si)
    BY <1>3, InSets
  <2> QED BY <2>1, <2>2, <2>3, <1>0, <1>1, OfSets, InSets
<1> QED BY <1>2, <1>3, OfSets

(* Nothing is known but that it is a number, or not even that.             *)
LEMMA FullSets ==
  /\ \A r \in Regions : /\ Single(r, FullInterval) \in Sets
                        /\ \A v : In(v, Single(r, FullInterval))
                        /\ add_new_valset(<<>>, r, FullInterval) \in Sets
                        /\ \A v : In(v, add_new_valset(<<>>, r, FullInterval))
  /\ \A n \in Longs : /\ Number(n) \in Sets /\ In(Num(n), Number(n)) /\ Number(n) # <<>>
                      /\ add_new_valset(<<>>, CONST_REGION, One(n)) = Number(n)
                      /\ Single(GLOBAL_REGION, One(n)) \in Sets /\ In(Num(n), Single(GLOBAL_REGION, One(n)))
                      /\ \A b \in Regions : Single(b, One(n)) \in Sets /\ In(<<Base(b), n>>, Single(b, One(n)))
<1>1. ASSUME NEW r \in Regions
      PROVE  /\ Single(r, FullInterval) \in Sets
             /\ \A v : In(v, Single(r, FullInterval))
             /\ add_new_valset(<<>>, r, FullInterval) \in Sets
             /\ \A v : In(v, add_new_valset(<<>>, r, FullInterval))
  BY FullIs, OfSets, InSets, AddNewOf
<1>2. ASSUME NEW n \in Longs
      PROVE  /\ Number(n) \in Sets /\ In(Num(n), Number(n)) /\ Number(n) # <<>>
             /\ add_new_valset(<<>>, CONST_REGION, One(n)) = Number(n)
             /\ Single(GLOBAL_REGION, One(n)) \in Sets /\ In(Num(n), Single(GLOBAL_REGION, One(n)))
             /\ \A b \in Regions : Single(b, One(n)) \in Sets /\ In(<<Base(b), n>>, Single(b, One(n)))
  <2>1. One(n) \in Intervals /\ Elements(One(n)) = {n} /\ Num(n)[1] = CONST_REGION /\ Num(n)[2] = n
    BY FullIs, NumOf
  <2>2. Number(n) = Single(CONST_REGION, One(n)) /\ add_new_valset(<<>>, CONST_REGION, One(n)) = Number(n)
    BY AddNewOf DEF Number
  <2>3. In(Num(n), Single(CONST_REGION, One(n))) /\ In(Num(n), Single(GLOBAL_REGION, One(n)))
    BY <2>1, BaseIs, InSets, ValueOf
  <2>4. \A b \in Regions : Single(b, One(n)) \in Sets /\ In(<<Base(b), n>>, Single(b, One(n)))
    BY <2>1, InSets, OfSets
  <2> QED BY <2>1, <2>2, <2>3, <2>4, OfSets, OfSingle, ValueOf
<1> QED BY <1>1, <1>2

LEMMA BsfSound ==
  /\ bsf_vs_handler(<<>>) \in Sets
  /\ \A n \in 0 .. Bits - 1 : Num(n) \in Values /\ In(Num(n), bsf_vs_handler(<<>>))
<1> DEFINE si == Interval(1, 0, Bits - 1)
<1>1. Bits - 1 \in Nat /\ 0 \in Longs /\ Bits - 1 \in Longs
  BY LongBounds, BitsAssumption
<1>2. Bits - 1 = 0 + (Bits - 1) * 1
  BY <1>1
<1>3. si \in Intervals
  BY <1>1, <1>2, IntervalIs
<1>4. si.stride = 1 /\ si.lower_bound = 0 /\ si.upper_bound = Bits - 1
  BY DEF Interval
<1>5. bsf_vs_handler(<<>>) = Single(CONST_REGION, si)
  BY AddNewOf DEF bsf_vs_handler
<1>6. ASSUME NEW n \in 0 .. Bits - 1 PROVE Num(n) \in Values /\ In(Num(n), Single(CONST_REGION, si))
  <2>1. n \in Nat /\ n = 0 + n * 1 /\ n <= Bits - 1 /\ n \in Longs
    BY <1>1, LongBounds
  <2> HIDE DEF si
  <2>2. n \in Elements(si)
    <3>1. si.lower_bound + n * si.stride = n
      BY <2>1, <1>4
    <3> QED BY <2>1, <3>1, <1>3, <1>4, ElementsOf
  <2>3. Num(n) = <<CONST_REGION, n>> /\ Num(n) \in Values /\ Base(CONST_REGION) = CONST_REGION
    BY <2>1, NumOf, BaseIs, ValueOf
  <2>4. Num(n)[1] = CONST_REGION /\ Num(n)[2] = n
    BY <2>3
  <2> QED BY <2>2, <2>3, <2>4, InSets
<1> HIDE DEF si
<1> QED BY <1>3, <1>5, <1>6, OfSets, ValueOf

LEMMA ShlSound ==
  ASSUME NEW vs, NEW ws
  PROVE  valset_shl(<<>>, vs, ws) \in Sets /\ \A v : In(v, valset_shl(<<>>, vs, ws))
BY FullSets, OfSets, InSets, ValueOf DEF valset_shl

-----------------------------------------------------------------------------
(***************************************************************************)
(* Addresses.                                                              *)
(***************************************************************************)
(* What the registers hold is in the sets that are kept for them. *)
RegistersOK ==
  /\ reg \in [Registers -> Values] /\ aft \in [Registers -> Sets]
  /\ \A r \in Registers : In(reg[r], aft[r])

LEMMA OperandIs ==
  ASSUME RegistersOK, NEW m \in Operands
  PROVE  /\ m.kind \in {"reg", "imm", "imm8", "mem"} /\ m.scale \in Nat \ {0} /\ m.scale \in Int
         /\ m.n \in Longs /\ m.n \in Int
         /\ m.base = NoReg \/ m.base \in Registers
         /\ m.index = NoReg \/ m.index \in Registers
         /\ m.kind = "reg" => m.base \in Registers
         /\ NoReg \notin Registers
         /\ \A r \in Registers : reg[r] \in Values /\ aft[r] \in Sets /\ In(reg[r], aft[r]) /\ Register(r) = reg[r]
         /\ Register(NoReg) = Num(0) /\ Num(0) \in Values
         /\ Register(m.base) \in Values /\ Register(m.index) \in Values
<1>1. NoReg \notin Registers
  BY DEF NoReg, Registers
<1>2. 0 \in Longs
  BY LongBounds
<1>3. /\ m.kind \in {"reg", "imm", "imm8", "mem"} /\ m.scale \in Nat \ {0} /\ m.scale \in Int /\ m.n \in Longs
      /\ (m.base = NoReg \/ m.base \in Registers) /\ (m.index = NoReg \/ m.index \in Registers)
      /\ (m.kind = "reg" => m.base # NoReg)
  BY DEF Operands
<1>4. \A r \in Registers : reg[r] \in Values /\ aft[r] \in Sets /\ In(reg[r], aft[r]) /\ Register(r) = reg[r]
  BY <1>1 DEF RegistersOK, Register
<1>5. Register(NoReg) = Num(0) /\ Num(0) \in Values
  BY <1>2, NumOf DEF Register
<1> QED BY <1>1, <1>3, <1>4, <1>5, LongBounds

(* The index, scaled and moved on. *)
LEMMA ScaledSound ==
  ASSUME RegistersOK, NEW m \in Operands, m.index # NoReg,
         IsNumber(Register(m.index)), InRange(m), UnbrokenExp(m)
  PROVE  /\ Scaled(m) \in Sets
         /\ In(Plus(Times(Register(m.index), m.scale), Num(m.n)), Scaled(m))
         /\ IsNumber(Times(Register(m.index), m.scale))
         /\ Scaled(m) = <<>> <=> aft[m.index] = <<>>
         /\ \A q \in Regions, si \in Intervals : aft[m.index] = Single(q, si) =>
              Scaled(m) = Single(q, si_add_offset(si_mul_offset(si, m.scale), m.n))
<1> DEFINE vs == aft[m.index]
           v == reg[m.index]
           c == m.scale
           t == Times(v, c)
           ms == valset_mul_offset(<<>>, vs, c)
<1>1. /\ vs \in Sets /\ v \in Values /\ In(v, vs) /\ Register(m.index) = v /\ c \in Nat \ {0} /\ c \in Int
      /\ m.n \in Longs /\ m.n \in Int
  BY OperandIs
<1>2. v[1] = CONST_REGION /\ v # Garbage /\ v[2] \in Int /\ v[2] \in Longs /\ IsNumber(v)
  BY <1>1, ValueFacts, ValueOf DEF IsNumber
<1>3. t \in Values /\ IsNumber(t) /\ t[1] = CONST_REGION
      /\ \A x \in Longs : v[2] * c = x => t[2] = x
  <2>1. t \in Values
    BY <1>1, SumOf
  <2>2. CASE c = 1
    <3>1. t = v /\ v[2] * c = v[2]
      BY <2>2, <1>2 DEF Times
    <3> QED BY <3>1, <2>1, <1>2 DEF IsNumber
  <2>3. CASE c # 1
    <3>1. t = Num(v[2] * c) /\ v[2] * c \in Int
      BY <2>3, <1>1, <1>2, Distribute DEF Times
    <3>2. t[1] = CONST_REGION /\ t[2] = Long(v[2] * c)
      BY <3>1, ValueOf
    <3> QED BY <3>2, <2>1, LongSame DEF IsNumber
  <2> QED BY <2>2, <2>3
<1>4. Scaled(m) = valset_add_offset(<<>>, ms, m.n)
  BY DEF Scaled, vs_res_reg_in_exp
<1>5. Plus(t, Num(m.n)) = Value(t[1], t[2] + m.n)
  BY <1>1, <1>3, PlusNum
<1>6. CASE vs = <<>>
  <2>1. Scaled(m) = <<>>
    BY <1>4, <1>6, MulOffsetOf, AddOffsetOf
  <2> QED BY <2>1, <1>1, <1>3, <1>6, OfSets, InSets, OfSingle
<1>7. ASSUME NEW q \in Regions, NEW si \in Intervals, vs = Single(q, si)
      PROVE  /\ Scaled(m) \in Sets /\ In(Plus(t, Num(m.n)), Scaled(m)) /\ Scaled(m) # <<>>
             /\ Scaled(m) = Single(q, si_add_offset(si_mul_offset(si, c), m.n))
  <2> DEFINE ti == si_mul_offset(si, c)
  <2>1. ms = Single(q, ti)
    BY <1>7, MulOffsetOf
  <2>2. si_is_full(si) \/ {si.lower_bound * c, si.upper_bound * c} \subseteq Longs
    BY <1>7, OfSingle DEF InRange
  <2>3. /\ ti \in Intervals
        /\ si_is_full(si) => si_is_full(ti)
        /\ ~ si_is_full(si) => \A e \in Elements(si) : e * c \in Elements(ti)
    BY <2>2, <1>1, MulInterval
  <2>4. In(t, ms) /\ ms \in Sets
    <3>1. CASE si_is_full(si)
      BY <2>1, <2>3, <3>1, InSets, OfSets
    <3>2. CASE ~ si_is_full(si)
      <4>1. Base(q) = CONST_REGION /\ v[2] \in Elements(si)
        BY <1>1, <1>2, <1>7, <3>2, InSets
      <4>2. v[2] * c \in Elements(ti) /\ v[2] * c \in Longs
        BY <4>1, <2>3, <3>2, ElementsOf
      <4>3. t[2] = v[2] * c
        BY <4>2, <1>3
      <4> QED BY <2>1, <2>3, <4>1, <4>2, <4>3, <1>3, InSets, OfSets
    <3> QED BY <3>1, <3>2
  <2>5. Unbroken(ms, Number(m.n))
    BY DEF UnbrokenExp
  <2>6. \A p \in Regions, ui \in Intervals : ms = Single(p, ui) =>
           \/ si_is_full(ui)
           \/ Long(ui.upper_bound + m.n) - Long(ui.lower_bound + m.n)
                = (ui.upper_bound + m.n) - (ui.lower_bound + m.n)
    BY <2>5, <1>1, UnbrokenByOf
  <2>7. Scaled(m) \in Sets /\ In(Value(t[1], t[2] + m.n), Scaled(m))
    <3> HIDE DEF t, ms
    <3> QED BY <2>4, <2>6, <1>1, <1>3, <1>4, AddOffsetSound
  <2>8. Scaled(m) = Single(q, si_add_offset(ti, m.n))
    BY <2>1, <1>4, AddOffsetOf
  <2> QED BY <2>7, <2>8, <1>5, OfSingle
<1>8. vs = <<>> \/ \E q \in Regions, si \in Intervals : vs = Single(q, si)
  BY <1>1, OfSets
<1>9. Register(m.index) = v
  BY <1>1
<1> QED BY <1>3, <1>6, <1>7, <1>8, <1>9

(* The sum of three: the number may be added to the index first. *)
LEMMA PlusThree ==
  ASSUME NEW v \in Values, NEW t \in Values, IsNumber(t), NEW n \in Int
  PROVE  Plus(Plus(v, t), Num(n)) = Plus(v, Plus(t, Num(n)))
<1>1. v[2] \in Int /\ t[2] \in Int /\ t[1] = CONST_REGION /\ t # Garbage
  BY ValueFacts, ValueOf DEF IsNumber
<1>2. Plus(t, Num(n)) = Value(t[1], t[2] + n)
  BY PlusNum
<1>3. Plus(t, Num(n))[1] = CONST_REGION /\ Plus(t, Num(n))[2] = Long(t[2] + n) /\ Plus(t, Num(n)) \in Values
      /\ IsNumber(Plus(t, Num(n)))
  <2>1. t[2] + n \in Int
    BY <1>1
  <2> QED BY <2>1, <1>1, <1>2, Shifted DEF IsNumber
<1>4. Plus(v, Plus(t, Num(n))) = Value(v[1], v[2] + Long(t[2] + n))
  BY <1>3, PlusOf
<1>5. Plus(v, t) = Value(v[1], v[2] + t[2]) /\ Plus(v, t) \in Values
  BY PlusOf, SumOf
<1>6. Plus(Plus(v, t), Num(n)) = Value(Plus(v, t)[1], Plus(v, t)[2] + n)
  BY <1>5, PlusNum
<1>7. CASE v = Garbage
  <2>1. v[1] = "garbage"
    BY <1>7 DEF Garbage
  <2> QED BY <2>1, <1>4, <1>5, <1>6, <1>7, ValueOf
<1>8. CASE v # Garbage
  <2> DEFINE a == v[2]
             b == t[2]
  <2>1. Plus(v, t)[1] = v[1] /\ Plus(v, t)[2] = Long(a + b)
    <3>1. a + b \in Int
      BY <1>1
    <3> QED BY <3>1, <1>5, <1>8, Shifted
  <2>2. Long(Long(a + b) + n) = Long(a + Long(b + n))
    <3>1. a \in Int /\ b \in Int
      BY <1>1
    <3> HIDE DEF a, b
    <3>2. a + b \in Int /\ b + n \in Int
      BY <3>1
    <3>3. Long(Long(a + b) + n) = Long((a + b) + n)
      BY <3>2, LongSum
    <3>4. Long(a + Long(b + n)) = Long((b + n) + a)
      BY <3>1, <3>2, LongSum
    <3>5. (a + b) + n = (b + n) + a
      BY <3>1
    <3> QED BY <3>3, <3>4, <3>5
  <2> QED BY <2>1, <2>2, <1>4, <1>6 DEF Value
<1> QED BY <1>7, <1>8

LEMMA TrueAddressIs ==
  ASSUME RegistersOK, NEW m \in Operands, IsNumber(Register(m.index))
  PROVE  LET t == Plus(Times(Register(m.index), m.scale), Num(m.n))
         IN  /\ TrueAddress(m) \in Values /\ t \in Values
             /\ m.index = NoReg => t = Num(m.n)
             /\ m.base = NoReg => TrueAddress(m) = t
             /\ TrueAddress(m) = Plus(Register(m.base), t)
<1> DEFINE b == Register(m.base)
           s == Times(Register(m.index), m.scale)
           t == Plus(s, Num(m.n))
<1>1. /\ b \in Values /\ Register(m.index) \in Values /\ m.n \in Int /\ m.scale \in Int /\ m.scale \in Nat \ {0}
      /\ m.n \in Longs /\ Register(NoReg) = Num(0) /\ Num(0) \in Values /\ Num(m.n) \in Values
  BY OperandIs, ValueOf
<1>0. IsNumber(Num(0)) /\ Num(0)[2] = 0 /\ Num(0)[1] = CONST_REGION
  <2>1. 0 \in Longs
    BY LongBounds
  <2> QED BY <2>1, NumOf, ValueOf
<1>2. s \in Values
  BY <1>1, SumOf
<1>3. IsNumber(s)
  <2>1. CASE m.scale = 1
    BY <2>1 DEF Times
  <2>2. CASE m.scale # 1
    <3>1. s = Num(Register(m.index)[2] * m.scale)
      BY <2>2 DEF Times
    <3>2. Register(m.index)[2] * m.scale \in Int
      BY <1>1, ValueFacts, Distribute
    <3> QED BY <3>1, <3>2, ValueOf DEF IsNumber
  <2> QED BY <2>1, <2>2
<1>4. t \in Values
  BY <1>1, <1>2, SumOf
<1>5. TrueAddress(m) = Plus(b, t)
  <2>1. TrueAddress(m) = Plus(Plus(b, s), Num(m.n))
    BY DEF TrueAddress
  <2> HIDE DEF b, s
  <2> QED BY <2>1, <1>1, <1>2, <1>3, PlusThree
<1>6. ASSUME m.index = NoReg PROVE t = Num(m.n)
  <2>1. s = Num(0)
    <3>1. Register(m.index) = Num(0)
      BY <1>6, <1>1
    <3>2. 0 * m.scale = 0
      BY <1>1
    <3> QED BY <1>0, <3>1, <3>2 DEF Times
  <2>2. t = Value(CONST_REGION, 0 + m.n)
    BY <2>1, <1>0, <1>1, PlusNum
  <2>3. 0 + m.n = m.n
    BY <1>1
  <2> QED BY <2>2, <2>3 DEF Num
<1>7. ASSUME m.base = NoReg PROVE Plus(b, t) = t
  <2>1. b = Num(0)
    BY <1>7, <1>1
  <2>2. Plus(Num(0), t) = Value(t[1], 0 + t[2])
    BY <1>0, <1>1, <1>4, PlusOf
  <2>3. 0 + t[2] = t[2] /\ t[1] = CONST_REGION /\ t # Garbage
    <3>1. t = Value(s[1], s[2] + m.n) /\ s[1] = CONST_REGION /\ s[2] \in Int
      BY <1>1, <1>2, <1>3, PlusNum, ValueFacts DEF IsNumber
    <3>2. s[2] + m.n \in Int
      BY <3>1, <1>1
    <3>3. t[1] = CONST_REGION
      BY <3>1, <3>2, ValueOf
    <3> QED BY <3>3, <1>4, ValueFacts, ValueOf
  <2> QED BY <2>1, <2>2, <2>3, <1>4, ValueFacts
<1> HIDE DEF t
<1>8. TrueAddress(m) \in Values
  BY <1>1, <1>4, <1>5, SumOf
<1> QED BY <1>4, <1>5, <1>6, <1>7, <1>8 DEF t

(* The address that is computed for an operand holds the true one.         *)
LEMMA AddressSound ==
  ASSUME RegistersOK, NEW m \in Operands, IsNumber(Register(m.index)), InRange(m), UnbrokenExp(m),
         vs_res_expression(m) # Abort
  PROVE  vs_res_expression(m) \in Sets /\ In(TrueAddress(m), vs_res_expression(m))
<1> DEFINE v == Register(m.base)
           t == Plus(Times(Register(m.index), m.scale), Num(m.n))
           R == vs_res_expression(m)
<1>1. /\ v \in Values /\ m.n \in Int /\ m.n \in Longs
      /\ m.base # NoReg => m.base \in Registers /\ v = reg[m.base] /\ aft[m.base] \in Sets /\ In(v, aft[m.base])
      /\ m.index # NoReg => m.index \in Registers /\ aft[m.index] \in Sets
  BY OperandIs
<1>2. /\ TrueAddress(m) \in Values /\ t \in Values
      /\ m.index = NoReg => t = Num(m.n)
      /\ m.base = NoReg => TrueAddress(m) = t
      /\ TrueAddress(m) = Plus(v, t)
  BY TrueAddressIs
<1>3. m.index # NoReg => /\ Scaled(m) \in Sets /\ In(t, Scaled(m))
                         /\ Scaled(m) = <<>> <=> aft[m.index] = <<>>
  BY ScaledSound
<1>4. \A vs : valset_is_empty(vs) <=> vs = <<>>
  BY DEF valset_is_empty
<1> HIDE DEF t
<1>5. CASE m.base = NoReg /\ m.index = NoReg
  <2>1. R = Single(GLOBAL_REGION, One(m.n))
    BY <1>5 DEF vs_res_expression
  <2> QED BY <2>1, <1>1, <1>2, <1>5, FullSets
<1>6. CASE m.base # NoReg /\ m.index = NoReg
  <2>1. R = valset_add_offset(<<>>, aft[m.base], m.n)
    BY <1>6 DEF vs_res_expression, vs_res_reg_in_exp
  <2>2. Unbroken(aft[m.base], Number(m.n))
    BY <1>6 DEF UnbrokenExp
  <2>3. \A q \in Regions, si \in Intervals : aft[m.base] = Single(q, si) =>
           \/ si_is_full(si)
           \/ Long(si.upper_bound + m.n) - Long(si.lower_bound + m.n)
                = (si.upper_bound + m.n) - (si.lower_bound + m.n)
    BY <2>2, <1>1, UnbrokenByOf
  <2>4. R \in Sets /\ In(Value(v[1], v[2] + m.n), R)
    BY <2>1, <2>3, <1>1, <1>6, AddOffsetSound
  <2>5. TrueAddress(m) = Value(v[1], v[2] + m.n)
    BY <1>1, <1>2, <1>6, PlusNum
  <2> QED BY <2>4, <2>5
<1>7. CASE m.base = NoReg /\ m.index # NoReg
  <2>1. CASE aft[m.index] = <<>>
    <3>1. R = Single(GLOBAL_REGION, FullInterval)
      BY <1>4, <1>7, <2>1 DEF vs_res_expression, vs_res_reg_in_exp
    <3> QED BY <3>1, FullSets, ValueOf
  <2>2. CASE aft[m.index] # <<>>
    <3>1. R = valset_modify_region(Scaled(m), GLOBAL_REGION)
      BY <1>4, <1>7, <2>2 DEF vs_res_expression, vs_res_reg_in_exp
    <3>2. PICK q \in Regions, si \in Intervals : Scaled(m) = Single(q, si)
      BY <1>3, <1>7, <2>2, OfSets
    <3>3. R = Single(GLOBAL_REGION, si)
      BY <3>1, <3>2, ModifyRegionOf
    <3>4. t[1] = CONST_REGION
      <4>1. IsNumber(Times(Register(m.index), m.scale)) /\ Times(Register(m.index), m.scale) \in Values
        BY <1>7, ScaledSound, OperandIs, SumOf
      <4>2. t = Value(CONST_REGION, Times(Register(m.index), m.scale)[2] + m.n)
        BY <4>1, <1>1, PlusNum DEF t, IsNumber
      <4>3. Times(Register(m.index), m.scale)[2] + m.n \in Int
        BY <4>1, <1>1, ValueFacts
      <4> QED BY <4>2, <4>3, ValueOf
    <3>5. In(t, R)
      <4>1. si_is_full(si) \/ (Base(q) = t[1] /\ t[2] \in Elements(si))
        BY <1>3, <1>7, <3>2, InSets
      <4> QED BY <4>1, <3>3, <3>4, InSets, BaseIs, ValueOf
    <3> QED BY <3>3, <3>5, <1>2, <1>7, OfSets, ValueOf
  <2> QED BY <2>1, <2>2
<1>8. CASE m.base # NoReg /\ m.index # NoReg
  <2>1. CASE aft[m.base] # <<>> /\ aft[m.index] = <<>>
    <3>1. R = Single(aft[m.base][1].region, FullInterval)
      BY <1>4, <1>8, <2>1 DEF vs_res_expression, vs_res_reg_in_exp
    <3>2. aft[m.base][1].region \in Regions
      BY <1>1, <1>8, <2>1, OfSets, OfSingle
    <3> QED BY <3>1, <3>2, FullSets
  <2>2. CASE ~ (aft[m.base] # <<>> /\ aft[m.index] = <<>>)
    <3>1. R = valset_add(<<>>, aft[m.base], Scaled(m))
      BY <1>4, <1>8, <2>2 DEF vs_res_expression, vs_res_reg_in_exp
    <3>2. Unbroken(aft[m.base], Scaled(m))
      BY <1>8 DEF UnbrokenExp
    <3> HIDE DEF v, R
    <3>3. R \in Sets /\ In(Plus(v, t), R)
      BY <3>1, <3>2, <1>1, <1>2, <1>3, <1>8, AddSound DEF R
    <3> QED BY <3>3, <1>2 DEF R
  <2> QED BY <2>1, <2>2
<1> QED BY <1>5, <1>6, <1>7, <1>8

LEMMA LeaSound ==
  ASSUME RegistersOK, NEW m \in Operands, IsNumber(Register(m.index)), InRange(m), UnbrokenExp(m),
         lea_vs_handler(<<>>, m) # Abort
  PROVE  lea_vs_handler(<<>>, m) \in Sets /\ In(TrueAddress(m), lea_vs_handler(<<>>, m))
<1> DEFINE v == Register(m.base)
           t == Plus(Times(Register(m.index), m.scale), Num(m.n))
           R == lea_vs_handler(<<>>, m)
<1>1. /\ v \in Values /\ m.n \in Int /\ m.n \in Longs
      /\ m.base # NoReg => m.base \in Registers /\ v = reg[m.base] /\ aft[m.base] \in Sets /\ In(v, aft[m.base])
  BY OperandIs
<1>2. /\ TrueAddress(m) \in Values /\ t \in Values
      /\ m.index = NoReg => t = Num(m.n)
      /\ m.base = NoReg => TrueAddress(m) = t
      /\ TrueAddress(m) = Plus(v, t)
  BY TrueAddressIs
<1>3. m.index # NoReg => Scaled(m) \in Sets /\ In(t, Scaled(m))
  BY ScaledSound
<1> HIDE DEF t
<1>5. CASE m.base = NoReg /\ m.index = NoReg
  <2>1. R = add_new_valset(<<>>, CONST_REGION, One(m.n))
    BY <1>5 DEF lea_vs_handler
  <2> QED BY <2>1, <1>1, <1>2, <1>5, FullSets
<1>6. CASE m.base # NoReg /\ m.index = NoReg
  <2>1. R = vs_res_expression(m)
    BY <1>6 DEF vs_res_expression, lea_vs_handler
  <2> QED BY <2>1, AddressSound
<1>7. CASE m.base = NoReg /\ m.index # NoReg
  <2>1. R = Scaled(m)
    BY <1>7 DEF lea_vs_handler, assign_value_set, valset_is_empty
  <2> QED BY <2>1, <1>2, <1>3, <1>7
<1>8. CASE m.base # NoReg /\ m.index # NoReg
  <2>1. R = valset_add(<<>>, aft[m.base], Scaled(m))
    BY <1>8 DEF lea_vs_handler, vs_res_reg_in_exp
  <2>2. Unbroken(aft[m.base], Scaled(m))
    BY <1>8 DEF UnbrokenExp
  <2> HIDE DEF v, R
  <2>3. R \in Sets /\ In(Plus(v, t), R)
    BY <2>1, <2>2, <1>1, <1>2, <1>3, <1>8, AddSound DEF R
  <2> QED BY <2>3, <1>2 DEF R
<1> QED BY <1>5, <1>6, <1>7, <1>8

-----------------------------------------------------------------------------
(***************************************************************************)
(* Comparing accesses.  The address of a define is one place.              *)
(***************************************************************************)
Placed(addr, at) ==
  \E b \in Regions, n \in Longs : addr = Single(b, One(n)) /\ at = <<Base(b), n>> /\ n + 4 <= MaxLong

(* An address that is compared with those of the defines. *)
Aimed(addr, at) ==
  addr \in Sets /\ at \in Values /\ In(at, addr) /\ Reachable(addr) /\ InItsRegion(addr, at)

LEMMA AimedAt ==
  ASSUME NEW r \in Regions, NEW ti \in Intervals, NEW at, Aimed(Single(r, ti), at)
  PROVE  /\ at[1] = Base(r) /\ at[2] \in Int /\ at = <<at[1], at[2]>>
         /\ ~ si_is_full(ti) => at[2] \in Elements(ti) /\ InReach(ti)
<1>1. at \in Values /\ In(at, Single(r, ti)) /\ Reachable(Single(r, ti)) /\ InItsRegion(Single(r, ti), at)
  BY DEF Aimed
<1>2. at[1] = Base(r) /\ (~ si_is_full(ti) => at[2] \in Elements(ti))
  <2>1. si_is_full(ti) => Base(r) = at[1]
    BY <1>1, OfSingle DEF InItsRegion
  <2> QED BY <1>1, <2>1, InSets
<1>3. at # Garbage
  BY <1>1, <1>2, BaseIs, ValueFacts
<1>4. ~ si_is_full(ti) => InReach(ti)
  BY <1>1, OfSingle DEF Reachable, InReach, ADDR_SIZE_IN_BYTE
<1> QED BY <1>1, <1>2, <1>3, <1>4, ValueFacts

LEMMA Cellwise ==
  ASSUME NEW a, NEW m \in Int, NEW b, NEW n \in Int, a # b \/ m + 4 <= n \/ n + 4 <= m
  PROVE  Disjoint(<<a, m>>, <<b, n>>)
<1> SUFFICES ASSUME NEW j \in 0 .. 3, NEW k \in 0 .. 3, <<a, m + j>> = <<b, n + k>> PROVE FALSE
  BY DEF Disjoint, Cells, ADDR_SIZE_IN_BYTE
<1>1. a = b /\ m + j = n + k
  OBVIOUS
<1> QED BY <1>1

LEMMA Itself ==
  ASSUME NEW a, NEW m \in Int
  PROVE  ~ Disjoint(<<a, m>>, <<a, m>>)
<1>1. <<a, m + 0>> \in Cells(<<a, m>>)
  BY DEF Cells, ADDR_SIZE_IN_BYTE
<1> QED BY <1>1 DEF Disjoint

(* Accesses that are said not to overlap have no cell in common.           *)
LEMMA Apart ==
  ASSUME NEW addr, NEW at, Placed(addr, at), NEW ws, NEW w, Aimed(ws, w),
         ~ mem_valset_overlap(addr, 4, ws, 4)
  PROVE  Disjoint(at, w)
<1>1. PICK b \in Regions, n \in Longs : addr = Single(b, One(n)) /\ at = <<Base(b), n>> /\ n + 4 <= MaxLong
  BY DEF Placed
<1>2. PICK r \in Regions, ti \in Intervals : ws = Single(r, ti)
  BY OfSets DEF Aimed, mem_valset_overlap, valset_is_empty
<1>3. /\ w[1] = Base(r) /\ w[2] \in Int /\ w = <<w[1], w[2]>>
      /\ ~ si_is_full(ti) => w[2] \in Elements(ti) /\ InReach(ti)
  BY <1>2, AimedAt
<1>4. n \in Int /\ r # "none" /\ b # "none"
  BY LongBounds DEF Regions
<1>5. \/ SameBase(b, ws) = "none"
      \/ si_overlap_with_len(One(n), 4, find_region_in_valset(ws, SameBase(b, ws)), 4) = No
  BY <1>1, OfSingle DEF mem_valset_overlap
<1>6. SameBase(b, ws) = IF r = b \/ {r, b} = {CONST_REGION, GLOBAL_REGION} THEN r ELSE "none"
  <2>1. \A q : Holds(q, ws) <=> q = r
    BY <1>2, OfSingle
  <2>2. CASE r = b
    BY <2>1, <2>2 DEF SameBase
  <2>3. CASE r # b /\ b = GLOBAL_REGION
    BY <2>1, <2>3, ValueOf DEF SameBase
  <2>4. CASE r # b /\ b = CONST_REGION
    BY <2>1, <2>4, ValueOf DEF SameBase
  <2>5. CASE r # b /\ b # CONST_REGION /\ b # GLOBAL_REGION
    BY <2>1, <2>5 DEF SameBase
  <2> QED BY <2>2, <2>3, <2>4, <2>5
<1>7. CASE SameBase(b, ws) = "none"
  <2>1. Base(b) # Base(r)
    BY <1>4, <1>6, <1>7, BaseIs DEF Base
  <2> QED BY <2>1, <1>1, <1>3, <1>4, Cellwise
<1>8. CASE SameBase(b, ws) # "none"
  <2>1. SameBase(b, ws) = r
    BY <1>6, <1>8
  <2>2. si_overlap_with_len(One(n), 4, ti, 4) = No
    BY <1>2, <1>5, <1>8, <2>1, FindSingle
  <2>3. ~ si_is_full(ti) /\ \A e \in Elements(ti) : n + 4 <= e \/ e + 4 <= n
    BY <2>2, <1>1, <1>3, OverlapNo
  <2> QED BY <2>3, <1>1, <1>3, <1>4, Cellwise
<1> QED BY <1>7, <1>8

(* An access that loads from a define goes to its place.                   *)
LEMMA Hit ==
  ASSUME NEW addr, NEW at, Placed(addr, at), NEW ws, NEW w, Aimed(ws, w),
         Loads(vs_compare_two_targets(addr, ws))
  PROVE  w = at
<1>1. PICK b \in Regions, n \in Longs : addr = Single(b, One(n)) /\ at = <<Base(b), n>> /\ n + 4 <= MaxLong
  BY DEF Placed
<1>2. /\ ~ valset_is_empty(ws)
      /\ mem_valset_exact(addr, 4, ws, 4) \/ mem_valset_super(addr, 4, ws, 4)
  BY DEF Loads, vs_compare_two_targets, NO_MATCH, ADDR_SIZE_IN_BYTE
<1>3. PICK r \in Regions, ti \in Intervals : ws = Single(r, ti)
  BY <1>2, OfSets DEF Aimed, valset_is_empty
<1>4. /\ w[1] = Base(r) /\ w[2] \in Int /\ w = <<w[1], w[2]>>
      /\ ~ si_is_full(ti) => w[2] \in Elements(ti) /\ InReach(ti)
  BY <1>3, AimedAt
<1>5. CASE mem_valset_exact(addr, 4, ws, 4)
  <2>1. r = b
    BY <1>1, <1>3, <1>5, OfSingle DEF mem_valset_exact, valset_check_same_region, valset_region_contain
  <2>2. One(n) = find_region_in_valset(ws, b)
    BY <1>1, <1>5, OfSingle DEF mem_valset_exact
  <2>3. One(n) = ti
    BY <1>3, <2>1, <2>2, FindSingle
  <2>4. ~ si_is_full(ti) /\ Elements(ti) = {n}
    BY <2>3, FullIs
  <2> QED BY <2>1, <2>4, <1>1, <1>4
<1>6. CASE mem_valset_super(addr, 4, ws, 4)
  <2>1. r = b
    BY <1>1, <1>3, <1>6, OfSingle DEF mem_valset_super, mem_valset_subst, valset_region_contain
  <2>2. si_contain_with_len(find_region_in_valset(addr, r), 4, ti, 4) # No
    BY <1>3, <1>6, OfSingle DEF mem_valset_super, mem_valset_subst
  <2>3. find_region_in_valset(addr, r) = One(n)
    BY <1>1, <2>1, FindSingle
  <2>4. ~ si_is_full(ti) /\ \A e \in Elements(ti) : e = n
    BY <2>2, <2>3, <1>1, <1>4, ContainYes
  <2> QED BY <2>1, <2>4, <1>1, <1>4
<1> QED BY <1>2, <1>5, <1>6

(* An access that a define is passed by for misses it.                     *)
LEMMA Missed ==
  ASSUME NEW addr, NEW at, Placed(addr, at), NEW ws, NEW w, Aimed(ws, w), ws # <<>>,
         vs_compare_two_targets(addr, ws) = NO_MATCH
  PROVE  Disjoint(at, w)
<1>1. PICK b \in Regions, n \in Longs : addr = Single(b, One(n)) /\ at = <<Base(b), n>> /\ n + 4 <= MaxLong
  BY DEF Placed
<1>2. ~ valset_is_empty(addr) /\ ~ valset_is_empty(ws)
  BY <1>1, OfSingle DEF valset_is_empty
<1>3. ~ mem_valset_overlap(addr, 4, ws, 4)
  BY <1>2 DEF vs_compare_two_targets, NO_MATCH, ADDR_SIZE_IN_BYTE
<1> QED BY <1>3, Apart

DefsOK ==
  /\ defs \in Seq([addr : Sets, at : Values, aft : Sets, val : Values])
  /\ \A k \in DOMAIN defs : Placed(defs[k].addr, defs[k].at) /\ In(defs[k].val, defs[k].aft)

(* A load reads what the define has written that it is said to be from.    *)
LEMMA LoadRight ==
  ASSUME DefsOK, NEW ws, NEW w, Aimed(ws, w)
  PROVE  /\ Source(ws) \in 0 .. Len(defs) /\ Len(defs) \in Nat
         /\ Source(ws) # 0 =>
              /\ Source(ws) \in DOMAIN defs /\ defs[Source(ws)].at = w
              /\ \A k \in Source(ws) + 1 .. Len(defs) : Disjoint(defs[k].at, w)
              /\ Content(w) = defs[Source(ws)].val
<1> DEFINE T == Touched(ws)
           k == Source(ws)
<1>1. DOMAIN defs = 1 .. Len(defs) /\ Len(defs) \in Nat
  BY DEF DefsOK
<1>2. T \in SUBSET Nat /\ \A j \in T : j <= Len(defs)
  BY <1>1 DEF Touched
<1>3. CASE T = {}
  <2>1. k = 0
    BY <1>3 DEF Source, Load, vs_find_prev_def_of_use
  <2> QED BY <1>1, <2>1
<1>4. CASE T # {} /\ k = 0
  BY <1>1, <1>4
<1>5. CASE T # {} /\ k # 0
  <2>1. Max(T) \in T /\ \A j \in T : j <= Max(T)
    BY <1>1, <1>2, <1>5, GreatestMember
  <2>2. k = Max(T) /\ Loads(vs_compare_two_targets(defs[k].addr, ws))
    BY <1>5 DEF Source, Load, vs_find_prev_def_of_use
  <2>3. k \in DOMAIN defs
    BY <2>1, <2>2 DEF Touched
  <2>4. defs[k].at = w
    BY <2>2, <2>3, Hit DEF DefsOK
  <2>5. ws # <<>>
    BY <2>2 DEF Loads, vs_compare_two_targets, valset_is_empty, NO_MATCH
  <2>6. ASSUME NEW j \in k + 1 .. Len(defs) PROVE Disjoint(defs[j].at, w)
    <3>1. j \in DOMAIN defs /\ j > k
      BY <1>1, <2>3
    <3>2. j \notin T
      BY <1>1, <2>1, <2>2, <2>3, <3>1
    <3>3. vs_compare_two_targets(defs[j].addr, ws) = NO_MATCH
      BY <3>1, <3>2 DEF Touched, Stops
    <3> QED BY <2>5, <3>1, <3>3, Missed DEF DefsOK
  <2>7. Content(w) = defs[k].val
    <3>1. k \in Writers(w)
      <4>1. PICK b \in Regions, n \in Longs : w = <<Base(b), n>>
        BY <2>3, <2>4 DEF DefsOK, Placed
      <4>2. ~ Disjoint(w, w)
        BY <4>1, LongBounds, Itself
      <4> QED BY <2>3, <2>4, <4>2 DEF Writers
    <3>2. ASSUME NEW j \in Writers(w) PROVE j <= k
      <4>1. j \in DOMAIN defs /\ ~ Disjoint(defs[j].at, w)
        BY DEF Writers
      <4> QED BY <1>1, <2>3, <2>6, <4>1
    <3>3. Max(Writers(w)) = k
      <4>1. Writers(w) \subseteq Nat
        BY <1>1 DEF Writers
      <4> DEFINE c == CHOOSE x \in Writers(w) : \A y \in Writers(w) : x >= y
      <4>2. \A y \in Writers(w) : k >= y
        BY <3>1, <3>2, <4>1
      <4>3. c \in Writers(w) /\ \A y \in Writers(w) : c >= y
        BY <3>1, <4>2
      <4>4. c = k
        BY <3>1, <4>1, <4>2, <4>3
      <4> QED BY <4>4 DEF Max
    <3> QED BY <2>4, <3>1, <3>3 DEF Content
  <2> HIDE DEF k
  <2>8. k \in 0 .. Len(defs)
    BY <1>1, <2>3
  <2> QED BY <1>1, <2>3, <2>4, <2>6, <2>7, <2>8 DEF k
<1> QED BY <1>3, <1>4, <1>5

-----------------------------------------------------------------------------
(***************************************************************************)
(* What an operand holds, and what an instruction leaves.                  *)
(***************************************************************************)
LEMMA DefIs ==
  ASSUME DefsOK, NEW k \in DOMAIN defs
  PROVE  /\ defs[k].addr \in Sets /\ defs[k].at \in Values /\ defs[k].aft \in Sets /\ defs[k].val \in Values
         /\ Placed(defs[k].addr, defs[k].at) /\ In(defs[k].val, defs[k].aft)
<1>1. defs[k] \in [addr : Sets, at : Values, aft : Sets, val : Values]
  <2> DEFINE D == [addr : Sets, at : Values, aft : Sets, val : Values]
  <2>1. defs \in Seq(D)
    BY DEF DefsOK
  <2> HIDE DEF D
  <2>2. defs[k] \in D
    BY <2>1
  <2> QED BY <2>2 DEF D
<1> QED BY <1>1 DEF DefsOK

LEMMA ContentIs == ASSUME DefsOK, NEW at PROVE Content(at) \in Values
<1>1. DOMAIN defs = 1 .. Len(defs) /\ Len(defs) \in Nat
  BY DEF DefsOK
<1>2. Writers(at) \in SUBSET Nat /\ \A j \in Writers(at) : j \in DOMAIN defs /\ j <= Len(defs)
  BY <1>1 DEF Writers
<1>3. CASE Writers(at) = {}
  BY <1>3, ValueOf DEF Content
<1>4. CASE Writers(at) # {}
  <2>1. Max(Writers(at)) \in Writers(at)
    BY <1>1, <1>2, <1>4, GreatestMember
  <2>2. defs[Max(Writers(at))].val \in Values
    BY <1>2, <2>1, DefIs
  <2> QED BY <2>2, ValueOf DEF Content
<1> QED BY <1>3, <1>4

LEMMA TrueIs == ASSUME RegistersOK, DefsOK, NEW o \in Operands PROVE True(o) \in Values
<1>1. CASE o.kind = "reg"
  <2>1. True(o) = reg[o.base]
    BY <1>1 DEF True
  <2> QED BY <1>1, <2>1, OperandIs
<1>2. CASE o.kind \in {"imm", "imm8"}
  <2>1. True(o) = Num(o.n)
    BY <1>2 DEF True
  <2> QED BY <2>1, OperandIs, ValueOf
<1>3. CASE o.kind = "mem"
  <2>1. True(o) = Content(TrueAddress(o))
    BY <1>3 DEF True
  <2> QED BY <2>1, ContentIs
<1> QED BY <1>1, <1>2, <1>3, OperandIs

(* A byte that is not negative is not changed by zeros above it.           *)
LEMMA ByteIs ==
  ASSUME NEW n \in 0 .. 2 ^ (ByteBits - 1) - 1
  PROVE  n % 2 ^ ByteBits = n
<1> DEFINE k == ByteBits - 1
           h == 2 ^ k
           w == 2 ^ ByteBits
<1>1. k \in Nat /\ k + 1 = ByteBits
  BY BitsAssumption DEF ByteBits
<1>2. h \in Nat \ {0} /\ w = 2 * h
  BY <1>1, Power
<1>3. n \in 0 .. h - 1
  OBVIOUS
<1> HIDE DEF h, w
<1>4. n \in Int /\ 0 <= n /\ n < w /\ w \in Nat \ {0}
  BY <1>2, <1>3
<1>5. n % w \in 0 .. w - 1 /\ n = (n \div w) * w + (n % w) /\ n \div w \in Int
  BY <1>4, Division
<1> DEFINE r == n % w
           q == n \div w
<1>6. r \in Int /\ 0 <= r /\ r < w /\ q \in Int /\ n = q * w + r
  BY <1>4, <1>5
<1> HIDE DEF r, q
<1>7. n + 0 * w = r + q * w
  BY <1>4, <1>6
<1>8. n = r
  BY <1>4, <1>6, <1>7, SameRemainder
<1> QED BY <1>8 DEF r, w

(* The addresses that the analysis has an answer for. *)
MayAim(o) ==
  /\ IsNumber(Register(o.index)) /\ InRange(o) /\ UnbrokenExp(o)
  /\ vs_res_expression(o) # Abort
  /\ Reachable(vs_res_expression(o)) /\ InItsRegion(vs_res_expression(o), TrueAddress(o))

LEMMA OperandSound ==
  ASSUME RegistersOK, DefsOK, NEW o \in Operands, o.kind = "mem" => MayAim(o),
         o.kind = "imm8" => o.n \in 0 .. 2 ^ (ByteBits - 1) - 1
  PROVE  /\ vs_traverse_inst_operand(o).vs \in Sets /\ In(True(o), vs_traverse_inst_operand(o).vs)
         /\ vs_traverse_inst_operand(o).o = o
         /\ o.kind = "mem" =>
              /\ Aimed(vs_traverse_inst_operand(o).addr, TrueAddress(o))
              /\ vs_traverse_inst_operand(o).from = Source(vs_traverse_inst_operand(o).addr)
<1> DEFINE f == vs_traverse_inst_operand(o)
<1>1. o.kind # "mem" => f.vs = vs_res_non_expression(o) /\ f.o = o
  BY DEF vs_traverse_inst_operand, Found
<1>2. CASE o.kind = "reg"
  <2>1. vs_res_non_expression(o) = aft[o.base] /\ True(o) = reg[o.base]
    BY <1>2 DEF vs_res_non_expression, True
  <2> QED BY <1>1, <1>2, <2>1, OperandIs
<1>3. CASE o.kind = "imm"
  <2>1. vs_res_non_expression(o) = Number(o.n) /\ True(o) = Num(o.n)
    BY <1>3 DEF vs_res_non_expression, True
  <2> QED BY <1>1, <1>3, <2>1, OperandIs, FullSets
<1>4. CASE o.kind = "imm8"
  <2>1. vs_res_non_expression(o) = Number(o.n % 2 ^ ByteBits) /\ True(o) = Num(o.n)
    BY <1>4 DEF vs_res_non_expression, True
  <2>2. o.n % 2 ^ ByteBits = o.n
    BY <1>4, ByteIs
  <2> QED BY <1>1, <1>4, <2>1, <2>2, OperandIs, FullSets
<1>5. CASE o.kind = "mem"
  <2> DEFINE addr == vs_res_expression(o)
             k == Source(addr)
             at == TrueAddress(o)
  <2>1. f = Loaded(o, addr, k)
    BY <1>5, Zenon DEF vs_traverse_inst_operand
  <2>2. /\ f.o = o /\ f.addr = addr /\ f.from = k
        /\ f.vs = IF k = 0 THEN <<>> ELSE defs[k].aft
    BY <2>1 DEF Loaded, Found
  <2>3. Aimed(addr, at)
    <3>1. addr \in Sets /\ In(at, addr)
      BY <1>5, AddressSound DEF MayAim
    <3>2. at \in Values
      BY <1>5, TrueAddressIs DEF MayAim
    <3> QED BY <1>5, <3>1, <3>2 DEF Aimed, MayAim
  <2>4. True(o) = Content(at)
    BY <1>5 DEF True
  <2> HIDE DEF addr, k, at, f
  <2>5. k # 0 => k \in DOMAIN defs /\ Content(at) = defs[k].val
    BY <2>3, LoadRight DEF k
  <2>6. f.vs \in Sets /\ In(True(o), f.vs)
    <3>1. CASE k = 0
      BY <2>2, <3>1, OfSets, InSets
    <3>2. CASE k # 0
      BY <2>2, <2>4, <2>5, <3>2, DefIs
    <3> QED BY <3>1, <3>2
  <2> QED BY <2>2, <2>3, <2>6 DEF f, k, at
<1> QED BY <1>2, <1>3, <1>4, <1>5, OperandIs

LEMMA Resolved ==
  ASSUME NEW i \in Instructions, NEW f0, NEW f1, NEW vs,
         f0 = vs_traverse_inst_operand(i.dst), f1 = vs_traverse_inst_operand(i.src),
         Abort \notin {vs, f0.addr, f1.addr}, Ordinary(i, f0, f1, vs)
  PROVE  /\ f0.o = i.dst /\ f1.o = i.src
         /\ i.dst.kind = "mem" /\ i.op # "lea" => MayAim(i.dst)
         /\ i.src.kind = "mem" /\ i.op # "lea" => MayAim(i.src)
         /\ i.src.kind = "mem" => /\ IsNumber(Register(i.src.index)) /\ InRange(i.src) /\ UnbrokenExp(i.src)
<1>1. ASSUME NEW o, NEW f, f = vs_traverse_inst_operand(o)
      PROVE  f.o = o /\ (o.kind = "mem" => f.addr = vs_res_expression(o))
  <2>1. CASE o.kind # "mem"
    <3>1. f = Found(o, <<>>, 0, vs_res_non_expression(o))
      BY <1>1, <2>1 DEF vs_traverse_inst_operand
    <3> QED BY <2>1, <3>1 DEF Found
  <2>2. CASE o.kind = "mem"
    <3>1. f = Loaded(o, vs_res_expression(o), Source(vs_res_expression(o)))
      BY <1>1, <2>2, Zenon DEF vs_traverse_inst_operand
    <3> QED BY <2>2, <3>1 DEF Loaded, Found
  <2> QED BY <2>1, <2>2
<1>2. /\ f0.o = i.dst /\ (i.dst.kind = "mem" => f0.addr = vs_res_expression(i.dst))
      /\ f1.o = i.src /\ (i.src.kind = "mem" => f1.addr = vs_res_expression(i.src))
  BY <1>1
<1>3. ASSUME NEW f \in {f0, f1}, f.o.kind = "mem"
      PROVE  /\ IsNumber(Register(f.o.index)) /\ InRange(f.o) /\ UnbrokenExp(f.o)
             /\ i.op # "lea" => Reachable(f.addr) /\ InItsRegion(f.addr, TrueAddress(f.o))
  BY <1>3 DEF Ordinary
<1>4. i.dst.kind = "mem" /\ i.op # "lea" => MayAim(i.dst)
  BY <1>2, <1>3 DEF MayAim
<1>5. i.src.kind = "mem" /\ i.op # "lea" => MayAim(i.src)
  BY <1>2, <1>3 DEF MayAim
<1> QED BY <1>2, <1>3, <1>4, <1>5

(* The handler gives a set that holds all that the instruction may leave.  *)
LEMMA HandlerSound ==
  ASSUME RegistersOK, DefsOK, WithoutBits(Instructions), NEW i \in Instructions,
         NEW f0, NEW f1, NEW vs,
         f0 = vs_traverse_inst_operand(i.dst), f1 = vs_traverse_inst_operand(i.src),
         vs = vs_handler(i, i.preset, f0.vs, f1.vs),
         Abort \notin {vs, f0.addr, f1.addr}, Ordinary(i, f0, f1, vs)
  PROVE  vs \in Sets /\ \A v \in Effect(i) : v \in Values /\ In(v, vs)
<1> DEFINE d == True(i.dst)
           s == True(i.src)
           s0 == f0.vs
           s1 == f1.vs
<1>1. /\ i.dst \in Operands /\ i.src \in Operands /\ i.dst.kind \in {"reg", "mem"}
      /\ i.op \in {"mov", "lea", "movcc", "add", "sub", "inc", "dec", "xor", "not", "neg",
                   "shl", "shr", "rol", "ror", "imul", "bsf"}
      /\ i.op = "mov" => i.src.kind # "imm8"
      /\ i.op = "lea" => i.src.kind = "mem" /\ i.dst.kind = "reg"
      /\ i.op = "xor" => i.src = i.dst /\ i.dst.kind = "reg"
  BY DEF WithoutBits
<1>2. /\ i.dst.kind = "mem" /\ i.op # "lea" => MayAim(i.dst)
      /\ i.src.kind = "mem" /\ i.op # "lea" => MayAim(i.src)
      /\ i.src.kind = "mem" => /\ IsNumber(Register(i.src.index)) /\ InRange(i.src) /\ UnbrokenExp(i.src)
  BY Resolved
<1>3. d \in Values /\ s \in Values
  BY <1>1, TrueIs
<1>4. s0 \in Sets /\ In(d, s0)
  BY <1>1, <1>2, OperandSound
<1>5. i.op \in {"mov", "add", "sub"} => s1 \in Sets /\ In(s, s1)
  <2>1. i.op \in {"mov", "add", "sub"} => (i.src.kind = "imm8" => i.src.n \in 0 .. 2 ^ (ByteBits - 1) - 1)
    BY <1>1 DEF Ordinary
  <2> QED BY <1>1, <1>2, <2>1, OperandSound
<1>6. ASSUME NEW n \in Int PROVE Plus(d, Num(n)) = Value(d[1], d[2] + n)
  BY <1>3, PlusNum
<1>7. /\ \A ws : AllKnown(<<>>, s0, s1) = FALSE
      /\ \A ws : assign_value_set(<<>>, ws) = ws
  BY DEF AllKnown, valset_is_empty, assign_value_set
<1>8. CASE i.preset # <<>>
  <2> DEFINE r == i.preset[1].region
  <2>1. i.op \in {"mov", "add", "sub"} /\ NamesRegion(r) /\ i.preset = Single(r, One(0))
    BY <1>8 DEF WithoutBits
  <2>2. r \in Regions /\ r # GLOBAL_REGION /\ r # "garbage"
    BY <1>8, <2>1 DEF Regions, NamesRegion
  <2>3. Effect(i) = {<<r, 0>>}
    <3>1. Effect(i) = {Value(r, 0)}
      BY <1>8 DEF Effect, OnNumbers
    <3>2. Value(r, 0) = <<r, 0>>
      BY <2>2, ValueOf, LongSame, LongBounds
    <3> QED BY <3>1, <3>2
  <2>4. <<r, 0>> \in Values /\ i.preset \in Sets /\ In(<<r, 0>>, i.preset)
    <3>1. 0 \in Longs
      BY LongBounds
    <3>2. Single(r, One(0)) \in Sets /\ In(<<Base(r), 0>>, Single(r, One(0))) /\ Base(r) = r
      BY <2>2, <3>1, FullSets, BaseIs
    <3>3. <<r, 0>> \in Values
      BY <2>2, <3>1 DEF Values
    <3> QED BY <2>1, <3>2, <3>3
  <2> HIDE DEF r
  <2>5. ~ valset_is_empty(i.preset)
    BY <1>8 DEF valset_is_empty
  <2>6. vs = i.preset
    <3>1. CASE i.op = "mov"
      BY <2>5, <3>1 DEF vs_handler, mov_vs_handler, assign_value_set
    <3>2. CASE i.op = "add"
      BY <2>5, <3>2 DEF vs_handler, add_vs_handler, AllKnown, valset_add
    <3>3. CASE i.op = "sub"
      BY <2>5, <3>3 DEF vs_handler, sub_vs_handler, AllKnown, valset_sub
    <3> QED BY <2>1, <3>1, <3>2, <3>3
  <2> QED BY <2>3, <2>4, <2>6
<1>9. CASE i.preset = <<>>
  <2>0. vs = vs_handler(i, <<>>, s0, s1)
    BY <1>9
  <2>1. CASE i.op = "mov"
    <3>1. vs = s1 /\ Effect(i) = {s}
      BY <1>7, <1>9, <2>0, <2>1 DEF vs_handler, mov_vs_handler, Effect
    <3> QED BY <1>3, <1>5, <2>1, <3>1
  <2>2. CASE i.op = "lea"
    <3>1. vs = lea_vs_handler(<<>>, i.src) /\ Effect(i) = {TrueAddress(i.src)}
      BY <1>9, <2>0, <2>2 DEF vs_handler, Effect
    <3>2. TrueAddress(i.src) \in Values
      BY <1>1, <1>2, <2>2, TrueAddressIs
    <3> QED BY <1>1, <1>2, <2>2, <3>1, <3>2, LeaSound
  <2>3. CASE i.op = "movcc"
    <3>1. vs = <<>> /\ Effect(i) = {d, s}
      BY <1>9, <2>0, <2>3 DEF vs_handler, movcc_vs_handler, Effect
    <3> QED BY <1>3, <3>1, OfSets, InSets
  <2>4. CASE i.op = "add"
    <3>1. vs = valset_add(<<>>, s0, s1) /\ Effect(i) = {Plus(d, s)}
      BY <1>7, <1>9, <2>0, <2>4 DEF vs_handler, add_vs_handler, Effect
    <3>2. Unbroken(s0, s1)
      BY <2>4 DEF Ordinary, UnbrokenSum
    <3> HIDE DEF d, s, s0, s1
    <3>3. vs \in Sets /\ In(Plus(d, s), vs)
      BY <1>3, <1>4, <1>5, <2>4, <3>1, <3>2, AddSound
    <3> QED BY <1>3, <3>1, <3>3, SumOf
  <2>5. CASE i.op = "sub"
    <3>1. vs = valset_sub(<<>>, s0, s1) /\ Effect(i) = {Minus(d, s)}
      BY <1>7, <1>9, <2>0, <2>5 DEF vs_handler, sub_vs_handler, Effect
    <3>2. Unbroken(s0, valset_neg(s1))
      BY <2>5 DEF Ordinary, UnbrokenSum
    <3> HIDE DEF d, s, s0, s1
    <3>3. vs \in Sets /\ In(Minus(d, s), vs)
      BY <1>3, <1>4, <1>5, <2>5, <3>1, <3>2, SubSound
    <3> QED BY <1>3, <3>1, <3>3, SumOf
  <2>6. CASE i.op \in {"inc", "dec"}
    <3> DEFINE c == IF i.op = "inc" THEN 1 ELSE -1
    <3>1. vs = valset_add_offset(<<>>, s0, c) /\ Effect(i) = {Plus(d, Num(c))}
      BY <1>9, <2>0, <2>6 DEF vs_handler, inc_vs_handler, dec_vs_handler, Effect
    <3>2. Unbroken(s0, Number(c))
      BY <2>6 DEF Ordinary, UnbrokenSum
    <3>3. c \in Int /\ c \in Longs
      BY LongBounds
    <3> HIDE DEF d, s, s0, s1, c
    <3>4. \A q \in Regions, si \in Intervals : s0 = Single(q, si) =>
           \/ si_is_full(si)
           \/ Long(si.upper_bound + c) - Long(si.lower_bound + c)
                = (si.upper_bound + c) - (si.lower_bound + c)
      BY <3>2, <3>3, UnbrokenByOf
    <3>5. vs \in Sets /\ In(Value(d[1], d[2] + c), vs)
      BY <1>3, <1>4, <3>1, <3>3, <3>4, AddOffsetSound
    <3>6. Plus(d, Num(c)) \in Values
      BY <1>3, <3>3, SumOf, NumOf
    <3> QED BY <1>6, <3>1, <3>3, <3>5, <3>6
  <2>7. CASE i.op = "xor"
    <3>1. vs = add_new_valset(<<>>, CONST_REGION, One(0)) /\ Effect(i) = {Num(0)}
      BY <1>1, <1>9, <2>0, <2>7 DEF vs_handler, xor_vs_handler, Effect
    <3> QED BY <3>1, FullSets, NumOf, LongBounds
  <2>8. CASE i.op = "not"
    <3>1. vs = valset_not(<<>>, s0) /\ Effect(i) = {Minus(Num(-1), d)}
      BY <1>9, <2>0, <2>8 DEF vs_handler, not_vs_handler, Effect
    <3>2. IsNumber(d)
      BY <2>8 DEF Ordinary
    <3> HIDE DEF d, s0
    <3>3. Minus(Num(-1), d) \in Values
      BY <1>3, SumOf, NumOf, LongBounds
    <3> QED BY <1>3, <1>4, <3>1, <3>2, <3>3, NotSound
  <2>9. CASE i.op = "neg"
    <3>1. vs = valset_neg(s0) /\ Effect(i) = {Minus(Num(0), d)}
      BY <1>7, <1>9, <2>0, <2>9 DEF vs_handler, neg_vs_handler, Effect
    <3>2. IsNumber(d)
      BY <2>9 DEF Ordinary
    <3> HIDE DEF d, s0
    <3>3. Minus(Num(0), d) \in Values
      BY <1>3, SumOf, NumOf, LongBounds
    <3> QED BY <1>3, <1>4, <3>1, <3>2, <3>3, NegSound
  <2>10. CASE i.op \in {"shl", "shr", "rol", "ror", "imul"}
    <3>1. vs = valset_shl(<<>>, s0, s1)
      BY <2>0, <2>10 DEF vs_handler, shl_vs_handler, shr_vs_handler, rol_vs_handler, ror_vs_handler,
                         mul_vs_handler, valset_shr, valset_rol, valset_ror, valset_mul_two_or_more
    <3>2. \A v \in Effect(i) : v \in Values
      <4> DEFINE a == d[2]
                 b == s[2]
      <4>1. a \in Int /\ b \in Int
        BY <1>3, ValueFacts
      <4>2. ASSUME NEW n \in Int PROVE Num(n) \in Values
        BY ValueOf
      <4>3. Garbage \in Values
        BY ValueOf
      <4>4. ULong(a) \in Nat /\ ULong(b) \in Nat /\ Count(b) \in 0 .. Bits - 1 /\ Bits - Count(b) \in 0 .. Bits
        <5> HIDE DEF a, b
        <5>1. ULong(a) \in Nat /\ ULong(b) \in Nat
          BY <4>1, LongBounds, Division DEF ULong
        <5>2. ULong(b) % Bits \in 0 .. Bits - 1
          <6> DEFINE u == ULong(b)
          <6>1. u \in Int
            BY <5>1
          <6>2. Bits \in Nat \ {0}
            BY BitsAssumption
          <6> HIDE DEF u
          <6>3. u % Bits \in 0 .. Bits - 1
            BY <6>1, <6>2, Division
          <6> QED BY <6>3 DEF u
        <5> QED BY <5>1, <5>2, BitsAssumption DEF Count
      <4>5. ASSUME NEW n \in 0 .. Bits
            PROVE  /\ 2 ^ n \in Nat \ {0} /\ a * 2 ^ n \in Int /\ ULong(a) \div 2 ^ n \in Int
                   /\ Rotate(a, n) \in Int
        <5> HIDE DEF a, b
        <5> DEFINE w == 2 ^ n
                   x == 2 ^ (Bits - n)
                   u == ULong(a)
        <5>1. w \in Nat \ {0} /\ x \in Nat \ {0}
          BY Power, BitsAssumption
        <5>2. u \in Nat
          BY <4>4
        <5> HIDE DEF w, x, u
        <5>3. a * w \in Int /\ u \div w \in Int /\ u * w \in Int /\ u \div x \in Int
          BY <4>1, <5>1, <5>2, Division, Distribute
        <5>4. u * w + u \div x \in Int
          BY <5>3
        <5> QED BY <5>1, <5>3, <5>4 DEF w, x, u, Rotate
      <4>6. a * b \in Int
        BY <4>1, Distribute
      <4>7. CASE i.op = "shl"
        <5>1. Effect(i) = {IF IsNumber(d) /\ IsNumber(s) THEN Num(a * 2 ^ Count(b)) ELSE Garbage}
          BY <1>9, <4>7 DEF Effect, OnNumbers
        <5>2. a * 2 ^ Count(b) \in Int
          <6>1. Count(b) \in 0 .. Bits
            BY <4>4, BitsAssumption
          <6> QED BY <4>5, <6>1
        <5> QED BY <4>2, <4>3, <5>1, <5>2
      <4>8. CASE i.op = "shr"
        <5>1. Effect(i) = {IF IsNumber(d) /\ IsNumber(s) THEN Num(ULong(a) \div 2 ^ Count(b)) ELSE Garbage}
          BY <1>9, <4>8 DEF Effect, OnNumbers
        <5>2. ULong(a) \div 2 ^ Count(b) \in Int
          <6>1. Count(b) \in 0 .. Bits
            BY <4>4, BitsAssumption
          <6> QED BY <4>5, <6>1
        <5> QED BY <4>2, <4>3, <5>1, <5>2
      <4>9. CASE i.op = "rol"
        <5>1. Effect(i) = {IF IsNumber(d) /\ IsNumber(s) THEN Num(Rotate(a, Count(b))) ELSE Garbage}
          BY <1>9, <4>9 DEF Effect, OnNumbers
        <5>2. Rotate(a, Count(b)) \in Int
          <6>1. Count(b) \in 0 .. Bits
            BY <4>4, BitsAssumption
          <6> QED BY <4>5, <6>1
        <5> QED BY <4>2, <4>3, <5>1, <5>2
      <4>10. CASE i.op = "ror"
        <5>1. Effect(i) = {IF IsNumber(d) /\ IsNumber(s) THEN Num(Rotate(a, Bits - Count(b))) ELSE Garbage}
          BY <1>9, <4>10 DEF Effect, OnNumbers
        <5>2. Rotate(a, Bits - Count(b)) \in Int
          <6>1. Bits - Count(b) \in 0 .. Bits
            BY <4>4, BitsAssumption
          <6> QED BY <4>5, <6>1
        <5> QED BY <4>2, <4>3, <5>1, <5>2
      <4>11. CASE i.op = "imul"
        <5>1. Effect(i) = {IF IsNumber(d) /\ IsNumber(s) THEN Num(a * b) ELSE Garbage}
          BY <1>9, <4>11 DEF Effect, OnNumbers
        <5> QED BY <4>2, <4>3, <4>6, <5>1
      <4> QED BY <2>10, <4>7, <4>8, <4>9, <4>10, <4>11
    <3> QED BY <3>1, <3>2, ShlSound
  <2>11. CASE i.op = "bsf"
    <3>1. vs = bsf_vs_handler(<<>>) /\ Effect(i) = {Num(n) : n \in 0 .. Bits - 1}
      BY <1>9, <2>0, <2>11 DEF vs_handler, Effect
    <3> QED BY <3>1, BsfSound
  <2> QED BY <1>1, <2>1, <2>2, <2>3, <2>4, <2>5, <2>6, <2>7, <2>8, <2>9, <2>10, <2>11
<1> QED BY <1>8, <1>9

-----------------------------------------------------------------------------
(***************************************************************************)
(* The invariant: what registers and defines hold is in their sets, and an *)
(* access still reads what it was said to be from.                         *)
(***************************************************************************)
Right(a, ds) ==
  /\ Aimed(a.addr, a.at)
  /\ a.from # 0 => /\ a.from \in DOMAIN ds /\ ds[a.from].at = a.at
                   /\ \A k \in a.from + 1 .. a.before : Disjoint(ds[k].at, a.at)

IInv ==
  /\ RegistersOK /\ DefsOK
  /\ \A a \in access : Right(a, defs)
  /\ steps \in 0 .. MaxSteps /\ out \in {"ok", "abort"}

LEMMA AccessRight ==
  ASSUME DefsOK, NEW ws, NEW w, Aimed(ws, w), NEW from \in {0, Source(ws)},
         NEW ds, \A k \in DOMAIN defs : k \in DOMAIN ds /\ ds[k] = defs[k]
  PROVE  Right(Access(ws, w, from), ds)
<1> DEFINE a == Access(ws, w, from)
<1>1. a.addr = ws /\ a.at = w /\ a.from = from /\ a.before = Len(defs)
  BY DEF Access
<1>2. DOMAIN defs = 1 .. Len(defs) /\ Len(defs) \in Nat
  BY DEF DefsOK
<1>3. CASE from = 0
  BY <1>1, <1>3 DEF Right
<1>4. CASE from # 0
  <2>1. /\ from = Source(ws) /\ from \in DOMAIN defs /\ defs[from].at = w
        /\ \A k \in from + 1 .. Len(defs) : Disjoint(defs[k].at, w)
    BY <1>4, LoadRight
  <2>2. \A k \in from + 1 .. Len(defs) : k \in DOMAIN defs
    BY <1>2, <2>1
  <2> QED BY <1>1, <2>1, <2>2 DEF Right
<1> QED BY <1>3, <1>4

LEMMA NewAccessRight ==
  ASSUME DefsOK, NEW ws, NEW w, Aimed(ws, w),
         NEW ds, \A k \in DOMAIN defs : k \in DOMAIN ds /\ ds[k] = defs[k]
  PROVE  Right(Access(ws, w, 0), ds)
<1>1. 0 \in {0, Source(ws)}
  OBVIOUS
<1> QED BY <1>1, AccessRight

(* A define is put at the end of the list. *)
LEMMA Appended ==
  ASSUME DefsOK, NEW addr \in Sets, NEW at \in Values, NEW vs \in Sets, NEW v \in Values,
         Placed(addr, at), In(v, vs), defs' = Append(defs, DefNode(addr, at, vs, v))
  PROVE  DefsOK' /\ \A k \in DOMAIN defs : k \in DOMAIN defs' /\ defs'[k] = defs[k]
<1> DEFINE D == [addr : Sets, at : Values, aft : Sets, val : Values]
           d == DefNode(addr, at, vs, v)
<1>1. defs \in Seq(D)
  BY DEF DefsOK
<1>2. d \in D /\ d.addr = addr /\ d.at = at /\ d.aft = vs /\ d.val = v
  BY DEF DefNode
<1> HIDE DEF D, d
<1>3. /\ defs' \in Seq(D) /\ DOMAIN defs = 1 .. Len(defs) /\ DOMAIN defs' = 1 .. Len(defs) + 1 /\ Len(defs) \in Nat
      /\ \A k \in 1 .. Len(defs) : defs'[k] = defs[k]
      /\ defs'[Len(defs) + 1] = d
  <2>1. defs' = Append(defs, d)
    BY DEF d
  <2> QED BY <1>1, <1>2, <2>1
<1>4. \A k \in DOMAIN defs : k \in DOMAIN defs' /\ defs'[k] = defs[k]
  BY <1>3
<1>5. ASSUME NEW k \in DOMAIN defs' PROVE Placed(defs'[k].addr, defs'[k].at) /\ In(defs'[k].val, defs'[k].aft)
  <2>1. CASE k \in DOMAIN defs
    BY <1>4, <2>1, DefIs
  <2>2. CASE k = Len(defs) + 1
    BY <1>2, <1>3, <2>2
  <2> QED BY <1>3, <2>1, <2>2
<1>6. DefsOK'
  BY <1>3, <1>5 DEF DefsOK, D
<1> QED BY <1>4, <1>6

(* One known address is one place. *)
LEMMA PlacedIs ==
  ASSUME NEW addr, NEW at, Aimed(addr, at), addr # <<>>, OneValueEach(addr)
  PROVE  Placed(addr, at)
<1>1. PICK r \in Regions, si \in Intervals : addr = Single(r, si)
  BY OfSets DEF Aimed
<1>2. si.stride = 0 /\ si.lower_bound = si.upper_bound
  BY <1>1, OfSingle DEF OneValueEach, si_is_one_value
<1>3. si.lower_bound \in Longs /\ si = One(si.lower_bound)
  BY <1>2, IntervalFacts DEF One
<1> DEFINE n == si.lower_bound
<1>4. ~ si_is_full(si) /\ Elements(si) = {n}
  BY <1>3, FullIs
<1>5. at = <<at[1], at[2]>> /\ at[1] = Base(r) /\ at[2] = n /\ si.upper_bound + 4 <= MaxLong
  BY <1>1, <1>4, AimedAt DEF InReach
<1>6. n \in Longs /\ addr = Single(r, One(n)) /\ at = <<Base(r), n>> /\ n + 4 <= MaxLong
  BY <1>1, <1>2, <1>3, <1>5
<1> HIDE DEF n
<1> QED BY <1>6 DEF Placed

LEMMA Pushed ==
  ASSUME RegistersOK, NEW esp, esp = valset_add_offset(<<>>, aft["esp"], 0 - ADDR_SIZE_IN_BYTE),
         OneValueEach(esp), esp # <<>>, Reachable(esp)
  PROVE  LET at == Plus(reg["esp"], Num(0 - ADDR_SIZE_IN_BYTE))
         IN  esp \in Sets /\ at \in Values /\ In(at, esp) /\ Aimed(esp, at) /\ Placed(esp, at)
<1> DEFINE vs == aft["esp"]
           v == reg["esp"]
           c == 0 - ADDR_SIZE_IN_BYTE
           at == Plus(v, Num(c))
<1>1. vs \in Sets /\ v \in Values /\ In(v, vs)
  BY DEF RegistersOK, Registers
<1>2. c \in Int /\ esp = valset_add_offset(<<>>, vs, c)
  BY DEF ADDR_SIZE_IN_BYTE
<1> HIDE DEF vs, v, c
<1>3. ASSUME NEW q \in Regions, NEW si \in Intervals, vs = Single(q, si)
      PROVE  /\ \/ si_is_full(si)
                \/ Long(si.upper_bound + c) - Long(si.lower_bound + c) = (si.upper_bound + c) - (si.lower_bound + c)
             /\ ~ si_is_full(si_add_offset(si, c))
             /\ esp = Single(q, si_add_offset(si, c))
  <2> DEFINE ti == si_add_offset(si, c)
  <2>1. esp = Single(q, ti)
    BY <1>2, <1>3, AddOffsetOf
  <2>2. ti.stride = 0 /\ ti.lower_bound = ti.upper_bound
    BY <2>1, OfSingle DEF OneValueEach, si_is_one_value
  <2>3. ~ si_is_full(ti)
    BY <2>2, LongBounds DEF si_is_full, min_si, max_si
  <2>4. ~ si_is_full(si) /\ ti.stride = si.stride
    <3>1. ~ si_is_full(si)
      BY <2>3 DEF si_add_offset
    <3>2. ti = [si EXCEPT !.lower_bound = Long(@ + c), !.upper_bound = Long(@ + c)]
      BY <3>1 DEF si_add_offset
    <3>3. si = Interval(si.stride, si.lower_bound, si.upper_bound)
      BY IntervalFacts
    <3> QED BY <3>1, <3>2, <3>3 DEF Interval
  <2>5. si.lower_bound = si.upper_bound /\ si.lower_bound \in Int
    BY <2>2, <2>4, IntervalFacts
  <2>6. Long(si.upper_bound + c) - Long(si.lower_bound + c) = (si.upper_bound + c) - (si.lower_bound + c)
    <3>1. si.lower_bound + c \in Int
      BY <1>2, <2>5
    <3>2. Long(si.lower_bound + c) \in Int
      BY <3>1, LongOf, LongBounds
    <3> QED BY <2>5, <3>1, <3>2
  <2> QED BY <2>1, <2>3, <2>6
<1>4. esp \in Sets /\ In(Value(v[1], v[2] + c), esp)
  BY <1>1, <1>2, <1>3, AddOffsetSound
<1>5. at \in Values /\ at = Value(v[1], v[2] + c)
  BY <1>1, <1>2, PlusNum, SumOf, ValueOf
<1>6. InItsRegion(esp, at)
  <2>1. PICK q \in Regions, si \in Intervals : vs = Single(q, si)
    <3>1. vs # <<>>
      BY <1>2, AddOffsetOf
    <3> QED BY <1>1, <3>1, OfSets
  <2> QED BY <1>3, <2>1, OfSingle DEF InItsRegion
<1>7. Aimed(esp, at)
  BY <1>4, <1>5, <1>6 DEF Aimed
<1>8. Placed(esp, at)
  BY <1>7, PlacedIs
<1> QED BY <1>4, <1>5, <1>7, <1>8 DEF v, c

LEMMA Popped ==
  ASSUME RegistersOK, Reachable(aft["esp"])
  PROVE  /\ valset_add_offset(<<>>, aft["esp"], ADDR_SIZE_IN_BYTE) \in Sets
         /\ Plus(reg["esp"], Num(ADDR_SIZE_IN_BYTE)) \in Values
         /\ In(Plus(reg["esp"], Num(ADDR_SIZE_IN_BYTE)), valset_add_offset(<<>>, aft["esp"], ADDR_SIZE_IN_BYTE))
<1> DEFINE vs == aft["esp"]
           v == reg["esp"]
<1>1. vs \in Sets /\ v \in Values /\ In(v, vs) /\ ADDR_SIZE_IN_BYTE = 4 /\ Reachable(vs)
  BY DEF RegistersOK, Registers, ADDR_SIZE_IN_BYTE
<1> HIDE DEF vs, v
<1>2. ASSUME NEW q \in Regions, NEW si \in Intervals, vs = Single(q, si), ~ si_is_full(si)
      PROVE  Long(si.upper_bound + 4) - Long(si.lower_bound + 4) = (si.upper_bound + 4) - (si.lower_bound + 4)
  <2>1. si.upper_bound + 4 <= MaxLong
    BY <1>1, <1>2, OfSingle DEF Reachable
  <2>2. /\ si.lower_bound \in Longs /\ si.upper_bound \in Longs /\ si.lower_bound \in Int /\ si.upper_bound \in Int
        /\ si.lower_bound <= si.upper_bound
    BY IntervalFacts
  <2>3. si.lower_bound + 4 \in Longs /\ si.upper_bound + 4 \in Longs
    BY <2>1, <2>2, LongBounds
  <2> QED BY <2>3, LongSame
<1>3. valset_add_offset(<<>>, vs, 4) \in Sets /\ In(Value(v[1], v[2] + 4), valset_add_offset(<<>>, vs, 4))
  BY <1>1, <1>2, AddOffsetSound
<1>4. Plus(v, Num(4)) \in Values /\ Plus(v, Num(4)) = Value(v[1], v[2] + 4)
  BY <1>1, PlusNum, SumOf, ValueOf
<1> QED BY <1>1, <1>3, <1>4 DEF vs, v

-----------------------------------------------------------------------------
(***************************************************************************)
(* The steps.  The theorems are about the discipline that Ordinary states  *)
(* and the instructions that do not look at bits.                          *)
(***************************************************************************)
Unmasked == Disciplined /\ WithoutBits(Instructions) /\ ArePlaces(Unknowns)

LEMMA Started == ASSUME Unmasked, Init PROVE IInv
<1>1. ASSUME NEW a \in Unknowns PROVE a \in Values
  <2>1. a = Garbage \/ (a = <<a[1], a[2]>> /\ NamesRegion(a[1]) /\ a[2] \in Longs)
    BY DEF Unmasked, ArePlaces
  <2>2. CASE a = Garbage
    BY <2>2 DEF Values
  <2>3. CASE a # Garbage
    <3>1. a = <<a[1], a[2]>> /\ a[2] \in Longs /\ a[1] # GLOBAL_REGION
      BY <2>1, <2>3 DEF NamesRegion
    <3>2. a[1] \in Regions
      BY <2>1, <2>3 DEF NamesRegion, Regions
    <3> DEFINE b == a[1]
               n == a[2]
    <3>3. <<b, n>> \in Values
      <4> HIDE DEF b, n
      <4> QED BY <3>1, <3>2 DEF Values, b, n
    <3> QED BY <3>1, <3>3
  <2> QED BY <2>2, <2>3
<1>2. PICK a \in Unknowns, b \in Unknowns : reg = [eax |-> a, ebx |-> b, esp |-> <<STACK_REGION, 0>>]
  BY DEF Init
<1>3. 0 \in Longs
  BY LongBounds
<1>4. /\ <<STACK_REGION, 0>> \in Values
      /\ Single(STACK_REGION, One(0)) \in Sets /\ In(<<STACK_REGION, 0>>, Single(STACK_REGION, One(0)))
  <2>1. Base(STACK_REGION) = STACK_REGION
    BY ValueOf, BaseIs
  <2>2. <<STACK_REGION, 0>> \in Values
    BY <1>3, ValueOf DEF Values
  <2> QED BY <1>3, <2>1, <2>2, FullSets, ValueOf
<1>5. RegistersOK
  <2>1. aft = [eax |-> <<>>, ebx |-> <<>>, esp |-> Single(STACK_REGION, One(0))]
    BY DEF Init
  <2>2. reg \in [Registers -> Values]
    BY <1>1, <1>2, <1>4 DEF Registers
  <2>3. aft \in [Registers -> Sets]
    BY <2>1, <1>4, OfSets DEF Registers
  <2>4. ASSUME NEW r \in Registers PROVE In(reg[r], aft[r])
    <3>1. CASE r = "esp"
      BY <1>2, <1>4, <2>1, <3>1
    <3>2. CASE r = "eax" \/ r = "ebx"
      BY <2>1, <3>2, InSets
    <3> QED BY <3>1, <3>2 DEF Registers
  <2> QED BY <2>2, <2>3, <2>4 DEF RegistersOK
<1>6. DefsOK
  BY DEF Init, DefsOK
<1> QED BY <1>5, <1>6, MaxStepsAssumption DEF Init, IInv

(* An access to the lists of defines as they are after a step.             *)
LEMMA Stepped ==
  ASSUME IInv, RegistersOK', DefsOK', steps < MaxSteps, steps' = steps + 1, out' \in {"ok", "abort"},
         \A a \in access' : Right(a, defs')
  PROVE  IInv'
<1>1. steps' \in 0 .. MaxSteps
  BY MaxStepsAssumption DEF IInv
<1> QED BY <1>1 DEF IInv

LEMMA Executed ==
  ASSUME Unmasked, IInv, NEW i \in Instructions, Execute(i)
  PROVE  IInv'
<1>1. RegistersOK /\ DefsOK /\ (\A a \in access : Right(a, defs)) /\ Disciplined /\ WithoutBits(Instructions)
  BY DEF IInv, Unmasked
<1>2. PICK f0 \in {vs_traverse_inst_operand(i.dst)}, f1 \in {vs_traverse_inst_operand(i.src)} :
      \E vs \in {vs_handler(i, i.preset, f0.vs, f1.vs)} :
        \/ Abort \notin {vs, f0.addr, f1.addr} /\ Handle(i, f0, f1, vs)
        \/ Abort \in {vs, f0.addr, f1.addr} /\ GiveUp
  BY Zenon DEF Execute
<1>3. PICK vs \in {vs_handler(i, i.preset, f0.vs, f1.vs)} :
        \/ Abort \notin {vs, f0.addr, f1.addr} /\ Handle(i, f0, f1, vs)
        \/ Abort \in {vs, f0.addr, f1.addr} /\ GiveUp
  BY <1>2
<1>4. /\ f0 = vs_traverse_inst_operand(i.dst) /\ f1 = vs_traverse_inst_operand(i.src)
      /\ vs = vs_handler(i, i.preset, f0.vs, f1.vs)
  OBVIOUS
<1>5. steps < MaxSteps /\ steps' = steps + 1 /\ out = "ok"
  BY DEF Execute, Step
<1>6. CASE GiveUp
  <2>1. reg' = reg /\ aft' = aft /\ defs' = defs /\ access' = access /\ out' = "abort"
    BY <1>6 DEF GiveUp
  <2>2. RegistersOK' /\ DefsOK'
    <3>1. RegistersOK'
      BY <1>1, <2>1 DEF RegistersOK
    <3>2. DefsOK'
      BY <1>1, <2>1 DEF DefsOK
    <3> QED BY <3>1, <3>2
  <2> QED BY <1>1, <1>5, <2>1, <2>2, Stepped
<1>7. CASE Abort \notin {vs, f0.addr, f1.addr} /\ Handle(i, f0, f1, vs)
  <2>1. Ordinary(i, f0, f1, vs) /\ Write(i, f0, vs) /\ out' = "ok"
    BY <1>1, <1>5, <1>7 DEF Handle
  <2>2. vs \in Sets /\ \A v \in Effect(i) : v \in Values /\ In(v, vs)
    BY <1>1, <1>4, <1>7, <2>1, HandlerSound
  <2>3. /\ f0.o = i.dst /\ f1.o = i.src
        /\ i.dst.kind = "mem" /\ i.op # "lea" => MayAim(i.dst)
        /\ i.src.kind = "mem" /\ i.op # "lea" => MayAim(i.src)
    BY <1>4, <1>7, <2>1, Resolved
  <2>4. /\ i.dst \in Operands /\ i.src \in Operands /\ i.dst.kind \in {"reg", "mem"}
        /\ i.dst.kind = "mem" => i.op # "lea"
    BY <1>1 DEF WithoutBits
  <2>5. /\ i.dst.kind = "mem" =>
             Aimed(f0.addr, TrueAddress(i.dst)) /\ f0.from = Source(f0.addr)
        /\ i.src.kind = "mem" /\ i.op # "lea" =>
             Aimed(f1.addr, TrueAddress(i.src)) /\ f1.from = Source(f1.addr)
    <3>1. i.dst.kind = "mem" =>
             Aimed(f0.addr, TrueAddress(i.dst)) /\ f0.from = Source(f0.addr)
      BY <1>1, <1>4, <2>3, <2>4, OperandSound
    <3>2. i.src.kind = "mem" /\ i.op # "lea" =>
             Aimed(f1.addr, TrueAddress(i.src)) /\ f1.from = Source(f1.addr)
      BY <1>1, <1>4, <2>3, <2>4, OperandSound
    <3> QED BY <3>1, <3>2
  <2>6. PICK v \in Effect(i) :
        IF i.dst.kind = "reg"
        THEN /\ reg' = [reg EXCEPT ![i.dst.base] = v]
             /\ aft' = [aft EXCEPT ![i.dst.base] = vs]
             /\ UNCHANGED defs
        ELSE /\ defs' = Append(defs, DefNode(f0.addr, TrueAddress(i.dst), vs, v))
             /\ UNCHANGED <<reg, aft>>
    BY <2>1 DEF Write
  <2>7. v \in Values /\ In(v, vs)
    BY <2>2
  <2>8. RegistersOK' /\ DefsOK' /\ \A k \in DOMAIN defs : k \in DOMAIN defs' /\ defs'[k] = defs[k]
    <3>1. CASE i.dst.kind = "reg"
      <4>1. i.dst.base \in Registers
        BY <1>1, <2>4, <3>1, OperandIs
      <4>2. RegistersOK'
        BY <1>1, <2>2, <2>6, <2>7, <3>1, <4>1 DEF RegistersOK
      <4>3. DefsOK'
        BY <1>1, <2>6, <3>1 DEF DefsOK
      <4> QED BY <2>6, <3>1, <4>2, <4>3
    <3>2. CASE i.dst.kind = "mem"
      <4>1. OneAddress(f0.addr)
        BY <2>1, <3>2 DEF Ordinary
      <4>2. f0.addr # <<>> /\ OneValueEach(f0.addr)
        BY <4>1 DEF OneAddress
      <4>3. Placed(f0.addr, TrueAddress(i.dst))
        BY <2>5, <3>2, <4>2, PlacedIs
      <4>4. f0.addr \in Sets /\ TrueAddress(i.dst) \in Values
        BY <2>5, <3>2 DEF Aimed
      <4>5. defs' = Append(defs, DefNode(f0.addr, TrueAddress(i.dst), vs, v)) /\ reg' = reg /\ aft' = aft
        BY <2>6, <3>2
      <4>6. RegistersOK'
        BY <1>1, <4>5 DEF RegistersOK
      <4> QED BY <1>1, <2>2, <2>7, <4>3, <4>4, <4>5, <4>6, Appended
    <3> QED BY <2>4, <3>1, <3>2
  <2>9. ASSUME NEW a \in access' PROVE Right(a, defs')
    <3>1. access' = {Access(f.addr, TrueAddress(f.o), IF Writes(i, f) THEN 0 ELSE f.from) : f \in Memory(i, f0, f1)}
      BY <1>7, Zenon DEF Handle
    <3>2. PICK f \in Memory(i, f0, f1) : a = Access(f.addr, TrueAddress(f.o), IF Writes(i, f) THEN 0 ELSE f.from)
      BY <3>1
    <3>3. f \in {f0, f1} /\ i.op # "lea" /\ f.o.kind = "mem"
      BY DEF Memory
    <3>4. Aimed(f.addr, TrueAddress(f.o)) /\ f.from = Source(f.addr)
      BY <2>3, <2>5, <3>3
    <3> DEFINE from == IF Writes(i, f) THEN 0 ELSE f.from
    <3>5. from \in {0, Source(f.addr)}
      BY <3>4
    <3> HIDE DEF from
    <3>6. Right(Access(f.addr, TrueAddress(f.o), from), defs')
      BY <1>1, <2>8, <3>4, <3>5, AccessRight
    <3> QED BY <3>2, <3>6 DEF from
  <2> QED BY <1>5, <2>1, <2>8, <2>9, Stepped
<1> QED BY <1>3, <1>6, <1>7

(* What push and call have in common: a define above the top of the stack. *)
LEMMA Grown ==
  ASSUME Unmasked, IInv, NEW esp, NEW vs \in Sets, NEW v \in Values, In(v, vs),
         esp = valset_add_offset(<<>>, aft["esp"], 0 - ADDR_SIZE_IN_BYTE),
         OneValueEach(esp), esp # <<>>, Reachable(esp), Step, out' = out,
         NEW at, at = Plus(reg["esp"], Num(0 - ADDR_SIZE_IN_BYTE)),
         aft' = [aft EXCEPT !["esp"] = esp], reg' = [reg EXCEPT !["esp"] = at],
         defs' = Append(defs, DefNode(esp, at, vs, v)), access' = {Access(esp, at, 0)}
  PROVE  IInv'
<1>1. RegistersOK /\ DefsOK /\ out \in {"ok", "abort"} /\ "esp" \in Registers
  BY DEF IInv, Registers
<1>2. esp \in Sets /\ at \in Values /\ In(at, esp) /\ Aimed(esp, at) /\ Placed(esp, at)
  BY <1>1, Pushed
<1>3. RegistersOK'
  BY <1>1, <1>2 DEF RegistersOK
<1>4. DefsOK' /\ \A k \in DOMAIN defs : k \in DOMAIN defs' /\ defs'[k] = defs[k]
  BY <1>1, <1>2, Appended
<1>5. Right(Access(esp, at, 0), defs')
  <2> DEFINE ds == defs'
  <2>1. DefsOK /\ Aimed(esp, at) /\ \A k \in DOMAIN defs : k \in DOMAIN ds /\ ds[k] = defs[k]
    BY <1>1, <1>2, <1>4
  <2> HIDE DEF ds
  <2>2. Right(Access(esp, at, 0), ds)
    BY ONLY <2>1, NewAccessRight
  <2> QED BY <2>2 DEF ds
<1>6. steps < MaxSteps /\ steps' = steps + 1 /\ out' \in {"ok", "abort"}
  BY <1>1 DEF Step
<1> QED BY <1>3, <1>4, <1>5, <1>6, Stepped

LEMMA PushKept ==
  ASSUME Unmasked, IInv, NEW o \in Operands, push_vs_handler(o)
  PROVE  IInv'
<1> DEFINE esp == valset_add_offset(<<>>, aft["esp"], 0 - ADDR_SIZE_IN_BYTE)
           at  == Plus(reg["esp"], Num(0 - ADDR_SIZE_IN_BYTE))
           vs  == sign_extend_value_set(o, vs_res_non_expression(o))
<1>1. /\ Step /\ o.kind # "mem" /\ (Disciplined => OneValueEach(esp) /\ esp # <<>> /\ Reachable(esp))
      /\ aft' = [aft EXCEPT !["esp"] = esp]
      /\ reg' = [reg EXCEPT !["esp"] = at]
      /\ defs' = Append(defs, DefNode(esp, at, vs, True(o)))
      /\ access' = {Access(esp, at, 0)} /\ out' = out
  BY DEF push_vs_handler
<1>2. RegistersOK /\ DefsOK /\ Disciplined
  BY DEF IInv, Unmasked
<1>3. vs \in Sets /\ In(True(o), vs) /\ True(o) \in Values
  <2>1. True(o) \in Values
    BY <1>2, TrueIs
  <2>2. CASE o.kind = "reg"
    <3>1. vs = aft[o.base] /\ True(o) = reg[o.base]
      BY <2>2 DEF sign_extend_value_set, vs_res_non_expression, True
    <3> QED BY <1>2, <2>1, <2>2, <3>1, OperandIs
  <2>3. CASE o.kind \in {"imm", "imm8"}
    <3>1. vs = Number(o.n) /\ True(o) = Num(o.n)
      BY <2>3 DEF sign_extend_value_set, vs_res_non_expression, True
    <3> QED BY <1>2, <2>1, <3>1, OperandIs, FullSets
  <2> QED BY <1>1, <1>2, <2>2, <2>3, OperandIs
<1> HIDE DEF esp, at, vs
<1>4. /\ esp = valset_add_offset(<<>>, aft["esp"], 0 - ADDR_SIZE_IN_BYTE)
      /\ at = Plus(reg["esp"], Num(0 - ADDR_SIZE_IN_BYTE))
  BY DEF esp, at
<1> QED BY <1>1, <1>2, <1>3, <1>4, Grown

LEMMA CallKept == ASSUME Unmasked, IInv, call_vs_handler PROVE IInv'
<1> DEFINE esp == valset_add_offset(<<>>, aft["esp"], 0 - ADDR_SIZE_IN_BYTE)
           at  == Plus(reg["esp"], Num(0 - ADDR_SIZE_IN_BYTE))
<1>1. /\ Step /\ (Disciplined => OneValueEach(esp) /\ esp # <<>> /\ Reachable(esp))
      /\ aft' = [aft EXCEPT !["esp"] = esp]
      /\ reg' = [reg EXCEPT !["esp"] = at]
      /\ defs' = Append(defs, DefNode(esp, at, <<>>, Num(0)))
      /\ access' = {Access(esp, at, 0)} /\ out' = out
  BY DEF call_vs_handler
<1>2. Disciplined
  BY DEF Unmasked
<1>3. <<>> \in Sets /\ In(Num(0), <<>>) /\ Num(0) \in Values
  BY OfSets, InSets, ValueOf
<1> HIDE DEF esp, at
<1>4. /\ esp = valset_add_offset(<<>>, aft["esp"], 0 - ADDR_SIZE_IN_BYTE)
      /\ at = Plus(reg["esp"], Num(0 - ADDR_SIZE_IN_BYTE))
  BY DEF esp, at
<1> QED BY <1>1, <1>2, <1>3, <1>4, Grown

(* What pop and return have in common: an access to the top of the stack.  *)
LEMMA Shrunk ==
  ASSUME Unmasked, IInv, Reachable(aft["esp"]), InItsRegion(aft["esp"], reg["esp"]),
         Step, out' = out, defs' = defs, RegistersOK',
         access' = {Access(aft["esp"], reg["esp"], Source(aft["esp"]))}
  PROVE  IInv'
<1>1. RegistersOK /\ DefsOK /\ out \in {"ok", "abort"} /\ "esp" \in Registers
  BY DEF IInv, Registers
<1>2. Aimed(aft["esp"], reg["esp"])
  BY <1>1 DEF Aimed, RegistersOK
<1>3. DefsOK'
  BY <1>1 DEF DefsOK
<1>4. Right(Access(aft["esp"], reg["esp"], Source(aft["esp"])), defs')
  BY <1>1, <1>2, AccessRight
<1>5. steps < MaxSteps /\ steps' = steps + 1 /\ out' \in {"ok", "abort"}
  BY <1>1 DEF Step
<1> QED BY <1>1, <1>3, <1>4, <1>5, Stepped

LEMMA PopKept == ASSUME Unmasked, IInv, pop_vs_handler("eax") PROVE IInv'
<1> DEFINE addr == aft["esp"]
           k == Source(addr)
           vs == IF k = 0 THEN <<>> ELSE defs[k].aft
           v == Content(reg["esp"])
           up == valset_add_offset(<<>>, addr, ADDR_SIZE_IN_BYTE)
           at == Plus(reg["esp"], Num(ADDR_SIZE_IN_BYTE))
<1>1. /\ Step /\ (Disciplined => Reachable(addr) /\ InItsRegion(addr, reg["esp"]))
      /\ aft' = [aft EXCEPT !["esp"] = up, !["eax"] = vs]
      /\ reg' = [reg EXCEPT !["esp"] = at, !["eax"] = v]
      /\ access' = {Access(addr, reg["esp"], k)}
      /\ defs' = defs /\ out' = out
  BY DEF pop_vs_handler
<1>2. RegistersOK /\ DefsOK /\ Disciplined
  BY DEF IInv, Unmasked
<1>3. Aimed(addr, reg["esp"])
  BY <1>1, <1>2 DEF Aimed, RegistersOK, Registers
<1>4. vs \in Sets /\ v \in Values /\ In(v, vs)
  <2>1. v \in Values
    BY <1>2, ContentIs
  <2>2. CASE k = 0
    BY <2>1, <2>2, OfSets, InSets
  <2>3. CASE k # 0
    <3>1. k \in DOMAIN defs /\ v = defs[k].val
      BY <1>2, <1>3, <2>3, LoadRight
    <3>2. vs = defs[k].aft
      BY <2>3
    <3> HIDE DEF k, v, vs
    <3> QED BY <1>2, <2>1, <3>1, <3>2, DefIs
  <2> QED BY <2>2, <2>3
<1>5. up \in Sets /\ at \in Values /\ In(at, up)
  BY <1>1, <1>2, Popped
<1>6. RegistersOK'
  <2> HIDE DEF vs, v, up, at
  <2> QED BY <1>1, <1>2, <1>4, <1>5 DEF RegistersOK, Registers
<1> QED BY <1>1, <1>2, <1>6, Shrunk

LEMMA ReturnKept == ASSUME Unmasked, IInv, return_vs_handler PROVE IInv'
<1> DEFINE up == valset_add_offset(<<>>, aft["esp"], ADDR_SIZE_IN_BYTE)
           at == Plus(reg["esp"], Num(ADDR_SIZE_IN_BYTE))
<1>1. /\ Step /\ (Disciplined => Reachable(aft["esp"]) /\ InItsRegion(aft["esp"], reg["esp"]))
      /\ aft' = [aft EXCEPT !["esp"] = up]
      /\ reg' = [reg EXCEPT !["esp"] = at]
      /\ access' = {Access(aft["esp"], reg["esp"], Source(aft["esp"]))}
      /\ defs' = defs /\ out' = out
  BY DEF return_vs_handler
<1>2. RegistersOK /\ DefsOK /\ Disciplined
  BY DEF IInv, Unmasked
<1>3. up \in Sets /\ at \in Values /\ In(at, up)
  BY <1>1, <1>2, Popped
<1>4. RegistersOK'
  <2> HIDE DEF up, at
  <2> QED BY <1>1, <1>2, <1>3 DEF RegistersOK, Registers
<1> QED BY <1>1, <1>2, <1>4, Shrunk

LEMMA XchgKept == ASSUME IInv, xchg_vs_handler("eax", "ebx") PROVE IInv'
<1>1. /\ steps < MaxSteps /\ steps' = steps + 1
      /\ aft' = [aft EXCEPT !["eax"] = aft["ebx"], !["ebx"] = aft["eax"]]
      /\ reg' = [reg EXCEPT !["eax"] = reg["ebx"], !["ebx"] = reg["eax"]]
      /\ access' = {} /\ defs' = defs /\ out' = out
  BY DEF xchg_vs_handler, Step
<1>2. RegistersOK /\ DefsOK /\ out \in {"ok", "abort"}
  BY DEF IInv
<1>3. RegistersOK'
  BY <1>1, <1>2 DEF RegistersOK, Registers
<1>4. DefsOK'
  BY <1>1, <1>2 DEF DefsOK
<1> QED BY <1>1, <1>2, <1>3, <1>4, Stepped

LEMMA StutterKept == ASSUME IInv, UNCHANGED vars PROVE IInv'
BY DEF IInv, RegistersOK, DefsOK, vars

LEMMA Inductive == ASSUME Unmasked PROVE Spec => []IInv
<1>1. Init => IInv
  BY Started
<1>2. ASSUME IInv, [Next]_vars PROVE IInv'
  <2>1. ASSUME NEW i \in Instructions, Execute(i) PROVE IInv'
    BY <1>2, <2>1, Executed
  <2>2. ASSUME NEW i \in Instructions, push_vs_handler(i.src) PROVE IInv'
    <3>1. i.src \in Operands
      BY DEF Unmasked, WithoutBits
    <3> QED BY <1>2, <2>2, <3>1, PushKept
  <2> QED BY <1>2, <2>1, <2>2, PopKept, CallKept, ReturnKept, XchgKept, StutterKept DEF Next
<1> QED BY <1>1, <1>2, PTL DEF Spec

(***************************************************************************)
(* The theorems.                                                           *)
(***************************************************************************)
(* Every interval that add, sub, lea, inc, dec, neg, not and the stack     *)
(* leave has its bounds in order and at a distance that its stride divides,*)
(* and no comparison with the address of a define is endless.              *)
THEOREM TypesKept == ASSUME Unmasked PROVE Spec => []TypeOK
<1>1. ASSUME NEW vs \in Sets, NEW k \in DOMAIN vs PROVE WellFormed(vs[k].si)
  <2>1. PICK r \in Regions, si \in Intervals : vs = Single(r, si)
    BY OfSets
  <2>2. vs[k].si = si
    BY <2>1, OfSingle
  <2> QED BY <2>2 DEF Intervals
<1>2. ASSUME IInv PROVE TypeOK
  <2>1. ASSUME NEW vs \in AllSets PROVE vs \in Sets
    <3>1. ASSUME NEW r \in Registers PROVE aft[r] \in Sets
      BY <1>2 DEF IInv, RegistersOK
    <3>2. ASSUME NEW k \in DOMAIN defs PROVE defs[k].aft \in Sets /\ defs[k].addr \in Sets
      BY <1>2, DefIs DEF IInv
    <3>3. ASSUME NEW a \in access PROVE a.addr \in Sets
      BY <1>2 DEF IInv, Right, Aimed
    <3> QED BY <3>1, <3>2, <3>3 DEF AllSets
  <2>2. ASSUME NEW k \in DOMAIN defs, NEW e \in DOMAIN defs[k].addr PROVE defs[k].addr[e].si.stride = 0
    <3>1. PICK b \in Regions, n \in Longs : defs[k].addr = Single(b, One(n))
      BY <1>2, DefIs DEF IInv, Placed
    <3>2. defs[k].addr[e].si = One(n)
      BY <3>1, OfSingle
    <3> QED BY <3>2, FullIs
  <2>3. steps \in 0 .. MaxSteps /\ out \in {"ok", "abort"}
    BY <1>2 DEF IInv
  <2> QED BY <1>1, <2>1, <2>2, <2>3 DEF TypeOK
<1>3. Spec => []IInv
  BY Inductive
<1> QED BY <1>2, <1>3, PTL

(* Whatever a register holds, a write has left or an access goes to is in  *)
(* the set that one_round_of_vsa has computed for it.                      *)
THEOREM SoundAlways == ASSUME Unmasked PROVE Spec => []Sound
<1>1. ASSUME IInv PROVE Sound
  <2>1. ASSUME NEW r \in Registers PROVE In(reg[r], aft[r])
    BY <1>1 DEF IInv, RegistersOK
  <2>2. ASSUME NEW k \in DOMAIN defs PROVE In(defs[k].val, defs[k].aft) /\ In(defs[k].at, defs[k].addr)
    <3>1. In(defs[k].val, defs[k].aft) /\ Placed(defs[k].addr, defs[k].at)
      BY <1>1, DefIs DEF IInv
    <3>2. PICK b \in Regions, n \in Longs : defs[k].addr = Single(b, One(n)) /\ defs[k].at = <<Base(b), n>>
      BY <3>1 DEF Placed
    <3> QED BY <3>1, <3>2, FullSets
  <2>3. ASSUME NEW a \in access PROVE In(a.at, a.addr)
    BY <1>1 DEF IInv, Right, Aimed
  <2> QED BY <2>1, <2>2, <2>3 DEF Sound
<1>2. Spec => []IInv
  BY Inductive
<1> QED BY <1>1, <1>2, PTL

(* valset_verify_noalias: accesses that mem_valset_overlap says to be      *)
(* disjoint are.                                                           *)
THEOREM NoAliasAlways == ASSUME Unmasked PROVE Spec => []NoAliasRight
<1>1. ASSUME IInv PROVE NoAliasRight
  <2>1. ASSUME NEW a \in access, NEW k \in DOMAIN defs,
               ~ mem_valset_overlap(defs[k].addr, ADDR_SIZE_IN_BYTE, a.addr, ADDR_SIZE_IN_BYTE)
        PROVE  Disjoint(defs[k].at, a.at)
    <3>1. Placed(defs[k].addr, defs[k].at) /\ Aimed(a.addr, a.at)
      BY <1>1, DefIs DEF IInv, Right
    <3> QED BY <2>1, <3>1, Apart DEF ADDR_SIZE_IN_BYTE
  <2> QED BY <2>1 DEF NoAliasRight
<1>2. Spec => []IInv
  BY Inductive
<1> QED BY <1>1, <1>2, PTL

(* The define that vs_find_prev_def_of_use finds is the one that the       *)
(* access reads: nothing in between has touched the cell.                  *)
THEOREM LastWriteAlways == ASSUME Unmasked PROVE Spec => []LastWrite
<1>1. IInv => LastWrite
  BY DEF IInv, Right, LastWrite
<1>2. Spec => []IInv
  BY Inductive
<1> QED BY <1>1, <1>2, PTL
=============================================================================
