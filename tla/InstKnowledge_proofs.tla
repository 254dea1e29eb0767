----------------------- MODULE InstKnowledge_proofs -----------------------
(***************************************************************************)
(* What the proofs about the instructions rest on, for every base that a   *)
(* byte may have and every value.  The parts are: numbers, bytes and bits; *)
(* the nodes that a handler makes; knowledge that grows; and the shapes of *)
(* resolvers, each with a lemma that says when a resolver of that shape    *)
(* concludes only what is true, never fails on what is wrong, and has said *)
(* all it can once it has run: one use and one define that are functions   *)
(* of each other, a define computed from its uses, two uses and a define   *)
(* that determine each other, and chains of these.                         *)
(***************************************************************************)
EXTENDS InstructionStep, FiniteSetTheorems, SequenceTheorems, WellFoundedInduction, TLAPS

(* Induction over the natural numbers, for a set.                          *)
LEMMA SetInduction ==
  ASSUME NEW S \in SUBSET Nat, 0 \in S, \A n \in S : n + 1 \in S
  PROVE  S = Nat
<1> SUFFICES ASSUME S # Nat PROVE FALSE
  OBVIOUS
<1> DEFINE T == Nat \ S
<1>1. T \subseteq Nat /\ T # {}
  OBVIOUS
<1>2. PICK m \in T : \A y \in T : ~ (<<y, m>> \in OpToRel(<, Nat))
  BY <1>1, NatLessThanWellFounded, WFMin
<1>3. m - 1 \in Nat /\ m - 1 < m
  BY SMT
<1>4. m - 1 \in T
  BY <1>3
<1>5. <<m - 1, m>> \in OpToRel(<, Nat)
  BY <1>3, <1>1 DEF OpToRel
<1> QED BY <1>2, <1>4, <1>5

(* A function that computes each of its values from the one before exists, *)
(* and its values are where the steps lead.                                *)
Unfolds(g, n, a, step) ==
  g = [k \in 0 .. n |-> IF k = 0 THEN a ELSE step[k][g[k - 1]]]
(* Such a function exists, and its values stay in the set of the steps.    *)
LEMMA Recursion ==
  ASSUME NEW S, NEW n \in Nat, NEW a \in S, NEW step,
         \A k \in 1 .. n : \A y \in S : step[k][y] \in S
  PROVE  /\ \E g : Unfolds(g, n, a, step)
         /\ \A g : Unfolds(g, n, a, step) => g \in [0 .. n -> S]
<1> DEFINE N == {m \in Nat : m <= n => \E g : Unfolds(g, m, a, step)}
<1>1. 0 \in N
  <2>1. Unfolds([k \in 0 .. 0 |-> a], 0, a, step)
    BY DEF Unfolds
  <2> QED BY <2>1
<1>2. ASSUME NEW m \in N PROVE m + 1 \in N
  <2> SUFFICES ASSUME m + 1 <= n PROVE \E g : Unfolds(g, m + 1, a, step)
    OBVIOUS
  <2>1. PICK g : Unfolds(g, m, a, step)
    OBVIOUS
  <2> DEFINE e == [k \in 0 .. m + 1 |-> IF k = m + 1 THEN step[m + 1][g[m]] ELSE g[k]]
  <2>2. ASSUME NEW k \in 0 .. m + 1 PROVE e[k] = IF k = 0 THEN a ELSE step[k][e[k - 1]]
    <3>1. m \in Nat /\ m \in 0 .. m + 1
      OBVIOUS
    <3>2. CASE k = 0
      <4>1. g[0] = a
        BY <2>1, <3>1 DEF Unfolds
      <4> QED BY <3>1, <3>2, <4>1
    <3>3. CASE k = m + 1
      <4>1. k - 1 = m /\ m # m + 1
        BY <3>1, <3>3
      <4> QED BY <3>1, <3>3, <4>1
    <3>4. CASE k \in 1 .. m
      <4>1. k \in 0 .. m /\ k - 1 \in 0 .. m /\ k # 0 /\ k # m + 1 /\ k - 1 # m + 1
        BY <3>1, <3>4
      <4>2. g[k] = step[k][g[k - 1]]
        BY <2>1, <4>1 DEF Unfolds
      <4>3. e[k] = g[k] /\ e[k - 1] = g[k - 1]
        BY <3>1, <4>1
      <4> QED BY <4>1, <4>2, <4>3
    <3> QED BY <3>1, <3>2, <3>3, <3>4
  <2>3. e = [k \in 0 .. m + 1 |-> e[k]]
    OBVIOUS
  <2> HIDE DEF e
  <2>4. Unfolds(e, m + 1, a, step)
    BY <2>2, <2>3 DEF Unfolds
  <2> QED BY <2>4
<1>3. N \in SUBSET Nat
  OBVIOUS
<1> HIDE DEF N
<1>4. N = Nat
  BY <1>1, <1>2, <1>3, SetInduction
<1>5. \E g : Unfolds(g, n, a, step)
  BY <1>4 DEF N
<1>6. ASSUME NEW g, Unfolds(g, n, a, step) PROVE g \in [0 .. n -> S]
  <2> DEFINE L == {m \in Nat : m <= n => g[m] \in S}
  <2>1. 0 \in L
    BY <1>6 DEF Unfolds
  <2>2. ASSUME NEW m \in L PROVE m + 1 \in L
    <3> SUFFICES ASSUME m + 1 <= n PROVE g[m + 1] \in S
      OBVIOUS
    <3>1. m \in Nat /\ g[m] \in S /\ m + 1 \in 1 .. n /\ m + 1 \in 0 .. n /\ m + 1 - 1 = m
          /\ m + 1 # 0
      OBVIOUS
    <3>2. g[m + 1] = step[m + 1][g[m]]
      BY <1>6, <3>1 DEF Unfolds
    <3> QED BY <3>1, <3>2
  <2>3. L \in SUBSET Nat
    OBVIOUS
  <2> HIDE DEF L
  <2>4. L = Nat
    BY <2>1, <2>2, <2>3, SetInduction
  <2>5. g = [k \in 0 .. n |-> g[k]]
    BY <1>6 DEF Unfolds
  <2> QED BY <2>4, <2>5 DEF L
<1> QED BY <1>5, <1>6

-----------------------------------------------------------------------------
(* Quotient and remainder. *)
LEMMA Division ==
  ASSUME NEW b \in Nat \ {0}, NEW n \in Int
  PROVE  /\ n \div b \in Int /\ n % b \in 0 .. b - 1 /\ n = b * (n \div b) + (n % b)
         /\ \A q \in Int, r \in 0 .. b - 1 : n = b * q + r => q = n \div b /\ r = n % b
<1>1. n \div b \in Int /\ n % b \in 0 .. b - 1 /\ n = b * (n \div b) + (n % b)
  <2>1. n \div b \in Int
    OBVIOUS
  <2>2. n % b \in 0 .. b - 1
    OBVIOUS
  <2>3. n = b * (n \div b) + (n % b)
    OBVIOUS
  <2> QED BY <2>1, <2>2, <2>3
<1>2. ASSUME NEW q \in Int, NEW r \in 0 .. b - 1, n = b * q + r
      PROVE  q = n \div b /\ r = n % b
  <2> DEFINE p == n \div b
             s == n % b
  <2>1. p \in Int /\ s \in 0 .. b - 1 /\ b * q + r = b * p + s
    BY <1>1, <1>2
  <2> HIDE DEF p, s
  <2>2. b * (q - p) = s - r
    BY <2>1
  <2>3. ~ (q - p >= 1)
    <3>1. q - p >= 1 => b * (q - p) >= b
      BY <2>1
    <3> QED BY <2>1, <2>2, <3>1
  <2>4. ~ (q - p <= -1)
    <3>1. q - p <= -1 => b * (q - p) <= - b
      BY <2>1
    <3> QED BY <2>1, <2>2, <3>1
  <2>5. q = p
    BY <2>1, <2>3, <2>4
  <2>6. r = s
    BY <2>1, <2>5
  <2> QED BY <2>5, <2>6 DEF p, s
<1> QED BY <1>1, <1>2

(* A multiple of the base changes only the quotient. *)
LEMMA DivisionShift ==
  ASSUME NEW b \in Nat \ {0}, NEW n \in Int, NEW k \in Int
  PROVE  (n + b * k) \div b = n \div b + k /\ (n + b * k) % b = n % b
<1>1. n \div b \in Int /\ n % b \in 0 .. b - 1 /\ n = b * (n \div b) + (n % b)
  BY Division
<1> DEFINE q == n \div b
           r == n % b
<1>2. ASSUME NEW c \in Int, NEW e \in Int PROVE b * c + e + b * k = b * (c + k) + e
  OBVIOUS
<1>3. n + b * k \in Int /\ q + k \in Int /\ r \in 0 .. b - 1 /\ n + b * k = b * (q + k) + r
  <2>1. q \in Int /\ r \in Int /\ n = b * q + r
    BY <1>1
  <2> HIDE DEF q, r
  <2> QED BY <1>1, <1>2, <2>1 DEF q, r
<1> DEFINE m == n + b * k
<1> HIDE DEF q, r, m
<1>4. m \in Int /\ q + k \in Int /\ r \in 0 .. b - 1 /\ m = b * (q + k) + r
  BY <1>3 DEF m
<1>5. q + k = m \div b /\ r = m % b
  BY <1>4, Division
<1> QED BY <1>5 DEF q, r, m

-----------------------------------------------------------------------------
(***************************************************************************)
(* Digits.                                                                 *)
(***************************************************************************)
Digit(b) == 0 .. b - 1

(* The lowest digit is the remainder, the others are those of the quotient. *)
LEMMA DigitsStep ==
  ASSUME NEW b \in Nat \ {0}, NEW n \in Int, NEW s \in Nat
  PROVE  /\ Digits(n, b, s) \in [1 .. s -> Digit(b)]
         /\ s > 0 => Digits(n, b, s)[1] = n % b
         /\ \A i \in 1 .. s - 1 : Digits(n, b, s)[i + 1] = Digits(n \div b, b, s - 1)[i]
<1> DEFINE Rest(m, t) == CHOOSE rest : rest =
                         [i \in 0 .. t |-> IF i = 0 THEN m ELSE rest[i - 1] \div b]
<1>1. ASSUME NEW m \in Int, NEW t \in Nat
      PROVE  /\ Rest(m, t) \in [0 .. t -> Int]
             /\ Rest(m, t) = [i \in 0 .. t |-> IF i = 0 THEN m ELSE Rest(m, t)[i - 1] \div b]
  <2> DEFINE step(X) == [k \in 1 .. t |-> [y \in X |-> y \div b]]
             Is(h) == h = [i \in 0 .. t |-> IF i = 0 THEN m ELSE h[i - 1] \div b]
  <2>1. \A k \in 1 .. t : \A y \in Int : step(Int)[k][y] \in Int
    OBVIOUS
  <2>2. PICK g : Unfolds(g, t, m, step(Int))
    <3> HIDE DEF step
    <3> QED BY <2>1, Recursion
  <2>3. g \in [0 .. t -> Int]
    <3> HIDE DEF step
    <3> QED BY <2>1, <2>2, Recursion
  <2>4. Is(g)
    <3>1. \A i \in 0 .. t : i # 0 => i \in 1 .. t /\ g[i - 1] \in Int
      BY <2>3
    <3>2. \A i \in 0 .. t : i # 0 => step(Int)[i][g[i - 1]] = g[i - 1] \div b
      BY <3>1
    <3> HIDE DEF step
    <3> QED BY <2>2, <3>2 DEF Unfolds
  <2>5. Is(Rest(m, t))
    BY <2>4
  <2> DEFINE r == Rest(m, t)
             X == Int \cup {r[i] : i \in 0 .. t}
  <2> HIDE DEF Rest, r
  <2>6. Is(r)
    BY <2>5 DEF r
  <2>7. \A i \in 0 .. t : i # 0 => i \in 1 .. t /\ r[i - 1] \in X
    OBVIOUS
  <2>8. \A i \in 0 .. t : i # 0 => step(X)[i][r[i - 1]] = r[i - 1] \div b
    <3> HIDE DEF X
    <3> QED BY <2>7
  <2>9. \A k \in 1 .. t : \A y \in Int : step(X)[k][y] \in Int
    OBVIOUS
  <2>10. Unfolds(r, t, m, step(X))
    <3> HIDE DEF step
    <3> QED BY <2>6, <2>8 DEF Unfolds
  <2>11. r \in [0 .. t -> Int]
    <3> HIDE DEF step, X
    <3> QED BY <2>9, <2>10, Recursion
  <2> QED BY <2>6, <2>11 DEF r
<1>2. ASSUME NEW m \in Int, NEW t \in Nat
      PROVE  Digits(m, b, t) = [i \in 1 .. t |-> Rest(m, t)[i - 1] % b]
  BY DEF Digits
<1>3. ASSUME NEW m \in Int, NEW t \in Nat, NEW i \in 1 .. t
      PROVE  Rest(m, t)[i - 1] \in Int /\ (Rest(m, t)[i - 1] % b) \in Digit(b)
  <2>1. Rest(m, t)[i - 1] \in Int
    <3> HIDE DEF Rest
    <3> QED BY <1>1
  <2> HIDE DEF Rest
  <2> QED BY <2>1, Division DEF Digit
<1>4. ASSUME NEW m \in Int, NEW t \in Nat
      PROVE  /\ Rest(m, t)[0] = m
             /\ \A i \in 1 .. t : Rest(m, t)[i] = Rest(m, t)[i - 1] \div b
  <2> HIDE DEF Rest
  <2>1. Rest(m, t) = [i \in 0 .. t |-> IF i = 0 THEN m ELSE Rest(m, t)[i - 1] \div b]
    BY <1>1
  <2> QED BY <2>1
<1>5. n \div b \in Int
  BY Division
<1>6. ASSUME s > 0, NEW j \in Nat, j <= s - 1 PROVE Rest(n, s)[j + 1] = Rest(n \div b, s - 1)[j]
  <2> HIDE DEF Rest
  <2> DEFINE L == {i \in Nat : i <= s - 1 => Rest(n, s)[i + 1] = Rest(n \div b, s - 1)[i]}
  <2>1. s - 1 \in Nat
    BY <1>6
  <2>6. \A i \in 1 .. s : Rest(n, s)[i] = Rest(n, s)[i - 1] \div b
    BY <1>4
  <2>7. \A i \in 1 .. s - 1 : Rest(n \div b, s - 1)[i] = Rest(n \div b, s - 1)[i - 1] \div b
    BY <1>4, <1>5, <2>1
  <2>2. 0 \in L
    <3>1. Rest(n, s)[0] = n /\ Rest(n \div b, s - 1)[0] = n \div b
      BY <1>4, <1>5, <2>1
    <3>2. Rest(n, s)[1] = Rest(n, s)[1 - 1] \div b
      BY <1>4, <1>6
    <3> QED BY <3>1, <3>2
  <2>3. ASSUME NEW i \in L PROVE i + 1 \in L
    <3> SUFFICES ASSUME i + 1 <= s - 1 PROVE Rest(n, s)[i + 1 + 1] = Rest(n \div b, s - 1)[i + 1]
      OBVIOUS
    <3>1. i \in Nat /\ Rest(n, s)[i + 1] = Rest(n \div b, s - 1)[i]
      OBVIOUS
    <3>2. i + 1 + 1 \in 1 .. s /\ i + 1 \in 1 .. s - 1 /\ i + 1 + 1 - 1 = i + 1 /\ i + 1 - 1 = i
      BY <3>1
    <3>3. Rest(n, s)[i + 1 + 1] = Rest(n, s)[i + 1 + 1 - 1] \div b
      BY <2>6, <3>2
    <3>4. Rest(n \div b, s - 1)[i + 1] = Rest(n \div b, s - 1)[i + 1 - 1] \div b
      BY <2>7, <3>2
    <3> QED BY <3>1, <3>2, <3>3, <3>4
  <2>4. L \in SUBSET Nat
    OBVIOUS
  <2> HIDE DEF L
  <2>5. L = Nat
    BY <2>2, <2>3, <2>4, SetInduction
  <2> QED BY <1>6, <2>5 DEF L
<1>7. ASSUME NEW m \in Int, NEW t \in Nat
      PROVE  /\ Digits(m, b, t) \in [1 .. t -> Digit(b)]
             /\ \A i \in 1 .. t : Digits(m, b, t)[i] = Rest(m, t)[i - 1] % b
  <2> HIDE DEF Rest
  <2> QED BY <1>2, <1>3
<1>8. s > 0 => Digits(n, b, s)[1] = n % b
  <2> HIDE DEF Rest
  <2>1. s > 0 => Digits(n, b, s)[1] = Rest(n, s)[1 - 1] % b
    BY <1>7
  <2>2. Rest(n, s)[0] = n
    BY <1>4
  <2> QED BY <2>1, <2>2
<1>9. ASSUME NEW i \in 1 .. s - 1 PROVE Digits(n, b, s)[i + 1] = Digits(n \div b, b, s - 1)[i]
  <2> HIDE DEF Rest
  <2>1. s > 0 /\ s - 1 \in Nat /\ i + 1 \in 1 .. s /\ i - 1 \in Nat /\ i - 1 <= s - 1
        /\ i + 1 - 1 = i
        /\ i - 1 + 1 = i
    OBVIOUS
  <2>2. Digits(n, b, s)[i + 1] = Rest(n, s)[i + 1 - 1] % b
    BY <1>7, <2>1
  <2>3. Digits(n \div b, b, s - 1)[i] = Rest(n \div b, s - 1)[i - 1] % b
    BY <1>5, <1>7, <2>1
  <2>4. Rest(n, s)[i - 1 + 1] = Rest(n \div b, s - 1)[i - 1]
    BY <1>6, <2>1
  <2> QED BY <2>1, <2>2, <2>3, <2>4
<1> QED BY <1>7, <1>8, <1>9

(* The number of a sequence is its lowest digit and the base times the number *)
(* of the others.                                                          *)
LEMMA NumberStep ==
  ASSUME NEW b \in Nat \ {0}, NEW n \in Nat, NEW v \in [1 .. n -> Int]
  PROVE  /\ Number(v, b) \in Int
         /\ n = 0 => Number(v, b) = 0
         /\ n > 0 => Number(v, b) = v[1] + b * Number([i \in 1 .. n - 1 |-> v[i + 1]], b)
<1> DEFINE High(w) == CHOOSE high : high = [i \in 0 .. Len(w) |->
                          IF i = 0 THEN 0 ELSE w[Len(w) + 1 - i] + b * high[i - 1]]
<1>1. ASSUME NEW t \in Nat, NEW w \in [1 .. t -> Int]
      PROVE  /\ High(w) \in [0 .. t -> Int]
             /\ High(w)[0] = 0
             /\ \A i \in 1 .. t : High(w)[i] = w[t + 1 - i] + b * High(w)[i - 1]
             /\ Number(w, b) = High(w)[t]
  <2>0. Len(w) = t
    OBVIOUS
  <2> DEFINE step(X) == [k \in 1 .. t |-> [y \in X |-> w[t + 1 - k] + b * y]]
             Is(h) == h = [i \in 0 .. t |-> IF i = 0 THEN 0 ELSE w[t + 1 - i] + b * h[i - 1]]
  <2>1. ASSUME NEW X, Int \subseteq X PROVE \A k \in 1 .. t : \A y \in Int : step(X)[k][y] \in Int
    <3>1. ASSUME NEW k \in 1 .. t, NEW y \in Int PROVE w[t + 1 - k] + b * y \in Int
      <4>1. w[t + 1 - k] \in Int
        OBVIOUS
      <4> QED BY <4>1
    <3> QED BY <2>1, <3>1
  <2>2. PICK g : Unfolds(g, t, 0, step(Int))
    <3>1. \A k \in 1 .. t : \A y \in Int : step(Int)[k][y] \in Int
      BY <2>1
    <3> HIDE DEF step
    <3>2. 0 \in Int
      OBVIOUS
    <3> QED BY <3>1, <3>2, Recursion
  <2>3. g \in [0 .. t -> Int]
    <3>1. \A k \in 1 .. t : \A y \in Int : step(Int)[k][y] \in Int
      BY <2>1
    <3> HIDE DEF step
    <3>2. 0 \in Int
      OBVIOUS
    <3> QED BY <2>2, <3>1, <3>2, Recursion
  <2>4. Is(g)
    <3>1. \A i \in 0 .. t : i # 0 => i \in 1 .. t /\ g[i - 1] \in Int
      BY <2>3
    <3>2. \A i \in 0 .. t : i # 0 => step(Int)[i][g[i - 1]] = w[t + 1 - i] + b * g[i - 1]
      BY <3>1
    <3> HIDE DEF step
    <3> QED BY <2>2, <3>2 DEF Unfolds
  <2>5. Is(High(w))
    BY <2>0, <2>4
  <2> DEFINE r == High(w)
             X == Int \cup {r[i] : i \in 0 .. t}
  <2>6. Number(w, b) = r[t]
    BY <2>0 DEF Number
  <2> HIDE DEF High, r
  <2>7. Is(r)
    BY <2>5 DEF r
  <2>8. \A i \in 0 .. t : i # 0 => step(X)[i][r[i - 1]] = w[t + 1 - i] + b * r[i - 1]
    <3>1. \A i \in 0 .. t : i # 0 => i \in 1 .. t /\ r[i - 1] \in X
      OBVIOUS
    <3> HIDE DEF X
    <3> QED BY <3>1
  <2>9. Unfolds(r, t, 0, step(X))
    <3> HIDE DEF step
    <3> QED BY <2>7, <2>8 DEF Unfolds
  <2>10. r \in [0 .. t -> Int]
    <3>1. \A k \in 1 .. t : \A y \in Int : step(X)[k][y] \in Int
      <4>1. Int \subseteq X
        OBVIOUS
      <4> HIDE DEF step, X
      <4> QED BY <2>1, <4>1
    <3> HIDE DEF step, X
    <3>2. 0 \in Int
      OBVIOUS
    <3> QED BY <2>9, <3>1, <3>2, Recursion
  <2>11. r[0] = 0 /\ \A i \in 1 .. t : r[i] = w[t + 1 - i] + b * r[i - 1]
    <3> HIDE DEF X
    <3> QED BY <2>7
  <2> QED BY <2>6, <2>10, <2>11 DEF r
<1> HIDE DEF High
<1>2. Number(v, b) \in Int /\ (n = 0 => Number(v, b) = 0)
  BY <1>1
<1>3. ASSUME n > 0
      PROVE  Number(v, b) = v[1] + b * Number([i \in 1 .. n - 1 |-> v[i + 1]], b)
  <2> DEFINE w == [i \in 1 .. n - 1 |-> v[i + 1]]
  <2>1. n - 1 \in Nat /\ w \in [1 .. n - 1 -> Int]
    BY <1>3
  <2> DEFINE L == {i \in Nat : i <= n - 1 => High(v)[i] = High(w)[i]}
  <2>2. 0 \in L
    BY <1>1, <2>1
  <2>10. \A i \in 1 .. n : High(v)[i] = v[n + 1 - i] + b * High(v)[i - 1]
    BY <1>1
  <2>11. \A i \in 1 .. n - 1 : High(w)[i] = w[n - 1 + 1 - i] + b * High(w)[i - 1]
    <3> HIDE DEF w
    <3> QED BY <1>1, <2>1
  <2>3. ASSUME NEW i \in L PROVE i + 1 \in L
    <3> SUFFICES ASSUME i + 1 <= n - 1 PROVE High(v)[i + 1] = High(w)[i + 1]
      OBVIOUS
    <3>1. i \in Nat /\ High(v)[i] = High(w)[i] /\ i + 1 \in 1 .. n /\ i + 1 \in 1 .. n - 1
          /\ i + 1 - 1 = i
      BY <1>3
    <3>2. High(v)[i + 1] = v[n + 1 - (i + 1)] + b * High(v)[i + 1 - 1]
      BY <2>10, <3>1
    <3>3. High(w)[i + 1] = w[n - 1 + 1 - (i + 1)] + b * High(w)[i + 1 - 1]
      <4> HIDE DEF w
      <4> QED BY <2>11, <3>1
    <3>4. w[n - 1 + 1 - (i + 1)] = v[n + 1 - (i + 1)]
      BY <3>1, <1>3
    <3> QED BY <3>1, <3>2, <3>3, <3>4
  <2>4. L \in SUBSET Nat
    OBVIOUS
  <2> HIDE DEF L
  <2>5. L = Nat
    BY <2>2, <2>3, <2>4, SetInduction
  <2>6. High(v)[n - 1] = High(w)[n - 1]
    BY <2>1, <2>5 DEF L
  <2> HIDE DEF w
  <2>7. Number(w, b) = High(w)[n - 1]
    BY <1>1, <2>1
  <2>8. Number(v, b) = v[n + 1 - n] + b * High(v)[n - 1]
    <3>1. n \in 1 .. n /\ Number(v, b) = High(v)[n]
      BY <1>1, <1>3
    <3> QED BY <2>10, <3>1
  <2>9. n + 1 - n = 1
    OBVIOUS
  <2> QED BY <2>6, <2>7, <2>8, <2>9 DEF w
<1> QED BY <1>2, <1>3

(* The same for one digit more.                                            *)
LEMMA DigitsMore ==
  ASSUME NEW b \in Nat \ {0}, NEW n \in Int, NEW m \in Nat
  PROVE  /\ Digits(n, b, m + 1) \in [1 .. m + 1 -> Digit(b)]
         /\ Digits(n, b, m + 1)[1] = n % b
         /\ \A i \in 1 .. m : Digits(n, b, m + 1)[i + 1] = Digits(n \div b, b, m)[i]
<1>1. PICK s \in Nat : s = m + 1
  OBVIOUS
<1>2. s - 1 = m /\ s > 0
  BY <1>1
<1>3. \A i \in 1 .. m : Digits(n, b, s)[i + 1] = Digits(n \div b, b, m)[i]
  BY <1>2, DigitsStep
<1>4. Digits(n, b, s) \in [1 .. s -> Digit(b)] /\ Digits(n, b, s)[1] = n % b
  BY <1>2, DigitsStep
<1> QED BY <1>1, <1>3, <1>4

(* A number is its first digit and, b times, the number of the others.     *)
LEMMA NumberMore ==
  ASSUME NEW b \in Nat \ {0}, NEW m \in Nat, NEW v \in [1 .. m + 1 -> Int]
  PROVE  /\ Number(v, b) \in Int
         /\ Number(v, b) = v[1] + b * Number([i \in 1 .. m |-> v[i + 1]], b)
<1>1. PICK n \in Nat : n = m + 1
  OBVIOUS
<1>2. n - 1 = m /\ n > 0 /\ v \in [1 .. n -> Int]
  BY <1>1
<1>3. Number(v, b) = v[1] + b * Number([i \in 1 .. n - 1 |-> v[i + 1]], b)
  BY <1>2, NumberStep
<1>4. Number(v, b) \in Int
  BY <1>2, NumberStep
<1> QED BY <1>2, <1>3, <1>4

(* The digits of the number of some digits are these digits.               *)
LEMMA DigitsOfNumber ==
  ASSUME NEW b \in Nat \ {0}, NEW n \in Nat, NEW v \in [1 .. n -> Digit(b)]
  PROVE  Digits(Number(v, b), b, n) = v
<1> DEFINE Good(m) == \A w \in [1 .. m -> Digit(b)] : Digits(Number(w, b), b, m) = w
           N == {m \in Nat : Good(m)}
<1>0. Digit(b) \subseteq Int /\ Digit(b) = 0 .. b - 1
  BY DEF Digit
<1>1. 0 \in N
  <2>1. ASSUME NEW w \in [1 .. 0 -> Digit(b)] PROVE Digits(Number(w, b), b, 0) = w
    <3>1. w \in [1 .. 0 -> Int]
      BY <1>0
    <3>2. Number(w, b) \in Int
      BY <3>1, NumberStep
    <3>3. Digits(Number(w, b), b, 0) \in [1 .. 0 -> Digit(b)]
      BY <3>2, DigitsStep
    <3> QED BY <3>3
  <2> QED BY <2>1
<1>2. ASSUME NEW m \in N PROVE m + 1 \in N
  <2>1. ASSUME NEW w \in [1 .. m + 1 -> Digit(b)] PROVE Digits(Number(w, b), b, m + 1) = w
    <3> DEFINE u == [i \in 1 .. m |-> w[i + 1]]
               d == Digits(Number(w, b), b, m + 1)
    <3>1. m \in Nat /\ m + 1 \in Nat /\ m + 1 > 0 /\ m + 1 - 1 = m /\ w \in [1 .. m + 1 -> Int]
      BY <1>0
    <3>2. u \in [1 .. m -> Digit(b)] /\ u \in [1 .. m -> Int] /\ w[1] \in 0 .. b - 1
      BY <1>0, <3>1
    <3>3. Number(w, b) \in Int /\ Number(w, b) = w[1] + b * Number(u, b)
      BY <3>1, NumberMore
    <3> HIDE DEF u
    <3>4. Number(u, b) \in Int
      BY <3>1, <3>2, NumberStep
    <3> DEFINE x1 == Number(w, b)
               q1 == Number(u, b)
    <3>5. x1 \in Int /\ q1 \in Int /\ x1 = b * q1 + w[1]
      BY <3>2, <3>3, <3>4
    <3> HIDE DEF x1, q1
    <3>6. q1 = x1 \div b /\ w[1] = x1 % b
      BY <3>2, <3>5, Division
    <3>7. Digits(q1, b, m) = u
      BY <3>2 DEF q1
    <3>11. d = Digits(x1, b, m + 1)
      BY DEF x1
    <3> HIDE DEF d
    <3>8. /\ d \in [1 .. m + 1 -> Digit(b)] /\ d[1] = x1 % b
          /\ \A i \in 1 .. m : d[i + 1] = Digits(x1 \div b, b, m)[i]
      <4> HIDE DEF N, Good
      <4>1. /\ Digits(x1, b, m + 1) \in [1 .. m + 1 -> Digit(b)]
            /\ Digits(x1, b, m + 1)[1] = x1 % b
            /\ \A i \in 1 .. m : Digits(x1, b, m + 1)[i + 1] = Digits(x1 \div b, b, m)[i]
        BY <3>1, <3>5, DigitsMore
      <4> QED BY <3>11, <4>1
    <3> HIDE DEF d
    <3>9. ASSUME NEW i \in 1 .. m + 1 PROVE d[i] = w[i]
      <4>1. CASE i = 1
        BY <4>1, <3>6, <3>8
      <4>2. CASE i # 1
        <5>1. i - 1 \in 1 .. m /\ i - 1 + 1 = i
          BY <4>2, <3>1
        <5>2. d[i - 1 + 1] = u[i - 1]
          BY <5>1, <3>6, <3>7, <3>8
        <5>3. u[i - 1] = w[i - 1 + 1]
          BY <5>1 DEF u
        <5> QED BY <5>1, <5>2, <5>3
      <4> QED BY <4>1, <4>2
    <3>10. d = w
      BY <3>8, <3>9
    <3> QED BY <3>10 DEF d
  <2> HIDE DEF Good
  <2>2. Good(m + 1)
    BY <2>1 DEF Good
  <2> QED BY <2>2
<1>3. N \in SUBSET Nat
  OBVIOUS
<1> HIDE DEF N
<1>4. N = Nat
  BY <1>1, <1>2, <1>3, SetInduction
<1> QED BY <1>4 DEF N

(* The first number that n digits cannot hold.                             *)
Weight(b, n) == 1 + Number([i \in 1 .. n |-> b - 1], b)

(* Each digit multiplies it by the base.                                   *)
LEMMA WeightStep ==
  ASSUME NEW b \in Nat \ {0}, NEW n \in Nat
  PROVE  Weight(b, n) \in Nat \ {0} /\ Weight(b, 0) = 1 /\ Weight(b, n + 1) = b * Weight(b, n)
<1>1. ASSUME NEW m \in Nat
      PROVE  Weight(b, m) \in Int /\ Weight(b, m + 1) = b * Weight(b, m)
  <2> DEFINE w == [i \in 1 .. m + 1 |-> b - 1]
             u == [i \in 1 .. m |-> b - 1]
  <2>1. w \in [1 .. m + 1 -> Int] /\ u \in [1 .. m -> Int] /\ m + 1 - 1 = m /\ m + 1 \in Nat
        /\ m + 1 > 0
    OBVIOUS
  <2>2. u = [i \in 1 .. m |-> w[i + 1]]
    OBVIOUS
  <2>3. w[1] = b - 1
    OBVIOUS
  <2> HIDE DEF w, u
  <2>7. Number(w, b) = w[1] + b * Number([i \in 1 .. m |-> w[i + 1]], b)
    BY <2>1, NumberMore
  <2>8. Number(u, b) \in Int
    BY <2>1, NumberStep
  <2>4. Number(w, b) = b - 1 + b * Number(u, b) /\ Number(u, b) \in Int
    BY <2>2, <2>3, <2>7, <2>8
  <2> DEFINE p == Number(w, b)
             q == Number(u, b)
  <2>5. p = b - 1 + b * q /\ q \in Int
    BY <2>4
  <2> HIDE DEF p, q
  <2>6. 1 + p = b * (1 + q) /\ 1 + q \in Int
    BY <2>5
  <2> QED BY <2>6 DEF p, q, w, u, Weight
<1>2. Weight(b, 0) = 1
  <2>1. [i \in 1 .. 0 |-> b - 1] \in [1 .. 0 -> Int]
    OBVIOUS
  <2>2. Number([i \in 1 .. 0 |-> b - 1], b) = 0
    BY <2>1, NumberStep
  <2> QED BY <2>2 DEF Weight
<1> DEFINE N == {m \in Nat : Weight(b, m) \in Nat \ {0}}
<1>3. 0 \in N
  BY <1>2
<1>4. ASSUME NEW m \in N PROVE m + 1 \in N
  <2>1. Weight(b, m) \in Nat \ {0} /\ m \in Nat /\ Weight(b, m + 1) = b * Weight(b, m)
    BY <1>1
  <2>2. b * Weight(b, m) \in Nat \ {0}
    BY <2>1
  <2> QED BY <2>1, <2>2
<1>5. N \in SUBSET Nat
  OBVIOUS
<1> HIDE DEF N
<1>6. N = Nat
  BY <1>3, <1>4, <1>5, SetInduction
<1> QED BY <1>1, <1>2, <1>6 DEF N

(* Digits hold the numbers below their weight, and lose its multiples.     *)
LEMMA WeightHolds ==
  ASSUME NEW b \in Nat \ {0}, NEW s \in Nat
  PROVE  /\ \A v \in [1 .. s -> Digit(b)] : Number(v, b) \in 0 .. Weight(b, s) - 1
         /\ \A n \in 0 .. Weight(b, s) - 1 : Number(Digits(n, b, s), b) = n
         /\ \A n, q \in Int : Digits(n + Weight(b, s) * q, b, s) = Digits(n, b, s)
<1> DEFINE Below(m) == \A v \in [1 .. m -> Digit(b)] : Number(v, b) \in 0 .. Weight(b, m) - 1
           Back(m) == \A n \in 0 .. Weight(b, m) - 1 : Number(Digits(n, b, m), b) = n
           Lost(m) == \A n, q \in Int : Digits(n + Weight(b, m) * q, b, m) = Digits(n, b, m)
           N == {m \in Nat : Below(m) /\ Back(m) /\ Lost(m)}
<1>0. Digit(b) \subseteq Int /\ Digit(b) = 0 .. b - 1
  BY DEF Digit
<1>1. 0 \in N
  <2>1. Weight(b, 0) = 1
    BY WeightStep
  <2>2. ASSUME NEW v \in [1 .. 0 -> Digit(b)] PROVE Number(v, b) = 0
    <3>1. v \in [1 .. 0 -> Int]
      BY <1>0
    <3> QED BY <3>1, NumberStep
  <2>7. 0 \in 0 .. 1 - 1
    OBVIOUS
  <2>3. Below(0)
    BY <2>1, <2>2, <2>7
  <2>4. \A n \in Int : Digits(n, b, 0) \in [1 .. 0 -> Digit(b)]
    BY DigitsStep
  <2>5. Back(0)
    BY <2>1, <2>2, <2>4
  <2>6. ASSUME NEW n \in Int, NEW q \in Int
               PROVE Digits(n + Weight(b, 0) * q, b, 0) = Digits(n, b, 0)
    <3>1. n + Weight(b, 0) * q \in Int
      BY <2>1
    <3>2. \A f, g \in [1 .. 0 -> Digit(b)] : f = g
      OBVIOUS
    <3> QED BY <2>4, <3>1, <3>2
  <2> QED BY <2>3, <2>5, <2>6
<1>2. ASSUME NEW m \in N PROVE m + 1 \in N
  <2> DEFINE W == Weight(b, m)
             V == Weight(b, m + 1)
  <2>1. m \in Nat /\ m + 1 \in Nat /\ m + 1 > 0 /\ m + 1 - 1 = m /\ Below(m) /\ Back(m) /\ Lost(m)
    OBVIOUS
  <2>2. W \in Nat \ {0} /\ V \in Nat \ {0} /\ V = b * W
    BY <2>1, WeightStep
  <2>3. ASSUME NEW v \in [1 .. m + 1 -> Digit(b)] PROVE Number(v, b) \in 0 .. V - 1
    <3> DEFINE u == [i \in 1 .. m |-> v[i + 1]]
    <3>1. v \in [1 .. m + 1 -> Int] /\ u \in [1 .. m -> Digit(b)] /\ v[1] \in 0 .. b - 1
      BY <1>0, <2>1
    <3>2. Number(v, b) = v[1] + b * Number(u, b)
      BY <2>1, <3>1, NumberMore
    <3>3. Number(u, b) \in 0 .. W - 1
      BY <2>1, <3>1
    <3> DEFINE q == Number(u, b)
    <3>4. q \in 0 .. W - 1 /\ Number(v, b) = v[1] + b * q
      BY <3>2, <3>3
    <3> HIDE DEF q, W, V
    <3>5. b * q >= 0 /\ b * q <= b * (W - 1) /\ b * (W - 1) = b * W - b
      BY <2>2, <3>4
    <3>6. v[1] + b * q >= 0 /\ v[1] + b * q <= b * W - 1 /\ v[1] + b * q \in Int
      <4> DEFINE y == b * q
                 z == b * W
      <4>1. y \in Int /\ z \in Int /\ y >= 0 /\ y <= z - b /\ v[1] \in 0 .. b - 1
        BY <2>2, <3>1, <3>4, <3>5
      <4> HIDE DEF y, z
      <4>2. v[1] + y >= 0 /\ v[1] + y <= z - 1 /\ v[1] + y \in Int
        BY <4>1
      <4> QED BY <4>2 DEF y, z
    <3> QED BY <2>2, <3>4, <3>6
  <2>4. ASSUME NEW n \in 0 .. V - 1 PROVE Number(Digits(n, b, m + 1), b) = n
    <3> DEFINE d == Digits(n, b, m + 1)
               q == n \div b
               u == [i \in 1 .. m |-> d[i + 1]]
    <3>0. n \in Int
      <4> HIDE DEF V
      <4> QED BY <2>2
    <3>1. n \in Int /\ q \in Int /\ n % b \in 0 .. b - 1 /\ n = b * q + (n % b)
      BY <3>0, Division
    <3>2. q \in 0 .. W - 1
      <4> HIDE DEF q, W, V
      <4>1. ~ (q <= -1)
        <5>1. q <= -1 => b * q <= - b
          BY <3>1
        <5> QED BY <2>2, <3>1, <5>1
      <4>2. ~ (q >= W)
        <5>1. q >= W => b * q >= b * W
          BY <2>2, <3>1
        <5> QED BY <2>2, <3>1, <5>1
      <4> QED BY <2>2, <3>1, <4>1, <4>2
    <3>3. /\ d \in [1 .. m + 1 -> Digit(b)] /\ d[1] = n % b
          /\ \A i \in 1 .. m : d[i + 1] = Digits(q, b, m)[i]
      BY <2>1, <3>1, DigitsMore
    <3>4. Digits(q, b, m) \in [1 .. m -> Digit(b)]
      BY <2>1, <3>1, DigitsStep
    <3>5. u = Digits(q, b, m)
      <4> HIDE DEF d, q
      <4> QED BY <3>3, <3>4
    <3>6. Number(u, b) = q
      <4> HIDE DEF u, d, q, W, V
      <4> QED BY <2>1, <3>2, <3>5 DEF W
    <3>7. Number(d, b) = d[1] + b * Number(u, b)
      <4>1. d \in [1 .. m + 1 -> Int]
        BY <1>0, <3>3
      <4> HIDE DEF d
      <4> QED BY <2>1, <4>1, NumberMore
    <3> HIDE DEF u, d, q
    <3>8. Number(d, b) = (n % b) + b * q
      BY <3>3, <3>6, <3>7
    <3>9. (n % b) + b * q = n
      <4> DEFINE r == n % b
                 y == b * q
      <4>1. r \in Int /\ y \in Int /\ n = y + r
        BY <3>1
      <4> HIDE DEF r, y
      <4>2. r + y = n
        BY <4>1
      <4> QED BY <4>2 DEF r, y
    <3> QED BY <3>8, <3>9 DEF d
  <2>5. ASSUME NEW n \in Int, NEW q \in Int PROVE Digits(n + V * q, b, m + 1) = Digits(n, b, m + 1)
    <3> DEFINE k == W * q
               d == Digits(n, b, m + 1)
               e == Digits(n + b * k, b, m + 1)
    <3>1. k \in Int /\ n + V * q = n + b * k
      <4> HIDE DEF W, V
      <4> QED BY <2>2
    <3>2. (n + b * k) \div b = n \div b + k /\ (n + b * k) % b = n % b /\ n \div b \in Int
          /\ n + b * k \in Int
      <4> HIDE DEF k
      <4>1. (n + b * k) \div b = n \div b + k /\ (n + b * k) % b = n % b
        BY <3>1, DivisionShift
      <4>2. n \div b \in Int
        BY Division
      <4> QED BY <3>1, <4>1, <4>2
    <3>3. Digits(n \div b + k, b, m) = Digits(n \div b, b, m)
      BY <2>1, <3>2
    <3>4. /\ d \in [1 .. m + 1 -> Digit(b)] /\ d[1] = n % b
          /\ \A i \in 1 .. m : d[i + 1] = Digits(n \div b, b, m)[i]
      BY <2>1, DigitsMore
    <3>5. /\ e \in [1 .. m + 1 -> Digit(b)] /\ e[1] = n % b
          /\ \A i \in 1 .. m : e[i + 1] = Digits(n \div b, b, m)[i]
      <4> DEFINE t == n + b * k
      <4>1. t \in Int /\ t \div b = n \div b + k /\ t % b = n % b /\ e = Digits(t, b, m + 1)
        BY <3>2
      <4> HIDE DEF k, t, e
      <4>2. /\ e \in [1 .. m + 1 -> Digit(b)] /\ e[1] = t % b
            /\ \A i \in 1 .. m : e[i + 1] = Digits(t \div b, b, m)[i]
        <5>1. /\ Digits(t, b, m + 1) \in [1 .. m + 1 -> Digit(b)]
              /\ Digits(t, b, m + 1)[1] = t % b
              /\ \A i \in 1 .. m : Digits(t, b, m + 1)[i + 1] = Digits(t \div b, b, m)[i]
          BY <2>1, <4>1, DigitsMore
        <5> QED BY <4>1, <5>1
      <4> QED BY <3>3, <4>1, <4>2
    <3> HIDE DEF d, e
    <3>6. ASSUME NEW i \in 1 .. m + 1 PROVE d[i] = e[i]
      <4>1. CASE i = 1
        BY <4>1, <3>4, <3>5
      <4>2. CASE i # 1
        <5>1. i - 1 \in 1 .. m /\ i - 1 + 1 = i
          BY <4>2, <2>1
        <5>2. d[i - 1 + 1] = e[i - 1 + 1]
          BY <5>1, <3>4, <3>5
        <5> QED BY <5>1, <5>2
      <4> QED BY <4>1, <4>2
    <3>7. d = e
      BY <3>4, <3>5, <3>6
    <3> HIDE DEF k, W, V
    <3> QED BY <3>1, <3>7 DEF d, e
  <2> QED BY <2>1, <2>3, <2>4, <2>5
<1>3. N \in SUBSET Nat
  OBVIOUS
<1> HIDE DEF N
<1>4. N = Nat
  BY <1>1, <1>2, <1>3, SetInduction
<1> QED BY <1>4 DEF N

(* Sums and differences may be cut to the digits at any time.              *)
LEMMA DigitsCongruent ==
  ASSUME NEW b \in Nat \ {0}, NEW s \in Nat, NEW m \in Int, NEW k \in Int
  PROVE  /\ Number(Digits(m, b, s), b) \in Nat
         /\ Digits(Number(Digits(m, b, s), b), b, s) = Digits(m, b, s)
         /\ Digits(Number(Digits(m, b, s), b) + k, b, s) = Digits(m + k, b, s)
         /\ Digits(k - Number(Digits(m, b, s), b), b, s) = Digits(k - m, b, s)
<1> DEFINE W == Weight(b, s)
           d == Digits(m, b, s)
           q == m \div W
           r == m % W
<1>1. W \in Nat \ {0}
  BY WeightStep
<1>2. d \in [1 .. s -> Digit(b)]
  BY DigitsStep
<1>3. Digits(Number(d, b), b, s) = d
  <2> HIDE DEF d
  <2> QED BY <1>2, DigitsOfNumber
<1>4. q \in Int /\ r \in 0 .. W - 1 /\ m = W * q + r
  <2> HIDE DEF W
  <2> QED BY <1>1, Division
<1> HIDE DEF q, r
<1>5. m = r + W * q /\ r \in Int /\ W * q \in Int
  <2> HIDE DEF W
  <2> QED BY <1>1, <1>4
<1>6. d = Digits(r, b, s)
  <2>1. Digits(r + W * q, b, s) = Digits(r, b, s)
    BY <1>4, <1>5, WeightHolds
  <2> QED BY <1>5, <2>1
<1>7. Number(d, b) = r
  BY <1>4, <1>6, WeightHolds
<1>8. Digits(m + k, b, s) = Digits(r + k, b, s)
  <2>1. m + k = r + k + W * q /\ r + k \in Int
    BY <1>5
  <2>2. Digits(r + k + W * q, b, s) = Digits(r + k, b, s)
    BY <1>4, <2>1, WeightHolds
  <2> QED BY <2>1, <2>2
<1>9. Digits(k - m, b, s) = Digits(k - r, b, s)
  <2>1. k - m = k - r + W * (- q) /\ k - r \in Int /\ - q \in Int
    <3> HIDE DEF W
    <3>1. W * (- q) = - (W * q)
      BY <1>1, <1>4
    <3> QED BY <1>4, <1>5, <3>1
  <2>2. Digits(k - r + W * (- q), b, s) = Digits(k - r, b, s)
    BY <2>1, WeightHolds
  <2> QED BY <2>1, <2>2
<1> QED BY <1>3, <1>4, <1>7, <1>8, <1>9

-----------------------------------------------------------------------------
(***************************************************************************)
(* Values: sequences of bytes.                                             *)
(***************************************************************************)
(* A sequence of bytes has its length, and is not the unknown value.       *)
LEMMA BytesLen ==
  ASSUME NEW n \in Nat, NEW v \in Bytes(n)
  PROVE  Len(v) = n /\ DOMAIN v = 1 .. n /\ v \in Seq(Byte) /\ (n # 0 => Known(v))
<1>1. v \in [1 .. n -> Byte]
  BY DEF Bytes
<1>2. Len(v) = n /\ DOMAIN v = 1 .. n /\ v \in Seq(Byte)
  BY <1>1
<1>3. n # 0 => v # <<>>
  BY <1>1
<1> QED BY <1>2, <1>3 DEF Known

(* The bytes of a number are those of the number of its bytes.             *)
LEMMA ByteNumbers ==
  ASSUME NEW s \in Nat
  PROVE  /\ \A m \in Int : ToBytes(m, s) \in Bytes(s)
         /\ \A v \in Bytes(s) : ToNum(v) \in Nat /\ ToBytes(ToNum(v), s) = v
         /\ \A m, k \in Int : /\ ToBytes(ToNum(ToBytes(m, s)) + k, s) = ToBytes(m + k, s)
                              /\ ToBytes(k - ToNum(ToBytes(m, s)), s) = ToBytes(k - m, s)
<1>1. Radix \in Nat \ {0} /\ Bytes(s) = [1 .. s -> Digit(Radix)]
  BY OperandsAssumption DEF Bytes, Digit, Byte
<1>2. \A m \in Int : ToBytes(m, s) \in Bytes(s)
  BY <1>1, DigitsStep DEF ToBytes
<1>3. ASSUME NEW v \in Bytes(s) PROVE ToNum(v) \in Nat /\ ToBytes(ToNum(v), s) = v
  <2>1. Digits(Number(v, Radix), Radix, s) = v
    BY <1>1, DigitsOfNumber
  <2>2. v \in [1 .. s -> Int]
    BY <1>1 DEF Digit
  <2>3. Number(v, Radix) \in Int
    BY <1>1, <2>2, NumberStep
  <2>4. Number(Digits(Number(v, Radix), Radix, s), Radix) \in Nat
    BY <1>1, <2>3, DigitsCongruent
  <2> QED BY <2>1, <2>4 DEF ToNum, ToBytes
<1>4. ASSUME NEW m \in Int, NEW k \in Int
      PROVE  /\ ToBytes(ToNum(ToBytes(m, s)) + k, s) = ToBytes(m + k, s)
             /\ ToBytes(k - ToNum(ToBytes(m, s)), s) = ToBytes(k - m, s)
  BY <1>1, DigitsCongruent DEF ToNum, ToBytes
<1> QED BY <1>2, <1>3, <1>4

(* What is computed modulo the size of a value has that size.              *)
LEMMA ModBytes ==
  ASSUME NEW s \in Nat, NEW v \in Bytes(s), NEW m \in Int
  PROVE  Mod(m, v) = ToBytes(m, s) /\ Mod(m, v) \in Bytes(s)
  BY BytesLen, ByteNumbers DEF Mod

(* Sums and differences undo each other.                                   *)
LEMMA SumsUndone ==
  ASSUME NEW s \in Nat, NEW t \in Nat, NEW v \in Bytes(s), NEW w \in Bytes(t)
  PROVE  /\ AddVal(v, w) \in Bytes(s) /\ SubVal(v, w) \in Bytes(s)
         /\ SubVal(AddVal(v, w), w) = v /\ AddVal(SubVal(v, w), w) = v
         /\ s = t => SubVal(AddVal(v, w), v) = w /\ SubVal(v, SubVal(v, w)) = w
<1> DEFINE a == ToNum(v)
           b == ToNum(w)
<1>1. a \in Nat /\ b \in Nat /\ ToBytes(a, s) = v /\ ToBytes(b, t) = w
  BY ByteNumbers
<1> HIDE DEF a, b
<1>0. /\ \A m \in Int : ToBytes(m, s) \in Bytes(s)
      /\ \A m, k \in Int : ToBytes(ToNum(ToBytes(m, s)) + k, s) = ToBytes(m + k, s)
      /\ \A m, k \in Int : ToBytes(k - ToNum(ToBytes(m, s)), s) = ToBytes(k - m, s)
  BY ByteNumbers
<1>2. AddVal(v, w) = ToBytes(a + b, s) /\ SubVal(v, w) = ToBytes(a - b, s)
  BY <1>1, ModBytes DEF AddVal, SubVal, a, b
<1>3. ToBytes(a + b, s) \in Bytes(s) /\ ToBytes(a - b, s) \in Bytes(s)
  BY <1>0, <1>1
<1>4. ASSUME NEW m \in Int
      PROVE  /\ AddVal(ToBytes(m, s), w) = ToBytes(m + b, s)
             /\ SubVal(ToBytes(m, s), w) = ToBytes(m - b, s)
             /\ s = t => SubVal(v, ToBytes(m, s)) = ToBytes(a - m, s)
             /\ SubVal(ToBytes(m, s), v) = ToBytes(m - a, s)
  <2> DEFINE u == ToBytes(m, s)
  <2>1. u \in Bytes(s) /\ ToNum(u) \in Nat
    BY ByteNumbers
  <2>2. ToBytes(ToNum(u) + b, s) = ToBytes(m + b, s)
    BY <1>0, <1>1
  <2>3. ToBytes(ToNum(u) + (- b), s) = ToBytes(m + (- b), s)
    BY <1>0, <1>1
  <2>4. ToBytes(ToNum(u) + (- a), s) = ToBytes(m + (- a), s)
    BY <1>0, <1>1
  <2>5. ToBytes(a - ToNum(u), s) = ToBytes(a - m, s)
    BY <1>0, <1>1
  <2> HIDE DEF u
  <2>6. ToNum(u) + (- b) = ToNum(u) - b /\ m + (- b) = m - b /\ ToNum(u) + (- a) = ToNum(u) - a
        /\ m + (- a) = m - a
    BY <1>1, <2>1
  <2>7. AddVal(u, w) = ToBytes(ToNum(u) + b, s) /\ SubVal(u, w) = ToBytes(ToNum(u) - b, s)
        /\ SubVal(v, u) = ToBytes(a - ToNum(u), s) /\ SubVal(u, v) = ToBytes(ToNum(u) - a, s)
    BY <1>1, <2>1, ModBytes DEF AddVal, SubVal, a, b
  <2> QED BY <2>2, <2>3, <2>4, <2>5, <2>6, <2>7 DEF u
<1>5. a + b - b = a /\ a - b + b = a /\ a + b - a = b /\ a - (a - b) = b /\ a + b \in Int
      /\ a - b \in Int
  BY <1>1
<1> QED BY <1>1, <1>2, <1>3, <1>4, <1>5

(* Sums may be taken in any order; adding the complement subtracts.        *)
LEMMA SumsJoined ==
  ASSUME NEW s \in Nat, NEW t \in Nat, NEW v \in Bytes(s), NEW w \in Bytes(s), NEW u \in Bytes(t)
  PROVE  /\ AddVal(AddVal(v, w), u) = AddVal(v, AddVal(w, u))
         /\ AddVal(v, Mod(0 - ToNum(w), w)) = SubVal(v, w)
<1> DEFINE a == ToNum(v)
           b == ToNum(w)
           c == ToNum(u)
<1>1. a \in Nat /\ b \in Nat /\ c \in Nat
  BY ByteNumbers
<1> HIDE DEF a, b, c
<1>0. /\ \A m \in Int : ToBytes(m, s) \in Bytes(s)
      /\ \A m, k \in Int : ToBytes(ToNum(ToBytes(m, s)) + k, s) = ToBytes(m + k, s)
      /\ \A m, k \in Int : ToBytes(k - ToNum(ToBytes(m, s)), s) = ToBytes(k - m, s)
  BY ByteNumbers
<1>2. AddVal(v, w) = ToBytes(a + b, s) /\ AddVal(w, u) = ToBytes(b + c, s)
      /\ Mod(0 - b, w) = ToBytes(0 - b, s) /\ SubVal(v, w) = ToBytes(a - b, s)
  BY <1>1, ModBytes DEF AddVal, SubVal, a, b, c
<1>3. ASSUME NEW m \in Int
      PROVE  /\ AddVal(ToBytes(m, s), u) = ToBytes(m + c, s)
             /\ AddVal(v, ToBytes(m, s)) = ToBytes(m + a, s)
  <2> DEFINE y == ToBytes(m, s)
  <2>1. y \in Bytes(s) /\ ToNum(y) \in Nat
    BY ByteNumbers
  <2>5. \A k \in Int : ToBytes(ToNum(y) + k, s) = ToBytes(m + k, s)
    BY <1>0
  <2> HIDE DEF y
  <2>2. ToBytes(ToNum(y) + c, s) = ToBytes(m + c, s) /\ ToBytes(ToNum(y) + a, s) = ToBytes(m + a, s)
    BY <1>1, <2>5
  <2>3. a + ToNum(y) = ToNum(y) + a
    BY <1>1, <2>1
  <2>4. AddVal(y, u) = ToBytes(ToNum(y) + c, s) /\ AddVal(v, y) = ToBytes(a + ToNum(y), s)
    BY <1>1, <2>1, ModBytes DEF AddVal, a, c
  <2> QED BY <2>2, <2>3, <2>4 DEF y
<1>4. a + b + c = b + c + a /\ 0 - b + a = a - b /\ a + b \in Int /\ b + c \in Int /\ 0 - b \in Int
  BY <1>1
<1> QED BY <1>2, <1>3, <1>4 DEF b

(* A power of two counts the subsets of a set. *)
LEMMA Power == ASSUME NEW n \in Nat PROVE 2 ^ n \in Nat \ {0}
<1>1. IsFiniteSet(1 .. n) /\ Cardinality(1 .. n) = n
  <2>1. 1 \in Int /\ n \in Int
    OBVIOUS
  <2>2. IsFiniteSet(1 .. n) /\ Cardinality(1 .. n) = IF 1 > n THEN 0 ELSE n - 1 + 1
    BY <2>1, FS_Interval
  <2> QED BY <2>2
<1>2. IsFiniteSet(SUBSET (1 .. n)) /\ Cardinality(SUBSET (1 .. n)) = 2 ^ n
  BY <1>1, FS_SUBSET
<1>3. Cardinality(SUBSET (1 .. n)) \in Nat /\ Cardinality(SUBSET (1 .. n)) # 0
  BY <1>2, FS_CardinalityType, FS_EmptySet
<1> QED BY <1>2, <1>3

(* A value shifted by any count keeps its size. *)
LEMMA Shifted ==
  ASSUME NEW s \in Nat, NEW v \in Bytes(s), NEW c \in Nat
  PROVE  ShiftLeft(v, c) \in Bytes(s) /\ ShiftRight(v, c) \in Bytes(s)
<1>1. IntBits \in Nat \ {0}
  <2>1. ByteBits \in 1 .. 8
    BY RadixAssumption DEF ByteBits
  <2> QED BY <2>1, WordAssumption DEF IntBits
<1> DEFINE p == 2 ^ (c % IntBits)
           a == ToNum(v)
<1>2. c % IntBits \in Nat
  BY <1>1
<1>3. p \in Nat \ {0} /\ a \in Nat
  BY <1>2, Power, ByteNumbers
<1> HIDE DEF p, a
<1>4. a * p \in Int /\ a \div p \in Int
  BY <1>3
<1> QED BY <1>4, ModBytes DEF ShiftLeft, ShiftRight, p, a

(* Weights multiply. *)
LEMMA WeightSum ==
  ASSUME NEW b \in Nat \ {0}, NEW s \in Nat, NEW t \in Nat
  PROVE  Weight(b, s + t) = Weight(b, s) * Weight(b, t)
<1> DEFINE N == {m \in Nat : Weight(b, s + m) = Weight(b, s) * Weight(b, m)}
<1>1. 0 \in N
  <2>1. s + 0 = s /\ Weight(b, 0) = 1 /\ Weight(b, s) \in Nat
    BY WeightStep
  <2> QED BY <2>1
<1>2. ASSUME NEW m \in N PROVE m + 1 \in N
  <2> DEFINE p == Weight(b, s)
             q == Weight(b, m)
  <2>1. m \in Nat /\ Weight(b, s + m) = p * q
    OBVIOUS
  <2> HIDE DEF N
  <2>2. p \in Nat /\ q \in Nat /\ Weight(b, m + 1) = b * q
    BY <2>1, WeightStep
  <2>3. Weight(b, s + m + 1) = b * (p * q)
    <3>1. s + m \in Nat
      BY <2>1
    <3>2. Weight(b, s + m + 1) = b * Weight(b, s + m)
      BY <3>1, WeightStep
    <3> QED BY <2>1, <3>2
  <2> HIDE DEF p, q
  <2>4. b * (p * q) = p * (b * q)
    BY <2>2
  <2>5. s + (m + 1) = s + m + 1 /\ m + 1 \in Nat
    BY <2>1
  <2> QED BY <2>2, <2>3, <2>4, <2>5 DEF N, p
<1>3. N \in SUBSET Nat
  OBVIOUS
<1> HIDE DEF N
<1>4. N = Nat
  BY <1>1, <1>2, <1>3, SetInduction
<1> QED BY <1>4 DEF N

(* The bits of a byte and of a value. *)
LEMMA ByteBitsFacts ==
  /\ ByteBits \in 1 .. 8 /\ Radix = Weight(2, ByteBits)
  /\ \A n \in Nat : Weight(Radix, n) = Weight(2, n * ByteBits)
<1>1. ByteBits \in 1 .. 8 /\ Radix = 2 ^ ByteBits
  BY RadixAssumption DEF ByteBits
<1>2. ASSUME NEW m \in Nat PROVE Weight(2, m + 1) = 2 * Weight(2, m)
  BY WeightStep
<1>3. Weight(2, 0) = 1
  BY WeightStep
<1>4. /\ Weight(2, 1) = 2 /\ Weight(2, 2) = 4 /\ Weight(2, 3) = 8 /\ Weight(2, 4) = 16
      /\ Weight(2, 5) = 32 /\ Weight(2, 6) = 64 /\ Weight(2, 7) = 128 /\ Weight(2, 8) = 256
  <2>1. Weight(2, 0 + 1) = 2 * Weight(2, 0) /\ Weight(2, 1 + 1) = 2 * Weight(2, 1)
    BY <1>2
  <2>2. Weight(2, 2 + 1) = 2 * Weight(2, 2) /\ Weight(2, 3 + 1) = 2 * Weight(2, 3)
    BY <1>2
  <2>3. Weight(2, 4 + 1) = 2 * Weight(2, 4) /\ Weight(2, 5 + 1) = 2 * Weight(2, 5)
    BY <1>2
  <2>4. Weight(2, 6 + 1) = 2 * Weight(2, 6) /\ Weight(2, 7 + 1) = 2 * Weight(2, 7)
    BY <1>2
  <2> QED BY <1>3, <2>1, <2>2, <2>3, <2>4
<1>5. Radix = Weight(2, ByteBits)
  <2>1. ByteBits = 1 => Radix = 2
    <3>1. 2 ^ 1 = 2
      OBVIOUS
    <3> QED BY <1>1, <3>1
  <2>2. ByteBits = 2 => Radix = 4
    <3>1. 2 ^ 2 = 4
      OBVIOUS
    <3> QED BY <1>1, <3>1
  <2>3. ByteBits = 3 => Radix = 8
    <3>1. 2 ^ 3 = 8
      OBVIOUS
    <3> QED BY <1>1, <3>1
  <2>4. ByteBits = 4 => Radix = 16
    <3>1. 2 ^ 4 = 16
      OBVIOUS
    <3> QED BY <1>1, <3>1
  <2>5. ByteBits = 5 => Radix = 32
    <3>1. 2 ^ 5 = 32
      OBVIOUS
    <3> QED BY <1>1, <3>1
  <2>6. ByteBits = 6 => Radix = 64
    <3>1. 2 ^ 6 = 64
      OBVIOUS
    <3> QED BY <1>1, <3>1
  <2>7. ByteBits = 7 => Radix = 128
    <3>1. 2 ^ 7 = 128
      OBVIOUS
    <3> QED BY <1>1, <3>1
  <2>8. ByteBits = 8 => Radix = 256
    <3>1. 2 ^ 8 = 256
      OBVIOUS
    <3> QED BY <1>1, <3>1
  <2>9. \/ ByteBits = 1 \/ ByteBits = 2 \/ ByteBits = 3 \/ ByteBits = 4
        \/ ByteBits = 5 \/ ByteBits = 6 \/ ByteBits = 7 \/ ByteBits = 8
    BY <1>1
  <2> QED BY <1>4, <2>1, <2>2, <2>3, <2>4, <2>5, <2>6, <2>7, <2>8, <2>9
<1> DEFINE N == {m \in Nat : Weight(Radix, m) = Weight(2, m * ByteBits)}
<1>6. Radix \in Nat \ {0}
  BY OperandsAssumption
<1>7. 0 \in N
  <2>1. Weight(Radix, 0) = 1 /\ 0 * ByteBits = 0
    BY <1>1, <1>6, WeightStep
  <2> QED BY <1>3, <2>1
<1>8. ASSUME NEW m \in N PROVE m + 1 \in N
  <2>1. m \in Nat /\ Weight(Radix, m) = Weight(2, m * ByteBits)
    OBVIOUS
  <2> HIDE DEF N
  <2>2. Weight(Radix, m + 1) = Radix * Weight(Radix, m) /\ Weight(Radix, m) \in Nat
    BY <1>6, <2>1, WeightStep
  <2> DEFINE t == m * ByteBits
  <2>3. t \in Nat /\ (m + 1) * ByteBits = t + ByteBits
    BY <1>1, <2>1
  <2> HIDE DEF t
  <2>4. Weight(2, t + ByteBits) = Weight(2, t) * Weight(2, ByteBits)
    BY <1>1, <2>3, WeightSum
  <2>5. Weight(Radix, m) = Weight(2, t)
    BY <2>1 DEF t
  <2>6. Radix * Weight(Radix, m) = Weight(Radix, m) * Radix
    BY <1>6, <2>2
  <2> QED BY <1>5, <2>1, <2>2, <2>3, <2>4, <2>5, <2>6 DEF N
<1>9. N \in SUBSET Nat
  OBVIOUS
<1> HIDE DEF N
<1>10. N = Nat
  BY <1>7, <1>8, <1>9, SetInduction
<1> QED BY <1>1, <1>5, <1>10 DEF N

(* Bits of a number that they can hold, and numbers of bits. *)
LEMMA BitsHold ==
  ASSUME NEW s \in Nat
  PROVE  /\ \A n \in Int : Bits(n, s) \in [1 .. s -> {0, 1}]
         /\ \A n \in 0 .. Weight(2, s) - 1 : Number(Bits(n, s), 2) = n
         /\ \A u \in [1 .. s -> {0, 1}] :
              Number(u, 2) \in 0 .. Weight(2, s) - 1 /\ Bits(Number(u, 2), s) = u
<1>1. 2 \in Nat \ {0} /\ Digit(2) = {0, 1}
  BY DEF Digit
<1>2. \A n \in Int : Bits(n, s) \in [1 .. s -> Digit(2)]
  BY <1>1, DigitsStep DEF Bits
<1>3. \A n \in 0 .. Weight(2, s) - 1 : Number(Bits(n, s), 2) = n
  BY <1>1, WeightHolds DEF Bits
<1>4. \A u \in [1 .. s -> Digit(2)] : Number(u, 2) \in 0 .. Weight(2, s) - 1
  BY <1>1, WeightHolds
<1>5. \A u \in [1 .. s -> Digit(2)] : Bits(Number(u, 2), s) = u
  BY <1>1, DigitsOfNumber DEF Bits
<1> QED BY <1>1, <1>2, <1>3, <1>4, <1>5

(* Zeros are the digits of zero, and of nothing else. *)
LEMMA ZeroNumber ==
  ASSUME NEW b \in Nat \ {0}, NEW n \in Nat
  PROVE  Number([i \in 1 .. n |-> 0], b) = 0
<1> DEFINE N == {m \in Nat : Number([i \in 1 .. m |-> 0], b) = 0}
<1>1. 0 \in N
  <2>1. [i \in 1 .. 0 |-> 0] \in [1 .. 0 -> Int]
    OBVIOUS
  <2> QED BY <2>1, NumberStep
<1>2. ASSUME NEW m \in N PROVE m + 1 \in N
  <2> DEFINE w == [i \in 1 .. m + 1 |-> 0]
  <2>1. m \in Nat /\ Number([i \in 1 .. m |-> 0], b) = 0
    OBVIOUS
  <2> HIDE DEF N
  <2>2. w \in [1 .. m + 1 -> Int] /\ w[1] = 0 /\ [i \in 1 .. m |-> w[i + 1]] = [i \in 1 .. m |-> 0]
    BY <2>1
  <2> HIDE DEF w
  <2>3. Number(w, b) = w[1] + b * Number([i \in 1 .. m |-> w[i + 1]], b)
    BY <2>1, <2>2, NumberMore
  <2>4. Number(w, b) = 0
    BY <2>1, <2>2, <2>3
  <2> QED BY <2>1, <2>4 DEF N, w
<1>3. N \in SUBSET Nat
  OBVIOUS
<1> HIDE DEF N
<1>4. N = Nat
  BY <1>1, <1>2, <1>3, SetInduction
<1> QED BY <1>4 DEF N

(* Bytewise logic makes bytes; xor undoes itself. *)
LEMMA ByteLogic ==
  ASSUME NEW a \in Byte, NEW b \in Byte
  PROVE  /\ AndByte(a, b) \in Byte /\ OrByte(a, b) \in Byte /\ XorByte(a, b) \in Byte
         /\ XorByte(XorByte(a, b), b) = a /\ XorByte(XorByte(a, b), a) = b
         /\ XorByte(a, b) = a <=> b = 0
<1> DEFINE B == ByteBits
           u == Bits(a, B)
           v == Bits(b, B)
           zeros == [i \in 1 .. B |-> 0]
<1>1. B \in Nat /\ Byte = 0 .. Weight(2, B) - 1
  BY ByteBitsFacts DEF Byte
<1>0. /\ \A n \in Byte : Bits(n, B) \in [1 .. B -> {0, 1}] /\ Number(Bits(n, B), 2) = n
      /\ \A w \in [1 .. B -> {0, 1}] : Number(w, 2) \in Byte /\ Bits(Number(w, 2), B) = w
  <2>1. \A n \in Byte : n \in Int
    BY DEF Byte
  <2> HIDE DEF B
  <2> QED BY <1>1, <2>1, BitsHold
<1>2. u \in [1 .. B -> {0, 1}] /\ v \in [1 .. B -> {0, 1}] /\ Number(u, 2) = a /\ Number(v, 2) = b
  BY <1>0
<1> DEFINE and == [i \in 1 .. B |-> u[i] * v[i]]
           or == [i \in 1 .. B |-> IF u[i] + v[i] = 0 THEN 0 ELSE 1]
           xor == [i \in 1 .. B |-> (u[i] + v[i]) % 2]
<1>3. /\ AndByte(a, b) = Number(and, 2) /\ OrByte(a, b) = Number(or, 2)
      /\ XorByte(a, b) = Number(xor, 2)
  <2>1. DOMAIN u = 1 .. B
    BY <1>2
  <2> HIDE DEF u, v
  <2> QED BY <2>1 DEF AndByte, OrByte, XorByte, ByBits, Bytewise, u, v
<1> HIDE DEF u, v, B
<1>4. \A p, q \in {0, 1} : p * q \in {0, 1} /\ ((p + q) % 2) \in {0, 1}
                           /\ ((((p + q) % 2) + q) % 2) = p /\ ((((p + q) % 2) + p) % 2) = q
                           /\ (((p + q) % 2) = p <=> q = 0)
  OBVIOUS
<1>5. and \in [1 .. B -> {0, 1}] /\ or \in [1 .. B -> {0, 1}] /\ xor \in [1 .. B -> {0, 1}]
  BY <1>2, <1>4
<1>6. Number(and, 2) \in Byte /\ Number(or, 2) \in Byte /\ Number(xor, 2) \in Byte
      /\ Bits(Number(xor, 2), B) = xor
  <2> HIDE DEF and, or, xor
  <2> QED BY <1>0, <1>5
<1>7. XorByte(Number(xor, 2), b) = a /\ XorByte(Number(xor, 2), a) = b
  <2>1. v = [i \in 1 .. B |-> (xor[i] + u[i]) % 2]
    BY <1>2, <1>4
  <2>2. u = [i \in 1 .. B |-> (xor[i] + v[i]) % 2]
    BY <1>2, <1>4
  <2>3. DOMAIN xor = 1 .. B
    OBVIOUS
  <2> HIDE DEF xor
  <2>4. XorByte(Number(xor, 2), b) = Number([i \in 1 .. B |-> (xor[i] + v[i]) % 2], 2)
    BY <1>6, <2>3 DEF XorByte, ByBits, Bytewise, v, B
  <2>5. XorByte(Number(xor, 2), a) = Number([i \in 1 .. B |-> (xor[i] + u[i]) % 2], 2)
    BY <1>6, <2>3 DEF XorByte, ByBits, Bytewise, u, B
  <2> QED BY <1>2, <2>1, <2>2, <2>4, <2>5
<1>8. zeros \in [1 .. B -> {0, 1}] /\ Bits(0, B) = zeros
  <2>1. zeros \in [1 .. B -> {0, 1}]
    OBVIOUS
  <2>2. \A w \in [1 .. B -> {0, 1}] : w = zeros \/ \E i \in 1 .. B : w[i] = 1
    OBVIOUS
  <2>3. 0 \in Byte
    BY OperandsAssumption DEF Byte
  <2>4. Bits(0, B) \in [1 .. B -> {0, 1}] /\ Number(Bits(0, B), 2) = 0
    BY <1>0, <2>3
  <2>5. ASSUME NEW m \in Nat PROVE Number([i \in 1 .. m |-> 0], 2) = 0
    BY ZeroNumber
  <2>6. Number(zeros, 2) = 0
    BY <1>1, <2>5 DEF B
  <2> HIDE DEF zeros
  <2> QED BY <1>0, <2>1, <2>4, <2>6
<1>9. XorByte(a, b) = a <=> b = 0
  <2>1. XorByte(a, b) = a <=> xor = u
    <3> HIDE DEF xor
    <3> QED BY <1>0, <1>2, <1>3, <1>5
  <2>2. xor = u <=> v = zeros
    <3>1. xor = u => \A i \in 1 .. B : v[i] = 0
      BY <1>2, <1>4
    <3>2. v = zeros => xor = u
      BY <1>2, <1>4
    <3> QED BY <1>2, <3>1, <3>2
  <2>3. v = zeros <=> b = 0
    <3> HIDE DEF zeros
    <3>1. 0 \in Byte
      BY OperandsAssumption DEF Byte
    <3> QED BY <1>0, <1>2, <1>8, <3>1 DEF v
  <2> QED BY <2>1, <2>2, <2>3
<1> QED BY <1>3, <1>6, <1>7, <1>9

(* A value with some byte above its last one, or cut. *)
Wide(v, s, n, t) == [i \in 1 .. n |-> IF i <= s THEN v[i] ELSE t]

(* A value is widened above its last byte, or cut there.                   *)
LEMMA Widths ==
  ASSUME NEW s \in Nat, NEW v \in Bytes(s), NEW n \in Nat
  PROVE  /\ clean_valset(v, n, TRUE) = Wide(v, s, n, Radix - 1)
         /\ clean_valset(v, n, FALSE) = Wide(v, s, n, 0)
         /\ Fit(v, n) = Wide(v, s, n, 0)
         /\ \/ sign_extend_valset(v, n) = Wide(v, s, n, Radix - 1)
            \/ sign_extend_valset(v, n) = Wide(v, s, n, 0)
<1>1. v \in Seq(Byte) /\ Len(v) = s /\ DOMAIN v = 1 .. s
  BY BytesLen
<1>2. ASSUME s >= n, NEW t PROVE SubSeq(v, 1, n) = Wide(v, s, n, t)
  <2>1. \A i \in 1 .. n : i <= s
    BY <1>2
  <2>2. SubSeq(v, 1, n) = [i \in 1 .. n |-> v[i]]
    BY <1>1, <1>2
  <2> QED BY <2>1, <2>2 DEF Wide
<1>3. ASSUME s < n, NEW t \in Int PROVE v \o [i \in 1 .. n - s |-> t] = Wide(v, s, n, t)
  <2> DEFINE e == [i \in 1 .. n - s |-> t]
             w == v \o e
             r == Wide(v, s, n, t)
  <2>2. e \in Seq(Int) /\ Len(e) = n - s /\ \A i \in 1 .. n - s : e[i] = t
    <3>1. n - s \in Nat
      BY <1>3
    <3> QED BY <3>1
  <2>3. v \in Seq(Int)
    BY <1>1, OperandsAssumption DEF Byte
  <2> HIDE DEF e
  <2>4. /\ Len(w) = n /\ w \in Seq(Int)
        /\ \A i \in 1 .. s : w[i] = v[i]
        /\ \A i \in s + 1 .. n : w[i] = e[i - s]
    <3>1. s \in Nat /\ Len(v) = s /\ Len(e) = n - s
      BY <1>1, <2>2
    <3>2. Len(w) = n /\ w \in Seq(Int)
      BY <1>3, <2>2, <2>3, <3>1
    <3>3. \A i \in 1 .. s : w[i] = v[i]
      BY <1>3, <2>2, <2>3, <3>1, SMTT(30)
    <3>4. \A i \in s + 1 .. n : w[i] = e[i - s]
      BY <1>3, <2>2, <2>3, <3>1, SMTT(30)
    <3> QED BY <3>2, <3>3, <3>4
  <2> HIDE DEF w
  <2>5. w = [i \in 1 .. n |-> w[i]]
    BY <2>4
  <2>6. ASSUME NEW i \in 1 .. n PROVE w[i] = IF i <= s THEN v[i] ELSE t
    <3>1. CASE i <= s
      BY <2>4, <3>1
    <3>2. CASE i > s
      <4>1. i \in s + 1 .. n /\ i - s \in 1 .. n - s /\ ~ (i <= s)
        BY <3>2
      <4>2. w[i] = t
        BY <2>2, <2>4, <4>1
      <4> QED BY <4>1, <4>2
    <3> QED BY <3>1, <3>2
  <2>7. w = Wide(v, s, n, t)
    BY <2>5, <2>6 DEF Wide
  <2> QED BY <2>7 DEF w, e
<1>4. Radix - 1 \in Int /\ 0 \in Int
  BY OperandsAssumption
<1>9. ASSUME NEW t \in Int
      PROVE  Wide(v, s, n, t) = IF s >= n THEN SubSeq(v, 1, n) ELSE v \o [i \in 1 .. n - s |-> t]
  <2>1. CASE s >= n
    BY <1>2, <2>1
  <2>2. CASE s < n
    <3>1. v \o [i \in 1 .. n - s |-> t] = Wide(v, s, n, t)
      BY <1>3, <2>2
    <3>2. ~ (s >= n)
      BY <2>2
    <3> QED BY <3>1, <3>2
  <2>3. s >= n \/ s < n
    OBVIOUS
  <2> QED BY <2>1, <2>2, <2>3
<1>10. /\ Wide(v, s, n, 0) = IF s >= n THEN SubSeq(v, 1, n) ELSE v \o [i \in 1 .. n - s |-> 0]
       /\ Wide(v, s, n, Radix - 1) = IF s >= n THEN SubSeq(v, 1, n)
                                      ELSE v \o [i \in 1 .. n - s |-> Radix - 1]
  BY <1>4, <1>9
<1>5. clean_valset(v, n, TRUE) = Wide(v, s, n, Radix - 1)
  BY <1>1, <1>10 DEF clean_valset, one_valset
<1>6. clean_valset(v, n, FALSE) = Wide(v, s, n, 0)
  BY <1>1, <1>10 DEF clean_valset, zero_valset
<1>7. Fit(v, n) = Wide(v, s, n, 0)
  BY <1>1, <1>10 DEF Fit, zero_valset
<1>8. \/ sign_extend_valset(v, n) = clean_valset(v, n, TRUE)
      \/ sign_extend_valset(v, n) = clean_valset(v, n, FALSE)
  <2>1. sign_of_valset(v) = TRUE \/ sign_of_valset(v) = FALSE
    BY DEF sign_of_valset
  <2> QED BY <2>1 DEF sign_extend_valset
<1> QED BY <1>5, <1>6, <1>7, <1>8

(* Widening a value and taking its part back gives it again; of a value    *)
(* that is widened with zeros only the width asked for last matters.       *)
LEMMA WideCut ==
  ASSUME NEW s \in Nat, NEW v \in Bytes(s), NEW n \in Nat, NEW t \in Byte
  PROVE  /\ Wide(v, s, n, t) \in Bytes(n)
         /\ s = n => Wide(v, s, n, t) = v
         /\ s <= n => Fit(Wide(v, s, n, t), s) = v
         /\ \A m \in Nat : s <= n /\ m <= n => Fit(Wide(v, s, n, 0), m) = Fit(v, m)
<1>1. 0 \in Byte
  BY OperandsAssumption DEF Byte
<1>2. v = [i \in 1 .. s |-> v[i]] /\ \A i \in 1 .. s : v[i] \in Byte
  BY DEF Bytes
<1>3. ASSUME NEW r \in Byte PROVE Wide(v, s, n, r) \in Bytes(n)
  <2>1. \A i \in 1 .. n : i <= s => i \in 1 .. s
    OBVIOUS
  <2>2. \A i \in 1 .. n : (IF i <= s THEN v[i] ELSE r) \in Byte
    BY <1>2, <2>1
  <2> QED BY <2>2 DEF Wide, Bytes
<1>4. s = n => Wide(v, s, n, t) = v
  <2> SUFFICES ASSUME s = n PROVE Wide(v, s, n, t) = v
    OBVIOUS
  <2>1. Wide(v, s, n, t) = [i \in 1 .. n |-> v[i]]
    <3>1. \A i \in 1 .. n : i <= s
      OBVIOUS
    <3> QED BY <3>1 DEF Wide
  <2> QED BY <1>2, <2>1
<1>5. ASSUME NEW r \in Byte, NEW m \in Nat, s <= n, m <= n, r = 0 \/ m <= s
      PROVE  Fit(Wide(v, s, n, r), m) = Wide(v, s, m, 0)
  <2> DEFINE w == Wide(v, s, n, r)
  <2>1. w \in Bytes(n) /\ \A i \in 1 .. n : w[i] = IF i <= s THEN v[i] ELSE r
    BY <1>3 DEF Wide
  <2> HIDE DEF w
  <2>2. Fit(w, m) = Wide(w, n, m, 0)
    BY <2>1, Widths
  <2>3. ASSUME NEW i \in 1 .. m PROVE (IF i <= n THEN w[i] ELSE 0) = IF i <= s THEN v[i] ELSE 0
    <3>1. i \in 1 .. n /\ i <= n
      BY <1>5
    <3>2. w[i] = IF i <= s THEN v[i] ELSE r
      BY <2>1, <3>1
    <3>3. r = 0 \/ i <= s
      BY <1>5
    <3> QED BY <3>1, <3>2, <3>3
  <2>4. Wide(w, n, m, 0) = Wide(v, s, m, 0)
    BY <2>3 DEF Wide
  <2> QED BY <2>2, <2>4 DEF w
<1>6. s <= n => Fit(Wide(v, s, n, t), s) = v
  <2> SUFFICES ASSUME s <= n PROVE Fit(Wide(v, s, n, t), s) = v
    OBVIOUS
  <2>1. Fit(Wide(v, s, n, t), s) = Wide(v, s, s, 0)
    BY <1>5
  <2>2. Wide(v, s, s, 0) = [i \in 1 .. s |-> v[i]]
    <3>1. \A i \in 1 .. s : i <= s
      OBVIOUS
    <3> QED BY <3>1 DEF Wide
  <2> QED BY <1>2, <2>1, <2>2
<1>7. ASSUME NEW m \in Nat, s <= n, m <= n PROVE Fit(Wide(v, s, n, 0), m) = Fit(v, m)
  BY <1>1, <1>5, <1>7, Widths
<1> QED BY <1>3, <1>4, <1>6, <1>7

(* What the operators on widths make of a value of the size s.             *)
LEMMA Fits ==
  ASSUME NEW s \in Nat, NEW v \in Bytes(s), NEW n \in Nat
  PROVE  /\ Fit(v, n) \in Bytes(n) /\ sign_extend_valset(v, n) \in Bytes(n)
         /\ clean_valset(v, n, FALSE) = Fit(v, n)
         /\ s = n => Fit(v, n) = v /\ sign_extend_valset(v, n) = v
         /\ s <= n => Fit(Fit(v, n), s) = v /\ Fit(sign_extend_valset(v, n), s) = v
         /\ \A m \in Nat : s <= n /\ m <= n => Fit(Fit(v, n), m) = Fit(v, m)
<1>1. 0 \in Byte /\ Radix - 1 \in Byte
  BY OperandsAssumption DEF Byte
<1>2. Fit(v, n) = Wide(v, s, n, 0) /\ clean_valset(v, n, FALSE) = Wide(v, s, n, 0)
  BY Widths
<1>3. PICK t \in Byte : sign_extend_valset(v, n) = Wide(v, s, n, t)
  BY <1>1, Widths
<1>4. /\ Wide(v, s, n, t) \in Bytes(n)
      /\ s = n => Wide(v, s, n, t) = v
      /\ s <= n => Fit(Wide(v, s, n, t), s) = v
  BY WideCut
<1>5. /\ Wide(v, s, n, 0) \in Bytes(n)
      /\ s = n => Wide(v, s, n, 0) = v
      /\ s <= n => Fit(Wide(v, s, n, 0), s) = v
      /\ \A m \in Nat : s <= n /\ m <= n => Fit(Wide(v, s, n, 0), m) = Fit(v, m)
  BY <1>1, WideCut
<1> QED BY <1>2, <1>3, <1>4, <1>5

(* The operators on values of one size.                                    *)
LEMMA Negations ==
  ASSUME NEW s \in Nat, NEW v \in Bytes(s)
  PROVE  /\ NotVal(v) \in Bytes(s) /\ NotVal(NotVal(v)) = v
         /\ NegVal(v) \in Bytes(s) /\ NegVal(NegVal(v)) = v
<1>1. DOMAIN v = 1 .. s /\ \A i \in 1 .. s : v[i] \in Byte
  BY BytesLen DEF Bytes
<1>2. \A b \in Byte : Radix - 1 - b \in Byte /\ Radix - 1 - (Radix - 1 - b) = b
  BY OperandsAssumption DEF Byte
<1>3. NotVal(v) = [i \in 1 .. s |-> Radix - 1 - v[i]]
  BY <1>1 DEF NotVal, NotByte
<1>4. NotVal(v) \in Bytes(s)
  BY <1>1, <1>2, <1>3 DEF Bytes
<1>5. NotVal(NotVal(v)) = [i \in 1 .. s |-> Radix - 1 - (Radix - 1 - v[i])]
  BY <1>3 DEF NotVal, NotByte
<1>6. NotVal(NotVal(v)) = v
  <2>1. v = [i \in 1 .. s |-> v[i]]
    BY DEF Bytes
  <2> QED BY <1>1, <1>2, <1>5, <2>1
<1> DEFINE a == ToNum(v)
<1>7. a \in Nat /\ ToBytes(a, s) = v
  BY ByteNumbers
<1>8. \A m \in Int : ToBytes(0 - ToNum(ToBytes(m, s)), s) = ToBytes(0 - m, s)
                     /\ ToBytes(m, s) \in Bytes(s)
  <2>1. \A m, k \in Int : ToBytes(k - ToNum(ToBytes(m, s)), s) = ToBytes(k - m, s)
    BY ByteNumbers
  <2>2. \A m \in Int : ToBytes(m, s) \in Bytes(s)
    BY ByteNumbers
  <2>3. 0 \in Int
    OBVIOUS
  <2> QED BY <2>1, <2>2, <2>3
<1> HIDE DEF a
<1>9. 0 - a \in Int /\ 0 - (0 - a) = a
  BY <1>7
<1>10. NegVal(v) = ToBytes(0 - a, s)
  BY <1>9, ModBytes DEF NegVal, a
<1>11. NegVal(ToBytes(0 - a, s)) = ToBytes(0 - ToNum(ToBytes(0 - a, s)), s)
  <2> DEFINE w == ToBytes(0 - a, s)
  <2>1. w \in Bytes(s)
    BY <1>8, <1>9
  <2>2. 0 - ToNum(w) \in Int
    <3>1. ToNum(w) \in Nat
      BY <2>1, ByteNumbers
    <3> QED BY <3>1
  <2> HIDE DEF w
  <2>3. NegVal(w) = ToBytes(0 - ToNum(w), s)
    BY <2>1, <2>2, ModBytes DEF NegVal
  <2> QED BY <2>3 DEF w
<1>12. ToBytes(0 - ToNum(ToBytes(0 - a, s)), s) = ToBytes(0 - (0 - a), s)
  BY <1>8, <1>9
<1> QED BY <1>4, <1>6, <1>7, <1>8, <1>9, <1>10, <1>11, <1>12

(* A value and its bits. *)
LEMMA ValueBits ==
  ASSUME NEW s \in Nat
  PROVE  /\ \A v \in Bytes(s) : /\ Bits(ToNum(v), s * ByteBits) \in [1 .. s * ByteBits -> {0, 1}]
                                /\ Mod(Number(Bits(ToNum(v), s * ByteBits), 2), v) = v
         /\ \A u \in [1 .. s * ByteBits -> {0, 1}], v \in Bytes(s) :
              /\ Mod(Number(u, 2), v) \in Bytes(s)
              /\ Bits(ToNum(Mod(Number(u, 2), v)), s * ByteBits) = u
<1> DEFINE z == s * ByteBits
<1>1. z \in Nat /\ Weight(Radix, s) = Weight(2, z)
  BY ByteBitsFacts
<1>2. Radix \in Nat \ {0} /\ Bytes(s) = [1 .. s -> Digit(Radix)]
  BY OperandsAssumption DEF Bytes, Digit, Byte
<1> HIDE DEF z
<1>3. ASSUME NEW v \in Bytes(s)
      PROVE  Bits(ToNum(v), z) \in [1 .. z -> {0, 1}] /\ Mod(Number(Bits(ToNum(v), z), 2), v) = v
  <2>0. \A w \in [1 .. s -> Digit(Radix)] : Number(w, Radix) \in 0 .. Weight(Radix, s) - 1
    BY <1>2, WeightHolds
  <2>1. ToNum(v) \in 0 .. Weight(2, z) - 1 /\ ToNum(v) \in Int
    <3>1. ToNum(v) \in Nat
      BY ByteNumbers
    <3>2. Number(v, Radix) \in 0 .. Weight(Radix, s) - 1
      BY <1>2, <2>0
    <3> QED BY <1>1, <3>1, <3>2 DEF ToNum
  <2>2. Number(Bits(ToNum(v), z), 2) = ToNum(v) /\ Bits(ToNum(v), z) \in [1 .. z -> {0, 1}]
    BY <1>1, <2>1, BitsHold
  <2>3. Mod(ToNum(v), v) = ToBytes(ToNum(v), s)
    BY <2>1, ModBytes
  <2>4. ToBytes(ToNum(v), s) = v
    BY ByteNumbers
  <2> QED BY <2>2, <2>3, <2>4
<1>4. ASSUME NEW u \in [1 .. z -> {0, 1}], NEW v \in Bytes(s)
      PROVE  Mod(Number(u, 2), v) \in Bytes(s) /\ Bits(ToNum(Mod(Number(u, 2), v)), z) = u
  <2> DEFINE n == Number(u, 2)
  <2>1. n \in 0 .. Weight(2, z) - 1 /\ Bits(n, z) = u
    BY <1>1, BitsHold
  <2>2. n \in Int
    <3>1. Weight(2, z) \in Nat
      BY <1>1, WeightStep
    <3> HIDE DEF n
    <3> QED BY <2>1, <3>1
  <2> HIDE DEF n
  <2>3. Mod(n, v) = ToBytes(n, s) /\ Mod(n, v) \in Bytes(s)
    BY <2>2, ModBytes
  <2>4. ToNum(ToBytes(n, s)) = n
    BY <1>1, <1>2, <2>1, WeightHolds DEF ToNum, ToBytes
  <2> QED BY <2>1, <2>3, <2>4 DEF n
<1> QED BY <1>3, <1>4 DEF z

(* A rotation is undone by the rotation by the rest of the width.          *)
LEMMA Rotations ==
  ASSUME NEW s \in Nat \ {0}, NEW v \in Bytes(s), NEW c \in Int, NEW d \in Int,
         c + d = s * ByteBits
  PROVE  Rotated(v, c) \in Bytes(s) /\ Rotated(Rotated(v, c), d) = v
<1> DEFINE z == s * ByteBits
           at(k, e) == 1 + ((k - 1 - e) % z)
           turned(u, e) == [k \in 1 .. z |-> u[at(k, e)]]
           old == Bits(ToNum(v), z)
<1>1. z \in Nat \ {0}
  BY ByteBitsFacts
<1>2. ASSUME NEW w \in Bytes(s), NEW e \in Int
      PROVE  Rotated(w, e) = Mod(Number(turned(Bits(ToNum(w), z), e), 2), w)
  <2>1. Len(w) = s
    BY BytesLen
  <2> QED BY <2>1 DEF Rotated
<1>3. ASSUME NEW k \in 1 .. z, NEW e \in Int PROVE at(k, e) \in 1 .. z
  <2> HIDE DEF z
  <2>1. k - 1 - e \in Int
    BY <1>1
  <2>2. ((k - 1 - e) % z) \in 0 .. z - 1
    BY <1>1, <2>1, Division
  <2> DEFINE r == (k - 1 - e) % z
  <2> HIDE DEF r
  <2>3. r \in 0 .. z - 1
    BY <2>2 DEF r
  <2>4. 1 + r \in 1 .. z
    BY <1>1, <2>3
  <2> QED BY <2>4 DEF r
<1>4. old \in [1 .. z -> {0, 1}] /\ Mod(Number(old, 2), v) = v
  BY ValueBits
<1>5. turned(old, c) \in [1 .. z -> {0, 1}]
  <2> HIDE DEF z, old, at
  <2> QED BY <1>3, <1>4
<1>6. Rotated(v, c) \in Bytes(s) /\ Bits(ToNum(Rotated(v, c)), z) = turned(old, c)
  <2> HIDE DEF turned, old
  <2>1. /\ Mod(Number(turned(old, c), 2), v) \in Bytes(s)
        /\ Bits(ToNum(Mod(Number(turned(old, c), 2), v)), z) = turned(old, c)
    BY <1>5, ValueBits
  <2>2. Rotated(v, c) = Mod(Number(turned(old, c), 2), v)
    BY <1>2 DEF old
  <2> QED BY <2>1, <2>2
<1>7. ASSUME NEW k \in 1 .. z PROVE at(at(k, d), c) = k
  <2> HIDE DEF z
  <2> DEFINE y == k - 1 - d
             q == y \div z
             r == y % z
  <2>1. y \in Int /\ k - 1 \in 0 .. z - 1
    BY <1>1
  <2>2. c + d = z
    BY DEF z
  <2>3. q \in Int /\ r \in 0 .. z - 1 /\ y = z * q + r
    <3> HIDE DEF y
    <3> QED BY <1>1, <2>1, Division
  <2>4. (1 + r) - 1 - c = k - 1 + z * (-1 - q)
    <3> DEFINE p == z * q
    <3> HIDE DEF q, r
    <3>1. p \in Int /\ k - 1 - d = p + r /\ r \in Int
      BY <1>1, <2>3
    <3>2. z * (-1 - q) = - z - p
      BY <1>1, <2>3
    <3> HIDE DEF p
    <3> QED BY <1>1, <2>2, <3>1, <3>2
  <2> HIDE DEF q, r
  <2>5. (k - 1 + z * (-1 - q)) % z = (k - 1) % z
    <3>1. k - 1 \in Int /\ -1 - q \in Int
      BY <2>1, <2>3
    <3> QED BY <1>1, <3>1, DivisionShift
  <2>6. (k - 1) % z = k - 1
    <3>1. k - 1 = z * 0 + (k - 1) /\ k - 1 \in Int /\ 0 \in Int
      BY <1>1
    <3> DEFINE h == k - 1
    <3>2. h \in Int /\ h \in 0 .. z - 1 /\ h = z * 0 + h /\ 0 \in Int
      BY <2>1, <3>1
    <3> HIDE DEF h
    <3>4. \A e \in Int, f \in 0 .. z - 1 : h = z * e + f => e = h \div z /\ f = h % z
      BY <1>1, <3>2, Division
    <3>3. h = h % z
      BY <3>2, <3>4
    <3> QED BY <3>3 DEF h
  <2>7. at(k, d) = 1 + r
    BY DEF r, y
  <2>8. at(at(k, d), c) = 1 + (((1 + r) - 1 - c) % z)
    <3> HIDE DEF r, y
    <3>1. at(1 + r, c) = 1 + (((1 + r) - 1 - c) % z)
      OBVIOUS
    <3> HIDE DEF at
    <3> QED BY <2>7, <3>1
  <2>9. 1 + (k - 1) = k
    BY <1>1
  <2> QED BY <2>4, <2>5, <2>6, <2>8, <2>9
<1>8. turned(turned(old, c), d) = old
  <2>1. \A k \in 1 .. z : turned(old, c)[at(k, d)] = old[k]
    <3>1. \A k \in 1 .. z : turned(old, c)[at(k, d)] = old[at(at(k, d), c)]
      <4>1. \A k \in 1 .. z : at(k, d) \in 1 .. z
        BY <1>3
      <4> HIDE DEF z, old, at
      <4> QED BY <4>1
    <3> HIDE DEF z, old, at, turned
    <3> QED BY <1>7, <3>1
  <2>2. turned(turned(old, c), d) = [k \in 1 .. z |-> turned(old, c)[at(k, d)]]
    OBVIOUS
  <2>3. old = [k \in 1 .. z |-> old[k]]
    <3> HIDE DEF old
    <3> QED BY <1>4
  <2> HIDE DEF turned, old, at, z
  <2> QED BY <2>1, <2>2, <2>3
<1>9. Rotated(Rotated(v, c), d) = Mod(Number(old, 2), Rotated(v, c))
  <2> HIDE DEF turned, old, z, at
  <2> QED BY <1>2, <1>6, <1>8
<1>10. Mod(Number(old, 2), Rotated(v, c)) = Mod(Number(old, 2), v)
  <2>1. Len(Rotated(v, c)) = s /\ Len(v) = s
    BY <1>6, BytesLen
  <2> QED BY <2>1 DEF Mod
<1> QED BY <1>4, <1>6, <1>9, <1>10

(* The largest and the smallest bit that is set. *)
LEMMA Scans ==
  ASSUME NEW v, NEW garbage \in Bytes(DW)
  PROVE  /\ Scanned(v, Max(SetBits(v)), garbage) \in Bytes(DW)
         /\ Scanned(v, Min(SetBits(v)), garbage) \in Bytes(DW)
<1> DEFINE S == SetBits(v)
<1>1. S \subseteq Nat /\ \A k \in S : k <= IntBits
  <2>1. ByteBits \in 1 .. 8
    BY ByteBitsFacts
  <2>2. IntBits \in Nat
    BY <2>1, WordAssumption DEF IntBits
  <2> QED BY <2>2 DEF SetBits
<1>2. ASSUME S # {} PROVE Max(S) \in S
  <2>0. IntBits \in Nat
    <3>1. ByteBits \in 1 .. 8
      BY ByteBitsFacts
    <3> QED BY <3>1, WordAssumption DEF IntBits
  <2>1. SUFFICES ASSUME ~ \E k \in S : \A j \in S : k >= j PROVE FALSE
    BY DEF Max
  <2> DEFINE T == {m \in Nat : \E k \in S : k >= m}
  <2> HIDE DEF S
  <2>2. 0 \in T
    <3>1. PICK k \in S : TRUE
      BY <1>2
    <3>2. k \in Nat
      BY <1>1
    <3>3. k >= 0 /\ 0 \in Nat
      BY <3>2
    <3> QED BY <3>3
  <2>3. ASSUME NEW m \in T PROVE m + 1 \in T
    <3>1. PICK k \in S : k >= m
      OBVIOUS
    <3>2. PICK j \in S : ~ (k >= j)
      BY <2>1
    <3>3. j >= m + 1 /\ m \in Nat
      BY <1>1, <3>1, <3>2
    <3> QED BY <3>3
  <2>4. T \in SUBSET Nat
    OBVIOUS
  <2>5. T = Nat
    <3> HIDE DEF T
    <3> QED BY <2>2, <2>3, <2>4, SetInduction
  <2>6. IntBits + 1 \in T
    BY <2>0, <2>5
  <2>7. PICK k \in S : k >= IntBits + 1
    BY <2>6
  <2> QED BY <1>1, <2>0, <2>7
<1>3. ASSUME S # {} PROVE Min(S) \in S
  <2> HIDE DEF S
  <2>1. PICK m \in S : \A y \in S : ~ (<<y, m>> \in OpToRel(<, Nat))
    BY <1>1, <1>3, NatLessThanWellFounded, WFMin
  <2>2. \A y \in S : m <= y
    <3>1. \A y \in S : y \in Nat /\ m \in Nat
      BY <1>1
    <3>2. ASSUME NEW y \in S, y < m PROVE FALSE
      <4>1. <<y, m>> \in OpToRel(<, Nat)
        BY <3>1, <3>2 DEF OpToRel
      <4> QED BY <2>1, <4>1
    <3> QED BY <3>1, <3>2
  <2> QED BY <2>2 DEF Min
<1>4. \A m \in Int : Mod(m, zero_valset(DW)) \in Bytes(DW)
  <2>1. zero_valset(DW) \in Bytes(DW) /\ DW \in Nat
    BY OperandsAssumption DEF zero_valset, Bytes, Byte
  <2> QED BY <2>1, ModBytes
<1> HIDE DEF S
<1>5. S # {} => Max(S) \in Int /\ Min(S) \in Int
  <2> SUFFICES ASSUME S # {} PROVE Max(S) \in Int /\ Min(S) \in Int
    OBVIOUS
  <2>1. Max(S) \in S /\ Min(S) \in S
    BY <1>2, <1>3
  <2>2. \A k \in S : k \in Int
    BY <1>1
  <2> QED BY <2>1, <2>2
<1> QED BY <1>4, <1>5 DEF Scanned, S

(* The operators on vectors. *)
LEMMA Vectorwise ==
  ASSUME NEW s \in Nat, NEW v \in Bytes(s), NEW w \in Bytes(s)
  PROVE  /\ Bytewise(AndByte, v, w) \in Bytes(s) /\ Bytewise(OrByte, v, w) \in Bytes(s)
         /\ Bytewise(EqualByte, v, w) \in Bytes(s) /\ Bytewise(GreaterByte, v, w) \in Bytes(s)
         /\ Bytewise(MaxByte, v, w) \in Bytes(s) /\ Bytewise(MinByte, v, w) \in Bytes(s)
         /\ Interleaved(v, w) \in Bytes(s)
         /\ Reverse(v) \in Bytes(s) /\ Reverse(Reverse(v)) = v
<1>1. /\ DOMAIN v = 1 .. s /\ Len(v) = s /\ \A i \in 1 .. s : v[i] \in Byte /\ w[i] \in Byte
  BY BytesLen DEF Bytes
<1>2. 0 \in Byte /\ Radix - 1 \in Byte
  BY OperandsAssumption DEF Byte
<1>3. Bytewise(AndByte, v, w) \in Bytes(s) /\ Bytewise(OrByte, v, w) \in Bytes(s)
  BY <1>1, ByteLogic DEF Bytewise, Bytes
<1>4. Bytewise(EqualByte, v, w) \in Bytes(s) /\ Bytewise(GreaterByte, v, w) \in Bytes(s)
  BY <1>1, <1>2 DEF Bytewise, Bytes, EqualByte, GreaterByte
<1>5. Bytewise(MaxByte, v, w) \in Bytes(s) /\ Bytewise(MinByte, v, w) \in Bytes(s)
  BY <1>1 DEF Bytewise, Bytes, MaxByte, MinByte
<1>6. Interleaved(v, w) \in Bytes(s)
  <2>1. ASSUME NEW i \in 1 .. s
        PROVE  (IF i % 2 = 1 THEN v[(i + 1) \div 2] ELSE w[i \div 2]) \in Byte
    <3>1. i % 2 = 1 => (i + 1) \div 2 \in 1 .. s
      OBVIOUS
    <3>2. i % 2 # 1 => i \div 2 \in 1 .. s
      OBVIOUS
    <3> QED BY <1>1, <3>1, <3>2
  <2> QED BY <1>1, <2>1 DEF Interleaved, Bytes
<1>7. Reverse(v) = [i \in 1 .. s |-> v[(s - i) + 1]]
  BY <1>1 DEF Reverse
<1>8. \A i \in 1 .. s : (s - i) + 1 \in 1 .. s /\ (s - ((s - i) + 1)) + 1 = i
  OBVIOUS
<1>9. Reverse(v) \in Bytes(s)
  BY <1>1, <1>7, <1>8 DEF Bytes
<1>10. Reverse(Reverse(v)) = v
  <2>1. Reverse(Reverse(v)) = [i \in 1 .. s |-> Reverse(v)[(s - i) + 1]]
    <3>1. Len(Reverse(v)) = s
      BY <1>9, BytesLen
    <3> QED BY <3>1 DEF Reverse
  <2>2. \A i \in 1 .. s : Reverse(v)[(s - i) + 1] = v[i]
    BY <1>7, <1>8
  <2>3. v = [i \in 1 .. s |-> v[i]]
    BY DEF Bytes
  <2> QED BY <2>1, <2>2, <2>3
<1> QED BY <1>3, <1>4, <1>5, <1>6, <1>9, <1>10

(* The exclusive or of values undoes itself, and passes its assertion.     *)
Xor(v, w) == Bytewise(XorByte, v, w)
(* Either operand is recovered from the result and the other one.          *)
LEMMA Xors ==
  ASSUME NEW s \in Nat, NEW v \in Bytes(s), NEW w \in Bytes(s)
  PROVE  /\ Xor(v, w) \in Bytes(s) /\ Xor(Xor(v, w), w) = v /\ Xor(Xor(v, w), v) = w
         /\ \A i \in 1 .. s : Xor(v, w)[i] = v[i] <=> w[i] = 0
<1>1. DOMAIN v = 1 .. s /\ \A i \in 1 .. s : v[i] \in Byte /\ w[i] \in Byte
  BY BytesLen DEF Bytes
<1>2. Xor(v, w) = [i \in 1 .. s |-> XorByte(v[i], w[i])]
  BY <1>1 DEF Xor, Bytewise
<1>3. Xor(v, w) \in Bytes(s)
  BY <1>1, <1>2, ByteLogic DEF Bytes
<1>4. /\ Xor(Xor(v, w), w) = [i \in 1 .. s |-> XorByte(XorByte(v[i], w[i]), w[i])]
      /\ Xor(Xor(v, w), v) = [i \in 1 .. s |-> XorByte(XorByte(v[i], w[i]), v[i])]
  BY <1>2 DEF Xor, Bytewise
<1>5. v = [i \in 1 .. s |-> v[i]] /\ w = [i \in 1 .. s |-> w[i]]
  BY DEF Bytes
<1>6. \A i \in 1 .. s : /\ XorByte(XorByte(v[i], w[i]), w[i]) = v[i]
                        /\ XorByte(XorByte(v[i], w[i]), v[i]) = w[i]
                        /\ (XorByte(v[i], w[i]) = v[i] <=> w[i] = 0)
  BY <1>1, ByteLogic
<1>7. Xor(Xor(v, w), w) = v /\ Xor(Xor(v, w), v) = w
  BY <1>4, <1>5, <1>6
<1>8. \A i \in 1 .. s : Xor(v, w)[i] = v[i] <=> w[i] = 0
  BY <1>2, <1>6
<1> QED BY <1>3, <1>7, <1>8

(* Zeros, and nothing else, make zero. *)
LEMMA ZeroBytes ==
  ASSUME NEW s \in Nat, NEW w \in Bytes(s)
  PROVE  ToNum(w) = 0 <=> \A i \in 1 .. s : w[i] = 0
<1> DEFINE z == [i \in 1 .. s |-> 0]
<1>1. ToNum(z) = 0
  BY OperandsAssumption, ZeroNumber DEF ToNum
<1>2. z \in Bytes(s)
  BY OperandsAssumption DEF Bytes, Byte
<1>3. ToBytes(0, s) = z /\ ToBytes(ToNum(w), s) = w
  <2> HIDE DEF z
  <2> QED BY <1>1, <1>2, ByteNumbers
<1>4. w = z <=> \A i \in 1 .. s : w[i] = 0
  BY DEF Bytes
<1> HIDE DEF z
<1> QED BY <1>1, <1>3, <1>4

(* A sequence of bytes of some length. *)
LEMMA SeqBytes ==
  ASSUME NEW s \in Nat, NEW w \in Seq(Byte), Len(w) = s
  PROVE  w \in Bytes(s)
<1>1. w = [i \in 1 .. s |-> w[i]] /\ \A i \in 1 .. s : w[i] \in Byte
  OBVIOUS
<1> QED BY <1>1 DEF Bytes

(* The assertion of xor is kept by what it asserts.                        *)
LEMMA AssertedXor ==
  ASSUME NEW s \in {1, 2, 4, 8}, NEW v \in Bytes(s), NEW w \in Bytes(s)
  PROVE  asserted_xor(v, w, Xor(v, w))
<1> DEFINE u == Xor(v, w)
<1>1. u \in Bytes(s) /\ \A i \in 1 .. s : u[i] = v[i] <=> w[i] = 0
  BY Xors
<1>2. ASSUME NEW p \in Bytes(DW), NEW q \in Bytes(DW), NEW r \in Bytes(DW),
             \A i \in 1 .. DW : r[i] = p[i] <=> q[i] = 0
      PROVE  ToNum(q) # (IF r = p THEN 1 ELSE 0)
  <2>1. r = p <=> \A i \in 1 .. DW : r[i] = p[i]
    <3>1. r = [i \in 1 .. DW |-> r[i]] /\ p = [i \in 1 .. DW |-> p[i]]
      BY DEF Bytes
    <3> QED BY <3>1
  <2>2. ToNum(q) = 0 <=> \A i \in 1 .. DW : q[i] = 0
    BY ZeroBytes, OperandsAssumption
  <2>3. ToNum(q) = 0 <=> r = p
    BY <1>2, <2>1, <2>2
  <2> QED BY <2>3
<1>6. \A p, q, r \in Bytes(DW) : (\A i \in 1 .. DW : r[i] = p[i] <=> q[i] = 0)
        => ToNum(q) # (IF r = p THEN 1 ELSE 0)
  BY <1>2
<1> HIDE DEF u
<1>3. Len(v) = s
  BY BytesLen
<1>4. CASE s # 8
  <2>0. s <= DW /\ s \in Nat /\ DW \in Nat
    BY <1>4, WordAssumption
  <2>1. \A y \in Bytes(s) : Fit(y, DW) = Wide(y, s, DW, 0) /\ Fit(y, DW) \in Bytes(DW)
    BY <2>0, Widths, Fits
  <2> DEFINE p == Fit(v, DW)
             q == Fit(w, DW)
             r == Fit(u, DW)
  <2>2. /\ p = [i \in 1 .. DW |-> IF i <= s THEN v[i] ELSE 0]
        /\ q = [i \in 1 .. DW |-> IF i <= s THEN w[i] ELSE 0]
        /\ r = [i \in 1 .. DW |-> IF i <= s THEN u[i] ELSE 0]
        /\ p \in Bytes(DW) /\ q \in Bytes(DW) /\ r \in Bytes(DW)
    BY <1>1, <2>1 DEF Wide
  <2>3. DwordsAt(v, w, u) = {<<p, q, r>>}
    BY <1>3, <2>0 DEF DwordsAt
  <2> HIDE DEF p, q, r
  <2>4. \A i \in 1 .. DW : r[i] = p[i] <=> q[i] = 0
    BY <1>1, <2>0, <2>2
  <2>5. ToNum(q) # (IF r = p THEN 1 ELSE 0)
    <3>1. p \in Bytes(DW) /\ q \in Bytes(DW) /\ r \in Bytes(DW)
      BY <2>2
    <3> QED BY <1>6, <2>4, <3>1
  <2> QED BY <2>3, <2>5 DEF asserted_xor, u
<1>5. CASE s = 8
  <2> DEFINE part(y, i) == SubSeq(y, i, i + DW - 1)
  <2>1. ASSUME NEW y \in Bytes(8), NEW i \in {1, DW + 1}
        PROVE  part(y, i) = [j \in 1 .. DW |-> y[i + j - 1]] /\ part(y, i) \in Bytes(DW)
    <3>1. y \in Seq(Byte) /\ Len(y) = 8 /\ \A j \in 1 .. 8 : y[j] \in Byte
      BY BytesLen DEF Bytes
    <3>2. part(y, i) = [j \in 1 .. DW |-> y[i + j - 1]]
      BY <3>1, WordAssumption
    <3>3. \A j \in 1 .. DW : i + j - 1 \in 1 .. 8
      BY WordAssumption
    <3> HIDE DEF part
    <3> QED BY <3>1, <3>2, <3>3 DEF Bytes
  <2>2. DwordsAt(v, w, u) = {<<part(v, i), part(w, i), part(u, i)>> : i \in {1, DW + 1}}
    BY <1>3, <1>5, WordAssumption DEF DwordsAt
  <2> HIDE DEF part
  <2>3. ASSUME NEW i \in {1, DW + 1}
        PROVE  ToNum(part(w, i)) # (IF part(u, i) = part(v, i) THEN 1 ELSE 0)
    <3>1. \A y \in {u, v, w} : part(y, i) = [j \in 1 .. DW |-> y[i + j - 1]]
                               /\ part(y, i) \in Bytes(DW)
      BY <1>1, <1>5, <2>1
    <3>2. \A j \in 1 .. DW : i + j - 1 \in 1 .. s
      BY <1>5, WordAssumption
    <3>3. \A j \in 1 .. DW : part(u, i)[j] = part(v, i)[j] <=> part(w, i)[j] = 0
      BY <1>1, <3>1, <3>2
    <3> DEFINE p == part(v, i)
               q == part(w, i)
               r == part(u, i)
    <3>4. p \in Bytes(DW) /\ q \in Bytes(DW) /\ r \in Bytes(DW)
      BY <3>1
    <3>5. \A j \in 1 .. DW : r[j] = p[j] <=> q[j] = 0
      BY <3>3
    <3> HIDE DEF p, q, r
    <3>6. ToNum(q) # (IF r = p THEN 1 ELSE 0)
      BY <1>6, <3>4, <3>5
    <3> QED BY <3>6 DEF p, q, r
  <2> QED BY <2>2, <2>3 DEF asserted_xor, u
<1> QED BY <1>4, <1>5

(* One sequence of bytes after another. *)
LEMMA Appended ==
  ASSUME NEW a \in Seq(Byte), NEW b \in Seq(Byte)
  PROVE  \E w : /\ w = a \o b /\ w \in Seq(Byte) /\ Len(w) = Len(a) + Len(b)
                /\ \A i \in 1 .. Len(a) + Len(b) :
                     w[i] = IF i <= Len(a) THEN a[i] ELSE b[i - Len(a)]
<1>1. /\ a \o b \in Seq(Byte) /\ Len(a \o b) = Len(a) + Len(b)
      /\ \A i \in 1 .. Len(a) + Len(b) :
           (a \o b)[i] = IF i <= Len(a) THEN a[i] ELSE b[i - Len(a)]
  BY ConcatProperties
<1> QED BY <1>1

(* The halves of a vector.                                                 *)
LEMMA Halves ==
  ASSUME NEW a \in Bytes(DW), NEW b \in Bytes(DW)
  PROVE  a \o b \in Bytes(2 * DW) /\ LowHalf(a \o b) = a /\ HighHalf(a \o b) = b
<1>1. a \in Seq(Byte) /\ b \in Seq(Byte) /\ Len(a) = 4 /\ Len(b) = 4 /\ DW = 4
  BY BytesLen, WordAssumption
<1>0. PICK w : /\ w = a \o b /\ w \in Seq(Byte) /\ Len(w) = Len(a) + Len(b)
               /\ \A i \in 1 .. Len(a) + Len(b) :
                    w[i] = IF i <= Len(a) THEN a[i] ELSE b[i - Len(a)]
  BY <1>1, Appended
<1>2. /\ w \in Seq(Byte) /\ Len(w) = 8
      /\ \A i \in 1 .. 4 : w[i] = a[i] /\ w[4 + i] = b[i]
  <2>1. /\ w \in Seq(Byte) /\ Len(w) = 8
        /\ \A i \in 1 .. 4 : w[i] = a[i]
        /\ \A i \in 5 .. 8 : w[i] = b[i - 4]
    <3>1. /\ w \in Seq(Byte) /\ Len(w) = 4 + 4
          /\ \A i \in 1 .. 4 + 4 : w[i] = IF i <= 4 THEN a[i] ELSE b[i - 4]
      BY <1>0, <1>1
    <3>2. \A i \in 5 .. 8 : ~ (i <= 4) /\ i \in 1 .. 8
      OBVIOUS
    <3> QED BY <3>1, <3>2
  <2>2. \A i \in 1 .. 4 : 4 + i \in 5 .. 8 /\ 4 + i - 4 = i
    OBVIOUS
  <2> QED BY <2>1, <2>2
<1>3. a = [i \in 1 .. 4 |-> a[i]] /\ b = [i \in 1 .. 4 |-> b[i]]
  BY <1>1
<1>4. w \in Bytes(8)
  BY <1>2, SeqBytes
<1>5. SubSeq(w, 1, 4) = [i \in 1 .. 4 |-> w[i]] /\ SubSeq(w, 5, 8) = [i \in 1 .. 4 |-> w[4 + i]]
  BY <1>2
<1>6. LowHalf(w) = a
  BY <1>1, <1>2, <1>3, <1>5 DEF LowHalf
<1>7. HighHalf(w) = b
  BY <1>1, <1>2, <1>3, <1>5 DEF HighHalf
<1> QED BY <1>0, <1>1, <1>4, <1>6, <1>7

(* The halves of a vector register are double words.                       *)
LEMMA HalvesOf ==
  ASSUME NEW v \in Bytes(2 * DW)
  PROVE  LowHalf(v) \in Bytes(DW) /\ HighHalf(v) \in Bytes(DW) /\ FirstDword(v) \in Bytes(2 * DW)
<1>0. v \in Bytes(8)
  BY WordAssumption
<1>1. v \in Seq(Byte) /\ Len(v) = 8 /\ DW = 4 /\ \A i \in 1 .. 8 : v[i] \in Byte
  BY <1>0, BytesLen, WordAssumption DEF Bytes
<1>2. SubSeq(v, 1, 4) = [i \in 1 .. 4 |-> v[i]] /\ SubSeq(v, 5, 8) = [i \in 1 .. 4 |-> v[4 + i]]
  BY <1>1
<1>3. LowHalf(v) \in Bytes(DW) /\ HighHalf(v) \in Bytes(DW)
  <2>1. \A i \in 1 .. 4 : i \in 1 .. 8 /\ 4 + i \in 1 .. 8
    OBVIOUS
  <2>2. LowHalf(v) = SubSeq(v, 1, 4) /\ HighHalf(v) = SubSeq(v, 5, 8)
    BY <1>1 DEF LowHalf, HighHalf
  <2>3. [i \in 1 .. 4 |-> v[i]] \in [1 .. 4 -> Byte]
        /\ [i \in 1 .. 4 |-> v[4 + i]] \in [1 .. 4 -> Byte]
    BY <1>1, <2>1
  <2> QED BY <1>1, <1>2, <2>2, <2>3 DEF Bytes
<1>4. LowHalf(v) \o LowHalf(v) \in Bytes(2 * DW)
  BY <1>3, Halves
<1> QED BY <1>3, <1>4 DEF FirstDword

(* The window that palignr takes of two vectors. *)
LEMMA Window ==
  ASSUME NEW v \in Bytes(2 * DW), NEW a \in Bytes(2 * DW), NEW n \in 0 .. 2 * DW
  PROVE  SubSeq(v \o a, n + 1, n + 2 * DW) \in Bytes(2 * DW)
<1>0. v \in Bytes(8) /\ a \in Bytes(8) /\ DW = 4 /\ n \in 0 .. 8
  BY WordAssumption
<1>1. v \in Seq(Byte) /\ a \in Seq(Byte) /\ Len(v) = 8 /\ Len(a) = 8 /\ DW = 4
  BY <1>0, BytesLen
<1>7. PICK w : /\ w = v \o a /\ w \in Seq(Byte) /\ Len(w) = Len(v) + Len(a)
               /\ \A i \in 1 .. Len(v) + Len(a) :
                    w[i] = IF i <= Len(v) THEN v[i] ELSE a[i - Len(v)]
  BY <1>1, Appended
<1>2. w \in Seq(Byte) /\ Len(w) = 16 /\ \A i \in 1 .. 16 : w[i] \in Byte
  <2>1. w \in Seq(Byte) /\ Len(w) = 16
    BY <1>1, <1>7
  <2>2. w \in Bytes(16)
    BY <2>1, SeqBytes
  <2> QED BY <2>1, <2>2 DEF Bytes
<1>3. \A i \in n + 1 .. n + 8 : w[i] \in Byte
  <2>1. \A i \in n + 1 .. n + 8 : i \in 1 .. 16
    BY <1>0
  <2> QED BY <1>2, <2>1
<1>4. SubSeq(w, n + 1, n + 8) \in Seq(Byte) /\ Len(SubSeq(w, n + 1, n + 8)) = 8
  <2>1. n + 1 \in Int /\ n + 8 \in Int /\ n + 1 <= n + 8 /\ n + 8 - (n + 1) + 1 = 8
    BY <1>0
  <2> DEFINE m == n + 1
             k == n + 8
  <2> HIDE DEF m, k
  <2>2. SubSeq(w, m, k) \in Seq(Byte) /\ Len(SubSeq(w, m, k)) = IF m <= k THEN k - m + 1 ELSE 0
    BY <1>3, <2>1, SubSeqProperties DEF m, k
  <2>3. m <= k /\ k - m + 1 = 8
    BY <2>1 DEF m, k
  <2> QED BY <2>2, <2>3 DEF m, k
<1>5. SubSeq(w, n + 1, n + 8) \in Bytes(8)
  BY <1>4, SeqBytes
<1>6. 2 * DW = 8
  BY <1>0
<1> QED BY <1>5, <1>6, <1>7

(* The mask of the signs of a vector. *)
LEMMA Masks == ASSUME NEW s \in Nat, NEW v \in Bytes(s) PROVE Mask(v) \in Bytes(DW)
<1> DEFINE u == [k \in 1 .. s |-> IF 2 * v[k] >= Radix THEN 1 ELSE 0]
<1>1. u \in [1 .. s -> Int] /\ DOMAIN v = 1 .. s
  BY BytesLen
<1>2. Number(u, 2) \in Int
  <2> HIDE DEF u
  <2>1. 2 \in Nat \ {0}
    OBVIOUS
  <2> QED BY <1>1, <2>1, NumberStep
<1>3. Mask(v) = ToBytes(Number(u, 2), DW)
  BY <1>1 DEF Mask
<1> QED BY <1>2, <1>3, ByteNumbers, OperandsAssumption

(***************************************************************************)
(* The nodes of a handler.                                                 *)
(***************************************************************************)
(* The nodes of a kind up to each place are those up to the place before,  *)
(* and the node there if it is of the kind.                                *)
First(nodes, kind) ==
  CHOOSE first : first = [n \in 0 .. Len(nodes) |->
    IF n = 0 THEN <<>>
    ELSE IF nodes[n].node = kind THEN Append(first[n - 1], nodes[n]) ELSE first[n - 1]]
(* The nodes of a kind are picked out one node after another.              *)
LEMMA FirstUnfolds ==
  ASSUME NEW T, NEW nodes \in Seq(T), NEW kind
  PROVE  /\ First(nodes, kind)[0] = <<>>
         /\ \A n \in 1 .. Len(nodes) : First(nodes, kind)[n] =
              IF nodes[n].node = kind THEN Append(First(nodes, kind)[n - 1], nodes[n])
              ELSE First(nodes, kind)[n - 1]
         /\ OfKind(nodes, kind) = First(nodes, kind)[Len(nodes)]
<1> DEFINE len == Len(nodes)
           step == [k \in 1 .. len |-> [y \in Seq(T) |->
                      IF nodes[k].node = kind THEN Append(y, nodes[k]) ELSE y]]
           Is(f) == f = [n \in 0 .. len |->
                      IF n = 0 THEN <<>>
                      ELSE IF nodes[n].node = kind THEN Append(f[n - 1], nodes[n]) ELSE f[n - 1]]
<1>1. len \in Nat /\ <<>> \in Seq(T) /\ \A k \in 1 .. len : nodes[k] \in T
  OBVIOUS
<1>2. \A k \in 1 .. len : \A y \in Seq(T) : step[k][y] \in Seq(T)
  BY <1>1
<1>3. PICK g : Unfolds(g, len, <<>>, step)
  <2> HIDE DEF step, len
  <2> QED BY <1>1, <1>2, Recursion
<1>4. g \in [0 .. len -> Seq(T)]
  <2> HIDE DEF step, len
  <2> QED BY <1>1, <1>2, <1>3, Recursion
<1>5. Is(g)
  <2>1. \A n \in 0 .. len : n # 0 => n \in 1 .. len /\ g[n - 1] \in Seq(T)
    <3> HIDE DEF len
    <3>1. \A n \in 0 .. len : n # 0 => n \in 1 .. len /\ n - 1 \in 0 .. len
      BY <1>1
    <3>2. \A n \in 0 .. len : g[n] \in Seq(T)
      BY <1>4
    <3> QED BY <3>1, <3>2
  <2> HIDE DEF len
  <2>2. \A n \in 0 .. len : n # 0 => step[n][g[n - 1]] =
          IF nodes[n].node = kind THEN Append(g[n - 1], nodes[n]) ELSE g[n - 1]
    BY <2>1
  <2> HIDE DEF step
  <2> QED BY <1>3, <2>2 DEF Unfolds
<1>6. Is(First(nodes, kind))
  BY <1>5 DEF First
<1> DEFINE f == First(nodes, kind)
<1>7. OfKind(nodes, kind) = f[Len(nodes)]
  BY DEF OfKind, First
<1> HIDE DEF f
<1>8. /\ f[0] = <<>>
      /\ \A n \in 1 .. len : f[n] = IF nodes[n].node = kind THEN Append(f[n - 1], nodes[n])
                             ELSE f[n - 1]
  <2>0. Is(f)
    BY <1>6 DEF f
  <2> HIDE DEF len
  <2>1. 0 \in 0 .. len /\ \A n \in 1 .. len : n \in 0 .. len /\ n # 0
    BY <1>1
  <2> QED BY <2>0, <2>1
<1> QED BY <1>7, <1>8 DEF f

(* One node more. *)
LEMMA OfKindMore ==
  ASSUME NEW T, NEW nodes \in Seq(T), NEW e, NEW kind
  PROVE  /\ OfKind(<<>>, kind) = <<>>
         /\ OfKind(Append(nodes, e), kind) =
              IF e.node = kind THEN Append(OfKind(nodes, kind), e) ELSE OfKind(nodes, kind)
<1>1. OfKind(<<>>, kind) = <<>>
  <2>0. <<>> \in Seq(T) /\ Len(<<>>) = 0
    OBVIOUS
  <2>1. PICK none : none = <<>> /\ none \in Seq(T) /\ Len(none) = 0
    BY <2>0
  <2>2. OfKind(none, kind) = First(none, kind)[0] /\ First(none, kind)[0] = <<>>
    BY <2>1, FirstUnfolds
  <2> QED BY <2>1, <2>2
<1> DEFINE more == Append(nodes, e)
           f == First(nodes, kind)
           g == First(more, kind)
           len == Len(nodes)
<1>2. /\ more \in Seq(T \cup {e}) /\ Len(more) = len + 1 /\ len \in Nat
      /\ more[len + 1] = e /\ \A n \in 1 .. len : more[n] = nodes[n]
  OBVIOUS
<1> HIDE DEF more
<1>3. /\ f[0] = <<>> /\ OfKind(nodes, kind) = f[len]
      /\ \A n \in 1 .. len : f[n] = IF nodes[n].node = kind THEN Append(f[n - 1], nodes[n])
                             ELSE f[n - 1]
  BY FirstUnfolds
<1>4. /\ g[0] = <<>> /\ OfKind(more, kind) = g[len + 1]
      /\ \A n \in 1 .. len + 1 : g[n] = IF more[n].node = kind THEN Append(g[n - 1], more[n])
                                 ELSE g[n - 1]
  BY <1>2, FirstUnfolds
<1> HIDE DEF f, g, len
<1> DEFINE N == {n \in Nat : n <= len => g[n] = f[n]}
<1>5. 0 \in N
  BY <1>3, <1>4
<1>6. ASSUME NEW n \in N PROVE n + 1 \in N
  <2> SUFFICES ASSUME n + 1 <= len PROVE g[n + 1] = f[n + 1]
    OBVIOUS
  <2>1. n \in Nat /\ g[n] = f[n] /\ n + 1 \in 1 .. len /\ n + 1 \in 1 .. len + 1 /\ n + 1 - 1 = n
    BY <1>2
  <2>2. more[n + 1] = nodes[n + 1]
    BY <1>2, <2>1
  <2> HIDE DEF N
  <2>3. f[n + 1] = IF nodes[n + 1].node = kind THEN Append(f[n], nodes[n + 1]) ELSE f[n]
    BY <1>3, <2>1
  <2>4. g[n + 1] = IF more[n + 1].node = kind THEN Append(g[n], more[n + 1]) ELSE g[n]
    BY <1>4, <2>1
  <2> QED BY <2>1, <2>2, <2>3, <2>4
<1>7. N \in SUBSET Nat
  OBVIOUS
<1>8. g[len] = f[len]
  <2> HIDE DEF N
  <2>1. N = Nat
    BY <1>5, <1>6, <1>7, SetInduction
  <2> QED BY <1>2, <2>1 DEF N
<1>9. g[len + 1] = IF e.node = kind THEN Append(g[len], e) ELSE g[len]
  <2>1. len + 1 \in 1 .. len + 1 /\ len + 1 - 1 = len
    BY <1>2
  <2> QED BY <1>2, <1>4, <2>1
<1>10. OfKind(more, kind) = IF e.node = kind THEN Append(OfKind(nodes, kind), e)
       ELSE OfKind(nodes, kind)
  BY <1>3, <1>4, <1>8, <1>9
<1> QED BY <1>1, <1>10 DEF more

(* Tuples, one element more. *)
LEMMA Tuples ==
  ASSUME NEW a, NEW b, NEW c, NEW d
  PROVE  /\ Append(<<>>, a) = <<a>> /\ Append(<<a>>, b) = <<a, b>>
         /\ Append(<<a, b>>, c) = <<a, b, c>> /\ Append(<<a, b, c>>, d) = <<a, b, c, d>>
<1>1. Append(<<>>, a) = <<a>>
  <2> DEFINE s == Append(<<>>, a)
  <2>1. s \in Seq({a}) /\ Len(s) = 1 /\ s[1] = a
    OBVIOUS
  <2> HIDE DEF s
  <2>2. s = <<a>>
    BY <2>1
  <2> QED BY <2>2 DEF s
<1>2. Append(<<a>>, b) = <<a, b>>
  <2> DEFINE s == Append(<<a>>, b)
  <2>1. s \in Seq({a, b}) /\ Len(s) = 2 /\ s[1] = a /\ s[2] = b
    OBVIOUS
  <2> HIDE DEF s
  <2>2. s = <<a, b>>
    BY <2>1
  <2> QED BY <2>2 DEF s
<1>3. Append(<<a, b>>, c) = <<a, b, c>>
  <2> DEFINE s == Append(<<a, b>>, c)
  <2>1. s \in Seq({a, b, c}) /\ Len(s) = 3 /\ s[1] = a /\ s[2] = b /\ s[3] = c
    OBVIOUS
  <2> HIDE DEF s
  <2>2. s = <<a, b, c>>
    BY <2>1
  <2> QED BY <2>2 DEF s
<1>4. Append(<<a, b, c>>, d) = <<a, b, c, d>>
  <2> DEFINE s == Append(<<a, b, c>>, d)
  <2>1. s \in Seq({a, b, c, d}) /\ Len(s) = 4 /\ s[1] = a /\ s[2] = b /\ s[3] = c /\ s[4] = d
    OBVIOUS
  <2> HIDE DEF s
  <2>2. s = <<a, b, c, d>>
    BY <2>1
  <2> QED BY <2>2 DEF s
<1> QED BY <1>1, <1>2, <1>3, <1>4

(* A handler makes these defines and these uses, asserts nothing, and has  *)
(* every address split.                                                    *)
Operands1(nodes) == {nodes[n].o : n \in {m \in DOMAIN nodes : nodes[m].node \in {"def", "use"}}}
SplitAll(nodes) ==
  \A n \in DOMAIN nodes :
    nodes[n].node \in {"def", "use"} /\ nodes[n].o.t = "mem" =>
      n < Len(nodes) /\ nodes[n + 1] = Split(nodes[n].o)
Made(nodes, defs, uses) ==
  /\ \E T : nodes \in Seq(T) /\ defs \in Seq(T) /\ uses \in Seq(T)
  /\ OfKind(nodes, "def") = defs /\ OfKind(nodes, "use") = uses
  /\ OfKind(nodes, "assert") = <<>>
  /\ \A j \in DOMAIN defs : defs[j].node = "def" /\ defs[j].o \in Operands1(nodes)
  /\ \A k \in DOMAIN uses : uses[k].node = "use" /\ uses[k].o \in Operands1(nodes)
Complete(nodes, defs, uses) == Made(nodes, defs, uses) /\ SplitAll(nodes)

(* What a handler that has made nothing yet has made. *)
LEMMA MadeNone == Complete(<<>>, <<>>, <<>>)
<1>1. \A kind : OfKind(<<>>, kind) = <<>>
  <2>1. <<>> \in Seq({})
    OBVIOUS
  <2> QED BY <2>1, OfKindMore
<1>2. \E T : <<>> \in Seq(T)
  OBVIOUS
<1>3. DOMAIN <<>> = {}
  OBVIOUS
<1> QED BY <1>1, <1>2, <1>3 DEF Complete, Made, SplitAll

(* One node more. *)
LEMMA MadeMore ==
  ASSUME NEW nodes, NEW defs, NEW uses, Made(nodes, defs, uses), NEW e
  PROVE  /\ e.node = "def" => Made(Append(nodes, e), Append(defs, e), uses)
         /\ e.node = "use" => Made(Append(nodes, e), defs, Append(uses, e))
         /\ e.node = "split" => Made(Append(nodes, e), defs, uses)
<1>1. PICK T : nodes \in Seq(T) /\ defs \in Seq(T) /\ uses \in Seq(T)
  BY DEF Made
<1> DEFINE more == Append(nodes, e)
<1>2. \A kind : OfKind(more, kind) = IF e.node = kind THEN Append(OfKind(nodes, kind), e)
                                     ELSE OfKind(nodes, kind)
  BY <1>1, OfKindMore
<1>3. /\ more \in Seq(T \cup {e}) /\ defs \in Seq(T \cup {e}) /\ uses \in Seq(T \cup {e})
      /\ DOMAIN more = 1 .. Len(nodes) + 1 /\ DOMAIN nodes = 1 .. Len(nodes) /\ Len(nodes) \in Nat
      /\ more[Len(nodes) + 1] = e /\ \A n \in DOMAIN nodes : more[n] = nodes[n]
  BY <1>1
<1>4. Append(defs, e) \in Seq(T \cup {e}) /\ Append(uses, e) \in Seq(T \cup {e})
  BY <1>1
<1> HIDE DEF more
<1>5. Operands1(nodes) \subseteq Operands1(more)
  BY <1>3 DEF Operands1
<1>6. e.node \in {"def", "use"} => e.o \in Operands1(more)
  BY <1>3 DEF Operands1
<1>7. \A s : s \in Seq(T) =>
        \A k \in DOMAIN Append(s, e) :
          Append(s, e)[k] = e \/ (k \in DOMAIN s /\ Append(s, e)[k] = s[k])
  <2> SUFFICES ASSUME NEW s \in Seq(T), NEW k \in DOMAIN Append(s, e)
               PROVE  Append(s, e)[k] = e \/ (k \in DOMAIN s /\ Append(s, e)[k] = s[k])
    OBVIOUS
  <2>1. /\ DOMAIN Append(s, e) = 1 .. Len(s) + 1 /\ DOMAIN s = 1 .. Len(s) /\ Len(s) \in Nat
        /\ Append(s, e)[Len(s) + 1] = e /\ \A n \in 1 .. Len(s) : Append(s, e)[n] = s[n]
    OBVIOUS
  <2>2. k = Len(s) + 1 \/ k \in 1 .. Len(s)
    BY <2>1
  <2> QED BY <2>1, <2>2
<1>8. ASSUME e.node = "def" PROVE Made(more, Append(defs, e), uses)
  <2>1. \A j \in DOMAIN Append(defs, e) :
          Append(defs, e)[j].node = "def" /\ Append(defs, e)[j].o \in Operands1(more)
    BY <1>1, <1>5, <1>6, <1>7, <1>8 DEF Made
  <2>2. \A k \in DOMAIN uses : uses[k].node = "use" /\ uses[k].o \in Operands1(more)
    BY <1>5 DEF Made
  <2>3. OfKind(more, "def") = Append(defs, e) /\ OfKind(more, "use") = uses
        /\ OfKind(more, "assert") = <<>>
    BY <1>2, <1>8 DEF Made
  <2> QED BY <1>3, <1>4, <2>1, <2>2, <2>3 DEF Made
<1>9. ASSUME e.node = "use" PROVE Made(more, defs, Append(uses, e))
  <2>1. \A j \in DOMAIN Append(uses, e) :
          Append(uses, e)[j].node = "use" /\ Append(uses, e)[j].o \in Operands1(more)
    BY <1>1, <1>5, <1>6, <1>7, <1>9 DEF Made
  <2>2. \A k \in DOMAIN defs : defs[k].node = "def" /\ defs[k].o \in Operands1(more)
    BY <1>5 DEF Made
  <2>3. OfKind(more, "def") = defs /\ OfKind(more, "use") = Append(uses, e)
        /\ OfKind(more, "assert") = <<>>
    BY <1>2, <1>9 DEF Made
  <2> QED BY <1>3, <1>4, <2>1, <2>2, <2>3 DEF Made
<1>10. ASSUME e.node = "split" PROVE Made(more, defs, uses)
  <2>1. \A j \in DOMAIN uses : uses[j].node = "use" /\ uses[j].o \in Operands1(more)
    BY <1>5 DEF Made
  <2>2. \A k \in DOMAIN defs : defs[k].node = "def" /\ defs[k].o \in Operands1(more)
    BY <1>5 DEF Made
  <2>3. OfKind(more, "def") = defs /\ OfKind(more, "use") = uses /\ OfKind(more, "assert") = <<>>
    BY <1>2, <1>10 DEF Made
  <2> QED BY <1>3, <2>1, <2>2, <2>3 DEF Made
<1> QED BY <1>8, <1>9, <1>10 DEF more

(* One chunk of a handler more: an operand, with its address split if it   *)
(* is a memory operand.                                                    *)
LEMMA ChunkMore ==
  ASSUME NEW nodes, NEW defs, NEW uses, Complete(nodes, defs, uses), NEW e,
         e.node \in {"def", "use"}
  PROVE  /\ e.o.t # "mem" /\ e.node = "def" => Complete(nodes \o <<e>>, Append(defs, e), uses)
         /\ e.o.t # "mem" /\ e.node = "use" => Complete(nodes \o <<e>>, defs, Append(uses, e))
         /\ e.o.t = "mem" /\ e.node = "def" =>
              Complete(nodes \o <<e, Split(e.o)>>, Append(defs, e), uses)
         /\ e.o.t = "mem" /\ e.node = "use" =>
              Complete(nodes \o <<e, Split(e.o)>>, defs, Append(uses, e))
<1> DEFINE sp == Split(e.o)
           one == Append(nodes, e)
           two == Append(one, sp)
           len == Len(nodes)
<1>1. PICK T : nodes \in Seq(T) /\ defs \in Seq(T) /\ uses \in Seq(T)
  BY DEF Complete, Made
<1>2. nodes \o <<e>> = one
  BY <1>1
<1>3. one \in Seq(T \cup {e})
  BY <1>1
<1>4. nodes \o <<e, sp>> = two
  <2> HIDE DEF sp
  <2>1. Append(<<e>>, sp) = <<e, sp>>
    BY Tuples
  <2>3. <<e>> \in Seq({e})
    OBVIOUS
  <2>2. nodes \o Append(<<e>>, sp) = Append(nodes \o <<e>>, sp)
    BY <1>1, <2>3
  <2> QED BY <1>2, <2>1, <2>2
<1>5. sp.node = "split"
  BY DEF Split
<1>6. /\ len \in Nat /\ Len(one) = len + 1 /\ Len(two) = len + 2
      /\ DOMAIN nodes = 1 .. len /\ DOMAIN one = 1 .. len + 1 /\ DOMAIN two = 1 .. len + 2
      /\ one[len + 1] = e /\ two[len + 1] = e /\ two[len + 2] = sp
      /\ \A n \in 1 .. len : one[n] = nodes[n] /\ two[n] = nodes[n]
  <2> HIDE DEF sp
  <2>1. /\ len \in Nat /\ Len(one) = len + 1 /\ DOMAIN nodes = 1 .. len /\ DOMAIN one = 1 .. len + 1
        /\ one[len + 1] = e /\ \A n \in 1 .. len : one[n] = nodes[n]
    BY <1>1
  <2> HIDE DEF one
  <2>2. /\ Len(two) = Len(one) + 1 /\ DOMAIN two = 1 .. Len(one) + 1 /\ two[Len(one) + 1] = sp
        /\ \A n \in 1 .. Len(one) : two[n] = one[n]
    BY <1>3
  <2> HIDE DEF two, len
  <2>3. len + 1 + 1 = len + 2 /\ len + 1 \in 1 .. len + 1 /\ \A n \in 1 .. len : n \in 1 .. len + 1
    BY <2>1
  <2> QED BY <2>1, <2>2, <2>3
<1>7. SplitAll(nodes) /\ Made(nodes, defs, uses)
  BY DEF Complete
<1>8. /\ e.node = "def" => Made(one, Append(defs, e), uses)
      /\ e.node = "use" => Made(one, defs, Append(uses, e))
  BY <1>7, MadeMore
<1>9. /\ e.node = "def" => Made(two, Append(defs, e), uses)
      /\ e.node = "use" => Made(two, defs, Append(uses, e))
  BY <1>5, <1>8, MadeMore
<1> HIDE DEF one, two, len
<1>10. ASSUME e.o.t # "mem" PROVE SplitAll(one)
  <2> SUFFICES ASSUME NEW n \in DOMAIN one, one[n].node \in {"def", "use"}, one[n].o.t = "mem"
               PROVE  n < Len(one) /\ one[n + 1] = Split(one[n].o)
    BY DEF SplitAll
  <2>1. n \in 1 .. len /\ one[n] = nodes[n]
    BY <1>6, <1>10
  <2>2. n < len /\ nodes[n + 1] = Split(nodes[n].o)
    BY <1>6, <1>7, <2>1 DEF SplitAll, len
  <2>3. n + 1 \in 1 .. len
    BY <1>6, <2>1, <2>2
  <2> QED BY <1>6, <2>1, <2>2, <2>3
<1>11. ASSUME e.o.t = "mem" PROVE SplitAll(two)
  <2> SUFFICES ASSUME NEW n \in DOMAIN two, two[n].node \in {"def", "use"}, two[n].o.t = "mem"
               PROVE  n < Len(two) /\ two[n + 1] = Split(two[n].o)
    BY DEF SplitAll
  <2>1. CASE n \in 1 .. len
    <3>2. n < len /\ nodes[n + 1] = Split(nodes[n].o)
      BY <1>6, <1>7, <2>1 DEF SplitAll, len
    <3>3. n + 1 \in 1 .. len
      BY <1>6, <2>1, <3>2
    <3> QED BY <1>6, <2>1, <3>2, <3>3
  <2>2. CASE n = len + 1
    <3>1. len + 1 + 1 = len + 2 /\ len + 1 < len + 2
      BY <1>6
    <3> QED BY <1>6, <2>2, <3>1
  <2>3. n # len + 2
    BY <1>5, <1>6
  <2> QED BY <1>6, <2>1, <2>2, <2>3
<1> QED BY <1>2, <1>4, <1>8, <1>9, <1>10, <1>11 DEF Complete

(* A handler that has made some nodes makes more. *)
LEMMA MadeThen ==
  ASSUME NEW nodes, NEW defs, NEW uses, Complete(nodes, defs, uses)
  PROVE  /\ \A o : Complete(nodes \o DefineAt(o), Append(defs, Define(o)), uses)
         /\ \A o : Complete(nodes \o UseAt(o), defs, Append(uses, Use(o)))
         /\ \A o : o.t # "mem" => Complete(nodes \o <<Define(o)>>, Append(defs, Define(o)), uses)
         /\ \A o : o.t # "mem" => Complete(nodes \o <<Use(o)>>, defs, Append(uses, Use(o)))
         /\ \A o, v : o.t # "mem" =>
              Complete(nodes \o <<DefineAs(o, v)>>, Append(defs, DefineAs(o, v)), uses)
         /\ \A o, v : o.t = "mem" =>
              Complete(nodes \o <<DefineAs(o, v), Split(o)>>, Append(defs, DefineAs(o, v)), uses)
<1>1. \A o, v : /\ DefineAs(o, v).node = "def" /\ DefineAs(o, v).o = o
               /\ Define(o).node = "def" /\ Define(o).o = o /\ Use(o).node = "use" /\ Use(o).o = o
  BY DEF Define, DefineAs, Use
<1>2. \A o : o.t # "mem" => Complete(nodes \o <<Define(o)>>, Append(defs, Define(o)), uses)
  <2> SUFFICES ASSUME NEW o, o.t # "mem"
               PROVE  Complete(nodes \o <<Define(o)>>, Append(defs, Define(o)), uses)
    OBVIOUS
  <2>1. PICK e : e = Define(o)
    OBVIOUS
  <2>2. e.node = "def" /\ e.node \in {"def", "use"} /\ e.o = o /\ e.o.t # "mem"
    BY <1>1, <2>1
  <2>4. /\ e.o.t # "mem" /\ e.node = "def" => Complete(nodes \o <<e>>, Append(defs, e), uses)
        /\ e.o.t # "mem" /\ e.node = "use" => Complete(nodes \o <<e>>, defs, Append(uses, e))
        /\ e.o.t = "mem" /\ e.node = "def" =>
             Complete(nodes \o <<e, Split(e.o)>>, Append(defs, e), uses)
        /\ e.o.t = "mem" /\ e.node = "use" =>
             Complete(nodes \o <<e, Split(e.o)>>, defs, Append(uses, e))
    BY <2>2, ChunkMore
  <2>3. Complete(nodes \o <<e>>, Append(defs, e), uses)
    BY <2>2, <2>4
  <2> QED BY <2>1, <2>3
<1>3. \A o : o.t # "mem" => Complete(nodes \o <<Use(o)>>, defs, Append(uses, Use(o)))
  <2> SUFFICES ASSUME NEW o, o.t # "mem"
               PROVE  Complete(nodes \o <<Use(o)>>, defs, Append(uses, Use(o)))
    OBVIOUS
  <2>1. PICK e : e = Use(o)
    OBVIOUS
  <2>2. e.node = "use" /\ e.node \in {"def", "use"} /\ e.o = o /\ e.o.t # "mem"
    BY <1>1, <2>1
  <2>4. /\ e.o.t # "mem" /\ e.node = "def" => Complete(nodes \o <<e>>, Append(defs, e), uses)
        /\ e.o.t # "mem" /\ e.node = "use" => Complete(nodes \o <<e>>, defs, Append(uses, e))
        /\ e.o.t = "mem" /\ e.node = "def" =>
             Complete(nodes \o <<e, Split(e.o)>>, Append(defs, e), uses)
        /\ e.o.t = "mem" /\ e.node = "use" =>
             Complete(nodes \o <<e, Split(e.o)>>, defs, Append(uses, e))
    BY <2>2, ChunkMore
  <2>3. Complete(nodes \o <<e>>, defs, Append(uses, e))
    BY <2>2, <2>4
  <2> QED BY <2>1, <2>3
<1>4. \A o, v : o.t # "mem" =>
        Complete(nodes \o <<DefineAs(o, v)>>, Append(defs, DefineAs(o, v)), uses)
  <2> SUFFICES ASSUME NEW o, NEW v, o.t # "mem"
               PROVE  Complete(nodes \o <<DefineAs(o, v)>>, Append(defs, DefineAs(o, v)), uses)
    OBVIOUS
  <2>1. PICK e : e = DefineAs(o, v)
    OBVIOUS
  <2>2. e.node = "def" /\ e.node \in {"def", "use"} /\ e.o = o /\ e.o.t # "mem"
    BY <1>1, <2>1
  <2>4. /\ e.o.t # "mem" /\ e.node = "def" => Complete(nodes \o <<e>>, Append(defs, e), uses)
        /\ e.o.t # "mem" /\ e.node = "use" => Complete(nodes \o <<e>>, defs, Append(uses, e))
        /\ e.o.t = "mem" /\ e.node = "def" =>
             Complete(nodes \o <<e, Split(e.o)>>, Append(defs, e), uses)
        /\ e.o.t = "mem" /\ e.node = "use" =>
             Complete(nodes \o <<e, Split(e.o)>>, defs, Append(uses, e))
    BY <2>2, ChunkMore
  <2>3. Complete(nodes \o <<e>>, Append(defs, e), uses)
    BY <2>2, <2>4
  <2> QED BY <2>1, <2>3
<1>5. \A o, v : o.t = "mem" =>
        Complete(nodes \o <<DefineAs(o, v), Split(o)>>, Append(defs, DefineAs(o, v)), uses)
  <2> SUFFICES ASSUME NEW o, NEW v, o.t = "mem"
               PROVE  Complete(nodes \o <<DefineAs(o, v), Split(o)>>,
                      Append(defs, DefineAs(o, v)), uses)
    OBVIOUS
  <2>1. PICK e : e = DefineAs(o, v)
    OBVIOUS
  <2>2. e.node = "def" /\ e.node \in {"def", "use"} /\ e.o = o /\ e.o.t = "mem"
    BY <1>1, <2>1
  <2>4. /\ e.o.t # "mem" /\ e.node = "def" => Complete(nodes \o <<e>>, Append(defs, e), uses)
        /\ e.o.t # "mem" /\ e.node = "use" => Complete(nodes \o <<e>>, defs, Append(uses, e))
        /\ e.o.t = "mem" /\ e.node = "def" =>
             Complete(nodes \o <<e, Split(e.o)>>, Append(defs, e), uses)
        /\ e.o.t = "mem" /\ e.node = "use" =>
             Complete(nodes \o <<e, Split(e.o)>>, defs, Append(uses, e))
    BY <2>2, ChunkMore
  <2>3. Complete(nodes \o <<e, Split(o)>>, Append(defs, e), uses)
    BY <2>2, <2>4
  <2> QED BY <2>1, <2>3
<1>6. \A o : Complete(nodes \o DefineAt(o), Append(defs, Define(o)), uses)
  <2> SUFFICES ASSUME NEW o PROVE Complete(nodes \o DefineAt(o), Append(defs, Define(o)), uses)
    OBVIOUS
  <2>1. CASE o.t = "mem"
    <3>1. PICK e : e = Define(o)
      OBVIOUS
    <3>2. e.node = "def" /\ e.node \in {"def", "use"}
      BY <1>1, <3>1
    <3>5. e.o = o /\ e.o.t = "mem"
      BY <1>1, <2>1, <3>1
    <3>4. /\ e.o.t # "mem" /\ e.node = "def" => Complete(nodes \o <<e>>, Append(defs, e), uses)
          /\ e.o.t # "mem" /\ e.node = "use" => Complete(nodes \o <<e>>, defs, Append(uses, e))
          /\ e.o.t = "mem" /\ e.node = "def" =>
               Complete(nodes \o <<e, Split(e.o)>>, Append(defs, e), uses)
          /\ e.o.t = "mem" /\ e.node = "use" =>
               Complete(nodes \o <<e, Split(e.o)>>, defs, Append(uses, e))
      BY <3>2, ChunkMore
    <3>3. Complete(nodes \o <<e, Split(o)>>, Append(defs, e), uses)
      BY <3>2, <3>4, <3>5
    <3> QED BY <2>1, <3>1, <3>3 DEF DefineAt
  <2>2. CASE o.t # "mem"
    BY <1>2, <2>2 DEF DefineAt
  <2> QED BY <2>1, <2>2
<1>7. \A o : Complete(nodes \o UseAt(o), defs, Append(uses, Use(o)))
  <2> SUFFICES ASSUME NEW o PROVE Complete(nodes \o UseAt(o), defs, Append(uses, Use(o)))
    OBVIOUS
  <2>1. CASE o.t = "mem"
    <3>1. PICK e : e = Use(o)
      OBVIOUS
    <3>2. e.node = "use" /\ e.node \in {"def", "use"}
      BY <1>1, <3>1
    <3>5. e.o = o /\ e.o.t = "mem"
      BY <1>1, <2>1, <3>1
    <3>4. /\ e.o.t # "mem" /\ e.node = "def" => Complete(nodes \o <<e>>, Append(defs, e), uses)
          /\ e.o.t # "mem" /\ e.node = "use" => Complete(nodes \o <<e>>, defs, Append(uses, e))
          /\ e.o.t = "mem" /\ e.node = "def" =>
               Complete(nodes \o <<e, Split(e.o)>>, Append(defs, e), uses)
          /\ e.o.t = "mem" /\ e.node = "use" =>
               Complete(nodes \o <<e, Split(e.o)>>, defs, Append(uses, e))
      BY <3>2, ChunkMore
    <3>3. Complete(nodes \o <<e, Split(o)>>, defs, Append(uses, e))
      BY <3>2, <3>4, <3>5
    <3> QED BY <2>1, <3>1, <3>3 DEF UseAt
  <2>2. CASE o.t # "mem"
    BY <1>3, <2>2 DEF UseAt
  <2> QED BY <2>1, <2>2
<1> QED BY <1>2, <1>3, <1>4, <1>5, <1>6, <1>7

-----------------------------------------------------------------------------
(***************************************************************************)
(* Knowledge that grows: what is known is never replaced.                  *)
(***************************************************************************)
(* The places of what is known: the uses, and the defines after and before. *)
Sides == {"val", "aft", "bef"}

(* K is what is known of the nodes of some instruction.                    *)
Knowledge(K1) ==
  /\ K1 = [src |-> K1.src, dst |-> K1.dst, val |-> K1.val, aft |-> K1.aft,
           bef |-> K1.bef, out |-> K1.out]
  /\ \A side \in Sides : K1[side] = [i \in DOMAIN K1[side] |-> K1[side][i]]

(* K2 is K1 with more values known, and with none of them replaced.        *)
Grows(K1, K2) ==
  /\ Knowledge(K2)
  /\ K2.src = K1.src /\ K2.dst = K1.dst
  /\ \A side \in Sides :
       /\ DOMAIN K2[side] = DOMAIN K1[side]
       /\ \A i \in DOMAIN K1[side] : Known(K1[side][i]) => K2[side][i] = K1[side][i]

(* To learn nothing is to replace nothing. *)
LEMMA GrowsRefl == ASSUME NEW K1, Knowledge(K1) PROVE Grows(K1, K1)
  BY DEF Grows

(* A step after a step. *)
LEMMA GrowsTrans ==
  ASSUME NEW K1, NEW K2, NEW K3, Grows(K1, K2), Grows(K2, K3)
  PROVE  Grows(K1, K3)
  BY DEF Grows

(* An outcome replaces no value. *)
LEMMA OutGrows ==
  ASSUME NEW K1, Knowledge(K1), NEW o
  PROVE  Grows(K1, [K1 EXCEPT !.out = o])
<1> DEFINE K2 == [K1 EXCEPT !.out = o]
<1>1. K2 = [src |-> K1.src, dst |-> K1.dst, val |-> K1.val, aft |-> K1.aft,
            bef |-> K1.bef, out |-> o]
  BY DEF Knowledge
<1> HIDE DEF K2
<1>2. \A side \in Sides : K2[side] = K1[side]
  BY <1>1 DEF Sides
<1> QED BY <1>1, <1>2 DEF Grows, Knowledge, K2

(* An assignment to a value that is not known replaces none. *)
LEMMA PutGrows ==
  ASSUME NEW K1, Knowledge(K1), NEW side \in Sides, NEW i, ~ Known(K1[side][i]), NEW v
  PROVE  Grows(K1, put(K1, side, i, v))
<1> DEFINE w == Fit(v, SizeAt(K1, side, i))
           f == [K1[side] EXCEPT ![i] = w]
           K2 == [K1 EXCEPT ![side] = f]
<1>1. CASE K1.out # "ok"
  BY <1>1, GrowsRefl DEF put
<1>2. CASE K1.out = "ok"
  <2>1. put(K1, side, i, v) = K2
    BY <1>2 DEF put
  <2> HIDE DEF w
  <2>2. /\ DOMAIN f = DOMAIN K1[side] /\ f = [j \in DOMAIN f |-> f[j]]
        /\ \A j \in DOMAIN f : Known(K1[side][j]) => f[j] = K1[side][j]
    BY DEF Knowledge
  <2> HIDE DEF f
  <2>3. /\ K2.src = K1.src /\ K2.dst = K1.dst /\ K2[side] = f
        /\ \A s \in Sides : s # side => K2[s] = K1[s]
        /\ K2 = [src |-> K2.src, dst |-> K2.dst, val |-> K2.val, aft |-> K2.aft,
                 bef |-> K2.bef, out |-> K2.out]
    <3>1. CASE side = "val"
      <4>1. K2 = [src |-> K1.src, dst |-> K1.dst, val |-> f, aft |-> K1.aft,
                  bef |-> K1.bef, out |-> K1.out]
        <5>1. K2 = [K1 EXCEPT !.val = f]
          BY <3>1
        <5> HIDE DEF K2
        <5> QED BY <5>1 DEF Knowledge
      <4> HIDE DEF K2
      <4> QED BY <3>1, <4>1 DEF Sides
    <3>2. CASE side = "aft"
      <4>1. K2 = [src |-> K1.src, dst |-> K1.dst, val |-> K1.val, aft |-> f,
                  bef |-> K1.bef, out |-> K1.out]
        <5>1. K2 = [K1 EXCEPT !.aft = f]
          BY <3>2
        <5> HIDE DEF K2
        <5> QED BY <5>1 DEF Knowledge
      <4> HIDE DEF K2
      <4> QED BY <3>2, <4>1 DEF Sides
    <3>3. CASE side = "bef"
      <4>1. K2 = [src |-> K1.src, dst |-> K1.dst, val |-> K1.val, aft |-> K1.aft,
                  bef |-> f, out |-> K1.out]
        <5>1. K2 = [K1 EXCEPT !.bef = f]
          BY <3>3
        <5> HIDE DEF K2
        <5> QED BY <5>1 DEF Knowledge
      <4> HIDE DEF K2
      <4> QED BY <3>3, <4>1 DEF Sides
    <3> QED BY <3>1, <3>2, <3>3 DEF Sides
  <2> HIDE DEF K2
  <2>4. \A s \in Sides : K2[s] = [j \in DOMAIN K2[s] |-> K2[s][j]]
    BY <2>2, <2>3 DEF Knowledge
  <2> QED BY <2>1, <2>2, <2>3, <2>4 DEF Grows, Knowledge
<1> QED BY <1>1, <1>2

(* A comparison replaces none. *)
LEMMA AssertGrows ==
  ASSUME NEW K1, Knowledge(K1), NEW side, NEW i, NEW v
  PROVE  Grows(K1, assert_val(K1, side, i, v))
  BY GrowsRefl, OutGrows DEF assert_val

(* What is told is compared with a known value or assigned to an unknown.  *)
LEMMA TellGrows ==
  ASSUME NEW K1, Knowledge(K1), NEW side \in Sides, NEW i, NEW v
  PROVE  Grows(K1, tell(K1, side, i, v))
<1>1. CASE K1.out # "ok"
  BY <1>1, GrowsRefl DEF tell
<1>2. CASE K1.out = "ok" /\ Known(K1[side][i])
  BY <1>2, AssertGrows DEF tell
<1>3. CASE K1.out = "ok" /\ ~ Known(K1[side][i])
  BY <1>3, PutGrows DEF tell
<1> QED BY <1>1, <1>2, <1>3

(* The end of the tool replaces none. *)
LEMMA EndGrows ==
  ASSUME NEW K1, Knowledge(K1)
  PROVE  Grows(K1, abort(K1)) /\ Grows(K1, crash(K1))
  BY OutGrows DEF abort, crash

(* An unsupported size ends the tool. *)
LEMMA DatatypeGrows ==
  ASSUME NEW K1, Knowledge(K1), NEW o, NEW supported, NEW then, Grows(K1, then)
  PROVE  Grows(K1, if_datatype(K1, o, supported, then))
  BY EndGrows DEF if_datatype

(* The patterns of resolvers tell. *)
LEMMA PatternsGrow ==
  ASSUME NEW K1, Knowledge(K1)
  PROVE  /\ \A u, d, forward, back : Grows(K1, both_ways(K1, u, d, forward, back))
         /\ \A uses, d, forward : Grows(K1, forward_only(K1, uses, d, forward))
         /\ \A u, d : Grows(K1, copies(K1, u, d))
         /\ \A forward, first, second : Grows(K1, from_two(K1, forward, first, second))
<1> USE TellGrows, GrowsRefl DEF Sides
<1>1. \A u, d, forward, back : Grows(K1, both_ways(K1, u, d, forward, back))
  BY DEF both_ways
<1>2. \A uses, d, forward : Grows(K1, forward_only(K1, uses, d, forward))
  BY DEF forward_only
<1>3. \A u, d : Grows(K1, copies(K1, u, d))
  BY <1>1 DEF copies
<1>4. \A forward, first, second : Grows(K1, from_two(K1, forward, first, second))
  BY DEF from_two
<1> QED BY <1>1, <1>2, <1>3, <1>4

(* Steps of esp. *)
LEMMA StepsGrow ==
  ASSUME NEW K1, Knowledge(K1), NEW d, NEW by
  PROVE  Grows(K1, steps(K1, d, by)) /\ Knowledge(steps(K1, d, by))
<1>1. ASSUME NEW K2, Knowledge(K2)
      PROVE  Grows(K2, step_back(K2, d, by)) /\ Grows(K2, step_ahead(K2, d, by))
  BY <1>1, GrowsRefl, TellGrows DEF step_back, step_ahead, Sides
<1>2. Knowledge(step_back(K1, d, by))
  BY <1>1 DEF Grows
<1>3. Grows(K1, steps(K1, d, by))
  BY <1>1, <1>2, GrowsTrans DEF steps
<1> QED BY <1>3 DEF Grows

(* What is known after a handler has the shape of knowledge. *)
LEMMA HandlerKnowledge == ASSUME NEW i, NEW nodes PROVE Knowledge(KnowledgeOf(i, nodes))
  BY DEF KnowledgeOf, Knowledge, Sides

(* A slot is a place of one of the three functions. *)
LEMMA SlotSides ==
  ASSUME NEW K1, NEW s \in Slots(K1)
  PROVE  s[1] \in Sides /\ s[2] \in DOMAIN K1[s[1]]
<1>1. CASE \E i \in DOMAIN K1.val : s = <<"val", i>>
  BY <1>1 DEF Sides
<1>2. CASE \E i \in DOMAIN K1.aft : s = <<"aft", i>>
  BY <1>2 DEF Sides
<1>3. CASE \E i \in DOMAIN K1.bef : s = <<"bef", i>>
  BY <1>3 DEF Sides
<1> QED BY <1>1, <1>2, <1>3 DEF Slots

(***************************************************************************)
(* What a resolver makes of knowledge that is typed, and true or not.      *)
(***************************************************************************)
(* The value an operand is left with. *)
After(i, o) == (Effect(i) ++ i.before)[o.place]

(* Known values have the sizes of their nodes. *)
Sized(K1) ==
  /\ \A k \in DOMAIN K1.val : Known(K1.val[k]) => K1.val[k] \in Bytes(Size(K1.src[k]))
  /\ \A j \in DOMAIN K1.aft : Known(K1.aft[j]) => K1.aft[j] \in Bytes(Size(K1.dst[j]))
  /\ \A j \in DOMAIN K1.bef : Known(K1.bef[j]) => K1.bef[j] \in Bytes(Size(K1.dst[j]))

(* Known values are those of the execution. *)
Honest(i, K1) ==
  /\ \A k \in DOMAIN K1.val : Known(K1.val[k]) => K1.val[k] = Before(i, K1.src[k])
  /\ \A j \in DOMAIN K1.aft : Known(K1.aft[j]) => K1.aft[j] = After(i, K1.dst[j])
  /\ \A j \in DOMAIN K1.bef : Known(K1.bef[j]) => K1.bef[j] = Before(i, K1.dst[j])

(* A resolver runs on knowledge without a contradiction. *)
Ready(K1) == Knowledge(K1) /\ K1.out = "ok" /\ Sized(K1)

(* It leaves typed knowledge or a contradiction, and none when what was    *)
(* known is true.                                                          *)
Fine(i, K1, K2) ==
  /\ Knowledge(K2) /\ K2.src = K1.src /\ K2.dst = K1.dst
  /\ Sized(K2) /\ K2.out \in {"ok", "contra"}
  /\ Honest(i, K1) => Honest(i, K2) /\ K2.out = "ok"

(* One value has been told: it is known now, or another one was. *)
Told(K1, K2, side, j, w) ==
  /\ Knowledge(K2) /\ K2.src = K1.src /\ K2.dst = K1.dst
  /\ \A s \in Sides \ {side} : K2[s] = K1[s]
  /\ DOMAIN K2[side] = DOMAIN K1[side]
  /\ \A k \in DOMAIN K1[side] : k # j => K2[side][k] = K1[side][k]
  /\ \/ K2.out = "ok" /\ K2[side][j] = w /\ (Known(K1[side][j]) => K2 = K1)
     \/ K2.out = "contra" /\ Known(K1[side][j]) /\ K1[side][j] # w /\ K2[side] = K1[side]

(* To learn nothing is fine, and so is a step after a step. *)
LEMMA FineRefl == ASSUME NEW i, NEW K1, Ready(K1) PROVE Fine(i, K1, K1)
  BY DEF Ready, Fine
(* What is fine after what is fine is fine.                                *)
LEMMA FineTrans ==
  ASSUME NEW i, NEW K1, NEW K2, NEW K3, Fine(i, K1, K2), Fine(i, K2, K3)
  PROVE  Fine(i, K1, K3)
  BY DEF Fine
(* Fine knowledge, if nothing was contradicted, is ready for more.         *)
LEMMA FineReady == ASSUME NEW i, NEW K1, NEW K2, Fine(i, K1, K2), K2.out = "ok" PROVE Ready(K2)
  BY DEF Fine, Ready

(* What an assignment changes. *)
AssignedTo(K1, K2, side, j, w) ==
  /\ Knowledge(K2) /\ K2.src = K1.src /\ K2.dst = K1.dst /\ K2.out = K1.out
  /\ \A s \in Sides \ {side} : K2[s] = K1[s]
  /\ DOMAIN K2[side] = DOMAIN K1[side] /\ K2[side][j] = w
  /\ \A k \in DOMAIN K1[side] : k # j => K2[side][k] = K1[side][k]
(* One value is assigned and the others are left alone.                    *)
LEMMA Assigned ==
  ASSUME NEW K1, Knowledge(K1), NEW side \in Sides, NEW j \in DOMAIN K1[side], NEW w
  PROVE  AssignedTo(K1, [K1 EXCEPT ![side][j] = w], side, j, w)
<1> DEFINE f == [K1[side] EXCEPT ![j] = w]
           K2 == [K1 EXCEPT ![side] = f]
<1>1. /\ DOMAIN f = DOMAIN K1[side] /\ f = [k \in DOMAIN f |-> f[k]] /\ f[j] = w
      /\ \A k \in DOMAIN K1[side] : k # j => f[k] = K1[side][k]
  BY DEF Knowledge
<1>2. K2 = [K1 EXCEPT ![side][j] = w]
  OBVIOUS
<1> HIDE DEF f
<1>3. /\ K2.src = K1.src /\ K2.dst = K1.dst /\ K2[side] = f /\ K2.out = K1.out
      /\ \A s \in Sides : s # side => K2[s] = K1[s]
      /\ K2 = [src |-> K2.src, dst |-> K2.dst, val |-> K2.val, aft |-> K2.aft,
               bef |-> K2.bef, out |-> K2.out]
  <2>1. CASE side = "val"
    <3>1. K2 = [src |-> K1.src, dst |-> K1.dst, val |-> f, aft |-> K1.aft,
                bef |-> K1.bef, out |-> K1.out]
      <4>1. K2 = [K1 EXCEPT !.val = f]
        BY <2>1
      <4> HIDE DEF K2
      <4> QED BY <4>1 DEF Knowledge
    <3> HIDE DEF K2
    <3> QED BY <2>1, <3>1 DEF Sides
  <2>2. CASE side = "aft"
    <3>1. K2 = [src |-> K1.src, dst |-> K1.dst, val |-> K1.val, aft |-> f,
                bef |-> K1.bef, out |-> K1.out]
      <4>1. K2 = [K1 EXCEPT !.aft = f]
        BY <2>2
      <4> HIDE DEF K2
      <4> QED BY <4>1 DEF Knowledge
    <3> HIDE DEF K2
    <3> QED BY <2>2, <3>1 DEF Sides
  <2>3. CASE side = "bef"
    <3>1. K2 = [src |-> K1.src, dst |-> K1.dst, val |-> K1.val, aft |-> K1.aft,
                bef |-> f, out |-> K1.out]
      <4>1. K2 = [K1 EXCEPT !.bef = f]
        BY <2>3
      <4> HIDE DEF K2
      <4> QED BY <4>1 DEF Knowledge
    <3> HIDE DEF K2
    <3> QED BY <2>3, <3>1 DEF Sides
  <2> QED BY <2>1, <2>2, <2>3 DEF Sides
<1> HIDE DEF K2
<1>4. \A s \in Sides : K2[s] = [k \in DOMAIN K2[s] |-> K2[s][k]]
  BY <1>1, <1>3 DEF Knowledge
<1>5. AssignedTo(K1, K2, side, j, w)
  BY <1>1, <1>3, <1>4 DEF Knowledge, AssignedTo
<1> QED BY <1>2, <1>5

(* To tell is to have told, and to tell again changes nothing. *)
LEMMA Tell ==
  ASSUME NEW K1, Knowledge(K1), K1.out = "ok", NEW side \in Sides, NEW j \in DOMAIN K1[side],
         NEW v
  PROVE  /\ Told(K1, tell(K1, side, j, v), side, j, Fit(v, SizeAt(K1, side, j)))
         /\ ~ Known(K1[side][j]) => put(K1, side, j, v) = tell(K1, side, j, v)
         /\ Known(K1[side][j]) => assert_val(K1, side, j, v) = tell(K1, side, j, v)
         /\ Known(K1[side][j]) /\ K1[side][j] = Fit(v, SizeAt(K1, side, j)) =>
              tell(K1, side, j, v) = K1
<1> DEFINE w == Fit(v, SizeAt(K1, side, j))
           K2 == tell(K1, side, j, v)
<1>1. /\ ~ Known(K1[side][j]) => put(K1, side, j, v) = K2 /\ K2 = [K1 EXCEPT ![side][j] = w]
      /\ Known(K1[side][j]) => assert_val(K1, side, j, v) = K2
      /\ Known(K1[side][j]) /\ K1[side][j] = w => K2 = K1
      /\ Known(K1[side][j]) /\ K1[side][j] # w => K2 = [K1 EXCEPT !.out = "contra"]
  BY DEF tell, put, assert_val
<1> HIDE DEF K2, w
<1>2. CASE ~ Known(K1[side][j])
  <2>1. K2 = [K1 EXCEPT ![side][j] = w]
    BY <1>1, <1>2
  <2>2. /\ Knowledge(K2) /\ K2.src = K1.src /\ K2.dst = K1.dst /\ K2.out = K1.out
        /\ \A s \in Sides \ {side} : K2[s] = K1[s]
        /\ DOMAIN K2[side] = DOMAIN K1[side] /\ K2[side][j] = w
        /\ \A k \in DOMAIN K1[side] : k # j => K2[side][k] = K1[side][k]
    <3>1. AssignedTo(K1, [K1 EXCEPT ![side][j] = w], side, j, w)
      BY Assigned
    <3> QED BY <2>1, <3>1 DEF AssignedTo
  <2>3. Told(K1, K2, side, j, w)
    BY <1>2, <2>2 DEF Told
  <2> QED BY <1>1, <1>2, <2>3 DEF K2, w
<1>3. CASE Known(K1[side][j]) /\ K1[side][j] = w
  <2>1. Told(K1, K2, side, j, w)
    BY <1>1, <1>3 DEF Told
  <2> QED BY <1>1, <1>3, <2>1 DEF K2, w
<1>4. CASE Known(K1[side][j]) /\ K1[side][j] # w
  <2>1. K2 = [K1 EXCEPT !.out = "contra"]
    BY <1>1, <1>4
  <2>2. K2 = [src |-> K1.src, dst |-> K1.dst, val |-> K1.val, aft |-> K1.aft,
              bef |-> K1.bef, out |-> "contra"]
    BY <2>1 DEF Knowledge
  <2>3. \A s \in Sides : K2[s] = K1[s]
    BY <2>2 DEF Sides
  <2>4. Told(K1, K2, side, j, w)
    <3>1. Knowledge(K2)
      BY <2>2, <2>3 DEF Knowledge
    <3> QED BY <1>4, <2>2, <2>3, <3>1 DEF Told
  <2> QED BY <1>1, <1>4, <2>4 DEF K2, w
<1> QED BY <1>2, <1>3, <1>4

(* The value of the execution at a place of the knowledge. *)
RightAt(i, K1, side, j) ==
  IF side = "val" THEN Before(i, K1.src[j])
  ELSE IF side = "aft" THEN After(i, K1.dst[j]) ELSE Before(i, K1.dst[j])

(* To tell a typed value, the true one when the others are, is fine. *)
LEMMA TellFine ==
  ASSUME NEW i, NEW K1, Ready(K1), NEW side \in Sides, NEW j \in DOMAIN K1[side], NEW v, NEW w,
         w = Fit(v, SizeAt(K1, side, j)), w \in Bytes(SizeAt(K1, side, j)),
         Honest(i, K1) => w = RightAt(i, K1, side, j)
  PROVE  Fine(i, K1, tell(K1, side, j, v)) /\ Told(K1, tell(K1, side, j, v), side, j, w)
<1> DEFINE K2 == tell(K1, side, j, v)
<1>1. Told(K1, K2, side, j, w)
  BY Tell DEF Ready
<1> HIDE DEF K2
<1>2. CASE K2.out = "contra"
  <2>1. \A s \in Sides : K2[s] = K1[s]
    BY <1>1, <1>2 DEF Told
  <2>2. K2.val = K1.val /\ K2.aft = K1.aft /\ K2.bef = K1.bef /\ K2.src = K1.src /\ K2.dst = K1.dst
    BY <1>1, <2>1 DEF Told, Sides
  <2>3. Sized(K2)
    BY <2>2 DEF Sized, Ready
  <2>4. ~ Honest(i, K1)
    <3>1. Known(K1[side][j]) /\ K1[side][j] # w
      BY <1>1, <1>2 DEF Told
    <3> QED BY <3>1 DEF Honest, RightAt, Sides
  <2> QED BY <1>1, <1>2, <2>3, <2>4 DEF Fine, Told, K2
<1>3. CASE K2.out # "contra"
  <2>1. /\ K2.out = "ok" /\ K2[side][j] = w /\ K2.src = K1.src /\ K2.dst = K1.dst /\ Knowledge(K2)
        /\ \A s \in Sides \ {side} : K2[s] = K1[s]
        /\ DOMAIN K2[side] = DOMAIN K1[side]
        /\ \A k \in DOMAIN K1[side] : k # j => K2[side][k] = K1[side][k]
    BY <1>1, <1>3 DEF Told
  <2>2. CASE side = "val"
    <3>1. /\ K2.aft = K1.aft /\ K2.bef = K1.bef /\ DOMAIN K2.val = DOMAIN K1.val /\ K2.val[j] = w
          /\ \A k \in DOMAIN K1.val : k # j => K2.val[k] = K1.val[k]
      BY <2>1, <2>2 DEF Sides
    <3>2. w \in Bytes(Size(K1.src[j])) /\ (Honest(i, K1) => w = Before(i, K1.src[j]))
      BY <2>2 DEF SizeAt, RightAt
    <3>3. Sized(K2)
      BY <2>1, <3>1, <3>2 DEF Sized, Ready
    <3>4. Honest(i, K1) => Honest(i, K2)
      BY <2>1, <3>1, <3>2 DEF Honest
    <3> QED BY <1>1, <2>1, <3>3, <3>4 DEF Fine, K2
  <2>3. CASE side = "aft"
    <3>1. /\ K2.val = K1.val /\ K2.bef = K1.bef /\ DOMAIN K2.aft = DOMAIN K1.aft /\ K2.aft[j] = w
          /\ \A k \in DOMAIN K1.aft : k # j => K2.aft[k] = K1.aft[k]
      BY <2>1, <2>3 DEF Sides
    <3>2. w \in Bytes(Size(K1.dst[j])) /\ (Honest(i, K1) => w = After(i, K1.dst[j]))
      BY <2>3 DEF SizeAt, RightAt
    <3>3. Sized(K2)
      BY <2>1, <3>1, <3>2 DEF Sized, Ready
    <3>4. Honest(i, K1) => Honest(i, K2)
      BY <2>1, <3>1, <3>2 DEF Honest
    <3> QED BY <1>1, <2>1, <3>3, <3>4 DEF Fine, K2
  <2>4. CASE side = "bef"
    <3>1. /\ K2.val = K1.val /\ K2.aft = K1.aft /\ DOMAIN K2.bef = DOMAIN K1.bef /\ K2.bef[j] = w
          /\ \A k \in DOMAIN K1.bef : k # j => K2.bef[k] = K1.bef[k]
      BY <2>1, <2>4 DEF Sides
    <3>2. w \in Bytes(Size(K1.dst[j])) /\ (Honest(i, K1) => w = Before(i, K1.dst[j]))
      BY <2>4 DEF SizeAt, RightAt
    <3>3. Sized(K2)
      BY <2>1, <3>1, <3>2 DEF Sized, Ready
    <3>4. Honest(i, K1) => Honest(i, K2)
      BY <2>1, <3>1, <3>2 DEF Honest
    <3> QED BY <1>1, <2>1, <3>3, <3>4 DEF Fine, K2
  <2> QED BY <2>2, <2>3, <2>4 DEF Sides
<1> QED BY <1>2, <1>3

(* A byte value of some size is known. *)
LEMMA BytesKnown == ASSUME NEW n \in Nat \ {0}, NEW v \in Bytes(n) PROVE Known(v) /\ Fit(v, n) = v
  BY BytesLen, Fits

(***************************************************************************)
(* A define that is computed from a use, and the use back from it.         *)
(***************************************************************************)
(* One of them is not known without the other. *)
Bound(K2, u, d, B) ==
  Known(K2.val[u]) \/ Known(K2.aft[d]) =>
    Known(K2.val[u]) /\ Known(K2.aft[d]) /\ K2.val[u] = B[K2.aft[d]]
Apart(K1, K2, u, d) ==
  /\ K2.bef = K1.bef /\ DOMAIN K2.val = DOMAIN K1.val /\ DOMAIN K2.aft = DOMAIN K1.aft
  /\ \A k \in DOMAIN K1.val : k # u => K2.val[k] = K1.val[k]
  /\ \A j \in DOMAIN K1.aft : j # d => K2.aft[j] = K1.aft[j]
(* both_ways, for a define and a use that are functions of each other,     *)
(* tells the truth and, once it has run, has nothing to add.               *)
LEMMA Tie ==
  ASSUME NEW i, NEW K1, Ready(K1), NEW u \in DOMAIN K1.val, NEW d \in DOMAIN K1.aft,
         NEW n \in Nat \ {0}, NEW m \in Nat \ {0}, Size(K1.src[u]) = n, Size(K1.dst[d]) = m,
         NEW F \in [Bytes(n) -> Bytes(m)], NEW B \in [Bytes(m) -> Bytes(n)],
         \A v \in Bytes(n) : B[F[v]] = v,
         Before(i, K1.src[u]) \in Bytes(n),
         Honest(i, K1) => After(i, K1.dst[d]) = F[Before(i, K1.src[u])],
         NEW forward, NEW back,
         Known(K1.val[u]) => Fit(forward, m) = F[K1.val[u]],
         Known(K1.aft[d]) => Fit(back, n) = B[K1.aft[d]],
         NEW K2, K2 = both_ways(K1, u, d, forward, back)
  PROVE  Fine(i, K1, K2) /\ Apart(K1, K2, u, d) /\ (K2.out = "ok" => Bound(K2, u, d, B))
<1>0. \A v \in Bytes(n) \cup Bytes(m) : Known(v)
  BY BytesLen
<1>1. CASE Known(K1.aft[d])
  <2> DEFINE w == B[K1.aft[d]]
  <2>1. K1.aft[d] \in Bytes(m)
    BY <1>1 DEF Ready, Sized
  <2>2. w \in Bytes(n) /\ w = Fit(back, n)
    BY <1>1, <2>1
  <2>3. Honest(i, K1) => w = Before(i, K1.src[u])
    BY <1>1 DEF Honest
  <2>4. K2 = tell(K1, "val", u, back)
    BY <1>1 DEF both_ways, sees
  <2> HIDE DEF w
  <2>5. Fine(i, K1, K2) /\ Told(K1, K2, "val", u, w)
    <3>1. SizeAt(K1, "val", u) = n /\ RightAt(i, K1, "val", u) = Before(i, K1.src[u])
          /\ "val" \in Sides
      BY DEF SizeAt, RightAt, Sides
    <3> QED BY <2>2, <2>3, <2>4, <3>1, TellFine
  <2>6. Apart(K1, K2, u, d) /\ K2.aft = K1.aft
    BY <2>5 DEF Told, Apart, Sides
  <2>7. K2.out = "ok" => K2.val[u] = w
    BY <2>5 DEF Told
  <2>8. Known(w)
    BY <1>0, <2>2
  <2> QED BY <1>1, <2>5, <2>6, <2>7, <2>8 DEF Bound, w
<1>2. CASE ~ Known(K1.aft[d]) /\ Known(K1.val[u])
  <2> DEFINE w == F[K1.val[u]]
  <2>1. K1.val[u] \in Bytes(n)
    BY <1>2 DEF Ready, Sized
  <2>2. w \in Bytes(m) /\ w = Fit(forward, m) /\ B[w] = K1.val[u]
    BY <1>2, <2>1
  <2>3. Honest(i, K1) => w = After(i, K1.dst[d])
    BY <1>2 DEF Honest
  <2>4. K2 = tell(K1, "aft", d, forward)
    BY <1>2 DEF both_ways, sees
  <2> HIDE DEF w
  <2>5. Fine(i, K1, K2) /\ Told(K1, K2, "aft", d, w)
    <3>1. SizeAt(K1, "aft", d) = m /\ RightAt(i, K1, "aft", d) = After(i, K1.dst[d])
          /\ "aft" \in Sides
      BY DEF SizeAt, RightAt, Sides
    <3> QED BY <2>2, <2>3, <2>4, <3>1, TellFine
  <2>6. Apart(K1, K2, u, d) /\ K2.val = K1.val
    BY <2>5 DEF Told, Apart, Sides
  <2>7. K2.out = "ok" => K2.aft[d] = w
    BY <2>5 DEF Told
  <2>8. Known(w)
    BY <1>0, <2>2
  <2> QED BY <1>2, <2>2, <2>5, <2>6, <2>7, <2>8 DEF Bound
<1>3. CASE ~ Known(K1.aft[d]) /\ ~ Known(K1.val[u])
  <2>1. K2 = K1
    BY <1>3 DEF both_ways, sees
  <2> QED BY <1>3, <2>1, FineRefl DEF Bound, Apart
<1> QED BY <1>1, <1>2, <1>3

(* What is bound stays as it is. *)
LEMMA BoundStays ==
  ASSUME NEW K2, Knowledge(K2), K2.out = "ok", NEW u \in DOMAIN K2.val, NEW d \in DOMAIN K2.aft,
         NEW n, Size(K2.src[u]) = n, NEW B, Bound(K2, u, d, B), NEW forward, NEW back,
         Known(K2.aft[d]) => Fit(back, n) = B[K2.aft[d]]
  PROVE  both_ways(K2, u, d, forward, back) = K2
<1>1. CASE Known(K2.aft[d])
  <2>1. K2["val"][u] = Fit(back, SizeAt(K2, "val", u)) /\ Known(K2["val"][u])
    BY <1>1 DEF Bound, SizeAt
  <2>2. tell(K2, "val", u, back) = K2
    BY <2>1, Tell DEF Sides
  <2> QED BY <1>1, <2>2 DEF both_ways, sees
<1>2. CASE ~ Known(K2.aft[d])
  BY <1>2 DEF Bound, both_ways, sees
<1> QED BY <1>1, <1>2

(***************************************************************************)
(* A define that is only computed.                                         *)
(***************************************************************************)
OnlyDefine(K1, K2, d) ==
  /\ Knowledge(K2) /\ K2.src = K1.src /\ K2.dst = K1.dst
  /\ K2.val = K1.val /\ K2.bef = K1.bef /\ DOMAIN K2.aft = DOMAIN K1.aft
  /\ \A j \in DOMAIN K1.aft : j # d => K2.aft[j] = K1.aft[j]
(* To tell a define leaves the uses and the other defines alone.           *)
LEMMA ToldDefine ==
  ASSUME NEW K1, Knowledge(K1), NEW K2, NEW d \in DOMAIN K1.aft, NEW w, Told(K1, K2, "aft", d, w)
  PROVE  OnlyDefine(K1, K2, d) /\ (K2.out = "ok" => K2.aft[d] = w)
  BY DEF Told, OnlyDefine, Sides
(* forward_only computes a define from uses: truly, and once for all.      *)
LEMMA Computes ==
  ASSUME NEW i, NEW K1, Ready(K1), NEW d \in DOMAIN K1.aft, NEW uses, NEW f,
         NEW m \in Nat \ {0}, Size(K1.dst[d]) = m,
         sees(K1, uses, {}) => Fit(f, m) \in Bytes(m),
         sees(K1, uses, {}) /\ Honest(i, K1) => Fit(f, m) = After(i, K1.dst[d]),
         NEW K2, K2 = forward_only(K1, uses, d, f)
  PROVE  /\ Fine(i, K1, K2) /\ OnlyDefine(K1, K2, d)
         /\ K2.out = "ok" /\ sees(K1, uses, {}) => Known(K2.aft[d])
         /\ K2.out = "ok" => forward_only(K2, uses, d, f) = K2
<1>1. CASE sees(K1, uses, {})
  <2> DEFINE w == Fit(f, m)
  <2>1. w \in Bytes(m) /\ w = Fit(f, m) /\ Known(w)
    BY <1>1, BytesKnown
  <2>2. Honest(i, K1) => w = After(i, K1.dst[d])
    BY <1>1
  <2>3. K2 = tell(K1, "aft", d, f)
    BY <1>1 DEF forward_only
  <2> HIDE DEF w
  <2>4. Fine(i, K1, K2) /\ Told(K1, K2, "aft", d, w)
    <3>1. SizeAt(K1, "aft", d) = m /\ RightAt(i, K1, "aft", d) = After(i, K1.dst[d])
          /\ "aft" \in Sides
      BY DEF SizeAt, RightAt, Sides
    <3> QED BY <2>1, <2>2, <2>3, <3>1, TellFine
  <2>5. OnlyDefine(K1, K2, d) /\ (K2.out = "ok" => K2.aft[d] = w)
    BY <2>4, ToldDefine DEF Ready
  <2>6. ASSUME K2.out = "ok" PROVE forward_only(K2, uses, d, f) = K2
    <3>1. /\ K2["aft"][d] = Fit(f, SizeAt(K2, "aft", d)) /\ Known(K2["aft"][d])
          /\ d \in DOMAIN K2["aft"] /\ "aft" \in Sides
      BY <2>1, <2>5, <2>6 DEF OnlyDefine, SizeAt, Sides
    <3>2. tell(K2, "aft", d, f) = K2
      BY <2>5, <2>6, <3>1, Tell DEF OnlyDefine
    <3> QED BY <3>2 DEF forward_only
  <2> QED BY <2>1, <2>4, <2>5, <2>6
<1>2. CASE ~ sees(K1, uses, {})
  <2>1. K2 = K1
    BY <1>2 DEF forward_only
  <2> QED BY <1>2, <2>1, FineRefl DEF OnlyDefine, forward_only, Ready
<1> QED BY <1>1, <1>2

(***************************************************************************)
(* A register that moves: its value after the instruction is the one       *)
(* before and a step.                                                      *)
(***************************************************************************)
Stepped(K2, d, by) ==
  Known(K2.bef[d]) \/ Known(K2.aft[d]) =>
    Known(K2.bef[d]) /\ Known(K2.aft[d]) /\ K2.aft[d] = AddVal(K2.bef[d], by)
OnlyRegister(K1, K2, d) ==
  /\ Knowledge(K2) /\ K2.src = K1.src /\ K2.dst = K1.dst
  /\ K2.val = K1.val /\ DOMAIN K2.bef = DOMAIN K1.bef /\ DOMAIN K2.aft = DOMAIN K1.aft
  /\ \A j \in DOMAIN K1.aft : j # d => K2.aft[j] = K1.aft[j]
  /\ \A j \in DOMAIN K1.bef : j # d => K2.bef[j] = K1.bef[j]
(* steps moves a register by a constant, backwards too.                    *)
LEMMA StepsTie ==
  ASSUME NEW i, NEW K1, Ready(K1), NEW d \in DOMAIN K1.aft, d \in DOMAIN K1.bef,
         NEW s \in Nat \ {0}, Size(K1.dst[d]) = s, NEW t \in Nat, NEW by \in Bytes(t),
         Before(i, K1.dst[d]) \in Bytes(s), After(i, K1.dst[d]) = AddVal(Before(i, K1.dst[d]), by),
         NEW K3, K3 = steps(K1, d, by)
  PROVE  Fine(i, K1, K3) /\ OnlyRegister(K1, K3, d) /\ (K3.out = "ok" => Stepped(K3, d, by))
<1> DEFINE K2 == step_back(K1, d, by)
<1>0. K3 = step_ahead(K2, d, by)
  BY DEF steps
<1>a. \A v \in Bytes(s) : Known(v) /\ Fit(v, s) = v
  BY BytesKnown
<1>b. \A v \in Bytes(s) : /\ AddVal(v, by) \in Bytes(s) /\ SubVal(v, by) \in Bytes(s)
                          /\ AddVal(SubVal(v, by), by) = v /\ SubVal(AddVal(v, by), by) = v
  BY SumsUndone
<1>1. /\ Fine(i, K1, K2) /\ OnlyRegister(K1, K2, d) /\ K2.aft = K1.aft
      /\ K2.out = "ok" /\ Known(K1.aft[d]) =>
           K2.bef[d] \in Bytes(s) /\ K1.aft[d] = AddVal(K2.bef[d], by)
      /\ ~ Known(K1.aft[d]) => K2 = K1
  <2>1. CASE Known(K1.aft[d])
    <3> DEFINE w == SubVal(K1.aft[d], by)
    <3>1. K1.aft[d] \in Bytes(s)
      BY <2>1 DEF Ready, Sized
    <3>2. w \in Bytes(s) /\ w = Fit(w, s) /\ AddVal(w, by) = K1.aft[d]
      BY <3>1, <1>a, <1>b
    <3>3. Honest(i, K1) => w = Before(i, K1.dst[d])
      BY <2>1, <1>b DEF Honest
    <3>4. K2 = tell(K1, "bef", d, w)
      BY <2>1 DEF step_back
    <3> HIDE DEF w, K2
    <3>5. Fine(i, K1, K2) /\ Told(K1, K2, "bef", d, w)
      <4>1. SizeAt(K1, "bef", d) = s /\ RightAt(i, K1, "bef", d) = Before(i, K1.dst[d])
            /\ "bef" \in Sides
        BY DEF SizeAt, RightAt, Sides
      <4> QED BY <3>2, <3>3, <3>4, <4>1, TellFine
    <3>6. OnlyRegister(K1, K2, d) /\ K2.aft = K1.aft
      BY <3>5 DEF Told, OnlyRegister, Sides
    <3>7. K2.out = "ok" => K2.bef[d] = w
      BY <3>5 DEF Told
    <3> QED BY <2>1, <3>2, <3>5, <3>6, <3>7
  <2>2. CASE ~ Known(K1.aft[d])
    <3>1. K2 = K1
      BY <2>2 DEF step_back
    <3> QED BY <2>2, <3>1, FineRefl DEF OnlyRegister, Ready
  <2> QED BY <2>1, <2>2
<1> HIDE DEF K2
<1>2. CASE K2.out # "ok"
  <2>1. K3 = K2
    BY <1>0, <1>2 DEF step_ahead, tell
  <2> QED BY <1>1, <1>2, <2>1
<1>3. CASE K2.out = "ok" /\ Known(K2.bef[d])
  <2> DEFINE w == AddVal(K2.bef[d], by)
  <2>0. Ready(K2) /\ d \in DOMAIN K2.bef /\ d \in DOMAIN K2.aft /\ K2.dst = K1.dst
    BY <1>1, <1>3, FineReady DEF OnlyRegister
  <2>1. K2.bef[d] \in Bytes(s)
    BY <1>3, <2>0 DEF Ready, Sized
  <2>2. w \in Bytes(s) /\ w = Fit(w, s)
    BY <1>a, <1>b, <2>1
  <2>3. Honest(i, K2) => w = After(i, K2.dst[d])
    BY <1>3, <2>0 DEF Honest
  <2>4. K3 = tell(K2, "aft", d, w)
    BY <1>0, <1>3 DEF step_ahead
  <2> HIDE DEF w
  <2>5. Fine(i, K2, K3) /\ Told(K2, K3, "aft", d, w)
    <3>1. SizeAt(K2, "aft", d) = s /\ RightAt(i, K2, "aft", d) = After(i, K2.dst[d])
          /\ "aft" \in Sides
      BY <2>0 DEF SizeAt, RightAt, Sides
    <3> QED BY <2>0, <2>2, <2>3, <2>4, <3>1, TellFine
  <2>6. OnlyDefine(K2, K3, d) /\ (K3.out = "ok" => K3.aft[d] = w)
    BY <2>0, <2>5, ToldDefine DEF Ready
  <2>7. Fine(i, K1, K3)
    BY <1>1, <2>5, FineTrans
  <2>8. OnlyRegister(K1, K3, d)
    BY <1>1, <2>6 DEF OnlyRegister, OnlyDefine
  <2>9. K3.out = "ok" => Stepped(K3, d, by)
    <3>1. Known(w) /\ K3.bef = K2.bef
      BY <1>a, <2>2, <2>6 DEF OnlyDefine
    <3> QED BY <1>3, <2>6, <3>1 DEF Stepped, w
  <2> QED BY <2>7, <2>8, <2>9
<1>4. CASE K2.out = "ok" /\ ~ Known(K2.bef[d])
  <2>1. K3 = K2
    BY <1>0, <1>4 DEF step_ahead
  <2>2. ~ Known(K1.aft[d])
    BY <1>a, <1>1, <1>4
  <2> QED BY <1>1, <1>4, <2>1, <2>2 DEF Stepped
<1> QED BY <1>2, <1>3, <1>4

(* A register that has stepped stays as it is. *)
LEMMA SteppedStays ==
  ASSUME NEW K2, Ready(K2), NEW d \in DOMAIN K2.aft, d \in DOMAIN K2.bef, NEW s \in Nat \ {0},
         Size(K2.dst[d]) = s, NEW t \in Nat, NEW by \in Bytes(t), Stepped(K2, d, by)
  PROVE  steps(K2, d, by) = K2
<1>1. CASE Known(K2.aft[d])
  <2>1. K2.bef[d] \in Bytes(s) /\ K2.aft[d] \in Bytes(s) /\ Known(K2.bef[d])
        /\ K2.aft[d] = AddVal(K2.bef[d], by)
    BY <1>1 DEF Stepped, Ready, Sized
  <2>2. SubVal(K2.aft[d], by) = K2.bef[d]
    <3>1. \A v \in Bytes(s) : SubVal(AddVal(v, by), by) = v
      BY SumsUndone
    <3> QED BY <2>1, <3>1
  <2>3. Fit(K2.bef[d], s) = K2.bef[d] /\ Fit(K2.aft[d], s) = K2.aft[d]
    BY <2>1, BytesKnown
  <2>4. tell(K2, "bef", d, SubVal(K2.aft[d], by)) = K2
    <3>1. K2["bef"][d] = Fit(K2.bef[d], SizeAt(K2, "bef", d)) /\ Known(K2["bef"][d])
      BY <2>1, <2>3 DEF SizeAt
    <3>2. tell(K2, "bef", d, K2.bef[d]) = K2
      BY <3>1, Tell DEF Sides, Ready
    <3> QED BY <2>2, <3>2
  <2>5. tell(K2, "aft", d, AddVal(K2.bef[d], by)) = K2
    <3>1. K2["aft"][d] = Fit(K2.aft[d], SizeAt(K2, "aft", d)) /\ Known(K2["aft"][d])
      BY <1>1, <2>3 DEF SizeAt
    <3>2. tell(K2, "aft", d, K2.aft[d]) = K2
      BY <3>1, Tell DEF Sides, Ready
    <3> QED BY <2>1, <3>2
  <2> QED BY <1>1, <2>4, <2>5 DEF steps, step_back, step_ahead
<1>2. CASE ~ Known(K2.aft[d])
  <2>1. ~ Known(K2.bef[d])
    BY <1>2 DEF Stepped
  <2> QED BY <1>2, <2>1 DEF steps, step_back, step_ahead
<1> QED BY <1>1, <1>2

(* After a contradiction nothing is told. *)
LEMMA Stopped ==
  ASSUME NEW K1, K1.out # "ok"
  PROVE  /\ \A side, j, v : tell(K1, side, j, v) = K1 /\ put(K1, side, j, v) = K1
         /\ \A u, d, forward, back : both_ways(K1, u, d, forward, back) = K1
         /\ \A u, d : copies(K1, u, d) = K1
         /\ \A d, by : steps(K1, d, by) = K1
<1>1. \A side, j, v : tell(K1, side, j, v) = K1 /\ put(K1, side, j, v) = K1
  BY DEF tell, put
<1>2. \A u, d, forward, back : both_ways(K1, u, d, forward, back) = K1
  BY <1>1 DEF both_ways
<1>3. \A u, d : copies(K1, u, d) = K1
  BY <1>2 DEF copies
<1>4. \A d, by : steps(K1, d, by) = K1
  BY <1>1 DEF steps, step_back, step_ahead
<1> QED BY <1>1, <1>2, <1>3, <1>4

(* The sizes of the datatypes, and their order. *)
LEMMA Sizes ==
  /\ Range(Datatypes) = {"byte", "word", "dword", "qword", "dqword"}
  /\ \A dt \in Range(Datatypes) : translate_datatype_to_byte(dt) \in {1, 2, 4, 8}
  /\ translate_datatype_to_byte("byte") = 1 /\ translate_datatype_to_byte("word") = 2
  /\ translate_datatype_to_byte("dword") = DW /\ translate_datatype_to_byte("qword") = DW
  /\ translate_datatype_to_byte("dqword") = 2 * DW
  /\ \A a, b \in Range(Datatypes) :
       Rank(a) >= Rank(b) => translate_datatype_to_byte(a) >= translate_datatype_to_byte(b)
  /\ \A dt \in Range(Datatypes) : Rank(dt) \in 1 .. 5
<1>1. /\ DOMAIN Datatypes = 1 .. 5
      /\ Datatypes[1] = "byte" /\ Datatypes[2] = "word" /\ Datatypes[3] = "dword"
      /\ Datatypes[4] = "qword" /\ Datatypes[5] = "dqword"
  BY DEF Datatypes
<1>2. Range(Datatypes) = {"byte", "word", "dword", "qword", "dqword"}
  <2>1. Range(Datatypes) = {Datatypes[n] : n \in 1 .. 5}
    BY <1>1 DEF Range
  <2> QED BY <1>1, <2>1
<1>3. /\ translate_datatype_to_byte("byte") = 1 /\ translate_datatype_to_byte("word") = 2
      /\ translate_datatype_to_byte("dword") = DW /\ translate_datatype_to_byte("qword") = DW
      /\ translate_datatype_to_byte("dqword") = 2 * DW
  BY DEF translate_datatype_to_byte
<1>4. \A dt \in Range(Datatypes) : translate_datatype_to_byte(dt) \in {1, 2, 4, 8}
  BY <1>2, <1>3, WordAssumption
<1>5. ASSUME NEW n \in 1 .. 5 PROVE Rank(Datatypes[n]) = n
  <2>1. \A k \in 1 .. 5 : Datatypes[k] = Datatypes[n] => k = n
    BY <1>1
  <2> QED BY <1>1, <2>1 DEF Rank
<1>6. Rank("byte") = 1 /\ Rank("word") = 2 /\ Rank("dword") = 3 /\ Rank("qword") = 4
      /\ Rank("dqword") = 5
  BY <1>1, <1>5
<1>7. ASSUME NEW a \in Range(Datatypes), NEW b \in Range(Datatypes), Rank(a) >= Rank(b)
      PROVE  translate_datatype_to_byte(a) >= translate_datatype_to_byte(b)
  BY <1>2, <1>3, <1>6, <1>7, WordAssumption
<1>8. \A dt \in Range(Datatypes) : Rank(dt) \in 1 .. 5
  BY <1>2, <1>6
<1> QED BY <1>2, <1>3, <1>4, <1>7, <1>8

(* A place an instruction touches. *)
Valid(i, o) ==
  /\ o.dt \in Range(Datatypes) /\ Size(o) \in {1, 2, 4, 8}
  /\ o.place \in DOMAIN i.before /\ i.before[o.place] \in Bytes(Size(o))

(* Knowledge of the nodes of an instruction. *)
Shaped(i, K1, defs, uses) ==
  /\ Knowledge(K1)
  /\ K1.src = [k \in DOMAIN uses |-> uses[k].o]
  /\ DOMAIN K1.val = DOMAIN uses
  /\ \A k \in DOMAIN uses : /\ K1.src[k] = uses[k].o /\ Valid(i, uses[k].o)
                            /\ uses[k].o.t = "imm" => K1.val[k] = Before(i, uses[k].o)
  /\ DOMAIN K1.dst = DOMAIN defs /\ DOMAIN K1.aft = DOMAIN defs /\ DOMAIN K1.bef = DOMAIN defs
  /\ \A j \in DOMAIN defs : /\ K1.dst[j] = defs[j].o /\ Valid(i, defs[j].o)
                            /\ Known(defs[j].aft) => K1.aft[j] = defs[j].aft

(* The operands of the nodes of a handler have values of their sizes.      *)
LEMMA Valids ==
  ASSUME NEW i \in Instances, NEW defs, NEW uses, Complete(inst_handler(i), defs, uses)
  PROVE  /\ \A k \in DOMAIN uses : Valid(i, uses[k].o)
         /\ \A j \in DOMAIN defs : Valid(i, defs[j].o)
<1>1. Accessed(i) = Operands1(inst_handler(i))
  BY DEF Accessed, Operands1
<1>2. \A o \in Operands1(inst_handler(i)) : Valid(i, o)
  BY <1>1, InstancesAssumption, Sizes DEF IsInstruction, Valid, Size
<1> QED BY <1>2 DEF Complete, Made

(* What grows from the knowledge of a handler keeps the shape of its nodes.*)
LEMMA Shape ==
  ASSUME NEW i \in Instances, NEW defs, NEW uses, Complete(inst_handler(i), defs, uses),
         NEW K1, Grows(KnowledgeOf(i, inst_handler(i)), K1)
  PROVE  Shaped(i, K1, defs, uses)
<1> DEFINE K0 == KnowledgeOf(i, inst_handler(i))
<1>1. OfKind(inst_handler(i), "use") = uses /\ OfKind(inst_handler(i), "def") = defs
  BY DEF Complete, Made
<1>2. /\ K0.src = [k \in DOMAIN uses |-> uses[k].o]
      /\ K0.val = [k \in DOMAIN uses |-> IF uses[k].o.t = "imm" THEN Before(i, uses[k].o) ELSE <<>>]
      /\ K0.dst = [j \in DOMAIN defs |-> defs[j].o]
      /\ K0.aft = [j \in DOMAIN defs |-> defs[j].aft]
      /\ K0.bef = [j \in DOMAIN defs |-> <<>>]
  BY <1>1 DEF KnowledgeOf
<1> HIDE DEF K0
<1>3. /\ Knowledge(K1) /\ K1.src = K0.src /\ K1.dst = K0.dst
      /\ DOMAIN K1.val = DOMAIN K0.val /\ DOMAIN K1.aft = DOMAIN K0.aft
         /\ DOMAIN K1.bef = DOMAIN K0.bef
      /\ \A k \in DOMAIN K0.val : Known(K0.val[k]) => K1.val[k] = K0.val[k]
      /\ \A j \in DOMAIN K0.aft : Known(K0.aft[j]) => K1.aft[j] = K0.aft[j]
  BY DEF Grows, Sides, K0
<1>4. \A v : \A n \in {1, 2, 4, 8} : v \in Bytes(n) => Known(v)
  BY BytesLen
<1>5. ASSUME NEW k \in DOMAIN uses
      PROVE  /\ K1.src[k] = uses[k].o /\ Valid(i, uses[k].o)
             /\ uses[k].o.t = "imm" => K1.val[k] = Before(i, uses[k].o)
  <2>1. Valid(i, uses[k].o)
    BY Valids
  <2>2. Known(Before(i, uses[k].o))
    BY <1>4, <2>1 DEF Valid, Before
  <2> QED BY <1>2, <1>3, <2>1, <2>2
<1>6. ASSUME NEW j \in DOMAIN defs
      PROVE  /\ K1.dst[j] = defs[j].o /\ Valid(i, defs[j].o)
             /\ Known(defs[j].aft) => K1.aft[j] = defs[j].aft
  <2>1. Valid(i, defs[j].o)
    BY Valids
  <2> QED BY <1>2, <1>3, <2>1
<1> QED BY <1>2, <1>3, <1>5, <1>6 DEF Shaped

(* What is known after a handler. *)
LEMMA Started ==
  ASSUME NEW i \in Instances, NEW defs, NEW uses, Complete(inst_handler(i), defs, uses),
         NEW K1, K1 = KnowledgeOf(i, inst_handler(i)),
         \A j \in DOMAIN defs : defs[j].aft = <<>> \/ (defs[j].aft \in Bytes(Size(defs[j].o))
                                                       /\ defs[j].aft = After(i, defs[j].o))
  PROVE  Ready(K1) /\ Honest(i, K1)
<1>1. OfKind(inst_handler(i), "use") = uses /\ OfKind(inst_handler(i), "def") = defs
      /\ OfKind(inst_handler(i), "assert") = <<>>
  BY DEF Complete, Made
<1>2. /\ K1.src = [k \in DOMAIN uses |-> uses[k].o]
      /\ K1.val = [k \in DOMAIN uses |-> IF uses[k].o.t = "imm" THEN Before(i, uses[k].o) ELSE <<>>]
      /\ K1.dst = [j \in DOMAIN defs |-> defs[j].o]
      /\ K1.aft = [j \in DOMAIN defs |-> defs[j].aft]
      /\ K1.bef = [j \in DOMAIN defs |-> <<>>] /\ K1.out = "ok"
  BY <1>1 DEF KnowledgeOf
<1>3. Knowledge(K1)
  BY HandlerKnowledge
<1>4. /\ \A k \in DOMAIN uses : Before(i, uses[k].o) \in Bytes(Size(uses[k].o))
  BY Valids DEF Valid, Before
<1>5. Sized(K1)
  BY <1>2, <1>4 DEF Sized, Known
<1>6. Honest(i, K1)
  BY <1>2 DEF Honest, Known
<1> QED BY <1>2, <1>3, <1>5, <1>6 DEF Ready

(***************************************************************************)
(* What an instruction that the tool handles has to satisfy.               *)
(***************************************************************************)
(* Knowledge its resolver may run on: typed, and more than at first. *)
Live(i, K1) == Ready(K1) /\ Grows(KnowledgeOf(i, inst_handler(i)), K1)

(* All it reads is known. *)
AllRead(K1) ==
  /\ \A k \in DOMAIN K1.val : Known(K1.val[k])
  /\ \A j \in DOMAIN K1.bef : K1.dst[j].place \in {"esp", "esp, first"} => Known(K1.bef[j])
AllWritten(K1) == \A j \in DOMAIN K1.aft : Known(K1.aft[j])

(* What a run of the resolver leaves: typed knowledge, true when it was, a *)
(* contradiction otherwise, or xor's assertion; it has said all it can,    *)
(* and computed all that is written.                                       *)
Resolved(i, K1, K2) ==
  /\ Fine(i, K1, K2) \/ (i.op \in {"xor", "pxor"} /\ K2 = abort(K1) /\ ~ Honest(i, K1))
  /\ K2.out = "ok" /\ (i.op = "movq" => Honest(i, K1)) => inst_resolver(i, K2) = K2
  /\ K2.out = "ok" /\ Honest(i, K1) /\ ~ Silent(i) /\ AllRead(K2) => AllWritten(K2)
(* What is written where a define is: a value of its size, the one that the *)
(* handler may have given, and nothing else is changed.                    *)
Defined(i, defs) ==
  /\ \A j \in DOMAIN defs : /\ After(i, defs[j].o) \in Bytes(Size(defs[j].o))
                            /\ defs[j].aft = <<>> \/ defs[j].aft = After(i, defs[j].o)
  /\ \A p \in Changed(i) : \E j \in DOMAIN defs : defs[j].o.place = p
AllDefined(i, K1) ==
  /\ \A j \in DOMAIN K1.dst : After(i, K1.dst[j]) \in Bytes(Size(K1.dst[j]))
  /\ \A p \in Changed(i) : \E j \in DOMAIN K1.dst : K1.dst[j].place = p
AllValid(i, K1) ==
  /\ \A k \in DOMAIN K1.src : Valid(i, K1.src[k])
  /\ \A j \in DOMAIN K1.dst : Valid(i, K1.dst[j])
Only(i, a) == Changed(i) \subseteq {a.place}

Good(i) ==
  /\ AllDefined(i, KnowledgeOf(i, inst_handler(i)))
  /\ AllValid(i, KnowledgeOf(i, inst_handler(i)))
  /\ Live(i, KnowledgeOf(i, inst_handler(i))) /\ Honest(i, KnowledgeOf(i, inst_handler(i)))
  /\ SplitAll(inst_handler(i))
  /\ \A K1 : Live(i, K1) => Resolved(i, K1, inst_resolver(i, K1))

(* Live knowledge has the shape of the nodes. *)
LEMMA LiveShape ==
  ASSUME NEW i \in Instances, NEW defs, NEW uses, Complete(inst_handler(i), defs, uses)
  PROVE  \A K1 : Live(i, K1) => Shaped(i, K1, defs, uses) /\ Ready(K1)
  BY Shape DEF Live

(* A resolver that ends well leaves live knowledge. *)
LEMMA LiveOn ==
  ASSUME NEW i, NEW K1, Live(i, K1),
         NEW K2, Fine(i, K1, K2), Grows(K1, K2), K2.out = "ok"
  PROVE  Live(i, K2)
  BY FineReady, GrowsTrans DEF Live

(* The first knowledge. *)
LEMMA LiveFirst ==
  ASSUME NEW i \in Instances, NEW defs, NEW uses, Complete(inst_handler(i), defs, uses),
         Defined(i, defs),
         \A K1 : Live(i, K1) => Resolved(i, K1, inst_resolver(i, K1))
  PROVE  Good(i)
<1> DEFINE K0 == KnowledgeOf(i, inst_handler(i))
<1>1. Ready(K0) /\ Honest(i, K0)
  <2>1. \A j \in DOMAIN defs : defs[j].aft = <<>> \/ (defs[j].aft \in Bytes(Size(defs[j].o))
                                                      /\ defs[j].aft = After(i, defs[j].o))
    BY DEF Defined
  <2> QED BY <2>1, Started
<1>2. Grows(K0, K0)
  BY <1>1, GrowsRefl DEF Ready
<1>3. SplitAll(inst_handler(i))
  BY DEF Complete
<1>4. AllDefined(i, K0) /\ AllValid(i, K0)
  <2>1. /\ DOMAIN K0.dst = DOMAIN defs /\ \A j \in DOMAIN defs : K0.dst[j] = defs[j].o
        /\ DOMAIN K0.src = DOMAIN uses /\ \A k \in DOMAIN uses : Valid(i, K0.src[k])
        /\ \A j \in DOMAIN defs : Valid(i, K0.dst[j])
    <3>1. Shaped(i, K0, defs, uses)
      BY <1>2, Shape
    <3> HIDE DEF K0
    <3> QED BY <3>1 DEF Shaped
  <2> HIDE DEF K0
  <2>2. AllDefined(i, K0)
    BY <2>1 DEF AllDefined, Defined
  <2>3. AllValid(i, K0)
    BY <2>1 DEF AllValid
  <2> QED BY <2>2, <2>3
<1> QED BY <1>1, <1>2, <1>3, <1>4 DEF Good, Live

(* A handler that asserts nothing has made its nodes. *)
LEMMA Accepted ==
  ASSUME NEW i, Handled(i), NEW forms, NEW nodes, inst_handler(i) = Accept(i, forms, nodes)
  PROVE  inst_handler(i) = nodes /\ Form(i) \in forms
<1>1. 1 \in DOMAIN Unsupported /\ Unsupported[1].node = "assert"
  BY DEF Unsupported
<1>2. inst_handler(i) # Unsupported
  BY <1>1 DEF Handled
<1> QED BY <1>2 DEF Accept
(* A handler that accepts the instruction did not fail.                    *)
LEMMA NotAsserted ==
  ASSUME NEW i, Handled(i) PROVE inst_handler(i) # Unsupported
<1>1. 1 \in DOMAIN Unsupported /\ Unsupported[1].node = "assert"
  BY DEF Unsupported
<1> QED BY <1>1 DEF Handled

(* The effect of a write to one place, or to two. *)
LEMMA Writes ==
  ASSUME NEW i, NEW o
  PROVE  /\ \A v : Effect(i) = (o.place := v) => After(i, o) = v /\ Only(i, o)
         /\ \A v, w, p : Effect(i) = (o.place := v) ++ (p := w) =>
              After(i, o) = v /\ Changed(i) \subseteq {o.place, p}
         /\ \A v, w, p : p # o.place /\ Effect(i) = (p := w) ++ (o.place := v) => After(i, o) = v
         /\ Effect(i) = NoChange /\ o.place \in DOMAIN i.before => After(i, o) = Before(i, o)
<1>1. \A v : Effect(i) = (o.place := v) => After(i, o) = v /\ Only(i, o)
  BY DEF After, :=, ++, Only, Changed
<1>2. \A v, w, p : Effect(i) = (o.place := v) ++ (p := w) =>
        After(i, o) = v /\ Changed(i) \subseteq {o.place, p}
  BY DEF After, :=, ++, Changed
<1>3. \A v, w, p : p # o.place /\ Effect(i) = (p := w) ++ (o.place := v) => After(i, o) = v
  BY DEF After, :=, ++
<1>4. Effect(i) = NoChange /\ o.place \in DOMAIN i.before => After(i, o) = Before(i, o)
  BY DEF After, NoChange, ++, Before
<1> QED BY <1>1, <1>2, <1>3, <1>4

(***************************************************************************)
(* The nodes of handlers, from the left.                                   *)
(***************************************************************************)
(* Tuples, put together. *)
LEMMA Joins ==
  ASSUME NEW a, NEW b, NEW c, NEW d, NEW e
  PROVE  /\ <<a>> \o <<b>> = <<a, b>> /\ <<a, b>> \o <<c>> = <<a, b, c>>
         /\ <<a>> \o <<b, c>> = <<a, b, c>>
         /\ <<a, b, c>> \o <<d>> = <<a, b, c, d>> /\ <<a, b, c, d>> \o <<e>> = <<a, b, c, d, e>>
         /\ <<a, b>> \o <<c, d>> = <<a, b, c, d>>
<1>1. <<a>> \o <<b>> = <<a, b>>
  <2> DEFINE s == <<a>> \o <<b>>
  <2>1. s \in Seq({a, b}) /\ Len(s) = 2 /\ s[1] = a /\ s[2] = b
    OBVIOUS
  <2> HIDE DEF s
  <2>2. s = <<a, b>>
    BY <2>1
  <2> QED BY <2>2 DEF s
<1>2. <<a, b>> \o <<c>> = <<a, b, c>>
  <2> DEFINE s == <<a, b>> \o <<c>>
  <2>1. s \in Seq({a, b, c}) /\ Len(s) = 3 /\ s[1] = a /\ s[2] = b /\ s[3] = c
    OBVIOUS
  <2> HIDE DEF s
  <2>2. s = <<a, b, c>>
    BY <2>1
  <2> QED BY <2>2 DEF s
<1>3. <<a>> \o <<b, c>> = <<a, b, c>>
  <2> DEFINE s == <<a>> \o <<b, c>>
  <2>1. s \in Seq({a, b, c}) /\ Len(s) = 3 /\ s[1] = a /\ s[2] = b /\ s[3] = c
    OBVIOUS
  <2> HIDE DEF s
  <2>2. s = <<a, b, c>>
    BY <2>1
  <2> QED BY <2>2 DEF s
<1>4. <<a, b, c>> \o <<d>> = <<a, b, c, d>>
  <2> DEFINE s == <<a, b, c>> \o <<d>>
  <2>1. s \in Seq({a, b, c, d}) /\ Len(s) = 4 /\ s[1] = a /\ s[2] = b /\ s[3] = c /\ s[4] = d
    OBVIOUS
  <2> HIDE DEF s
  <2>2. s = <<a, b, c, d>>
    BY <2>1
  <2> QED BY <2>2 DEF s
<1>5. <<a, b, c, d>> \o <<e>> = <<a, b, c, d, e>>
  <2> DEFINE s == <<a, b, c, d>> \o <<e>>
  <2>1. s \in Seq({a, b, c, d, e}) /\ Len(s) = 5 /\ s[1] = a /\ s[2] = b /\ s[3] = c /\ s[4] = d
        /\ s[5] = e
    OBVIOUS
  <2> HIDE DEF s
  <2>2. s = <<a, b, c, d, e>>
    BY <2>1
  <2> QED BY <2>2 DEF s
<1>6. <<a, b>> \o <<c, d>> = <<a, b, c, d>>
  <2> DEFINE s == <<a, b>> \o <<c, d>>
  <2>1. s \in Seq({a, b, c, d}) /\ Len(s) = 4 /\ s[1] = a /\ s[2] = b /\ s[3] = c /\ s[4] = d
    OBVIOUS
  <2> HIDE DEF s
  <2>2. s = <<a, b, c, d>>
    BY <2>1
  <2> QED BY <2>2 DEF s
<1> QED BY <1>1, <1>2, <1>3, <1>4, <1>5, <1>6

(* Node sequences are associative, with the empty one. *)
LEMMA Assoc ==
  ASSUME NEW T, NEW p \in Seq(T), NEW q \in Seq(T), NEW r \in Seq(T)
  PROVE  <<>> \o p = p /\ p \o <<>> = p /\ (p \o q) \o r = p \o (q \o r)
<1>1. <<>> \o p = p /\ p \o <<>> = p
  OBVIOUS
<1>2. (p \o q) \o r = p \o (q \o r)
  OBVIOUS
<1> QED BY <1>1, <1>2

(* The first nodes of a handler. *)
LEMMA MadeFirst ==
  ASSUME NEW o
  PROVE  /\ Complete(DefineAt(o), <<Define(o)>>, <<>>)
         /\ Complete(UseAt(o), <<>>, <<Use(o)>>)
         /\ o.t # "mem" => Complete(<<Define(o)>>, <<Define(o)>>, <<>>)
         /\ o.t # "mem" => Complete(<<Use(o)>>, <<>>, <<Use(o)>>)
         /\ \A v : o.t # "mem" => Complete(<<DefineAs(o, v)>>, <<DefineAs(o, v)>>, <<>>)
         /\ \A v : o.t = "mem" => Complete(<<DefineAs(o, v), Split(o)>>, <<DefineAs(o, v)>>, <<>>)
<1>1. \A a, b : <<>> \o <<a>> = <<a>> /\ <<>> \o <<a, b>> = <<a, b>>
  <2> SUFFICES ASSUME NEW a, NEW b PROVE <<>> \o <<a>> = <<a>> /\ <<>> \o <<a, b>> = <<a, b>>
    OBVIOUS
  <2>1. <<a>> \in Seq({a, b}) /\ <<a, b>> \in Seq({a, b})
    OBVIOUS
  <2> QED BY <2>1, Assoc
<1>2. \A e : Append(<<>>, e) = <<e>>
  BY Tuples
<1>3. /\ \A p : Complete(<<>> \o DefineAt(p), Append(<<>>, Define(p)), <<>>)
      /\ \A p : Complete(<<>> \o UseAt(p), <<>>, Append(<<>>, Use(p)))
      /\ \A p : p.t # "mem" => Complete(<<>> \o <<Define(p)>>, Append(<<>>, Define(p)), <<>>)
      /\ \A p : p.t # "mem" => Complete(<<>> \o <<Use(p)>>, <<>>, Append(<<>>, Use(p)))
      /\ \A p, v : p.t # "mem" =>
           Complete(<<>> \o <<DefineAs(p, v)>>, Append(<<>>, DefineAs(p, v)), <<>>)
      /\ \A p, v : p.t = "mem" =>
           Complete(<<>> \o <<DefineAs(p, v), Split(p)>>, Append(<<>>, DefineAs(p, v)), <<>>)
  BY MadeNone, MadeThen
<1>4. <<>> \o DefineAt(o) = DefineAt(o) /\ <<>> \o UseAt(o) = UseAt(o)
  BY <1>1 DEF DefineAt, UseAt
<1>5. Complete(DefineAt(o), <<Define(o)>>, <<>>) /\ Complete(UseAt(o), <<>>, <<Use(o)>>)
  BY <1>2, <1>3, <1>4
<1>6. o.t # "mem" => Complete(<<Define(o)>>, <<Define(o)>>, <<>>)
      /\ Complete(<<Use(o)>>, <<>>, <<Use(o)>>)
  BY <1>1, <1>2, <1>3
<1>7. \A v : /\ o.t # "mem" => Complete(<<DefineAs(o, v)>>, <<DefineAs(o, v)>>, <<>>)
             /\ o.t = "mem" => Complete(<<DefineAs(o, v), Split(o)>>, <<DefineAs(o, v)>>, <<>>)
  BY <1>1, <1>2, <1>3
<1> QED BY <1>5, <1>6, <1>7

(* One node more. *)
LEMMA ThenDefineAt ==
  ASSUME NEW nodes, NEW defs, NEW uses, Complete(nodes, defs, uses), NEW o
  PROVE  Complete(nodes \o DefineAt(o), Append(defs, Define(o)), uses)
  BY MadeThen
(* The same for a use.                                                     *)
LEMMA ThenUseAt ==
  ASSUME NEW nodes, NEW defs, NEW uses, Complete(nodes, defs, uses), NEW o
  PROVE  Complete(nodes \o UseAt(o), defs, Append(uses, Use(o)))
  BY MadeThen
(* The same for a register's define, which needs no address.               *)
LEMMA ThenDefine ==
  ASSUME NEW nodes, NEW defs, NEW uses, Complete(nodes, defs, uses), NEW o, o.t # "mem"
  PROVE  Complete(nodes \o <<Define(o)>>, Append(defs, Define(o)), uses)
  BY MadeThen
(* The same for a register's use.                                          *)
LEMMA ThenUse ==
  ASSUME NEW nodes, NEW defs, NEW uses, Complete(nodes, defs, uses), NEW o, o.t # "mem"
  PROVE  Complete(nodes \o <<Use(o)>>, defs, Append(uses, Use(o)))
  BY MadeThen
(* The same for a define whose value the handler gives.                    *)
LEMMA ThenDefineAs ==
  ASSUME NEW nodes, NEW defs, NEW uses, Complete(nodes, defs, uses), NEW o, NEW v, o.t # "mem"
  PROVE  Complete(nodes \o <<DefineAs(o, v)>>, Append(defs, DefineAs(o, v)), uses)
  BY MadeThen

(* The patterns of handlers. *)
LEMMA Patterns ==
  ASSUME NEW a, NEW b
  PROVE  /\ Complete(DefineAt(a) \o UseAt(b), <<Define(a)>>, <<Use(b)>>)
         /\ a.t # "mem" /\ b.t # "mem" => Complete(<<Define(a), Use(b)>>, <<Define(a)>>, <<Use(b)>>)
         /\ a.t # "mem" => Complete(<<Define(a)>> \o UseAt(b), <<Define(a)>>, <<Use(b)>>)
         /\ Complete((DefineAt(a) \o UseAt(a)) \o UseAt(b), <<Define(a)>>, <<Use(a), Use(b)>>)
<1>1. \A e, f : Append(<<>>, e) = <<e>> /\ Append(<<e>>, f) = <<e, f>>
  BY Tuples
<1>2. Complete(DefineAt(a), <<Define(a)>>, <<>>)
      /\ (a.t # "mem" => Complete(<<Define(a)>>, <<Define(a)>>, <<>>))
  BY MadeFirst
<1>3. \A o : Complete(DefineAt(a) \o UseAt(o), <<Define(a)>>, <<Use(o)>>)
  <2>1. \A o : Complete(DefineAt(a) \o UseAt(o), <<Define(a)>>, Append(<<>>, Use(o)))
    BY <1>2, ThenUseAt
  <2> QED BY <1>1, <2>1
<1>4. a.t # "mem" => Complete(<<Define(a)>> \o UseAt(b), <<Define(a)>>, <<Use(b)>>)
  <2>1. a.t # "mem" => Complete(<<Define(a)>> \o UseAt(b), <<Define(a)>>, Append(<<>>, Use(b)))
    BY <1>2, ThenUseAt
  <2> QED BY <1>1, <2>1
<1>5. a.t # "mem" /\ b.t # "mem" => Complete(<<Define(a), Use(b)>>, <<Define(a)>>, <<Use(b)>>)
  <2>1. a.t # "mem" /\ b.t # "mem"
        => Complete(<<Define(a)>> \o <<Use(b)>>, <<Define(a)>>, Append(<<>>, Use(b)))
    BY <1>2, ThenUse
  <2>2. <<Define(a)>> \o <<Use(b)>> = <<Define(a), Use(b)>> /\ Append(<<>>, Use(b)) = <<Use(b)>>
    BY <1>1, Joins
  <2> QED BY <2>1, <2>2
<1>6. Complete((DefineAt(a) \o UseAt(a)) \o UseAt(b), <<Define(a)>>, <<Use(a), Use(b)>>)
  <2>1. Complete(DefineAt(a) \o UseAt(a), <<Define(a)>>, <<Use(a)>>)
    BY <1>3
  <2>2. Complete((DefineAt(a) \o UseAt(a)) \o UseAt(b), <<Define(a)>>, Append(<<Use(a)>>, Use(b)))
    BY <2>1, ThenUseAt
  <2>3. Append(<<Use(a)>>, Use(b)) = <<Use(a), Use(b)>>
    BY <1>1
  <2> QED BY <2>2, <2>3
<1> QED BY <1>3, <1>4, <1>5, <1>6

(***************************************************************************)
(* Instructions with one define.                                           *)
(***************************************************************************)
(* A single node. *)
LEMMA Single ==
  ASSUME NEW i \in Instances, NEW a, NEW uses,
         Complete(inst_handler(i), <<Define(a)>>, uses)
  PROVE  /\ Valid(i, a) /\ Size(a) \in {1, 2, 4, 8} /\ Before(i, a) \in Bytes(Size(a))
         /\ \A j \in DOMAIN <<Define(a)>> : <<Define(a)>>[j].aft = <<>>
         /\ \A L : Live(i, L) => /\ Ready(L) /\ L.dst[1] = a /\ DOMAIN L.dst = {1}
                                 /\ DOMAIN L.aft = {1} /\ DOMAIN L.bef = {1}
<1>1. DOMAIN <<Define(a)>> = {1} /\ <<Define(a)>>[1].o = a /\ <<Define(a)>>[1].aft = <<>>
  BY DEF Define
<1>2. Valid(i, a)
  BY <1>1, Valids
<1>3. \A L : Live(i, L) => Shaped(i, L, <<Define(a)>>, uses) /\ Ready(L)
  BY LiveShape
<1>4. \A L : Live(i, L) => /\ Ready(L) /\ L.dst[1] = a /\ DOMAIN L.dst = {1}
                           /\ DOMAIN L.aft = {1} /\ DOMAIN L.bef = {1}
  <2> SUFFICES ASSUME NEW L, Live(i, L)
               PROVE  /\ Ready(L) /\ L.dst[1] = a /\ DOMAIN L.dst = {1}
                      /\ DOMAIN L.aft = {1} /\ DOMAIN L.bef = {1}
    OBVIOUS
  <2>1. Shaped(i, L, <<Define(a)>>, uses) /\ Ready(L)
    BY <1>3
  <2>2. L.dst[1] = <<Define(a)>>[1].o
    BY <1>1, <2>1 DEF Shaped
  <2>3. DOMAIN L.dst = {1} /\ DOMAIN L.aft = {1} /\ DOMAIN L.bef = {1}
    BY <1>1, <2>1 DEF Shaped
  <2> QED BY <1>1, <2>1, <2>2, <2>3
<1>5. Size(a) \in {1, 2, 4, 8} /\ Before(i, a) \in Bytes(Size(a))
  BY <1>2 DEF Valid, Before
<1> QED BY <1>1, <1>2, <1>4, <1>5
(* A use of a handler. *)
LEMMA UseOf ==
  ASSUME NEW i \in Instances, NEW defs, NEW uses, Complete(inst_handler(i), defs, uses),
         NEW k \in DOMAIN uses, NEW b, uses[k] = Use(b)
  PROVE  /\ Valid(i, b) /\ Size(b) \in {1, 2, 4, 8} /\ Before(i, b) \in Bytes(Size(b))
         /\ \A L : Live(i, L) => /\ L.src[k] = b /\ k \in DOMAIN L.val
                                 /\ Known(L.val[k]) => L.val[k] \in Bytes(Size(b))
                                 /\ Known(L.val[k]) /\ Honest(i, L) => L.val[k] = Before(i, b)
                                 /\ b.t = "imm" => L.val[k] = Before(i, b)
<1>1. uses[k].o = b
  BY DEF Use
<1>2. Valid(i, b)
  BY <1>1, Valids
<1>3. \A L : Live(i, L) => Shaped(i, L, defs, uses) /\ Ready(L)
  BY LiveShape
<1>4. Size(b) \in {1, 2, 4, 8} /\ Before(i, b) \in Bytes(Size(b))
  BY <1>2 DEF Valid, Before
<1>5. ASSUME NEW L, Live(i, L)
      PROVE  /\ L.src[k] = b /\ k \in DOMAIN L.val
             /\ Known(L.val[k]) => L.val[k] \in Bytes(Size(b))
             /\ Known(L.val[k]) /\ Honest(i, L) => L.val[k] = Before(i, b)
             /\ b.t = "imm" => L.val[k] = Before(i, b)
  <2>1. L.src[k] = b /\ k \in DOMAIN L.val /\ (b.t = "imm" => L.val[k] = Before(i, b))
    BY <1>1, <1>3, <1>5 DEF Shaped
  <2>2. Known(L.val[k]) => L.val[k] \in Bytes(Size(b))
    BY <1>3, <1>5, <2>1 DEF Ready, Sized
  <2>3. Known(L.val[k]) /\ Honest(i, L) => L.val[k] = Before(i, b)
    BY <2>1 DEF Honest
  <2> QED BY <2>1, <2>2, <2>3
<1> QED BY <1>2, <1>4, <1>5

(* The only define, of the only place that is changed. *)
LEMMA OneDefined ==
  ASSUME NEW i, NEW a, Only(i, a), After(i, a) \in Bytes(Size(a))
  PROVE  Defined(i, <<Define(a)>>)
<1>1. DOMAIN <<Define(a)>> = {1} /\ <<Define(a)>>[1].o = a /\ <<Define(a)>>[1].aft = <<>>
  BY DEF Define
<1> QED BY <1>1 DEF Defined, Only

(* A define and a use, each the function of the other. *)
TiedBy(i, L, F, B, n, m) ==
  \E forward, back :
    /\ inst_resolver(i, L) = both_ways(L, 1, 1, forward, back)
    /\ Known(L.val[1]) => Fit(forward, m) = F[L.val[1]]
    /\ Known(L.aft[1]) => Fit(back, n) = B[L.aft[1]]
Tied(i, a, b, F, B) ==
  /\ F \in [Bytes(Size(b)) -> Bytes(Size(a))] /\ B \in [Bytes(Size(a)) -> Bytes(Size(b))]
  /\ \A v \in Bytes(Size(b)) : B[F[v]] = v
  /\ After(i, a) = F[Before(i, b)]
  /\ \A L : Live(i, L) => TiedBy(i, L, F, B, Size(b), Size(a))
(* An instruction with one use and one define, each a function of the      *)
(* other.                                                                  *)
LEMMA OneTie ==
  ASSUME NEW i \in Instances, i.op \notin {"mul", "div"}, NEW a, NEW b, Only(i, a),
         Complete(inst_handler(i), <<Define(a)>>, <<Use(b)>>), NEW F, NEW B, Tied(i, a, b, F, B)
  PROVE  Good(i)
<1>1. /\ Size(a) \in {1, 2, 4, 8} /\ Before(i, a) \in Bytes(Size(a))
      /\ \A j \in DOMAIN <<Define(a)>> : <<Define(a)>>[j].aft = <<>>
      /\ \A L : Live(i, L) => Ready(L) /\ L.dst[1] = a /\ DOMAIN L.aft = {1} /\ DOMAIN L.bef = {1}
  BY Single
<1>2. /\ Size(b) \in {1, 2, 4, 8} /\ Before(i, b) \in Bytes(Size(b))
      /\ \A L : Live(i, L) => L.src[1] = b /\ 1 \in DOMAIN L.val
  <2>1. 1 \in DOMAIN <<Use(b)>> /\ <<Use(b)>>[1] = Use(b)
    OBVIOUS
  <2> QED BY <2>1, UseOf
<1>3. ASSUME NEW K1, Live(i, K1) PROVE Resolved(i, K1, inst_resolver(i, K1))
  <2> DEFINE n == Size(b)
             m == Size(a)
             K2 == inst_resolver(i, K1)
  <2>0. n \in Nat \ {0} /\ m \in Nat \ {0}
    BY <1>1, <1>2
  <2>1. PICK forward, back : /\ K2 = both_ways(K1, 1, 1, forward, back)
                             /\ Known(K1.val[1]) => Fit(forward, m) = F[K1.val[1]]
                             /\ Known(K1.aft[1]) => Fit(back, n) = B[K1.aft[1]]
    BY <1>3 DEF Tied, TiedBy
  <2>2. Grows(K1, K2)
    BY <1>3, <2>1, PatternsGrow DEF Live, Ready
  <2> HIDE DEF K2, n, m
  <2>3. Fine(i, K1, K2) /\ Apart(K1, K2, 1, 1) /\ (K2.out = "ok" => Bound(K2, 1, 1, B))
    <3>1. /\ Ready(K1) /\ 1 \in DOMAIN K1.val /\ 1 \in DOMAIN K1.aft
          /\ Size(K1.src[1]) = n /\ Size(K1.dst[1]) = m
          /\ F \in [Bytes(n) -> Bytes(m)] /\ B \in [Bytes(m) -> Bytes(n)]
          /\ \A v \in Bytes(n) : B[F[v]] = v
          /\ Before(i, K1.src[1]) \in Bytes(n)
          /\ Honest(i, K1) => After(i, K1.dst[1]) = F[Before(i, K1.src[1])]
      BY <1>1, <1>2, <1>3 DEF Tied, n, m
    <3> QED BY <2>0, <2>1, <3>1, Tie
  <2>4. ASSUME K2.out = "ok"
        PROVE  inst_resolver(i, K2) = K2 /\ (AllRead(K2) => AllWritten(K2))
    <3>1. Live(i, K2)
      BY <1>3, <2>2, <2>3, <2>4, LiveOn
    <3>2. PICK forward2, back2 : /\ inst_resolver(i, K2) = both_ways(K2, 1, 1, forward2, back2)
                                 /\ Known(K2.aft[1]) => Fit(back2, n) = B[K2.aft[1]]
      BY <3>1 DEF Tied, TiedBy, n
    <3>3. /\ Knowledge(K2) /\ 1 \in DOMAIN K2.val /\ 1 \in DOMAIN K2.aft /\ DOMAIN K2.aft = {1}
          /\ Size(K2.src[1]) = n
      BY <1>1, <1>2, <3>1 DEF Ready, n
    <3>4. both_ways(K2, 1, 1, forward2, back2) = K2
      BY <2>3, <2>4, <3>2, <3>3, BoundStays
    <3>5. AllRead(K2) => AllWritten(K2)
      BY <2>3, <2>4, <3>3 DEF AllRead, AllWritten, Bound
    <3> QED BY <3>2, <3>4, <3>5
  <2> QED BY <2>3, <2>4 DEF Resolved, K2
<1>4. Defined(i, <<Define(a)>>)
  <2>1. After(i, a) \in Bytes(Size(a))
    BY <1>2 DEF Tied
  <2> QED BY <2>1, OneDefined
<1> QED BY <1>3, <1>4, LiveFirst

(* A define that is computed from uses. *)
ComputedBy(i, L, a, U, f) ==
  /\ \A L2 : Live(i, L2) /\ L2.val = L.val => inst_resolver(i, L2) = forward_only(L2, U, 1, f)
  /\ sees(L, U, {}) => Fit(f, Size(a)) \in Bytes(Size(a))
  /\ sees(L, U, {}) /\ Honest(i, L) => Fit(f, Size(a)) = After(i, a)
(* An instruction whose only define is computed from uses, and never back. *)
LEMMA OneComputed ==
  ASSUME NEW i \in Instances, NEW a, NEW uses,
         Complete(inst_handler(i), <<Define(a)>>, uses), Only(i, a), After(i, a) \in Bytes(Size(a)),
         NEW U, U \subseteq DOMAIN uses, \A L : Live(i, L) => \E f : ComputedBy(i, L, a, U, f)
  PROVE  Good(i)
<1>1. /\ Size(a) \in {1, 2, 4, 8}
      /\ \A j \in DOMAIN <<Define(a)>> : <<Define(a)>>[j].aft = <<>>
      /\ \A L : Live(i, L) => Ready(L) /\ L.dst[1] = a /\ DOMAIN L.aft = {1}
  BY Single
<1>2. \A L : Live(i, L) => Shaped(i, L, <<Define(a)>>, uses)
  BY LiveShape
<1>3. ASSUME NEW K1, Live(i, K1) PROVE Resolved(i, K1, inst_resolver(i, K1))
  <2> DEFINE m == Size(a)
             K2 == inst_resolver(i, K1)
  <2>0. m \in Nat \ {0}
    BY <1>1
  <2>1. PICK f : ComputedBy(i, K1, a, U, f)
    BY <1>3
  <2>2. K2 = forward_only(K1, U, 1, f)
    BY <1>3, <2>1 DEF ComputedBy
  <2>3. Grows(K1, K2)
    BY <1>3, <2>2, PatternsGrow DEF Live, Ready
  <2> HIDE DEF K2
  <2>4. /\ Fine(i, K1, K2) /\ OnlyDefine(K1, K2, 1)
        /\ K2.out = "ok" /\ sees(K1, U, {}) => Known(K2.aft[1])
        /\ K2.out = "ok" => forward_only(K2, U, 1, f) = K2
    <3>1. /\ Ready(K1) /\ 1 \in DOMAIN K1.aft /\ Size(K1.dst[1]) = m
          /\ sees(K1, U, {}) => Fit(f, m) \in Bytes(m)
          /\ sees(K1, U, {}) /\ Honest(i, K1) => Fit(f, m) = After(i, K1.dst[1])
      BY <1>1, <1>3, <2>1 DEF ComputedBy
    <3> HIDE DEF m
    <3> QED BY <2>0, <2>2, <3>1, Computes
  <2>5. ASSUME K2.out = "ok"
        PROVE  inst_resolver(i, K2) = K2 /\ (AllRead(K2) => AllWritten(K2))
    <3>1. Live(i, K2)
      BY <1>3, <2>3, <2>4, <2>5, LiveOn
    <3>2. K2.val = K1.val
      BY <2>4 DEF OnlyDefine
    <3>3. inst_resolver(i, K2) = K2
      BY <2>1, <2>4, <2>5, <3>1, <3>2 DEF ComputedBy
    <3>4. AllRead(K2) => sees(K1, U, {})
      <4>1. DOMAIN K1.val = DOMAIN uses
        BY <1>2, <1>3 DEF Shaped
      <4> QED BY <3>2, <4>1 DEF AllRead, sees
    <3>5. DOMAIN K2.aft = {1}
      BY <1>1, <3>1
    <3> QED BY <2>4, <2>5, <3>3, <3>4, <3>5 DEF AllWritten
  <2> QED BY <2>4, <2>5 DEF Resolved, K2
<1>4. Defined(i, <<Define(a)>>)
  BY OneDefined
<1> QED BY <1>3, <1>4, LiveFirst

(* A resolver that concludes nothing. *)
(* Instructions of which nothing is concluded. *)
LEMMA NothingSaid ==
  ASSUME NEW i \in Instances, NEW defs, NEW uses, Complete(inst_handler(i), defs, uses),
         Defined(i, defs),
         \A L : Live(i, L) => inst_resolver(i, L) = L,
         Silent(i) \/ \A L : Live(i, L) => AllWritten(L)
  PROVE  Good(i)
<1>1. ASSUME NEW K1, Live(i, K1) PROVE Resolved(i, K1, inst_resolver(i, K1))
  <2>1. inst_resolver(i, K1) = K1 /\ Fine(i, K1, K1)
    BY <1>1, FineRefl DEF Live
  <2> QED BY <1>1, <2>1 DEF Resolved
<1> QED BY <1>1, LiveFirst

(***************************************************************************)
(* An operand that is made from itself.                                    *)
(***************************************************************************)
(* F is what the instruction does to the value of the operand, and B undoes it. *)
SelfMade(i, a, F, B) ==
  /\ \A v \in Bytes(Size(a)) : /\ F[v] \in Bytes(Size(a)) /\ B[v] \in Bytes(Size(a))
                                /\ B[F[v]] = v
  /\ F = [v \in Bytes(Size(a)) |-> F[v]] /\ B = [v \in Bytes(Size(a)) |-> B[v]]
  /\ After(i, a) = F[Before(i, a)]
  /\ \A L : Live(i, L) => \E forward, back :
       /\ inst_resolver(i, L) = both_ways(L, 1, 1, forward, back)
       /\ L.val[1] \in Bytes(Size(a)) => forward = F[L.val[1]]
       /\ L.aft[1] \in Bytes(Size(a)) => back = B[L.aft[1]]
(* An instruction that changes one operand in a way that can be undone.    *)
LEMMA OneSelf ==
  ASSUME NEW i \in Instances, i.op \notin {"mul", "div"}, NEW a, Only(i, a),
         Complete(inst_handler(i), <<Define(a)>>, <<Use(a)>>), NEW F, NEW B, SelfMade(i, a, F, B)
  PROVE  Good(i)
<1> DEFINE s == Size(a)
<1>0. s \in {1, 2, 4, 8} /\ s \in Nat \ {0}
  <2>1. Size(a) \in {1, 2, 4, 8}
    BY Single
  <2> QED BY <2>1
<1>1. ASSUME NEW L, Live(i, L) PROVE TiedBy(i, L, F, B, s, s)
  <2>1. PICK forward, back :
           /\ inst_resolver(i, L) = both_ways(L, 1, 1, forward, back)
           /\ L.val[1] \in Bytes(s) => forward = F[L.val[1]]
           /\ L.aft[1] \in Bytes(s) => back = B[L.aft[1]]
    BY <1>1 DEF SelfMade
  <2>2. Ready(L) /\ L.dst[1] = a /\ 1 \in DOMAIN L.aft
    <3>1. \A L2 : Live(i, L2) => Ready(L2) /\ L2.dst[1] = a /\ DOMAIN L2.aft = {1}
      BY Single
    <3> QED BY <1>1, <3>1
  <2>3. Known(L.val[1]) => L.val[1] \in Bytes(s)
    <3>1. 1 \in DOMAIN <<Use(a)>> /\ <<Use(a)>>[1] = Use(a)
      OBVIOUS
    <3>2. \A L2 : Live(i, L2) /\ Known(L2.val[1]) => L2.val[1] \in Bytes(Size(a))
      BY <3>1, UseOf
    <3> QED BY <1>1, <3>2
  <2>4. Known(L.aft[1]) => L.aft[1] \in Bytes(s)
    BY <2>2 DEF Ready, Sized
  <2>5. \A v \in Bytes(s) : Fit(F[v], s) = F[v] /\ Fit(B[v], s) = B[v]
    <3>1. \A v \in Bytes(s) : F[v] \in Bytes(s) /\ B[v] \in Bytes(s)
      BY DEF SelfMade
    <3>2. \A v \in Bytes(s) : Fit(v, s) = v
      BY <1>0, BytesKnown
    <3> QED BY <3>1, <3>2
  <2>6. Known(L.val[1]) => Fit(forward, s) = F[L.val[1]]
    BY <2>1, <2>3, <2>5
  <2>7. Known(L.aft[1]) => Fit(back, s) = B[L.aft[1]]
    BY <2>1, <2>4, <2>5
  <2> QED BY <2>1, <2>6, <2>7 DEF TiedBy
<1>2. Tied(i, a, a, F, B)
  <2>1. F \in [Bytes(s) -> Bytes(s)] /\ B \in [Bytes(s) -> Bytes(s)]
    BY DEF SelfMade
  <2>2. (\A v \in Bytes(s) : B[F[v]] = v) /\ After(i, a) = F[Before(i, a)]
    BY DEF SelfMade
  <2> QED BY <1>1, <2>1, <2>2 DEF Tied
<1> QED BY <1>2, OneTie

(***************************************************************************)
(* Instructions that compute a define from one use or from two.            *)
(***************************************************************************)
OneFrom(i, a, b, G) ==
  /\ \A v \in Bytes(Size(b)) : G[v] \in Bytes(Size(a))
  /\ After(i, a) = G[Before(i, b)]
  /\ \A L : Live(i, L) /\ Known(L.val[1]) => inst_resolver(i, L) = tell(L, "aft", 1, G[L.val[1]])
  /\ \A L : Live(i, L) /\ ~ Known(L.val[1]) => inst_resolver(i, L) = L
(* An instruction whose define is a function of its first use.             *)
LEMMA Computed1 ==
  ASSUME NEW i \in Instances, NEW a, NEW b, NEW uses,
         Complete(inst_handler(i), <<Define(a)>>, uses), 1 \in DOMAIN uses, uses[1] = Use(b),
         Only(i, a), NEW G, OneFrom(i, a, b, G)
  PROVE  Good(i)
<1>1. /\ Before(i, b) \in Bytes(Size(b))
      /\ \A L : Live(i, L) => /\ 1 \in DOMAIN L.val
                              /\ Known(L.val[1]) => L.val[1] \in Bytes(Size(b))
                              /\ Known(L.val[1]) /\ Honest(i, L) => L.val[1] = Before(i, b)
  BY UseOf
<1>2. Size(a) \in Nat \ {0}
  <2>1. Size(a) \in {1, 2, 4, 8}
    BY Single
  <2> QED BY <2>1
<1>3. ASSUME NEW L, Live(i, L) PROVE \E f : ComputedBy(i, L, a, {1}, f)
  <2> DEFINE f == G[L.val[1]]
  <2>1. \A L2 : sees(L2, {1}, {}) <=> Known(L2.val[1])
    BY DEF sees
  <2>2. \A L2 : Live(i, L2) /\ L2.val = L.val => inst_resolver(i, L2) = forward_only(L2, {1}, 1, f)
    BY <2>1 DEF OneFrom, forward_only
  <2>3. sees(L, {1}, {}) => f \in Bytes(Size(a)) /\ Fit(f, Size(a)) = f
    <3>1. \A v \in Bytes(Size(a)) : Fit(v, Size(a)) = v
      BY <1>2, BytesKnown
    <3> QED BY <1>1, <1>3, <2>1, <3>1 DEF OneFrom
  <2>4. sees(L, {1}, {}) /\ Honest(i, L) => f = After(i, a)
    BY <1>1, <1>3, <2>1 DEF OneFrom
  <2> HIDE DEF f
  <2> QED BY <2>2, <2>3, <2>4 DEF ComputedBy
<1>4. {1} \subseteq DOMAIN uses
  OBVIOUS
<1>5. After(i, a) \in Bytes(Size(a))
  BY <1>1 DEF OneFrom
<1> QED BY <1>3, <1>4, <1>5, OneComputed

TwoFrom(i, a, b, G) ==
  /\ \A v \in Bytes(Size(a)), w \in Bytes(Size(b)) : G[<<v, w>>] \in Bytes(Size(a))
  /\ After(i, a) = G[<<Before(i, a), Before(i, b)>>]
  /\ \A L : Live(i, L) /\ L.val[1] \in Bytes(Size(a)) /\ L.val[2] \in Bytes(Size(b)) =>
       inst_resolver(i, L) = tell(L, "aft", 1, G[<<L.val[1], L.val[2]>>])
  /\ \A L : Live(i, L) /\ (~ Known(L.val[1]) \/ ~ Known(L.val[2])) => inst_resolver(i, L) = L

(* What the two uses of dst := dst op src hold. *)
TwoRead(i, a, b) ==
  /\ Valid(i, a) /\ Valid(i, b) /\ Size(a) \in {1, 2, 4, 8} /\ Size(b) \in {1, 2, 4, 8}
  /\ Before(i, a) \in Bytes(Size(a)) /\ Before(i, b) \in Bytes(Size(b))
  /\ \A L : Live(i, L) =>
       /\ Ready(L) /\ L.dst[1] = a /\ DOMAIN L.aft = {1}
       /\ L.src[1] = a /\ L.src[2] = b /\ 1 \in DOMAIN L.val /\ 2 \in DOMAIN L.val
       /\ Known(L.val[1]) => L.val[1] \in Bytes(Size(a))
       /\ Known(L.val[2]) => L.val[2] \in Bytes(Size(b))
       /\ Known(L.val[1]) /\ Honest(i, L) => L.val[1] = Before(i, a)
       /\ Known(L.val[2]) /\ Honest(i, L) => L.val[2] = Before(i, b)
       /\ b.t = "imm" => L.val[2] = Before(i, b)
TwoUses(i, a, b) ==
  Complete(inst_handler(i), <<Define(a)>>, <<Use(a), Use(b)>>) /\ TwoRead(i, a, b)
(* The handler's two uses are the first two values of the resolver.        *)
LEMMA TwoReadOf ==
  ASSUME NEW i \in Instances, NEW a, NEW b, NEW defs, DOMAIN defs = {1}, defs[1].o = a,
         Complete(inst_handler(i), defs, <<Use(a), Use(b)>>)
  PROVE  TwoRead(i, a, b)
<1> DEFINE uses == <<Use(a), Use(b)>>
<1>1. 1 \in DOMAIN uses /\ uses[1] = Use(a) /\ 2 \in DOMAIN uses /\ uses[2] = Use(b)
  OBVIOUS
<1>2. Complete(inst_handler(i), defs, uses)
  OBVIOUS
<1> HIDE DEF uses
<1>3. /\ Valid(i, a) /\ Size(a) \in {1, 2, 4, 8} /\ Before(i, a) \in Bytes(Size(a))
      /\ \A L : Live(i, L) => /\ L.src[1] = a /\ 1 \in DOMAIN L.val
                              /\ Known(L.val[1]) => L.val[1] \in Bytes(Size(a))
                              /\ Known(L.val[1]) /\ Honest(i, L) => L.val[1] = Before(i, a)
  BY <1>1, <1>2, UseOf
<1>4. /\ Valid(i, b) /\ Size(b) \in {1, 2, 4, 8} /\ Before(i, b) \in Bytes(Size(b))
      /\ \A L : Live(i, L) => /\ L.src[2] = b /\ 2 \in DOMAIN L.val
                              /\ Known(L.val[2]) => L.val[2] \in Bytes(Size(b))
                              /\ Known(L.val[2]) /\ Honest(i, L) => L.val[2] = Before(i, b)
                              /\ b.t = "imm" => L.val[2] = Before(i, b)
  BY <1>1, <1>2, UseOf
<1>5. \A L : Live(i, L) => Ready(L) /\ L.dst[1] = a /\ DOMAIN L.aft = {1}
  <2> SUFFICES ASSUME NEW L, Live(i, L) PROVE Ready(L) /\ L.dst[1] = a /\ DOMAIN L.aft = {1}
    OBVIOUS
  <2>1. Shaped(i, L, defs, uses) /\ Ready(L)
    BY <1>2, LiveShape
  <2>2. 1 \in DOMAIN defs
    OBVIOUS
  <2> QED BY <2>1, <2>2 DEF Shaped
<1> QED BY <1>3, <1>4, <1>5 DEF TwoRead
(* The same for nodes written out.                                         *)
LEMMA TwoUsesOf ==
  ASSUME NEW i \in Instances, NEW a, NEW b,
         Complete(inst_handler(i), <<Define(a)>>, <<Use(a), Use(b)>>)
  PROVE  TwoUses(i, a, b)
<1>1. DOMAIN <<Define(a)>> = {1} /\ <<Define(a)>>[1].o = a
  BY DEF Define
<1> QED BY <1>1, TwoReadOf DEF TwoUses
(* The same for the handlers that define and use dst and use src.          *)
LEMMA DstSrcUses ==
  ASSUME NEW i \in Instances, Handled(i), NEW forms, inst_handler(i) = Accept(i, forms, DstSrc(i))
  PROVE  TwoUses(i, i.dst, i.src) /\ Form(i) \in forms
<1>1. inst_handler(i) = DstSrc(i) /\ Form(i) \in forms
  BY Accepted
<1>2. Complete(DstSrc(i), <<Define(i.dst)>>, <<Use(i.dst), Use(i.src)>>)
  BY Patterns DEF DstSrc
<1> QED BY <1>1, <1>2, TwoUsesOf

(* An instruction whose define is a function of both of its uses.          *)
LEMMA Computed2 ==
  ASSUME NEW i \in Instances, NEW a, NEW b, TwoUses(i, a, b), Only(i, a), NEW G, TwoFrom(i, a, b, G)
  PROVE  Good(i)
<1> DEFINE uses == <<Use(a), Use(b)>>
<1>1. Complete(inst_handler(i), <<Define(a)>>, uses) /\ DOMAIN uses = {1, 2}
  BY DEF TwoUses, TwoRead
<1> HIDE DEF uses
<1>2. Size(a) \in Nat \ {0}
  BY DEF TwoUses, TwoRead
<1>3. ASSUME NEW L, Live(i, L) PROVE \E f : ComputedBy(i, L, a, {1, 2}, f)
  <2> DEFINE f == G[<<L.val[1], L.val[2]>>]
  <2>1. \A L2 : sees(L2, {1, 2}, {}) <=> Known(L2.val[1]) /\ Known(L2.val[2])
    BY DEF sees
  <2>2. ASSUME NEW L2, Live(i, L2), L2.val = L.val
        PROVE  inst_resolver(i, L2) = forward_only(L2, {1, 2}, 1, f)
    <3>1. CASE Known(L2.val[1]) /\ Known(L2.val[2])
      <4>1. L2.val[1] \in Bytes(Size(a)) /\ L2.val[2] \in Bytes(Size(b))
        BY <2>2, <3>1 DEF TwoUses, TwoRead
      <4>2. inst_resolver(i, L2) = tell(L2, "aft", 1, f)
        BY <2>2, <4>1 DEF TwoFrom
      <4> HIDE DEF f
      <4> QED BY <2>1, <3>1, <4>2 DEF forward_only
    <3>2. CASE ~ (Known(L2.val[1]) /\ Known(L2.val[2]))
      <4>1. inst_resolver(i, L2) = L2
        BY <2>2, <3>2 DEF TwoFrom
      <4> QED BY <2>1, <3>2, <4>1 DEF forward_only
    <3> QED BY <3>1, <3>2
  <2>3. sees(L, {1, 2}, {}) => f \in Bytes(Size(a)) /\ Fit(f, Size(a)) = f
    <3>1. \A v \in Bytes(Size(a)) : Fit(v, Size(a)) = v
      BY <1>2, BytesKnown
    <3>2. sees(L, {1, 2}, {}) => L.val[1] \in Bytes(Size(a)) /\ L.val[2] \in Bytes(Size(b))
      BY <1>3, <2>1 DEF TwoUses, TwoRead
    <3>3. sees(L, {1, 2}, {}) => f \in Bytes(Size(a))
      BY <3>2 DEF TwoFrom
    <3> QED BY <3>1, <3>3
  <2>4. sees(L, {1, 2}, {}) /\ Honest(i, L) => f = After(i, a)
    <3>1. sees(L, {1, 2}, {}) /\ Honest(i, L) => L.val[1] = Before(i, a) /\ L.val[2] = Before(i, b)
      BY <1>3, <2>1 DEF TwoUses, TwoRead
    <3> QED BY <3>1 DEF TwoFrom
  <2> HIDE DEF f
  <2> QED BY <2>2, <2>3, <2>4 DEF ComputedBy
<1>4. {1, 2} \subseteq DOMAIN uses
  BY <1>1
<1>5. After(i, a) \in Bytes(Size(a))
  BY DEF TwoFrom, TwoUses, TwoRead
<1> QED BY <1>1, <1>3, <1>4, <1>5, OneComputed

(***************************************************************************)
(* A define that is only computed from its source.                         *)
(***************************************************************************)
(* One use, and the resolver that computes from it. *)
LEMMA ComputedFrom ==
  ASSUME NEW i \in Instances, NEW a, NEW b, NEW uses,
         Complete(inst_handler(i), <<Define(a)>>, uses), 1 \in DOMAIN uses, uses[1] = Use(b),
         NEW n, n = Size(b), NEW G,
         \A v \in Bytes(n) : G[v] \in Bytes(Size(a)), After(i, a) = G[Before(i, b)], Only(i, a),
         \A L : Live(i, L) => \E f : /\ inst_resolver(i, L) = forward_only(L, {1}, 1, f)
                                     /\ L.val[1] \in Bytes(n) => f = G[L.val[1]]
  PROVE  Good(i)
<1>1. \A L : Live(i, L) => (Known(L.val[1]) => L.val[1] \in Bytes(n))
  BY UseOf
<1>2. \A L : Live(i, L) /\ Known(L.val[1]) => inst_resolver(i, L) = tell(L, "aft", 1, G[L.val[1]])
  BY <1>1 DEF forward_only, sees
<1>3. \A L : Live(i, L) /\ ~ Known(L.val[1]) => inst_resolver(i, L) = L
  BY DEF forward_only, sees
<1>4. OneFrom(i, a, b, G)
  BY <1>2, <1>3 DEF OneFrom
<1> QED BY <1>4, Computed1

(***************************************************************************)
(* A result of two operands, of which either can be computed back.         *)
(***************************************************************************)
Reversible(i, a, b, G, A1, B1) ==
  /\ \A v \in Bytes(Size(a)), w \in Bytes(Size(b)) :
       G[<<v, w>>] \in Bytes(Size(a)) /\ A1[<<w, G[<<v, w>>]>>] = v
  /\ \A r \in Bytes(Size(a)), w \in Bytes(Size(b)) :
       A1[<<w, r>>] \in Bytes(Size(a)) /\ G[<<A1[<<w, r>>], w>>] = r
  /\ b.t # "imm" =>
       /\ \A v \in Bytes(Size(a)), w \in Bytes(Size(b)) : B1[<<v, G[<<v, w>>]>>] = w
       /\ \A v, r \in Bytes(Size(a)) :
            B1[<<v, r>>] \in Bytes(Size(b)) /\ G[<<v, B1[<<v, r>>]>>] = r
  /\ After(i, a) = G[<<Before(i, a), Before(i, b)>>]

(* What a resolver computes of them. *)
TwoWay(L, f, first, second, m, n, G, A1, B1) ==
  /\ Known(L.val[1]) /\ Known(L.val[2]) => f = G[<<L.val[1], L.val[2]>>]
  /\ Known(L.val[2]) /\ Known(L.aft[1]) => Fit(first, m) = A1[<<L.val[2], L.aft[1]>>]
  /\ Known(L.val[1]) /\ ~ Known(L.val[2]) /\ Known(L.aft[1]) =>
       Fit(second, n) = B1[<<L.val[1], L.aft[1]>>]
Joint(L, G) ==
  \/ Known(L.val[1]) /\ Known(L.val[2])
  \/ Known(L.val[1]) /\ Known(L.aft[1])
  \/ Known(L.val[2]) /\ Known(L.aft[1])
  => /\ Known(L.val[1]) /\ Known(L.val[2]) /\ Known(L.aft[1])
     /\ L.aft[1] = G[<<L.val[1], L.val[2]>>]

(* from_two computes any one of two uses and their define from the others. *)
LEMMA FromTwo ==
  ASSUME NEW i \in Instances, NEW a, NEW b, TwoRead(i, a, b), NEW G, NEW A1, NEW B1,
         Reversible(i, a, b, G, A1, B1), NEW K1, Live(i, K1),
         NEW f, NEW first, NEW second, TwoWay(K1, f, first, second, Size(a), Size(b), G, A1, B1),
         NEW K2, K2 = from_two(K1, f, first, second)
  PROVE  Fine(i, K1, K2) /\ Grows(K1, K2) /\ (K2.out = "ok" => Joint(K2, G))
<1> DEFINE m == Size(a)
           n == Size(b)
<1>1. /\ Ready(K1) /\ K1.dst[1] = a /\ DOMAIN K1.aft = {1} /\ K1.src[1] = a /\ K1.src[2] = b
      /\ 1 \in DOMAIN K1.val /\ 2 \in DOMAIN K1.val
      /\ Known(K1.val[1]) => K1.val[1] \in Bytes(m)
      /\ Known(K1.val[2]) => K1.val[2] \in Bytes(n)
      /\ Known(K1.val[1]) /\ Honest(i, K1) => K1.val[1] = Before(i, a)
      /\ Known(K1.val[2]) /\ Honest(i, K1) => K1.val[2] = Before(i, b)
      /\ b.t = "imm" => Known(K1.val[2])
      /\ m \in Nat \ {0} /\ n \in Nat \ {0} /\ Before(i, a) \in Bytes(m)
         /\ Before(i, b) \in Bytes(n)
  <2>1. /\ m \in Nat \ {0} /\ n \in Nat \ {0} /\ Before(i, a) \in Bytes(m)
           /\ Before(i, b) \in Bytes(n)
    BY DEF TwoUses, TwoRead
  <2>2. Known(Before(i, b))
    BY <2>1, BytesKnown
  <2> QED BY <2>1, <2>2 DEF TwoUses, TwoRead
<1>2. /\ Known(K1.aft[1]) => K1.aft[1] \in Bytes(m)
      /\ Known(K1.aft[1]) /\ Honest(i, K1) => K1.aft[1] = After(i, a)
  BY <1>1 DEF Ready, Sized, Honest
<1>3. \A v : v \in Bytes(m) \cup Bytes(n) => Known(v)
  BY <1>1, BytesKnown
<1>4. \A v \in Bytes(m) : Fit(v, m) = v
  BY <1>1, BytesKnown
<1>5. SizeAt(K1, "aft", 1) = m /\ SizeAt(K1, "val", 1) = m /\ SizeAt(K1, "val", 2) = n
  BY <1>1 DEF SizeAt
<1>6. /\ RightAt(i, K1, "aft", 1) = After(i, a) /\ RightAt(i, K1, "val", 1) = Before(i, a)
      /\ RightAt(i, K1, "val", 2) = Before(i, b) /\ "aft" \in Sides /\ "val" \in Sides
  BY <1>1 DEF RightAt, Sides
<1>7. Grows(K1, K2)
  BY <1>1, PatternsGrow DEF Ready
<1> HIDE DEF m, n
<1>8. CASE Known(K1.val[1]) /\ Known(K1.val[2])
  <2>1. K2 = tell(K1, "aft", 1, f)
    BY <1>8 DEF from_two, sees
  <2>2. f = G[<<K1.val[1], K1.val[2]>>] /\ f \in Bytes(m) /\ Fit(f, m) = f
    <3>1. f = G[<<K1.val[1], K1.val[2]>>]
      BY <1>8 DEF TwoWay
    <3>2. \A v \in Bytes(m), w \in Bytes(n) : G[<<v, w>>] \in Bytes(m)
      BY DEF Reversible, m, n
    <3>3. K1.val[1] \in Bytes(m) /\ K1.val[2] \in Bytes(n)
      BY <1>1, <1>8
    <3> QED BY <1>4, <3>1, <3>2, <3>3
  <2>3. Honest(i, K1) => f = After(i, a)
    BY <1>1, <1>8, <2>2 DEF Reversible
  <2>4. Fine(i, K1, K2) /\ Told(K1, K2, "aft", 1, f)
    BY <1>1, <1>5, <1>6, <2>1, <2>2, <2>3, TellFine
  <2>5. K2.val = K1.val /\ (K2.out = "ok" => K2.aft[1] = f)
    BY <2>4 DEF Told, Sides
  <2>6. K2.out = "ok" => Joint(K2, G)
    BY <1>3, <1>8, <2>2, <2>5 DEF Joint
  <2> QED BY <1>7, <2>4, <2>6
<1>9. CASE Known(K1.val[1]) /\ ~ Known(K1.val[2]) /\ Known(K1.aft[1])
  <2> DEFINE w == B1[<<K1.val[1], K1.aft[1]>>]
  <2>1. K2 = tell(K1, "val", 2, second)
    BY <1>9 DEF from_two, sees
  <2>2. w \in Bytes(n) /\ Fit(second, n) = w /\ G[<<K1.val[1], w>>] = K1.aft[1]
    BY <1>1, <1>2, <1>9 DEF TwoWay, Reversible, m, n
  <2>3. Honest(i, K1) => w = Before(i, b)
    <3>a. \A v \in Bytes(m), u \in Bytes(n) : B1[<<v, G[<<v, u>>]>>] = u
      BY <1>1, <1>9 DEF Reversible, m, n
    <3>1. B1[<<Before(i, a), G[<<Before(i, a), Before(i, b)>>]>>] = Before(i, b)
      BY <1>1, <3>a
    <3>2. After(i, a) = G[<<Before(i, a), Before(i, b)>>]
      BY DEF Reversible
    <3>3. Honest(i, K1) => K1.val[1] = Before(i, a) /\ K1.aft[1] = After(i, a)
      BY <1>1, <1>2, <1>9
    <3> QED BY <3>1, <3>2, <3>3
  <2> HIDE DEF w
  <2>4. Fine(i, K1, K2) /\ Told(K1, K2, "val", 2, w)
    BY <1>1, <1>5, <1>6, <2>1, <2>2, <2>3, TellFine
  <2>5. K2.aft = K1.aft /\ K2.val[1] = K1.val[1] /\ (K2.out = "ok" => K2.val[2] = w)
    BY <1>1, <2>4 DEF Told, Sides
  <2>6. K2.out = "ok" => Joint(K2, G)
    BY <1>3, <1>9, <2>2, <2>5 DEF Joint
  <2> QED BY <1>7, <2>4, <2>6
<1>10. CASE ~ Known(K1.val[1]) /\ Known(K1.val[2]) /\ Known(K1.aft[1])
  <2> DEFINE w == A1[<<K1.val[2], K1.aft[1]>>]
  <2>1. K2 = tell(K1, "val", 1, first)
    BY <1>10 DEF from_two, sees
  <2>2. w \in Bytes(m) /\ Fit(first, m) = w /\ G[<<w, K1.val[2]>>] = K1.aft[1]
    BY <1>1, <1>2, <1>10 DEF TwoWay, Reversible, m, n
  <2>3. Honest(i, K1) => w = Before(i, a)
    <3>a. \A v \in Bytes(m), u \in Bytes(n) : A1[<<u, G[<<v, u>>]>>] = v
      BY DEF Reversible, m, n
    <3>1. A1[<<Before(i, b), G[<<Before(i, a), Before(i, b)>>]>>] = Before(i, a)
      BY <1>1, <3>a
    <3>2. After(i, a) = G[<<Before(i, a), Before(i, b)>>]
      BY DEF Reversible
    <3>3. Honest(i, K1) => K1.val[2] = Before(i, b) /\ K1.aft[1] = After(i, a)
      BY <1>1, <1>2, <1>10
    <3> QED BY <3>1, <3>2, <3>3
  <2> HIDE DEF w
  <2>4. Fine(i, K1, K2) /\ Told(K1, K2, "val", 1, w)
    BY <1>1, <1>5, <1>6, <2>1, <2>2, <2>3, TellFine
  <2>5. K2.aft = K1.aft /\ K2.val[2] = K1.val[2] /\ (K2.out = "ok" => K2.val[1] = w)
    BY <1>1, <2>4 DEF Told, Sides
  <2>6. K2.out = "ok" => Joint(K2, G)
    BY <1>3, <1>10, <2>2, <2>5 DEF Joint
  <2> QED BY <1>7, <2>4, <2>6
<1>11. CASE ~ (\/ Known(K1.val[1]) /\ Known(K1.val[2])
               \/ Known(K1.val[1]) /\ Known(K1.aft[1])
               \/ Known(K1.val[2]) /\ Known(K1.aft[1]))
  <2>1. K2 = K1
    BY <1>11 DEF from_two, sees
  <2>2. Joint(K1, G)
    BY <1>11 DEF Joint
  <2> QED BY <1>1, <1>7, <2>1, <2>2, FineRefl
<1> QED BY <1>8, <1>9, <1>10, <1>11

(* What holds jointly stays as it is. *)
LEMMA JointStays ==
  ASSUME NEW i \in Instances, NEW a, NEW b, TwoRead(i, a, b), NEW G, NEW A1, NEW B1,
         Reversible(i, a, b, G, A1, B1), NEW K2, Live(i, K2), Joint(K2, G),
         NEW f, NEW first, NEW second, TwoWay(K2, f, first, second, Size(a), Size(b), G, A1, B1)
  PROVE  from_two(K2, f, first, second) = K2
<1>1. CASE Known(K2.val[1]) /\ Known(K2.val[2])
  <2>1. Known(K2.aft[1]) /\ K2.aft[1] = f
    BY <1>1 DEF Joint, TwoWay
  <2>2. /\ Ready(K2) /\ 1 \in DOMAIN K2.aft /\ SizeAt(K2, "aft", 1) = Size(a)
           /\ Size(a) \in Nat \ {0}
    BY DEF TwoUses, TwoRead, SizeAt
  <2>3. Fit(f, Size(a)) = f
    <3>1. f \in Bytes(Size(a))
      BY <2>1, <2>2 DEF Ready, Sized, TwoUses, TwoRead
    <3> QED BY <2>2, <3>1, BytesKnown
  <2>4. K2["aft"][1] = Fit(f, SizeAt(K2, "aft", 1)) /\ Known(K2["aft"][1]) /\ 1 \in DOMAIN K2["aft"]
    BY <2>1, <2>2, <2>3
  <2>5. tell(K2, "aft", 1, f) = K2
    BY <2>2, <2>4, Tell DEF Ready, Sides
  <2> QED BY <1>1, <2>5 DEF from_two, sees
<1>2. CASE ~ (Known(K2.val[1]) /\ Known(K2.val[2]))
  BY <1>2 DEF Joint, from_two, sees
<1> QED BY <1>1, <1>2

(* An instruction with two uses whose define determines either from the    *)
(* other.                                                                  *)
LEMMA AllReversed ==
  ASSUME NEW i \in Instances, i.op \notin {"xor", "pxor"}, NEW a, NEW b, TwoUses(i, a, b),
         Only(i, a), NEW G, NEW A1, NEW B1, Reversible(i, a, b, G, A1, B1),
         \A L : Live(i, L) => \E f, first, second :
           /\ inst_resolver(i, L) = from_two(L, f, first, second)
           /\ TwoWay(L, f, first, second, Size(a), Size(b), G, A1, B1)
  PROVE  Good(i)
<1>1. /\ Complete(inst_handler(i), <<Define(a)>>, <<Use(a), Use(b)>>)
      /\ \A L : Live(i, L) => DOMAIN L.aft = {1} /\ 1 \in DOMAIN L.val /\ 2 \in DOMAIN L.val
  BY DEF TwoUses, TwoRead
<1>a. TwoRead(i, a, b)
  BY DEF TwoUses
<1>2. Defined(i, <<Define(a)>>)
  <2>1. After(i, a) \in Bytes(Size(a))
    <3>1. Before(i, a) \in Bytes(Size(a)) /\ Before(i, b) \in Bytes(Size(b))
      BY <1>a DEF TwoRead
    <3>2. /\ \A v \in Bytes(Size(a)), w \in Bytes(Size(b)) : G[<<v, w>>] \in Bytes(Size(a))
          /\ After(i, a) = G[<<Before(i, a), Before(i, b)>>]
      BY DEF Reversible
    <3> QED BY <3>1, <3>2
  <2> QED BY <2>1, OneDefined
<1>3. ASSUME NEW K1, Live(i, K1) PROVE Resolved(i, K1, inst_resolver(i, K1))
  <2> DEFINE K2 == inst_resolver(i, K1)
  <2>1. PICK f, first, second : /\ K2 = from_two(K1, f, first, second)
                                /\ TwoWay(K1, f, first, second, Size(a), Size(b), G, A1, B1)
    BY <1>3
  <2> HIDE DEF K2
  <2>2. Fine(i, K1, K2) /\ Grows(K1, K2) /\ (K2.out = "ok" => Joint(K2, G))
    BY <1>3, <1>a, <2>1, FromTwo
  <2>3. ASSUME K2.out = "ok"
        PROVE  inst_resolver(i, K2) = K2 /\ (AllRead(K2) => AllWritten(K2))
    <3>1. Live(i, K2)
      BY <1>3, <2>2, <2>3, LiveOn
    <3>2. PICK f2, first2, second2 :
             /\ inst_resolver(i, K2) = from_two(K2, f2, first2, second2)
             /\ TwoWay(K2, f2, first2, second2, Size(a), Size(b), G, A1, B1)
      BY <3>1
    <3>3. inst_resolver(i, K2) = K2
      BY <1>a, <2>2, <2>3, <3>1, <3>2, JointStays
    <3>4. AllRead(K2) => AllWritten(K2)
      BY <1>1, <2>2, <2>3, <3>1 DEF AllRead, AllWritten, Joint
    <3> QED BY <3>3, <3>4
  <2> QED BY <2>2, <2>3 DEF Resolved, K2
<1> QED BY <1>1, <1>2, <1>3, LiveFirst

(* A sum does not depend on the order of its terms. *)
LEMMA SumsCommute ==
  ASSUME NEW s \in Nat, NEW v \in Bytes(s), NEW w \in Bytes(s) PROVE AddVal(v, w) = AddVal(w, v)
<1>1. ToNum(v) \in Nat /\ ToNum(w) \in Nat
  BY ByteNumbers
<1>2. ToNum(v) + ToNum(w) = ToNum(w) + ToNum(v)
  BY <1>1
<1>3. Len(v) = s /\ Len(w) = s
  BY BytesLen
<1> QED BY <1>2, <1>3 DEF AddVal, Mod

(* The second operand of a sum or a difference, and what is supported of it. *)
Widened(w, m) == sign_extend_valset(w, m)
(***************************************************************************)
(* Resolvers made of several steps: each ties a define to a use, lets a    *)
(* register move, or fills in a use that is known from the trace, and none *)
(* touches the nodes of another.                                           *)
(***************************************************************************)
TieOf(u, d, n, m, F, B) ==
  [kind |-> "tie", u |-> u, d |-> d, n |-> n, m |-> m, F |-> F, B |-> B]
StepBy(d, by)  == [kind |-> "step", u |-> 0, d |-> d, F |-> by]
FillWith(u, v) == [kind |-> "fill", u |-> u, d |-> 0, F |-> v]

(* What a part does to knowledge. *)
TieActs(L, t, M1) ==
  \E forward, back :
    /\ M1 = both_ways(L, t.u, t.d, forward, back)
    /\ L.val[t.u] \in Bytes(t.n) => Fit(forward, t.m) = t.F[L.val[t.u]]
    /\ L.aft[t.d] \in Bytes(t.m) => Fit(back, t.n) = t.B[L.aft[t.d]]
Acts(L, t, M1) ==
  \/ t.kind = "tie" /\ TieActs(L, t, M1)
  \/ t.kind = "step" /\ M1 = steps(L, t.d, t.F)
  \/ t.kind = "fill" /\ M1 = IF Known(L.val[t.u]) THEN L ELSE put(L, "val", t.u, t.F)

(* What it needs of the nodes. *)
TieMeant(i, L, t) ==
  /\ t.u \in DOMAIN L.val /\ t.d \in DOMAIN L.aft
  /\ t.n = Size(L.src[t.u]) /\ t.m = Size(L.dst[t.d]) /\ t.n \in Nat \ {0} /\ t.m \in Nat \ {0}
  /\ t.F \in [Bytes(t.n) -> Bytes(t.m)] /\ t.B \in [Bytes(t.m) -> Bytes(t.n)]
  /\ \A v \in Bytes(t.n) : t.B[t.F[v]] = v
  /\ Before(i, L.src[t.u]) \in Bytes(t.n)
StepMeant(i, L, t) ==
  /\ t.d \in DOMAIN L.aft /\ t.d \in DOMAIN L.bef
  /\ Size(L.dst[t.d]) \in Nat \ {0} /\ t.F \in Bytes(DW)
  /\ Before(i, L.dst[t.d]) \in Bytes(Size(L.dst[t.d]))
  /\ After(i, L.dst[t.d]) = AddVal(Before(i, L.dst[t.d]), t.F)
FillMeant(i, L, t) ==
  /\ t.u \in DOMAIN L.val /\ Size(L.src[t.u]) \in Nat \ {0}
  /\ t.F \in Bytes(Size(L.src[t.u])) /\ t.F = Before(i, L.src[t.u])
Meant(i, L, t) ==
  \/ t.kind = "tie" /\ TieMeant(i, L, t)
  \/ t.kind = "step" /\ StepMeant(i, L, t)
  \/ t.kind = "fill" /\ FillMeant(i, L, t)
TrueOf(i, L, t) == t.kind = "tie" => After(i, L.dst[t.d]) = t.F[Before(i, L.src[t.u])]

(* What holds after it, and what it leaves alone. *)
Held(L, t) ==
  \/ t.kind = "tie" /\ Bound(L, t.u, t.d, t.B)
  \/ t.kind = "step" /\ Stepped(L, t.d, t.F)
  \/ t.kind = "fill" /\ Known(L.val[t.u])
OnlyOwn(L, M1, t) ==
  /\ \A k \in DOMAIN L.val : k # t.u => M1.val[k] = L.val[k]
  /\ \A j \in DOMAIN L.aft : j # t.d => M1.aft[j] = L.aft[j]
  /\ \A j \in DOMAIN L.bef : j # t.d => M1.bef[j] = L.bef[j]

(* A part leaves typed knowledge, and holds. *)
LEMMA ActFine ==
  ASSUME NEW i, NEW L, Ready(L), NEW t, Meant(i, L, t), Honest(i, L) => TrueOf(i, L, t),
         NEW M1, Acts(L, t, M1)
  PROVE  /\ Fine(i, L, M1) /\ Grows(L, M1) /\ OnlyOwn(L, M1, t)
         /\ M1.out = "ok" => Held(M1, t)
<1>1. CASE t.kind = "tie"
  <2>1. PICK forward, back :
           /\ M1 = both_ways(L, t.u, t.d, forward, back)
           /\ L.val[t.u] \in Bytes(t.n) => Fit(forward, t.m) = t.F[L.val[t.u]]
           /\ L.aft[t.d] \in Bytes(t.m) => Fit(back, t.n) = t.B[L.aft[t.d]]
    BY <1>1 DEF Acts, TieActs
  <2>2. TieMeant(i, L, t)
    BY <1>1 DEF Meant
  <2>3. Grows(L, M1)
    BY <2>1, PatternsGrow DEF Ready
  <2>4. Fine(i, L, M1) /\ Apart(L, M1, t.u, t.d) /\ (M1.out = "ok" => Bound(M1, t.u, t.d, t.B))
    <3> DEFINE u == t.u
               d == t.d
               F == t.F
               B == t.B
               n == t.n
               m == t.m
    <3>1. /\ u \in DOMAIN L.val /\ d \in DOMAIN L.aft /\ n \in Nat \ {0} /\ m \in Nat \ {0}
          /\ F \in [Bytes(n) -> Bytes(m)] /\ B \in [Bytes(m) -> Bytes(n)]
          /\ \A v \in Bytes(n) : B[F[v]] = v
          /\ Before(i, L.src[u]) \in Bytes(n)
          /\ Honest(i, L) => After(i, L.dst[d]) = F[Before(i, L.src[u])]
          /\ Known(L.val[u]) => Fit(forward, m) = F[L.val[u]]
          /\ Known(L.aft[d]) => Fit(back, n) = B[L.aft[d]]
          /\ n = Size(L.src[u]) /\ m = Size(L.dst[d]) /\ M1 = both_ways(L, u, d, forward, back)
      BY <1>1, <2>1, <2>2 DEF TieMeant, TrueOf, Ready, Sized
    <3> HIDE DEF n, m, u, d, F, B
    <3>2. Fine(i, L, M1) /\ Apart(L, M1, u, d) /\ (M1.out = "ok" => Bound(M1, u, d, B))
      BY <3>1, Tie
    <3> QED BY <3>2 DEF u, d, B
  <2>5. OnlyOwn(L, M1, t)
    BY <2>4 DEF Apart, OnlyOwn
  <2> QED BY <1>1, <2>3, <2>4, <2>5 DEF Held
<1>2. CASE t.kind = "step"
  <2>1. M1 = steps(L, t.d, t.F)
    BY <1>2 DEF Acts
  <2>2. StepMeant(i, L, t) /\ DW \in Nat
    BY <1>2, OperandsAssumption DEF Meant
  <2>3. Grows(L, M1)
    BY <2>1, StepsGrow DEF Ready
  <2>4. Fine(i, L, M1) /\ OnlyRegister(L, M1, t.d) /\ (M1.out = "ok" => Stepped(M1, t.d, t.F))
    <3> DEFINE s == Size(L.dst[t.d])
    <3>1. /\ t.d \in DOMAIN L.aft /\ t.d \in DOMAIN L.bef /\ s \in Nat \ {0} /\ t.F \in Bytes(DW)
          /\ Before(i, L.dst[t.d]) \in Bytes(s) /\ s = Size(L.dst[t.d])
          /\ After(i, L.dst[t.d]) = AddVal(Before(i, L.dst[t.d]), t.F)
      BY <2>2 DEF StepMeant
    <3> HIDE DEF s
    <3> QED BY <2>1, <2>2, <3>1, StepsTie
  <2>5. OnlyOwn(L, M1, t)
    BY <2>4 DEF OnlyRegister, OnlyOwn
  <2> QED BY <1>2, <2>3, <2>4, <2>5 DEF Held
<1>3. CASE t.kind = "fill" /\ Known(L.val[t.u])
  <2>1. M1 = L
    BY <1>3 DEF Acts
  <2>2. Fine(i, L, L) /\ Grows(L, L)
    BY FineRefl, GrowsRefl DEF Ready
  <2> QED BY <1>3, <2>1, <2>2 DEF OnlyOwn, Held
<1>4. CASE t.kind = "fill" /\ ~ Known(L.val[t.u])
  <2>1. FillMeant(i, L, t)
    BY <1>4 DEF Meant
  <2>2. M1 = put(L, "val", t.u, t.F) /\ ~ Known(L["val"][t.u]) /\ t.u \in DOMAIN L["val"]
        /\ "val" \in Sides /\ Knowledge(L) /\ L.out = "ok"
    BY <1>4, <2>1 DEF Acts, FillMeant, Sides, Ready
  <2>3. M1 = tell(L, "val", t.u, t.F)
    BY <2>2, Tell
  <2>4. Grows(L, M1)
    BY <2>2, <2>3, TellGrows
  <2>5. t.F \in Bytes(Size(L.src[t.u])) /\ Fit(t.F, Size(L.src[t.u])) = t.F /\ Known(t.F)
    BY <2>1, BytesKnown DEF FillMeant
  <2>6. Fine(i, L, M1) /\ Told(L, M1, "val", t.u, t.F)
    <3>1. SizeAt(L, "val", t.u) = Size(L.src[t.u]) /\ RightAt(i, L, "val", t.u) = t.F
      BY <2>1 DEF SizeAt, RightAt, FillMeant
    <3> QED BY <2>2, <2>3, <2>5, <3>1, TellFine
  <2>7. OnlyOwn(L, M1, t) /\ (M1.out = "ok" => M1.val[t.u] = t.F)
    BY <2>6 DEF Told, OnlyOwn, Sides
  <2> QED BY <1>4, <2>4, <2>5, <2>6, <2>7 DEF Held
<1> QED BY <1>1, <1>2, <1>3, <1>4 DEF Acts

(* It adds nothing to what holds. *)
LEMMA HeldStays ==
  ASSUME NEW i, NEW L, Ready(L), NEW t, Meant(i, L, t), Held(L, t), NEW M1, Acts(L, t, M1)
  PROVE  M1 = L
<1>1. CASE t.kind = "tie"
  <2>1. PICK forward, back :
           /\ M1 = both_ways(L, t.u, t.d, forward, back)
           /\ L.aft[t.d] \in Bytes(t.m) => Fit(back, t.n) = t.B[L.aft[t.d]]
    BY <1>1 DEF Acts, TieActs
  <2>2. /\ Knowledge(L) /\ L.out = "ok" /\ t.u \in DOMAIN L.val /\ t.d \in DOMAIN L.aft
        /\ Bound(L, t.u, t.d, t.B) /\ t.n = Size(L.src[t.u])
        /\ Known(L.aft[t.d]) => L.aft[t.d] \in Bytes(t.m)
    BY <1>1 DEF Meant, TieMeant, Held, Ready, Sized
  <2>3. both_ways(L, t.u, t.d, forward, back) = L
    BY <2>1, <2>2, BoundStays
  <2> QED BY <2>1, <2>3
<1>2. CASE t.kind = "step"
  <2>1. M1 = steps(L, t.d, t.F) /\ Stepped(L, t.d, t.F) /\ DW \in Nat
    BY <1>2, OperandsAssumption DEF Acts, Held
  <2>2. /\ t.d \in DOMAIN L.aft /\ t.d \in DOMAIN L.bef /\ Size(L.dst[t.d]) \in Nat \ {0}
        /\ t.F \in Bytes(DW)
    BY <1>2 DEF Meant, StepMeant
  <2> QED BY <2>1, <2>2, SteppedStays
<1>3. CASE t.kind = "fill"
  BY <1>3 DEF Acts, Held
<1> QED BY <1>1, <1>2, <1>3 DEF Acts

(* It takes nothing away from what holds of other nodes. *)
LEMMA HeldApart ==
  ASSUME NEW i, NEW L, NEW t, Meant(i, L, t), Held(L, t),
         NEW M1, NEW s, OnlyOwn(L, M1, s), s.u # t.u, s.d # t.d
  PROVE  Held(M1, t)
<1>1. CASE t.kind = "tie"
  BY <1>1 DEF Meant, TieMeant, Held, OnlyOwn, Bound
<1>2. CASE t.kind = "step"
  BY <1>2 DEF Meant, StepMeant, Held, OnlyOwn, Stepped
<1>3. CASE t.kind = "fill"
  BY <1>3 DEF Meant, FillMeant, Held, OnlyOwn
<1> QED BY <1>1, <1>2, <1>3 DEF Held

(* After a contradiction it does nothing. *)
LEMMA ActStopped ==
  ASSUME NEW L, L.out # "ok", NEW t, NEW M1, Acts(L, t, M1)
  PROVE  M1 = L
  BY Stopped DEF Acts, TieActs

(* What a part is about does not change. *)
LEMMA MeantOn ==
  ASSUME NEW i, NEW L, NEW M1, Grows(L, M1), NEW t, Meant(i, L, t)
  PROVE  Meant(i, M1, t) /\ (TrueOf(i, L, t) => TrueOf(i, M1, t))
<1>1. /\ M1.src = L.src /\ M1.dst = L.dst /\ DOMAIN M1.val = DOMAIN L.val
      /\ DOMAIN M1.aft = DOMAIN L.aft /\ DOMAIN M1.bef = DOMAIN L.bef
  BY DEF Grows, Sides
<1>2. TrueOf(i, L, t) => TrueOf(i, M1, t)
  BY <1>1 DEF TrueOf
<1>3. CASE t.kind = "tie"
  <2>1. TieMeant(i, L, t)
    BY <1>3 DEF Meant
  <2>2. TieMeant(i, M1, t)
    BY <1>1, <2>1 DEF TieMeant
  <2> QED BY <1>2, <1>3, <2>2 DEF Meant
<1>4. CASE t.kind = "step"
  <2>1. StepMeant(i, L, t)
    BY <1>4 DEF Meant
  <2>2. StepMeant(i, M1, t)
    BY <1>1, <2>1 DEF StepMeant
  <2> QED BY <1>2, <1>4, <2>2 DEF Meant
<1>5. CASE t.kind = "fill"
  <2>1. FillMeant(i, L, t)
    BY <1>5 DEF Meant
  <2>2. FillMeant(i, M1, t)
    BY <1>1, <2>1 DEF FillMeant
  <2> QED BY <1>2, <1>5, <2>2 DEF Meant
<1> QED BY <1>2, <1>3, <1>4, <1>5 DEF Meant

(* Honest knowledge was honest before. *)
LEMMA HonestBack ==
  ASSUME NEW i, NEW L, NEW M1, Grows(L, M1), Honest(i, M1)
  PROVE  Honest(i, L)
<1>1. /\ M1.src = L.src /\ M1.dst = L.dst /\ DOMAIN M1.val = DOMAIN L.val
      /\ DOMAIN M1.aft = DOMAIN L.aft /\ DOMAIN M1.bef = DOMAIN L.bef
      /\ \A k \in DOMAIN L.val : Known(L.val[k]) => M1.val[k] = L.val[k]
      /\ \A k \in DOMAIN L.aft : Known(L.aft[k]) => M1.aft[k] = L.aft[k]
      /\ \A k \in DOMAIN L.bef : Known(L.bef[k]) => M1.bef[k] = L.bef[k]
  BY DEF Grows, Sides
<1> QED BY <1>1 DEF Honest

(***************************************************************************)
(* The parts of a resolver, one after the other.                           *)
(***************************************************************************)
Chain(L, q, r) == r[0] = L /\ \A k \in 1 .. Len(q) : Acts(r[k - 1], q[k], r[k])
Distinct(q) ==
  \A j, k \in 1 .. Len(q) : j # k => q[j].u # q[k].u /\ q[j].d # q[k].d
AllMeant(i, L, q) == \A k \in 1 .. Len(q) : Meant(i, L, q[k])
AllTrue(i, L, q)  == \A k \in 1 .. Len(q) : TrueOf(i, L, q[k])
AllHeld(L, q)     == \A k \in 1 .. Len(q) : Held(L, q[k])

(* What is reached after m parts. *)
Reached(i, L, q, m, M1) ==
  /\ Fine(i, L, M1) /\ Grows(L, M1)
  /\ M1.out = "ok" => \A k \in 1 .. m : Held(M1, q[k])
(* One part more: what the parts before it settled stays settled.          *)
LEMMA OneMore ==
  ASSUME NEW i, NEW L, Ready(L), NEW q, Len(q) \in Nat, AllMeant(i, L, q), Distinct(q),
         Honest(i, L) => AllTrue(i, L, q),
         NEW m \in Nat, m + 1 \in 1 .. Len(q), NEW M1, Reached(i, L, q, m, M1),
         NEW M2, Acts(M1, q[m + 1], M2)
  PROVE  Reached(i, L, q, m + 1, M2)
<1> DEFINE t == q[m + 1]
<1>1. CASE M1.out # "ok"
  <2>1. M2 = M1
    BY <1>1, ActStopped
  <2> QED BY <1>1, <2>1 DEF Reached
<1>2. CASE M1.out = "ok"
  <2>1. Ready(M1) /\ Grows(L, M1) /\ Fine(i, L, M1)
    BY <1>2, FineReady DEF Reached
  <2>2. /\ \A k \in 1 .. Len(q) : Meant(i, M1, q[k])
        /\ Honest(i, L) => \A k \in 1 .. Len(q) : TrueOf(i, M1, q[k])
    BY <2>1, MeantOn DEF AllMeant, AllTrue
  <2>3. Meant(i, M1, t) /\ (Honest(i, M1) => TrueOf(i, M1, t))
    BY <2>1, <2>2, HonestBack
  <2> HIDE DEF t
  <2>4. /\ Fine(i, M1, M2) /\ Grows(M1, M2) /\ OnlyOwn(M1, M2, t)
        /\ M2.out = "ok" => Held(M2, t)
    <3>1. Acts(M1, t, M2)
      BY DEF t
    <3> QED BY <2>1, <2>3, <3>1, ActFine
  <2>5. Fine(i, L, M2) /\ Grows(L, M2)
    BY <2>1, <2>4, FineTrans, GrowsTrans
  <2>6. ASSUME M2.out = "ok", NEW k \in 1 .. m + 1 PROVE Held(M2, q[k])
    <3>1. CASE k = m + 1
      BY <2>4, <2>6, <3>1 DEF t
    <3>2. CASE k # m + 1
      <4>1. k \in 1 .. m /\ k \in 1 .. Len(q)
        BY <3>2
      <4>2. Held(M1, q[k]) /\ Meant(i, M1, q[k])
        BY <1>2, <2>2, <4>1 DEF Reached
      <4>3. t.u # q[k].u /\ t.d # q[k].d
        BY <3>2, <4>1 DEF t, Distinct
      <4> QED BY <2>4, <4>2, <4>3, HeldApart
    <3> QED BY <3>1, <3>2
  <2> QED BY <2>5, <2>6 DEF Reached
<1> QED BY <1>1, <1>2

(* After all parts, each has said what it could.                           *)
LEMMA ChainFine ==
  ASSUME NEW i, NEW L, Ready(L), NEW q, Len(q) \in Nat, AllMeant(i, L, q), Distinct(q),
         Honest(i, L) => AllTrue(i, L, q), NEW r, Chain(L, q, r)
  PROVE  Reached(i, L, q, Len(q), r[Len(q)])
<1> DEFINE N == {m \in Nat : m <= Len(q) => Reached(i, L, q, m, r[m])}
<1>1. 0 \in N
  <2>1. r[0] = L /\ Fine(i, L, L) /\ Grows(L, L)
    BY FineRefl, GrowsRefl DEF Chain, Ready
  <2>2. \A k \in 1 .. 0 : FALSE
    OBVIOUS
  <2> QED BY <2>1, <2>2 DEF Reached
<1>2. \A m \in N : m + 1 \in N
  <2> SUFFICES ASSUME NEW m \in N, m + 1 <= Len(q) PROVE Reached(i, L, q, m + 1, r[m + 1])
    OBVIOUS
  <2>1. m \in Nat /\ m + 1 \in 1 .. Len(q) /\ Reached(i, L, q, m, r[m])
    OBVIOUS
  <2>2. Acts(r[m], q[m + 1], r[m + 1])
    <3>1. m + 1 - 1 = m
      BY <2>1
    <3> QED BY <2>1, <3>1 DEF Chain
  <2> QED BY <2>1, <2>2, OneMore
<1>3. N = Nat
  <2>1. N \in SUBSET Nat
    OBVIOUS
  <2> HIDE DEF N
  <2> QED BY <1>1, <1>2, <2>1, SetInduction
<1> QED BY <1>3

(* Parts that have said what they could change nothing.                    *)
LEMMA ChainStays ==
  ASSUME NEW i, NEW L, Ready(L), NEW q, Len(q) \in Nat, AllMeant(i, L, q), AllHeld(L, q),
         NEW r, Chain(L, q, r)
  PROVE  r[Len(q)] = L
<1> DEFINE N == {m \in Nat : m <= Len(q) => r[m] = L}
<1>1. 0 \in N
  BY DEF Chain
<1>2. \A m \in N : m + 1 \in N
  <2> SUFFICES ASSUME NEW m \in N, m + 1 <= Len(q) PROVE r[m + 1] = L
    OBVIOUS
  <2>1. m \in Nat /\ m + 1 \in 1 .. Len(q) /\ r[m] = L /\ m + 1 - 1 = m
    OBVIOUS
  <2>2. Acts(L, q[m + 1], r[m + 1]) /\ Meant(i, L, q[m + 1]) /\ Held(L, q[m + 1])
    BY <2>1 DEF Chain, AllMeant, AllHeld
  <2> QED BY <2>2, HeldStays
<1>3. N = Nat
  <2>1. N \in SUBSET Nat
    OBVIOUS
  <2> HIDE DEF N
  <2> QED BY <1>1, <1>2, <2>1, SetInduction
<1> QED BY <1>3

(* A define is written by a part, or known from the start. *)
WrittenBy(L, q, j) ==
  \/ Known(L.aft[j])
  \/ \E k \in 1 .. Len(q) :
       /\ q[k].d = j
       /\ q[k].kind = "tie" \/ (q[k].kind = "step" /\ L.dst[j].place \in {"esp", "esp, first"})

(* A resolver that is such a chain, or that leaves everything alone where  *)
(* it may. *)
Chained(i, L, q) ==
  \/ /\ \E r : Chain(L, q, r) /\ inst_resolver(i, L) = r[Len(q)]
     /\ Honest(i, L) => AllTrue(i, L, q)
  \/ /\ inst_resolver(i, L) = L
     /\ Honest(i, L) /\ ~ Silent(i) /\ AllRead(L) => AllWritten(L)

(* A resolver that is a chain of parts, which together write every define. *)
LEMMA AllChained ==
  ASSUME NEW i \in Instances, i.op \notin {"movq", "xor", "pxor"},
         NEW defs, NEW uses, Complete(inst_handler(i), defs, uses), Defined(i, defs),
         NEW q, Len(q) \in Nat, Distinct(q),
         \A L : Live(i, L) => /\ AllMeant(i, L, q)
                              /\ \A j \in DOMAIN L.aft : WrittenBy(L, q, j)
                              /\ Chained(i, L, q)
  PROVE  Good(i)
<1>1. ASSUME NEW L, Live(i, L) PROVE Resolved(i, L, inst_resolver(i, L))
  <2>1. Ready(L) /\ AllMeant(i, L, q) /\ Chained(i, L, q)
    BY <1>1 DEF Live
  <2>2. CASE /\ inst_resolver(i, L) = L
             /\ Honest(i, L) /\ ~ Silent(i) /\ AllRead(L) => AllWritten(L)
    <3>1. Fine(i, L, L)
      BY <2>1, FineRefl
    <3> QED BY <2>2, <3>1 DEF Resolved
  <2>3. CASE /\ \E r : Chain(L, q, r) /\ inst_resolver(i, L) = r[Len(q)]
             /\ Honest(i, L) => AllTrue(i, L, q)
    <3> DEFINE M1 == inst_resolver(i, L)
    <3>1. Reached(i, L, q, Len(q), M1)
      BY <2>1, <2>3, ChainFine
    <3> HIDE DEF M1
    <3>2. ASSUME M1.out = "ok"
          PROVE  inst_resolver(i, M1) = M1 /\ (AllRead(M1) => AllWritten(M1))
      <4>1. Live(i, M1) /\ AllHeld(M1, q)
        <5>1. Live(i, M1)
          BY <1>1, <3>1, <3>2, LiveOn DEF Reached
        <5> QED BY <3>1, <3>2, <5>1 DEF Reached, AllHeld
      <4>2. Ready(M1) /\ AllMeant(i, M1, q) /\ Chained(i, M1, q)
        BY <4>1 DEF Live
      <4>3. inst_resolver(i, M1) = M1
        <5>1. \A r : Chain(M1, q, r) => r[Len(q)] = M1
          BY <4>1, <4>2, ChainStays
        <5> QED BY <4>2, <5>1 DEF Chained
      <4>4. ASSUME AllRead(M1), NEW j \in DOMAIN M1.aft PROVE Known(M1.aft[j])
        <5>1. WrittenBy(M1, q, j)
          BY <4>1, <4>4
        <5>2. ASSUME NEW k \in 1 .. Len(q), q[k].d = j, q[k].kind = "tie" PROVE Known(M1.aft[j])
          <6>1. Bound(M1, q[k].u, q[k].d, q[k].B) /\ TieMeant(i, M1, q[k])
            BY <4>1, <4>2, <5>2 DEF AllHeld, Held, AllMeant, Meant
          <6>2. Known(M1.val[q[k].u])
            BY <4>4, <6>1 DEF AllRead, TieMeant
          <6> QED BY <5>2, <6>1, <6>2 DEF Bound
        <5>3. ASSUME NEW k \in 1 .. Len(q), q[k].d = j, q[k].kind = "step",
                     M1.dst[j].place \in {"esp", "esp, first"}
              PROVE  Known(M1.aft[j])
          <6>1. Stepped(M1, q[k].d, q[k].F) /\ StepMeant(i, M1, q[k])
            BY <4>1, <4>2, <5>3 DEF AllHeld, Held, AllMeant, Meant
          <6>2. Known(M1.bef[j])
            BY <4>4, <5>3, <6>1 DEF AllRead, StepMeant
          <6> QED BY <5>3, <6>1, <6>2 DEF Stepped
        <5> QED BY <5>1, <5>2, <5>3 DEF WrittenBy
      <4> QED BY <4>3, <4>4 DEF AllWritten
    <3> QED BY <3>1, <3>2 DEF Resolved, Reached, M1
  <2> QED BY <2>1, <2>2, <2>3 DEF Chained
<1> QED BY <1>1, LiveFirst

(***************************************************************************)
(* The parts that resolvers are made of.                                   *)
(***************************************************************************)
(* The nodes of live knowledge. *)
LEMMA LiveNodes ==
  ASSUME NEW i \in Instances, NEW defs, NEW uses, Complete(inst_handler(i), defs, uses),
         NEW L, Live(i, L)
  PROVE  /\ Ready(L) /\ DOMAIN L.val = DOMAIN uses
         /\ DOMAIN L.aft = DOMAIN defs /\ DOMAIN L.bef = DOMAIN defs /\ DOMAIN L.dst = DOMAIN defs
         /\ \A k \in DOMAIN uses : /\ L.src[k] = uses[k].o
                                   /\ Before(i, uses[k].o) \in Bytes(Size(uses[k].o))
                                   /\ Size(uses[k].o) \in Nat \ {0}
         /\ \A j \in DOMAIN defs : /\ L.dst[j] = defs[j].o
                                   /\ Before(i, defs[j].o) \in Bytes(Size(defs[j].o))
                                   /\ Size(defs[j].o) \in Nat \ {0}
                                   /\ Known(defs[j].aft) => L.aft[j] = defs[j].aft
<1>1. Shaped(i, L, defs, uses) /\ Ready(L)
  BY LiveShape
<1>2. \A o : Valid(i, o) => Before(i, o) \in Bytes(Size(o)) /\ Size(o) \in Nat \ {0}
  BY DEF Valid, Before
<1> QED BY <1>1, <1>2 DEF Shaped

(* A copy. *)
Copy(u, d, n) == TieOf(u, d, n, n, [v \in Bytes(n) |-> v], [v \in Bytes(n) |-> v])
(* copies is such a part.                                                  *)
LEMMA CopyActs ==
  ASSUME NEW u, NEW d, NEW n \in Nat \ {0}
  PROVE  \A L : Acts(L, Copy(u, d, n), copies(L, u, d))
<1> DEFINE P == [v \in Bytes(n) |-> v]
           t == Copy(u, d, n)
<1>1. t.kind = "tie" /\ t.u = u /\ t.d = d /\ t.n = n /\ t.m = n /\ t.F = P /\ t.B = P
  BY DEF Copy, TieOf
<1>2. \A v \in Bytes(n) : Fit(v, n) = v /\ P[v] = v
  BY BytesKnown
<1> HIDE DEF P, t
<1>3. ASSUME NEW L PROVE TieActs(L, t, copies(L, u, d))
  <2>1. copies(L, u, d) = both_ways(L, t.u, t.d, L.val[u], L.aft[d])
    BY <1>1 DEF copies
  <2>2. L.val[t.u] \in Bytes(t.n) => Fit(L.val[u], t.m) = t.F[L.val[t.u]]
    BY <1>1, <1>2
  <2>3. L.aft[t.d] \in Bytes(t.m) => Fit(L.aft[d], t.n) = t.B[L.aft[t.d]]
    BY <1>1, <1>2
  <2> QED BY <2>1, <2>2, <2>3 DEF TieActs
<1>4. \A L : Acts(L, t, copies(L, u, d))
  BY <1>1, <1>3 DEF Acts
<1> QED BY <1>4 DEF t

(* It is a part of a resolver whose operands have the same size.           *)
LEMMA CopyMeant ==
  ASSUME NEW i \in Instances, NEW defs, NEW uses, Complete(inst_handler(i), defs, uses),
         NEW u \in DOMAIN uses, NEW d \in DOMAIN defs, NEW n,
         Size(uses[u].o) = n, Size(defs[d].o) = n
  PROVE  \A L : Live(i, L) =>
           /\ Meant(i, L, Copy(u, d, n))
           /\ After(i, defs[d].o) = Before(i, uses[u].o) => TrueOf(i, L, Copy(u, d, n))
<1> SUFFICES ASSUME NEW L, Live(i, L)
             PROVE  /\ Meant(i, L, Copy(u, d, n))
                    /\ After(i, defs[d].o) = Before(i, uses[u].o) => TrueOf(i, L, Copy(u, d, n))
  OBVIOUS
<1> DEFINE P == [v \in Bytes(n) |-> v]
           t == Copy(u, d, n)
<1>1. t.kind = "tie" /\ t.u = u /\ t.d = d /\ t.n = n /\ t.m = n /\ t.F = P /\ t.B = P
  BY DEF Copy, TieOf
<1>2. P \in [Bytes(n) -> Bytes(n)] /\ \A v \in Bytes(n) : P[v] = v
  OBVIOUS
<1> HIDE DEF P, t
<1>3. /\ u \in DOMAIN L.val /\ d \in DOMAIN L.aft /\ L.src[u] = uses[u].o /\ L.dst[d] = defs[d].o
      /\ Before(i, uses[u].o) \in Bytes(n) /\ n \in Nat \ {0}
  BY LiveNodes
<1>4. TieMeant(i, L, t)
  BY <1>1, <1>2, <1>3 DEF TieMeant
<1>5. After(i, defs[d].o) = Before(i, uses[u].o) => TrueOf(i, L, t)
  BY <1>1, <1>2, <1>3 DEF TrueOf
<1>6. Meant(i, L, t)
  BY <1>1, <1>4 DEF Meant
<1> QED BY <1>5, <1>6 DEF t

(* A use and a define, each the sum of the other and a constant. *)
Move1(u, d, n, c) ==
  TieOf(u, d, n, n, [v \in Bytes(n) |-> AddVal(v, c)], [v \in Bytes(n) |-> SubVal(v, c)])
(* both_ways with AddVal and SubVal is such a part.                        *)
LEMMA Move1Acts ==
  ASSUME NEW u, NEW d, NEW n \in Nat \ {0}, NEW s \in Nat, NEW c \in Bytes(s)
  PROVE  \A L : Acts(L, Move1(u, d, n, c),
                     both_ways(L, u, d, AddVal(L.val[u], c), SubVal(L.aft[d], c)))
<1> DEFINE P == [v \in Bytes(n) |-> AddVal(v, c)]
           Q == [v \in Bytes(n) |-> SubVal(v, c)]
           t == Move1(u, d, n, c)
<1>1. t.kind = "tie" /\ t.u = u /\ t.d = d /\ t.n = n /\ t.m = n /\ t.F = P /\ t.B = Q
  BY DEF Move1, TieOf
<1>2. \A v \in Bytes(n) : /\ Fit(AddVal(v, c), n) = AddVal(v, c) /\ P[v] = AddVal(v, c)
                          /\ Fit(SubVal(v, c), n) = SubVal(v, c) /\ Q[v] = SubVal(v, c)
  <2>1. \A v \in Bytes(n) : AddVal(v, c) \in Bytes(n) /\ SubVal(v, c) \in Bytes(n)
    BY SumsUndone
  <2>2. \A v \in Bytes(n) : P[v] = AddVal(v, c) /\ Q[v] = SubVal(v, c)
    OBVIOUS
  <2> HIDE DEF P, Q
  <2>3. \A w \in Bytes(n) : Fit(w, n) = w
    BY BytesKnown
  <2> QED BY <2>1, <2>2, <2>3
<1> HIDE DEF P, Q, t
<1>3. ASSUME NEW L PROVE Acts(L, t, both_ways(L, u, d, AddVal(L.val[u], c), SubVal(L.aft[d], c)))
  <2>1. both_ways(L, u, d, AddVal(L.val[u], c), SubVal(L.aft[d], c)) =
          both_ways(L, t.u, t.d, AddVal(L.val[u], c), SubVal(L.aft[d], c))
    BY <1>1
  <2>2. L.val[t.u] \in Bytes(t.n) => Fit(AddVal(L.val[u], c), t.m) = t.F[L.val[t.u]]
    BY <1>1, <1>2
  <2>3. L.aft[t.d] \in Bytes(t.m) => Fit(SubVal(L.aft[d], c), t.n) = t.B[L.aft[t.d]]
    BY <1>1, <1>2
  <2> QED BY <1>1, <2>1, <2>2, <2>3 DEF Acts, TieActs
<1> QED BY <1>3 DEF t

(* It is a part of a resolver whose operands have the same size.           *)
LEMMA Move1Meant ==
  ASSUME NEW i \in Instances, NEW defs, NEW uses, Complete(inst_handler(i), defs, uses),
         NEW u \in DOMAIN uses, NEW d \in DOMAIN defs, NEW n,
         Size(uses[u].o) = n, Size(defs[d].o) = n, NEW s \in Nat, NEW c \in Bytes(s)
  PROVE  \A L : Live(i, L) =>
           /\ Meant(i, L, Move1(u, d, n, c))
           /\ After(i, defs[d].o) = AddVal(Before(i, uses[u].o), c) =>
                TrueOf(i, L, Move1(u, d, n, c))
<1> SUFFICES ASSUME NEW L, Live(i, L)
             PROVE  /\ Meant(i, L, Move1(u, d, n, c))
                    /\ After(i, defs[d].o) = AddVal(Before(i, uses[u].o), c) =>
                         TrueOf(i, L, Move1(u, d, n, c))
  OBVIOUS
<1> DEFINE P == [v \in Bytes(n) |-> AddVal(v, c)]
           Q == [v \in Bytes(n) |-> SubVal(v, c)]
           t == Move1(u, d, n, c)
<1>1. t.kind = "tie" /\ t.u = u /\ t.d = d /\ t.n = n /\ t.m = n /\ t.F = P /\ t.B = Q
  BY DEF Move1, TieOf
<1>3. /\ u \in DOMAIN L.val /\ d \in DOMAIN L.aft /\ L.src[u] = uses[u].o /\ L.dst[d] = defs[d].o
      /\ Before(i, uses[u].o) \in Bytes(n) /\ n \in Nat \ {0}
  BY LiveNodes
<1>2. /\ P \in [Bytes(n) -> Bytes(n)] /\ Q \in [Bytes(n) -> Bytes(n)]
      /\ \A v \in Bytes(n) : P[v] = AddVal(v, c) /\ Q[P[v]] = v
  <2>1. \A v \in Bytes(n) : AddVal(v, c) \in Bytes(n) /\ SubVal(v, c) \in Bytes(n)
                            /\ SubVal(AddVal(v, c), c) = v
    BY <1>3, SumsUndone
  <2> QED BY <2>1
<1> HIDE DEF P, Q, t
<1>4. TieMeant(i, L, t)
  BY <1>1, <1>2, <1>3 DEF TieMeant
<1>5. After(i, defs[d].o) = AddVal(Before(i, uses[u].o), c) => TrueOf(i, L, t)
  BY <1>1, <1>2, <1>3 DEF TrueOf
<1>6. Meant(i, L, t)
  BY <1>1, <1>4 DEF Meant
<1> QED BY <1>5, <1>6 DEF t

(* A step of the stack pointer. *)
LEMMA StepPart ==
  ASSUME NEW i \in Instances, NEW defs, NEW uses, Complete(inst_handler(i), defs, uses),
         NEW d \in DOMAIN defs, NEW c \in Bytes(DW),
         After(i, defs[d].o) = AddVal(Before(i, defs[d].o), c)
  PROVE  /\ \A L : Acts(L, StepBy(d, c), steps(L, d, c))
         /\ \A L : Live(i, L) => Meant(i, L, StepBy(d, c)) /\ TrueOf(i, L, StepBy(d, c))
<1> DEFINE t == StepBy(d, c)
<1>1. t.kind = "step" /\ t.d = d /\ t.F = c
  BY DEF StepBy
<1> HIDE DEF t
<1>2. \A L : Acts(L, t, steps(L, d, c))
  BY <1>1 DEF Acts
<1>3. ASSUME NEW L, Live(i, L) PROVE Meant(i, L, t) /\ TrueOf(i, L, t)
  <2>1. /\ d \in DOMAIN L.aft /\ d \in DOMAIN L.bef /\ L.dst[d] = defs[d].o
        /\ Before(i, defs[d].o) \in Bytes(Size(defs[d].o)) /\ Size(defs[d].o) \in Nat \ {0}
    BY <1>3, LiveNodes
  <2> QED BY <1>1, <2>1 DEF Meant, StepMeant, TrueOf
<1> QED BY <1>2, <1>3 DEF t

(* A use that the trace gives. *)
LEMMA FillPart ==
  ASSUME NEW i \in Instances, NEW defs, NEW uses, Complete(inst_handler(i), defs, uses),
         NEW u \in DOMAIN uses, NEW v, v = Before(i, uses[u].o)
  PROVE  /\ \A L : Acts(L, FillWith(u, v), IF Known(L.val[u]) THEN L ELSE put(L, "val", u, v))
         /\ \A L : Live(i, L) => Meant(i, L, FillWith(u, v)) /\ TrueOf(i, L, FillWith(u, v))
<1> DEFINE t == FillWith(u, v)
<1>1. t.kind = "fill" /\ t.u = u /\ t.F = v
  BY DEF FillWith
<1> HIDE DEF t
<1>2. \A L : Acts(L, t, IF Known(L.val[u]) THEN L ELSE put(L, "val", u, v))
  BY <1>1 DEF Acts
<1>3. ASSUME NEW L, Live(i, L) PROVE Meant(i, L, t) /\ TrueOf(i, L, t)
  <2>1. /\ u \in DOMAIN L.val /\ L.src[u] = uses[u].o
        /\ v \in Bytes(Size(uses[u].o)) /\ Size(uses[u].o) \in Nat \ {0}
    BY <1>3, LiveNodes
  <2> QED BY <1>1, <2>1 DEF Meant, FillMeant, TrueOf
<1> QED BY <1>2, <1>3 DEF t

(* Chains of one part, of two, of three and of four. *)
Writer(t, L, j) ==
  t.d = j /\ (t.kind = "tie" \/ (t.kind = "step" /\ L.dst[j].place \in {"esp", "esp, first"}))
Whole1(q, a) ==
  /\ Len(q) = 1 /\ Len(q) \in Nat
  /\ Distinct(q)
  /\ \A i, L : Meant(i, L, a) => AllMeant(i, L, q)
  /\ \A i, L : TrueOf(i, L, a) => AllTrue(i, L, q)
  /\ \A L, j : Known(L.aft[j]) \/ Writer(a, L, j) => WrittenBy(L, q, j)
  /\ \A L, L1 : Acts(L, a, L1) => \E r : Chain(L, q, r) /\ L1 = r[Len(q)]
(* One part is a chain.                                                    *)
LEMMA Parts1 == ASSUME NEW a PROVE Whole1(<<a>>, a)
<1> DEFINE q == <<a>>
<1>1. Len(q) = 1 /\ 1 .. Len(q) = {1} /\ q[1] = a
  OBVIOUS
<1>2. Distinct(q)
  BY <1>1 DEF Distinct
<1>3. /\ \A i, L : Meant(i, L, a) => AllMeant(i, L, q)
      /\ \A i, L : TrueOf(i, L, a) => AllTrue(i, L, q)
  BY <1>1 DEF AllMeant, AllTrue
<1>4. \A L, L1 : Acts(L, a, L1) =>
        \E r : Chain(L, q, r) /\ L1 = r[Len(q)]
  <2> SUFFICES ASSUME NEW L, NEW L1, Acts(L, a, L1)
               PROVE  \E r : Chain(L, q, r) /\ L1 = r[Len(q)]
    OBVIOUS
  <2> DEFINE r == [k \in 0 .. 1 |-> IF k = 0 THEN L ELSE L1]
  <2>1. r[0] = L /\ r[1] = L1
    OBVIOUS
  <2> HIDE DEF r
  <2>2. \A k \in 1 .. Len(q) : Acts(r[k - 1], q[k], r[k])
    <3>1. 1 - 1 = 0
      OBVIOUS
    <3> QED BY <1>1, <2>1, <3>1
  <2> QED BY <1>1, <2>1, <2>2 DEF Chain
<1>5. \A L, j : Known(L.aft[j]) \/ Writer(a, L, j) => WrittenBy(L, q, j)
  BY <1>1 DEF WrittenBy, Writer
<1> HIDE DEF q
<1>6. Whole1(q, a)
  BY <1>1, <1>2, <1>3, <1>4, <1>5 DEF Whole1
<1> QED BY <1>6 DEF q

Whole2(q, a, b) ==
  /\ Len(q) = 2 /\ Len(q) \in Nat
  /\ a.u # b.u /\ a.d # b.d => Distinct(q)
  /\ \A i, L : Meant(i, L, a) /\ Meant(i, L, b) => AllMeant(i, L, q)
  /\ \A i, L : TrueOf(i, L, a) /\ TrueOf(i, L, b) => AllTrue(i, L, q)
  /\ \A L, j : Known(L.aft[j]) \/ Writer(a, L, j) \/ Writer(b, L, j) => WrittenBy(L, q, j)
  /\ \A L, L1, L2 : Acts(L, a, L1) /\ Acts(L1, b, L2) => \E r : Chain(L, q, r) /\ L2 = r[Len(q)]
(* Two parts are a chain.                                                  *)
LEMMA Parts2 == ASSUME NEW a, NEW b PROVE Whole2(<<a, b>>, a, b)
<1> DEFINE q == <<a, b>>
<1>1. Len(q) = 2 /\ 1 .. Len(q) = {1, 2} /\ q[1] = a /\ q[2] = b
  OBVIOUS
<1>2. a.u # b.u /\ a.d # b.d => Distinct(q)
  BY <1>1 DEF Distinct
<1>3. /\ \A i, L : Meant(i, L, a) /\ Meant(i, L, b) => AllMeant(i, L, q)
      /\ \A i, L : TrueOf(i, L, a) /\ TrueOf(i, L, b) => AllTrue(i, L, q)
  BY <1>1 DEF AllMeant, AllTrue
<1>4. \A L, L1, L2 : Acts(L, a, L1) /\ Acts(L1, b, L2) =>
        \E r : Chain(L, q, r) /\ L2 = r[Len(q)]
  <2> SUFFICES ASSUME NEW L, NEW L1, NEW L2, Acts(L, a, L1), Acts(L1, b, L2)
               PROVE  \E r : Chain(L, q, r) /\ L2 = r[Len(q)]
    OBVIOUS
  <2> DEFINE r == [k \in 0 .. 2 |-> IF k = 0 THEN L ELSE IF k = 1 THEN L1 ELSE L2]
  <2>1. r[0] = L /\ r[1] = L1 /\ r[2] = L2
    OBVIOUS
  <2> HIDE DEF r
  <2>2. \A k \in 1 .. Len(q) : Acts(r[k - 1], q[k], r[k])
    <3>1. 1 - 1 = 0 /\ 2 - 1 = 1
      OBVIOUS
    <3> QED BY <1>1, <2>1, <3>1
  <2> QED BY <1>1, <2>1, <2>2 DEF Chain
<1>5. \A L, j : Known(L.aft[j]) \/ Writer(a, L, j) \/ Writer(b, L, j) => WrittenBy(L, q, j)
  BY <1>1 DEF WrittenBy, Writer
<1> HIDE DEF q
<1>6. Whole2(q, a, b)
  BY <1>1, <1>2, <1>3, <1>4, <1>5 DEF Whole2
<1> QED BY <1>6 DEF q

Whole3(q, a, b, c) ==
  /\ Len(q) = 3 /\ Len(q) \in Nat
  /\ a.u # b.u /\ a.d # b.d /\ a.u # c.u /\ a.d # c.d /\ b.u # c.u /\ b.d # c.d => Distinct(q)
  /\ \A i, L : Meant(i, L, a) /\ Meant(i, L, b) /\ Meant(i, L, c) => AllMeant(i, L, q)
  /\ \A i, L : TrueOf(i, L, a) /\ TrueOf(i, L, b) /\ TrueOf(i, L, c) => AllTrue(i, L, q)
  /\ \A L, j : Known(L.aft[j]) \/ Writer(a, L, j) \/ Writer(b, L, j) \/ Writer(c, L, j)
               => WrittenBy(L, q, j)
  /\ \A L, L1, L2, L3 : Acts(L, a, L1) /\ Acts(L1, b, L2) /\ Acts(L2, c, L3)
                        => \E r : Chain(L, q, r) /\ L3 = r[Len(q)]
(* Three parts are a chain.                                                *)
LEMMA Parts3 == ASSUME NEW a, NEW b, NEW c PROVE Whole3(<<a, b, c>>, a, b, c)
<1> DEFINE q == <<a, b, c>>
<1>1. Len(q) = 3 /\ 1 .. Len(q) = {1, 2, 3} /\ q[1] = a /\ q[2] = b /\ q[3] = c
  OBVIOUS
<1>2. a.u # b.u /\ a.d # b.d /\ a.u # c.u /\ a.d # c.d /\ b.u # c.u /\ b.d # c.d => Distinct(q)
  BY <1>1 DEF Distinct
<1>3. /\ \A i, L : Meant(i, L, a) /\ Meant(i, L, b) /\ Meant(i, L, c) => AllMeant(i, L, q)
      /\ \A i, L : TrueOf(i, L, a) /\ TrueOf(i, L, b) /\ TrueOf(i, L, c) => AllTrue(i, L, q)
  BY <1>1 DEF AllMeant, AllTrue
<1>4. \A L, L1, L2, L3 : Acts(L, a, L1) /\ Acts(L1, b, L2) /\ Acts(L2, c, L3) =>
        \E r : Chain(L, q, r) /\ L3 = r[Len(q)]
  <2> SUFFICES ASSUME NEW L, NEW L1, NEW L2, NEW L3, Acts(L, a, L1), Acts(L1, b, L2),
                      Acts(L2, c, L3)
               PROVE  \E r : Chain(L, q, r) /\ L3 = r[Len(q)]
    OBVIOUS
  <2> DEFINE r == [k \in 0 .. 3 |-> IF k = 0 THEN L ELSE IF k = 1 THEN L1 ELSE IF k = 2 THEN L2
                  ELSE L3]
  <2>1. r[0] = L /\ r[1] = L1 /\ r[2] = L2 /\ r[3] = L3
    OBVIOUS
  <2> HIDE DEF r
  <2>2. \A k \in 1 .. Len(q) : Acts(r[k - 1], q[k], r[k])
    <3>1. 1 - 1 = 0 /\ 2 - 1 = 1 /\ 3 - 1 = 2
      OBVIOUS
    <3> QED BY <1>1, <2>1, <3>1
  <2> QED BY <1>1, <2>1, <2>2 DEF Chain
<1>5. \A L, j : Known(L.aft[j]) \/ Writer(a, L, j) \/ Writer(b, L, j) \/ Writer(c, L, j)
                => WrittenBy(L, q, j)
  BY <1>1 DEF WrittenBy, Writer
<1> HIDE DEF q
<1>6. Whole3(q, a, b, c)
  BY <1>1, <1>2, <1>3, <1>4, <1>5 DEF Whole3
<1> QED BY <1>6 DEF q

Whole4(q, a, b, c, d) ==
  /\ Len(q) = 4 /\ Len(q) \in Nat
  /\ a.u # b.u /\ a.d # b.d /\ a.u # c.u /\ a.d # c.d /\ a.u # d.u /\ a.d # d.d /\ b.u # c.u
     /\ b.d # c.d /\ b.u # d.u /\ b.d # d.d /\ c.u # d.u /\ c.d # d.d => Distinct(q)
  /\ \A i, L : Meant(i, L, a) /\ Meant(i, L, b) /\ Meant(i, L, c) /\ Meant(i, L, d)
               => AllMeant(i, L, q)
  /\ \A i, L : TrueOf(i, L, a) /\ TrueOf(i, L, b) /\ TrueOf(i, L, c) /\ TrueOf(i, L, d)
               => AllTrue(i, L, q)
  /\ \A L, j : Known(L.aft[j]) \/ Writer(a, L, j) \/ Writer(b, L, j) \/ Writer(c, L, j)
               \/ Writer(d, L, j) => WrittenBy(L, q, j)
  /\ \A L, L1, L2, L3, L4 : Acts(L, a, L1) /\ Acts(L1, b, L2) /\ Acts(L2, c, L3)
                            /\ Acts(L3, d, L4) => \E r : Chain(L, q, r) /\ L4 = r[Len(q)]
(* Four parts are a chain.                                                 *)
LEMMA Parts4 == ASSUME NEW a, NEW b, NEW c, NEW d PROVE Whole4(<<a, b, c, d>>, a, b, c, d)
<1> DEFINE q == <<a, b, c, d>>
<1>1. Len(q) = 4 /\ 1 .. Len(q) = {1, 2, 3, 4} /\ q[1] = a /\ q[2] = b /\ q[3] = c /\ q[4] = d
  OBVIOUS
<1>2. a.u # b.u /\ a.d # b.d /\ a.u # c.u /\ a.d # c.d /\ a.u # d.u /\ a.d # d.d /\ b.u # c.u
      /\ b.d # c.d /\ b.u # d.u /\ b.d # d.d /\ c.u # d.u /\ c.d # d.d => Distinct(q)
  BY <1>1 DEF Distinct
<1>3. /\ \A i, L : Meant(i, L, a) /\ Meant(i, L, b) /\ Meant(i, L, c) /\ Meant(i, L, d)
                   => AllMeant(i, L, q)
      /\ \A i, L : TrueOf(i, L, a) /\ TrueOf(i, L, b) /\ TrueOf(i, L, c) /\ TrueOf(i, L, d)
                   => AllTrue(i, L, q)
  BY <1>1 DEF AllMeant, AllTrue
<1>4. \A L, L1, L2, L3, L4 : Acts(L, a, L1) /\ Acts(L1, b, L2) /\ Acts(L2, c, L3)
                             /\ Acts(L3, d, L4) =>
        \E r : Chain(L, q, r) /\ L4 = r[Len(q)]
  <2> SUFFICES ASSUME NEW L, NEW L1, NEW L2, NEW L3, NEW L4, Acts(L, a, L1), Acts(L1, b, L2),
                      Acts(L2, c, L3), Acts(L3, d, L4)
               PROVE  \E r : Chain(L, q, r) /\ L4 = r[Len(q)]
    OBVIOUS
  <2> DEFINE r == [k \in 0 .. 4 |-> IF k = 0 THEN L ELSE IF k = 1 THEN L1 ELSE IF k = 2 THEN L2
                  ELSE IF k = 3 THEN L3 ELSE L4]
  <2>1. r[0] = L /\ r[1] = L1 /\ r[2] = L2 /\ r[3] = L3 /\ r[4] = L4
    OBVIOUS
  <2> HIDE DEF r
  <2>2. \A k \in 1 .. Len(q) : Acts(r[k - 1], q[k], r[k])
    <3>1. 1 - 1 = 0 /\ 2 - 1 = 1 /\ 3 - 1 = 2 /\ 4 - 1 = 3
      OBVIOUS
    <3> QED BY <1>1, <2>1, <3>1
  <2> QED BY <1>1, <2>1, <2>2 DEF Chain
<1>5. \A L, j : Known(L.aft[j]) \/ Writer(a, L, j) \/ Writer(b, L, j) \/ Writer(c, L, j)
                \/ Writer(d, L, j) => WrittenBy(L, q, j)
  BY <1>1 DEF WrittenBy, Writer
<1> HIDE DEF q
<1>6. Whole4(q, a, b, c, d)
  BY <1>1, <1>2, <1>3, <1>4, <1>5 DEF Whole4
<1> QED BY <1>6 DEF q

(***************************************************************************)
(* Instructions whose resolver is a chain of one part, of two, of three or *)
(* of four, or leaves everything alone where it may.                       *)
(***************************************************************************)
Waits(i, L) ==
  inst_resolver(i, L) = L /\ (Honest(i, L) /\ ~ Silent(i) /\ AllRead(L) => AllWritten(L))

(* The nodes that the parts are about. *)
LEMMA PartFields ==
  ASSUME NEW u, NEW d, NEW n, NEW c
  PROVE  /\ Copy(u, d, n).kind = "tie" /\ Copy(u, d, n).u = u /\ Copy(u, d, n).d = d
         /\ Move1(u, d, n, c).kind = "tie" /\ Move1(u, d, n, c).u = u /\ Move1(u, d, n, c).d = d
         /\ StepBy(d, c).kind = "step" /\ StepBy(d, c).u = 0 /\ StepBy(d, c).d = d
         /\ FillWith(u, c).kind = "fill" /\ FillWith(u, c).u = u /\ FillWith(u, c).d = 0
  BY DEF Copy, Move1, StepBy, FillWith, TieOf

(* One part. *)
LEMMA Resolves1 ==
  ASSUME NEW i \in Instances, i.op \notin {"movq", "xor", "pxor"},
         NEW defs, NEW uses, Complete(inst_handler(i), defs, uses), Defined(i, defs),
         NEW a,
         \A L : Live(i, L) => Meant(i, L, a),
         \A L : Live(i, L) => \A j \in DOMAIN defs : Known(L.aft[j]) \/ Writer(a, L, j),
         \A L : Live(i, L) =>
           \/ (Acts(L, a, inst_resolver(i, L))) /\ (Honest(i, L) => TrueOf(i, L, a))
           \/ Waits(i, L)
  PROVE  Good(i)
<1> DEFINE q == <<a>>
<1>0. Whole1(q, a)
  BY Parts1
<1> HIDE DEF q
<1>1. /\ Len(q) \in Nat /\ Distinct(q)
      /\ \A L : Meant(i, L, a) => AllMeant(i, L, q)
      /\ \A L : TrueOf(i, L, a) => AllTrue(i, L, q)
      /\ \A L, j : Known(L.aft[j]) \/ Writer(a, L, j) => WrittenBy(L, q, j)
  BY <1>0 DEF Whole1
<1>2. \A L, M1 : Acts(L, a, M1) => \E r : Chain(L, q, r) /\ M1 = r[Len(q)]
  BY <1>0 DEF Whole1
<1>3. ASSUME NEW L, Live(i, L)
      PROVE  /\ AllMeant(i, L, q)
             /\ \A j \in DOMAIN L.aft : WrittenBy(L, q, j)
             /\ Chained(i, L, q)
  <2>1. AllMeant(i, L, q)
    BY <1>1, <1>3
  <2>2. \A j \in DOMAIN L.aft : WrittenBy(L, q, j)
    <3>1. DOMAIN L.aft = DOMAIN defs
      BY <1>3, LiveNodes
    <3> QED BY <1>1, <1>3, <3>1
  <2>3. CASE (Acts(L, a, inst_resolver(i, L))) /\ (Honest(i, L) => TrueOf(i, L, a))
    BY <1>1, <1>2, <2>1, <2>2, <2>3 DEF Chained
  <2>4. CASE Waits(i, L)
    BY <2>1, <2>2, <2>4 DEF Chained, Waits
  <2> QED BY <1>3, <2>1, <2>2, <2>3, <2>4
<1> QED BY <1>1, <1>3, AllChained

(* Two parts. *)
LEMMA Resolves2 ==
  ASSUME NEW i \in Instances, i.op \notin {"movq", "xor", "pxor"},
         NEW defs, NEW uses, Complete(inst_handler(i), defs, uses), Defined(i, defs),
         NEW a, NEW b, a.u # b.u /\ a.d # b.d,
         \A L : Live(i, L) => Meant(i, L, a) /\ Meant(i, L, b),
         \A L : Live(i, L) => \A j \in DOMAIN defs : Known(L.aft[j]) \/ Writer(a, L, j)
                \/ Writer(b, L, j),
         \A L : Live(i, L) =>
           \/ (\E L1 : Acts(L, a, L1) /\ Acts(L1, b, inst_resolver(i, L)))
              /\ (Honest(i, L) => TrueOf(i, L, a) /\ TrueOf(i, L, b))
           \/ Waits(i, L)
  PROVE  Good(i)
<1> DEFINE q == <<a, b>>
<1>0. Whole2(q, a, b)
  BY Parts2
<1> HIDE DEF q
<1>1. /\ Len(q) \in Nat /\ Distinct(q)
      /\ \A L : Meant(i, L, a) /\ Meant(i, L, b) => AllMeant(i, L, q)
      /\ \A L : TrueOf(i, L, a) /\ TrueOf(i, L, b) => AllTrue(i, L, q)
      /\ \A L, j : Known(L.aft[j]) \/ Writer(a, L, j) \/ Writer(b, L, j) => WrittenBy(L, q, j)
  BY <1>0 DEF Whole2
<1>2. \A L, M1, L1 : Acts(L, a, L1) /\ Acts(L1, b, M1) => \E r : Chain(L, q, r) /\ M1 = r[Len(q)]
  BY <1>0 DEF Whole2
<1>3. ASSUME NEW L, Live(i, L)
      PROVE  /\ AllMeant(i, L, q)
             /\ \A j \in DOMAIN L.aft : WrittenBy(L, q, j)
             /\ Chained(i, L, q)
  <2>1. AllMeant(i, L, q)
    BY <1>1, <1>3
  <2>2. \A j \in DOMAIN L.aft : WrittenBy(L, q, j)
    <3>1. DOMAIN L.aft = DOMAIN defs
      BY <1>3, LiveNodes
    <3> QED BY <1>1, <1>3, <3>1
  <2>3. CASE (\E L1 : Acts(L, a, L1) /\ Acts(L1, b, inst_resolver(i, L)))
             /\ (Honest(i, L) => TrueOf(i, L, a) /\ TrueOf(i, L, b))
    BY <1>1, <1>2, <2>1, <2>2, <2>3 DEF Chained
  <2>4. CASE Waits(i, L)
    BY <2>1, <2>2, <2>4 DEF Chained, Waits
  <2> QED BY <1>3, <2>1, <2>2, <2>3, <2>4
<1> QED BY <1>1, <1>3, AllChained

(* Three parts. *)
LEMMA Resolves3 ==
  ASSUME NEW i \in Instances, i.op \notin {"movq", "xor", "pxor"},
         NEW defs, NEW uses, Complete(inst_handler(i), defs, uses), Defined(i, defs),
         NEW a, NEW b, NEW c, a.u # b.u /\ a.d # b.d /\ a.u # c.u /\ a.d # c.d /\ b.u # c.u
         /\ b.d # c.d,
         \A L : Live(i, L) => Meant(i, L, a) /\ Meant(i, L, b) /\ Meant(i, L, c),
         \A L : Live(i, L) => \A j \in DOMAIN defs : Known(L.aft[j]) \/ Writer(a, L, j)
                \/ Writer(b, L, j) \/ Writer(c, L, j),
         \A L : Live(i, L) =>
           \/ (\E L1, L2 : Acts(L, a, L1) /\ Acts(L1, b, L2)
              /\ Acts(L2, c, inst_resolver(i, L)))
                 /\ (Honest(i, L) => TrueOf(i, L, a) /\ TrueOf(i, L, b) /\ TrueOf(i, L, c))
           \/ Waits(i, L)
  PROVE  Good(i)
<1> DEFINE q == <<a, b, c>>
<1>0. Whole3(q, a, b, c)
  BY Parts3
<1> HIDE DEF q
<1>1. /\ Len(q) \in Nat /\ Distinct(q)
      /\ \A L : Meant(i, L, a) /\ Meant(i, L, b) /\ Meant(i, L, c) => AllMeant(i, L, q)
      /\ \A L : TrueOf(i, L, a) /\ TrueOf(i, L, b) /\ TrueOf(i, L, c) => AllTrue(i, L, q)
      /\ \A L, j : Known(L.aft[j]) \/ Writer(a, L, j) \/ Writer(b, L, j) \/ Writer(c, L, j)
                   => WrittenBy(L, q, j)
  BY <1>0 DEF Whole3
<1>2. \A L, M1, L1, L2 : Acts(L, a, L1) /\ Acts(L1, b, L2) /\ Acts(L2, c, M1)
                         => \E r : Chain(L, q, r) /\ M1 = r[Len(q)]
  BY <1>0 DEF Whole3
<1>3. ASSUME NEW L, Live(i, L)
      PROVE  /\ AllMeant(i, L, q)
             /\ \A j \in DOMAIN L.aft : WrittenBy(L, q, j)
             /\ Chained(i, L, q)
  <2>1. AllMeant(i, L, q)
    BY <1>1, <1>3
  <2>2. \A j \in DOMAIN L.aft : WrittenBy(L, q, j)
    <3>1. DOMAIN L.aft = DOMAIN defs
      BY <1>3, LiveNodes
    <3> QED BY <1>1, <1>3, <3>1
  <2>3. CASE (\E L1, L2 : Acts(L, a, L1) /\ Acts(L1, b, L2) /\ Acts(L2, c, inst_resolver(i, L)))
             /\ (Honest(i, L) => TrueOf(i, L, a) /\ TrueOf(i, L, b) /\ TrueOf(i, L, c))
    BY <1>1, <1>2, <2>1, <2>2, <2>3 DEF Chained
  <2>4. CASE Waits(i, L)
    BY <2>1, <2>2, <2>4 DEF Chained, Waits
  <2> QED BY <1>3, <2>1, <2>2, <2>3, <2>4
<1> QED BY <1>1, <1>3, AllChained

(***************************************************************************)
(* Effects on two places and on three, and nodes written out.              *)
(***************************************************************************)
(* What two assignments leave, and what three do. *)
LEMMA TwoCells ==
  ASSUME NEW i, NEW p, NEW q, NEW v, NEW w, Effect(i) = (p := v) ++ (q := w)
  PROVE  /\ Changed(i) \subseteq {p, q}
         /\ \A o : o.place = p => After(i, o) = v
         /\ \A o : o.place = q /\ q # p => After(i, o) = w
         /\ \A o : o.place \in DOMAIN i.before /\ o.place \notin {p, q}
                   => After(i, o) = Before(i, o)
<1> DEFINE g == (p := v) ++ (q := w)
<1>1. DOMAIN g = {p, q} /\ g[p] = v /\ (q # p => g[q] = w)
  BY DEF :=, ++
<1> HIDE DEF g
<1>2. \A r : (g ++ i.before)[r] = IF r \in {p, q} THEN g[r] ELSE
                 IF r \in DOMAIN i.before THEN i.before[r] ELSE (g ++ i.before)[r]
  BY <1>1 DEF ++
<1>3. Effect(i) = g
  BY DEF g
<1> QED BY <1>1, <1>2, <1>3 DEF Changed, After, Before

(* An effect on three places changes these and no others.                  *)
LEMMA ThreeCells ==
  ASSUME NEW i, NEW p, NEW q, NEW r, NEW u, NEW v, NEW w, p # q, p # r, q # r,
         Effect(i) = (p := u) ++ (q := v) ++ (r := w)
  PROVE  /\ Changed(i) \subseteq {p, q, r}
         /\ \A o : o.place = p => After(i, o) = u
         /\ \A o : o.place = q => After(i, o) = v
         /\ \A o : o.place = r => After(i, o) = w
<1> DEFINE g == (p := u) ++ (q := v) ++ (r := w)
<1>1. DOMAIN g = {p, q, r} /\ g[p] = u /\ g[q] = v /\ g[r] = w
  <2> DEFINE h == (p := u) ++ (q := v)
  <2>1. DOMAIN h = {p, q} /\ h[p] = u /\ h[q] = v
    BY DEF :=, ++
  <2>2. g = h ++ (r := w)
    OBVIOUS
  <2> HIDE DEF g, h
  <2> QED BY <2>1, <2>2 DEF :=, ++
<1> HIDE DEF g
<1>2. \A s \in {p, q, r} : (g ++ i.before)[s] = g[s]
  BY <1>1 DEF ++
<1>3. Effect(i) = g
  BY DEF g
<1> QED BY <1>1, <1>2, <1>3 DEF Changed, After

(* The nodes of an instruction, by the sizes of its operands. *)
LEMMA NodesOf ==
  ASSUME NEW i \in Instances, NEW defs, NEW uses, Complete(inst_handler(i), defs, uses)
  PROVE  /\ \A k \in DOMAIN uses : \A o : uses[k] = Use(o) =>
              /\ uses[k].o = o /\ Before(i, o) \in Bytes(Size(o)) /\ Size(o) \in Nat \ {0}
              /\ Valid(i, o) /\ o.place \in DOMAIN i.before
         /\ \A j \in DOMAIN defs : \A o : defs[j] = Define(o) =>
              /\ defs[j].o = o /\ Before(i, o) \in Bytes(Size(o)) /\ Size(o) \in Nat \ {0}
              /\ Valid(i, o) /\ o.place \in DOMAIN i.before /\ defs[j].aft = <<>>
<1>1. /\ \A k \in DOMAIN uses : Valid(i, uses[k].o)
      /\ \A j \in DOMAIN defs : Valid(i, defs[j].o)
  BY Valids
<1>2. \A o : Valid(i, o) => Before(i, o) \in Bytes(Size(o)) /\ Size(o) \in Nat \ {0}
  BY DEF Valid, Before
<1>3. \A o : Use(o).o = o /\ Define(o).o = o /\ Define(o).aft = <<>>
  BY DEF Use, Define
<1> QED BY <1>1, <1>2, <1>3 DEF Valid
=============================================================================
