--------------------------- MODULE StridedInterval ---------------------------
(***************************************************************************)
(* Strided intervals s[l, u] of re_valueset.c: the integers l, l + s, ...  *)
(* up to u, with stride 0 for a single value.                              *)
(*                                                                         *)
(* A long has Bits bits.  The tool is compiled without optimisation for an *)
(* ILP32 machine, so that a signed sum wraps (Long) and a stride, which is *)
(* unsigned, is taken modulo Words.  The field "bits", which is written    *)
(* and compared but never used, is left to ValueSet.                       *)
(***************************************************************************)
EXTENDS Integers, FiniteSetsExt

CONSTANT Bits   (* bits of a long, and of an int *)

ASSUME BitsAssumption == Bits \in Nat \ {0, 1, 2}

Words   == 2 ^ Bits
MaxLong == 2 ^ (Bits - 1) - 1
MinLong == 0 - 2 ^ (Bits - 1)
Longs   == MinLong .. MaxLong

Long(n)  == ((n - MinLong) % Words) + MinLong
ULong(n) == n % Words

Interval(s, l, u) == [stride |-> s, lower_bound |-> l, upper_bound |-> u]
One(n)            == Interval(0, n, n)

max_si == MaxLong
min_si == MinLong
FullInterval == Interval(1, min_si, max_si)

si_is_one_value(si) == si.stride = 0 /\ si.lower_bound = si.upper_bound
si_is_full(si)      == si.lower_bound = min_si /\ si.upper_bound = max_si

(* What an interval stands for. *)
Elements(si) ==
  IF si.stride = 0 THEN {si.lower_bound}
  ELSE {si.lower_bound + k * si.stride :
          k \in 0 .. (si.upper_bound - si.lower_bound) \div si.stride}

(* The membership test of the source looks at the stride only.             *)
IS_IN_SI(v, si) ==
  IF si.stride = 0 THEN v = si.lower_bound
  ELSE ULong(v - si.lower_bound) % si.stride = 0

-----------------------------------------------------------------------------
(***************************************************************************)
(* Tests that walk an interval with an int from the lower to the upper     *)
(* bound.  When the bound is too close to the largest int for the step,    *)
(* the counter wraps and the loop goes round until something is found.     *)
(***************************************************************************)
Yes == "yes"
No  == "no"
Endless == "endless"
Answer(b) == IF b THEN Yes ELSE No

Counter(si, k) == Long(si.lower_bound + k * si.stride)
Exits(si)      == {k \in 0 .. Words : Counter(si, k) > si.upper_bound}
Ends(si)       == Exits(si) # {}
Visited(si)    ==
  {Counter(si, k) : k \in 0 .. (IF Ends(si) THEN Min(Exits(si)) ELSE Words) - 1}

WalkAll(si, P(_)) ==
  IF \E i \in Visited(si) : ~ P(i) THEN No ELSE IF Ends(si) THEN Yes ELSE Endless
WalkSome(si, P(_)) ==
  IF \E i \in Visited(si) : P(i) THEN Yes ELSE IF Ends(si) THEN No ELSE Endless

(* Two nested loops: an inner one that does not end is never left.         *)
WalkAllPairs(outer, inner, P(_, _)) ==
  IF Ends(inner)
  THEN WalkAll(outer, LAMBDA i : \A j \in Visited(inner) : P(i, j))
  ELSE IF Visited(outer) = {} THEN Yes
  ELSE WalkAll(inner, LAMBDA j : P(outer.lower_bound, j))
WalkSomePair(outer, inner, P(_, _)) ==
  IF Ends(inner)
  THEN WalkSome(outer, LAMBDA i : \E j \in Visited(inner) : P(i, j))
  ELSE IF Visited(outer) = {} THEN No
  ELSE WalkSome(inner, LAMBDA j : P(outer.lower_bound, j))

(* Two accesses at offsets a1 and a2: the macros of insthandler.h on longs. *)
superset_offsets(a1, s1, a2, s2) ==
  a1 <= a2 /\ Long(a1 + s1) >= Long(a2 + s2) /\ a2 < Long(a2 + s2)
overlap_offsets(a1, s1, a2, s2) ==
  \/ Long(a1 + s1) > a2 /\ Long(a1 + s1) <= Long(a2 + s2)
  \/ Long(a2 + s2) > a1 /\ Long(a2 + s2) <= Long(a1 + s1)

si_contain(si1, si2) ==
  IF si1.stride = 0
  THEN Answer(si2.stride = 0 /\ si1.lower_bound = si2.lower_bound)
  ELSE IF si2.stride = 0 THEN Answer(IS_IN_SI(si2.lower_bound, si1))
  ELSE IF si_is_full(si1) THEN Yes
  ELSE IF si_is_full(si2) THEN No
  ELSE WalkAll(si2, LAMBDA i : IS_IN_SI(i, si1))

si_contain_with_len(si1, size1, si2, size2) ==
  IF si_is_full(si1) THEN Yes
  ELSE IF si_is_full(si2) THEN No
  ELSE IF si1.stride = 0 /\ si2.stride = 0
  THEN Answer(superset_offsets(si1.lower_bound, size1, si2.lower_bound, size2))
  ELSE IF si1.stride = 0
  THEN WalkAll(si2, LAMBDA i : superset_offsets(si1.lower_bound, size1, i, size2))
  ELSE IF si2.stride = 0
  THEN WalkSome(si1, LAMBDA i : superset_offsets(i, size1, si2.lower_bound, size2))
  ELSE WalkAllPairs(si2, si1, LAMBDA j, i : superset_offsets(i, size1, j, size2))

(* Bug: a shorter access is compared by its first byte only. *)
si_overlap_first_byte(si1, size1, si2, size2) ==
  IF si_is_full(si1) \/ si_is_full(si2) THEN Yes
  ELSE Answer(Elements(si1) \cap Elements(si2) # {})

si_overlap_with_len(si1, size1, si2, size2) ==
  IF si_is_full(si1) \/ si_is_full(si2) THEN Yes
  ELSE IF si1.stride = 0 /\ si2.stride = 0
  THEN Answer(overlap_offsets(si1.lower_bound, size1, si2.lower_bound, size2))
  ELSE IF si1.stride = 0
  THEN WalkSome(si2, LAMBDA i : overlap_offsets(si1.lower_bound, size1, i, size2))
  ELSE IF si2.stride = 0
  THEN WalkSome(si1, LAMBDA i : overlap_offsets(i, size1, si2.lower_bound, size2))
  ELSE WalkSomePair(si1, si2, LAMBDA i, j : overlap_offsets(i, size1, j, size2))

-----------------------------------------------------------------------------
(***************************************************************************)
(* Arithmetic.                                                             *)
(***************************************************************************)
gcd(a, b) == Max({d \in 1 .. Words : a % d = 0 /\ b % d = 0})

si_add_offset(si, offset) ==
  IF si_is_full(si) THEN si
  ELSE [si EXCEPT !.lower_bound = Long(@ + offset), !.upper_bound = Long(@ + offset)]

(* Bug: the stride of the first operand is kept. *)
si_add_first_stride(src1, src2) ==
  IF si_is_full(src1) \/ si_is_full(src2) THEN FullInterval
  ELSE Interval(src1.stride, Long(src1.lower_bound + src2.lower_bound),
                Long(src1.upper_bound + src2.upper_bound))

si_add(src1, src2) ==
  IF si_is_full(src1) \/ si_is_full(src2) THEN FullInterval
  ELSE IF src2.stride = 0 THEN si_add_offset(src1, src2.lower_bound)
  ELSE IF src1.stride = 0 THEN si_add_offset(src2, src1.lower_bound)
  ELSE Interval(gcd(src1.stride, src2.stride),
                Long(src1.lower_bound + src2.lower_bound),
                Long(src1.upper_bound + src2.upper_bound))

si_neg(si) ==
  IF si_is_full(si) \/ (si.lower_bound = min_si /\ si.upper_bound = min_si) THEN si
  ELSE IF si.lower_bound = min_si THEN FullInterval
  ELSE Interval(si.stride, 0 - si.upper_bound, 0 - si.lower_bound)

si_sub(src1, src2) == si_add(src1, si_neg(src2))

(* The stride is multiplied by the offset too, whatever its sign.          *)
si_mul_offset(si, offset) ==
  IF si_is_full(si) THEN si
  ELSE IF offset > 0
  THEN Interval(ULong(si.stride * offset),
                Long(si.lower_bound * offset), Long(si.upper_bound * offset))
  ELSE Interval(ULong(si.stride * offset),
                Long(si.upper_bound * offset), Long(si.lower_bound * offset))

-----------------------------------------------------------------------------
(***************************************************************************)
(* Bitwise operations, on the bits of unsigned values.                     *)
(***************************************************************************)
BitOf(n, i)  == (n \div 2 ^ i) % 2
Positions    == 0 .. Bits - 1
NumberOf(on) == MapThenSumSet(LAMBDA i : 2 ^ i, on)

BitOr(a, b)  == NumberOf({i \in Positions : BitOf(a, i) = 1 \/ BitOf(b, i) = 1})
BitAnd(a, b) == NumberOf({i \in Positions : BitOf(a, i) = 1 /\ BitOf(b, i) = 1})
BitXor(a, b) == NumberOf({i \in Positions : BitOf(a, i) # BitOf(b, i)})

LongOr(a, b)  == Long(BitOr(ULong(a), ULong(b)))
LongAnd(a, b) == Long(BitAnd(ULong(a), ULong(b)))
LongXor(a, b) == Long(BitXor(ULong(a), ULong(b)))

(* (lb | m) & -m, and (ub - m) | (m - 1), for the bit m = 2 ^ i.           *)
RaisedTo(lb, i)   == NumberOf({j \in Positions : j = i \/ (j > i /\ BitOf(lb, j) = 1)})
LoweredBelow(ub, i) ==
  NumberOf({j \in Positions : j < i \/ (j > i /\ BitOf(ub, j) = 1)})

(* The bound that a loop over the bits, from the highest down, changes:    *)
(* it stops at the first bit at which that keeps the bound in range.       *)
minOR(lb1, ub1, lb2, ub2) ==
  LET first(i)  == BitOf(lb1, i) = 0 /\ BitOf(lb2, i) = 1 /\ RaisedTo(lb1, i) <= ub1
      second(i) == BitOf(lb1, i) = 1 /\ BitOf(lb2, i) = 0 /\ RaisedTo(lb2, i) <= ub2
      stops     == {i \in Positions : first(i) \/ second(i)}
  IN  IF stops = {} THEN BitOr(lb1, lb2)
      ELSE IF first(Max(stops)) THEN BitOr(RaisedTo(lb1, Max(stops)), lb2)
      ELSE BitOr(lb1, RaisedTo(lb2, Max(stops)))

maxOR(lb1, ub1, lb2, ub2) ==
  LET both(i)  == BitOf(ub1, i) = 1 /\ BitOf(ub2, i) = 1
      first(i) == LoweredBelow(ub1, i) >= lb1
      stops    == {i \in Positions : both(i) /\ (first(i) \/ LoweredBelow(ub2, i) >= lb2)}
  IN  IF stops = {} THEN BitOr(ub1, ub2)
      ELSE IF first(Max(stops)) THEN BitOr(LoweredBelow(ub1, Max(stops)), ub2)
      ELSE BitOr(ub1, LoweredBelow(ub2, Max(stops)))

(* Meant to count trailing zeros; -s & (s - 1) has no bit in common.       *)
ntz(s) == Max({0} \cup {i + 1 : i \in {j \in Positions :
                  BitOf(BitAnd(ULong(0 - s), ULong(s - 1)), j) = 1}})

(* Signs of the lower and the upper bound.                                 *)
Negative(si) == si.lower_bound < 0 /\ si.upper_bound < 0
Crossing(si) == si.lower_bound < 0 /\ si.upper_bound >= 0
Positive(si) == si.lower_bound >= 0 /\ si.upper_bound >= 0
check_bound_status(src1, src2) ==
  LET sign(si) == CASE Negative(si) -> "N" [] Crossing(si) -> "NP"
                    [] Positive(si) -> "P" [] OTHER -> "none"
  IN  <<sign(src1), sign(src2)>>

(* Bug: a bound that may be negative is treated as the others are. *)
or_bounds_unsigned(l1, u1, l2, u2, status) ==
  <<minOR(ULong(l1), ULong(u1), ULong(l2), ULong(u2)),
    maxOR(ULong(l1), ULong(u1), ULong(l2), ULong(u2))>>

(* Least and greatest value of a | b, as unsigned numbers.                 *)
or_bounds(l1, u1, l2, u2, status) ==
  LET L1 == ULong(l1)
      U1 == ULong(u1)
      L2 == ULong(l2)
      U2 == ULong(u2)
      top == Words - 1
  IN  CASE status = <<"N", "NP">>  -> <<L1, top>>
        [] status = <<"NP", "N">>  -> <<L2, top>>
        [] status = <<"NP", "NP">> -> <<ULong(Min({l1, l2})), maxOR(0, U1, 0, U2)>>
        [] status = <<"NP", "P">>  -> <<minOR(L1, top, L2, U2), maxOR(0, U1, L2, U2)>>
        [] status = <<"P", "NP">>  -> <<minOR(L1, U1, L2, top), maxOR(L1, U1, 0, U2)>>
        [] OTHER                   -> <<minOR(L1, U1, L2, U2), maxOR(L1, U1, L2, U2)>>

(* The low bits below the common stride are those of the first operand.    *)
LowBits(n, t)  == ULong(n) % 2 ^ t
HighBits(n, t) == n - LowBits(n, t)

si_or(src1, src2) ==
  IF src1.stride = 0 /\ src2.stride = 0
  THEN One(LongOr(src1.lower_bound, src2.lower_bound))
  ELSE LET t == Min({ntz(src1.stride), ntz(src2.stride)})
           r == LowBits(src1.lower_bound, t)
           b == or_bounds(src1.lower_bound, src1.upper_bound, src2.lower_bound,
                          src2.upper_bound, check_bound_status(src1, src2))
       IN  Interval(2 ^ t, Long(HighBits(b[1], t) + r), Long(HighBits(b[2], t) + r))

si_not(si) == Interval(si.stride, (0 - si.upper_bound) - 1, (0 - si.lower_bound) - 1)

si_and(src1, src2) ==
  IF src1.stride = 0 /\ src2.stride = 0
  THEN One(LongAnd(src1.lower_bound, src2.lower_bound))
  ELSE si_not(si_or(si_not(src1), si_not(src2)))

si_xor(src1, src2) ==
  IF src1.stride = 0 /\ src2.stride = 0
  THEN One(LongXor(src1.lower_bound, src2.lower_bound))
  ELSE si_or(si_and(src1, si_not(src2)), si_and(si_not(src1), src2))

(* The mask with a constant that is not the value of an address.           *)
si_and_offset(si, offset) ==
  IF si_is_full(si) THEN si
  ELSE IF offset < 0
  THEN Interval(1, Long(si.lower_bound + offset + 1), si.upper_bound)
  ELSE Interval(1, 0, offset)
=============================================================================
