--------------------------- MODULE ArithmeticInst ---------------------------
(***************************************************************************)
(* handler_arithmetic.c: the nodes and the resolvers of the arithmetic     *)
(* instructions, and what the processor does for them.                     *)
(***************************************************************************)
EXTENDS InstKnowledge

Small == {"byte", "word", "dword"}
if_datatype(K, o, supported, then) == IF o.dt \in supported THEN then ELSE abort(K)

(* dst := dst op src *)
DstSrc(x) == DefineAt(x.dst) \o UseAt(x.dst) \o UseAt(x.src)

-----------------------------------------------------------------------------
add_handler(x) == Accept(x, {RR, RM, MI, MR, RI}, DstSrc(x))
sub_handler(x) == Accept(x, {RR, RI, MI, MR, RM}, DstSrc(x))

(* Bug: an immediate of one byte is added as it is. *)
add_unextended(x, K) ==
  LET v == Fit(K.val[2], Size(K.src[1]))
  IN  from_two(K, AddVal(K.val[1], v), SubVal(K.aft[1], v), SubVal(K.aft[1], K.val[1]))

add_resolver(x, K) ==
  LET v == sign_extend_valset(K.val[2], Size(K.src[1]))
  IN  IF x.op = "adc" \/ ~ (sees(K, {1, 2}, {}) \/ sees(K, {1}, {1}) \/ sees(K, {2}, {1}))
      THEN K
      ELSE if_datatype(K, K.src[1], Small,
             from_two(K, AddVal(K.val[1], v), SubVal(K.aft[1], v),
                      SubVal(K.aft[1], K.val[1])))

(* Only an immediate is sign-extended.  The vector form, psubb, is checked *)
(* and undone byte by byte but never computed.                             *)
Subtrahend(K) ==
  LET n == Size(K.src[1])
  IN  IF K.src[1].dt # "byte" /\ K.src[2].t = "imm" /\ K.src[2].dt = "byte"
      THEN sign_extend_valset(K.val[2], n) ELSE Fit(K.val[2], n)
SubByte(a, b) == (a - b) % Radix
add_dq_valset(a, b) == (a + b) % Radix
difference(K) ==
  IF K.src[1].dt \in Small THEN SubVal(K.val[1], Subtrahend(K))
  ELSE Bytewise(SubByte, K.val[1], K.val[2])
(* Bug: the operands of a difference are swapped on the way back. *)
sub_swapped_back(x, K) ==
  IF sees(K, {1, 2}, {1}) THEN assert_val(K, "aft", 1, difference(K))
  ELSE IF sees(K, {1}, {1}) THEN put(K, "val", 2, SubVal(K.aft[1], K.val[1]))
  ELSE K
sub_resolver(x, K) ==
  IF x.op = "sbb" THEN K
  ELSE IF sees(K, {1, 2}, {1}) THEN assert_val(K, "aft", 1, difference(K))
  ELSE IF sees(K, {1, 2}, {}) THEN
    if_datatype(K, K.src[1], Small, put(K, "aft", 1, difference(K)))
  ELSE IF sees(K, {1}, {1}) THEN
    if_datatype(K, K.src[1], Small, put(K, "val", 2, SubVal(K.val[1], K.aft[1])))
  ELSE IF sees(K, {2}, {1}) THEN
    if_datatype(K, K.src[1], Small \cup {"dqword"}, put(K, "val", 1,
      IF K.src[1].dt = "dqword" THEN Bytewise(add_dq_valset, K.aft[1], K.val[2])
      ELSE AddVal(K.aft[1], Subtrahend(K))))
  ELSE K

inc_handler(x) == IF x.dst.t = "reg" THEN <<Define(x.dst), Use(x.dst)>> ELSE Unsupported
dec_handler(x) == inc_handler(x)
inc_resolver(x, K) == both_ways(K, 1, 1, AddVal(K.val[1], <<1>>), SubVal(K.aft[1], <<1>>))
dec_resolver(x, K) == both_ways(K, 1, 1, SubVal(K.val[1], <<1>>), AddVal(K.aft[1], <<1>>))

-----------------------------------------------------------------------------
(***************************************************************************)
(* Products.  mul has one explicit operand: edx:eax := eax * src, and the  *)
(* address of src is not split.  imul has two or three.                    *)
(***************************************************************************)
Eax == Dword("eax")
Edx == Dword("edx")

mul_handler(x) ==
  CASE x.op = "mul"   -> <<Define(Edx), Define(Eax), Use(Eax), Use(x.src)>>
    [] x.op = "imul2" -> Accept(x, {RR, RM}, DstSrc(x))
    [] x.op = "imul3" -> Accept(x, {RR, RM}, <<Define(x.dst)>> \o UseAt(x.src) \o <<Use(x.third)>>)

(* A signed integer of two words, and the division of C. *)
Signed2(n, v) == IF 2 * n >= Radix ^ (2 * Len(v)) THEN n - Radix ^ (2 * Len(v)) ELSE n
CDiv(a, b) == IF a >= 0 THEN a \div b ELSE 0 - ((0 - a) \div b)
CRem(a, b) == a - b * CDiv(a, b)

LowPart(p, v)  == Mod(p, v)
HighPart(p, v) == Mod(CDiv(Signed2(p, v), Radix ^ Len(v)), v)
Joined(hi, lo) == ToNum(hi) * Radix ^ Len(lo) + ToNum(lo)
quotient_of(K, u, n, by) ==
  IF ToNum(by) = 0 THEN crash(K) ELSE put(K, "val", u, Mod(CDiv(n, ToNum(by)), by))

mul_one_resolver(K) ==
  LET p    == ToNum(K.val[1]) * ToNum(K.val[2])
      back == Signed2(Joined(K.aft[1], K.aft[2]), K.aft[2])
  IN  IF sees(K, {1, 2}, {1, 2}) THEN
        tell(tell(K, "aft", 2, LowPart(p, K.val[1])), "aft", 1, HighPart(p, K.val[1]))
      ELSE IF sees(K, {1, 2}, {}) THEN
        put(put(K, "aft", 1, HighPart(p, K.val[1])), "aft", 2, LowPart(p, K.val[1]))
      ELSE IF sees(K, {2}, {1, 2}) THEN quotient_of(K, 1, back, K.val[2])
      ELSE IF sees(K, {1}, {1, 2}) THEN quotient_of(K, 2, back, K.val[1])
      ELSE K

(* The product is cut to the size of the operands and the way back divides *)
(* what is left of it; an immediate keeps its byte.                        *)
mul_more_resolver(K) ==
  IF sees(K, {1, 2}, {}) THEN tell(K, "aft", 1, Mod(ToNum(K.val[1]) * ToNum(K.val[2]), K.val[1]))
  ELSE IF sees(K, {1}, {1}) THEN quotient_of(K, 2, ToNum(K.aft[1]), K.val[1])
  ELSE IF sees(K, {2}, {1}) THEN quotient_of(K, 1, ToNum(K.aft[1]), Fit(K.val[2], Size(K.src[1])))
  ELSE K
mul_resolver(x, K) == IF x.op = "mul" THEN mul_one_resolver(K) ELSE mul_more_resolver(K)

-----------------------------------------------------------------------------
(* eax, edx := quotient and remainder of edx:eax by src.  Uses: the        *)
(* divisor, eax, edx.                                                      *)
div_handler(x) == <<Define(Eax), Define(Edx)>> \o UseAt(x.src) \o <<Use(Eax), Use(Edx)>>
div_resolver(x, K) ==
  LET dividend == Signed2(Joined(K.val[3], K.val[2]), K.val[2])
      divisor  == ToNum(K.val[1])
      product  == ToNum(K.aft[1]) * divisor + ToNum(K.aft[2])
  IN  IF sees(K, {1, 2, 3}, {1, 2}) THEN
        IF ToNum(K.aft[1]) = 0 THEN crash(K)
        ELSE assert_val(K, "val", 1,
               Mod(CDiv(dividend - ToNum(K.aft[2]), ToNum(K.aft[1])), K.val[1]))
      ELSE IF sees(K, {1, 2, 3}, {}) THEN
        IF divisor = 0 THEN crash(K)
        ELSE put(put(K, "aft", 1, Mod(CDiv(dividend, divisor), K.val[1])),
                 "aft", 2, Mod(CRem(dividend, divisor), K.val[1]))
      ELSE IF sees(K, {3}, {1, 2}) THEN
        put(put(K, "val", 1, LowPart(product, K.aft[1])), "val", 2,
            HighPart(product, K.aft[1]))
      ELSE IF sees(K, {1, 2}, {1, 2}) THEN
        IF ToNum(K.aft[1]) = 0 THEN crash(K)
        ELSE put(K, "val", 1, Mod(CDiv(ToNum(K.val[2]) - ToNum(K.aft[2]), ToNum(K.aft[1])),
                                  K.val[1]))
      ELSE K

-----------------------------------------------------------------------------
(***************************************************************************)
(* Shifts and rotations.                                                   *)
(***************************************************************************)
shld_handler(x) == <<Define(x.dst), Use(x.dst), Use(x.src), Use(x.third)>>
shl_handler(x)  ==
  IF x.op = "shld" THEN shld_handler(x) ELSE Accept(x, {MI, RI, RR}, DstSrc(x))
shr_handler(x)  == Accept(x, {MI, RI, RR}, DstSrc(x))
rol_handler(x)  == Accept(x, {RI}, DstSrc(x))
ror_handler(x)  == Accept(x, {RI}, DstSrc(x))

(* "<<" binds less than "+": the first operand is shifted by the second.   *)
shld_resolver(x, K) ==
  LET tmp == ShiftLeft(K.val[1], ToNum(K.val[2]))
  IN  forward_only(K, {1, 2, 3}, 1,
        Mod((ToNum(tmp) * 2 ^ K.val[3][1]) \div Radix ^ DW, K.val[1]))
process_other_shl_inst(x, K) == shld_resolver(x, K)
shl_resolver(x, K) ==
  IF x.op # "shl" THEN process_other_shl_inst(x, K)
  ELSE IF K.src[2].dt # "byte" THEN abort(K)
  ELSE forward_only(K, {1, 2}, 1, ShiftLeft(K.val[1], K.val[2][1]))

shr_resolver(x, K) ==
  IF K.src[2].dt = "word" \/ ToNum(K.val[2]) >= Radix THEN abort(K)
  ELSE forward_only(K, {1, 2}, 1, ShiftRight(K.val[1], K.val[2][1]))

Rotated(v, c) ==
  LET size == Len(v) * ByteBits
      old  == Bits(ToNum(v), size)
  IN  Mod(Number([k \in 1 .. size |-> old[1 + ((k - 1 - c) % size)]], 2), v)
rol_val(v, c) == Rotated(v, c)
ror_val(v, c) == Rotated(v, Len(v) * ByteBits - c)

(* The count is known; which sizes are computed and which are undone       *)
(* differs between the two.                                                *)
rotate(K, computed, undone, forward, back) ==
  IF sees(K, {1, 2}, {}) THEN if_datatype(K, K.dst[1], computed, tell(K, "aft", 1, forward))
  ELSE IF sees(K, {2}, {1}) THEN if_datatype(K, K.dst[1], undone, tell(K, "val", 1, back))
  ELSE K
rol_resolver(x, K) ==
  rotate(K, {"dword"}, {"word", "dword"},
         rol_val(K.val[1], K.val[2][1]), ror_val(K.aft[1], K.val[2][1]))
ror_resolver(x, K) ==
  rotate(K, {"word", "dword"}, {"dword"},
         ror_val(K.val[1], K.val[2][1]), rol_val(K.aft[1], K.val[2][1]))

-----------------------------------------------------------------------------
(***************************************************************************)
(* The processor.  Immediates are sign-extended, counts are taken modulo   *)
(* the width of a register.                                                *)
(***************************************************************************)
SourceValue(x) == sign_extend_valset(Before(x, x.src), Size(x.dst))
Arithmetic(x) ==
  LET a == Before(x, x.dst)
      b == SourceValue(x)
      c == Before(x, x.src)[1]
  IN  CASE x.op = "add"   -> x.dst.place := AddVal(a, b)
        [] x.op = "adc"   -> x.dst.place := AddVal(AddVal(a, b), <<x.flag>>)
        [] x.op = "sub"   -> x.dst.place := SubVal(a, b)
        [] x.op = "sbb"   -> x.dst.place := SubVal(SubVal(a, b), <<x.flag>>)
        [] x.op = "psubb" -> x.dst.place := Bytewise(SubByte, a, b)
        [] x.op = "inc"   -> x.dst.place := AddVal(a, <<1>>)
        [] x.op = "dec"   -> x.dst.place := SubVal(a, <<1>>)
        [] x.op = "mul"   ->
             LET p == ToNum(x.before["eax"]) * ToNum(Before(x, x.src))
             IN  ("eax" := Mod(p, b)) ++ ("edx" := Mod(p \div AddrSpace, b))
        [] x.op = "imul2" -> x.dst.place := Mod(ToNum(a) * ToNum(b), a)
        [] x.op = "imul3" ->
             x.dst.place :=
               Mod(ToNum(b) * ToNum(sign_extend_valset(Before(x, x.third), Size(x.dst))), a)
        [] x.op = "div"   ->
             LET n == Joined(x.before["edx"], x.before["eax"])
             IN  ("eax" := Mod(n \div ToNum(b), b)) ++ ("edx" := Mod(n % ToNum(b), b))
        [] x.op = "shl"   -> x.dst.place := ShiftLeft(a, c)
        [] x.op = "shr"   -> x.dst.place := ShiftRight(a, c)
        [] x.op = "shld"  ->
             x.dst.place :=
               Mod((Joined(a, b) * 2 ^ Before(x, x.third)[1]) \div Radix ^ DW, a)
        [] x.op = "rol"   -> x.dst.place := Rotated(a, c)
        [] x.op = "ror"   -> x.dst.place := Rotated(a, Len(a) * ByteBits - c)
=============================================================================
