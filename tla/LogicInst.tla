------------------------------ MODULE LogicInst ------------------------------
(***************************************************************************)
(* handler_logic.c and handler_sse.c: bitwise instructions and those on    *)
(* vector registers.                                                       *)
(***************************************************************************)
EXTENDS ArithmeticInst

and_handler(x) == Accept(x, {RI, MI, RR, RM}, DstSrc(x))
or_handler(x)  == Accept(x, {RR, RM, RI, MR, MI}, DstSrc(x))
not_handler(x) == DefineAt(x.dst) \o UseAt(x.dst)
neg_handler(x) == IF x.dst.t = "reg" THEN <<Define(x.dst), Use(x.dst)>> ELSE Unsupported

(* The second operand of and is sign-extended from its own size, which no  *)
(* vector has; that of or and of xor is not extended at all.               *)
and_resolver(x, K) ==
  IF ~ sees(K, {1, 2}, {}) THEN K
  ELSE if_datatype(K, K.src[2], Small,
         tell(K, "aft", 1, Bytewise(AndByte, K.val[1],
                             sign_extend_valset(K.val[2], Size(K.src[1])))))
or_resolver(x, K) ==
  forward_only(K, {1, 2}, 1, Bytewise(OrByte, K.val[1], Fit(K.val[2], Size(K.src[1]))))

NotVal(v) == [i \in DOMAIN v |-> NotByte(v[i])]
NegVal(v) == Mod(0 - ToNum(v), v)
not_resolver(x, K) == both_ways(K, 1, 1, NotVal(K.val[1]), NotVal(K.aft[1]))
neg_resolver(x, K) == both_ways(K, 1, 1, NegVal(K.val[1]), NegVal(K.aft[1]))

(* xor of a register with itself is known to be zero.                      *)
pxor_handler(x) ==
  IF Form(x) = RR /\ x.dst = x.src
  THEN <<DefineAs(x.dst, zero_valset(Size(x.dst))), Use(x.dst), Use(x.src)>>
  ELSE Accept(x, {RR, RM, RI}, DstSrc(x))

(* When everything is known, an assertion that reads "equal to the first   *)
(* operand, xor the second" for every double word.                         *)
DwordsAt(v, w, u) ==
  IF Len(v) <= DW THEN {<<Fit(v, DW), Fit(w, DW), Fit(u, DW)>>}
  ELSE {<<SubSeq(v, i, i + DW - 1), SubSeq(w, i, i + DW - 1), SubSeq(u, i, i + DW - 1)>> :
          i \in {1, DW + 1}}
asserted_xor(v, w, result) ==
  \A d \in DwordsAt(v, w, result) : ToNum(d[2]) # (IF d[3] = d[1] THEN 1 ELSE 0)
pxor_resolver(x, K) ==
  LET w == Fit(K.val[2], Size(K.src[1]))
  IN  IF sees(K, {1, 2}, {1})
      THEN IF asserted_xor(K.val[1], w, K.aft[1]) THEN K ELSE abort(K)
      ELSE from_two(K, Bytewise(XorByte, K.val[1], w), Bytewise(XorByte, K.aft[1], w),
                    Bytewise(XorByte, K.aft[1], K.val[1]))

-----------------------------------------------------------------------------
(***************************************************************************)
(* Vectors: computed from the uses, never undone.                          *)
(***************************************************************************)
EqualByte(a, b)   == IF a = b THEN Radix - 1 ELSE 0
Signed1(a)        == IF 2 * a >= Radix THEN a - Radix ELSE a
GreaterByte(a, b) == IF Signed1(a) > Signed1(b) THEN Radix - 1 ELSE 0
MinByte(a, b)     == IF a < b THEN a ELSE b
MaxByte(a, b)     == IF a < b THEN b ELSE a
Mask(v) == ToBytes(Number([k \in DOMAIN v |-> IF 2 * v[k] >= Radix THEN 1 ELSE 0], 2), DW)
LowHalf(v)      == SubSeq(v, 1, DW)
HighHalf(v)     == SubSeq(v, DW + 1, 2 * DW)
FirstDword(v)   == LowHalf(v) \o LowHalf(v)
Interleaved(v, w) == [i \in DOMAIN v |-> IF i % 2 = 1 THEN v[(i + 1) \div 2] ELSE w[i \div 2]]

pcmpeqb_handler(x) == Accept(x, {RR, RM}, DstSrc(x))
pcmpgtb_handler(x) == Accept(x, {RR, RM}, DstSrc(x))
pmaxub_handler(x)  == Accept(x, {RR, RM}, DstSrc(x))
pminub_handler(x)  ==   (* splits the destination, a register *)
  IF Form(x) = RM THEN <<Define(x.dst), Use(x.dst), Split(x.dst), Use(x.src)>>
  ELSE Accept(x, {RR}, DstSrc(x))
pmovmskb_hanlder(x)  == Accept(x, {RR}, <<Define(x.dst), Use(x.src)>>)
punpcklbw_handler(x) == Accept(x, {RR}, DstSrc(x))
pshufd_handler(x)    ==
  Accept(x, {RR, RM, MR}, DefineAt(x.dst) \o UseAt(x.src) \o <<Use(x.third)>>)
palignr_handler(x)   == Accept(x, {RR, RM}, DstSrc(x) \o <<Use(x.third)>>)

pcmpeqb_resolver(x, K) == forward_only(K, {1, 2}, 1, Bytewise(EqualByte, K.val[1], K.val[2]))
pcmpgtb_resolver(x, K) == forward_only(K, {1, 2}, 1, Bytewise(GreaterByte, K.val[1], K.val[2]))
pmaxub_resolver(x, K)  == forward_only(K, {1, 2}, 1, Bytewise(MaxByte, K.val[1], K.val[2]))
pminub_resolver(x, K)  == forward_only(K, {1, 2}, 1, Bytewise(MinByte, K.val[1], K.val[2]))
pmovmskb_resolver(x, K)  == forward_only(K, {1}, 1, Mask(K.val[1]))
punpcklbw_resolver(x, K) == forward_only(K, {1, 2}, 1, Interleaved(K.val[1], K.val[2]))
pshufd_resolver(x, K)    ==
  IF K.val[2][1] # 0 THEN abort(K) ELSE forward_only(K, {1}, 1, FirstDword(K.val[1]))
palignr_resolver(x, K)   == K

(* movq and movd extend with zeros, but no qword; a narrower destination   *)
(* tells nothing of the source.                                            *)
movq_resolver(x, K) ==
  IF sees(K, {1}, {1}) THEN assert_val(K, "aft", 1, K.val[1])
  ELSE IF sees(K, {1}, {}) THEN
    if_datatype(K, K.src[1], Small \cup {"dqword"},
                put(K, "aft", 1, clean_valset(K.val[1], 2 * DW, FALSE)))
  ELSE IF sees(K, {}, {1}) /\ Rank(K.dst[1].dt) >= Rank(K.src[1].dt)
  THEN put(K, "val", 1, K.aft[1])
  ELSE K

(* Half of a vector register is loaded, which leaves the register unknown, *)
(* or stored.                                                              *)
half(K, Half(_)) ==
  IF K.dst[1].t = "reg" THEN
    IF sees(K, {}, {1}) THEN tell(K, "val", 1, Half(K.aft[1])) ELSE K
  ELSE forward_only(K, {1}, 1, Half(K.val[1]))
movlpd_resolver(x, K) == half(K, LowHalf)
movhpd_resolver(x, K) == half(K, HighHalf)

-----------------------------------------------------------------------------
(***************************************************************************)
(* The processor.                                                          *)
(***************************************************************************)
Logic(x) ==
  LET a == Before(x, x.dst)
      b == SourceValue(x)
      v == Before(x, x.src)
  IN  CASE x.op \in {"and", "pand"} -> x.dst.place := Bytewise(AndByte, a, b)
        [] x.op \in {"or", "por"}   -> x.dst.place := Bytewise(OrByte, a, b)
        [] x.op \in {"xor", "pxor"} -> x.dst.place := Bytewise(XorByte, a, b)
        [] x.op = "not"       -> x.dst.place := NotVal(a)
        [] x.op = "neg"       -> x.dst.place := NegVal(a)
        [] x.op = "pcmpeqb"   -> x.dst.place := Bytewise(EqualByte, a, b)
        [] x.op = "pcmpgtb"   -> x.dst.place := Bytewise(GreaterByte, a, b)
        [] x.op = "pmaxub"    -> x.dst.place := Bytewise(MaxByte, a, b)
        [] x.op = "pminub"    -> x.dst.place := Bytewise(MinByte, a, b)
        [] x.op = "pmovmskb"  -> x.dst.place := Mask(v)
        [] x.op = "punpcklbw" -> x.dst.place := Interleaved(a, b)
        [] x.op = "pshufd"    -> x.dst.place := FirstDword(v)
        [] x.op = "palignr"   ->
             x.dst.place := SubSeq(v \o a, Before(x, x.third)[1] + 1,
                                   Before(x, x.third)[1] + 2 * DW)
        [] x.op = "movq"      -> x.dst.place := Fit(v, Size(x.dst))
        [] x.op = "movlpd"    ->
             x.dst.place := (IF x.dst.t = "reg" THEN v \o HighHalf(a) ELSE LowHalf(v))
        [] x.op = "movhpd"    ->
             x.dst.place := (IF x.dst.t = "reg" THEN LowHalf(a) \o v ELSE HighHalf(v))
=============================================================================
