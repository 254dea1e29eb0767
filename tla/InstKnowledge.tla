--------------------------- MODULE InstKnowledge ---------------------------
(***************************************************************************)
(* One instruction of the trace, taken by itself: the nodes its handler    *)
(* creates, what is known of their values, and what a resolver may do to   *)
(* that knowledge.  The families of instructions (ArithmeticInst,          *)
(* LogicInst, ...) give the handlers and the resolvers, InstructionStep    *)
(* lets values arrive in every order.                                      *)
(*                                                                         *)
(* A dqword is two double words here and a qword one, so that the halves   *)
(* of a vector register stay what they are.                                *)
(***************************************************************************)
EXTENDS Operands, Integers, SequencesExt

ASSUME RadixAssumption == \E b \in 1 .. 8 : Radix = 2 ^ b
ASSUME WordAssumption  == DW = 4

Datatypes == <<"byte", "word", "dword", "qword", "dqword">>
Rank(dt)  == CHOOSE i \in DOMAIN Datatypes : Datatypes[i] = dt
translate_datatype_to_byte(dt) ==
  CASE dt = "byte" -> 1 [] dt = "word" -> 2
    [] dt \in {"dword", "qword"} -> DW [] dt = "dqword" -> 2 * DW

-----------------------------------------------------------------------------
(***************************************************************************)
(* Values.  A narrower value is read with zeros above it, and a wider one  *)
(* by its low bytes, as the fields of the union valset_u are.              *)
(***************************************************************************)
Known(v) == v # <<>>
zero_valset(n) == [i \in 1 .. n |-> 0]
one_valset(n)  == [i \in 1 .. n |-> Radix - 1]
Fit(v, n) == IF Len(v) >= n THEN SubSeq(v, 1, n) ELSE v \o zero_valset(n - Len(v))

sign_of_valset(v) == Known(v) /\ 2 * Last(v) >= Radix
clean_valset(v, n, sign) ==
  IF Len(v) >= n THEN SubSeq(v, 1, n)
  ELSE v \o (IF sign THEN one_valset(n - Len(v)) ELSE zero_valset(n - Len(v)))
sign_extend_valset(v, n) == clean_valset(v, n, sign_of_valset(v))

(* Arithmetic modulo the size of the first value: the digits above it are  *)
(* lost, and those of a negative number are its complement.                *)
Mod(n, v)    == ToBytes(n, Len(v))
AddVal(v, w) == Mod(ToNum(v) + ToNum(w), v)
SubVal(v, w) == Mod(ToNum(v) - ToNum(w), v)
Bytewise(Op(_, _), v, w) == [i \in DOMAIN v |-> Op(v[i], w[i])]

ByteBits == CHOOSE b \in 1 .. 8 : Radix = 2 ^ b
IntBits  == DW * ByteBits
Bits(n, size) == Digits(n, 2, size)
ByBits(Op(_, _), a, b) == Number(Bytewise(Op, Bits(a, ByteBits), Bits(b, ByteBits)), 2)
AndByte(a, b) == ByBits(LAMBDA p, q : p * q, a, b)
OrByte(a, b)  == ByBits(LAMBDA p, q : IF p + q = 0 THEN 0 ELSE 1, a, b)
XorByte(a, b) == ByBits(LAMBDA p, q : (p + q) % 2, a, b)
NotByte(a)    == Radix - 1 - a

(* The shifter takes the count modulo the width of an int. *)
ShiftLeft(v, c)  == Mod(ToNum(v) * 2 ^ (c % IntBits), v)
ShiftRight(v, c) == Mod(ToNum(v) \div 2 ^ (c % IntBits), v)

-----------------------------------------------------------------------------
(***************************************************************************)
(* Operands name the place they stand for: a register, a memory cell or a  *)
(* constant.  An instruction x has its mnemonic, its explicit operands,    *)
(* the bytes "before" at every place it touches, and the flag it reads.    *)
(***************************************************************************)
Operand(t, place, dt) == [t |-> t, place |-> place, dt |-> dt]
R(place, dt) == Operand("reg", place, dt)
M(dt)        == Operand("mem", "mem", dt)
I(dt)        == Operand("imm", "imm", dt)
Dword(place) == R(place, "dword")
Size(o)      == translate_datatype_to_byte(o.dt)
Before(x, o) == x.before[o.place]
Form(x)      == <<x.dst.t, x.src.t>>

(* What the processor leaves at the places that an instruction changes.    *)
place := v == [p \in {place} |-> v]
f ++ g     == [p \in DOMAIN f \cup DOMAIN g |-> IF p \in DOMAIN f THEN f[p] ELSE g[p]]
NoChange   == [p \in {} |-> <<>>]

RR == <<"reg", "reg">>
RM == <<"reg", "mem">>
RI == <<"reg", "imm">>
MR == <<"mem", "reg">>
MI == <<"mem", "imm">>

(* What a handler does, in order: nodes, the split of an address into uses *)
(* of its registers, or an assertion that fails.                           *)
Define(o)    == [node |-> "def", o |-> o, aft |-> <<>>]
DefineAs(o, v) == [node |-> "def", o |-> o, aft |-> v]
Use(o)       == [node |-> "use", o |-> o]
Split(o)     == [node |-> "split", o |-> o]
Unsupported  == <<[node |-> "assert"]>>
(* Bug: the address of a memory define is not split. *)
DefineUnsplit(o) == <<Define(o)>>
DefineAt(o)  == IF o.t = "mem" THEN <<Define(o), Split(o)>> ELSE <<Define(o)>>
UseAt(o)     == IF o.t = "mem" THEN <<Use(o), Split(o)>> ELSE <<Use(o)>>
Accept(x, forms, nodes) == IF Form(x) \in forms THEN nodes ELSE Unsupported

OfKind(nodes, kind) ==
  LET first[n \in 0 .. Len(nodes)] ==
        IF n = 0 THEN <<>>
        ELSE IF nodes[n].node = kind THEN Append(first[n - 1], nodes[n]) ELSE first[n - 1]
  IN  first[Len(nodes)]

(* What is known after the handler: the constants, and the values it gives *)
(* to a define.  src[] and dst[] of a resolver are in order of creation.   *)
KnowledgeOf(x, nodes) ==
  LET uses == OfKind(nodes, "use")
      defs == OfKind(nodes, "def")
  IN  [src |-> [i \in DOMAIN uses |-> uses[i].o],
       dst |-> [j \in DOMAIN defs |-> defs[j].o],
       val |-> [i \in DOMAIN uses |->
                  IF uses[i].o.t = "imm" THEN Before(x, uses[i].o) ELSE <<>>],
       aft |-> [j \in DOMAIN defs |-> defs[j].aft],
       bef |-> [j \in DOMAIN defs |-> <<>>],
       out |-> IF OfKind(nodes, "assert") = <<>> THEN "ok" ELSE "abort"]

-----------------------------------------------------------------------------
(***************************************************************************)
(* The steps of a resolver.  put is assign_..._value, which overwrites     *)
(* what was known; tell asks first and leaves a known value to assert_val. *)
(***************************************************************************)
SizeAt(K, side, i) == Size(IF side = "val" THEN K.src[i] ELSE K.dst[i])

abort(K) == [K EXCEPT !.out = "abort"]     (* assert(0) *)
crash(K) == [K EXCEPT !.out = "crash"]     (* division by zero *)

(* Bug: values that disagree fail an assertion, hypothesis or not. *)
assert_at_once(K, side, i, v) ==
  IF K[side][i] = Fit(v, SizeAt(K, side, i)) THEN K ELSE abort(K)
assert_val(K, side, i, v) ==
  IF K[side][i] = Fit(v, SizeAt(K, side, i)) THEN K ELSE [K EXCEPT !.out = "contra"]

(* Bug: the bytes beyond the operand are assigned too. *)
put_unfitted(K, side, i, v) == IF K.out # "ok" THEN K ELSE [K EXCEPT ![side][i] = v]
put(K, side, i, v) ==
  IF K.out # "ok" THEN K ELSE [K EXCEPT ![side][i] = Fit(v, SizeAt(K, side, i))]
(* Bug: a known value is replaced. *)
tell_last(K, side, i, v) == put(K, side, i, v)
tell(K, side, i, v) ==
  IF K.out # "ok" THEN K
  ELSE IF Known(K[side][i]) THEN assert_val(K, side, i, v)
  ELSE put(K, side, i, v)

sees(K, uses, defs) ==
  /\ \A i \in uses : Known(K.val[i])
  /\ \A j \in defs : Known(K.aft[j])

(* define d is a function of use u that can be undone, or only computed.   *)
both_ways(K, u, d, forward, back) ==
  IF sees(K, {}, {d}) THEN tell(K, "val", u, back)
  ELSE IF sees(K, {u}, {}) THEN tell(K, "aft", d, forward)
  ELSE K
forward_only(K, uses, d, forward) ==
  IF sees(K, uses, {}) THEN tell(K, "aft", d, forward) ELSE K
copies(K, u, d) == both_ways(K, u, d, K.val[u], K.aft[d])

(* A result of two operands, of which either can be computed back.         *)
from_two(K, forward, first, second) ==
  IF sees(K, {1, 2}, {}) THEN tell(K, "aft", 1, forward)
  ELSE IF sees(K, {1}, {1}) THEN tell(K, "val", 2, second)
  ELSE IF sees(K, {2}, {1}) THEN tell(K, "val", 1, first)
  ELSE K
=============================================================================
