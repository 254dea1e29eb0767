----------------------------- MODULE MCValueSets -----------------------------
(***************************************************************************)
(* Instances of ValueSetAnalysis: longs of six bits, a stack and a heap,   *)
(* two general registers.                                                  *)
(***************************************************************************)
EXTENDS ValueSetAnalysis

Operand(kind, base, index, scale, n) ==
  [kind |-> kind, base |-> base, index |-> index, scale |-> scale, n |-> n]
R(r)     == Operand("reg", r, NoReg, 1, 0)
I(n)     == Operand("imm", NoReg, NoReg, 1, n)
I8(n)    == Operand("imm8", NoReg, NoReg, 1, n)
M(b, n)  == Operand("mem", b, NoReg, 1, n)
MX(b, i, s, n) == Operand("mem", b, i, s, n)
Inst(op, dst, src) == [op |-> op, dst |-> dst, src |-> src, preset |-> <<>>]
Preset(op, dst, src, region) == [Inst(op, dst, src) EXCEPT !.preset = Single(region, One(0))]

eax == R("eax")
ebx == R("ebx")
esp == R("esp")

Moves ==
  {Inst("mov", eax, I(4)), Inst("mov", ebx, esp), Inst("mov", ebx, M("esp", 0)),
   Inst("mov", M("esp", -4), eax), Inst("mov", M("esp", 2), eax), Inst("mov", M("ebx", 0), eax),
   Inst("mov", M(NoReg, 4), ebx),
   Inst("mov", eax, M("ebx", 0)), Inst("mov", eax, M("ebx", 2)),
   Inst("mov", ebx, MX("ebx", "eax", 4, 0)), Inst("mov", ebx, MX(NoReg, "eax", 1, 0)),
   Inst("movcc", eax, ebx), Inst("lea", ebx, MX("ebx", "eax", 1, 4)),
   Inst("lea", ebx, MX(NoReg, "eax", 2, 0)), Inst("lea", eax, M(NoReg, 8))}
Sums ==
  {Inst("add", eax, ebx), Inst("sub", ebx, eax), Inst("sub", esp, I8(8)), Inst("sub", eax, eax),
   Inst("inc", eax, eax), Inst("dec", ebx, ebx), Inst("neg", eax, eax), Inst("not", eax, eax),
   Inst("imul", eax, I(3)), Inst("add", M("esp", 0), eax)}
Bits_of ==
  {Inst("and", esp, I8(-4)), Inst("and", ebx, I(3)), Inst("and", eax, ebx), Inst("or", eax, ebx),
   Inst("or", ebx, I8(3)), Inst("xor", eax, eax), Inst("xor", eax, ebx), Inst("shl", eax, I(1)),
   Inst("shr", ebx, I(1)), Inst("rol", eax, I(2)), Inst("ror", ebx, I(2)),
   Inst("bsf", eax, ebx)}
Heuristics ==
  {Preset("mov", eax, M("esp", 0), HEAP_REGION), Preset("add", ebx, I(4), "pic")}

MCInstructions == Moves \cup Sums \cup Bits_of \cup Heuristics
MCUnknowns     == {<<HEAP_REGION, 4>>}

(* What the theorems assume is true of all but the masks. *)
ASSUME UnmaskedAssumption ==
  /\ WithoutBits(Moves \cup Sums \cup Heuristics \cup
                   {i \in Bits_of : i.op \notin {"and", "or", "xor"} \/ i.dst = i.src})
  /\ ArePlaces(MCUnknowns)

(* A write through a register of which nothing is known. *)
UnknownWrite ==
  {Inst("mov", M("esp", -4), esp), Inst("mov", M("ebx", 0), eax),
   Inst("mov", eax, M("esp", -4)), Inst("mov", eax, M("eax", 0))}
PointerToStack == {<<STACK_REGION, -4>>, <<HEAP_REGION, 4>>}
=============================================================================
