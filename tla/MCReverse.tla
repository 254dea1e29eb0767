----------------------------- MODULE MCReverse -----------------------------
(***************************************************************************)
(* Small traces: programs of three to five instructions over 16 addresses, *)
(* started in states in which their memory operands alias or do not.       *)
(***************************************************************************)
EXTENDS ReverseProps, HypothesisAlias

eax == Full("eax")
ebx == Full("ebx")
ecx == Full("ecx")
edx == Full("edx")
esp == Full("esp")

Ins2(op, dst, src) == [op |-> op, dst |-> dst, src |-> src]
Push(src) == [op |-> "push", src |-> src]
Pop(dst)  == [op |-> "pop", dst |-> dst]
At(reg, disp) == Mem(reg, disp, DW)
Low(fam) == Reg(fam, 0, 1)

(* Programs: ebx is loaded from memory, written through, and overwritten   *)
(* before the crash; the last read makes the trace say what it saw.        *)
Loads == {
  Ins2("mov", ebx, At("edx", 0)),
  Ins2("xchg", ebx, At("edx", 0)),
  Pop(ebx) }
Writes == {
  Ins2("mov", At("ebx", 0), ecx),
  Ins2("mov", Ea("ebx", "ecx", 2, 0, DW, "pre"), eax),
  Ins2("mov", Mem("ebx", 1, 1), Low("ecx")),
  Ins2("add", At("ebx", 0), ecx),
  Ins2("xchg", At("ebx", 0), ecx),
  Push(ecx) }
Reads == {
  Ins2("mov", eax, At("edx", 0)),
  Ins2("add", Low("eax"), Mem("edx", 0, 1)),
  Pop(eax) }
Kills == {
  Ins2("mov", ebx, Imm(1)),
  Ins2("lea", ebx, At("ecx", 1)) }

Straight == {<<l, w, r, k>> : l \in Loads, w \in Writes, r \in Reads, k \in Kills}

(* Base and index both come from memory and are both overwritten.          *)
Scaled ==
  {<<Ins2("mov", ebx, At("edx", 0)), Ins2("mov", ecx, At("edx", 0)),
     Ins2("mov", Ea("ebx", "ecx", 2, 0, DW, "pre"), eax), r,
     Ins2("lea", ecx, At("edx", 2)), k>> : r \in Reads, k \in Kills}

(* Two writes through pointers that are both lost: each stands in the way  *)
(* of what could tell where the other went.                                *)
Double ==
  {<<Ins2("mov", ebx, At("edx", 0)), Pop(ecx),
     w, v, r, Ins2("mov", ebx, Imm(1)), Ins2("mov", ecx, Imm(2))>> :
     w \in {Ins2("mov", At("ebx", 0), eax), Ins2("mov", Mem("ecx", 1, 1), Low("eax"))},
     v \in {Ins2("mov", At("ecx", 0), edx), Ins2("add", At("ebx", 0), edx)},
     r \in {Ins2("mov", eax, At("edx", 0)), Push(edx)}}

(* The cell edx points to and the top of the stack hold p and q.           *)
Start(p, q) ==
  [reg |-> [eax |-> 9, ebx |-> 2, ecx |-> 1, edx |-> 6, esp |-> 8],
   mem |-> [a \in Addr |-> CASE a \in {6, 7} -> ToBytes(p, DW)[a - 5]
                             [] a \in {8, 9} -> ToBytes(q, DW)[a - 7]
                             [] OTHER        -> (3 * a + 1) % Radix]]

MCMapped == 2 .. 13

TracesOf(programs, pointers) ==
  {TraceOf(prog, Start(x[1], x[2]), MCMapped) : prog \in programs, x \in pointers}

AllPrograms == Straight \cup Scaled \cup Double

(* Double words at even addresses: they are the same or apart.             *)
AlignedTraces ==
  TracesOf(AllPrograms, {<<4, 4>>, <<6, 6>>, <<8, 8>>, <<4, 10>>})

(* Also double words that overlap by one byte.                             *)
SkewedTraces == TracesOf(AllPrograms, {<<5, 5>>, <<6, 9>>, <<9, 6>>, <<10, 11>>})

(* A high byte register is read before its full register is changed.       *)
HighByteTraces ==
  TracesOf({<<Ins2("mov", Low("ecx"), Reg("eax", 1, 1)), Ins2("add", eax, ebx)>>}, {<<6, 6>>})
=============================================================================
