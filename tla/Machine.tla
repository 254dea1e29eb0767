------------------------------- MODULE Machine -------------------------------
(***************************************************************************)
(* The IA-32 subset the traces are made of, run forwards: what really      *)
(* happened, against which the reconstruction is judged.  It models the    *)
(* processor and the tracer, not code of the tool.                         *)
(*                                                                         *)
(* A machine state is [reg |-> register file, mem |-> all of memory].      *)
(***************************************************************************)
EXTENDS Operands, TLC

RegOf(m, name) == IF name = NoReg THEN 0 ELSE m.reg[name]
AddrOf(m, o) ==
  Plus(Plus(RegOf(m, o.base), RegOf(m, o.index) * o.scale), o.disp)

Load(m, addr, size) == [i \in 1 .. size |-> m.mem[Plus(addr, i - 1)]]
Store(m, addr, v) ==
  [m EXCEPT !.mem =
     [a \in {Plus(addr, i - 1) : i \in 1 .. Len(v)} |-> v[Minus(a, addr) + 1]] @@ @]

ReadReg(m, o) == Slice(ToBytes(m.reg[o.fam], DW), o.lo, o.size)
WriteReg(m, o, v) ==
  LET old == ToBytes(m.reg[o.fam], DW)
  IN  [m EXCEPT !.reg[o.fam] =
         ToNum([i \in 1 .. DW |-> IF i \in o.lo + 1 .. o.lo + o.size
                                  THEN v[i - o.lo] ELSE old[i]])]

ReadOpd(m, o) ==
  CASE o.t = "reg" -> ReadReg(m, o)
    [] o.t = "imm" -> o.v
    [] o.t = "mem" -> Load(m, AddrOf(m, o), o.size)
WriteOpd(m, o, v) ==
  IF o.t = "reg" THEN WriteReg(m, o, v) ELSE Store(m, AddrOf(m, o), v)

Widen(v, size) ==
  v \o [i \in 1 .. size - Len(v) |->
          IF 2 * v[Len(v)] >= Radix THEN Radix - 1 ELSE 0]

Execute(m, x) ==
  CASE x.op = "mov"  -> WriteOpd(m, x.dst, ReadOpd(m, x.src))
    [] x.op = "add"  ->
         WriteOpd(m, x.dst,
           ToBytes(ToNum(ReadOpd(m, x.dst))
                   + ToNum(Widen(ReadOpd(m, x.src), x.dst.size)), x.dst.size))
    [] x.op = "lea"  -> WriteOpd(m, x.dst, ToBytes(AddrOf(m, x.src), DW))
    [] x.op = "xchg" ->
         LET v == ReadOpd(m, x.src)
             w == ReadOpd(m, x.dst)
         IN  IF x.dst.t = "reg" THEN WriteOpd(WriteOpd(m, x.dst, v), x.src, w)
             ELSE WriteOpd(Store(m, AddrOf(m, x.dst), v), x.src, w)
    [] x.op = "push" ->
         LET sp == Minus(m.reg["esp"], DW)
         IN  Store([m EXCEPT !.reg["esp"] = sp], sp, Widen(ReadOpd(m, x.src), DW))
    [] x.op = "pop"  ->
         LET sp == m.reg["esp"]
         IN  WriteOpd([m EXCEPT !.reg["esp"] = Plus(sp, DW)], x.dst,
                      Load(m, sp, DW))

(* States before and after every instruction of a run. *)
RunOf(prog, m0) ==
  LET st[i \in 0 .. Len(prog)] ==
        IF i = 0 THEN m0 ELSE Execute(st[i - 1], prog[i])
  IN  st

Operand(x) == {x[f] : f \in DOMAIN x \ {"op"}}
NamedRegs(x) ==
  {o \in Operand(x) : o.t = "reg"}
  \cup UNION {{Full(r) : r \in {o.base, o.index} \ {NoReg}} :
                o \in {o \in Operand(x) : o.t = "mem"}}
  \cup (IF x.op \in {"push", "pop"} THEN {Full("esp")} ELSE {})

(* The tracer writes the registers an instruction names before it runs;    *)
(* the tool reads the instructions from the crash backwards.               *)
TraceOf(prog, m0, mapped) ==
  LET st == RunOf(prog, m0)
      n  == Len(prog)
      exec(i) == n + 1 - i
  IN  [prog |-> [i \in 1 .. n |-> prog[exec(i)]],
       pre  |-> [i \in 1 .. n |-> st[exec(i) - 1]],
       post |-> [i \in 1 .. n |-> st[exec(i)]],
       log  |-> [i \in 1 .. n |->
                   [r \in NamedRegs(prog[exec(i)]) |-> ReadReg(st[exec(i) - 1], r)]],
       dump |-> [reg |-> st[n].reg, mem |-> [a \in mapped |-> st[n].mem[a]]]]
=============================================================================
