------------------------------ MODULE Operands ------------------------------
(***************************************************************************)
(* Operands, values and the comparison of the places two nodes touch.      *)
(*                                                                         *)
(* The tool is an ILP32 program that reasons about IA-32 traces.  Here a   *)
(* byte is a digit of base Radix and a double word is DW bytes, so that a  *)
(* value is the little-endian sequence of its bytes (the union valset_u)   *)
(* and an address is a number below AddrSpace, computed modulo AddrSpace.  *)
(* Address 0 is the source's "unknown address".                            *)
(***************************************************************************)
EXTENDS Naturals, Sequences

CONSTANTS
  Radix,    (* values of a byte: 0 .. Radix - 1 *)
  DW        (* bytes of a double word, and of a full register *)

ASSUME OperandsAssumption ==
  /\ Radix \in Nat \ {0, 1}
  /\ DW \in Nat \ {0}

Byte      == 0 .. Radix - 1
Bytes(n)  == [1 .. n -> Byte]
AddrSpace == Radix ^ DW
Addr      == 0 .. AddrSpace - 1

Plus(a, b)  == (a + b) % AddrSpace
Minus(a, b) == (a + AddrSpace - (b % AddrSpace)) % AddrSpace

(* Bug: the carry is kept in the last byte. *)
ToBytesCarried(n, size) ==
  [i \in 1 .. size |-> IF i = size THEN n \div Radix ^ (i - 1)
                       ELSE (n \div Radix ^ (i - 1)) % Radix]

(* The digits of a number, the lowest first, and the number of the digits. *)
Digits(n, base, size) ==
  LET rest[i \in 0 .. size] == IF i = 0 THEN n ELSE rest[i - 1] \div base
  IN  [i \in 1 .. size |-> rest[i - 1] % base]
Number(v, base) ==
  LET high[i \in 0 .. Len(v)] ==
        IF i = 0 THEN 0 ELSE v[Len(v) + 1 - i] + base * high[i - 1]
  IN  high[Len(v)]

(* Little-endian bytes of a number, and back. *)
ToBytes(n, size) == Digits(n, Radix, size)
ToNum(v)         == Number(v, Radix)

(* The part of a value that a copy with an offset keeps. *)
Slice(v, off, size) == [i \in 1 .. size |-> v[off + i]]

(***************************************************************************)
(* Operands of instructions: a register is a run of bytes of a register    *)
(* family (eax, ax, al and ah are one family), a memory operand is an      *)
(* expression base + index * scale + disp, with NoReg for what is absent.  *)
(* "at" only tells the ground truth which registers an address uses.       *)
(***************************************************************************)
NoReg == "none"
Reg(fam, lo, size)  == [t |-> "reg", fam |-> fam, lo |-> lo, size |-> size]
Full(fam)           == Reg(fam, 0, DW)
Imm(n)              == [t |-> "imm", v |-> ToBytes(n, DW), size |-> DW]
Ea(base, index, scale, disp, size, at) ==
  [t |-> "mem", base |-> base, index |-> index, scale |-> scale,
   disp |-> disp, size |-> size, at |-> at]
Mem(base, disp, size) == Ea(base, NoReg, 1, disp, size, "pre")

-----------------------------------------------------------------------------
(***************************************************************************)
(* How the place of an entry relates to the place it is compared with.     *)
(* SUB: the entry lies inside the other; SUPER: it contains the other.     *)
(***************************************************************************)
EXACT == "EXACT"
SUB == "SUB"
SUPER == "SUPER"
OVERLAP == "OVERLAP"
NO_MATCH == "NO_MATCH"

exact_same_mem(a1, s1, a2, s2) == a1 = a2 /\ s1 = s2
subset_mem(a1, s1, a2, s2) ==
  a1 >= a2 /\ Plus(a1, s1) <= Plus(a2, s2) /\ a1 < Plus(a1, s1)
superset_mem(a1, s1, a2, s2) ==
  a1 <= a2 /\ Plus(a1, s1) >= Plus(a2, s2) /\ a2 < Plus(a2, s2)
overlap_mem(a1, s1, a2, s2) ==
  \/ Plus(a1, s1) > a2 /\ Plus(a1, s1) <= Plus(a2, s2)
  \/ Plus(a2, s2) > a1 /\ Plus(a2, s2) <= Plus(a1, s1)

compare_mem(a1, s1, a2, s2) ==
  CASE a1 = 0 \/ a2 = 0               -> NO_MATCH
    [] OTHER ->
       CASE exact_same_mem(a1, s1, a2, s2) -> EXACT
         [] OTHER ->
            CASE subset_mem(a1, s1, a2, s2)   -> SUB
              [] OTHER ->
                 CASE superset_mem(a1, s1, a2, s2) -> SUPER
                   [] OTHER -> IF \/ overlap_mem(a1, s1, a2, s2)
                                  \/ overlap_mem(a2, s2, a1, s1)
                               THEN OVERLAP ELSE NO_MATCH

(* Registers are compared by identity, then by the alias field (the full   *)
(* register of the family), then by size inside one family.                *)
compare_reg(r1, r2) ==
  IF r1.fam # r2.fam THEN NO_MATCH
  ELSE IF r1.lo = r2.lo /\ r1.size = r2.size THEN EXACT
  ELSE IF r1.size < r2.size THEN SUB
  ELSE IF r1.size > r2.size THEN SUPER
  ELSE NO_MATCH

(* Places: a register, or a memory cell of known address (0: unknown).     *)
(* Immediates have no place.                                               *)
compare_two_targets(p1, p2) ==
  IF p1.t # p2.t \/ p1.t = "imm" THEN NO_MATCH
  ELSE IF p1.t = "reg" THEN compare_reg(p1, p2)
  ELSE compare_mem(p1.addr, p1.size, p2.addr, p2.size)

(* Offset inside a value of the part that a SUB place takes of it: only    *)
(* the high byte registers have one.                                       *)
adjust_val_offset(place, type) == IF type = SUB THEN place.lo ELSE 0
=============================================================================
