------------------------------ MODULE CoreList ------------------------------
(***************************************************************************)
(* The global structure re_ds: the main list of instruction, define and    *)
(* use nodes, the work lists of one resolution and the list of memory      *)
(* writes whose address is unknown.                                        *)
(*                                                                         *)
(* A node is put at the head of the main list and takes the next id, so    *)
(* the list is the sequence core indexed by id; the trace is read from the *)
(* crash backwards, and a SMALLER id is LATER in the execution ("next"), a *)
(* larger one earlier ("prev").  Index 0 stands for the NULL pointer.  An  *)
(* unknown value is <<>>.                                                  *)
(*                                                                         *)
(* All operations are functions of a state record S, because an alias      *)
(* hypothesis is tested by running them on a copy of the structure:        *)
(*   tr         the recorded run: instructions, operand log, core dump     *)
(*   core       the nodes                                                  *)
(*   dl, ul, il the define, use and instruction work lists, head first     *)
(*   um         umemlist, head first                                       *)
(*   rec        rec_count: 1 while a hypothesis is tested                  *)
(*   cur        curinstid: node of the instruction of the second round     *)
(*   resolving  false in the first round                                   *)
(*   ph         the loop of re_resolve that is being drained               *)
(*   out        "ok", "contra" (longjmp out of a hypothesis), "abort" (a   *)
(*              failed assertion) or "wild" (longjmp without a setjmp)     *)
(***************************************************************************)
EXTENDS Operands, SequencesExt

CONSTANT Traces   (* the recorded runs, see TraceOf *)

InstNode(i)  == [k |-> "inst", i |-> i]
DefNode(o)   == [k |-> "def", o |-> o, addr |-> 0, bef |-> <<>>, aft |-> <<>>]
UseNode(o, ut) ==
  [k |-> "use", o |-> o, ut |-> ut, addr |-> 0, val |-> <<>>]

Fresh(tr) ==
  [tr |-> tr, core |-> <<>>, dl |-> <<>>, ul |-> <<>>, il |-> <<>>,
   um |-> <<>>, rec |-> 0, cur |-> 0, resolving |-> FALSE, ph |-> "use",
   out |-> "ok"]

Known(v)  == v # <<>>
IsInst(n) == n.k = "inst"
IsDef(n)  == n.k = "def"
IsUse(n)  == n.k = "use"

(* node_is_exp: the node reads or writes memory. *)
node_is_exp(n) == /\ ~ IsInst(n)
                  /\ n.o.t = "mem"
                  /\ IsDef(n) \/ n.ut = "Opd"

size_of_node(n) == IF IsUse(n) /\ n.ut # "Opd" THEN DW ELSE n.o.size

(* The place a node reads or writes. *)
PlaceOf(n) ==
  IF node_is_exp(n) THEN [t |-> "mem", addr |-> n.addr, size |-> n.o.size]
  ELSE IF IsDef(n) \/ n.ut = "Opd" THEN n.o
  ELSE Full(IF n.ut = "Base" THEN n.o.base ELSE n.o.index)

(* The same node narrowed to one byte of its memory. *)
BytePlace(n, index) == [t |-> "mem", addr |-> Plus(n.addr, index), size |-> 1]

ProgramOf(S) == S.tr.prog
inst_of(S, n) == ProgramOf(S)[S.core[n].i]

fail(S, kind) == IF S.out = "ok" THEN [S EXCEPT !.out = kind] ELSE S

-----------------------------------------------------------------------------
(***************************************************************************)
(* Walks along the main list.                                              *)
(***************************************************************************)
MatchType(S, j, place) == compare_two_targets(PlaceOf(S.core[j]), place)
Matches(S, j, place, kind) ==
  S.core[j].k = kind /\ MatchType(S, j, place) # NO_MATCH

MaxOrNull(M) == IF M = {} THEN 0 ELSE Max(M)
MinOrNull(M) == IF M = {} THEN 0 ELSE Min(M)

(* The nearest node of that kind later, or earlier, in the execution that  *)
(* touches the place.                                                      *)
find_next(S, n, place, kind) ==
  MaxOrNull({j \in 1 .. n - 1 : Matches(S, j, place, kind)})
find_prev(S, n, place, kind) ==
  MinOrNull({j \in n + 1 .. Len(S.core) : Matches(S, j, place, kind)})

find_inst_of_node(S, n) == MaxOrNull({j \in 1 .. n - 1 : IsInst(S.core[j])})

node1_add_before_node2(n1, n2) == n1 < n2

(* The nodes of an instruction. *)
LastElement(S, inst) ==
  LET next == MinOrNull({j \in inst + 1 .. Len(S.core) : IsInst(S.core[j])})
  IN  IF next = 0 THEN Len(S.core) ELSE next - 1
ElementsOf(S, inst) == inst + 1 .. LastElement(S, inst)

(* In the order of their creation. *)
Ordered(M) ==
  [i \in 1 .. Cardinality(M) |->
     CHOOSE n \in M : Cardinality({m \in M : m < n}) = i - 1]
UsesOf(S, inst) ==
  Ordered({j \in ElementsOf(S, inst) : IsUse(S.core[j])})
OperandsOf(S, inst) ==
  Ordered({j \in ElementsOf(S, inst) : IsUse(S.core[j]) /\ S.core[j].ut = "Opd"})
DefsOf(S, inst) ==
  Ordered({j \in ElementsOf(S, inst) : IsDef(S.core[j])})

(* The uses of the base and index registers of a memory node follow it. *)
get_element_of_exp(S, exp, ut) ==
  LET stop  == MinOrNull({j \in exp + 1 .. Len(S.core) :
                          ~ IsUse(S.core[j]) \/ S.core[j].ut = "Opd"})
      parts == exp + 1 .. (IF stop = 0 THEN Len(S.core) ELSE stop - 1)
  IN  MaxOrNull({j \in parts : S.core[j].ut = ut})

KnownOrAbsent(S, n) == n = 0 \/ Known(S.core[n].val)

exp_addr_status(S, base, index) ==
  CASE base = 0 /\ index = 0                   -> "NBaseNIndex"
    [] base # 0 /\ index = 0                   ->
         IF Known(S.core[base].val) THEN "KBaseKIndex" ELSE "UBase"
    [] base = 0 /\ index # 0                   ->
         IF Known(S.core[index].val) THEN "KBaseKIndex" ELSE "UIndex"
    [] OTHER ->
         IF Known(S.core[base].val)
         THEN IF Known(S.core[index].val) THEN "KBaseKIndex" ELSE "KBaseUIndex"
         ELSE IF Known(S.core[index].val) THEN "UBaseKIndex" ELSE "UBaseUIndex"

-----------------------------------------------------------------------------
(***************************************************************************)
(* Assertions on values, and the check against the recorded registers.     *)
(***************************************************************************)
(* A copy keeps the bytes of the size of the node it is copied to. *)
Fitted(S, n, v) == Slice(v, 0, size_of_node(S.core[n]))

(* A value of a node: "val" of a use, "bef" and "aft" of a define.         *)
assert_val(S, n, side, v) ==
  IF Fitted(S, n, S.core[n][side]) = Fitted(S, n, v) THEN S
  ELSE fail(S, IF S.rec = 0 THEN "abort" ELSE "contra")

assert_address(S) == fail(S, IF S.rec = 0 THEN "wild" ELSE "contra")

(* The registers an instruction names, with their values before it ran.    *)
LoggedRegs(S, inst) == S.tr.log[S.core[inst].i]

(* A node older in the list than a define of its register, so that the     *)
(* recorded value is not the value at that point of the instruction.       *)
use_after_def(S, n, reg, inst) ==
  \E d \in ElementsOf(S, inst) : /\ IsDef(S.core[d])
                                 /\ PlaceOf(S.core[d]) = reg
                                 /\ n < d

ValueBefore(node) == IF IsUse(node) THEN node.val ELSE node.bef

(* The recorded value, except that push moves esp before it is the base.   *)
AsLogged(node, have, logged) ==
  \/ ~ Known(have)
  \/ have = logged
  \/ /\ IsUse(node)
     /\ node.ut = "Base"
     /\ PlaceOf(node) = Full("esp")
     /\ ToNum(have) = Minus(ToNum(logged), DW)

AgreesWithLog(S, inst, n, reg) ==
  reg \in DOMAIN LoggedRegs(S, inst) =>
    \/ use_after_def(S, n, reg, inst)
    \/ AsLogged(S.core[n], ValueBefore(S.core[n]), LoggedRegs(S, inst)[reg])

correctness_check(S, inst) ==
  IF /\ S.rec = 0
     /\ \E n \in ElementsOf(S, inst) : ~ AgreesWithLog(S, inst, n, PlaceOf(S.core[n]))
  THEN fail(S, "abort")
  ELSE S

assign_value(S, n, side, v) ==
  correctness_check([S EXCEPT !.core[n][side] = Fitted(S, n, v)],
                    find_inst_of_node(S, n))

assign_or_assert(S, n, side, v) ==
  IF Known(S.core[n][side]) THEN assert_val(S, n, side, v)
  ELSE assign_value(S, n, side, v)

-----------------------------------------------------------------------------
(***************************************************************************)
(* Work lists and umemlist: new members go to the head, once.              *)
(***************************************************************************)
(* Bugs: a member is added twice; a new member goes to the tail. *)
AtHeadTwice(list, n) == Cons(n, list)
AtTail(list, n) == IF Contains(list, n) THEN list ELSE Append(list, n)
AtHead(list, n) == IF Contains(list, n) THEN list ELSE Cons(n, list)

add_to_deflist(S, n)  == [S EXCEPT !.dl = AtHead(@, n)]
add_to_uselist(S, n)  == [S EXCEPT !.ul = AtHead(@, n)]
enlist(S, n) ==
  IF IsDef(S.core[n]) THEN add_to_deflist(S, n) ELSE add_to_uselist(S, n)
add_to_instlist(S, n) == [S EXCEPT !.il = AtHead(@, n)]
(* Bug: no test for membership. *)
add_to_umemlist_again(S, n) == [S EXCEPT !.um = Cons(n, @)]
add_to_umemlist(S, n) == [S EXCEPT !.um = AtHead(@, n)]
remove_from_umemlist(S, n) == [S EXCEPT !.um = RemoveFirst(@, n)]

(* A value that follows for a node: checked against what is known, or      *)
(* taken over, and then the node is to be worked on.                       *)
give(S, n, side, v) ==
  IF Known(S.core[n][side]) THEN assert_val(S, n, side, v)
  ELSE enlist(assign_value(S, n, side, v), n)

UnknownWrite(node) == IsDef(node) /\ node_is_exp(node) /\ node.addr = 0

(* Bug: the unknown writes are looked for on the wrong side. *)
check_prev_unknown_write(S, def, target) ==
  \E j \in target + 1 .. Len(S.core) : UnknownWrite(S.core[j])
(* A write of unknown address strictly between the two nodes. *)
check_next_unknown_write(S, def, target) ==
  \E j \in def + 1 .. target - 1 : UnknownWrite(S.core[j])

(* All operands of the instruction have values and addresses. *)
check_inst_resolution(S, inst) ==
  \A j \in ElementsOf(S, inst) :
     LET node == S.core[j]
     IN  /\ Known(IF IsDef(node) THEN node.aft ELSE node.val)
         /\ node_is_exp(node) => node.addr # 0

-----------------------------------------------------------------------------
(***************************************************************************)
(* The address of a memory operand, from its registers.                    *)
(***************************************************************************)
RegPart(S, n) == IF n = 0 THEN 0 ELSE ToNum(S.core[n].val)
EffectiveAddr(S, exp, base, index) ==
  LET o == S.core[exp].o
  IN  Plus(Plus(RegPart(S, base), RegPart(S, index) * o.scale), o.disp)

-----------------------------------------------------------------------------
(***************************************************************************)
(* The memory image and the registers at the crash.                        *)
(***************************************************************************)
DumpOf(S) == S.tr.dump
Mapped(S, addr) == addr \in DOMAIN DumpOf(S).mem

RegValue(regs, reg) == Slice(ToBytes(regs[reg.fam], DW), reg.lo, reg.size)

get_regval_from_coredump(S, reg) == RegValue(DumpOf(S).reg, reg)
get_memval_from_coredump(S, addr) == <<DumpOf(S).mem[addr]>>

add_new_inst(S, i) == [S EXCEPT !.core = Append(@, InstNode(i))]

(* A new register node takes its value from the core dump when no later    *)
(* instruction defines the register, else from that define.  A memory node *)
(* has no address yet, so that nothing is found for it.                    *)
take_from_next(S, n, side, nd, place) ==
  IF nd = 0
  THEN IF place.t # "reg" THEN S
       ELSE [S EXCEPT !.core[n][side] = get_regval_from_coredump(S, place)]
  ELSE IF MatchType(S, nd, place) \in {EXACT, SUPER} /\ Known(S.core[nd].bef)
  THEN assign_value(S, n, side, S.core[nd].bef)
  ELSE S
take_initial(S, n, side) ==
  take_from_next(S, n, side, find_next(S, n, PlaceOf(S.core[n]), "def"),
                 PlaceOf(S.core[n]))

append_node(S, node) == [S EXCEPT !.core = Append(@, node)]

add_new_use(S, o, ut) ==
  IF o.t = "imm" THEN append_node(S, [UseNode(o, ut) EXCEPT !.val = o.v])
  ELSE take_initial(append_node(S, UseNode(o, ut)), Len(S.core) + 1, "val")

add_new_define(S, o) ==
  take_initial(append_node(S, DefNode(o)), Len(S.core) + 1, "aft")

(* The uses of the registers of an address. *)
element_use(S, o, reg, ut) ==
  IF reg # NoReg THEN add_new_use(S, o, ut) ELSE S
split_expression_to_use(S, o) ==
  IF o.t # "mem" THEN S
  ELSE element_use(element_use(S, o, o.base, "Base"), o, o.index, "Index")

-----------------------------------------------------------------------------
(***************************************************************************)
(* The loop of re_resolve that has the next turn.                          *)
(***************************************************************************)
Quiet(S) == S.dl = <<>> /\ S.ul = <<>> /\ S.il = <<>>

(* The list the loop works on, given the one it worked on last.            *)
Working(S) ==
  LET turn == CASE S.ph = "use"  -> <<"use", "def", "inst">>
                [] S.ph = "def"  -> <<"def", "inst", "use">>
                [] S.ph = "inst" -> <<"inst", "use", "def">>
      list(ph) == CASE ph = "use" -> S.ul [] ph = "def" -> S.dl [] ph = "inst" -> S.il
  IN  turn[Min({i \in 1 .. 3 : list(turn[i]) # <<>>})]

NextPhase(list, ph, after) == IF Len(list) = 1 THEN after ELSE ph

=============================================================================
