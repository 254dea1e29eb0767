------------------------------- MODULE Resolve -------------------------------
(***************************************************************************)
(* Propagation of values along the main list: the loops of re_resolve, the *)
(* bytes of memory operands, and the resolvers of single instructions.     *)
(*                                                                         *)
(* Everything rests on one question, check_alias_pair: can this write of   *)
(* unknown address be the write of that address?  It is a parameter: a     *)
(* hypothesis test answers it by running this module once more on a copy,  *)
(* where REC_LIMIT keeps the question from being asked again.              *)
(***************************************************************************)
EXTENDS CoreList

CONSTANT check_alias_pair(_, _, _, _)

REC_LIMIT == 2

(* Every unknown write between target and exp is proved not to be exp's    *)
(* address plus the offset.  The walk of umemlist stops at the first write *)
(* later than target, because the list is in order of age.                 *)
resolve_alias(S, exp, target, off) ==
  LET later == {i \in 1 .. Len(S.um) :
                target # 0 /\ node1_add_before_node2(S.um[i], target)}
      walked == IF later = {} THEN 1 .. Len(S.um) ELSE 1 .. Min(later) - 1
  IN  /\ S.rec + 1 # REC_LIMIT
      /\ \A i \in walked :
           node1_add_before_node2(S.um[i], exp) =>
             S.resolving /\ ~ check_alias_pair(S, S.um[i], exp, off)

(* entry is the later node (NULL: the end of the trace), target the        *)
(* earlier one, whose address plus the offset is the one in question.      *)
obstacle_between_two_targets(S, entry, target, off) ==
  /\ check_next_unknown_write(S, entry, target)
  /\ ~ resolve_alias(S, target, entry, off)

-----------------------------------------------------------------------------
(***************************************************************************)
(* One byte of a memory operand, from the four neighbours that touch it.   *)
(* A source names where the byte would come from (v, <<>>: unknown there)  *)
(* and the question of the alias check on the way.                         *)
(* <<>>: not available; BAD_ADDRESS: outside of the core dump.             *)
(***************************************************************************)
BAD_ADDRESS == <<Radix>>

ByteAt(S, n, index, j, v) ==
  Slice(v, Minus(Plus(S.core[n].addr, index), S.core[j].addr), 1)
ByteKnown(S, n, index, j, v) ==
  IF Known(v) THEN ByteAt(S, n, index, j, v) ELSE <<>>
ByteInDump(S, addr) ==
  IF Mapped(S, addr) THEN get_memval_from_coredump(S, addr) ELSE BAD_ADDRESS

Source(v, entry, target, off) ==
  [v |-> v, entry |-> entry, target |-> target, off |-> off]
NoSource == Source(<<>>, 0, 0, 0)

byte_from_next_def(S, n, index) ==
  LET byte == BytePlace(S.core[n], index)
      nd   == find_next(S, n, byte, "def")
  IN  Source(IF nd = 0 THEN ByteInDump(S, byte.addr)
             ELSE ByteKnown(S, n, index, nd, S.core[nd].bef),
             nd, n, index)

byte_from_next_use(S, n, index) ==
  LET byte == BytePlace(S.core[n], index)
      nd   == find_next(S, n, byte, "def")
      nu   == find_next(S, n, byte, "use")
  IN  IF nu = 0 \/ (nd # 0 /\ node1_add_before_node2(nu, nd)) THEN NoSource
      ELSE Source(ByteKnown(S, n, index, nu, S.core[nu].val), nu, n, index)

(* Towards the past the neighbour is the base of the alias check, at       *)
(* offset 0.                                                               *)
byte_from_prev_def(S, n, index) ==
  LET pd == find_prev(S, n, BytePlace(S.core[n], index), "def")
  IN  IF pd = 0 THEN NoSource
      ELSE Source(ByteKnown(S, n, index, pd, S.core[pd].aft), n, pd, 0)

byte_from_prev_use(S, n, index) ==
  LET byte == BytePlace(S.core[n], index)
      pd   == find_prev(S, n, byte, "def")
      pu   == find_prev(S, n, byte, "use")
  IN  IF pu = 0 \/ (pd # 0 /\ node1_add_before_node2(pd, pu)) THEN NoSource
      ELSE Source(ByteKnown(S, n, index, pu, S.core[pu].val), n, pu, 0)

byte_unless_obstacle(S, source) ==
  IF /\ Known(source.v)
     /\ ~ obstacle_between_two_targets(S, source.entry, source.target, source.off)
  THEN source.v ELSE <<>>

OrElse(first, second) == IF first # <<>> THEN first ELSE second

(* The next define and use come first, then the previous ones.             *)
next_byte(S, n, index) ==
  OrElse(byte_unless_obstacle(S, byte_from_next_def(S, n, index)),
         byte_unless_obstacle(S, byte_from_next_use(S, n, index)))
prev_byte(S, n, index) ==
  OrElse(byte_unless_obstacle(S, byte_from_prev_def(S, n, index)),
         byte_unless_obstacle(S, byte_from_prev_use(S, n, index)))

get_byte(S, n, side, index) ==
  OrElse(IF side # "bef" THEN next_byte(S, n, index) ELSE <<>>,
         IF side # "aft" THEN prev_byte(S, n, index) ELSE <<>>)

(* The bytes are collected in order and the first missing one ends it.     *)
UpToMissing(bytes) ==
  LET missing == {i \in DOMAIN bytes : bytes[i] = <<>>}
  IN  FlattenSeq(IF missing = {} THEN bytes ELSE SubSeq(bytes, 1, Min(missing) - 1))
collect_bytes(S, n, side) ==
  UpToMissing([i \in 1 .. S.core[n].o.size |-> get_byte(S, n, side, i - 1)])

Complete(S, n, bytes) == Len(bytes) = S.core[n].o.size
Faulted(bytes) == \E i \in 1 .. Len(bytes) : <<bytes[i]>> = BAD_ADDRESS

-----------------------------------------------------------------------------
(***************************************************************************)
(* The address of a memory operand, from its registers.                    *)
(***************************************************************************)
learn_index(S, exp, base, index) ==
  Minus(Minus(S.core[exp].addr, RegPart(S, base)), S.core[exp].o.disp)
    \div S.core[exp].o.scale
learn_base(S, exp, base, index) ==
  Minus(Minus(S.core[exp].addr, RegPart(S, index) * S.core[exp].o.scale),
        S.core[exp].o.disp)

(* Values of a memory node whose address has just been computed: the value *)
(* of a use, or the values before and after a define.                      *)
fill(S, exp, side, bytes) ==
  IF side # "bef" /\ Faulted(bytes) THEN assert_address(S)
  ELSE IF Complete(S, exp, bytes) THEN assign_or_assert(S, exp, side, bytes)
  ELSE S

assign_mem_val(S, exp, side) == fill(S, exp, side, collect_bytes(S, exp, side))

set_address(S, exp, base, index) ==
  [S EXCEPT !.core[exp].addr = EffectiveAddr(S, exp, base, index)]
fill_first(S, exp) == assign_mem_val(S, exp, IF IsDef(S.core[exp]) THEN "bef" ELSE "val")
fill_after(S, exp) == IF IsDef(S.core[exp]) THEN assign_mem_val(S, exp, "aft") ELSE S
address_solved(S, exp, base, index) ==
  fill_after(fill_first(
    remove_from_umemlist(set_address(S, exp, base, index), exp), exp), exp)

(* The known address of a write gives a missing register; a write without  *)
(* an address joins umemlist.                                              *)
unsolved_write(S, exp, base, index, status) ==
  CASE status = "KBaseUIndex" /\ S.core[exp].addr # 0 ->
         give(S, index, "val", ToBytes(learn_index(S, exp, base, index), DW))
    [] status = "UBaseKIndex" /\ S.core[exp].addr # 0 ->
         give(S, base, "val", ToBytes(learn_base(S, exp, base, index), DW))
    [] status = "UBaseUIndex" /\ S.core[exp].addr # 0 -> S
    [] OTHER -> add_to_umemlist(S, exp)

res_with(S, exp, base, index, status) ==
  IF \/ status = "KBaseKIndex"
     \/ status = "NBaseNIndex" /\ S.core[exp].o.disp # 0
  THEN address_solved(S, exp, base, index)
  ELSE IF IsUse(S.core[exp]) /\ status # "NBaseNIndex" THEN S
  ELSE unsolved_write(S, exp, base, index, status)

res_expression(S, exp) ==
  LET base  == get_element_of_exp(S, exp, "Base")
      index == get_element_of_exp(S, exp, "Index")
  IN  res_with(S, exp, base, index, exp_addr_status(S, base, index))

(* One operand of an instruction: the node joins its work list when its    *)
(* address and value have just become complete.                            *)
Taken(node) == Known(IF IsDef(node) THEN node.aft ELSE node.val)

(* Bug: an operand that is known joins its work list every time. *)
enlist_known(S, n) ==
  IF S.core[n].addr = 0 \/ ~ Taken(S.core[n]) THEN S ELSE enlist(S, n)
traverse_operand_always(S, n) ==
  IF ~ node_is_exp(S.core[n]) THEN S ELSE enlist_known(res_expression(S, n), n)

enlist_gained(S, n, was) ==
  LET node == S.core[n]
  IN  IF /\ node.addr # 0 /\ Taken(node)
         /\ was.addr = 0 \/ ~ Taken(was)
      THEN enlist(S, n) ELSE S
traverse_operand(S, n) ==
  LET node == S.core[n]
  IN  IF ~ node_is_exp(node) \/ (Taken(node) /\ node.addr # 0) THEN S
      ELSE enlist_gained(res_expression(S, n), n, node)

traverse_inst_operand(S, inst) ==
  LET elements == LastElement(S, inst) - inst
      upto[k \in 0 .. elements] ==
        IF k = 0 THEN S ELSE traverse_operand(upto[k - 1], inst + k)
  IN  upto[elements]

-----------------------------------------------------------------------------
(***************************************************************************)
(* Resolvers: what is known of an instruction's operands by its semantics, *)
(* as rules over its operands and defines in the order of their creation.  *)
(* A rule draws one conclusion: the node, its side and the value.          *)
(***************************************************************************)
Copy(u, d)   == [rule |-> "copy", use |-> u, def |-> d]
Extend(u, d) == [rule |-> "extend", use |-> u, def |-> d]
Back(d, by)  == [rule |-> "back", def |-> d, by |-> by]
Ahead(d, by) == [rule |-> "ahead", def |-> d, by |-> by]
Sum          == [rule |-> "sum"]
Lea          == [rule |-> "lea"]

(* Bug: push moves esp the wrong way. *)
push_resolver_up == <<Extend(1, 1), Back(2, DW), Ahead(2, DW)>>

mov_resolver  == <<Copy(1, 1)>>
xchg_resolver == <<Copy(1, 2), Copy(2, 1)>>
add_resolver  == <<Sum>>
push_resolver == <<Extend(1, 1), Back(2, Minus(0, DW)), Ahead(2, Minus(0, DW))>>
pop_resolver  == <<Copy(1, 2), Back(1, DW), Ahead(1, DW)>>
lea_resolver  == <<Lea>>

SignExtend(v) ==
  v \o [i \in 1 .. DW - Len(v) |->
          IF 2 * v[Len(v)] >= Radix THEN Radix - 1 ELSE 0]

Conclude(n, side, v) == [n |-> n, side |-> side, v |-> v]
Nothing == Conclude(0, "val", <<>>)

(* The define is a copy of the use, in both directions. *)
copy(u, d, v, w, extended) ==
  IF Known(w) THEN Conclude(u, "val", w)
  ELSE IF Known(v) THEN Conclude(d, "aft", extended)
  ELSE Nothing

(* esp after the instruction is esp before it plus the step. *)
step_back(d, node, by) ==
  IF Known(node.aft)
  THEN Conclude(d, "bef", ToBytes(Minus(ToNum(node.aft), by), DW)) ELSE Nothing
step_ahead(d, node, by) ==
  IF Known(node.bef)
  THEN Conclude(d, "aft", ToBytes(Plus(ToNum(node.bef), by), DW)) ELSE Nothing

(* Sums and differences of values of the size of the first operand. *)
AddVal(v, w) == ToBytes(ToNum(v) + ToNum(w), Len(v))
SubVal(v, w) == ToBytes(ToNum(v) + Radix ^ Len(v) - (ToNum(w) % Radix ^ Len(v)),
                        Len(v))
sum(S, u1, u2, d) ==
  LET v1 == S.core[u1].val
      v2 == S.core[u2].val
      w  == S.core[d].aft
  IN  IF Known(v1) /\ Known(v2) THEN Conclude(d, "aft", AddVal(v1, SignExtend(v2)))
      ELSE IF Known(v1) /\ Known(w) THEN Conclude(u2, "val", SubVal(w, v1))
      ELSE IF Known(v2) /\ Known(w) THEN
        Conclude(u1, "val", SubVal(w, SignExtend(v2)))
      ELSE Nothing

(* lea does not touch memory: its uses are the base and the index.  A sum  *)
(* of zero counts as unknown.                                              *)
LeaTerm(S, n) ==
  ToNum(S.core[n].val) * (IF S.core[n].ut = "Index" THEN S.core[n].o.scale ELSE 1)
LeaSum(S, uses) ==
  IF \E i \in 1 .. Len(uses) : ~ Known(S.core[uses[i]].val) THEN 0
  ELSE FoldLeft(LAMBDA total, n : Plus(total, LeaTerm(S, n)), 0, uses)
LeaAddr(uses, total, disp) ==
  IF uses = <<>> THEN disp ELSE IF total = 0 THEN 0 ELSE Plus(total, disp)

lea(S, uses, d, disp, addr) ==
  IF addr # 0 THEN Conclude(d, "aft", ToBytes(addr, DW))
  ELSE IF Known(S.core[d].aft) /\ Len(uses) = 1 /\ S.core[uses[1]].ut = "Base"
  THEN Conclude(uses[1], "val", ToBytes(Minus(ToNum(S.core[d].aft), disp), DW))
  ELSE Nothing

conclusion(S, inst, src, dst, r) ==
  CASE r.rule = "copy"   ->
         copy(src[r.use], dst[r.def], S.core[src[r.use]].val,
              S.core[dst[r.def]].aft, S.core[src[r.use]].val)
    [] r.rule = "extend" ->
         copy(src[r.use], dst[r.def], S.core[src[r.use]].val,
              S.core[dst[r.def]].aft, SignExtend(S.core[src[r.use]].val))
    [] r.rule = "back"   -> step_back(dst[r.def], S.core[dst[r.def]], r.by)
    [] r.rule = "ahead"  -> step_ahead(dst[r.def], S.core[dst[r.def]], r.by)
    [] r.rule = "sum"    -> sum(S, src[1], src[2], dst[1])
    [] r.rule = "lea"    ->
         lea(S, src, dst[1], inst_of(S, inst).src.disp,
             LeaAddr(src, LeaSum(S, src), inst_of(S, inst).src.disp))

believe(S, c) == IF c.n = 0 THEN S ELSE give(S, c.n, c.side, c.v)

apply_rules(S, inst, src, dst, rules) ==
  LET after[k \in 0 .. Len(rules)] ==
        IF k = 0 THEN S
        ELSE believe(after[k - 1], conclusion(after[k - 1], inst, src, dst, rules[k]))
  IN  after[Len(rules)]

RulesOf(op) ==
  CASE op = "mov"  -> mov_resolver
    [] op = "xchg" -> xchg_resolver
    [] op = "push" -> push_resolver
    [] op = "pop"  -> pop_resolver
    [] op = "add"  -> add_resolver
    [] op = "lea"  -> lea_resolver

inst_resolver(S, inst) ==
  LET op == inst_of(S, inst).op
  IN  apply_rules(IF op = "lea" THEN S ELSE traverse_inst_operand(S, inst), inst,
                  IF op = "lea" THEN UsesOf(S, inst) ELSE OperandsOf(S, inst),
                  DefsOf(S, inst), RulesOf(op))

-----------------------------------------------------------------------------
(***************************************************************************)
(* A known value goes to the nearest nodes that read or write its place,   *)
(* up to the next define and back to the previous one.                     *)
(***************************************************************************)
TargetOffset(S, n, j) == Minus(S.core[j].addr, S.core[n].addr)

Carried(S, n, j, v, type) ==
  LET off == IF node_is_exp(S.core[n]) THEN TargetOffset(S, n, j)
             ELSE adjust_val_offset(PlaceOf(S.core[j]), type)
  IN  Slice(v, off, size_of_node(S.core[j]))

Within(S, j, n) == MatchType(S, j, PlaceOf(S.core[n])) \in {EXACT, SUB}

(* An unknown write between the node and a later, or an earlier, one that  *)
(* may be any of the bytes.                                                *)
obstacle_to(S, n, j) ==
  /\ node_is_exp(S.core[n])
  /\ \E index \in 0 .. S.core[j].o.size - 1 :
       obstacle_between_two_targets(S, Min({n, j}), Max({n, j}),
         IF j < n THEN Plus(TargetOffset(S, n, j), index) ELSE index)

(* Who is next in that direction: a use only if no define is nearer.       *)
receiver(S, n, way) ==
  LET place == PlaceOf(S.core[n])
      nd == find_next(S, n, place, "def")
      nu == find_next(S, n, place, "use")
      pd == find_prev(S, n, place, "def")
      pu == find_prev(S, n, place, "use")
  IN  CASE way = "next_def" -> nd
        [] way = "next_use" -> IF nd # 0 /\ node1_add_before_node2(nu, nd) THEN 0 ELSE nu
        [] way = "prev_def" -> pd
        [] way = "prev_use" -> IF pd # 0 /\ node1_add_before_node2(pd, pu) THEN 0 ELSE pu

SideOf(way) == CASE way = "next_def" -> "bef"
                 [] way = "prev_def" -> "aft"
                 [] way \in {"next_use", "prev_use"} -> "val"

carry_to(S, n, j, way, v) ==
  IF j = 0 \/ ~ Known(v) \/ ~ Within(S, j, n) \/ obstacle_to(S, n, j) THEN S
  ELSE give(S, j, SideOf(way), Carried(S, n, j, v, MatchType(S, j, PlaceOf(S.core[n]))))

(* A use has one value; a define gives its value after to the later nodes  *)
(* and its value before to the earlier ones.                               *)
carry(S, n, way) ==
  LET node == S.core[n]
  IN  carry_to(S, n, receiver(S, n, way), way,
               IF IsUse(node) THEN node.val
               ELSE IF way \in {"next_def", "next_use"} THEN node.aft
               ELSE node.bef)

(* Bug: the next define does not learn what it overwrites. *)
to_later_uses(S, n) == carry(S, n, "next_use")

to_later(S, n)   == carry(carry(S, n, "next_def"), n, "next_use")
to_earlier(S, n) == carry(carry(S, n, "prev_def"), n, "prev_use")

queue_inst(S, n) ==
  LET inst == find_inst_of_node(S, n)
  IN  IF check_inst_resolution(S, inst) THEN S ELSE add_to_instlist(S, inst)

resolve_node(S, n) == to_earlier(to_later(queue_inst(S, n), n), n)

-----------------------------------------------------------------------------
(***************************************************************************)
(* The loops.  An entry is taken from the tail and leaves its list when it *)
(* is done; new ones are put at the head meanwhile.  A pass over a list    *)
(* ends with the entry that was alone in it.                               *)
(***************************************************************************)
resolve_use(S) ==
  [resolve_node(S, Last(S.ul)) EXCEPT
     !.ul = Front(@),
     !.ph = NextPhase(S.ul, "use", "def")]

resolve_define(S) ==
  [resolve_node(S, Last(S.dl)) EXCEPT
     !.dl = Front(@),
     !.ph = NextPhase(S.dl, "def", "inst")]

resolve_inst(S) ==
  correctness_check(
    [inst_resolver(S, Last(S.il)) EXCEPT
       !.il = Front(@),
       !.ph = NextPhase(S.il, "inst", "use")], Last(S.il))

re_resolve_step(S) ==
  IF Quiet(S) \/ S.out # "ok" THEN S
  ELSE CASE Working(S) = "use"  -> resolve_use(S)
         [] Working(S) = "def"  -> resolve_define(S)
         [] Working(S) = "inst" -> resolve_inst(S)

=============================================================================
