---------------------------- MODULE HypothesisAlias ----------------------------
(***************************************************************************)
(* The hypothesis test (re_alias_resolve, ht_verify_alias): assume that an *)
(* unknown write is at the address in question and propagate.  It works on *)
(* a copy of re_ds, which is thrown away afterwards whatever happened:     *)
(* here, a value that is not returned.                                     *)
(***************************************************************************)
EXTENDS CoreList

NeverAsked(S, exp1, exp2, off) == FALSE
Hyp == INSTANCE Resolve WITH check_alias_pair <- NeverAsked

learn(S, reg, v) ==
  add_to_uselist(assign_value(S, reg, "val", ToBytes(v, DW)), reg)

(* Assume that the unknown write exp1 is at the address of exp2 plus off.  *)
re_alias_resolve(S, exp1, exp2, off) ==
  LET address == Plus(S.core[exp2].addr, off)
      o      == S.core[exp1].o
      base   == get_element_of_exp(S, exp1, "Base")
      index  == get_element_of_exp(S, exp1, "Index")
      status == exp_addr_status(S, base, index)
      rest   == Minus(address, o.disp)
      T      == remove_from_umemlist(S, exp1)
  IN  CASE address = 0 -> fail(S, "abort")
        [] address # 0 /\ status = "KBaseKIndex" ->
             IF address # EffectiveAddr(S, exp1, base, index)
             THEN assert_address(S) ELSE S
        [] address # 0 /\ status = "UBaseUIndex" ->
             [T EXCEPT !.core[exp1].addr = address]
        [] address # 0 /\ status = "UBase"  -> learn(T, base, rest)
        [] address # 0 /\ status = "UIndex" -> learn(T, index, rest \div o.scale)
        [] address # 0 /\ status = "UBaseKIndex" ->
             learn(T, base, Minus(rest, RegPart(S, index) * o.scale))
        [] address # 0 /\ status = "KBaseUIndex" ->
             learn(T, index, Minus(rest, RegPart(S, base)) \div o.scale)
        [] address # 0 /\ status = "NBaseNIndex" -> S

RECURSIVE re_resolve_copy(_)
re_resolve_copy(S) ==
  IF Quiet(S) \/ S.out # "ok" THEN S
  ELSE re_resolve_copy(Hyp!re_resolve_step(S))

ForkOf(S) == [S EXCEPT !.rec = 1, !.dl = <<>>, !.ul = <<>>, !.il = <<>>,
                       !.ph = "use"]

(* Bug: an assumption that meets no contradiction counts as refuted. *)
ht_refuted(S, exp1, exp2, off) ==
  LET tested == re_resolve_copy(re_alias_resolve(ForkOf(S), exp1, exp2, off))
  IN  tested.out = "contra"

(* TRUE: the pair may alias.  Only a contradiction shows that it does not. *)
ht_verify_alias(S, exp1, exp2, off) ==
  LET tested == re_resolve_copy(re_alias_resolve(ForkOf(S), exp1, exp2, off))
  IN  \/ find_inst_of_node(S, exp1) > S.cur
      \/ find_inst_of_node(S, exp2) > S.cur
      \/ tested.out # "contra"
=============================================================================
