------------------------------- MODULE ValueSet -------------------------------
(***************************************************************************)
(* Value sets of re_valueset.c: lists of strided intervals, each relative  *)
(* to the unknown base of a memory region.  An operation takes the value   *)
(* set that is there already, dest, and gives the one that takes its       *)
(* place; Abort stands for an assertion that fails.                        *)
(***************************************************************************)
EXTENDS StridedInterval, Sequences, SequencesExt

CONST_REGION  == "const"
GLOBAL_REGION == "global"   (* number 0: absolute addresses, so that its base is 0 *)

Entry(region, si)  == [region |-> region, si |-> si]
Single(region, si) == <<Entry(region, si)>>
Number(n)          == Single(CONST_REGION, One(n))
Abort              == Single("abort", One(0))

count_region_num(vs) == Len(vs)
valset_is_empty(vs)  == vs = <<>>
valset_is_const(vs)  == count_region_num(vs) = 1 /\ vs[1].region = CONST_REGION
OneValueEach(vs)     == \A k \in DOMAIN vs : si_is_one_value(vs[k].si)

Holds(region, vs) == \E k \in DOMAIN vs : vs[k].region = region
find_region_in_valset(vs, region) ==
  vs[Min({k \in DOMAIN vs : vs[k].region = region})].si

(* Asks whether the new element contains one that is there.                *)
check_vs_in_list(e, head) ==
  \E k \in DOMAIN head : head[k].region = e.region /\ si_contain(e.si, head[k].si) = Yes
add_new_valset(head, region, si) ==
  IF check_vs_in_list(Entry(region, si), head) THEN head ELSE Append(head, Entry(region, si))

(* assign_def_after_value_set and its like: only an empty list is filled.  *)
assign_value_set(dest, src) == IF valset_is_empty(dest) THEN src ELSE dest

OnEach(vs, Op(_)) == [k \in DOMAIN vs |-> [vs[k] EXCEPT !.si = Op(@)]]
OnCopy(dest, src, Op(_)) == OnEach(assign_value_set(dest, src), Op)

-----------------------------------------------------------------------------
valset_modify_region(vs, region) == [k \in DOMAIN vs |-> [vs[k] EXCEPT !.region = region]]

valset_add_offset(dest, src, offset) == OnCopy(dest, src, LAMBDA si : si_add_offset(si, offset))
valset_mul_offset(dest, src, offset) == OnCopy(dest, src, LAMBDA si : si_mul_offset(si, offset))
valset_add_si(dest, src, other)      == OnCopy(dest, src, LAMBDA si : si_add(si, other))
valset_sub_si(dest, src, other)      == valset_add_si(dest, src, si_neg(other))

(* Bug: the two halves of [base + index] are taken for numbers. *)
valset_add_numbers(dest, src1, src2) ==
  IF valset_is_empty(src1) \/ valset_is_empty(src2) THEN dest
  ELSE add_new_valset(dest, CONST_REGION, si_add(src1[1].si, src2[1].si))
valset_add(dest, src1, src2) ==
  IF valset_is_empty(src1) \/ valset_is_empty(src2) THEN dest
  ELSE IF valset_is_const(src1) THEN valset_add_si(dest, src2, src1[1].si)
  ELSE IF valset_is_const(src2) THEN valset_add_si(dest, src1, src2[1].si)
  ELSE Abort

valset_region_contain(vs1, vs2) == \A k \in DOMAIN vs2 : Holds(vs2[k].region, vs1)
valset_check_same_region(vs1, vs2) ==
  /\ count_region_num(vs1) = count_region_num(vs2)
  /\ valset_region_contain(vs1, vs2) /\ valset_region_contain(vs2, vs1)

valset_sub(dest, src1, src2) ==
  IF valset_is_empty(src1) \/ valset_is_empty(src2) THEN dest
  ELSE IF valset_check_same_region(src1, src2)
  THEN FoldLeft(LAMBDA vs, e : add_new_valset(vs, CONST_REGION,
                                  si_sub(e.si, find_region_in_valset(src2, e.region))),
                dest, src1)
  ELSE IF valset_is_const(src2) THEN valset_sub_si(dest, src1, src2[1].si)
  ELSE Abort

valset_not(dest, src) == OnCopy(dest, src, LAMBDA si : si_not(si))
valset_neg(vs)        == OnEach(vs, LAMBDA si : si_neg(si))

(* Nothing is known of a product or a shifted number but that it is one.   *)
valset_shl(dest, src1, src2) ==
  IF valset_is_const(src1) /\ valset_is_const(src2)
  THEN add_new_valset(dest, CONST_REGION, FullInterval) ELSE dest
valset_shr(dest, src1, src2) == valset_shl(dest, src1, src2)
valset_rol(dest, src1, src2) == valset_shl(dest, src1, src2)
valset_ror(dest, src1, src2) == valset_shl(dest, src1, src2)
valset_mul_two_or_more(dest, src1, src2) == valset_shl(dest, src1, src2)

-----------------------------------------------------------------------------
valset_or(dest, src1, src2) ==
  IF valset_is_empty(src1) \/ valset_is_empty(src2) THEN dest
  ELSE IF ~ valset_is_const(src2) THEN Abort
  ELSE IF valset_is_const(src1)
  THEN add_new_valset(dest, CONST_REGION, si_or(src1[1].si, src2[1].si))
  ELSE add_new_valset(dest, src1[1].region, FullInterval)

valset_xor(dest, src1, src2) ==
  IF valset_is_empty(src1) \/ valset_is_empty(src2) THEN dest
  ELSE IF valset_is_const(src1) /\ valset_is_const(src2)
  THEN add_new_valset(dest, CONST_REGION, si_xor(src1[1].si, src2[1].si))
  ELSE Abort

(* A mask that is not negative makes a number of an address.               *)
(* Bug: the address stays one. *)
valset_and_address(dest, src, offset) == OnCopy(dest, src, LAMBDA si : si_and_offset(si, offset))
valset_and_offset(dest, src, offset) ==
  LET masked == OnCopy(dest, src, LAMBDA si : si_and_offset(si, offset))
  IN  IF offset < 0 THEN masked ELSE valset_modify_region(masked, CONST_REGION)

valset_and(dest, src1, src2) ==
  LET masked(address, mask) ==
        IF si_is_one_value(mask[1].si)
        THEN valset_and_offset(dest, address, mask[1].si.lower_bound) ELSE Abort
  IN  IF valset_is_empty(src1) \/ valset_is_empty(src2) THEN dest
      ELSE IF ~ valset_is_const(src1) /\ valset_is_const(src2) THEN masked(src1, src2)
      ELSE IF ~ valset_is_const(src2) /\ valset_is_const(src1) THEN masked(src2, src1)
      ELSE IF valset_is_const(src1) /\ valset_is_const(src2)
      THEN add_new_valset(dest, CONST_REGION, si_and(src1[1].si, src2[1].si))
      ELSE Abort

-----------------------------------------------------------------------------
(***************************************************************************)
(* Two accesses whose addresses are value sets.                            *)
(***************************************************************************)
mem_valset_exact(vs1, size1, vs2, size2) ==
  /\ valset_check_same_region(vs1, vs2) /\ size1 = size2
  /\ \A k \in DOMAIN vs1 : vs1[k].si = find_region_in_valset(vs2, vs1[k].region)

(* The first access lies within the second.                                *)
mem_valset_subst(vs1, size1, vs2, size2) ==
  /\ valset_region_contain(vs2, vs1)
  /\ \A k \in DOMAIN vs1 :
       si_contain_with_len(find_region_in_valset(vs2, vs1[k].region), size2,
                           vs1[k].si, size1) # No
mem_valset_super(vs1, size1, vs2, size2) == mem_valset_subst(vs2, size2, vs1, size1)

(* Absolute addresses may be taken for numbers, and numbers for absolute   *)
(* addresses.  An empty list says nothing.                                 *)
(* Bug: a number is no address. *)
same_base_by_name(region, vs) == IF Holds(region, vs) THEN region ELSE "none"
SameBase(region, vs) ==
  IF Holds(region, vs) THEN region
  ELSE IF region = GLOBAL_REGION /\ Holds(CONST_REGION, vs) THEN CONST_REGION
  ELSE IF region = CONST_REGION /\ Holds(GLOBAL_REGION, vs) THEN GLOBAL_REGION
  ELSE "none"
mem_valset_overlap(vs1, size1, vs2, size2) ==
  \/ valset_is_empty(vs1) \/ valset_is_empty(vs2)
  \/ \E k \in DOMAIN vs1 :
       /\ SameBase(vs1[k].region, vs2) # "none"
       /\ si_overlap_with_len(vs1[k].si, size1,
            find_region_in_valset(vs2, SameBase(vs1[k].region, vs2)), size2) # No
=============================================================================
