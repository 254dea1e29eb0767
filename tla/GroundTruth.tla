------------------------------ MODULE GroundTruth ------------------------------
(***************************************************************************)
(* The ground truth of truth_verify_noalias: addresses from the registers  *)
(* that the tracer recorded.                                               *)
(***************************************************************************)
EXTENDS CoreList

RecordedReg(S, n) ==
  ToNum(LoggedRegs(S, find_inst_of_node(S, n))[PlaceOf(S.core[n])])

(* Bug: the recorded register is taken as it is. *)
RecordedBaseAsIs(S, exp, base) == RecordedReg(S, base)

(* push writes below the recorded stack pointer.                           *)
RecordedBase(S, exp, base) ==
  LET inst == find_inst_of_node(S, base)
      d    == find_prev(S, base, PlaceOf(S.core[base]), "def")
  IN  IF /\ d # 0
         /\ find_inst_of_node(S, d) = inst
         /\ d > exp
         /\ inst_of(S, inst).op = "push"
      THEN Minus(RecordedReg(S, base), DW)
      ELSE RecordedReg(S, base)

truth_address(S, exp) ==
  LET base  == get_element_of_exp(S, exp, "Base")
      index == get_element_of_exp(S, exp, "Index")
      o     == S.core[exp].o
  IN  Plus(Plus(IF base = 0 THEN 0 ELSE RecordedBase(S, exp, base),
                IF index = 0 THEN 0 ELSE RecordedReg(S, index) * o.scale),
           o.disp)

(* Bug: only the first bytes are compared. *)
differs_mem(a1, s1, a2, s2) == a1 # a2
nooverlap_mem(a1, s1, a2, s2) == a1 >= Plus(a2, s2) \/ a2 >= Plus(a1, s1)

truth_verify_noalias(S, exp1, exp2) ==
  nooverlap_mem(truth_address(S, exp1), S.core[exp1].o.size,
                truth_address(S, exp2), S.core[exp2].o.size)

(* The alias module of the build that uses the ground truth.               *)
gt_verify_alias(S, exp1, exp2, off) == ~ truth_verify_noalias(S, exp1, exp2)
=============================================================================
