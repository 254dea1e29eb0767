---------------------- MODULE InstructionStep_proofs ----------------------
(***************************************************************************)
(* Proofs about the execution of one instruction, for every base that a    *)
(* byte may have, every operand and every value.  What is known is never   *)
(* replaced; and for the instructions that the tool supports, whatever is  *)
(* learned and in whatever order: what is concluded is typed and true, a   *)
(* wrong value meets no failing assertion, and a resolver that has run has *)
(* said all it can.                                                        *)
(*                                                                         *)
(* The parts are: resolvers that replace nothing; one lemma for each kind  *)
(* of supported instruction, from the shape of its resolver; and the       *)
(* invariant of the steps.                                                 *)
(***************************************************************************)
EXTENDS InstKnowledge_proofs

(***************************************************************************)
(* The resolvers of every family of instructions replace nothing.          *)
(***************************************************************************)
(* Addition and subtraction. *)
LEMMA AddSubGrow ==
  ASSUME NEW i, NEW K1, Knowledge(K1)
  PROVE  /\ Grows(K1, add_resolver(i, K1)) /\ Grows(K1, sub_resolver(i, K1))
         /\ Grows(K1, inc_resolver(i, K1)) /\ Grows(K1, dec_resolver(i, K1))
<1>1. Grows(K1, add_resolver(i, K1))
  BY GrowsRefl, PatternsGrow, DatatypeGrows DEF add_resolver
<1>2. Grows(K1, sub_resolver(i, K1))
  <2>1. sees(K1, {1, 2}, {1}) => Grows(K1, assert_val(K1, "aft", 1, difference(K1)))
    BY AssertGrows
  <2>2. ~ sees(K1, {1, 2}, {1}) /\ sees(K1, {1, 2}, {}) => ~ Known(K1.aft[1])
    BY DEF sees
  <2>3. ~ sees(K1, {1, 2}, {}) /\ sees(K1, {1}, {1}) => ~ Known(K1.val[2])
    BY DEF sees
  <2>4. ~ sees(K1, {1, 2}, {}) /\ sees(K1, {2}, {1}) => ~ Known(K1.val[1])
    BY DEF sees
  <2> QED BY <2>1, <2>2, <2>3, <2>4, GrowsRefl, PutGrows, DatatypeGrows
          DEF sub_resolver, Sides
<1>3. Grows(K1, inc_resolver(i, K1)) /\ Grows(K1, dec_resolver(i, K1))
  BY PatternsGrow DEF inc_resolver, dec_resolver
<1> QED BY <1>1, <1>2, <1>3

(* Products of two or three operands; mul itself assigns both halves.      *)
LEMMA ProductGrows ==
  ASSUME NEW i, NEW K1, Knowledge(K1), i.op # "mul"
  PROVE  Grows(K1, mul_resolver(i, K1))
<1>1. ASSUME NEW u, ~ Known(K1.val[u]), NEW n, NEW by
      PROVE  Grows(K1, quotient_of(K1, u, n, by))
  BY <1>1, EndGrows, PutGrows DEF quotient_of, Sides
<1>2. ~ sees(K1, {1, 2}, {}) /\ sees(K1, {1}, {1}) => ~ Known(K1.val[2])
  BY DEF sees
<1>3. ~ sees(K1, {1, 2}, {}) /\ sees(K1, {2}, {1}) => ~ Known(K1.val[1])
  BY DEF sees
<1> QED BY <1>1, <1>2, <1>3, GrowsRefl, TellGrows DEF mul_resolver, mul_more_resolver, Sides

(* Shifts and rotations. *)
LEMMA ShiftsGrow ==
  ASSUME NEW i, NEW K1, Knowledge(K1)
  PROVE  /\ Grows(K1, shl_resolver(i, K1)) /\ Grows(K1, shr_resolver(i, K1))
         /\ Grows(K1, rol_resolver(i, K1)) /\ Grows(K1, ror_resolver(i, K1))
<1>1. Grows(K1, shl_resolver(i, K1)) /\ Grows(K1, shr_resolver(i, K1))
  BY PatternsGrow, EndGrows DEF shl_resolver, process_other_shl_inst, shld_resolver, shr_resolver
<1>2. \A computed, undone, forward, back : Grows(K1, rotate(K1, computed, undone, forward, back))
  BY GrowsRefl, TellGrows, DatatypeGrows DEF rotate, Sides
<1> QED BY <1>1, <1>2 DEF rol_resolver, ror_resolver

(* Logic. *)
LEMMA LogicGrows ==
  ASSUME NEW i, NEW K1, Knowledge(K1)
  PROVE  /\ Grows(K1, and_resolver(i, K1)) /\ Grows(K1, or_resolver(i, K1))
         /\ Grows(K1, not_resolver(i, K1)) /\ Grows(K1, neg_resolver(i, K1))
         /\ Grows(K1, pxor_resolver(i, K1))
<1>1. Grows(K1, and_resolver(i, K1))
  BY GrowsRefl, TellGrows, DatatypeGrows DEF and_resolver, Sides
<1>2. Grows(K1, or_resolver(i, K1)) /\ Grows(K1, not_resolver(i, K1))
      /\ Grows(K1, neg_resolver(i, K1))
  BY PatternsGrow DEF or_resolver, not_resolver, neg_resolver
<1>3. Grows(K1, pxor_resolver(i, K1))
  BY GrowsRefl, EndGrows, PatternsGrow DEF pxor_resolver
<1> QED BY <1>1, <1>2, <1>3

(* Vector instructions; movq assigns what it has found unknown. *)
LEMMA VectorsGrow ==
  ASSUME NEW i, NEW K1, Knowledge(K1)
  PROVE  Grows(K1, unknown_resolver(i, K1))
<1>1. /\ Grows(K1, pcmpeqb_resolver(i, K1)) /\ Grows(K1, pcmpgtb_resolver(i, K1))
      /\ Grows(K1, pmaxub_resolver(i, K1)) /\ Grows(K1, pminub_resolver(i, K1))
      /\ Grows(K1, pmovmskb_resolver(i, K1)) /\ Grows(K1, punpcklbw_resolver(i, K1))
  BY PatternsGrow DEF pcmpeqb_resolver, pcmpgtb_resolver, pmaxub_resolver, pminub_resolver,
                      pmovmskb_resolver, punpcklbw_resolver
<1>2. /\ Grows(K1, pshufd_resolver(i, K1)) /\ Grows(K1, palignr_resolver(i, K1))
      /\ Grows(K1, nothing_concluded(i, K1)) /\ Grows(K1, abort(K1))
  BY GrowsRefl, EndGrows, PatternsGrow DEF pshufd_resolver, palignr_resolver, nothing_concluded
<1>3. Grows(K1, movq_resolver(i, K1))
  <2>1. ~ sees(K1, {1}, {1}) /\ sees(K1, {1}, {}) => ~ Known(K1.aft[1])
    BY DEF sees
  <2>2. ~ sees(K1, {1}, {}) => ~ Known(K1.val[1])
    BY DEF sees
  <2> QED BY <2>1, <2>2, GrowsRefl, AssertGrows, PutGrows, DatatypeGrows DEF movq_resolver, Sides
<1> QED BY <1>1, <1>2, <1>3, LogicGrows, AddSubGrow DEF unknown_resolver

(* Moves. *)
LEMMA MovesGrow ==
  ASSUME NEW i, NEW K1, Knowledge(K1)
  PROVE  /\ i.op \in {"mov", "movzx", "movsx", "movlpd", "movhpd"} => Grows(K1, mov_resolver(i, K1))
         /\ Grows(K1, movcc_resolver(i, K1)) /\ Grows(K1, xchg_resolver(i, K1))
         /\ Grows(K1, xchgcc_resolver(i, K1)) /\ Grows(K1, bittest_resolver(i, K1))
         /\ Grows(K1, szconv_resolver(i, K1))
<1>1. \A v : Grows(K1, widened(K1, v))
  BY EndGrows, PatternsGrow DEF widened
<1>2. Grows(K1, movlpd_resolver(i, K1))
  BY GrowsRefl, TellGrows, PatternsGrow DEF movlpd_resolver, half, Sides
<1>3. Grows(K1, movhpd_resolver(i, K1))
  BY GrowsRefl, TellGrows, PatternsGrow DEF movhpd_resolver, half, Sides
<1>4. i.op \in {"mov", "movzx", "movsx", "movlpd", "movhpd"} => Grows(K1, mov_resolver(i, K1))
  BY <1>1, <1>2, <1>3, PatternsGrow
  DEF mov_resolver, process_other_mov_inst, movzx_resolver, movsx_resolver
<1>5. Grows(K1, movcc_resolver(i, K1))
  BY GrowsRefl DEF movcc_resolver
<1>6. Grows(K1, xchg_resolver(i, K1))
  <2>1. Grows(K1, bswap_resolver(i, K1))
    BY EndGrows, PatternsGrow DEF bswap_resolver
  <2>2. Grows(K1, copies(K1, 1, 2)) /\ Knowledge(copies(K1, 1, 2))
    BY PatternsGrow DEF Grows
  <2>3. Grows(copies(K1, 1, 2), copies(copies(K1, 1, 2), 2, 1))
    BY <2>2, PatternsGrow
  <2> QED BY <2>1, <2>2, <2>3, GrowsTrans DEF xchg_resolver, process_other_xchg_inst
<1>7. Grows(K1, xchgcc_resolver(i, K1))
  <2>1. ~ sees(K1, {3}, {}) => ~ Known(K1.val[3])
    BY DEF sees
  <2> QED BY <2>1, GrowsRefl, EndGrows, TellGrows, PutGrows DEF xchgcc_resolver, Sides
<1>8. Grows(K1, bittest_resolver(i, K1))
  BY GrowsRefl, PatternsGrow DEF bittest_resolver, bsr_resolver, bsf_resolver
<1>9. Grows(K1, szconv_resolver(i, K1))
  BY PatternsGrow DEF szconv_resolver
<1> QED BY <1>4, <1>5, <1>6, <1>7, <1>8, <1>9

(* The stack and transfers of control. *)
LEMMA ControlGrows ==
  ASSUME NEW i, NEW K1, Knowledge(K1)
  PROVE  /\ Grows(K1, push_resolver(i, K1)) /\ Grows(K1, pop_resolver(i, K1))
         /\ Grows(K1, leave_resolver(i, K1)) /\ Grows(K1, jmp_resolver(i, K1))
         /\ Grows(K1, call_resolver(i, K1)) /\ Grows(K1, return_resolver(i, K1))
<1>1. ASSUME NEW K2, Grows(K1, K2), NEW d, NEW by
      PROVE  Grows(K1, steps(K2, d, by))
  <2>1. Knowledge(K2)
    BY <1>1 DEF Grows
  <2> QED BY <1>1, <2>1, StepsGrow, GrowsTrans
<1>2. ASSUME NEW K2, Knowledge(K2), NEW u
      PROVE  Grows(K2, goes_to_next(i, K2, u))
  <2>1. ~ sees(K2, {u}, {}) => ~ Known(K2.val[u])
    BY DEF sees
  <2> QED BY <1>2, <2>1, GrowsRefl, PutGrows DEF goes_to_next, Sides
<1>3. Grows(K1, push_resolver(i, K1))
  BY <1>1, PatternsGrow DEF push_resolver
<1>4. Grows(K1, pop_resolver(i, K1))
  BY <1>1, PatternsGrow DEF pop_resolver
<1>5. Grows(K1, leave_resolver(i, K1))
  <2>1. Grows(K1, copies(K1, 1, 2)) /\ Knowledge(copies(K1, 1, 2))
    BY PatternsGrow DEF Grows
  <2>2. Grows(K1, copies(copies(K1, 1, 2), 2, 3))
    BY <2>1, PatternsGrow, GrowsTrans
  <2> QED BY <1>1, <2>2 DEF leave_resolver
<1>6. Grows(K1, jmp_resolver(i, K1))
  BY <1>2, GrowsRefl DEF jmp_resolver
<1>7. Grows(K1, call_resolver(i, K1))
  BY <1>2, StepsGrow, GrowsTrans DEF call_resolver
<1>8. Grows(K1, return_resolver(i, K1))
  <2>1. Grows(K1, IF sees(K1, {}, {2}) THEN tell(K1, "val", Len(K1.src), K1.aft[2]) ELSE K1)
    BY GrowsRefl, TellGrows DEF Sides
  <2> QED BY <1>1, <2>1 DEF return_resolver
<1> QED BY <1>3, <1>4, <1>5, <1>6, <1>7, <1>8

(* String instructions. *)
LEMMA StringsGrow ==
  ASSUME NEW i, NEW K1, Knowledge(K1)
  PROVE  /\ Grows(K1, strsca_resolver(i, K1)) /\ Grows(K1, strcmp_resolver(i, K1))
         /\ Grows(K1, strmov_resolver(i, K1)) /\ Grows(K1, strstore_resolver(i, K1))
         /\ Grows(K1, strload_resolver(i, K1))
<1>1. ASSUME NEW K2, Grows(K1, K2), NEW u
      PROVE  Grows(K1, moves(i, K2, u))
  <2>1. Knowledge(K2)
    BY <1>1 DEF Grows
  <2> QED BY <1>1, <2>1, PatternsGrow, GrowsTrans DEF moves
<1>2. ASSUME NEW K2, Grows(K1, K2), NEW u
      PROVE  Grows(K1, copies(K2, u, u))
  <2>1. Knowledge(K2)
    BY <1>2 DEF Grows
  <2> QED BY <1>2, <2>1, PatternsGrow, GrowsTrans
<1>3. Grows(K1, counts(K1)) /\ Grows(K1, K1) /\ Grows(K1, abort(K1))
  BY TellGrows, GrowsRefl, EndGrows DEF counts, Sides
<1>4. Grows(K1, strsca_resolver(i, K1)) /\ Grows(K1, strcmp_resolver(i, K1))
  BY <1>1, <1>3 DEF strsca_resolver, strcmp_resolver
<1>5. Grows(K1, strmov_resolver(i, K1))
  BY <1>1, <1>2, <1>3 DEF strmov_resolver, movs_resolver
<1>6. Grows(K1, strstore_resolver(i, K1))
  BY <1>1, <1>2, <1>3 DEF strstore_resolver, stos_resolver
<1>7. Grows(K1, strload_resolver(i, K1))
  BY <1>1, <1>2, <1>3 DEF strload_resolver, lods_resolver
<1> QED BY <1>4, <1>5, <1>6, <1>7

(* No resolver but the ones of mul and div replaces a known value.         *)
LEMMA ResolverGrows ==
  ASSUME NEW i, NEW K1, Knowledge(K1), i.op \notin {"mul", "div"}
  PROVE  Grows(K1, inst_resolver(i, K1))
<1>1. Grows(K1, nothing_concluded(i, K1))
  BY GrowsRefl DEF nothing_concluded
<1> QED BY <1>1, AddSubGrow, ProductGrows, ShiftsGrow, LogicGrows, VectorsGrow, MovesGrow,
           ControlGrows, StringsGrow, SMTT(60) DEF inst_resolver

(* mul and div assign both of their results when one of them may be known. *)
NoPairs == \A i \in Instances : i.op \notin {"mul", "div"}

(* A known value is never replaced, neither by a value that arrives nor by *)
(* a conclusion, of whatever instruction but mul and div and whatever is   *)
(* known, true or only assumed.                                            *)
THEOREM KnownIsKept == ASSUME NoPairs PROVE Spec => Keeps
<1> DEFINE Inv == x \in Instances /\ Knowledge(K)
           A == \A s \in Slots(K) : KnownAt(K, s) => K'[s[1]][s[2]] = K[s[1]][s[2]]
<1>1. Init => Inv
  BY HandlerKnowledge DEF Init
<1>2. ASSUME Grows(K, K') PROVE A
  <2> SUFFICES ASSUME NEW s \in Slots(K), KnownAt(K, s) PROVE K'[s[1]][s[2]] = K[s[1]][s[2]]
    OBVIOUS
  <2>1. s[1] \in Sides /\ s[2] \in DOMAIN K[s[1]]
    BY SlotSides
  <2> QED BY <1>2, <2>1 DEF Grows, KnownAt
<1>3. ASSUME Inv, Next PROVE x' = x /\ Grows(K, K')
  <2>1. ASSUME NEW s \in Slots(K), ~ KnownAt(K, s), NEW v
        PROVE  Grows(K, put(K, s[1], s[2], v))
    <3>1. s[1] \in Sides /\ ~ Known(K[s[1]][s[2]])
      BY <2>1, SlotSides DEF KnownAt
    <3> QED BY <1>3, <3>1, PutGrows
  <2>2. CASE \E s \in Slots(K) : Learn(s)
    BY <2>1, <2>2 DEF Learn
  <2>3. CASE \E s \in Slots(K) : \E v \in Wrong(Truth(x, K, s)) : Suppose(s, v)
    BY <2>1, <2>3 DEF Suppose
  <2>4. CASE Resolve
    BY <1>3, <2>4, NoPairs, ResolverGrows DEF Resolve, NoPairs
  <2> QED BY <1>3, <2>2, <2>3, <2>4 DEF Next
<1>4. Inv /\ [Next]_vars => Inv' /\ [A]_vars
  <2>1. CASE Next
    BY <1>2, <1>3, <2>1 DEF Grows
  <2>2. CASE UNCHANGED vars
    BY <2>2 DEF vars, Knowledge
  <2> QED BY <2>1, <2>2
<1> QED BY <1>1, <1>4, PTL DEF Spec, Keeps

(* inc and dec count a register up and down, and can be undone.            *)
LEMMA GoodInc ==
  ASSUME NEW i \in Instances, i.op \in {"inc", "dec"}, Supported(i) PROVE Good(i)
<1> DEFINE a == i.dst
           s == Size(a)
<1>1. inst_handler(i) = <<Define(a), Use(a)>> /\ a.t = "reg"
  <2>1. inst_handler(i) = inc_handler(i)
    BY DEF inst_handler, VectorNames, JccNames, NotHandled, dec_handler
  <2>2. Handled(i)
    BY DEF Supported
  <2> QED BY <2>1, <2>2, NotAsserted DEF inc_handler
<1>2. Complete(inst_handler(i), <<Define(a)>>, <<Use(a)>>)
  BY <1>1, Patterns
<1>3. s \in Nat
  <2>1. Size(a) \in {1, 2, 4, 8}
    BY <1>2, Single
  <2> QED BY <2>1
<1>4. <<1>> \in Bytes(1)
  BY OperandsAssumption DEF Bytes, Byte
<1>5. \A v \in Bytes(s) : /\ AddVal(v, <<1>>) \in Bytes(s) /\ SubVal(v, <<1>>) \in Bytes(s)
                          /\ SubVal(AddVal(v, <<1>>), <<1>>) = v
                             /\ AddVal(SubVal(v, <<1>>), <<1>>) = v
  BY <1>3, <1>4, SumsUndone
<1>6. Before(i, a) \in Bytes(s)
  BY <1>2, Single
<1> DEFINE P == [v \in Bytes(s) |-> AddVal(v, <<1>>)]
           Q == [v \in Bytes(s) |-> SubVal(v, <<1>>)]
<1>7. CASE i.op = "inc"
  <2>1. Effect(i) = Arithmetic(i)
    BY <1>7 DEF Effect, ArithmeticNames, LogicNames, MoveNames, StringNames
  <2>a. Arithmetic(i) = (a.place := AddVal(Before(i, a), <<1>>))
    BY <1>7 DEF Arithmetic
  <2>2. After(i, a) = AddVal(Before(i, a), <<1>>) /\ Only(i, a)
    BY <2>1, <2>a, Writes
  <2>3. \A L : inst_resolver(i, L) =
               both_ways(L, 1, 1, AddVal(L.val[1], <<1>>), SubVal(L.aft[1], <<1>>))
    BY <1>7 DEF inst_resolver, VectorNames, inc_resolver
  <2>4. \A L : Live(i, L) => \E forward, back :
           /\ inst_resolver(i, L) = both_ways(L, 1, 1, forward, back)
           /\ L.val[1] \in Bytes(s) => forward = P[L.val[1]]
           /\ L.aft[1] \in Bytes(s) => back = Q[L.aft[1]]
    BY <2>3
  <2>5. /\ \A v \in Bytes(s) : P[v] \in Bytes(s) /\ Q[v] \in Bytes(s) /\ Q[P[v]] = v
        /\ P = [v \in Bytes(s) |-> P[v]] /\ Q = [v \in Bytes(s) |-> Q[v]]
           /\ After(i, a) = P[Before(i, a)]
    BY <1>5, <1>6, <2>2
  <2> HIDE DEF P, Q
  <2>7. SelfMade(i, a, P, Q)
    BY <2>4, <2>5 DEF SelfMade
  <2> QED BY <1>2, <1>7, <2>2, <2>7, OneSelf
<1>8. CASE i.op = "dec"
  <2>1. Effect(i) = Arithmetic(i)
    BY <1>8 DEF Effect, ArithmeticNames, LogicNames, MoveNames, StringNames
  <2>a. Arithmetic(i) = (a.place := SubVal(Before(i, a), <<1>>))
    BY <1>8 DEF Arithmetic
  <2>2. After(i, a) = SubVal(Before(i, a), <<1>>) /\ Only(i, a)
    BY <2>1, <2>a, Writes
  <2>3. \A L : inst_resolver(i, L) =
               both_ways(L, 1, 1, SubVal(L.val[1], <<1>>), AddVal(L.aft[1], <<1>>))
    BY <1>8 DEF inst_resolver, VectorNames, dec_resolver
  <2>4. \A L : Live(i, L) => \E forward, back :
           /\ inst_resolver(i, L) = both_ways(L, 1, 1, forward, back)
           /\ L.val[1] \in Bytes(s) => forward = Q[L.val[1]]
           /\ L.aft[1] \in Bytes(s) => back = P[L.aft[1]]
    BY <2>3
  <2>5. /\ \A v \in Bytes(s) : P[v] \in Bytes(s) /\ Q[v] \in Bytes(s) /\ P[Q[v]] = v
        /\ P = [v \in Bytes(s) |-> P[v]] /\ Q = [v \in Bytes(s) |-> Q[v]]
           /\ After(i, a) = Q[Before(i, a)]
    BY <1>5, <1>6, <2>2
  <2> HIDE DEF P, Q
  <2>7. SelfMade(i, a, Q, P)
    BY <2>4, <2>5 DEF SelfMade
  <2> QED BY <1>2, <1>8, <2>2, <2>7, OneSelf
<1> QED BY <1>7, <1>8

(* not, neg and bswap undo themselves.                                     *)
LEMMA GoodNot ==
  ASSUME NEW i \in Instances, i.op \in {"not", "neg", "bswap"}, Supported(i) PROVE Good(i)
<1> DEFINE a == i.dst
           s == Size(a)
<1>0. Handled(i)
  BY DEF Supported
<1>2. Complete(inst_handler(i), <<Define(a)>>, <<Use(a)>>)
  <2>1. CASE i.op = "not"
    <3>1. inst_handler(i) = DefineAt(a) \o UseAt(a)
      BY <2>1 DEF inst_handler, VectorNames, JccNames, NotHandled, not_handler
    <3> QED BY <3>1, Patterns
  <2>2. CASE i.op \in {"neg", "bswap"}
    <3>1. inst_handler(i) = IF a.t = "reg" THEN <<Define(a), Use(a)>> ELSE Unsupported
      BY <2>2 DEF inst_handler, VectorNames, JccNames, NotHandled, neg_handler, xchg_handler,
              bswap_handler
    <3>2. a.t = "reg" /\ inst_handler(i) = <<Define(a), Use(a)>>
      BY <1>0, <3>1, NotAsserted
    <3> QED BY <3>2, Patterns
  <2> QED BY <2>1, <2>2
<1>3. s \in Nat /\ Before(i, a) \in Bytes(s) /\ \A L : Live(i, L) => L.dst[1] = a
  <2>1. /\ Size(a) \in {1, 2, 4, 8} /\ Before(i, a) \in Bytes(Size(a))
        /\ \A L : Live(i, L) => L.dst[1] = a
    BY <1>2, Single
  <2> QED BY <2>1
<1> DEFINE P == [v \in Bytes(s) |-> NotVal(v)]
           Q == [v \in Bytes(s) |-> NegVal(v)]
           R1 == [v \in Bytes(s) |-> Reverse(v)]
<1>4. CASE i.op = "not"
  <2>2. After(i, a) = NotVal(Before(i, a)) /\ Only(i, a)
    <3>1. Effect(i) = Logic(i)
      BY <1>4 DEF Effect, ArithmeticNames, LogicNames, MoveNames, StringNames
    <3>a. Logic(i) = (a.place := NotVal(Before(i, a)))
      BY <1>4 DEF Logic
    <3> QED BY <3>1, <3>a, Writes
  <2>3. \A L : inst_resolver(i, L) = both_ways(L, 1, 1, NotVal(L.val[1]), NotVal(L.aft[1]))
    BY <1>4 DEF inst_resolver, VectorNames, not_resolver
  <2>4. \A L : Live(i, L) => \E forward, back :
           /\ inst_resolver(i, L) = both_ways(L, 1, 1, forward, back)
           /\ L.val[1] \in Bytes(s) => forward = P[L.val[1]]
           /\ L.aft[1] \in Bytes(s) => back = P[L.aft[1]]
    BY <2>3
  <2>6. \A v \in Bytes(s) : NotVal(v) \in Bytes(s) /\ NotVal(NotVal(v)) = v
    BY <1>3, Negations
  <2>5. /\ \A v \in Bytes(s) : P[v] \in Bytes(s) /\ P[P[v]] = v
        /\ P = [v \in Bytes(s) |-> P[v]] /\ After(i, a) = P[Before(i, a)]
    BY <1>3, <2>2, <2>6
  <2> HIDE DEF P
  <2>7. SelfMade(i, a, P, P)
    BY <2>4, <2>5 DEF SelfMade
  <2> QED BY <1>2, <1>4, <2>2, <2>7, OneSelf
<1>5. CASE i.op = "neg"
  <2>2. After(i, a) = NegVal(Before(i, a)) /\ Only(i, a)
    <3>1. Effect(i) = Logic(i)
      BY <1>5 DEF Effect, ArithmeticNames, LogicNames, MoveNames, StringNames
    <3>a. Logic(i) = (a.place := NegVal(Before(i, a)))
      BY <1>5 DEF Logic
    <3> QED BY <3>1, <3>a, Writes
  <2>3. \A L : inst_resolver(i, L) = both_ways(L, 1, 1, NegVal(L.val[1]), NegVal(L.aft[1]))
    BY <1>5 DEF inst_resolver, VectorNames, neg_resolver
  <2>4. \A L : Live(i, L) => \E forward, back :
           /\ inst_resolver(i, L) = both_ways(L, 1, 1, forward, back)
           /\ L.val[1] \in Bytes(s) => forward = Q[L.val[1]]
           /\ L.aft[1] \in Bytes(s) => back = Q[L.aft[1]]
    BY <2>3
  <2>6. \A v \in Bytes(s) : NegVal(v) \in Bytes(s) /\ NegVal(NegVal(v)) = v
    BY <1>3, Negations
  <2>5. /\ \A v \in Bytes(s) : Q[v] \in Bytes(s) /\ Q[Q[v]] = v
        /\ Q = [v \in Bytes(s) |-> Q[v]] /\ After(i, a) = Q[Before(i, a)]
    BY <1>3, <2>2, <2>6
  <2> HIDE DEF Q
  <2>7. SelfMade(i, a, Q, Q)
    BY <2>4, <2>5 DEF SelfMade
  <2> QED BY <1>2, <1>5, <2>2, <2>7, OneSelf
<1>6. CASE i.op = "bswap"
  <2>1. a.dt = "dword"
    BY <1>6 DEF Supported, JccNames
  <2>2. After(i, a) = Reverse(Before(i, a)) /\ Only(i, a)
    <3>1. Effect(i) = Move(i)
      BY <1>6 DEF Effect, ArithmeticNames, LogicNames, MoveNames, StringNames
    <3>a. Move(i) = (a.place := Reverse(Before(i, a)))
      BY <1>6 DEF Move
    <3> QED BY <3>1, <3>a, Writes
  <2>3. \A L : Live(i, L) =>
          inst_resolver(i, L) = both_ways(L, 1, 1, Reverse(L.val[1]), Reverse(L.aft[1]))
    <3>1. \A L : inst_resolver(i, L) = bswap_resolver(i, L)
      BY <1>6 DEF inst_resolver, VectorNames, xchg_resolver, process_other_xchg_inst
    <3> QED BY <1>3, <2>1, <3>1 DEF bswap_resolver, REVERSE_UINT
  <2>4. \A L : Live(i, L) => \E forward, back :
           /\ inst_resolver(i, L) = both_ways(L, 1, 1, forward, back)
           /\ L.val[1] \in Bytes(s) => forward = R1[L.val[1]]
           /\ L.aft[1] \in Bytes(s) => back = R1[L.aft[1]]
    BY <2>3
  <2>6. \A v \in Bytes(s) : Reverse(v) \in Bytes(s) /\ Reverse(Reverse(v)) = v
    BY <1>3, Vectorwise
  <2>5. /\ \A v \in Bytes(s) : R1[v] \in Bytes(s) /\ R1[R1[v]] = v
        /\ R1 = [v \in Bytes(s) |-> R1[v]] /\ After(i, a) = R1[Before(i, a)]
    BY <1>3, <2>2, <2>6
  <2> HIDE DEF R1
  <2>7. SelfMade(i, a, R1, R1)
    BY <2>4, <2>5 DEF SelfMade
  <2> QED BY <1>2, <1>6, <2>2, <2>7, OneSelf
<1> QED BY <1>4, <1>5, <1>6

(***************************************************************************)
(* mov, movzx and movsx: a copy, wider or not.                             *)
(***************************************************************************)
LEMMA GoodMov ==
  ASSUME NEW i \in Instances, i.op \in {"mov", "movzx", "movsx"}, Supported(i) PROVE Good(i)
<1> DEFINE a == i.dst
           b == i.src
           m == Size(a)
           n == Size(b)
           v0 == Before(i, b)
<1>0. Handled(i)
  BY DEF Supported
<1>1. Complete(inst_handler(i), <<Define(a)>>, <<Use(b)>>)
  <2>1. inst_handler(i) = Accept(i, {RR, RM, MR, MI, RI}, DefineAt(a) \o UseAt(b))
    BY DEF inst_handler, VectorNames, JccNames, NotHandled, mov_handler
  <2>2. inst_handler(i) = DefineAt(a) \o UseAt(b)
    BY <1>0, <2>1, Accepted
  <2> QED BY <2>2, Patterns
<1>2. /\ m \in Nat \ {0} /\ a.dt \in Range(Datatypes)
      /\ \A L : Live(i, L) => Ready(L) /\ L.dst[1] = a /\ DOMAIN L.aft = {1}
  <2>1. /\ Valid(i, a) /\ Size(a) \in {1, 2, 4, 8}
        /\ \A L : Live(i, L) => Ready(L) /\ L.dst[1] = a /\ DOMAIN L.aft = {1}
    BY <1>1, Single
  <2> QED BY <2>1 DEF Valid
<1>3. /\ n \in Nat \ {0} /\ b.dt \in Range(Datatypes) /\ v0 \in Bytes(n)
      /\ \A L : Live(i, L) => L.src[1] = b /\ (Known(L.val[1]) => L.val[1] \in Bytes(n))
  <2>1. 1 \in DOMAIN <<Use(b)>> /\ <<Use(b)>>[1] = Use(b)
    OBVIOUS
  <2>2. /\ Valid(i, b) /\ Size(b) \in {1, 2, 4, 8} /\ Before(i, b) \in Bytes(Size(b))
        /\ \A L : Live(i, L) => L.src[1] = b /\ (Known(L.val[1]) => L.val[1] \in Bytes(Size(b)))
    BY <1>1, <2>1, UseOf
  <2> QED BY <2>2 DEF Valid
<1>4. m >= n
  <2>1. CASE i.op = "mov"
    <3>1. a.dt = b.dt
      BY <2>1 DEF Supported, JccNames, SameSize
    <3> QED BY <1>2, <3>1 DEF Size
  <2>2. CASE i.op \in {"movzx", "movsx"}
    <3>1. Rank(a.dt) > Rank(b.dt)
      BY <2>2 DEF Supported, JccNames
    <3>2. Rank(a.dt) >= Rank(b.dt)
      BY <1>2, <1>3, <3>1, Sizes
    <3> QED BY <1>2, <1>3, <3>2, Sizes DEF Size
  <2> QED BY <2>1, <2>2
<1> DEFINE P == [v \in Bytes(n) |-> IF i.op = "mov" THEN v ELSE IF i.op = "movzx" THEN Fit(v, m)
                                    ELSE sign_extend_valset(v, m)]
           Q == [w \in Bytes(m) |-> Fit(w, n)]
<1>5. i.op = "mov" => m = n
  BY DEF Supported, JccNames, SameSize, Size
<1>6. /\ \A v \in Bytes(n) : P[v] \in Bytes(m) /\ Q[P[v]] = v /\ Fit(P[v], m) = P[v]
      /\ P \in [Bytes(n) -> Bytes(m)] /\ Q \in [Bytes(m) -> Bytes(n)]
  <2>1. \A v \in Bytes(n) : /\ Fit(v, m) \in Bytes(m) /\ sign_extend_valset(v, m) \in Bytes(m)
                            /\ Fit(Fit(v, m), n) = v /\ Fit(sign_extend_valset(v, m), n) = v
    <3>1. \A v \in Bytes(n) : /\ Fit(v, m) \in Bytes(m) /\ sign_extend_valset(v, m) \in Bytes(m)
                              /\ n <= m => /\ Fit(Fit(v, m), n) = v
                                           /\ Fit(sign_extend_valset(v, m), n) = v
      BY <1>2, <1>3, Fits
    <3>2. n <= m
      BY <1>2, <1>3, <1>4
    <3> QED BY <3>1, <3>2
  <2>2. \A v \in Bytes(n) : Fit(v, n) = v
    BY <1>3, BytesKnown
  <2>3. \A v \in Bytes(m) : Fit(v, m) = v /\ Fit(v, n) \in Bytes(n)
    BY <1>2, <1>3, Fits
  <2>4. \A v \in Bytes(n) : P[v] \in Bytes(m) /\ Fit(P[v], n) = v
    BY <1>5, <2>1, <2>2
  <2>5. \A v \in Bytes(n) : Q[P[v]] = v /\ Fit(P[v], m) = P[v]
    <3> HIDE DEF P
    <3> QED BY <2>3, <2>4
  <2>6. P \in [Bytes(n) -> Bytes(m)] /\ Q \in [Bytes(m) -> Bytes(n)]
    BY <2>3, <2>4
  <2> QED BY <2>4, <2>5, <2>6
<1>w. \A w : Effect(i) = (a.place := w) => After(i, a) = w /\ Only(i, a)
  <2> HIDE DEF a
  <2> QED BY Writes
<1>7. After(i, a) = P[v0] /\ Only(i, a)
  <2>1. CASE i.op = "mov"
    <3>1. Effect(i) = Move(i)
      BY <2>1 DEF Effect, ArithmeticNames, LogicNames, MoveNames, StringNames
    <3>2. Move(i) = (a.place := v0)
      BY <2>1 DEF Move
    <3> QED BY <1>3, <1>w, <2>1, <3>1, <3>2
  <2>2. CASE i.op = "movzx"
    <3>1. Effect(i) = Move(i)
      BY <2>2 DEF Effect, ArithmeticNames, LogicNames, MoveNames, StringNames
    <3>2. Move(i) = (a.place := clean_valset(v0, m, FALSE))
      BY <2>2 DEF Move
    <3>3. clean_valset(v0, m, FALSE) = Fit(v0, m)
      BY <1>2, <1>3, Fits
    <3>4. After(i, a) = Fit(v0, m) /\ Only(i, a)
      BY <1>w, <3>1, <3>2, <3>3
    <3> QED BY <1>3, <2>2, <3>4
  <2>3. CASE i.op = "movsx"
    <3>1. Effect(i) = Move(i)
      BY <2>3 DEF Effect, ArithmeticNames, LogicNames, MoveNames, StringNames
    <3>2. Move(i) = (a.place := sign_extend_valset(v0, m))
      BY <2>3 DEF Move, SourceValue
    <3>3. After(i, a) = sign_extend_valset(v0, m) /\ Only(i, a)
      BY <1>w, <3>1, <3>2
    <3> QED BY <1>3, <2>3, <3>3
  <2> QED BY <2>1, <2>2, <2>3
<1>8. ASSUME NEW L, Live(i, L) PROVE TiedBy(i, L, P, Q, n, m)
  <2>1. L.dst[1] = a /\ L.src[1] = b /\ Ready(L) /\ 1 \in DOMAIN L.aft
    BY <1>2, <1>3, <1>8
  <2>2. Known(L.val[1]) => L.val[1] \in Bytes(n)
    BY <1>3, <1>8
  <2>3. Known(L.aft[1]) => L.aft[1] \in Bytes(m)
    BY <2>1 DEF Ready, Sized
  <2> DEFINE forward == IF i.op = "mov" THEN L.val[1] ELSE IF i.op = "movzx"
                        THEN clean_valset(L.val[1], m, FALSE) ELSE sign_extend_valset(L.val[1], m)
  <2>4. inst_resolver(i, L) = both_ways(L, 1, 1, forward, L.aft[1])
    <3>1. inst_resolver(i, L) = mov_resolver(i, L)
      BY DEF inst_resolver, VectorNames
    <3>2. CASE i.op = "mov"
      BY <3>1, <3>2 DEF mov_resolver, copies
    <3>3. CASE i.op \in {"movzx", "movsx"}
      <4>1. ~ (Rank(a.dt) <= Rank(b.dt))
        <5>1. Rank(a.dt) > Rank(b.dt)
          BY <3>3 DEF Supported, JccNames
        <5> QED BY <1>2, <1>3, <5>1, Sizes
      <4>2. \A f : widened(L, f) = both_ways(L, 1, 1, f, L.aft[1])
        BY <2>1, <4>1 DEF widened
      <4>3. mov_resolver(i, L) = process_other_mov_inst(i, L)
        BY <3>3 DEF mov_resolver
      <4>4. process_other_mov_inst(i, L) = widened(L, forward)
        BY <2>1, <3>3 DEF process_other_mov_inst, movzx_resolver, movsx_resolver
      <4> HIDE DEF forward
      <4> QED BY <3>1, <4>2, <4>3, <4>4
    <3> QED BY <3>2, <3>3
  <2>5. Known(L.val[1]) => forward = P[L.val[1]]
    <3>1. \A v \in Bytes(n) : clean_valset(v, m, FALSE) = Fit(v, m)
      BY <1>2, <1>3, Fits
    <3> QED BY <2>2, <3>1
  <2>6. Known(L.val[1]) => Fit(forward, m) = P[L.val[1]]
    <3> HIDE DEF P, forward
    <3> QED BY <1>6, <2>2, <2>5
  <2>7. Known(L.aft[1]) => Fit(L.aft[1], n) = Q[L.aft[1]]
    BY <2>3
  <2> HIDE DEF P, Q, forward
  <2> QED BY <2>4, <2>6, <2>7 DEF TiedBy
<1> HIDE DEF P, Q
<1>9. Tied(i, a, b, P, Q)
  BY <1>6, <1>7, <1>8 DEF Tied
<1> QED BY <1>1, <1>7, <1>9, OneTie

(***************************************************************************)
(* and, or, shifts and the vector instructions.                            *)
(***************************************************************************)
(* A byte is below Radix, and so is nothing. *)
LEMMA OneByte ==
  ASSUME NEW v, v \in Bytes(1) \/ v = <<>>
  PROVE  ~ (ToNum(v) >= Radix) /\ (v \in Bytes(1) => v[1] \in Nat)
<1>0. Radix \in Nat \ {0}
  BY OperandsAssumption
<1>1. \A u : u \in [1 .. 0 -> Int] => ToNum(u) = 0
  BY <1>0, NumberStep DEF ToNum
<1>2. CASE v = <<>>
  <2>1. v \in [1 .. 0 -> Int]
    BY <1>2
  <2>2. v \notin Bytes(1)
    BY <1>2 DEF Bytes
  <2>3. ToNum(v) = 0
    BY <1>1, <2>1
  <2> QED BY <1>0, <2>2, <2>3
<1>3. CASE v \in Bytes(1)
  <2>1. v \in [1 .. 1 -> Int] /\ v[1] \in 0 .. Radix - 1
    BY <1>0, <1>3 DEF Bytes, Byte
  <2> DEFINE u == [i \in 1 .. 1 - 1 |-> v[i + 1]]
  <2>2. ToNum(v) = v[1] + Radix * Number(u, Radix)
    <3>1. 1 > 0 => Number(v, Radix) = v[1] + Radix * Number([i \in 1 .. 1 - 1 |-> v[i + 1]], Radix)
      BY <1>0, <2>1, NumberStep
    <3> QED BY <3>1 DEF ToNum
  <2>3. Number(u, Radix) = 0
    <3>1. u \in [1 .. 0 -> Int]
      OBVIOUS
    <3> HIDE DEF u
    <3> QED BY <1>1, <3>1 DEF ToNum
  <2> HIDE DEF u
  <2> QED BY <1>0, <2>1, <2>2, <2>3
<1> QED BY <1>2, <1>3

(* The values of a result of two operands, as a function of them. *)
LEMMA GoodAnd ==
  ASSUME NEW i \in Instances, i.op = "and", Supported(i) PROVE Good(i)
<1> DEFINE a == i.dst
           b == i.src
           m == Size(a)
           G == [p \in Bytes(m) \X Bytes(Size(b)) |->
                   Bytewise(AndByte, p[1], sign_extend_valset(p[2], m))]
<1>0. Handled(i) /\ b.dt \in Small
  BY DEF Supported, JccNames
<1>1. TwoUses(i, a, b)
  <2>1. inst_handler(i) = Accept(i, {RI, MI, RR, RM}, DstSrc(i))
    BY DEF inst_handler, VectorNames, JccNames, NotHandled, and_handler
  <2> QED BY <1>0, <2>1, DstSrcUses
<1>2. /\ m \in Nat /\ Size(b) \in Nat /\ Before(i, a) \in Bytes(m)
         /\ Before(i, b) \in Bytes(Size(b))
  BY <1>1 DEF TwoUses, TwoRead
<1>3. \A v \in Bytes(m), w \in Bytes(Size(b)) : Bytewise(AndByte, v,
                                                sign_extend_valset(w, m)) \in Bytes(m)
  BY <1>2, Fits, Vectorwise
<1>4. After(i, a) = Bytewise(AndByte, Before(i, a), sign_extend_valset(Before(i, b), m))
      /\ Only(i, a)
  <2>1. Effect(i) = Logic(i)
    BY DEF Effect, ArithmeticNames, LogicNames, MoveNames, StringNames
  <2>2. Logic(i) = (a.place := Bytewise(AndByte, Before(i, a), sign_extend_valset(Before(i, b), m)))
    BY DEF Logic, SourceValue
  <2> QED BY <2>1, <2>2, Writes
<1>5. ASSUME NEW L, Live(i, L)
      PROVE  /\ Known(L.val[1]) /\ Known(L.val[2]) =>
                inst_resolver(i, L) =
                  tell(L, "aft", 1, Bytewise(AndByte, L.val[1], sign_extend_valset(L.val[2], m)))
             /\ ~ Known(L.val[1]) \/ ~ Known(L.val[2]) => inst_resolver(i, L) = L
  <2>1. L.src[1] = a /\ L.src[2] = b
    BY <1>1, <1>5 DEF TwoUses, TwoRead
  <2>2. inst_resolver(i, L) = and_resolver(i, L)
    BY DEF inst_resolver, VectorNames
  <2> QED BY <1>0, <2>1, <2>2 DEF and_resolver, sees, if_datatype
<1>6. TwoFrom(i, a, b, G)
  <2>1. \A v \in Bytes(m), w \in Bytes(Size(b)) :
          G[<<v, w>>] = Bytewise(AndByte, v, sign_extend_valset(w, m))
    OBVIOUS
  <2> HIDE DEF G
  <2>2. \A v : v \in Bytes(m) \cup Bytes(Size(b)) => Known(v)
    BY <1>1, BytesKnown DEF TwoUses, TwoRead
  <2> QED BY <1>2, <1>3, <1>4, <1>5, <2>1, <2>2 DEF TwoFrom
<1> QED BY <1>1, <1>4, <1>6, Computed2

(* The vector instructions, and or: operands of one size. *)
VectorOps == {"or", "por", "pcmpeqb", "pcmpgtb", "pmaxub", "pminub", "punpcklbw"}
VectorOp(i, v, w) ==
  CASE i.op \in {"or", "por"} -> Bytewise(OrByte, v, w)
    [] i.op = "pcmpeqb"       -> Bytewise(EqualByte, v, w)
    [] i.op = "pcmpgtb"       -> Bytewise(GreaterByte, v, w)
    [] i.op = "pmaxub"        -> Bytewise(MaxByte, v, w)
    [] i.op = "pminub"        -> Bytewise(MinByte, v, w)
    [] i.op = "punpcklbw"     -> Interleaved(v, w)
(* The byte by byte operations on vectors, and or, are computed forward.   *)
LEMMA GoodVector ==
  ASSUME NEW i \in Instances, i.op \in VectorOps, Supported(i) PROVE Good(i)
<1> DEFINE a == i.dst
           b == i.src
           m == Size(a)
           G == [p \in Bytes(m) \X Bytes(m) |-> VectorOp(i, p[1], p[2])]
<1>0. Handled(i) /\ a.dt = b.dt /\ (i.op = "pminub" => Form(i) = RR) /\ Size(b) = m
  BY DEF Supported, JccNames, VectorOps, SameSize, Size
<1>1. TwoUses(i, a, b)
  <2>1. \E forms : inst_handler(i) = Accept(i, forms, DstSrc(i))
    <3>1. i.op \in {"or", "por"} => inst_handler(i) = Accept(i, {RR, RM, RI, MR, MI}, DstSrc(i))
      BY DEF inst_handler, unknown_handler, VectorNames, JccNames, NotHandled, or_handler
    <3>2. i.op \in {"pcmpeqb", "pcmpgtb", "pmaxub"}
          => inst_handler(i) = Accept(i, {RR, RM}, DstSrc(i))
      BY DEF inst_handler, unknown_handler, VectorNames, JccNames, NotHandled, pcmpeqb_handler,
             pcmpgtb_handler, pmaxub_handler
    <3>3. i.op = "punpcklbw" => inst_handler(i) = Accept(i, {RR}, DstSrc(i))
      BY DEF inst_handler, unknown_handler, VectorNames, JccNames, NotHandled, punpcklbw_handler
    <3>4. i.op = "pminub" => inst_handler(i) = Accept(i, {RR}, DstSrc(i))
      BY <1>0 DEF inst_handler, unknown_handler, VectorNames, JccNames, NotHandled,
              pminub_handler, RR, RM
    <3> QED BY <3>1, <3>2, <3>3, <3>4 DEF VectorOps
  <2> QED BY <1>0, <2>1, DstSrcUses
<1>2. m \in Nat \ {0} /\ Before(i, a) \in Bytes(m) /\ Before(i, b) \in Bytes(m)
  BY <1>0, <1>1 DEF TwoUses, TwoRead
<1>3. \A v, w \in Bytes(m) : VectorOp(i, v, w) \in Bytes(m)
  <2> SUFFICES ASSUME NEW v \in Bytes(m), NEW w \in Bytes(m) PROVE VectorOp(i, v, w) \in Bytes(m)
    OBVIOUS
  <2>1. /\ Bytewise(OrByte, v, w) \in Bytes(m)
        /\ Bytewise(EqualByte, v, w) \in Bytes(m) /\ Bytewise(GreaterByte, v, w) \in Bytes(m)
        /\ Bytewise(MaxByte, v, w) \in Bytes(m) /\ Bytewise(MinByte, v, w) \in Bytes(m)
        /\ Interleaved(v, w) \in Bytes(m)
    BY <1>2, Vectorwise
  <2> QED BY <2>1 DEF VectorOp, VectorOps
<1>4. After(i, a) = VectorOp(i, Before(i, a), Before(i, b)) /\ Only(i, a)
  <2>1. Effect(i) = Logic(i)
    BY DEF Effect, ArithmeticNames, LogicNames, MoveNames, StringNames, VectorOps
  <2>2. SourceValue(i) = Before(i, b)
    BY <1>0, <1>2, Fits DEF SourceValue
  <2>3. Logic(i) = (a.place := VectorOp(i, Before(i, a), Before(i, b)))
    BY <2>2 DEF Logic, VectorOps, VectorOp
  <2> QED BY <2>1, <2>3, Writes
<1>5. ASSUME NEW L, Live(i, L)
      PROVE  /\ L.val[1] \in Bytes(m) /\ L.val[2] \in Bytes(m) =>
                inst_resolver(i, L) = tell(L, "aft", 1, VectorOp(i, L.val[1], L.val[2]))
             /\ ~ Known(L.val[1]) \/ ~ Known(L.val[2]) => inst_resolver(i, L) = L
  <2>1. L.src[1] = a /\ L.src[2] = b
    BY <1>1, <1>5 DEF TwoUses, TwoRead
  <2>2. \A f : /\ Known(L.val[1]) /\ Known(L.val[2]) =>
                     forward_only(L, {1, 2}, 1, f) = tell(L, "aft", 1, f)
               /\ ~ Known(L.val[1]) \/ ~ Known(L.val[2]) => forward_only(L, {1, 2}, 1, f) = L
    BY DEF forward_only, sees
  <2>3. \A w \in Bytes(m) : Known(w) /\ Fit(w, m) = w
    BY <1>2, BytesKnown
  <2>4. CASE i.op \in {"or", "por"}
    <3>1. inst_resolver(i, L) =
          forward_only(L, {1, 2}, 1, Bytewise(OrByte, L.val[1], Fit(L.val[2], m)))
      BY <2>1, <2>4 DEF inst_resolver, unknown_resolver, VectorNames, or_resolver
    <3>2. VectorOp(i, L.val[1], L.val[2]) = Bytewise(OrByte, L.val[1], L.val[2])
      BY <2>4 DEF VectorOp
    <3> QED BY <2>2, <2>3, <3>1, <3>2
  <2>5. CASE i.op \notin {"or", "por"}
    <3>1. inst_resolver(i, L) = forward_only(L, {1, 2}, 1, VectorOp(i, L.val[1], L.val[2]))
      BY <2>5 DEF inst_resolver, unknown_resolver, VectorNames, VectorOps, VectorOp,
              pcmpeqb_resolver,
                  pcmpgtb_resolver, pmaxub_resolver, pminub_resolver, punpcklbw_resolver
    <3> QED BY <2>2, <2>3, <3>1
  <2> QED BY <2>4, <2>5
<1>6. TwoFrom(i, a, b, G)
  <2>1. \A v, w \in Bytes(m) : G[<<v, w>>] = VectorOp(i, v, w)
    OBVIOUS
  <2> HIDE DEF G
  <2> QED BY <1>0, <1>2, <1>3, <1>4, <1>5, <2>1 DEF TwoFrom
<1> QED BY <1>1, <1>4, <1>6, Computed2

(* Shifts, by a count of one byte. *)
LEMMA GoodShift ==
  ASSUME NEW i \in Instances, i.op \in {"shl", "shr"}, Supported(i) PROVE Good(i)
<1> DEFINE a == i.dst
           b == i.src
           m == Size(a)
           to(v, c) == IF i.op = "shl" THEN ShiftLeft(v, c) ELSE ShiftRight(v, c)
           G == [p \in Bytes(m) \X Bytes(1) |-> to(p[1], p[2][1])]
<1>0. Handled(i) /\ b.dt = "byte" /\ Size(b) = 1
  BY Sizes DEF Supported, JccNames, Size
<1>1. TwoUses(i, a, b)
  <2>1. inst_handler(i) = Accept(i, {MI, RI, RR}, DstSrc(i))
    BY DEF inst_handler, VectorNames, JccNames, NotHandled, shl_handler, shr_handler
  <2> QED BY <1>0, <2>1, DstSrcUses
<1>2. m \in Nat \ {0} /\ Before(i, a) \in Bytes(m) /\ Before(i, b) \in Bytes(1)
  BY <1>0, <1>1 DEF TwoUses, TwoRead
<1>3. \A v \in Bytes(m), w \in Bytes(1) : to(v, w[1]) \in Bytes(m)
  <2>1. \A w \in Bytes(1) : w[1] \in Nat
    BY OneByte
  <2>2. \A v \in Bytes(m), c \in Nat : ShiftLeft(v, c) \in Bytes(m) /\ ShiftRight(v, c) \in Bytes(m)
    BY <1>2, Shifted
  <2> QED BY <2>1, <2>2
<1>4. After(i, a) = to(Before(i, a), Before(i, b)[1]) /\ Only(i, a)
  <2>1. Effect(i) = Arithmetic(i)
    BY DEF Effect, ArithmeticNames, LogicNames, MoveNames, StringNames
  <2>2. Arithmetic(i) = (a.place := to(Before(i, a), Before(i, b)[1]))
    BY DEF Arithmetic
  <2> HIDE DEF to
  <2> QED BY <2>1, <2>2, Writes
<1>5. ASSUME NEW L, Live(i, L)
      PROVE  /\ L.val[1] \in Bytes(m) /\ L.val[2] \in Bytes(1) =>
                inst_resolver(i, L) = tell(L, "aft", 1, to(L.val[1], L.val[2][1]))
             /\ ~ Known(L.val[1]) \/ ~ Known(L.val[2]) => inst_resolver(i, L) = L
  <2>1. L.src[1] = a /\ L.src[2] = b /\ (Known(L.val[2]) => L.val[2] \in Bytes(1))
    BY <1>0, <1>1, <1>5 DEF TwoUses, TwoRead
  <2>2. \A f : /\ Known(L.val[1]) /\ Known(L.val[2]) =>
                     forward_only(L, {1, 2}, 1, f) = tell(L, "aft", 1, f)
               /\ ~ Known(L.val[1]) \/ ~ Known(L.val[2]) => forward_only(L, {1, 2}, 1, f) = L
    BY DEF forward_only, sees
  <2>3. \A n \in {1, m} : \A w \in Bytes(n) : Known(w)
    BY <1>2, BytesKnown
  <2>4. ~ (ToNum(L.val[2]) >= Radix)
    BY <2>1, OneByte DEF Known
  <2>5. inst_resolver(i, L) = forward_only(L, {1, 2}, 1, to(L.val[1], L.val[2][1]))
    <3>1. CASE i.op = "shl"
      BY <1>0, <2>1, <3>1 DEF inst_resolver, VectorNames, shl_resolver
    <3>2. CASE i.op = "shr"
      BY <1>0, <2>1, <2>4, <3>2 DEF inst_resolver, VectorNames, shr_resolver
    <3> QED BY <3>1, <3>2
  <2> HIDE DEF to
  <2> QED BY <2>2, <2>3, <2>5
<1>6. TwoFrom(i, a, b, G)
  <2>1. \A v \in Bytes(m), w \in Bytes(1) : G[<<v, w>>] = to(v, w[1])
    OBVIOUS
  <2> HIDE DEF G, to
  <2> QED BY <1>0, <1>2, <1>3, <1>4, <1>5, <2>1 DEF TwoFrom
<1> QED BY <1>1, <1>4, <1>6, Computed2

(***************************************************************************)
(* Instructions of one source: masks, shuffles, bit scans and cdq.         *)
(***************************************************************************)
(* pmovmskb gathers the signs of the bytes.                                *)
LEMMA GoodMask ==
  ASSUME NEW i \in Instances, i.op = "pmovmskb", Supported(i) PROVE Good(i)
<1> DEFINE a == i.dst
           b == i.src
           n == Size(b)
           G == [v \in Bytes(n) |-> Mask(v)]
<1>0. Handled(i) /\ Size(a) = DW
  BY DEF Supported, JccNames
<1>1. Complete(inst_handler(i), <<Define(a)>>, <<Use(b)>>)
  <2>1. inst_handler(i) = Accept(i, {RR}, <<Define(a), Use(b)>>)
    BY DEF inst_handler, unknown_handler, VectorNames, JccNames, NotHandled, pmovmskb_hanlder
  <2>2. inst_handler(i) = <<Define(a), Use(b)>> /\ Form(i) \in {RR}
    BY <1>0, <2>1, Accepted
  <2>3. a.t # "mem" /\ b.t # "mem"
    BY <2>2 DEF Form, RR
  <2> QED BY <2>2, <2>3, Patterns
<1>2. 1 \in DOMAIN <<Use(b)>> /\ <<Use(b)>>[1] = Use(b)
  OBVIOUS
<1>3. n \in Nat /\ Before(i, b) \in Bytes(n)
  <2>1. Size(b) \in {1, 2, 4, 8} /\ Before(i, b) \in Bytes(Size(b))
    BY <1>1, <1>2, UseOf
  <2> QED BY <2>1
<1>4. \A v \in Bytes(n) : Mask(v) \in Bytes(DW)
  BY <1>3, Masks
<1>5. After(i, a) = Mask(Before(i, b)) /\ Only(i, a)
  <2>1. Effect(i) = Logic(i)
    BY DEF Effect, ArithmeticNames, LogicNames, MoveNames, StringNames
  <2>2. Logic(i) = (a.place := Mask(Before(i, b)))
    BY DEF Logic
  <2> QED BY <2>1, <2>2, Writes
<1>6. \A L : inst_resolver(i, L) = forward_only(L, {1}, 1, Mask(L.val[1]))
  BY DEF inst_resolver, unknown_resolver, VectorNames, pmovmskb_resolver
<1>7. /\ \A v \in Bytes(n) : G[v] \in Bytes(Size(a))
      /\ After(i, a) = G[Before(i, b)]
      /\ \A L : Live(i, L) => \E f : /\ inst_resolver(i, L) = forward_only(L, {1}, 1, f)
                                     /\ L.val[1] \in Bytes(n) => f = G[L.val[1]]
  BY <1>0, <1>3, <1>4, <1>5, <1>6
<1> HIDE DEF G
<1> QED BY <1>1, <1>2, <1>5, <1>7, ComputedFrom

(* pshufd, for the selector 0, repeats the lowest double word.             *)
LEMMA GoodShuffle ==
  ASSUME NEW i \in Instances, i.op = "pshufd", Supported(i) PROVE Good(i)
<1> DEFINE a == i.dst
           b == i.src
           c == i.third
           n == Size(b)
           G == [v \in Bytes(n) |-> FirstDword(v)]
           uses == <<Use(b), Use(c)>>
<1>0. /\ Handled(i) /\ Size(a) = 2 * DW /\ n = 2 * DW /\ c.t = "imm" /\ Before(i, c)[1] = 0
  BY Sizes DEF Supported, JccNames, SameSize, Size
<1>1. Complete(inst_handler(i), <<Define(a)>>, uses)
  <2>1. inst_handler(i) = Accept(i, {RR, RM, MR}, DefineAt(a) \o UseAt(b) \o <<Use(c)>>)
    BY DEF inst_handler, unknown_handler, VectorNames, JccNames, NotHandled, pshufd_handler
  <2>2. inst_handler(i) = (DefineAt(a) \o UseAt(b)) \o <<Use(c)>>
    BY <1>0, <2>1, Accepted
  <2>3. Complete(DefineAt(a) \o UseAt(b), <<Define(a)>>, <<Use(b)>>)
    BY Patterns
  <2>4. Complete((DefineAt(a) \o UseAt(b)) \o <<Use(c)>>, <<Define(a)>>, Append(<<Use(b)>>, Use(c)))
    <3>1. c.t # "mem"
      BY <1>0
    <3> QED BY <2>3, <3>1, ThenUse
  <2>5. Append(<<Use(b)>>, Use(c)) = uses
    BY Tuples
  <2> QED BY <2>2, <2>4, <2>5
<1>2. 1 \in DOMAIN uses /\ uses[1] = Use(b) /\ 2 \in DOMAIN uses /\ uses[2] = Use(c)
  OBVIOUS
<1> HIDE DEF uses
<1>3. Before(i, b) \in Bytes(n)
  BY <1>1, <1>2, UseOf
<1>4. \A v \in Bytes(n) : FirstDword(v) \in Bytes(2 * DW)
  BY <1>0, HalvesOf
<1>5. After(i, a) = FirstDword(Before(i, b)) /\ Only(i, a)
  <2>w. \A w : Effect(i) = (a.place := w) => After(i, a) = w /\ Only(i, a)
    <3> HIDE DEF a
    <3> QED BY Writes
  <2>1. Effect(i) = Logic(i)
    BY DEF Effect, ArithmeticNames, LogicNames, MoveNames, StringNames
  <2>2. Logic(i) = (a.place := FirstDword(Before(i, b)))
    BY DEF Logic
  <2> QED BY <2>1, <2>2, <2>w
<1>6. \A L : Live(i, L) => inst_resolver(i, L) = forward_only(L, {1}, 1, FirstDword(L.val[1]))
  <2>1. \A L : inst_resolver(i, L) = pshufd_resolver(i, L)
    BY DEF inst_resolver, unknown_resolver, VectorNames
  <2>2. \A L : Live(i, L) => L.val[2] = Before(i, c)
    BY <1>0, <1>1, <1>2, UseOf
  <2> QED BY <1>0, <2>1, <2>2 DEF pshufd_resolver
<1>7. /\ \A v \in Bytes(n) : G[v] \in Bytes(Size(a))
      /\ After(i, a) = G[Before(i, b)]
      /\ \A L : Live(i, L) => \E f : /\ inst_resolver(i, L) = forward_only(L, {1}, 1, f)
                                     /\ L.val[1] \in Bytes(n) => f = G[L.val[1]]
  BY <1>0, <1>3, <1>4, <1>5, <1>6
<1> HIDE DEF G
<1> QED BY <1>1, <1>2, <1>5, <1>7, ComputedFrom

(* bsr and bsf find a bit that is set, if there is one.                    *)
LEMMA GoodScan ==
  ASSUME NEW i \in Instances, i.op \in {"bsr", "bsf"}, Supported(i) PROVE Good(i)
<1> DEFINE a == i.dst
           b == i.src
           n == Size(b)
           of(v, g) == IF i.op = "bsr" THEN Scanned(v, Max(SetBits(v)), g)
                       ELSE Scanned(v, Min(SetBits(v)), g)
           G == [v \in Bytes(n) |-> of(v, i.garbage)]
<1>0. Handled(i) /\ Size(a) = DW /\ SetBits(Before(i, b)) # {} /\ i.garbage \in Bytes(DW)
  BY InstancesAssumption DEF Supported, JccNames, IsInstruction
<1>1. Complete(inst_handler(i), <<Define(a)>>, <<Use(b)>>)
  <2>1. inst_handler(i) = Accept(i, {RM, RR}, <<Define(a)>> \o UseAt(b))
    BY DEF inst_handler, VectorNames, JccNames, NotHandled, bittest_handler
  <2>2. inst_handler(i) = <<Define(a)>> \o UseAt(b) /\ Form(i) \in {RM, RR}
    BY <1>0, <2>1, Accepted
  <2>3. a.t # "mem"
    BY <2>2 DEF Form, RR, RM
  <2> QED BY <2>2, <2>3, Patterns
<1>2. 1 \in DOMAIN <<Use(b)>> /\ <<Use(b)>>[1] = Use(b)
  OBVIOUS
<1>3. Before(i, b) \in Bytes(n)
  BY <1>1, <1>2, UseOf
<1>4. \A v \in Bytes(n) : of(v, i.garbage) \in Bytes(DW)
  BY <1>0, Scans
<1>5. After(i, a) = of(Before(i, b), i.garbage) /\ Only(i, a)
  <2>w. \A w : Effect(i) = (a.place := w) => After(i, a) = w /\ Only(i, a)
    <3> HIDE DEF a
    <3> QED BY Writes
  <2>1. Effect(i) = Move(i)
    BY DEF Effect, ArithmeticNames, LogicNames, MoveNames, StringNames
  <2>2. Move(i) = (a.place := of(Before(i, b), Before(i, a)))
    BY DEF Move
  <2>3. of(Before(i, b), Before(i, a)) = of(Before(i, b), i.garbage)
    BY <1>0 DEF Scanned
  <2> HIDE DEF of
  <2> QED BY <2>1, <2>2, <2>3, <2>w
<1>6. \A L : inst_resolver(i, L) = forward_only(L, {1}, 1, of(L.val[1], i.garbage))
  BY DEF inst_resolver, VectorNames, bittest_resolver, bsr_resolver, bsf_resolver
<1> HIDE DEF of
<1>7. /\ \A v \in Bytes(n) : G[v] \in Bytes(Size(a))
      /\ After(i, a) = G[Before(i, b)]
      /\ \A L : Live(i, L) => \E f : /\ inst_resolver(i, L) = forward_only(L, {1}, 1, f)
                                     /\ L.val[1] \in Bytes(n) => f = G[L.val[1]]
  BY <1>0, <1>3, <1>4, <1>5, <1>6
<1> HIDE DEF G
<1> QED BY <1>1, <1>2, <1>5, <1>7, ComputedFrom

(* cdq spreads the sign of eax over edx.                                   *)
LEMMA GoodConversion ==
  ASSUME NEW i \in Instances, i.op = "cdq" PROVE Good(i)
<1> DEFINE n == Size(Eax)
           G == [v \in Bytes(n) |-> IF sign_of_valset(v) THEN one_valset(DW) ELSE zero_valset(DW)]
<1>0. /\ Size(Eax) = DW /\ Size(Edx) = DW /\ Eax.place = "eax" /\ Edx.place = "edx"
      /\ Eax.t = "reg" /\ Edx.t = "reg"
  BY Sizes DEF Size, Eax, Edx, Dword, R, Operand
<1>1. Complete(inst_handler(i), <<Define(Edx)>>, <<Use(Eax)>>)
  <2>1. inst_handler(i) = <<Define(Edx), Use(Eax)>>
    BY DEF inst_handler, VectorNames, JccNames, NotHandled, szconv_handler
  <2> QED BY <1>0, <2>1, Patterns
<1>2. 1 \in DOMAIN <<Use(Eax)>> /\ <<Use(Eax)>>[1] = Use(Eax)
  OBVIOUS
<1>3. Before(i, Eax) \in Bytes(n)
  BY <1>1, <1>2, UseOf
<1>4. one_valset(DW) \in Bytes(DW) /\ zero_valset(DW) \in Bytes(DW)
  BY OperandsAssumption DEF one_valset, zero_valset, Bytes, Byte
<1>5. After(i, Edx) = G[Before(i, Eax)] /\ Only(i, Edx)
  <2>w. \A w : Effect(i) = (Edx.place := w) => After(i, Edx) = w /\ Only(i, Edx)
    BY Writes
  <2>1. Effect(i) = Move(i)
    BY DEF Effect, ArithmeticNames, LogicNames, MoveNames, StringNames
  <2>2. Move(i) = (Edx.place := (IF sign_of_valset(Before(i, Eax)) THEN one_valset(DW)
                                 ELSE zero_valset(DW)))
    BY <1>0 DEF Move, Before
  <2>3. /\ After(i, Edx) = IF sign_of_valset(Before(i, Eax)) THEN one_valset(DW)
           ELSE zero_valset(DW)
        /\ Only(i, Edx)
    BY <2>1, <2>2, <2>w
  <2> QED BY <1>3, <2>3
<1>6. \A L : inst_resolver(i, L) = forward_only(L, {1}, 1, IF sign_of_valset(L.val[1])
                                                 THEN one_valset(DW) ELSE zero_valset(DW))
  BY DEF inst_resolver, VectorNames, szconv_resolver
<1>7. /\ \A v \in Bytes(n) : G[v] \in Bytes(Size(Edx))
      /\ \A L : Live(i, L) => \E f : /\ inst_resolver(i, L) = forward_only(L, {1}, 1, f)
                                     /\ L.val[1] \in Bytes(n) => f = G[L.val[1]]
  BY <1>0, <1>4, <1>6
<1> HIDE DEF G
<1> QED BY <1>1, <1>2, <1>5, <1>7, ComputedFrom

(***************************************************************************)
(* add, sub, adc, sbb, rotations and exclusive or: a result of two         *)
(* operands.                                                               *)
(***************************************************************************)
(* A shorter source is an immediate byte, which sign extension widens and  *)
(* truncation gives back.                                                  *)
LEMMA WidenedSource ==
  ASSUME NEW i \in Instances, i.op \in {"add", "sub"}, Supported(i), TwoUses(i, i.dst, i.src)
  PROVE  /\ i.dst.dt \in Small
         /\ Size(i.src) <= Size(i.dst)
         /\ Size(i.src) = Size(i.dst) \/ (i.src.t = "imm" /\ i.src.dt = "byte" /\ i.dst.dt # "byte")
         /\ \A w \in Bytes(Size(i.src)) :
              /\ Widened(w, Size(i.dst)) \in Bytes(Size(i.dst))
              /\ Fit(Widened(w, Size(i.dst)), Size(i.src)) = w
              /\ Size(i.src) = Size(i.dst) => Widened(w, Size(i.dst)) = w /\ Fit(w, Size(i.dst)) = w
         /\ SourceValue(i) = Widened(Before(i, i.src), Size(i.dst))
<1>1. i.dst.dt \in Small /\ (SameSize(i) \/ i.src = I("byte"))
  BY DEF Supported, JccNames
<1>2. Size(i.dst) \in {1, 2, 4, 8} /\ Size(i.src) \in {1, 2, 4, 8}
  BY DEF TwoUses, TwoRead
<1>3. Size(i.src) = Size(i.dst) \/ (i.src.t = "imm" /\ i.src.dt = "byte" /\ i.dst.dt # "byte")
  BY <1>1 DEF SameSize, I, Operand, Size
<1>4. i.src.dt = "byte" => Size(i.src) = 1
  BY Sizes DEF Size
<1>5. Size(i.src) <= Size(i.dst)
  BY <1>2, <1>3, <1>4
<1>6. \A w \in Bytes(Size(i.src)) :
        /\ Widened(w, Size(i.dst)) \in Bytes(Size(i.dst))
        /\ Fit(Widened(w, Size(i.dst)), Size(i.src)) = w
        /\ Size(i.src) = Size(i.dst) => Widened(w, Size(i.dst)) = w /\ Fit(w, Size(i.dst)) = w
  <2>1. PICK s \in Nat : s = Size(i.src)
    BY <1>2
  <2>2. PICK d \in Nat : d = Size(i.dst)
    BY <1>2
  <2>3. \A w \in Bytes(s) :
          /\ sign_extend_valset(w, d) \in Bytes(d)
          /\ s = d => Fit(w, d) = w /\ sign_extend_valset(w, d) = w
          /\ s <= d => Fit(Fit(w, d), s) = w /\ Fit(sign_extend_valset(w, d), s) = w
    BY Fits
  <2> QED BY <1>5, <2>1, <2>2, <2>3 DEF Widened
<1> QED BY <1>1, <1>3, <1>5, <1>6 DEF SourceValue, Widened

(* add and sub find the operand that is missing. *)
LEMMA GoodAdd ==
  ASSUME NEW i \in Instances, i.op = "add", Supported(i) PROVE Good(i)
<1> DEFINE a == i.dst
           b == i.src
           m == Size(i.dst)
           n == Size(i.src)
           G == [p \in Bytes(m) \X Bytes(n) |-> AddVal(p[1], Widened(p[2], m))]
           A1 == [p \in Bytes(n) \X Bytes(m) |-> SubVal(p[2], Widened(p[1], m))]
           B1 == [p \in Bytes(m) \X Bytes(m) |-> Fit(SubVal(p[2], p[1]), n)]
<1>1. Handled(i) /\ inst_handler(i) = Accept(i, {RR, RM, MI, MR, RI}, DstSrc(i))
  BY DEF Supported, inst_handler, VectorNames, JccNames, NotHandled, add_handler
<1>2. TwoUses(i, a, b)
  BY <1>1, DstSrcUses
<1>3. m \in Nat \ {0} /\ n \in Nat \ {0} /\ Before(i, a) \in Bytes(m) /\ Before(i, b) \in Bytes(n)
  BY <1>2 DEF TwoUses, TwoRead
<1>4. /\ i.dst.dt \in Small /\ n <= m /\ (n = m \/ b.t = "imm")
      /\ \A w \in Bytes(n) : Widened(w, m) \in Bytes(m) /\ Fit(Widened(w, m), n) = w
                             /\ (n = m => Widened(w, m) = w)
      /\ SourceValue(i) = Widened(Before(i, b), m)
  BY <1>2, WidenedSource
<1>5. After(i, a) = AddVal(Before(i, a), SourceValue(i)) /\ Only(i, a)
  <2>1. Arithmetic(i) = (i.dst.place := AddVal(Before(i, i.dst), SourceValue(i)))
    BY DEF Arithmetic
  <2>2. Effect(i) = (a.place := AddVal(Before(i, i.dst), SourceValue(i)))
    BY <2>1 DEF Effect, ArithmeticNames, LogicNames, MoveNames, StringNames
  <2> QED BY <2>2, Writes
<1> HIDE DEF a, b, m, n
<1>6. ASSUME NEW v \in Bytes(m), NEW w \in Bytes(n)
      PROVE  /\ G[<<v, w>>] = AddVal(v, Widened(w, m)) /\ G[<<v, w>>] \in Bytes(m)
             /\ A1[<<w, G[<<v, w>>]>>] = v /\ B1[<<v, G[<<v, w>>]>>] = w
  <2>1. Widened(w, m) \in Bytes(m) /\ Fit(Widened(w, m), n) = w
    BY <1>4
  <2> DEFINE r == AddVal(v, Widened(w, m))
  <2>2. r \in Bytes(m) /\ SubVal(r, Widened(w, m)) = v /\ SubVal(r, v) = Widened(w, m)
    BY <1>3, <2>1, SumsUndone
  <2>3. G[<<v, w>>] = r
    OBVIOUS
  <2> HIDE DEF r, G
  <2>4. A1[<<w, r>>] = SubVal(r, Widened(w, m)) /\ B1[<<v, r>>] = Fit(SubVal(r, v), n)
    BY <2>2
  <2> QED BY <2>1, <2>2, <2>3, <2>4 DEF r
<1>7. ASSUME NEW r \in Bytes(m), NEW w \in Bytes(n)
      PROVE  A1[<<w, r>>] \in Bytes(m) /\ G[<<A1[<<w, r>>], w>>] = r
  <2> DEFINE v == SubVal(r, Widened(w, m))
  <2>1. Widened(w, m) \in Bytes(m)
    BY <1>4
  <2>2. v \in Bytes(m) /\ AddVal(v, Widened(w, m)) = r
    BY <1>3, <2>1, SumsUndone
  <2>3. A1[<<w, r>>] = v
    OBVIOUS
  <2> HIDE DEF v, A1
  <2>4. G[<<v, w>>] = AddVal(v, Widened(w, m))
    BY <2>2
  <2> QED BY <2>2, <2>3, <2>4
<1>8. ASSUME NEW v \in Bytes(m), NEW r \in Bytes(m)
      PROVE  B1[<<v, r>>] \in Bytes(n) /\ (b.t # "imm" => G[<<v, B1[<<v, r>>]>>] = r)
  <2> DEFINE u == SubVal(r, v)
  <2>1. u \in Bytes(m) /\ AddVal(u, v) = r
    BY <1>3, SumsUndone
  <2>2. B1[<<v, r>>] = Fit(u, n)
    OBVIOUS
  <2> HIDE DEF u, B1, G
  <2>3. Fit(u, n) \in Bytes(n) /\ (n = m => Fit(u, n) = u)
    BY <1>3, <2>1, Fits
  <2>4. ASSUME b.t # "imm" PROVE G[<<v, u>>] = r
    <3>1. n = m /\ Widened(u, m) = u
      BY <1>4, <2>1, <2>4
    <3>2. u \in Bytes(n)
      BY <2>1, <3>1
    <3>3. G[<<v, u>>] = AddVal(v, u)
      <4>1. G[<<v, u>>] = AddVal(v, Widened(u, m))
        BY <1>6, <3>2
      <4> QED BY <3>1, <4>1
    <3> QED BY <1>3, <2>1, <3>3, SumsCommute
  <2>5. b.t # "imm" => n = m
    BY <1>4
  <2> QED BY <2>2, <2>3, <2>4, <2>5
<1>9. After(i, a) = G[<<Before(i, a), Before(i, b)>>]
  BY <1>3, <1>4, <1>5, <1>6
<1>10. ASSUME NEW L, Live(i, L)
       PROVE  \E f, first, second : /\ inst_resolver(i, L) = from_two(L, f, first, second)
                                    /\ TwoWay(L, f, first, second, m, n, G, A1, B1)
  <2> DEFINE w == Widened(L.val[2], m)
  <2>1. /\ L.src[1] = a /\ L.dst[1] = a /\ Ready(L) /\ 1 \in DOMAIN L.aft
        /\ Known(L.val[1]) => L.val[1] \in Bytes(m)
        /\ Known(L.val[2]) => L.val[2] \in Bytes(n)
    BY <1>2, <1>10 DEF TwoUses, TwoRead, m, n, a, b
  <2>2. Known(L.aft[1]) => L.aft[1] \in Bytes(m)
    BY <2>1 DEF Ready, Sized, m, a
  <2>3. L.src[1].dt \in Small
    BY <1>4, <2>1 DEF a
  <2>4. inst_resolver(i, L) = add_resolver(i, L)
    BY DEF inst_resolver, VectorNames
  <2>5. add_resolver(i, L) =
          from_two(L, AddVal(L.val[1], w), SubVal(L.aft[1], w), SubVal(L.aft[1], L.val[1]))
    BY <2>1, <2>3 DEF add_resolver, if_datatype, from_two, sees, Widened, m, a
  <2>6. Known(L.val[1]) /\ Known(L.val[2]) => AddVal(L.val[1], w) = G[<<L.val[1], L.val[2]>>]
    BY <1>6, <2>1
  <2>7. Known(L.val[2]) /\ Known(L.aft[1]) =>
          Fit(SubVal(L.aft[1], w), m) = A1[<<L.val[2], L.aft[1]>>]
    <3>1. ASSUME Known(L.val[2]), Known(L.aft[1])
          PROVE  SubVal(L.aft[1], w) \in Bytes(m)
      BY <1>3, <1>4, <2>1, <2>2, <3>1, SumsUndone
    <3>2. Known(L.val[2]) /\ Known(L.aft[1]) => SubVal(L.aft[1], w) = A1[<<L.val[2], L.aft[1]>>]
      BY <2>1, <2>2
    <3> QED BY <1>3, <3>1, <3>2, BytesKnown
  <2>8. Known(L.val[1]) /\ Known(L.aft[1]) =>
          Fit(SubVal(L.aft[1], L.val[1]), n) = B1[<<L.val[1], L.aft[1]>>]
    BY <2>1, <2>2
  <2> HIDE DEF w, G, A1, B1
  <2> QED BY <2>4, <2>5, <2>6, <2>7, <2>8 DEF TwoWay
<1> HIDE DEF G, A1, B1
<1>11. Reversible(i, a, b, G, A1, B1)
  <2>1. /\ \A v \in Bytes(m), w \in Bytes(n) : G[<<v, w>>] \in Bytes(m)
                                               /\ A1[<<w, G[<<v, w>>]>>] = v
        /\ \A v \in Bytes(m), w \in Bytes(n) : B1[<<v, G[<<v, w>>]>>] = w
    BY <1>6
  <2>2. \A r \in Bytes(m), w \in Bytes(n) :
          A1[<<w, r>>] \in Bytes(m) /\ G[<<A1[<<w, r>>], w>>] = r
    BY <1>7
  <2>3. b.t # "imm" => \A v, r \in Bytes(m) : B1[<<v, r>>] \in Bytes(n)
        /\ G[<<v, B1[<<v, r>>]>>] = r
    BY <1>8
  <2> QED BY <1>9, <2>1, <2>2, <2>3 DEF Reversible, m, n, a, b
<1>12. m = Size(a) /\ n = Size(b)
  BY DEF m, n, a, b
<1> QED BY <1>2, <1>5, <1>10, <1>11, <1>12, AllReversed

(* The same for sub, whose steps assign what add's tell. *)
LEMMA GoodSub ==
  ASSUME NEW i \in Instances, i.op = "sub", Supported(i) PROVE Good(i)
<1> DEFINE a == i.dst
           b == i.src
           m == Size(i.dst)
           n == Size(i.src)
           G == [p \in Bytes(m) \X Bytes(n) |-> SubVal(p[1], Widened(p[2], m))]
           A1 == [p \in Bytes(n) \X Bytes(m) |-> AddVal(p[2], Widened(p[1], m))]
           B1 == [p \in Bytes(m) \X Bytes(m) |-> Fit(SubVal(p[1], p[2]), n)]
<1>1. Handled(i) /\ inst_handler(i) = Accept(i, {RR, RI, MI, MR, RM}, DstSrc(i))
  BY DEF Supported, inst_handler, VectorNames, JccNames, NotHandled, sub_handler
<1>2. TwoUses(i, a, b)
  BY <1>1, DstSrcUses
<1>3. m \in Nat \ {0} /\ n \in Nat \ {0} /\ Before(i, a) \in Bytes(m) /\ Before(i, b) \in Bytes(n)
  BY <1>2 DEF TwoUses, TwoRead
<1>4. /\ i.dst.dt \in Small /\ n <= m /\ (n = m \/ b.t = "imm")
      /\ \A w \in Bytes(n) : Widened(w, m) \in Bytes(m) /\ Fit(Widened(w, m), n) = w
                             /\ (n = m => Widened(w, m) = w)
      /\ SourceValue(i) = Widened(Before(i, b), m)
  BY <1>2, WidenedSource
<1>5. After(i, a) = SubVal(Before(i, a), SourceValue(i)) /\ Only(i, a)
  <2>1. Arithmetic(i) = (i.dst.place := SubVal(Before(i, i.dst), SourceValue(i)))
    BY DEF Arithmetic
  <2>2. Effect(i) = (a.place := SubVal(Before(i, i.dst), SourceValue(i)))
    BY <2>1 DEF Effect, ArithmeticNames, LogicNames, MoveNames, StringNames
  <2> QED BY <2>2, Writes
<1> HIDE DEF a, b, m, n
<1>6. ASSUME NEW v \in Bytes(m), NEW w \in Bytes(n)
      PROVE  /\ G[<<v, w>>] = SubVal(v, Widened(w, m)) /\ G[<<v, w>>] \in Bytes(m)
             /\ A1[<<w, G[<<v, w>>]>>] = v /\ B1[<<v, G[<<v, w>>]>>] = w
  <2>1. Widened(w, m) \in Bytes(m) /\ Fit(Widened(w, m), n) = w
    BY <1>4
  <2> DEFINE r == SubVal(v, Widened(w, m))
  <2>2. r \in Bytes(m) /\ AddVal(r, Widened(w, m)) = v /\ SubVal(v, r) = Widened(w, m)
    BY <1>3, <2>1, SumsUndone
  <2>3. G[<<v, w>>] = r
    OBVIOUS
  <2> HIDE DEF r, G
  <2>4. A1[<<w, r>>] = AddVal(r, Widened(w, m)) /\ B1[<<v, r>>] = Fit(SubVal(v, r), n)
    BY <2>2
  <2> QED BY <2>1, <2>2, <2>3, <2>4 DEF r
<1>7. ASSUME NEW r \in Bytes(m), NEW w \in Bytes(n)
      PROVE  A1[<<w, r>>] \in Bytes(m) /\ G[<<A1[<<w, r>>], w>>] = r
  <2> DEFINE v == AddVal(r, Widened(w, m))
  <2>1. Widened(w, m) \in Bytes(m)
    BY <1>4
  <2>2. v \in Bytes(m) /\ SubVal(v, Widened(w, m)) = r
    BY <1>3, <2>1, SumsUndone
  <2>3. A1[<<w, r>>] = v
    OBVIOUS
  <2> HIDE DEF v, A1
  <2>4. G[<<v, w>>] = SubVal(v, Widened(w, m))
    BY <2>2
  <2> QED BY <2>2, <2>3, <2>4
<1>8. ASSUME NEW v \in Bytes(m), NEW r \in Bytes(m)
      PROVE  B1[<<v, r>>] \in Bytes(n) /\ (b.t # "imm" => G[<<v, B1[<<v, r>>]>>] = r)
  <2> DEFINE u == SubVal(v, r)
  <2>1. u \in Bytes(m) /\ SubVal(v, u) = r
    BY <1>3, SumsUndone
  <2>2. B1[<<v, r>>] = Fit(u, n)
    OBVIOUS
  <2> HIDE DEF u, B1, G
  <2>3. Fit(u, n) \in Bytes(n) /\ (n = m => Fit(u, n) = u)
    BY <1>3, <2>1, Fits
  <2>4. ASSUME b.t # "imm" PROVE G[<<v, u>>] = r
    <3>1. n = m /\ Widened(u, m) = u
      BY <1>4, <2>1, <2>4
    <3>2. u \in Bytes(n)
      BY <2>1, <3>1
    <3>3. G[<<v, u>>] = SubVal(v, u)
      <4>1. G[<<v, u>>] = SubVal(v, Widened(u, m))
        BY <1>6, <3>2
      <4> QED BY <3>1, <4>1
    <3> QED BY <2>1, <3>3
  <2>5. b.t # "imm" => n = m
    BY <1>4
  <2> QED BY <2>2, <2>3, <2>4, <2>5
<1>9. After(i, a) = G[<<Before(i, a), Before(i, b)>>]
  BY <1>3, <1>4, <1>5, <1>6
<1>10. ASSUME NEW L, Live(i, L)
       PROVE  \E f, first, second : /\ inst_resolver(i, L) = from_two(L, f, first, second)
                                    /\ TwoWay(L, f, first, second, m, n, G, A1, B1)
  <2> DEFINE w == Widened(L.val[2], m)
  <2>1. /\ L.src[1] = a /\ L.dst[1] = a /\ Ready(L) /\ 1 \in DOMAIN L.aft
        /\ 1 \in DOMAIN L.val /\ 2 \in DOMAIN L.val
        /\ Known(L.val[1]) => L.val[1] \in Bytes(m)
        /\ Known(L.val[2]) => L.val[2] \in Bytes(n)
    BY <1>2, <1>10 DEF TwoUses, TwoRead, m, n, a, b
  <2>2. Known(L.aft[1]) => L.aft[1] \in Bytes(m)
    BY <2>1 DEF Ready, Sized, m, a
  <2>3. L.src[1].dt \in Small
    BY <1>4, <2>1 DEF a
  <2>4. inst_resolver(i, L) = sub_resolver(i, L)
    BY DEF inst_resolver, VectorNames
  <2>a. Known(L.val[2]) => Subtrahend(L) = w
    <3>1. L.src[2] = i.src /\ L.src[1] = i.dst
      BY <1>2, <1>10 DEF TwoUses, TwoRead, a, b
    <3>2. Known(L.val[2]) /\ n = m => Fit(L.val[2], m) = w
      BY <1>2, <2>1, WidenedSource DEF m, n, a, b
    <3>3. Known(L.val[2]) /\ n = m => sign_extend_valset(L.val[2], m) = w
      BY DEF Widened
    <3>4. n = m \/ (i.src.t = "imm" /\ i.src.dt = "byte" /\ i.dst.dt # "byte")
      BY <1>2, WidenedSource DEF m, n, a, b
    <3> QED BY <3>1, <3>2, <3>3, <3>4 DEF Subtrahend, Widened, m
  <2>5. sub_resolver(i, L) =
          from_two(L, difference(L), AddVal(L.aft[1], Subtrahend(L)), SubVal(L.val[1], L.aft[1]))
    <3>1. /\ \A v : Known(L.aft[1]) => assert_val(L, "aft", 1, v) = tell(L, "aft", 1, v)
          /\ \A v : ~ Known(L.aft[1]) => put(L, "aft", 1, v) = tell(L, "aft", 1, v)
      BY <2>1, Tell DEF Ready, Sides
    <3>2. /\ \A v : ~ Known(L.val[1]) => put(L, "val", 1, v) = tell(L, "val", 1, v)
          /\ \A v : ~ Known(L.val[2]) => put(L, "val", 2, v) = tell(L, "val", 2, v)
      BY <2>1, Tell DEF Ready, Sides
    <3>3. L.src[1].dt # "dqword" /\ L.src[1].dt \in Small \cup {"dqword"}
      BY <2>3 DEF Small
    <3>4. i.op # "sbb"
      OBVIOUS
    <3> QED BY <2>3, <3>1, <3>2, <3>3, <3>4 DEF sub_resolver, if_datatype, from_two, sees
  <2>b. difference(L) = SubVal(L.val[1], Subtrahend(L))
    BY <2>3 DEF difference
  <2>6. Known(L.val[1]) /\ Known(L.val[2]) => difference(L) = G[<<L.val[1], L.val[2]>>]
    BY <1>6, <2>1, <2>a, <2>b
  <2>7. Known(L.val[2]) /\ Known(L.aft[1]) =>
          Fit(AddVal(L.aft[1], Subtrahend(L)), m) = A1[<<L.val[2], L.aft[1]>>]
    <3>1. ASSUME Known(L.val[2]), Known(L.aft[1])
          PROVE  AddVal(L.aft[1], w) \in Bytes(m)
      BY <1>3, <1>4, <2>1, <2>2, <3>1, SumsUndone
    <3>2. Known(L.val[2]) /\ Known(L.aft[1]) => AddVal(L.aft[1], w) = A1[<<L.val[2], L.aft[1]>>]
      BY <2>1, <2>2
    <3> QED BY <1>3, <2>a, <3>1, <3>2, BytesKnown
  <2>8. Known(L.val[1]) /\ Known(L.aft[1]) =>
          Fit(SubVal(L.val[1], L.aft[1]), n) = B1[<<L.val[1], L.aft[1]>>]
    BY <2>1, <2>2
  <2> HIDE DEF w, G, A1, B1
  <2> QED BY <2>4, <2>5, <2>6, <2>7, <2>8 DEF TwoWay
<1> HIDE DEF G, A1, B1
<1>11. Reversible(i, a, b, G, A1, B1)
  <2>1. /\ \A v \in Bytes(m), w \in Bytes(n) : G[<<v, w>>] \in Bytes(m)
                                               /\ A1[<<w, G[<<v, w>>]>>] = v
        /\ \A v \in Bytes(m), w \in Bytes(n) : B1[<<v, G[<<v, w>>]>>] = w
    BY <1>6
  <2>2. \A r \in Bytes(m), w \in Bytes(n) :
          A1[<<w, r>>] \in Bytes(m) /\ G[<<A1[<<w, r>>], w>>] = r
    BY <1>7
  <2>3. b.t # "imm" => \A v, r \in Bytes(m) : B1[<<v, r>>] \in Bytes(n)
        /\ G[<<v, B1[<<v, r>>]>>] = r
    BY <1>8
  <2> QED BY <1>9, <2>1, <2>2, <2>3 DEF Reversible, m, n, a, b
<1>12. m = Size(a) /\ n = Size(b)
  BY DEF m, n, a, b
<1> QED BY <1>2, <1>5, <1>10, <1>11, <1>12, AllReversed

(* rol and ror of a double word by a constant, computed or undone.         *)
LEMMA GoodRotate ==
  ASSUME NEW i \in Instances, i.op \in {"rol", "ror"}, Supported(i) PROVE Good(i)
<1> DEFINE a == i.dst
           b == i.src
           m == Size(i.dst)
           n == Size(i.src)
           Count(w) == IF i.op = "rol" THEN w[1] ELSE m * ByteBits - w[1]
           G == [p \in Bytes(m) \X Bytes(n) |-> Rotated(p[1], Count(p[2]))]
           A1 == [p \in Bytes(n) \X Bytes(m) |-> Rotated(p[2], m * ByteBits - Count(p[1]))]
<1>1. Handled(i) /\ inst_handler(i) = Accept(i, {RI}, DstSrc(i))
  BY DEF Supported, inst_handler, VectorNames, JccNames, NotHandled, rol_handler, ror_handler
<1>2. TwoUses(i, a, b) /\ Form(i) \in {RI}
  BY <1>1, DstSrcUses
<1>3. m \in Nat \ {0} /\ n = 1 /\ Before(i, a) \in Bytes(m) /\ Before(i, b) \in Bytes(n)
  <2>1. i.src.dt = "byte"
    BY DEF Supported, JccNames
  <2> QED BY <1>2, <2>1, Sizes DEF TwoUses, TwoRead, Size
<1>4. b.t = "imm" /\ a.dt = "dword"
  <2>1. i.dst.dt = "dword"
    BY DEF Supported, JccNames
  <2> QED BY <1>2, <2>1 DEF Form, RI
<1>5. ByteBits \in Nat /\ m * ByteBits \in Nat
  <2>1. ByteBits \in Nat
    BY ByteBitsFacts
  <2> QED BY <1>3, <2>1
<1>6. \A w \in Bytes(n) : w[1] \in Nat /\ Count(w) \in Int /\ m * ByteBits - Count(w) \in Int
                          /\ Count(w) + (m * ByteBits - Count(w)) = m * ByteBits
  <2> SUFFICES ASSUME NEW w \in Bytes(n)
               PROVE  w[1] \in Nat /\ Count(w) \in Int /\ m * ByteBits - Count(w) \in Int
                      /\ Count(w) + (m * ByteBits - Count(w)) = m * ByteBits
    OBVIOUS
  <2>1. w[1] \in Nat
    BY <1>3, OneByte
  <2> QED BY <1>5, <2>1
<1>7. After(i, a) = Rotated(Before(i, a), Count(Before(i, b))) /\ Only(i, a)
  <2>1. Arithmetic(i) = (a.place := Rotated(Before(i, a), Count(Before(i, b))))
    <3>1. Len(Before(i, a)) = m
      BY <1>3, BytesLen
    <3> QED BY <3>1 DEF Arithmetic
  <2>2. Effect(i) = (a.place := Rotated(Before(i, a), Count(Before(i, b))))
    BY <2>1 DEF Effect, ArithmeticNames, LogicNames, MoveNames, StringNames
  <2> HIDE DEF Count
  <2> QED BY <2>2, Writes
<1>8. m = Size(a) /\ n = Size(b)
  OBVIOUS
<1> HIDE DEF a, b, m, n, Count
<1>9. ASSUME NEW v \in Bytes(m), NEW w \in Bytes(n)
      PROVE  /\ G[<<v, w>>] = Rotated(v, Count(w))
                /\ A1[<<w, v>>] = Rotated(v, m * ByteBits - Count(w))
             /\ G[<<v, w>>] \in Bytes(m) /\ A1[<<w, v>>] \in Bytes(m)
             /\ A1[<<w, G[<<v, w>>]>>] = v /\ G[<<A1[<<w, v>>], w>>] = v
  <2>1. \A u \in Bytes(m) : /\ G[<<u, w>>] = Rotated(u, Count(w))
                            /\ A1[<<w, u>>] = Rotated(u, m * ByteBits - Count(w))
    OBVIOUS
  <2> HIDE DEF G, A1
  <2> DEFINE c == Count(w)
             d == m * ByteBits - Count(w)
  <2>2. c \in Int /\ d \in Int /\ c + d = m * ByteBits /\ d + c = m * ByteBits
    BY <1>5, <1>6
  <2> HIDE DEF c, d
  <2>3. Rotated(v, c) \in Bytes(m) /\ Rotated(Rotated(v, c), d) = v
    BY <1>3, <2>2, Rotations
  <2>4. Rotated(v, d) \in Bytes(m) /\ Rotated(Rotated(v, d), c) = v
    BY <1>3, <2>2, Rotations
  <2> QED BY <2>1, <2>3, <2>4 DEF c, d
<1>10. ASSUME NEW L, Live(i, L)
       PROVE  \E f, first, second : /\ inst_resolver(i, L) = from_two(L, f, first, second)
                                    /\ TwoWay(L, f, first, second, m, n, G, A1, A1)
  <2> DEFINE f == IF i.op = "rol" THEN rol_val(L.val[1], L.val[2][1])
                  ELSE ror_val(L.val[1], L.val[2][1])
             g == IF i.op = "rol" THEN ror_val(L.aft[1], L.val[2][1])
                  ELSE rol_val(L.aft[1], L.val[2][1])
  <2>1. /\ L.src[1] = a /\ L.dst[1] = a /\ Ready(L) /\ 1 \in DOMAIN L.aft
        /\ Known(L.val[1]) => L.val[1] \in Bytes(m)
        /\ L.val[2] \in Bytes(n) /\ Known(L.val[2])
    <3>1. Known(Before(i, b))
      BY <1>3, BytesKnown
    <3> QED BY <1>2, <1>3, <1>4, <1>8, <1>10, <3>1 DEF TwoUses, TwoRead
  <2>2. Known(L.aft[1]) => L.aft[1] \in Bytes(m)
    BY <1>8, <2>1 DEF Ready, Sized
  <2>3. inst_resolver(i, L) = from_two(L, f, g, <<>>)
    <3>1. inst_resolver(i, L) = IF i.op = "rol" THEN rol_resolver(i, L) ELSE ror_resolver(i, L)
      BY DEF inst_resolver, VectorNames
    <3>2. L.dst[1].dt = "dword"
      BY <1>4, <2>1
    <3> QED BY <2>1, <3>1, <3>2
            DEF rol_resolver, ror_resolver, rotate, if_datatype, from_two, sees
  <2>4. Known(L.val[1]) => f = G[<<L.val[1], L.val[2]>>]
    <3>1. Known(L.val[1]) => G[<<L.val[1], L.val[2]>>] = Rotated(L.val[1], Count(L.val[2]))
      BY <1>9, <2>1
    <3>2. Known(L.val[1]) => Len(L.val[1]) = m
      BY <1>3, <2>1, BytesLen
    <3> QED BY <3>1, <3>2 DEF rol_val, ror_val, Count
  <2>5. Known(L.aft[1]) => Fit(g, m) = A1[<<L.val[2], L.aft[1]>>]
    <3> SUFFICES ASSUME Known(L.aft[1]) PROVE Fit(g, m) = A1[<<L.val[2], L.aft[1]>>]
      OBVIOUS
    <3>1. /\ A1[<<L.val[2], L.aft[1]>>] = Rotated(L.aft[1], m * ByteBits - Count(L.val[2]))
          /\ A1[<<L.val[2], L.aft[1]>>] \in Bytes(m)
      BY <1>9, <2>1, <2>2
    <3>2. Len(L.aft[1]) = m
      BY <1>3, <2>2, BytesLen
    <3>3. L.val[2][1] \in Nat /\ m * ByteBits - (m * ByteBits - L.val[2][1]) = L.val[2][1]
      BY <1>5, <1>6, <2>1
    <3>4. g = Rotated(L.aft[1], m * ByteBits - Count(L.val[2]))
      BY <3>2, <3>3 DEF rol_val, ror_val, Count
    <3> QED BY <1>3, <3>1, <3>4, BytesKnown
  <2> HIDE DEF f, g, G, A1
  <2>6. TwoWay(L, f, g, <<>>, m, n, G, A1, A1)
    BY <2>1, <2>4, <2>5 DEF TwoWay
  <2> QED BY <2>3, <2>6
<1> HIDE DEF G, A1
<1>11. Reversible(i, a, b, G, A1, A1)
  <2>1. /\ \A v \in Bytes(m), w \in Bytes(n) : G[<<v, w>>] \in Bytes(m)
                                               /\ A1[<<w, G[<<v, w>>]>>] = v
        /\ \A r \in Bytes(m), w \in Bytes(n) : A1[<<w, r>>] \in Bytes(m)
                                               /\ G[<<A1[<<w, r>>], w>>] = r
    BY <1>9
  <2>2. After(i, a) = G[<<Before(i, a), Before(i, b)>>]
    BY <1>3, <1>7, <1>9
  <2> QED BY <1>4, <1>8, <2>1, <2>2 DEF Reversible
<1> QED BY <1>2, <1>7, <1>8, <1>10, <1>11, AllReversed

(* A value and itself differ nowhere. *)
LEMMA XorSelf ==
  ASSUME NEW s \in Nat, NEW v \in Bytes(s)
  PROVE  zero_valset(s) \in Bytes(s) /\ Xor(v, v) = zero_valset(s)
<1> DEFINE z == zero_valset(s)
<1>1. z = [k \in 1 .. s |-> 0] /\ 0 \in Byte
  BY OperandsAssumption DEF zero_valset, Byte
<1>2. z \in Bytes(s)
  BY <1>1 DEF Bytes
<1>3. v = [k \in 1 .. s |-> v[k]]
  BY DEF Bytes
<1> HIDE DEF z
<1>4. Xor(v, z) \in Bytes(s) /\ Xor(Xor(v, z), v) = z /\ \A k \in 1 .. s : Xor(v, z)[k] = v[k]
  <2>1. \A k \in 1 .. s : z[k] = 0
    BY <1>1
  <2> QED BY <1>2, <2>1, Xors
<1>5. Xor(v, z) = v
  BY <1>3, <1>4 DEF Bytes
<1> QED BY <1>2, <1>4, <1>5 DEF z

(* The resolver of xor and pxor. *)
XorOps == {"xor", "pxor"}
XorResolver(i, L) ==
  LET w == Fit(L.val[2], Size(L.src[1]))
  IN  IF sees(L, {1, 2}, {1})
      THEN IF asserted_xor(L.val[1], w, L.aft[1]) THEN L ELSE abort(L)
      ELSE from_two(L, Xor(L.val[1], w), Xor(L.aft[1], w), Xor(L.aft[1], L.val[1]))

(* A resolver of an exclusive or is good whatever its defines are.         *)
LEMMA XorResolves ==
  ASSUME NEW i \in Instances, i.op \in XorOps, NEW a, NEW b, TwoRead(i, a, b), Size(a) = Size(b),
         After(i, a) = Xor(Before(i, a), Before(i, b)),
         NEW defs, Complete(inst_handler(i), defs, <<Use(a), Use(b)>>),
         Defined(i, defs)
  PROVE  Good(i)
<1> DEFINE m == Size(a)
           G == [p \in Bytes(m) \X Bytes(m) |-> Xor(p[1], p[2])]
           A1 == [p \in Bytes(m) \X Bytes(m) |-> Xor(p[2], p[1])]
<1>1. /\ m \in {1, 2, 4, 8} /\ m \in Nat \ {0}
      /\ Before(i, a) \in Bytes(m) /\ Before(i, b) \in Bytes(m)
  BY DEF TwoRead
<1>2. m = Size(a) /\ m = Size(b)
  OBVIOUS
<1> HIDE DEF m
<1>3. ASSUME NEW v \in Bytes(m), NEW w \in Bytes(m)
      PROVE  /\ Xor(v, w) \in Bytes(m) /\ Xor(Xor(v, w), w) = v /\ Xor(Xor(v, w), v) = w
             /\ Xor(w, v) = Xor(v, w) /\ G[<<v, w>>] = Xor(v, w) /\ A1[<<w, v>>] = Xor(v, w)
  <2>1. Xor(v, w) \in Bytes(m) /\ Xor(w, v) \in Bytes(m)
        /\ Xor(Xor(v, w), w) = v /\ Xor(Xor(v, w), v) = w
    BY <1>1, Xors
  <2>2. Xor(w, v) = Xor(v, w)
    <3>1. Xor(v, v) = zero_valset(m) /\ Xor(w, w) = zero_valset(m)
      BY <1>1, XorSelf
    <3>2. \A p, q \in Byte : XorByte(p, q) = XorByte(q, p)
      <4> SUFFICES ASSUME NEW p \in Byte, NEW q \in Byte PROVE XorByte(p, q) = XorByte(q, p)
        OBVIOUS
      <4>1. Byte \subseteq Int /\ ByteBits \in Nat
        BY ByteBitsFacts DEF Byte
      <4>2. /\ Bits(p, ByteBits) \in [1 .. ByteBits -> {0, 1}]
            /\ Bits(q, ByteBits) \in [1 .. ByteBits -> {0, 1}]
        BY <4>1, BitsHold
      <4>3. [k \in DOMAIN Bits(p, ByteBits) |-> (Bits(p, ByteBits)[k] + Bits(q, ByteBits)[k]) % 2] =
            [k \in DOMAIN Bits(q, ByteBits) |-> (Bits(q, ByteBits)[k] + Bits(p, ByteBits)[k]) % 2]
        BY <4>2
      <4> QED BY <4>3 DEF XorByte, ByBits, Bytewise
    <3>3. \A k \in 1 .. m : v[k] \in Byte /\ w[k] \in Byte
      BY DEF Bytes
    <3>4. DOMAIN v = 1 .. m /\ DOMAIN w = 1 .. m
      BY DEF Bytes
    <3> QED BY <3>2, <3>3, <3>4 DEF Xor, Bytewise
  <2> QED BY <2>1, <2>2
<1> HIDE DEF G, A1
<1>4. Reversible(i, a, b, G, A1, A1)
  <2>1. \A v \in Bytes(m), w \in Bytes(m) :
          /\ G[<<v, w>>] \in Bytes(m) /\ A1[<<w, G[<<v, w>>]>>] = v /\ A1[<<v, G[<<v, w>>]>>] = w
          /\ A1[<<w, v>>] \in Bytes(m) /\ G[<<A1[<<w, v>>], w>>] = v
          /\ G[<<w, A1[<<w, v>>]>>] = v
    <3> SUFFICES ASSUME NEW v \in Bytes(m), NEW w \in Bytes(m)
                 PROVE  /\ G[<<v, w>>] \in Bytes(m) /\ A1[<<w, G[<<v, w>>]>>] = v
                        /\ A1[<<v, G[<<v, w>>]>>] = w
                        /\ A1[<<w, v>>] \in Bytes(m) /\ G[<<A1[<<w, v>>], w>>] = v
                        /\ G[<<w, A1[<<w, v>>]>>] = v
      OBVIOUS
    <3> DEFINE u == Xor(v, w)
    <3>1. u \in Bytes(m) /\ G[<<v, w>>] = u /\ A1[<<w, v>>] = u /\ Xor(u, w) = v /\ Xor(u, v) = w
      BY <1>3
    <3> HIDE DEF u
    <3>2. A1[<<w, u>>] = Xor(u, w) /\ A1[<<v, u>>] = Xor(u, v) /\ G[<<u, w>>] = Xor(u, w)
      BY <1>3, <3>1
    <3>3. G[<<w, u>>] = Xor(w, u) /\ Xor(w, u) = Xor(u, w)
      BY <1>3, <3>1
    <3> QED BY <3>1, <3>2, <3>3
  <2>2. After(i, a) = G[<<Before(i, a), Before(i, b)>>]
    BY <1>1, <1>3
  <2>3. \A v \in Bytes(m), w \in Bytes(m) : G[<<v, w>>] \in Bytes(m) /\ A1[<<w, G[<<v, w>>]>>] = v
    BY <2>1
  <2>4. \A r \in Bytes(m), w \in Bytes(m) : A1[<<w, r>>] \in Bytes(m) /\ G[<<A1[<<w, r>>], w>>] = r
    BY <2>1
  <2>5. /\ \A v \in Bytes(m), w \in Bytes(m) : A1[<<v, G[<<v, w>>]>>] = w
        /\ \A v, r \in Bytes(m) : A1[<<v, r>>] \in Bytes(m) /\ G[<<v, A1[<<v, r>>]>>] = r
    BY <2>1
  <2> QED BY <1>2, <2>2, <2>3, <2>4, <2>5 DEF Reversible
<1>5. ASSUME NEW L, Live(i, L)
      PROVE  /\ inst_resolver(i, L) = XorResolver(i, L)
             /\ Known(L.val[1]) /\ Known(L.val[2]) =>
                  /\ Fit(L.val[2], Size(L.src[1])) = L.val[2]
                  /\ asserted_xor(L.val[1], L.val[2], Xor(L.val[1], L.val[2]))
                  /\ Xor(L.val[1], L.val[2]) = G[<<L.val[1], L.val[2]>>]
             /\ \E f, first, second :
                  /\ TwoWay(L, f, first, second, m, m, G, A1, A1)
                  /\ ~ sees(L, {1, 2}, {1}) => XorResolver(i, L) = from_two(L, f, first, second)
  <2> DEFINE w == Fit(L.val[2], Size(L.src[1]))
  <2>1. /\ L.src[1] = a /\ L.dst[1] = a /\ Ready(L) /\ 1 \in DOMAIN L.aft
        /\ Known(L.val[1]) => L.val[1] \in Bytes(m)
        /\ Known(L.val[2]) => L.val[2] \in Bytes(m)
    BY <1>2, <1>5 DEF TwoRead
  <2>2. Known(L.aft[1]) => L.aft[1] \in Bytes(m)
    BY <1>2, <2>1 DEF Ready, Sized
  <2>3. inst_resolver(i, L) = XorResolver(i, L)
    BY DEF XorOps, inst_resolver, unknown_resolver, VectorNames, pxor_resolver, XorResolver, Xor
  <2>4. Known(L.val[2]) => w = L.val[2]
    BY <1>1, <1>2, <2>1, BytesKnown
  <2>5. Known(L.val[1]) /\ Known(L.val[2]) =>
          /\ asserted_xor(L.val[1], L.val[2], Xor(L.val[1], L.val[2]))
          /\ Xor(L.val[1], L.val[2]) = G[<<L.val[1], L.val[2]>>]
    BY <1>1, <1>3, <2>1, AssertedXor
  <2>6. ~ sees(L, {1, 2}, {1}) =>
          XorResolver(i, L) =
          from_two(L, Xor(L.val[1], w), Xor(L.aft[1], w), Xor(L.aft[1], L.val[1]))
    BY DEF XorResolver
  <2>7. TwoWay(L, Xor(L.val[1], w), Xor(L.aft[1], w), Xor(L.aft[1], L.val[1]), m, m, G, A1, A1)
    <3>1. Known(L.val[2]) /\ Known(L.aft[1])
          => Fit(Xor(L.aft[1], w), m) = A1[<<L.val[2], L.aft[1]>>]
      <4> SUFFICES ASSUME Known(L.val[2]), Known(L.aft[1])
                   PROVE  Fit(Xor(L.aft[1], w), m) = A1[<<L.val[2], L.aft[1]>>]
        OBVIOUS
      <4>1. Xor(L.aft[1], L.val[2]) \in Bytes(m)
            /\ A1[<<L.val[2], L.aft[1]>>] = Xor(L.aft[1], L.val[2])
        BY <1>3, <2>1, <2>2
      <4> QED BY <1>1, <2>4, <4>1, BytesKnown
    <3>2. Known(L.val[1]) /\ Known(L.aft[1]) =>
            Fit(Xor(L.aft[1], L.val[1]), m) = A1[<<L.val[1], L.aft[1]>>]
      <4> SUFFICES ASSUME Known(L.val[1]), Known(L.aft[1])
                   PROVE  Fit(Xor(L.aft[1], L.val[1]), m) = A1[<<L.val[1], L.aft[1]>>]
        OBVIOUS
      <4>1. Xor(L.aft[1], L.val[1]) \in Bytes(m)
            /\ A1[<<L.val[1], L.aft[1]>>] = Xor(L.aft[1], L.val[1])
        BY <1>3, <2>1, <2>2
      <4> QED BY <1>1, <4>1, BytesKnown
    <3> QED BY <2>4, <2>5, <3>1, <3>2 DEF TwoWay
  <2> QED BY <2>3, <2>4, <2>5, <2>6, <2>7
<1>6. ASSUME NEW K1, Live(i, K1) PROVE Resolved(i, K1, inst_resolver(i, K1))
  <2>1. CASE sees(K1, {1, 2}, {1}) /\ asserted_xor(K1.val[1], K1.val[2], K1.aft[1])
    <3>1. inst_resolver(i, K1) = K1
      BY <1>5, <1>6, <2>1 DEF XorResolver, sees
    <3>2. Fine(i, K1, K1)
      BY <1>6, FineRefl DEF Live
    <3>3. AllWritten(K1)
      BY <1>6, <2>1 DEF AllWritten, TwoRead, sees
    <3> QED BY <3>1, <3>2, <3>3 DEF Resolved
  <2>2. CASE sees(K1, {1, 2}, {1}) /\ ~ asserted_xor(K1.val[1], K1.val[2], K1.aft[1])
    <3>1. inst_resolver(i, K1) = abort(K1)
      BY <1>5, <1>6, <2>2 DEF XorResolver, sees
    <3>2. ~ Honest(i, K1)
      <4> SUFFICES ASSUME Honest(i, K1) PROVE FALSE
        OBVIOUS
      <4>1. K1.val[1] = Before(i, a) /\ K1.val[2] = Before(i, b)
        BY <1>6, <2>2 DEF TwoRead, sees
      <4>2. K1.aft[1] = After(i, a)
        BY <1>6, <2>2 DEF TwoRead, sees, Honest
      <4>3. asserted_xor(K1.val[1], K1.val[2], Xor(K1.val[1], K1.val[2]))
        BY <1>5, <1>6, <2>2 DEF sees
      <4> QED BY <2>2, <4>1, <4>2, <4>3
    <3>3. Knowledge(K1)
      BY <1>6 DEF Live, Ready
    <3>4. abort(K1).out # "ok"
      BY <3>3 DEF abort, Knowledge
    <3> QED BY <3>1, <3>2, <3>4 DEF Resolved, XorOps
  <2>3. CASE ~ sees(K1, {1, 2}, {1})
    <3> DEFINE K2 == inst_resolver(i, K1)
    <3>1. PICK f, first, second : /\ TwoWay(K1, f, first, second, m, m, G, A1, A1)
                                  /\ K2 = from_two(K1, f, first, second)
      BY <1>5, <1>6, <2>3
    <3> HIDE DEF K2
    <3>2. Fine(i, K1, K2) /\ Grows(K1, K2) /\ (K2.out = "ok" => Joint(K2, G))
      BY <1>2, <1>4, <1>6, <3>1, FromTwo
    <3>3. ASSUME K2.out = "ok"
          PROVE  inst_resolver(i, K2) = K2 /\ (AllRead(K2) => AllWritten(K2))
      <4>1. Live(i, K2)
        BY <1>6, <3>2, <3>3, LiveOn
      <4>2. CASE sees(K2, {1, 2}, {1})
        <5>1. Known(K2.val[1]) /\ Known(K2.val[2]) /\ K2.aft[1] = G[<<K2.val[1], K2.val[2]>>]
          BY <3>2, <3>3, <4>2 DEF Joint, sees
        <5>2. /\ inst_resolver(i, K2) = XorResolver(i, K2)
              /\ Fit(K2.val[2], Size(K2.src[1])) = K2.val[2]
              /\ asserted_xor(K2.val[1], K2.val[2], K2.aft[1])
          BY <1>5, <4>1, <5>1
        <5> QED BY <4>1, <4>2, <5>2 DEF XorResolver, AllWritten, TwoRead, sees
      <4>3. CASE ~ sees(K2, {1, 2}, {1})
        <5>1. PICK f2, first2, second2 :
                 /\ TwoWay(K2, f2, first2, second2, m, m, G, A1, A1)
                 /\ inst_resolver(i, K2) = from_two(K2, f2, first2, second2)
          BY <1>5, <4>1, <4>3
        <5>2. inst_resolver(i, K2) = K2
          BY <1>2, <1>4, <3>2, <3>3, <4>1, <5>1, JointStays
        <5>3. ~ AllRead(K2)
          <6>1. ~ (Known(K2.val[1]) /\ Known(K2.val[2]))
            BY <3>2, <3>3, <4>3 DEF Joint, sees
          <6> QED BY <4>1, <6>1 DEF AllRead, TwoRead
        <5> QED BY <5>2, <5>3
      <4> QED BY <4>2, <4>3
    <3> QED BY <3>2, <3>3 DEF Resolved, K2
  <2> QED BY <2>1, <2>2, <2>3
<1> QED BY <1>6, LiveFirst

(* xor and pxor; of a register with itself the result is known at once. *)
LEMMA GoodXor ==
  ASSUME NEW i \in Instances, i.op \in XorOps, Supported(i) PROVE Good(i)
<1> DEFINE a == i.dst
           b == i.src
           itself == Form(i) = RR /\ i.dst = i.src
           zero == DefineAs(a, zero_valset(Size(a)))
<1>1. Handled(i) /\ inst_handler(i) = pxor_handler(i) /\ SameSize(i)
  BY DEF XorOps, Supported, inst_handler, VectorNames, JccNames, NotHandled, unknown_handler
<1>2. ~ itself => TwoUses(i, a, b)
  <2>1. ~ itself => inst_handler(i) = Accept(i, {RR, RM, RI}, DstSrc(i))
    BY <1>1 DEF pxor_handler
  <2> QED BY <1>1, <2>1, DstSrcUses
<1>3. itself => Complete(inst_handler(i), <<zero>>, <<Use(a), Use(b)>>)
  <2> SUFFICES ASSUME itself PROVE Complete(inst_handler(i), <<zero>>, <<Use(a), Use(b)>>)
    OBVIOUS
  <2>1. inst_handler(i) = <<zero, Use(a), Use(b)>>
    BY <1>1 DEF pxor_handler
  <2>2. a.t # "mem" /\ b.t # "mem"
    BY DEF Form, RR
  <2> HIDE DEF a, b, zero
  <2>3. Complete(<<zero>>, <<zero>>, <<>>)
    BY <2>2, MadeFirst DEF zero
  <2>4. Complete(<<zero>> \o <<Use(a)>>, <<zero>>, Append(<<>>, Use(a)))
    BY <2>2, <2>3, ThenUse
  <2>5. Complete((<<zero>> \o <<Use(a)>>) \o <<Use(b)>>, <<zero>>,
        Append(Append(<<>>, Use(a)), Use(b)))
    BY <2>2, <2>4, ThenUse
  <2>6. (<<zero>> \o <<Use(a)>>) \o <<Use(b)>> = <<zero, Use(a), Use(b)>>
    <3>1. <<zero>> \o <<Use(a)>> = <<zero, Use(a)>>
      BY Joins
    <3>2. <<zero, Use(a)>> \o <<Use(b)>> = <<zero, Use(a), Use(b)>>
      BY Joins
    <3> QED BY <3>1, <3>2
  <2>7. Append(Append(<<>>, Use(a)), Use(b)) = <<Use(a), Use(b)>>
    BY Tuples
  <2> QED BY <2>1, <2>5, <2>6, <2>7
<1>4. TwoRead(i, a, b)
  <2>1. DOMAIN <<zero>> = {1} /\ <<zero>>[1].o = a
    BY DEF DefineAs
  <2>2. itself => TwoRead(i, a, b)
    BY <1>3, <2>1, TwoReadOf
  <2> QED BY <1>2, <2>2 DEF TwoUses
<1>5. /\ Size(a) = Size(b) /\ Size(a) \in Nat
      /\ Before(i, a) \in Bytes(Size(a)) /\ Before(i, b) \in Bytes(Size(b))
  BY <1>1, <1>4 DEF SameSize, Size, TwoRead
<1>6. After(i, a) = Xor(Before(i, a), Before(i, b)) /\ Only(i, a)
  <2>1. SourceValue(i) = Before(i, b)
    BY <1>5, Fits DEF SourceValue
  <2>2. Logic(i) = (a.place := Xor(Before(i, a), Before(i, b)))
    BY <2>1 DEF Logic, Xor, XorOps
  <2>3. Effect(i) = (a.place := Xor(Before(i, a), Before(i, b)))
    BY <2>2 DEF Effect, ArithmeticNames, LogicNames, MoveNames, StringNames, XorOps
  <2> QED BY <2>3, Writes
<1>7. itself => /\ zero_valset(Size(a)) \in Bytes(Size(a))
                /\ zero_valset(Size(a)) = After(i, a)
  BY <1>5, <1>6, XorSelf
<1>8. CASE itself
  <2>1. Defined(i, <<zero>>)
    <3>1. DOMAIN <<zero>> = {1} /\ <<zero>>[1].o = a /\ <<zero>>[1].aft = zero_valset(Size(a))
      BY DEF DefineAs
    <3> HIDE DEF zero, a
    <3> QED BY <1>6, <1>7, <1>8, <3>1 DEF Defined, Only
  <2> HIDE DEF zero, a, b
  <2> QED BY <1>3, <1>4, <1>5, <1>6, <1>8, <2>1, XorResolves
<1>9. CASE ~ itself
  <2>1. Defined(i, <<Define(a)>>)
    <3>1. After(i, a) \in Bytes(Size(a))
      <4>1. Before(i, b) \in Bytes(Size(a))
        BY <1>5
      <4> HIDE DEF a, b
      <4> QED BY <1>5, <1>6, <4>1, Xors
    <3> HIDE DEF a
    <3> QED BY <1>6, <3>1, OneDefined
  <2>2. Complete(inst_handler(i), <<Define(a)>>, <<Use(a), Use(b)>>)
    BY <1>2, <1>9 DEF TwoUses
  <2> HIDE DEF a, b
  <2> QED BY <1>4, <1>5, <1>6, <2>1, <2>2, XorResolves
<1> QED BY <1>8, <1>9

(***************************************************************************)
(* Exchanges and the stack.                                                *)
(***************************************************************************)
(* xchg. *)
LEMMA GoodXchg ==
  ASSUME NEW i \in Instances, i.op = "xchg", Supported(i) PROVE Good(i)
<1> DEFINE a == i.dst
           b == i.src
           n == Size(a)
           defs == <<Define(a), Define(b)>>
           uses == <<Use(a), Use(b)>>
           nodes == DefineAt(a) \o <<Define(b)>> \o UseAt(a) \o <<Use(b)>>
<1>1. Handled(i) /\ SameSize(i)
  BY DEF Supported, JccNames
<1>2. inst_handler(i) = nodes /\ b.t # "mem"
  <2>1. inst_handler(i) = Accept(i, {RR, MR}, nodes)
    BY DEF inst_handler, VectorNames, JccNames, NotHandled, xchg_handler
  <2> HIDE DEF nodes
  <2>2. inst_handler(i) = nodes /\ Form(i) \in {RR, MR}
    BY <1>1, <2>1, Accepted
  <2> QED BY <2>2 DEF Form, RR, MR
<1>3. Complete(inst_handler(i), defs, uses)
  <2> HIDE DEF a, b
  <2>1. Complete(DefineAt(a), <<Define(a)>>, <<>>)
    BY MadeFirst
  <2>2. Complete(DefineAt(a) \o <<Define(b)>>, Append(<<Define(a)>>, Define(b)), <<>>)
    BY <1>2, <2>1, ThenDefine
  <2>3. Complete(DefineAt(a) \o <<Define(b)>> \o UseAt(a),
                 Append(<<Define(a)>>, Define(b)), Append(<<>>, Use(a)))
    BY <2>2, ThenUseAt
  <2>4. Complete(DefineAt(a) \o <<Define(b)>> \o UseAt(a) \o <<Use(b)>>,
                 Append(<<Define(a)>>, Define(b)), Append(Append(<<>>, Use(a)), Use(b)))
    BY <1>2, <2>3, ThenUse
  <2>5. Append(<<Define(a)>>, Define(b)) = defs /\ Append(Append(<<>>, Use(a)), Use(b)) = uses
    BY Tuples
  <2> QED BY <1>2, <2>4, <2>5
<1>4. /\ DOMAIN defs = {1, 2} /\ defs[1] = Define(a) /\ defs[2] = Define(b)
      /\ DOMAIN uses = {1, 2} /\ uses[1] = Use(a) /\ uses[2] = Use(b)
  OBVIOUS
<1>5. Size(b) = n /\ n = Size(a)
  BY <1>1 DEF SameSize, Size
<1> HIDE DEF defs, uses, nodes, n
<1>6. /\ defs[1].o = a /\ defs[2].o = b /\ uses[1].o = a /\ uses[2].o = b
      /\ defs[1].aft = <<>> /\ defs[2].aft = <<>>
      /\ Before(i, a) \in Bytes(n) /\ Before(i, b) \in Bytes(n) /\ n \in Nat \ {0}
  <2> HIDE DEF a, b
  <2> QED BY <1>3, <1>4, <1>5, NodesOf
<1>7. After(i, a) = Before(i, b) /\ After(i, b) = Before(i, a)
      /\ Changed(i) \subseteq {a.place, b.place}
  <2>1. Effect(i) = (a.place := Before(i, b)) ++ (b.place := Before(i, a))
    <3>1. Move(i) = (a.place := Before(i, b)) ++ (b.place := Before(i, a))
      BY DEF Move
    <3> QED BY <3>1 DEF Effect, ArithmeticNames, LogicNames, MoveNames, StringNames
  <2> HIDE DEF a, b
  <2>2. /\ Changed(i) \subseteq {a.place, b.place} /\ After(i, a) = Before(i, b)
        /\ b.place # a.place => After(i, b) = Before(i, a)
        /\ b.place = a.place => After(i, b) = Before(i, b)
    BY <2>1, TwoCells
  <2> QED BY <2>2 DEF Before
<1> HIDE DEF a, b
<1>8. Defined(i, defs)
  BY <1>4, <1>5, <1>6, <1>7 DEF Defined
<1> DEFINE s == Copy(1, 2, n)
           t == Copy(2, 1, n)
<1>9. /\ s.kind = "tie" /\ s.u = 1 /\ s.d = 2 /\ t.kind = "tie" /\ t.u = 2 /\ t.d = 1
  BY PartFields
<1>10. \A L : Live(i, L) => Meant(i, L, s) /\ TrueOf(i, L, s)
  BY <1>3, <1>4, <1>5, <1>6, <1>7, CopyMeant
<1>11. \A L : Live(i, L) => Meant(i, L, t) /\ TrueOf(i, L, t)
  BY <1>3, <1>4, <1>5, <1>6, <1>7, CopyMeant
<1>12. \A L : Acts(L, s, copies(L, 1, 2)) /\ Acts(copies(L, 1, 2), t, inst_resolver(i, L))
  <2>1. \A L : Acts(L, s, copies(L, 1, 2)) /\ Acts(L, t, copies(L, 2, 1))
    BY <1>6, CopyActs
  <2>2. \A L : inst_resolver(i, L) = copies(copies(L, 1, 2), 2, 1)
    BY DEF inst_resolver, VectorNames, xchg_resolver
  <2> HIDE DEF s, t
  <2> QED BY <2>1, <2>2
<1> HIDE DEF s, t
<1>13. \A L : Live(i, L) => \A j \in DOMAIN defs : Known(L.aft[j]) \/ Writer(s, L, j)
              \/ Writer(t, L, j)
  BY <1>4, <1>9 DEF Writer
<1>14. s.u # t.u /\ s.d # t.d
  BY <1>9
<1> QED BY <1>3, <1>8, <1>10, <1>11, <1>12, <1>13, <1>14, Resolves2

(* A tie of a define to a use. *)
LEMMA TiePart ==
  ASSUME NEW i \in Instances, NEW defs, NEW uses, Complete(inst_handler(i), defs, uses),
         NEW u \in DOMAIN uses, NEW d \in DOMAIN defs, NEW n, NEW m,
         Size(uses[u].o) = n, Size(defs[d].o) = m,
         NEW F \in [Bytes(n) -> Bytes(m)], NEW B \in [Bytes(m) -> Bytes(n)],
         \A v \in Bytes(n) : B[F[v]] = v, After(i, defs[d].o) = F[Before(i, uses[u].o)]
  PROVE  \A L : Live(i, L) => Meant(i, L, TieOf(u, d, n, m, F, B))
                /\ TrueOf(i, L, TieOf(u, d, n, m, F, B))
<1> DEFINE t == TieOf(u, d, n, m, F, B)
<1>1. t.kind = "tie" /\ t.u = u /\ t.d = d /\ t.n = n /\ t.m = m /\ t.F = F /\ t.B = B
  BY DEF TieOf
<1> HIDE DEF t
<1>2. ASSUME NEW L, Live(i, L) PROVE Meant(i, L, t) /\ TrueOf(i, L, t)
  <2>1. /\ u \in DOMAIN L.val /\ d \in DOMAIN L.aft /\ L.src[u] = uses[u].o /\ L.dst[d] = defs[d].o
        /\ Before(i, uses[u].o) \in Bytes(n) /\ n \in Nat \ {0} /\ m \in Nat \ {0}
    BY <1>2, LiveNodes
  <2>2. TieMeant(i, L, t)
    BY <1>1, <2>1 DEF TieMeant
  <2>3. TrueOf(i, L, t)
    BY <1>1, <2>1 DEF TrueOf
  <2> QED BY <1>1, <2>2, <2>3 DEF Meant
<1> QED BY <1>2 DEF t

(* A define and a use, one after the other. *)
LEMMA ThenPair ==
  ASSUME NEW nodes, NEW defs, NEW uses, Complete(nodes, defs, uses),
         NEW o, o.t # "mem", NEW p, p.t # "mem"
  PROVE  Complete(nodes \o <<Define(o), Use(p)>>, Append(defs, Define(o)), Append(uses, Use(p)))
<1> DEFINE e == Define(o)
           f == Use(p)
<1>1. Complete(nodes \o <<e>>, Append(defs, e), uses)
  BY ThenDefine
<1>2. Complete((nodes \o <<e>>) \o <<f>>, Append(defs, e), Append(uses, f))
  BY <1>1, ThenUse
<1>3. (nodes \o <<e>>) \o <<f>> = nodes \o <<e, f>>
  <2>1. PICK S : nodes \in Seq(S)
    BY DEF Complete, Made
  <2> DEFINE T == S \cup {e, f}
  <2> HIDE DEF e, f
  <2>2. nodes \in Seq(T) /\ <<e>> \in Seq(T) /\ <<f>> \in Seq(T)
    BY <2>1
  <2> HIDE DEF T
  <2>3. (nodes \o <<e>>) \o <<f>> = nodes \o (<<e>> \o <<f>>)
    BY <2>2, Assoc
  <2>4. <<e>> \o <<f>> = <<e, f>>
    BY Joins
  <2> QED BY <2>3, <2>4
<1> QED BY <1>2, <1>3

(* The steps of the stack pointer. *)
LEMMA StackSteps ==
  /\ Up \in Bytes(DW) /\ Down \in Bytes(DW) /\ DW \in Nat \ {0}
  /\ \A v \in Bytes(DW) : SubVal(v, Up) = AddVal(v, Down)
<1>1. DW \in Nat \ {0} /\ DW \in Int /\ 0 - DW \in Int
  BY OperandsAssumption
<1>2. Up \in Bytes(DW) /\ Up = ToBytes(DW, DW)
  BY <1>1, ByteNumbers DEF Up, ADDR_SIZE_IN_BYTE
<1>3. ToNum(Up) \in Nat
  BY <1>1, <1>2, ByteNumbers
<1>4. Down = ToBytes(0 - DW, DW) /\ Down \in Bytes(DW)
  BY <1>1, <1>2, ModBytes DEF Down, ADDR_SIZE_IN_BYTE
<1>5. Mod(0 - ToNum(Up), Up) = Down
  <2>1. ToBytes(0 - ToNum(Up), DW) = ToBytes(0 - DW, DW)
    <3>1. \A m, k \in Int : ToBytes(k - ToNum(ToBytes(m, DW)), DW) = ToBytes(k - m, DW)
      BY <1>1, ByteNumbers
    <3>2. 0 \in Int
      OBVIOUS
    <3> QED BY <1>1, <1>2, <3>1, <3>2
  <2>2. Mod(0 - ToNum(Up), Up) = ToBytes(0 - ToNum(Up), DW)
    BY <1>1, <1>2, <1>3, ModBytes
  <2> QED BY <1>4, <2>1, <2>2
<1>6. \A v \in Bytes(DW) : AddVal(v, Mod(0 - ToNum(Up), Up)) = SubVal(v, Up)
  BY <1>1, <1>2, SumsJoined
<1> QED BY <1>1, <1>2, <1>4, <1>5, <1>6

(* The operands of the stack. *)
LEMMA StackOperands ==
  /\ Esp.t = "reg" /\ Esp.place = "esp" /\ Size(Esp) = DW
  /\ EspOnce.t = "reg" /\ EspOnce.place = "esp, first" /\ Size(EspOnce) = DW
  /\ Ebp.t = "reg" /\ Ebp.place = "ebp" /\ Size(Ebp) = DW
  /\ Eip.t = "reg" /\ Eip.place = "eip" /\ Size(Eip) = DW
  /\ StackMem.t = "mem" /\ StackMem.place = "stk" /\ Size(StackMem) = DW
  BY Sizes DEF Esp, EspOnce, Ebp, Eip, StackMem, Dword, R, Operand, Size

(* push: a narrower source is extended. *)
LEMMA GoodPush ==
  ASSUME NEW i \in Instances, i.op = "push", Supported(i) PROVE Good(i)
<1> DEFINE a == StackMem
           b == i.src
           c == Esp
           n == Size(b)
           defs == <<Define(a), Define(c)>>
           uses == <<Use(b)>>
<1>1. i.src.dt \in Small
  BY DEF Supported, JccNames
<1>2. inst_handler(i) = DefineAt(a) \o <<Define(c)>> \o UseAt(b)
  BY DEF inst_handler, VectorNames, JccNames, NotHandled, push_handler
<1>3. Complete(inst_handler(i), defs, uses)
  <2>0. c.t # "mem"
    BY StackOperands
  <2> HIDE DEF a, b, c
  <2>1. Complete(DefineAt(a), <<Define(a)>>, <<>>)
    BY MadeFirst
  <2>2. Complete(DefineAt(a) \o <<Define(c)>>, Append(<<Define(a)>>, Define(c)), <<>>)
    BY <2>0, <2>1, ThenDefine
  <2>3. Complete(DefineAt(a) \o <<Define(c)>> \o UseAt(b),
                 Append(<<Define(a)>>, Define(c)), Append(<<>>, Use(b)))
    BY <2>2, ThenUseAt
  <2>4. Append(<<Define(a)>>, Define(c)) = defs /\ Append(<<>>, Use(b)) = uses
    BY Tuples
  <2> QED BY <1>2, <2>3, <2>4
<1>4. /\ DOMAIN defs = {1, 2} /\ defs[1] = Define(a) /\ defs[2] = Define(c)
      /\ DOMAIN uses = {1} /\ uses[1] = Use(b)
  OBVIOUS
<1>5. Size(a) = DW /\ Size(c) = DW /\ c.place = "esp" /\ a.place = "stk" /\ n = Size(b)
  BY StackOperands
<1> HIDE DEF defs, uses, n
<1>6. /\ defs[1].o = a /\ defs[2].o = c /\ uses[1].o = b /\ defs[1].aft = <<>> /\ defs[2].aft = <<>>
      /\ Before(i, b) \in Bytes(n) /\ n \in Nat \ {0} /\ Before(i, c) \in Bytes(DW)
      /\ b.dt \in Range(Datatypes)
  <2> HIDE DEF a, b, c
  <2>1. /\ defs[1].o = a /\ defs[2].o = c /\ uses[1].o = b /\ defs[1].aft = <<>>
           /\ defs[2].aft = <<>>
        /\ Before(i, b) \in Bytes(n) /\ n \in Nat \ {0} /\ Before(i, c) \in Bytes(DW)
        /\ Valid(i, b)
    BY <1>3, <1>4, <1>5, NodesOf
  <2> QED BY <2>1 DEF Valid
<1>7. n <= DW
  BY <1>1, <1>5, Sizes, WordAssumption DEF Small, Size
<1> DEFINE F == [v \in Bytes(n) |-> sign_extend_valset(v, DW)]
           B == [w \in Bytes(DW) |-> Fit(w, n)]
<1>8. /\ F \in [Bytes(n) -> Bytes(DW)] /\ B \in [Bytes(DW) -> Bytes(n)]
      /\ \A v \in Bytes(n) : B[F[v]] = v /\ F[v] = sign_extend_valset(v, DW) /\ Fit(F[v], DW) = F[v]
      /\ \A w \in Bytes(DW) : B[w] = Fit(w, n)
  <2>1. \A v \in Bytes(n) : sign_extend_valset(v, DW) \in Bytes(DW)
                            /\ Fit(sign_extend_valset(v, DW), n) = v
    <3>1. \A v \in Bytes(n) : sign_extend_valset(v, DW) \in Bytes(DW)
                              /\ (n <= DW => Fit(sign_extend_valset(v, DW), n) = v)
      BY <1>6, StackSteps, Fits
    <3> QED BY <1>7, <3>1
  <2>2. \A w \in Bytes(DW) : Fit(w, n) \in Bytes(n) /\ Fit(w, DW) = w
    BY <1>6, StackSteps, Fits
  <2> QED BY <2>1, <2>2
<1> HIDE DEF F, B
<1>9. /\ After(i, a) = F[Before(i, b)] /\ After(i, c) = AddVal(Before(i, c), Down)
      /\ Changed(i) \subseteq {"stk", "esp"}
  <2>1. Effect(i) = ("stk" := sign_extend_valset(Before(i, b), DW))
        ++ ("esp" := SubVal(Before(i, c), Up))
    <3>1. Control(i) = ("stk" := sign_extend_valset(Before(i, b), DW))
          ++ ("esp" := SubVal(Before(i, c), Up))
      BY <1>5 DEF Control, Before
    <3> QED BY <3>1 DEF Effect, ArithmeticNames, LogicNames, MoveNames, StringNames
  <2> HIDE DEF a, b, c
  <2>2. /\ Changed(i) \subseteq {"stk", "esp"} /\ After(i, a) = sign_extend_valset(Before(i, b), DW)
        /\ "esp" # "stk" => After(i, c) = SubVal(Before(i, c), Up)
    BY <1>5, <2>1, TwoCells
  <2> QED BY <1>6, <1>8, <2>2, StackSteps
<1> HIDE DEF a, b, c
<1>10. Defined(i, defs)
  <2>1. F[Before(i, b)] \in Bytes(DW) /\ AddVal(Before(i, c), Down) \in Bytes(DW)
    BY <1>6, <1>8, StackSteps, SumsUndone
  <2> QED BY <1>4, <1>5, <1>6, <1>9, <2>1 DEF Defined
<1> DEFINE s == TieOf(1, 1, n, DW, F, B)
           t == StepBy(2, Down)
<1>11. s.kind = "tie" /\ s.u = 1 /\ s.d = 1 /\ t.kind = "step" /\ t.u = 0 /\ t.d = 2
       /\ s.n = n /\ s.m = DW /\ s.F = F /\ s.B = B
  BY PartFields DEF TieOf
<1>12. \A L : Live(i, L) => Meant(i, L, s) /\ TrueOf(i, L, s)
  BY <1>3, <1>4, <1>5, <1>6, <1>8, <1>9, TiePart
<1>13. /\ \A L : Acts(L, t, steps(L, 2, Down))
       /\ \A L : Live(i, L) => Meant(i, L, t) /\ TrueOf(i, L, t)
  BY <1>3, <1>4, <1>6, <1>9, StackSteps, StepPart
<1>14. \A L : LET L1 == both_ways(L, 1, 1, sign_extend_valset(L.val[1], DW), L.aft[1])
              IN  Acts(L, s, L1) /\ Acts(L1, t, inst_resolver(i, L))
  <2> SUFFICES ASSUME NEW L
               PROVE  LET L1 == both_ways(L, 1, 1, sign_extend_valset(L.val[1], DW), L.aft[1])
                      IN  Acts(L, s, L1) /\ Acts(L1, t, inst_resolver(i, L))
    OBVIOUS
  <2> DEFINE L1 == both_ways(L, 1, 1, sign_extend_valset(L.val[1], DW), L.aft[1])
  <2>1. inst_resolver(i, L) = steps(L1, 2, Down)
    BY DEF inst_resolver, VectorNames, push_resolver
  <2> HIDE DEF s, t
  <2>2. TieActs(L, s, L1)
    BY <1>8, <1>11 DEF TieActs
  <2>3. Acts(L, s, L1)
    BY <1>11, <2>2 DEF Acts
  <2> HIDE DEF L1
  <2> QED BY <1>13, <2>1, <2>3 DEF L1
<1> HIDE DEF s, t
<1>15. \A L : Live(i, L) => \A j \in DOMAIN defs : Known(L.aft[j]) \/ Writer(s, L, j)
              \/ Writer(t, L, j)
  <2>1. \A L : Live(i, L) => L.dst[2] = c
    BY <1>3, <1>4, <1>6, LiveNodes
  <2> QED BY <1>4, <1>5, <1>11, <2>1 DEF Writer
<1>16. s.u # t.u /\ s.d # t.d
  BY <1>11
<1> QED BY <1>3, <1>10, <1>12, <1>13, <1>14, <1>15, <1>16, Resolves2

(* pop, to another register than esp. *)
LEMMA GoodPop ==
  ASSUME NEW i \in Instances, i.op = "pop", Supported(i) PROVE Good(i)
<1> DEFINE a == Esp
           b == i.dst
           c == StackMem
           defs == <<Define(a), Define(b)>>
           uses == <<Use(c)>>
<1>1. b.dt = "dword" /\ b.place # "esp" /\ Size(b) = DW
  BY Sizes DEF Supported, JccNames, Size
<1>2. inst_handler(i) = <<Define(a)>> \o DefineAt(b) \o UseAt(c)
  BY DEF inst_handler, VectorNames, JccNames, NotHandled, pop_handler
<1>3. Complete(inst_handler(i), defs, uses)
  <2>0. a.t # "mem"
    BY StackOperands
  <2> HIDE DEF a, b, c
  <2>1. Complete(<<Define(a)>>, <<Define(a)>>, <<>>)
    BY <2>0, MadeFirst
  <2>2. Complete(<<Define(a)>> \o DefineAt(b), Append(<<Define(a)>>, Define(b)), <<>>)
    BY <2>1, ThenDefineAt
  <2>3. Complete(<<Define(a)>> \o DefineAt(b) \o UseAt(c),
                 Append(<<Define(a)>>, Define(b)), Append(<<>>, Use(c)))
    BY <2>2, ThenUseAt
  <2>4. Append(<<Define(a)>>, Define(b)) = defs /\ Append(<<>>, Use(c)) = uses
    BY Tuples
  <2> QED BY <1>2, <2>3, <2>4
<1>4. /\ DOMAIN defs = {1, 2} /\ defs[1] = Define(a) /\ defs[2] = Define(b)
      /\ DOMAIN uses = {1} /\ uses[1] = Use(c)
  OBVIOUS
<1>5. Size(a) = DW /\ Size(c) = DW /\ c.place = "stk" /\ a.place = "esp"
  BY StackOperands
<1> HIDE DEF defs, uses
<1>6. /\ defs[1].o = a /\ defs[2].o = b /\ uses[1].o = c /\ defs[1].aft = <<>> /\ defs[2].aft = <<>>
      /\ Before(i, a) \in Bytes(DW) /\ Before(i, c) \in Bytes(DW)
  <2> HIDE DEF a, b, c
  <2> QED BY <1>3, <1>4, <1>5, NodesOf
<1>7. /\ After(i, a) = AddVal(Before(i, a), Up) /\ After(i, b) = Before(i, c)
      /\ Changed(i) \subseteq {"esp", b.place}
  <2>1. Effect(i) = ("esp" := AddVal(Before(i, a), Up)) ++ (b.place := Before(i, c))
    <3>1. Control(i) = ("esp" := AddVal(Before(i, a), Up)) ++ (b.place := Before(i, c))
      BY <1>5 DEF Control, Before
    <3> QED BY <3>1 DEF Effect, ArithmeticNames, LogicNames, MoveNames, StringNames
  <2> HIDE DEF a, b, c
  <2> QED BY <1>1, <1>5, <2>1, TwoCells
<1> HIDE DEF a, b, c
<1>8. Defined(i, defs)
  <2>1. AddVal(Before(i, a), Up) \in Bytes(DW)
    BY <1>6, StackSteps, SumsUndone
  <2> QED BY <1>1, <1>4, <1>5, <1>6, <1>7, <2>1 DEF Defined
<1> DEFINE s == Copy(1, 2, DW)
           t == StepBy(1, Up)
<1>9. s.kind = "tie" /\ s.u = 1 /\ s.d = 2 /\ t.kind = "step" /\ t.u = 0 /\ t.d = 1
  BY PartFields
<1>10. \A L : Live(i, L) => Meant(i, L, s) /\ TrueOf(i, L, s)
  BY <1>1, <1>3, <1>4, <1>5, <1>6, <1>7, CopyMeant
<1>11. /\ \A L : Acts(L, t, steps(L, 1, Up))
       /\ \A L : Live(i, L) => Meant(i, L, t) /\ TrueOf(i, L, t)
  BY <1>3, <1>4, <1>6, <1>7, StackSteps, StepPart
<1>12. \A L : Acts(L, s, copies(L, 1, 2)) /\ Acts(copies(L, 1, 2), t, inst_resolver(i, L))
  <2>1. \A L : Acts(L, s, copies(L, 1, 2))
    BY StackSteps, CopyActs
  <2>2. \A L : inst_resolver(i, L) = steps(copies(L, 1, 2), 1, Up)
    BY DEF inst_resolver, VectorNames, pop_resolver
  <2> HIDE DEF s, t
  <2> QED BY <1>11, <2>1, <2>2
<1> HIDE DEF s, t
<1>13. \A L : Live(i, L) => \A j \in DOMAIN defs : Known(L.aft[j]) \/ Writer(s, L, j)
              \/ Writer(t, L, j)
  <2>1. \A L : Live(i, L) => L.dst[1] = a
    BY <1>3, <1>4, <1>6, LiveNodes
  <2> QED BY <1>4, <1>5, <1>9, <2>1 DEF Writer
<1>14. s.u # t.u /\ s.d # t.d
  BY <1>9
<1> QED BY <1>3, <1>8, <1>10, <1>11, <1>12, <1>13, <1>14, Resolves2

(* leave: esp takes the frame pointer and then passes the cell it points to. *)
LEMMA GoodLeave ==
  ASSUME NEW i \in Instances, i.op = "leave", Supported(i) PROVE Good(i)
<1> DEFINE a == Esp
           b == Ebp
           c == StackMem
           e == EspOnce
           defs == <<Define(a), Define(b), Define(e)>>
           uses == <<Use(c), Use(b)>>
<1>2. inst_handler(i) = <<Define(a), Define(b)>> \o UseAt(c) \o <<Define(e), Use(b)>>
  BY DEF inst_handler, VectorNames, JccNames, NotHandled, leave_handler
<1>3. Complete(inst_handler(i), defs, uses)
  <2>0. a.t # "mem" /\ b.t # "mem" /\ e.t # "mem"
    BY StackOperands
  <2> HIDE DEF a, b, c, e
  <2>1. Complete(<<Define(a)>>, <<Define(a)>>, <<>>)
    BY <2>0, MadeFirst
  <2>2. Complete(<<Define(a)>> \o <<Define(b)>>, Append(<<Define(a)>>, Define(b)), <<>>)
    BY <2>0, <2>1, ThenDefine
  <2>3. <<Define(a)>> \o <<Define(b)>> = <<Define(a), Define(b)>>
    BY Joins
  <2>4. Complete(<<Define(a), Define(b)>> \o UseAt(c),
                 Append(<<Define(a)>>, Define(b)), Append(<<>>, Use(c)))
    BY <2>2, <2>3, ThenUseAt
  <2>5. Complete((<<Define(a), Define(b)>> \o UseAt(c)) \o <<Define(e), Use(b)>>,
                 Append(Append(<<Define(a)>>, Define(b)), Define(e)),
                 Append(Append(<<>>, Use(c)), Use(b)))
    BY <2>0, <2>4, ThenPair
  <2>6. Append(<<Define(a)>>, Define(b)) = <<Define(a), Define(b)>>
        /\ Append(<<Define(a), Define(b)>>, Define(e)) = defs
        /\ Append(<<>>, Use(c)) = <<Use(c)>> /\ Append(<<Use(c)>>, Use(b)) = uses
    BY Tuples
  <2> QED BY <1>2, <2>5, <2>6
<1>4. /\ DOMAIN defs = {1, 2, 3} /\ defs[1] = Define(a) /\ defs[2] = Define(b)
         /\ defs[3] = Define(e)
      /\ DOMAIN uses = {1, 2} /\ uses[1] = Use(c) /\ uses[2] = Use(b)
  OBVIOUS
<1>5. /\ Size(a) = DW /\ Size(b) = DW /\ Size(c) = DW /\ Size(e) = DW
      /\ c.place = "stk" /\ a.place = "esp" /\ b.place = "ebp" /\ e.place = "esp, first"
  BY StackOperands
<1> HIDE DEF defs, uses
<1>6. /\ defs[1].o = a /\ defs[2].o = b /\ defs[3].o = e /\ uses[1].o = c /\ uses[2].o = b
      /\ defs[1].aft = <<>> /\ defs[2].aft = <<>> /\ defs[3].aft = <<>>
      /\ Before(i, a) \in Bytes(DW) /\ Before(i, c) \in Bytes(DW) /\ Before(i, b) \in Bytes(DW)
  <2> HIDE DEF a, b, c, e
  <2>1. /\ \A k \in DOMAIN uses : \A o : uses[k] = Use(o) =>
              uses[k].o = o /\ Before(i, o) \in Bytes(Size(o))
        /\ \A j \in DOMAIN defs : \A o : defs[j] = Define(o) =>
              defs[j].o = o /\ Before(i, o) \in Bytes(Size(o)) /\ defs[j].aft = <<>>
    BY <1>3, NodesOf
  <2>2. uses[1].o = c /\ Before(i, c) \in Bytes(Size(c))
    BY <1>4, <2>1
  <2>3. uses[2].o = b
    BY <1>4, <2>1
  <2>4. defs[1].o = a /\ Before(i, a) \in Bytes(Size(a)) /\ defs[1].aft = <<>>
    BY <1>4, <2>1
  <2>5. defs[2].o = b /\ Before(i, b) \in Bytes(Size(b)) /\ defs[2].aft = <<>>
    BY <1>4, <2>1
  <2>6. defs[3].o = e /\ defs[3].aft = <<>>
    BY <1>4, <2>1
  <2> QED BY <1>5, <2>2, <2>3, <2>4, <2>5, <2>6
<1>7. /\ After(i, a) = AddVal(Before(i, a), Up) /\ After(i, b) = Before(i, c)
      /\ After(i, e) = Before(i, b) /\ Changed(i) \subseteq {"esp, first", "ebp", "esp"}
  <2>1. Effect(i) = ("esp, first" := Before(i, b)) ++ ("ebp" := Before(i, c)) ++
                    ("esp" := AddVal(Before(i, a), Up))
    <3>1. Control(i) = ("esp, first" := Before(i, b)) ++ ("ebp" := Before(i, c)) ++
                       ("esp" := AddVal(Before(i, a), Up))
      BY <1>5 DEF Control, Before
    <3> QED BY <3>1 DEF Effect, ArithmeticNames, LogicNames, MoveNames, StringNames
  <2> HIDE DEF a, b, c, e
  <2>2. "esp, first" # "ebp" /\ "esp, first" # "esp" /\ "ebp" # "esp"
    OBVIOUS
  <2>3. /\ Changed(i) \subseteq {"esp, first", "ebp", "esp"}
        /\ \A o : o.place = "esp, first" => After(i, o) = Before(i, b)
        /\ \A o : o.place = "ebp" => After(i, o) = Before(i, c)
        /\ \A o : o.place = "esp" => After(i, o) = AddVal(Before(i, a), Up)
    <3> DEFINE p == "esp, first"
               q == "ebp"
               r == "esp"
               u == Before(i, b)
               v == Before(i, c)
               w == AddVal(Before(i, a), Up)
    <3>1. p # q /\ p # r /\ q # r /\ Effect(i) = (p := u) ++ (q := v) ++ (r := w)
      BY <2>1, <2>2
    <3> HIDE DEF p, q, r, u, v, w
    <3>2. /\ Changed(i) \subseteq {p, q, r}
          /\ \A o : o.place = p => After(i, o) = u
          /\ \A o : o.place = q => After(i, o) = v
          /\ \A o : o.place = r => After(i, o) = w
      BY <3>1, ThreeCells
    <3> QED BY <3>2 DEF p, q, r, u, v, w
  <2> QED BY <1>5, <2>3
<1> HIDE DEF a, b, c, e
<1>8. Defined(i, defs)
  <2>1. AddVal(Before(i, a), Up) \in Bytes(DW)
    BY <1>6, StackSteps, SumsUndone
  <2>2. ASSUME NEW j \in DOMAIN defs
        PROVE  After(i, defs[j].o) \in Bytes(Size(defs[j].o)) /\ defs[j].aft = <<>>
    BY <1>4, <1>5, <1>6, <1>7, <2>1
  <2>3. ASSUME NEW p \in Changed(i)
        PROVE  \E j \in DOMAIN defs : defs[j].o.place = p
    <3>1. defs[1].o.place = "esp" /\ defs[2].o.place = "ebp" /\ defs[3].o.place = "esp, first"
      BY <1>5, <1>6
    <3>2. 1 \in DOMAIN defs /\ 2 \in DOMAIN defs /\ 3 \in DOMAIN defs
      BY <1>4
    <3>3. p = "esp" \/ p = "ebp" \/ p = "esp, first"
      BY <1>7
    <3> QED BY <3>1, <3>2, <3>3
  <2> QED BY <2>2, <2>3 DEF Defined
<1> DEFINE s == Copy(1, 2, DW)
           t == Copy(2, 3, DW)
           r == StepBy(1, Up)
<1>9. /\ s.kind = "tie" /\ s.u = 1 /\ s.d = 2 /\ t.kind = "tie" /\ t.u = 2 /\ t.d = 3
      /\ r.kind = "step" /\ r.u = 0 /\ r.d = 1
  BY PartFields
<1>0. /\ 1 \in DOMAIN uses /\ 2 \in DOMAIN uses /\ 2 \in DOMAIN defs /\ 3 \in DOMAIN defs
      /\ Size(uses[1].o) = DW /\ Size(uses[2].o) = DW /\ Size(defs[2].o) = DW
         /\ Size(defs[3].o) = DW
      /\ After(i, defs[2].o) = Before(i, uses[1].o) /\ After(i, defs[3].o) = Before(i, uses[2].o)
  BY <1>4, <1>5, <1>6, <1>7
<1>10. \A L : Live(i, L) => Meant(i, L, s) /\ TrueOf(i, L, s)
  BY <1>0, <1>3, CopyMeant
<1>11. \A L : Live(i, L) => Meant(i, L, t) /\ TrueOf(i, L, t)
  BY <1>0, <1>3, CopyMeant
<1>12. /\ \A L : Acts(L, r, steps(L, 1, Up))
       /\ \A L : Live(i, L) => Meant(i, L, r) /\ TrueOf(i, L, r)
  BY <1>3, <1>4, <1>6, <1>7, StackSteps, StepPart
<1>13. \A L : /\ Acts(L, s, copies(L, 1, 2))
                 /\ Acts(copies(L, 1, 2), t, copies(copies(L, 1, 2), 2, 3))
              /\ Acts(copies(copies(L, 1, 2), 2, 3), r, inst_resolver(i, L))
  <2>1. \A L : Acts(L, s, copies(L, 1, 2)) /\ Acts(L, t, copies(L, 2, 3))
    BY StackSteps, CopyActs
  <2>2. \A L : inst_resolver(i, L) = steps(copies(copies(L, 1, 2), 2, 3), 1, Up)
    BY DEF inst_resolver, VectorNames, leave_resolver
  <2> HIDE DEF s, t, r
  <2> QED BY <1>12, <2>1, <2>2
<1> HIDE DEF s, t, r
<1>14. \A L : Live(i, L) => \A j \in DOMAIN defs :
         Known(L.aft[j]) \/ Writer(s, L, j) \/ Writer(t, L, j) \/ Writer(r, L, j)
  <2>1. \A L : Live(i, L) => L.dst[1] = a
    BY <1>3, <1>4, <1>6, LiveNodes
  <2> QED BY <1>4, <1>5, <1>9, <2>1 DEF Writer
<1>15. s.u # t.u /\ s.d # t.d /\ s.u # r.u /\ s.d # r.d /\ t.u # r.u /\ t.d # r.d
  BY <1>9
<1> QED BY <1>3, <1>8, <1>10, <1>11, <1>12, <1>13, <1>14, <1>15, Resolves3

(***************************************************************************)
(* Transfers of control.                                                   *)
(***************************************************************************)
(* jmp: its use is the address of the next instruction. *)
LEMMA GoodJmp ==
  ASSUME NEW i \in Instances, i.op = "jmp", Supported(i) PROVE Good(i)
<1> DEFINE b == i.src
<1>1. b.t = "rel" \/ i.next = Before(i, b)
  BY DEF Supported, JccNames, LeadsToNext
<1>2. inst_handler(i) = IF b.t = "rel" THEN <<>> ELSE UseAt(b)
  BY DEF inst_handler, VectorNames, JccNames, NotHandled, jmp_handler, Target
<1>3. \A L : inst_resolver(i, L) = IF L.src = <<>> THEN L ELSE
                  IF Known(L.val[1]) THEN L ELSE put(L, "val", 1, Next_address(i))
  BY DEF inst_resolver, VectorNames, jmp_resolver, goes_to_next, sees
<1>4. Changed(i) = {}
  <2>1. Effect(i) = NoChange
    <3>1. Control(i) = NoChange
      BY DEF Control
    <3> QED BY <3>1 DEF Effect, ArithmeticNames, LogicNames, MoveNames, StringNames
  <2>2. DOMAIN NoChange = {}
    BY DEF NoChange
  <2> QED BY <2>1, <2>2 DEF Changed
<1>5. Defined(i, <<>>)
  BY <1>4 DEF Defined
<1>6. CASE b.t = "rel"
  <2>1. Complete(inst_handler(i), <<>>, <<>>)
    BY <1>2, <1>6, MadeNone
  <2>2. \A L : Live(i, L) => L.src = <<>> /\ DOMAIN L.aft = {}
    <3> SUFFICES ASSUME NEW L, Live(i, L) PROVE L.src = <<>> /\ DOMAIN L.aft = {}
      OBVIOUS
    <3>1. Shaped(i, L, <<>>, <<>>)
      BY <2>1, LiveShape
    <3>2. [k \in DOMAIN <<>> |-> <<>>[k].o] = <<>> /\ DOMAIN <<>> = {}
      OBVIOUS
    <3> QED BY <3>1, <3>2 DEF Shaped
  <2>3. \A L : Live(i, L) => inst_resolver(i, L) = L
    BY <1>3, <2>2
  <2>4. \A L : Live(i, L) => AllWritten(L)
    BY <2>2 DEF AllWritten
  <2> QED BY <1>5, <2>1, <2>3, <2>4, NothingSaid
<1>7. CASE b.t # "rel"
  <2> DEFINE uses == <<Use(b)>>
             t == FillWith(1, i.next)
  <2>1. Complete(inst_handler(i), <<>>, uses)
    BY <1>2, <1>7, MadeFirst
  <2>2. DOMAIN uses = {1} /\ uses[1] = Use(b) /\ DOMAIN <<>> = {}
    OBVIOUS
  <2> HIDE DEF uses
  <2>3. uses[1].o = b /\ Before(i, b) \in Bytes(Size(b)) /\ Size(b) \in Nat \ {0}
    <3> HIDE DEF b
    <3> QED BY <2>1, <2>2, NodesOf
  <2>4. i.next = Before(i, uses[1].o) /\ Next_address(i) = i.next
    <3>1. Known(Before(i, b))
      BY <2>3, BytesKnown
    <3> QED BY <1>1, <1>7, <2>3, <3>1 DEF Next_address, Known
  <2>5. \A L : Live(i, L) => L.src # <<>>
    <3> SUFFICES ASSUME NEW L, Live(i, L) PROVE L.src # <<>>
      OBVIOUS
    <3>1. Shaped(i, L, <<>>, uses)
      BY <2>1, LiveShape
    <3>2. DOMAIN L.src = {1}
      BY <2>2, <3>1 DEF Shaped
    <3>3. DOMAIN <<>> = {}
      OBVIOUS
    <3> QED BY <3>2, <3>3
  <2>6. /\ \A L : Acts(L, t, IF Known(L.val[1]) THEN L ELSE put(L, "val", 1, i.next))
        /\ \A L : Live(i, L) => Meant(i, L, t) /\ TrueOf(i, L, t)
    BY <2>1, <2>2, <2>4, FillPart
  <2>7. \A L : Live(i, L) => Acts(L, t, inst_resolver(i, L))
    <3> HIDE DEF t
    <3>1. \A L : Live(i, L) => inst_resolver(i, L) =
            IF Known(L.val[1]) THEN L ELSE put(L, "val", 1, i.next)
      BY <1>3, <2>4, <2>5
    <3> QED BY <2>6, <3>1
  <2> HIDE DEF t
  <2>8. \A L : Live(i, L) => \A j \in DOMAIN <<>> : Known(L.aft[j]) \/ Writer(t, L, j)
    BY <2>2
  <2> QED BY <1>5, <2>1, <2>6, <2>7, <2>8, Resolves1
<1> QED BY <1>6, <1>7

(* call: the cell it pushes is known from the trace. *)
LEMMA GoodCall ==
  ASSUME NEW i \in Instances, i.op = "call", Supported(i) PROVE Good(i)
<1> DEFINE a == StackMem
           c == Esp
           b == i.src
           first == DefineAs(a, i.return)
           defs == <<first, Define(c)>>
           nodes == <<first, Split(a), Define(c)>>
<1>1. (b.t = "rel" \/ i.next = Before(i, b)) /\ Handled(i)
  BY DEF Supported, JccNames, LeadsToNext
<1>2. inst_handler(i) = nodes \o (IF b.t = "rel" THEN <<>> ELSE UseAt(b))
  <2>1. inst_handler(i) = IF b.t = "rel" /\ Next_address(i) # Before(i, b) THEN Unsupported
                          ELSE nodes \o (IF b.t = "rel" THEN <<>> ELSE UseAt(b))
    BY DEF inst_handler, VectorNames, JccNames, NotHandled, call_handler, Target
  <2>2. inst_handler(i) # Unsupported
    BY <1>1, NotAsserted
  <2> QED BY <2>1, <2>2
<1>3. \A L : inst_resolver(i, L) =
        IF L.src = <<>> THEN steps(L, 2, Down)
        ELSE IF Known(steps(L, 2, Down).val[1]) THEN steps(L, 2, Down)
             ELSE put(steps(L, 2, Down), "val", 1, Next_address(i))
  BY DEF inst_resolver, VectorNames, call_resolver, goes_to_next, sees
<1>4. Complete(nodes, defs, <<>>) /\ \E S : nodes \in Seq(S)
  <2>0. c.t # "mem" /\ a.t = "mem"
    BY StackOperands
  <2> HIDE DEF a, c
  <2>1. Complete(<<first, Split(a)>>, <<first>>, <<>>)
    BY <2>0, MadeFirst
  <2> HIDE DEF first
  <2>2. Complete(<<first, Split(a)>> \o <<Define(c)>>, Append(<<first>>, Define(c)), <<>>)
    BY <2>0, <2>1, ThenDefine
  <2>3. <<first, Split(a)>> \o <<Define(c)>> = nodes
    BY Joins
  <2>5. Append(<<first>>, Define(c)) = defs
    BY Tuples
  <2> HIDE DEF nodes, defs
  <2>4. Complete(nodes, defs, <<>>)
    BY <2>2, <2>3, <2>5
  <2> QED BY <2>4 DEF Complete, Made
<1>5. DOMAIN defs = {1, 2} /\ defs[1] = first /\ defs[2] = Define(c)
  OBVIOUS
<1>6. /\ Size(a) = DW /\ Size(c) = DW /\ c.place = "esp" /\ a.place = "stk"
      /\ first.o = a /\ first.aft = i.return
  BY StackOperands DEF DefineAs
<1>7. i.return \in Bytes(DW) /\ Known(i.return)
  <2>1. i.return \in Bytes(DW)
    BY InstancesAssumption DEF IsInstruction
  <2> QED BY <2>1, StackSteps, BytesKnown
<1>8. \E uses : /\ Complete(inst_handler(i), defs, uses)
                /\ b.t = "rel" => uses = <<>>
                /\ b.t # "rel" => uses = <<Use(b)>>
  <2> HIDE DEF nodes, defs, b
  <2>1. CASE b.t = "rel"
    <3>1. nodes \o <<>> = nodes
      BY <1>4, Assoc
    <3> QED BY <1>2, <1>4, <2>1, <3>1
  <2>2. CASE b.t # "rel"
    <3>1. Complete(nodes \o UseAt(b), defs, Append(<<>>, Use(b)))
      BY <1>4, ThenUseAt
    <3>2. Append(<<>>, Use(b)) = <<Use(b)>>
      BY Tuples
    <3> QED BY <1>2, <2>2, <3>1, <3>2
  <2> QED BY <2>1, <2>2
<1>9. PICK uses : /\ Complete(inst_handler(i), defs, uses)
                  /\ b.t = "rel" => uses = <<>>
                  /\ b.t # "rel" => uses = <<Use(b)>>
  BY <1>8
<1> HIDE DEF defs, nodes
<1>10. /\ defs[1].o = a /\ defs[2].o = c /\ defs[1].aft = i.return /\ defs[2].aft = <<>>
       /\ Before(i, c) \in Bytes(DW)
  <2>1. defs[1].o = a /\ defs[1].aft = i.return
    BY <1>5, <1>6
  <2> HIDE DEF a, c, first
  <2>2. defs[2].o = c /\ defs[2].aft = <<>> /\ Before(i, c) \in Bytes(DW)
    BY <1>5, <1>6, <1>9, NodesOf
  <2> QED BY <2>1, <2>2
<1>11. /\ After(i, a) = i.return /\ After(i, c) = AddVal(Before(i, c), Down)
       /\ Changed(i) \subseteq {"stk", "esp"}
  <2>1. Effect(i) = ("stk" := i.return) ++ ("esp" := SubVal(Before(i, c), Up))
    <3>1. Control(i) = ("stk" := i.return) ++ ("esp" := SubVal(Before(i, c), Up))
      BY <1>6 DEF Control, Before
    <3> QED BY <3>1 DEF Effect, ArithmeticNames, LogicNames, MoveNames, StringNames
  <2> HIDE DEF a, b, c
  <2>2. /\ Changed(i) \subseteq {"stk", "esp"} /\ After(i, a) = i.return
        /\ "esp" # "stk" => After(i, c) = SubVal(Before(i, c), Up)
    BY <1>6, <2>1, TwoCells
  <2> QED BY <1>10, <2>2, StackSteps
<1> HIDE DEF a, b, c, first
<1>12. Defined(i, defs)
  <2>1. AddVal(Before(i, c), Down) \in Bytes(DW)
    BY <1>10, StackSteps, SumsUndone
  <2> QED BY <1>5, <1>6, <1>7, <1>10, <1>11, <2>1 DEF Defined
<1> DEFINE s == StepBy(2, Down)
           t == FillWith(1, i.next)
<1>13. s.kind = "step" /\ s.u = 0 /\ s.d = 2 /\ t.u = 1 /\ t.d = 0
  BY PartFields
<1>14. /\ \A L : Acts(L, s, steps(L, 2, Down))
       /\ \A L : Live(i, L) => Meant(i, L, s) /\ TrueOf(i, L, s)
  BY <1>5, <1>9, <1>10, <1>11, StackSteps, StepPart
<1>15. \A L : Live(i, L) => \A j \in DOMAIN defs : Known(L.aft[j]) \/ Writer(s, L, j)
  <2>1. \A L : Live(i, L) => L.dst[2] = c /\ L.aft[1] = i.return
    BY <1>5, <1>7, <1>9, <1>10, LiveNodes
  <2> HIDE DEF s, t
  <2> QED BY <1>5, <1>6, <1>7, <1>13, <2>1 DEF Writer
<1>16. CASE b.t = "rel"
  <2>1. uses = <<>>
    BY <1>9, <1>16
  <2>2. \A L : Live(i, L) => L.src = <<>>
    <3> SUFFICES ASSUME NEW L, Live(i, L) PROVE L.src = <<>>
      OBVIOUS
    <3>1. Shaped(i, L, defs, <<>>)
      BY <1>9, <2>1, LiveShape
    <3>2. [k \in DOMAIN <<>> |-> <<>>[k].o] = <<>>
      OBVIOUS
    <3> QED BY <3>1, <3>2 DEF Shaped
  <2> HIDE DEF s, t
  <2>3. \A L : Live(i, L) => Acts(L, s, inst_resolver(i, L))
    BY <1>3, <1>14, <2>2
  <2> QED BY <1>9, <1>12, <1>14, <1>15, <2>3, Resolves1
<1>17. CASE b.t # "rel"
  <2>1. DOMAIN uses = {1} /\ uses[1] = Use(b)
    BY <1>9, <1>17
  <2>2. uses[1].o = b /\ Before(i, b) \in Bytes(Size(b)) /\ Size(b) \in Nat \ {0}
    BY <1>9, <2>1, NodesOf
  <2>3. i.next = Before(i, uses[1].o) /\ Next_address(i) = i.next
    <3>1. Known(Before(i, b))
      BY <2>2, BytesKnown
    <3> QED BY <1>1, <1>17, <2>2, <3>1 DEF Next_address, Known
  <2>4. \A L : Live(i, L) => L.src # <<>>
    <3> SUFFICES ASSUME NEW L, Live(i, L) PROVE L.src # <<>>
      OBVIOUS
    <3>1. Shaped(i, L, defs, uses)
      BY <1>9, LiveShape
    <3>2. DOMAIN L.src = {1}
      BY <2>1, <3>1 DEF Shaped
    <3>3. DOMAIN <<>> = {}
      OBVIOUS
    <3> QED BY <3>2, <3>3
  <2>5. /\ \A L : Acts(L, t, IF Known(L.val[1]) THEN L ELSE put(L, "val", 1, i.next))
        /\ \A L : Live(i, L) => Meant(i, L, t) /\ TrueOf(i, L, t)
    BY <1>9, <2>1, <2>3, FillPart
  <2> HIDE DEF s, t
  <2>6. \A L : Live(i, L) => Acts(L, s, steps(L, 2, Down))
               /\ Acts(steps(L, 2, Down), t, inst_resolver(i, L))
    <3>1. \A L : Live(i, L) => inst_resolver(i, L) =
            IF Known(steps(L, 2, Down).val[1]) THEN steps(L, 2, Down)
            ELSE put(steps(L, 2, Down), "val", 1, i.next)
      BY <1>3, <2>3, <2>4
    <3> QED BY <1>14, <2>5, <3>1
  <2>7. s.u # t.u /\ s.d # t.d
    BY <1>13
  <2>8. \A L : Live(i, L) => \A j \in DOMAIN defs : Known(L.aft[j]) \/ Writer(s, L, j)
               \/ Writer(t, L, j)
    BY <1>15
  <2> QED BY <1>9, <1>12, <1>14, <2>5, <2>6, <2>7, <2>8, Resolves2
<1> QED BY <1>16, <1>17

(* Two defines, one after the other. *)
LEMMA ThenDefines ==
  ASSUME NEW nodes, NEW defs, NEW uses, Complete(nodes, defs, uses),
         NEW o, o.t # "mem", NEW p, p.t # "mem", NEW v
  PROVE  Complete(nodes \o <<Define(o), DefineAs(p, v)>>,
         Append(Append(defs, Define(o)), DefineAs(p, v)), uses)
<1> DEFINE e == Define(o)
           f == DefineAs(p, v)
<1>1. Complete(nodes \o <<e>>, Append(defs, e), uses)
  BY ThenDefine
<1>2. Complete((nodes \o <<e>>) \o <<f>>, Append(Append(defs, e), f), uses)
  BY <1>1, ThenDefineAs
<1>3. (nodes \o <<e>>) \o <<f>> = nodes \o <<e, f>>
  <2>1. PICK S : nodes \in Seq(S)
    BY DEF Complete, Made
  <2> DEFINE T == S \cup {e, f}
  <2> HIDE DEF e, f
  <2>2. nodes \in Seq(T) /\ <<e>> \in Seq(T) /\ <<f>> \in Seq(T)
    BY <2>1
  <2> HIDE DEF T
  <2>3. (nodes \o <<e>>) \o <<f>> = nodes \o (<<e>> \o <<f>>)
    BY <2>2, Assoc
  <2>4. <<e>> \o <<f>> = <<e, f>>
    BY Joins
  <2> QED BY <2>3, <2>4
<1> QED BY <1>2, <1>3

(* Nothing added. *)
LEMMA AddZero == ASSUME NEW s \in Nat, NEW v \in Bytes(s) PROVE AddVal(v, <<0>>) = v
<1>1. Radix \in Nat \ {0} /\ [k \in 1 .. 1 |-> 0] = <<0>>
  BY OperandsAssumption
<1>2. ToNum(<<0>>) = 0
  <2>1. Number([k \in 1 .. 1 |-> 0], Radix) = 0
    BY <1>1, ZeroNumber
  <2> QED BY <1>1, <2>1 DEF ToNum
<1>3. ToNum(v) \in Nat /\ ToBytes(ToNum(v), s) = v
  BY ByteNumbers
<1>4. Mod(ToNum(v), v) = v
  BY <1>3, ModBytes
<1> QED BY <1>2, <1>3, <1>4 DEF AddVal

(* ret and ret n: eip is known from the trace, and is what esp pointed to. *)
LEMMA GoodRet ==
  ASSUME NEW i \in Instances, i.op = "ret", Supported(i) PROVE Good(i)
<1> DEFINE a == Esp
           e == Eip
           b == i.src
           c == StackMem
           second == DefineAs(e, i.next)
           defs == <<Define(a), second>>
           short == b.t # "imm"
           u == IF short THEN 1 ELSE 2
           by == IF short THEN Up ELSE AddVal(Up, Before(i, b))
<1>1. i.next = Before(i, c)
  BY StackOperands DEF Supported, JccNames, Before
<1>2. inst_handler(i) =
      (IF b.t = "imm" THEN <<Use(b)>> ELSE <<>>) \o <<Define(a), second>> \o UseAt(c)
  BY DEF inst_handler, VectorNames, JccNames, NotHandled, return_handler
<1>3. \A L : inst_resolver(i, L) =
        steps(copies(L, Len(L.src), 2), 1, IF b.t = "imm" THEN AddVal(Up, L.val[1]) ELSE Up)
        \/ ~ Known(L.aft[2])
  BY DEF inst_resolver, VectorNames, return_resolver, copies, both_ways, sees
<1>4. \E uses : /\ Complete(inst_handler(i), defs, uses)
                /\ short => uses = <<Use(c)>>
                /\ ~ short => uses = <<Use(b), Use(c)>>
  <2>0. a.t # "mem" /\ e.t # "mem"
    BY StackOperands
  <2> DEFINE P == IF b.t = "imm" THEN <<Use(b)>> ELSE <<>>
             Q == IF b.t = "imm" THEN Append(<<>>, Use(b)) ELSE <<>>
  <2>1. Complete(P, <<>>, Q)
    <3>1. CASE b.t = "imm"
      <4>1. b.t # "mem"
        BY <3>1
      <4>2. Append(<<>>, Use(b)) = <<Use(b)>>
        BY Tuples
      <4>3. Complete(<<Use(b)>>, <<>>, <<Use(b)>>)
        BY <4>1, MadeFirst
      <4> QED BY <3>1, <4>2, <4>3
    <3>2. CASE b.t # "imm"
      BY <3>2, MadeNone
    <3> QED BY <3>1, <3>2
  <2>2. inst_handler(i) = P \o <<Define(a), second>> \o UseAt(c)
    BY <1>2
  <2> HIDE DEF P, Q, a, c, b, e
  <2>3. Complete(P \o <<Define(a), second>>, Append(Append(<<>>, Define(a)), second), Q)
    BY <2>0, <2>1, ThenDefines
  <2>4. Append(Append(<<>>, Define(a)), second) = defs
    BY Tuples
  <2> HIDE DEF second, defs
  <2>5. Complete(P \o <<Define(a), second>> \o UseAt(c), defs, Append(Q, Use(c)))
    BY <2>3, <2>4, ThenUseAt
  <2>6. /\ short => Append(Q, Use(c)) = <<Use(c)>>
        /\ ~ short => Append(Q, Use(c)) = <<Use(b), Use(c)>>
    BY Tuples DEF Q
  <2> QED BY <2>2, <2>5, <2>6
<1>5. PICK uses : /\ Complete(inst_handler(i), defs, uses)
                  /\ short => uses = <<Use(c)>>
                  /\ ~ short => uses = <<Use(b), Use(c)>>
  BY <1>4
<1>6. DOMAIN defs = {1, 2} /\ defs[1] = Define(a) /\ defs[2] = second
  OBVIOUS
<1>7. /\ u \in DOMAIN uses /\ uses[u] = Use(c) /\ Len(uses) = u /\ DOMAIN uses = 1 .. u
      /\ ~ short => 1 \in DOMAIN uses /\ uses[1] = Use(b)
  <2> DEFINE f == Use(b)
             g == Use(c)
  <2>1. CASE short
    <3>1. u = 1 /\ uses = <<g>>
      BY <1>5, <2>1
    <3> HIDE DEF g
    <3>2. DOMAIN <<g>> = {1} /\ <<g>>[1] = g /\ Len(<<g>>) = 1 /\ 1 .. 1 = {1}
      OBVIOUS
    <3> QED BY <2>1, <3>1, <3>2 DEF g
  <2>2. CASE ~ short
    <3>1. u = 2 /\ uses = <<f, g>>
      BY <1>5, <2>2
    <3> HIDE DEF f, g
    <3>2. /\ DOMAIN <<f, g>> = {1, 2} /\ <<f, g>>[1] = f /\ <<f, g>>[2] = g /\ Len(<<f, g>>) = 2
          /\ 1 .. 2 = {1, 2}
      OBVIOUS
    <3> QED BY <3>1, <3>2 DEF f, g
  <2> QED BY <2>1, <2>2
<1>8. /\ Size(a) = DW /\ Size(c) = DW /\ Size(e) = DW /\ c.place = "stk" /\ a.place = "esp"
      /\ e.place = "eip" /\ second.o = e /\ second.aft = i.next
  BY StackOperands DEF DefineAs
<1> HIDE DEF defs
<1>9. /\ defs[1].o = a /\ defs[2].o = e /\ defs[1].aft = <<>> /\ defs[2].aft = i.next
      /\ uses[u].o = c /\ Before(i, a) \in Bytes(DW) /\ Before(i, c) \in Bytes(DW)
      /\ ~ short => Before(i, b) \in Bytes(Size(b)) /\ Size(b) \in Nat
  <2>1. defs[2].o = e /\ defs[2].aft = i.next
    BY <1>6, <1>8
  <2> HIDE DEF a, b, c, e, second, u, short
  <2>2. defs[1].o = a /\ defs[1].aft = <<>> /\ Before(i, a) \in Bytes(DW)
    BY <1>5, <1>6, <1>8, NodesOf
  <2>3. uses[u].o = c /\ Before(i, c) \in Bytes(DW)
    BY <1>5, <1>7, <1>8, NodesOf
  <2>4. ~ short => Before(i, b) \in Bytes(Size(b)) /\ Size(b) \in Nat
    BY <1>5, <1>7, NodesOf
  <2> QED BY <2>1, <2>2, <2>3, <2>4
<1>10. Known(i.next) /\ i.next \in Bytes(DW)
  BY <1>1, <1>9, StackSteps, BytesKnown
<1>11. by \in Bytes(DW)
  BY <1>9, StackSteps, SumsUndone
<1>12. /\ After(i, a) = AddVal(Before(i, a), by) /\ After(i, e) = Before(i, c)
       /\ Changed(i) \subseteq {"esp", "eip"}
  <2> DEFINE w == IF b.t = "imm" THEN Before(i, b) ELSE <<0>>
  <2>1. Effect(i) = ("esp" := AddVal(AddVal(Before(i, a), Up), w)) ++ ("eip" := Before(i, c))
    <3>1. Control(i) = ("esp" := AddVal(AddVal(Before(i, a), Up), w)) ++ ("eip" := Before(i, c))
      BY <1>8 DEF Control, Before
    <3> QED BY <3>1 DEF Effect, ArithmeticNames, LogicNames, MoveNames, StringNames
  <2>2. AddVal(AddVal(Before(i, a), Up), w) = AddVal(Before(i, a), by)
    <3>1. CASE short
      <4>1. AddVal(Before(i, a), Up) \in Bytes(DW)
        BY <1>9, StackSteps, SumsUndone
      <4> QED BY <3>1, <4>1, StackSteps, AddZero
    <3>2. CASE ~ short
      <4> HIDE DEF a, b
      <4>1. AddVal(AddVal(Before(i, a), Up), Before(i, b)) =
            AddVal(Before(i, a), AddVal(Up, Before(i, b)))
        BY <1>9, <3>2, StackSteps, SumsJoined
      <4> QED BY <3>2, <4>1
    <3> QED BY <3>1, <3>2
  <2> HIDE DEF a, b, c, e, by, w
  <2>3. /\ Changed(i) \subseteq {"esp", "eip"}
        /\ After(i, a) = AddVal(AddVal(Before(i, a), Up), w)
        /\ "eip" # "esp" => After(i, e) = Before(i, c)
    BY <1>8, <2>1, TwoCells
  <2> QED BY <2>2, <2>3
<1> HIDE DEF a, b, c, e, second, by, u, short
<1>13. Defined(i, defs)
  <2>1. AddVal(Before(i, a), by) \in Bytes(DW)
    BY <1>9, <1>11, StackSteps, SumsUndone
  <2> QED BY <1>1, <1>6, <1>8, <1>9, <1>12, <2>1 DEF Defined
<1> DEFINE s == Copy(u, 2, DW)
           t == StepBy(1, by)
<1>14. s.kind = "tie" /\ s.u = u /\ s.d = 2 /\ t.kind = "step" /\ t.u = 0 /\ t.d = 1
  BY PartFields
<1>15. \A L : Live(i, L) => Meant(i, L, s) /\ TrueOf(i, L, s)
  BY <1>5, <1>6, <1>7, <1>8, <1>9, <1>12, CopyMeant
<1>16. /\ \A L : Acts(L, t, steps(L, 1, by))
       /\ \A L : Live(i, L) => Meant(i, L, t) /\ TrueOf(i, L, t)
  BY <1>5, <1>6, <1>9, <1>11, <1>12, StackSteps, StepPart
<1>17. \A L : Live(i, L) => Acts(L, s, copies(L, u, 2))
              /\ Acts(copies(L, u, 2), t, inst_resolver(i, L))
  <2>1. \A L : Acts(L, s, copies(L, u, 2))
    BY StackSteps, CopyActs
  <2>2. ASSUME NEW L, Live(i, L) PROVE inst_resolver(i, L) = steps(copies(L, u, 2), 1, by)
    <3>1. Shaped(i, L, defs, uses)
      BY <1>5, <2>2, LiveShape
    <3>2. L.aft[2] = i.next
      BY <1>6, <1>9, <1>10, <3>1 DEF Shaped
    <3>3. Len(L.src) = u
      <4>1. L.src = [k \in 1 .. u |-> uses[k].o]
        BY <1>7, <3>1 DEF Shaped
      <4> QED BY <4>1 DEF u
    <3>4. ~ short => L.val[1] = Before(i, b)
      <4>1. \A k \in DOMAIN uses : uses[k].o.t = "imm" => L.val[k] = Before(i, uses[k].o)
        BY <3>1 DEF Shaped
      <4>2. ~ short => uses[1].o = b
        BY <1>7 DEF Use
      <4> QED BY <1>7, <4>1, <4>2 DEF short
    <3>5. by = IF b.t = "imm" THEN AddVal(Up, L.val[1]) ELSE Up
      BY <3>4 DEF by, short
    <3>6. Known(L.aft[2])
      BY <1>10, <3>2
    <3> QED BY <1>3, <3>3, <3>5, <3>6
  <2> HIDE DEF s, t
  <2> QED BY <1>16, <2>1, <2>2
<1>18. \A L : Live(i, L) => \A j \in DOMAIN defs : Known(L.aft[j]) \/ Writer(s, L, j)
              \/ Writer(t, L, j)
  <2>1. \A L : Live(i, L) => L.dst[1] = a
    BY <1>5, <1>6, <1>9, LiveNodes
  <2> HIDE DEF s, t
  <2> QED BY <1>6, <1>8, <1>14, <2>1 DEF Writer
<1>19. s.u # t.u /\ s.d # t.d
  BY <1>14 DEF u
<1> HIDE DEF s, t
<1> QED BY <1>5, <1>13, <1>15, <1>16, <1>17, <1>18, <1>19, Resolves2

(***************************************************************************)
(* String instructions.                                                    *)
(***************************************************************************)
Idle(i) == i.prefix /\ ToNum(i.before["ecx"]) = 0
Data(i) == i.op \in {"movs", "stos", "lods"}

(* The operands of string instructions. *)
LEMMA StringOperands ==
  /\ Ecx.t = "reg" /\ Ecx.place = "ecx" /\ Size(Ecx) = DW
  /\ Esi.t = "reg" /\ Esi.place = "esi" /\ Size(Esi) = DW
  /\ Edi.t = "reg" /\ Edi.place = "edi" /\ Size(Edi) = DW
  BY Sizes DEF Ecx, Esi, Edi, Dword, R, Operand, Size

(* What the tables say of them. *)
LEMMA StringCase ==
  ASSUME NEW i, i.op \in StringNames, Supported(i)
  PROVE  /\ DirectionSeen(i) /\ Handled(i) /\ Effect(i) = String(i)
         /\ i.op = "movs" => SameSize(i) /\ i.dst.place \notin {"edi", "esi", "ecx"}
         /\ i.op = "stos" => /\ SameSize(i) /\ i.dst.place \notin {"edi", "ecx"} /\ i.src.t = "reg"
                             /\ ~ (i.prefix /\ resolve_df(i))
         /\ i.op = "lods" => SameSize(i) /\ i.dst.place # "esi" /\ i.dst.t = "reg" /\ ~ i.prefix
<1>1. i.op \in {"scas", "cmps", "movs", "stos", "lods"}
  BY DEF StringNames
<1>2. Effect(i) = String(i)
  BY <1>1 DEF Effect, ArithmeticNames, LogicNames, MoveNames, StringNames
<1>3. Handled(i)
  BY DEF Supported
<1>4. CASE i.op \in {"scas", "cmps"}
  BY <1>2, <1>3, <1>4 DEF Supported, JccNames
<1>5. CASE i.op = "movs"
  BY <1>2, <1>3, <1>5 DEF Supported, JccNames
<1>6. CASE i.op = "stos"
  BY <1>2, <1>3, <1>6 DEF Supported, JccNames
<1>7. CASE i.op = "lods"
  BY <1>2, <1>3, <1>7 DEF Supported, JccNames
<1> QED BY <1>1, <1>4, <1>5, <1>6, <1>7

(* An index register moves as the direction that was seen says. *)
LEMMA Moving ==
  ASSUME NEW i \in Instances, DirectionSeen(i)
  PROVE  /\ StepOf(i) \in Bytes(DW)
         /\ \A v \in Bytes(DW) : MovesTo(i, v) = AddVal(v, StepOf(i))
<1>0. DW \in Nat
  BY StackSteps
<1>1. Amount(i) \in Bytes(DW)
  <2>1. i.dt \in Range(Datatypes)
    BY InstancesAssumption DEF IsInstruction
  <2>2. translate_datatype_to_byte(i.dt) \in Int
    BY <2>1, Sizes
  <2>3. \A m \in Int : ToBytes(m, DW) \in Bytes(DW)
    BY <1>0, ByteNumbers
  <2> QED BY <2>2, <2>3 DEF Amount
<1>2. Mod(0 - ToNum(Amount(i)), Amount(i)) \in Bytes(DW)
  <2>1. ToNum(Amount(i)) \in Nat
    BY <1>0, <1>1, ByteNumbers
  <2>2. 0 - ToNum(Amount(i)) \in Int
    BY <2>1
  <2> QED BY <1>0, <1>1, <2>2, ModBytes
<1>3. \A v \in Bytes(DW) : AddVal(v, Mod(0 - ToNum(Amount(i)), Amount(i))) = SubVal(v, Amount(i))
  BY <1>0, <1>1, SumsJoined
<1>4. Direction(i) <=> resolve_df(i)
  <2>1. i.flag \in {0, 1}
    BY InstancesAssumption DEF IsInstruction
  <2> QED BY <2>1 DEF Direction, resolve_df, DirectionSeen
<1> QED BY <1>1, <1>2, <1>3, <1>4 DEF StepOf, MovesTo

(* What one iteration does to a place. *)
LEMMA StringEffect ==
  ASSUME NEW i, Effect(i) = String(i)
  PROVE  /\ Idle(i) => Changed(i) = {} /\ \A o : o.place \in DOMAIN i.before
            => After(i, o) = Before(i, o)
         /\ ~ Idle(i) =>
              /\ \A p \in Changed(i) : \/ p \in Touched(i)
                                       \/ i.prefix /\ p = "ecx"
                                       \/ Data(i) /\ p = i.dst.place
              /\ \A o : o.place \in Touched(i) => After(i, o) = MovesTo(i, Before(i, o))
              /\ \A o : i.prefix /\ o.place = "ecx" /\ "ecx" \notin Touched(i) =>
                          After(i, o) = SubVal(Before(i, o), <<1>>)
              /\ \A o : Data(i) /\ o.place = i.dst.place /\ o.place \notin Touched(i)
                          /\ ~ (i.prefix /\ o.place = "ecx") => After(i, o) = Before(i, i.src)
<1> DEFINE moved == [p \in Touched(i) |-> MovesTo(i, i.before[p])]
           count == IF i.prefix THEN "ecx" := SubVal(i.before["ecx"], <<1>>) ELSE NoChange
           data  == IF Data(i) THEN i.dst.place := Before(i, i.src) ELSE NoChange
<1>1. Effect(i) = IF Idle(i) THEN NoChange ELSE moved ++ count ++ data
  BY DEF String, Idle, Data
<1>2. DOMAIN NoChange = {}
  BY DEF NoChange
<1>3. CASE Idle(i)
  BY <1>1, <1>2, <1>3 DEF Changed, After, Before, ++
<1>4. CASE ~ Idle(i)
  <2>1. /\ DOMAIN moved = Touched(i) /\ \A p \in Touched(i) : moved[p] = MovesTo(i, i.before[p])
        /\ i.prefix => DOMAIN count = {"ecx"} /\ count["ecx"] = SubVal(i.before["ecx"], <<1>>)
        /\ ~ i.prefix => DOMAIN count = {}
        /\ Data(i) => DOMAIN data = {i.dst.place} /\ data[i.dst.place] = Before(i, i.src)
        /\ ~ Data(i) => DOMAIN data = {}
    BY <1>2 DEF :=
  <2>2. Effect(i) = (moved ++ count) ++ data
    BY <1>1, <1>4
  <2> HIDE DEF moved, count, data
  <2>3. /\ DOMAIN (moved ++ count) = DOMAIN moved \cup DOMAIN count
        /\ \A p \in DOMAIN moved : (moved ++ count)[p] = moved[p]
        /\ \A p \in DOMAIN count \ DOMAIN moved : (moved ++ count)[p] = count[p]
    BY DEF ++
  <2>4. /\ DOMAIN Effect(i) = (DOMAIN moved \cup DOMAIN count) \cup DOMAIN data
        /\ \A p \in DOMAIN moved \cup DOMAIN count : Effect(i)[p] = (moved ++ count)[p]
        /\ \A p \in DOMAIN data \ (DOMAIN moved \cup DOMAIN count) : Effect(i)[p] = data[p]
    BY <2>2, <2>3 DEF ++
  <2>5. \A o : o.place \in DOMAIN Effect(i) => After(i, o) = Effect(i)[o.place]
    BY DEF After, ++
  <2>6. \A p \in Changed(i) : p \in DOMAIN Effect(i)
    BY DEF Changed
  <2>7. \A o : o.place \in Touched(i) => After(i, o) = MovesTo(i, Before(i, o))
    BY <2>1, <2>3, <2>4, <2>5 DEF Before
  <2>8. \A o : i.prefix /\ o.place = "ecx" /\ "ecx" \notin Touched(i) =>
                 After(i, o) = SubVal(Before(i, o), <<1>>)
    BY <2>1, <2>3, <2>4, <2>5 DEF Before
  <2>9. \A o : Data(i) /\ o.place = i.dst.place /\ o.place \notin Touched(i)
                 /\ ~ (i.prefix /\ o.place = "ecx") => After(i, o) = Before(i, i.src)
    BY <2>1, <2>4, <2>5
  <2> QED BY <1>4, <2>1, <2>4, <2>6, <2>7, <2>8, <2>9
<1> QED BY <1>3, <1>4

(* One step of a string instruction, node k of both lists: what the        *)
(* iteration writes there, and the tie by which the resolver follows it.   *)
Element(i, defs, k, t) ==
  /\ k \in DOMAIN defs
  /\ After(i, defs[k].o) \in Bytes(Size(defs[k].o)) /\ defs[k].aft = <<>>
  /\ t.kind = "tie" /\ t.u = k /\ t.d = k
  /\ \A L : Live(i, L) => Meant(i, L, t) /\ (~ Idle(i) => TrueOf(i, L, t))

(* An index register. *)
LEMMA MovePart ==
  ASSUME NEW i \in Instances, i.op \in StringNames, Supported(i),
         NEW defs, NEW uses, Complete(inst_handler(i), defs, uses),
         NEW o, o \in {Edi, Esi}, o.place \in Touched(i),
         NEW k \in DOMAIN defs, k \in DOMAIN uses, defs[k] = Define(o), uses[k] = Use(o)
  PROVE  /\ Element(i, defs, k, Move1(k, k, DW, StepOf(i)))
         /\ \A L : Acts(L, Move1(k, k, DW, StepOf(i)), moves(i, L, k))
<1>1. Size(o) = DW
  BY StringOperands
<1> HIDE DEF Edi, Esi
<1>2. /\ defs[k].o = o /\ uses[k].o = o /\ defs[k].aft = <<>>
      /\ Before(i, o) \in Bytes(DW) /\ o.place \in DOMAIN i.before
  <2>1. uses[k].o = o /\ Before(i, o) \in Bytes(Size(o)) /\ o.place \in DOMAIN i.before
    BY NodesOf
  <2>2. defs[k].o = o /\ defs[k].aft = <<>>
    BY NodesOf
  <2> QED BY <1>1, <2>1, <2>2
<1>3. /\ StepOf(i) \in Bytes(DW) /\ DW \in Nat \ {0}
      /\ MovesTo(i, Before(i, o)) = AddVal(Before(i, o), StepOf(i))
  BY <1>2, StringCase, Moving, StackSteps
<1>4. AddVal(Before(i, o), StepOf(i)) \in Bytes(DW)
  BY <1>2, <1>3, SumsUndone
<1>5. /\ Idle(i) => After(i, o) = Before(i, o)
      /\ ~ Idle(i) => After(i, o) = AddVal(Before(i, o), StepOf(i))
  <2>1. Effect(i) = String(i)
    BY StringCase
  <2> QED BY <1>2, <1>3, <2>1, StringEffect
<1>6. \A L : Live(i, L) =>
        /\ Meant(i, L, Move1(k, k, DW, StepOf(i)))
        /\ After(i, defs[k].o) = AddVal(Before(i, uses[k].o), StepOf(i)) =>
             TrueOf(i, L, Move1(k, k, DW, StepOf(i)))
  BY <1>1, <1>2, <1>3, Move1Meant
<1>7. Element(i, defs, k, Move1(k, k, DW, StepOf(i)))
  BY <1>1, <1>2, <1>4, <1>5, <1>6, PartFields DEF Element
<1>8. \A L : Acts(L, Move1(k, k, DW, StepOf(i)), moves(i, L, k))
  BY <1>3, Move1Acts DEF moves
<1> QED BY <1>7, <1>8

(* The counter, which is told only downwards. *)
CountTie ==
  TieOf(1, 1, DW, DW, [v \in Bytes(DW) |-> SubVal(v, <<1>>)],
  [v \in Bytes(DW) |-> AddVal(v, <<1>>)])
(* The counter of a repetition is a part of the resolvers of the strings.  *)
LEMMA CountPart ==
  ASSUME NEW i \in Instances, i.op \in StringNames, Supported(i), i.prefix,
         NEW defs, NEW uses, Complete(inst_handler(i), defs, uses),
         1 \in DOMAIN defs, 1 \in DOMAIN uses, defs[1] = Define(Ecx), uses[1] = Use(Ecx)
  PROVE  /\ Element(i, defs, 1, CountTie)
         /\ \A L : Live(i, L) /\ counted(L) => Acts(L, CountTie, counts(L))
         /\ \A L : Live(i, L) /\ counted(L) /\ Honest(i, L) => ~ Idle(i)
         /\ \A L : Live(i, L) /\ ~ counted(L) /\ inst_resolver(i, L) = L => Waits(i, L)
<1> DEFINE F == [v \in Bytes(DW) |-> SubVal(v, <<1>>)]
           B == [v \in Bytes(DW) |-> AddVal(v, <<1>>)]
           o == Ecx
<1>1. o.place = "ecx" /\ Size(o) = DW /\ DW \in Nat \ {0}
  BY StringOperands, StackSteps
<1>2. <<1>> \in Bytes(1)
  BY OperandsAssumption DEF Bytes, Byte
<1>3. /\ F \in [Bytes(DW) -> Bytes(DW)] /\ B \in [Bytes(DW) -> Bytes(DW)]
      /\ \A v \in Bytes(DW) : B[F[v]] = v /\ F[B[v]] = v
      /\ \A v \in Bytes(DW) : F[v] = SubVal(v, <<1>>) /\ B[v] = AddVal(v, <<1>>)
  <2>1. \A v \in Bytes(DW) : /\ SubVal(v, <<1>>) \in Bytes(DW) /\ AddVal(v, <<1>>) \in Bytes(DW)
                             /\ AddVal(SubVal(v, <<1>>), <<1>>) = v
                             /\ SubVal(AddVal(v, <<1>>), <<1>>) = v
    BY <1>1, <1>2, SumsUndone
  <2> QED BY <2>1
<1> HIDE DEF o
<1>4. /\ defs[1].o = o /\ uses[1].o = o /\ defs[1].aft = <<>>
      /\ Before(i, o) \in Bytes(DW) /\ o.place \in DOMAIN i.before
  <2>0. defs[1] = Define(o) /\ uses[1] = Use(o)
    BY DEF o
  <2>1. uses[1].o = o /\ Before(i, o) \in Bytes(Size(o)) /\ o.place \in DOMAIN i.before
    BY <2>0, NodesOf
  <2>2. defs[1].o = o /\ defs[1].aft = <<>>
    BY <2>0, NodesOf
  <2> QED BY <1>1, <2>1, <2>2
<1>5. /\ Idle(i) => After(i, o) = Before(i, o)
      /\ ~ Idle(i) => After(i, o) = F[Before(i, o)]
  <2>1. Effect(i) = String(i)
    BY StringCase
  <2>2. "ecx" \notin Touched(i)
    BY DEF Touched, StringNames
  <2> QED BY <1>1, <1>3, <1>4, <2>1, <2>2, StringEffect
<1>6. \A L : Live(i, L) => /\ L.src[1] = o /\ L.dst[1] = o
                           /\ 1 \in DOMAIN L.val /\ 1 \in DOMAIN L.aft
  BY <1>4, LiveNodes
<1>7. /\ CountTie.kind = "tie" /\ CountTie.u = 1 /\ CountTie.d = 1 /\ CountTie.n = DW
      /\ CountTie.m = DW /\ CountTie.F = F /\ CountTie.B = B
  BY DEF CountTie, TieOf
<1> HIDE DEF F, B
<1>8. \A L : Live(i, L) => Meant(i, L, CountTie) /\ (~ Idle(i) => TrueOf(i, L, CountTie))
  BY <1>1, <1>3, <1>4, <1>5, <1>6, <1>7 DEF Meant, TieMeant, TrueOf
<1>9. Element(i, defs, 1, CountTie)
  <2>1. After(i, o) \in Bytes(DW)
    BY <1>3, <1>4, <1>5
  <2> QED BY <1>1, <1>4, <1>7, <1>8, <2>1 DEF Element
<1>10. ASSUME NEW L, Live(i, L)
       PROVE  /\ L.out = "ok"
              /\ Known(L.val[1]) => L.val[1] \in Bytes(DW)
              /\ Known(L.aft[1]) => L.aft[1] \in Bytes(DW)
              /\ Known(L.val[1]) /\ Honest(i, L) => L.val[1] = Before(i, o)
  <2>1. Ready(L)
    BY <1>10 DEF Live
  <2> QED BY <1>1, <1>6, <1>10, <2>1 DEF Ready, Sized, Honest, SizeAt
<1>11. ASSUME NEW L, Live(i, L), counted(L) PROVE Acts(L, CountTie, counts(L))
  <2>1. L.val[1] \in Bytes(DW) /\ Known(L.val[1])
    BY <1>10, <1>11 DEF counted
  <2>2. counts(L) = tell(L, "aft", 1, SubVal(L.val[1], <<1>>))
    BY DEF counts
  <2>3. \A v \in Bytes(DW) : Fit(v, DW) = v
    BY <1>1, BytesKnown
  <2>4. /\ SubVal(L.val[1], <<1>>) = F[L.val[1]] /\ F[L.val[1]] \in Bytes(DW)
        /\ Fit(F[L.val[1]], DW) = F[L.val[1]]
    BY <1>3, <2>1, <2>3
  <2>5. /\ SizeAt(L, "aft", 1) = DW /\ SizeAt(L, "val", 1) = DW
    BY <1>1, <1>6, <1>11 DEF SizeAt
  <2>6. CASE Known(L.aft[1])
    <3>1. L.aft[1] \in Bytes(DW)
      BY <1>10, <1>11, <2>6
    <3>2. AddVal(L.aft[1], <<1>>) = B[L.aft[1]] /\ Fit(B[L.aft[1]], DW) = B[L.aft[1]]
      BY <1>3, <2>3, <3>1
    <3>3. L.aft[1] = F[L.val[1]] <=> L.val[1] = B[L.aft[1]]
      BY <1>3, <2>1, <3>1
    <3>4. counts(L) = IF L.aft[1] = F[L.val[1]] THEN L ELSE [L EXCEPT !.out = "contra"]
      BY <1>10, <1>11, <2>2, <2>4, <2>5, <2>6 DEF tell, assert_val
    <3>5. both_ways(L, 1, 1, F[L.val[1]], B[L.aft[1]]) =
            IF L.val[1] = B[L.aft[1]] THEN L ELSE [L EXCEPT !.out = "contra"]
      BY <1>10, <1>11, <2>1, <2>5, <2>6, <3>2 DEF both_ways, sees, tell, assert_val
    <3>6. counts(L) = both_ways(L, 1, 1, F[L.val[1]], B[L.aft[1]])
      BY <3>3, <3>4, <3>5
    <3>7. TieActs(L, CountTie, counts(L))
      BY <1>7, <2>4, <3>2, <3>6 DEF TieActs
    <3> QED BY <1>7, <3>7 DEF Acts
  <2>7. CASE ~ Known(L.aft[1])
    <3>1. counts(L) = both_ways(L, 1, 1, F[L.val[1]], <<>>)
      BY <2>1, <2>2, <2>4, <2>7 DEF both_ways, sees
    <3>2. L.aft[1] \notin Bytes(DW)
      BY <1>1, <2>7, BytesKnown
    <3>3. TieActs(L, CountTie, counts(L))
      BY <1>7, <2>4, <3>1, <3>2 DEF TieActs
    <3> QED BY <1>7, <3>3 DEF Acts
  <2> QED BY <2>6, <2>7
<1>12. ASSUME NEW L, Live(i, L), counted(L), Honest(i, L) PROVE ~ Idle(i)
  BY <1>1, <1>10, <1>12 DEF Idle, counted, Before
<1>13. ASSUME NEW L, Live(i, L), ~ counted(L), inst_resolver(i, L) = L PROVE Waits(i, L)
  <2>1. ASSUME Honest(i, L), AllRead(L) PROVE Silent(i)
    <3>1. Known(L.val[1])
      BY <1>6, <1>13, <2>1 DEF AllRead
    <3>2. ToNum(i.before["ecx"]) = 0
      BY <1>1, <1>10, <1>13, <2>1, <3>1 DEF counted, Before
    <3> QED BY <3>2 DEF Silent
  <2> QED BY <1>13, <2>1 DEF Waits
<1> QED BY <1>9, <1>11, <1>12, <1>13

(* The defines of a string instruction cover what it writes. *)
Places(i, defs) ==
  /\ \A p \in Touched(i) : \E j \in DOMAIN defs : defs[j].o.place = p
  /\ i.prefix => \E j \in DOMAIN defs : defs[j].o.place = "ecx"
  /\ Data(i) => \E j \in DOMAIN defs : defs[j].o.place = i.dst.place

(* Every place a string instruction changes has a define.                  *)
LEMMA StringDefined ==
  ASSUME NEW i, i.op \in StringNames, Supported(i), NEW defs, Places(i, defs),
         \A j \in DOMAIN defs :
           After(i, defs[j].o) \in Bytes(Size(defs[j].o)) /\ defs[j].aft = <<>>
  PROVE  Defined(i, defs)
<1>1. Effect(i) = String(i)
  BY StringCase
<1>2. ASSUME NEW p \in Changed(i) PROVE \E j \in DOMAIN defs : defs[j].o.place = p
  <2>1. ~ Idle(i)
    BY <1>1, <1>2, StringEffect
  <2>2. p \in Touched(i) \/ (i.prefix /\ p = "ecx") \/ (Data(i) /\ p = i.dst.place)
    BY <1>1, <1>2, <2>1, StringEffect
  <2> QED BY <2>2 DEF Places
<1> QED BY <1>2 DEF Defined

(***************************************************************************)
(* A string instruction made of two, three or four elements.               *)
(***************************************************************************)
(* Two elements. *)
Runs2(i, a, b) ==
  \A L : Live(i, L) =>
    \/ /\ Honest(i, L) => ~ Idle(i)
       /\ \E L1 : Acts(L, a, L1) /\ Acts(L1, b, inst_resolver(i, L))
    \/ Waits(i, L)
(* A string instruction whose resolver has two parts.                      *)
LEMMA StringTwo ==
  ASSUME NEW i \in Instances, i.op \in StringNames, Supported(i),
         NEW defs, NEW uses, Complete(inst_handler(i), defs, uses), DOMAIN defs = {1, 2},
         Places(i, defs), NEW a, NEW b, Element(i, defs, 1, a), Element(i, defs, 2, b),
         Runs2(i, a, b)
  PROVE  Good(i)
<1>1. i.op \notin {"movq", "xor", "pxor"}
  BY DEF StringNames
<1>2. a.kind = "tie" /\ a.u = 1 /\ a.d = 1 /\ b.kind = "tie" /\ b.u = 2 /\ b.d = 2
  BY DEF Element
<1>3. Defined(i, defs)
  <2>1. \A j \in DOMAIN defs :
           After(i, defs[j].o) \in Bytes(Size(defs[j].o)) /\ defs[j].aft = <<>>
    BY DEF Element
  <2> QED BY <2>1, StringDefined
<1>4. a.u # b.u /\ a.d # b.d
  BY <1>2
<1>5. \A L : Live(i, L) => Meant(i, L, a) /\ Meant(i, L, b)
  BY DEF Element
<1>6. \A L : Live(i, L) => \A j \in DOMAIN defs : Known(L.aft[j]) \/ Writer(a, L, j)
             \/ Writer(b, L, j)
  BY <1>2 DEF Writer
<1> DEFINE q == <<a, b>>
<1>0. Whole2(q, a, b)
  BY Parts2
<1> HIDE DEF q
<1>7. Len(q) \in Nat /\ Distinct(q)
  BY <1>0, <1>4 DEF Whole2
<1>8. ASSUME NEW L, Live(i, L)
      PROVE  /\ AllMeant(i, L, q)
             /\ \A j \in DOMAIN L.aft : WrittenBy(L, q, j)
             /\ Chained(i, L, q)
  <2>1. AllMeant(i, L, q)
    BY <1>0, <1>5, <1>8 DEF Whole2
  <2>2. \A j \in DOMAIN L.aft : WrittenBy(L, q, j)
    <3>1. DOMAIN L.aft = DOMAIN defs
      BY <1>8, LiveNodes
    <3> QED BY <1>0, <1>6, <1>8, <3>1 DEF Whole2
  <2>3. CASE /\ Honest(i, L) => ~ Idle(i)
             /\ \E L1 : Acts(L, a, L1) /\ Acts(L1, b, inst_resolver(i, L))
    <3>1. Honest(i, L) => AllTrue(i, L, q)
      <4>1. Honest(i, L) => TrueOf(i, L, a) /\ TrueOf(i, L, b)
        BY <1>8, <2>3 DEF Element
      <4> QED BY <1>0, <4>1 DEF Whole2
    <3>2. \E r : Chain(L, q, r) /\ inst_resolver(i, L) = r[Len(q)]
      BY <1>0, <2>3 DEF Whole2
    <3> QED BY <2>1, <2>2, <3>1, <3>2 DEF Chained
  <2>4. CASE Waits(i, L)
    BY <2>1, <2>2, <2>4 DEF Chained, Waits
  <2> QED BY <1>8, <2>1, <2>2, <2>3, <2>4 DEF Runs2
<1> QED BY <1>1, <1>3, <1>7, <1>8, AllChained

(* Three elements. *)
Runs3(i, a, b, c) ==
  \A L : Live(i, L) =>
    \/ /\ Honest(i, L) => ~ Idle(i)
       /\ \E L1, L2 : Acts(L, a, L1) /\ Acts(L1, b, L2) /\ Acts(L2, c, inst_resolver(i, L))
    \/ Waits(i, L)
(* A string instruction whose resolver has three parts.                    *)
LEMMA StringThree ==
  ASSUME NEW i \in Instances, i.op \in StringNames, Supported(i),
         NEW defs, NEW uses, Complete(inst_handler(i), defs, uses), DOMAIN defs = {1, 2, 3},
         Places(i, defs), NEW a, NEW b, NEW c, Element(i, defs, 1, a), Element(i, defs, 2, b),
         Element(i, defs, 3, c),
         Runs3(i, a, b, c)
  PROVE  Good(i)
<1>1. i.op \notin {"movq", "xor", "pxor"}
  BY DEF StringNames
<1>2. a.kind = "tie" /\ a.u = 1 /\ a.d = 1 /\ b.kind = "tie" /\ b.u = 2 /\ b.d = 2
      /\ c.kind = "tie" /\ c.u = 3 /\ c.d = 3
  BY DEF Element
<1>3. Defined(i, defs)
  <2>1. \A j \in DOMAIN defs :
           After(i, defs[j].o) \in Bytes(Size(defs[j].o)) /\ defs[j].aft = <<>>
    BY DEF Element
  <2> QED BY <2>1, StringDefined
<1>4. a.u # b.u /\ a.d # b.d /\ a.u # c.u /\ a.d # c.d /\ b.u # c.u /\ b.d # c.d
  BY <1>2
<1>5. \A L : Live(i, L) => Meant(i, L, a) /\ Meant(i, L, b) /\ Meant(i, L, c)
  BY DEF Element
<1>6. \A L : Live(i, L) => \A j \in DOMAIN defs : Known(L.aft[j]) \/ Writer(a, L, j)
             \/ Writer(b, L, j) \/ Writer(c, L, j)
  BY <1>2 DEF Writer
<1> DEFINE q == <<a, b, c>>
<1>0. Whole3(q, a, b, c)
  BY Parts3
<1> HIDE DEF q
<1>7. Len(q) \in Nat /\ Distinct(q)
  BY <1>0, <1>4 DEF Whole3
<1>8. ASSUME NEW L, Live(i, L)
      PROVE  /\ AllMeant(i, L, q)
             /\ \A j \in DOMAIN L.aft : WrittenBy(L, q, j)
             /\ Chained(i, L, q)
  <2>1. AllMeant(i, L, q)
    BY <1>0, <1>5, <1>8 DEF Whole3
  <2>2. \A j \in DOMAIN L.aft : WrittenBy(L, q, j)
    <3>1. DOMAIN L.aft = DOMAIN defs
      BY <1>8, LiveNodes
    <3> QED BY <1>0, <1>6, <1>8, <3>1 DEF Whole3
  <2>3. CASE /\ Honest(i, L) => ~ Idle(i)
             /\ \E L1, L2 : Acts(L, a, L1) /\ Acts(L1, b, L2) /\ Acts(L2, c, inst_resolver(i, L))
    <3>1. Honest(i, L) => AllTrue(i, L, q)
      <4>1. Honest(i, L) => TrueOf(i, L, a) /\ TrueOf(i, L, b) /\ TrueOf(i, L, c)
        BY <1>8, <2>3 DEF Element
      <4> QED BY <1>0, <4>1 DEF Whole3
    <3>2. \E r : Chain(L, q, r) /\ inst_resolver(i, L) = r[Len(q)]
      BY <1>0, <2>3 DEF Whole3
    <3> QED BY <2>1, <2>2, <3>1, <3>2 DEF Chained
  <2>4. CASE Waits(i, L)
    BY <2>1, <2>2, <2>4 DEF Chained, Waits
  <2> QED BY <1>8, <2>1, <2>2, <2>3, <2>4 DEF Runs3
<1> QED BY <1>1, <1>3, <1>7, <1>8, AllChained

(* Four elements. *)
Runs4(i, a, b, c, d) ==
  \A L : Live(i, L) =>
    \/ /\ Honest(i, L) => ~ Idle(i)
       /\ \E L1, L2, L3 : Acts(L, a, L1) /\ Acts(L1, b, L2) /\ Acts(L2, c, L3)
                          /\ Acts(L3, d, inst_resolver(i, L))
    \/ Waits(i, L)
(* A string instruction whose resolver has four parts.                     *)
LEMMA StringFour ==
  ASSUME NEW i \in Instances, i.op \in StringNames, Supported(i),
         NEW defs, NEW uses, Complete(inst_handler(i), defs, uses), DOMAIN defs = {1, 2, 3, 4},
         Places(i, defs), NEW a, NEW b, NEW c, NEW d, Element(i, defs, 1, a),
         Element(i, defs, 2, b), Element(i, defs, 3, c), Element(i, defs, 4, d),
         Runs4(i, a, b, c, d)
  PROVE  Good(i)
<1>1. i.op \notin {"movq", "xor", "pxor"}
  BY DEF StringNames
<1>2. a.kind = "tie" /\ a.u = 1 /\ a.d = 1 /\ b.kind = "tie" /\ b.u = 2 /\ b.d = 2
      /\ c.kind = "tie" /\ c.u = 3 /\ c.d = 3 /\ d.kind = "tie" /\ d.u = 4 /\ d.d = 4
  BY DEF Element
<1>3. Defined(i, defs)
  <2>1. \A j \in DOMAIN defs :
           After(i, defs[j].o) \in Bytes(Size(defs[j].o)) /\ defs[j].aft = <<>>
    BY DEF Element
  <2> QED BY <2>1, StringDefined
<1>4. a.u # b.u /\ a.d # b.d /\ a.u # c.u /\ a.d # c.d /\ a.u # d.u /\ a.d # d.d /\ b.u # c.u
      /\ b.d # c.d /\ b.u # d.u /\ b.d # d.d /\ c.u # d.u /\ c.d # d.d
  BY <1>2
<1>5. \A L : Live(i, L) => Meant(i, L, a) /\ Meant(i, L, b) /\ Meant(i, L, c) /\ Meant(i, L, d)
  BY DEF Element
<1>6. \A L : Live(i, L) => \A j \in DOMAIN defs : Known(L.aft[j]) \/ Writer(a, L, j)
             \/ Writer(b, L, j) \/ Writer(c, L, j) \/ Writer(d, L, j)
  BY <1>2 DEF Writer
<1> DEFINE q == <<a, b, c, d>>
<1>0. Whole4(q, a, b, c, d)
  BY Parts4
<1> HIDE DEF q
<1>7. Len(q) \in Nat /\ Distinct(q)
  BY <1>0, <1>4 DEF Whole4
<1>8. ASSUME NEW L, Live(i, L)
      PROVE  /\ AllMeant(i, L, q)
             /\ \A j \in DOMAIN L.aft : WrittenBy(L, q, j)
             /\ Chained(i, L, q)
  <2>1. AllMeant(i, L, q)
    BY <1>0, <1>5, <1>8 DEF Whole4
  <2>2. \A j \in DOMAIN L.aft : WrittenBy(L, q, j)
    <3>1. DOMAIN L.aft = DOMAIN defs
      BY <1>8, LiveNodes
    <3> QED BY <1>0, <1>6, <1>8, <3>1 DEF Whole4
  <2>3. CASE /\ Honest(i, L) => ~ Idle(i)
             /\ \E L1, L2, L3 : Acts(L, a, L1) /\ Acts(L1, b, L2) /\ Acts(L2, c, L3)
                                /\ Acts(L3, d, inst_resolver(i, L))
    <3>1. Honest(i, L) => AllTrue(i, L, q)
      <4>1. Honest(i, L) => TrueOf(i, L, a) /\ TrueOf(i, L, b) /\ TrueOf(i, L, c) /\ TrueOf(i, L, d)
        BY <1>8, <2>3 DEF Element
      <4> QED BY <1>0, <4>1 DEF Whole4
    <3>2. \E r : Chain(L, q, r) /\ inst_resolver(i, L) = r[Len(q)]
      BY <1>0, <2>3 DEF Whole4
    <3> QED BY <2>1, <2>2, <3>1, <3>2 DEF Chained
  <2>4. CASE Waits(i, L)
    BY <2>1, <2>2, <2>4 DEF Chained, Waits
  <2> QED BY <1>8, <2>1, <2>2, <2>3, <2>4 DEF Runs4
<1> QED BY <1>1, <1>3, <1>7, <1>8, AllChained

(* The datum, copied. *)
LEMMA DataPart ==
  ASSUME NEW i \in Instances, i.op \in StringNames, Supported(i), Data(i),
         NEW defs, NEW uses, Complete(inst_handler(i), defs, uses),
         NEW k \in DOMAIN defs, k \in DOMAIN uses, defs[k] = Define(i.dst), uses[k] = Use(i.src)
  PROVE  /\ Element(i, defs, k, Copy(k, k, Size(i.dst)))
         /\ \A L : Acts(L, Copy(k, k, Size(i.dst)), copies(L, k, k))
<1> DEFINE o == i.dst
           p == i.src
<1>1. /\ Effect(i) = String(i) /\ SameSize(i)
      /\ o.place \notin Touched(i) /\ ~ (i.prefix /\ o.place = "ecx")
  <2>1. i.op \in {"movs", "stos", "lods"}
    BY DEF Data
  <2> QED BY <2>1, StringCase DEF Touched
<1>2. Size(o) = Size(p)
  BY <1>1 DEF SameSize, Size
<1> HIDE DEF o, p
<1>3. /\ defs[k].o = o /\ defs[k].aft = <<>> /\ Before(i, o) \in Bytes(Size(o))
      /\ o.place \in DOMAIN i.before /\ Size(o) \in Nat \ {0}
  <2>0. defs[k] = Define(o)
    BY DEF o
  <2> QED BY <2>0, NodesOf
<1>4. uses[k].o = p /\ Before(i, p) \in Bytes(Size(p))
  <2>0. uses[k] = Use(p)
    BY DEF p
  <2> QED BY <2>0, NodesOf
<1>5. /\ Idle(i) => After(i, o) = Before(i, o)
      /\ ~ Idle(i) => After(i, o) = Before(i, p)
  <2>1. Idle(i) => After(i, o) = Before(i, o)
    BY <1>1, <1>3, StringEffect
  <2>2. ~ Idle(i) => After(i, o) = Before(i, p)
    BY <1>1, StringEffect DEF o, p
  <2> QED BY <2>1, <2>2
<1>6. \A L : Live(i, L) =>
        /\ Meant(i, L, Copy(k, k, Size(o)))
        /\ After(i, defs[k].o) = Before(i, uses[k].o) => TrueOf(i, L, Copy(k, k, Size(o)))
  BY <1>2, <1>3, <1>4, CopyMeant
<1>7. Element(i, defs, k, Copy(k, k, Size(o)))
  BY <1>2, <1>3, <1>4, <1>5, <1>6, PartFields DEF Element
<1>8. \A L : Acts(L, Copy(k, k, Size(o)), copies(L, k, k))
  BY <1>3, CopyActs
<1> QED BY <1>7, <1>8 DEF o

(***************************************************************************)
(* The nodes of string instructions.                                       *)
(***************************************************************************)
IsSeq(p) == \E T : p \in Seq(T)
Linked(p, q)  == p \o q
(* Joining sequences of any elements is associative.                       *)
LEMMA AssocAny ==
  ASSUME NEW p, IsSeq(p), NEW q, IsSeq(q), NEW r, IsSeq(r)
  PROVE  IsSeq(Linked(p, q)) /\ <<>> \o p = p /\ Linked(Linked(p, q), r) = Linked(p, Linked(q, r))
<1>1. PICK T : p \in Seq(T)
  BY DEF IsSeq
<1>2. PICK U : q \in Seq(U)
  BY DEF IsSeq
<1>3. PICK V : r \in Seq(V)
  BY DEF IsSeq
<1> DEFINE S == T \cup U \cup V
<1>4. T \subseteq S /\ U \subseteq S /\ V \subseteq S
  OBVIOUS
<1> HIDE DEF S
<1>5. p \in Seq(S)
  BY <1>1, <1>4
<1>6. q \in Seq(S)
  BY <1>2, <1>4
<1>7. r \in Seq(S)
  BY <1>3, <1>4
<1>8. p \o q \in Seq(S)
  BY <1>5, <1>6
<1>9. <<>> \o p = p /\ (p \o q) \o r = p \o (q \o r)
  BY <1>5, <1>6, <1>7, Assoc
<1> QED BY <1>8, <1>9 DEF IsSeq, Linked

(* A counter in front of one or two index registers and the rest. *)
LEMMA Fronts ==
  ASSUME NEW p, IsSeq(p), NEW q, IsSeq(q), NEW r, IsSeq(r), NEW s, IsSeq(s), NEW t, IsSeq(t)
  PROVE  /\ Linked(p, Linked(Linked(q, r), s)) = Linked(Linked(Linked(p, q), r), s)
         /\ Linked(p, Linked(Linked(Linked(q, r), s), t)) =
            Linked(Linked(Linked(Linked(p, q), r), s), t)
<1>1. IsSeq(Linked(q, r)) /\ Linked(p, Linked(q, r)) = Linked(Linked(p, q), r)
  BY AssocAny
<1>5. IsSeq(Linked(Linked(q, r), s))
  BY AssocAny, <1>1
<1>2. Linked(p, Linked(Linked(q, r), s)) = Linked(Linked(p, Linked(q, r)), s)
  BY AssocAny, <1>1
<1>3. Linked(p, Linked(Linked(Linked(q, r), s), t)) = Linked(Linked(p, Linked(Linked(q, r), s)), t)
  BY AssocAny, <1>5
<1> QED BY <1>1, <1>2, <1>3

(* What the handlers of the strings join are sequences of nodes.           *)
LEMMA PartsSeq ==
  ASSUME NEW o
  PROVE  /\ IsSeq(Both(o)) /\ IsSeq(DefineAt(o)) /\ IsSeq(UseAt(o)) /\ IsSeq(<<Use(o)>>)
         /\ o.t # "mem" => Complete(Both(o), <<Define(o)>>, <<Use(o)>>)
<1>1. Both(o) \in Seq({Define(o), Use(o)}) /\ <<Use(o)>> \in Seq({Use(o)})
  BY DEF Both
<1>2. IsSeq(DefineAt(o)) /\ IsSeq(UseAt(o))
  BY MadeFirst DEF Complete, Made, IsSeq
<1>3. o.t # "mem" => Complete(Both(o), <<Define(o)>>, <<Use(o)>>)
  BY Patterns DEF Both
<1> QED BY <1>1, <1>2, <1>3 DEF IsSeq

(* A fourth element appended. *)
AppendsTo(p, q, r, s) == Append(<<p, q, r>>, s) = <<p, q, r, s>>
(* Such tuples are what Append makes of them.                              *)
LEMMA AppendThree == \A p, q, r, s : AppendsTo(p, q, r, s)
<1> SUFFICES ASSUME NEW p, NEW q, NEW r, NEW s PROVE Append(<<p, q, r>>, s) = <<p, q, r, s>>
  BY DEF AppendsTo
<1> DEFINE t == Append(<<p, q, r>>, s)
<1>1. t \in Seq({p, q, r, s}) /\ Len(t) = 4 /\ t[1] = p /\ t[2] = q /\ t[3] = r /\ t[4] = s
  OBVIOUS
<1> HIDE DEF t
<1>2. t = <<p, q, r, s>>
  BY <1>1
<1> QED BY <1>2 DEF t

(* A repeated scas. *)
LEMMA ScasNodes ==
  ASSUME NEW i, i.op = "scas", Supported(i), i.prefix
  PROVE  Complete(inst_handler(i),
                  <<Define(Ecx), Define(Edi)>>,
                  <<Use(Ecx), Use(Edi)>>)
<1> DEFINE a == i.dst
           b == i.src
<1>1. Handled(i) /\ i.op \in StringNames
  BY DEF Supported, StringNames
<1>2. Ecx.t # "mem" /\ Edi.t # "mem" /\ Esi.t # "mem"
  BY <1>1, StringOperands, StringCase
<1>4. inst_handler(i) = Both(Ecx) \o Both(Edi)
  BY DEF inst_handler, VectorNames, JccNames, NotHandled, strsca_handler
<1>5. Complete(Both(Ecx) \o Both(Edi), <<Define(Ecx), Define(Edi)>>, <<Use(Ecx), Use(Edi)>>)
  <2> DEFINE c1 == Ecx
             c2 == Edi
  <2>0. c1.t # "mem" /\ c2.t # "mem"
    BY <1>2
  <2> HIDE DEF a, b, c1, c2
  <2>1. Complete(Both(c1), <<Define(c1)>>, <<Use(c1)>>)
    BY <2>0, PartsSeq
  <2>2. Complete(Both(c1) \o Both(c2), <<Define(c1), Define(c2)>>, <<Use(c1), Use(c2)>>)
    <3>1. Complete(Both(c1) \o <<Define(c2), Use(c2)>>, Append(<<Define(c1)>>, Define(c2)),
          Append(<<Use(c1)>>, Use(c2)))
      BY <2>0, <2>1, ThenPair
    <3>2. Append(<<Define(c1)>>, Define(c2)) = <<Define(c1), Define(c2)>>
          /\ Append(<<Use(c1)>>, Use(c2)) = <<Use(c1), Use(c2)>>
      BY Tuples
    <3> QED BY <3>1, <3>2 DEF Both
  <2> QED BY <2>2 DEF c1, c2
<1> QED BY <1>4, <1>5

(* A repeated cmps. *)
LEMMA CmpsNodes ==
  ASSUME NEW i, i.op = "cmps", Supported(i), i.prefix
  PROVE  Complete(inst_handler(i),
                  <<Define(Ecx), Define(Edi), Define(Esi)>>,
                  <<Use(Ecx), Use(Edi), Use(Esi)>>)
<1> DEFINE a == i.dst
           b == i.src
<1>1. Handled(i) /\ i.op \in StringNames
  BY DEF Supported, StringNames
<1>2. Ecx.t # "mem" /\ Edi.t # "mem" /\ Esi.t # "mem"
  BY <1>1, StringOperands, StringCase
<1>4. inst_handler(i) = Both(Ecx) \o Both(Edi) \o Both(Esi)
  BY DEF inst_handler, VectorNames, JccNames, NotHandled, strcmp_handler
<1>5. Complete(Both(Ecx) \o Both(Edi) \o Both(Esi), <<Define(Ecx), Define(Edi), Define(Esi)>>,
      <<Use(Ecx), Use(Edi), Use(Esi)>>)
  <2> DEFINE c1 == Ecx
             c2 == Edi
             c3 == Esi
  <2>0. c1.t # "mem" /\ c2.t # "mem" /\ c3.t # "mem"
    BY <1>2
  <2> HIDE DEF a, b, c1, c2, c3
  <2>1. Complete(Both(c1), <<Define(c1)>>, <<Use(c1)>>)
    BY <2>0, PartsSeq
  <2>2. Complete(Both(c1) \o Both(c2), <<Define(c1), Define(c2)>>, <<Use(c1), Use(c2)>>)
    <3>1. Complete(Both(c1) \o <<Define(c2), Use(c2)>>, Append(<<Define(c1)>>, Define(c2)),
          Append(<<Use(c1)>>, Use(c2)))
      BY <2>0, <2>1, ThenPair
    <3>2. Append(<<Define(c1)>>, Define(c2)) = <<Define(c1), Define(c2)>>
          /\ Append(<<Use(c1)>>, Use(c2)) = <<Use(c1), Use(c2)>>
      BY Tuples
    <3> QED BY <3>1, <3>2 DEF Both
  <2>3. Complete(Both(c1) \o Both(c2) \o Both(c3), <<Define(c1), Define(c2), Define(c3)>>,
        <<Use(c1), Use(c2), Use(c3)>>)
    <3>1. Complete(Both(c1) \o Both(c2) \o <<Define(c3), Use(c3)>>,
          Append(<<Define(c1), Define(c2)>>, Define(c3)), Append(<<Use(c1), Use(c2)>>, Use(c3)))
      BY <2>0, <2>2, ThenPair
    <3>2. Append(<<Define(c1), Define(c2)>>, Define(c3)) =
          <<Define(c1), Define(c2), Define(c3)>>
          /\ Append(<<Use(c1), Use(c2)>>, Use(c3)) = <<Use(c1), Use(c2), Use(c3)>>
      BY Tuples
    <3> QED BY <3>1, <3>2 DEF Both
  <2> QED BY <2>3 DEF c1, c2, c3
<1> QED BY <1>4, <1>5

(* A repeated movs. *)
LEMMA MovsRepeatedNodes ==
  ASSUME NEW i, i.op = "movs", Supported(i), i.prefix
  PROVE  Complete(inst_handler(i),
                  <<Define(Ecx), Define(Edi), Define(Esi), Define(i.dst)>>,
                  <<Use(Ecx), Use(Edi), Use(Esi), Use(i.src)>>)
<1> DEFINE a == i.dst
           b == i.src
<1>1. Handled(i) /\ i.op \in StringNames
  BY DEF Supported, StringNames
<1>2. Ecx.t # "mem" /\ Edi.t # "mem" /\ Esi.t # "mem"
  BY <1>1, StringOperands, StringCase
<1>3. inst_handler(i) = Both(Ecx) \o (Both(Edi) \o Both(Esi) \o DefineAt(a) \o UseAt(b))
  BY DEF inst_handler, VectorNames, JccNames, NotHandled, strmov_handler, movs_handler, Counter
<1>4. inst_handler(i) = Both(Ecx) \o Both(Edi) \o Both(Esi) \o DefineAt(a) \o UseAt(b)
  <2> HIDE DEF a, b
  <2>1. IsSeq(Both(Ecx)) /\ IsSeq(Both(Edi)) /\ IsSeq(Both(Esi)) /\ IsSeq(DefineAt(a))
        /\ IsSeq(UseAt(b))
    BY PartsSeq
  <2> DEFINE p == Both(Ecx)
             q == Both(Edi)
             r == Both(Esi)
             s == DefineAt(a)
             t == UseAt(b)
  <2>2. IsSeq(p) /\ IsSeq(q) /\ IsSeq(r) /\ IsSeq(s) /\ IsSeq(t)
    BY <2>1
  <2> HIDE DEF p, q, r, s, t
  <2>3. Linked(p, Linked(Linked(Linked(q, r), s), t)) =
        Linked(Linked(Linked(Linked(p, q), r), s), t)
    BY <2>2, Fronts
  <2> QED BY <1>3, <2>3 DEF p, q, r, s, t, Linked
<1>5. Complete(Both(Ecx) \o Both(Edi) \o Both(Esi) \o DefineAt(a) \o UseAt(b),
      <<Define(Ecx), Define(Edi), Define(Esi), Define(a)>>,
      <<Use(Ecx), Use(Edi), Use(Esi), Use(b)>>)
  <2> DEFINE c1 == Ecx
             c2 == Edi
             c3 == Esi
  <2>0. c1.t # "mem" /\ c2.t # "mem" /\ c3.t # "mem"
    BY <1>2
  <2> HIDE DEF a, b, c1, c2, c3
  <2>1. Complete(Both(c1), <<Define(c1)>>, <<Use(c1)>>)
    BY <2>0, PartsSeq
  <2>2. Complete(Both(c1) \o Both(c2), <<Define(c1), Define(c2)>>, <<Use(c1), Use(c2)>>)
    <3>1. Complete(Both(c1) \o <<Define(c2), Use(c2)>>, Append(<<Define(c1)>>, Define(c2)),
          Append(<<Use(c1)>>, Use(c2)))
      BY <2>0, <2>1, ThenPair
    <3>2. Append(<<Define(c1)>>, Define(c2)) = <<Define(c1), Define(c2)>>
          /\ Append(<<Use(c1)>>, Use(c2)) = <<Use(c1), Use(c2)>>
      BY Tuples
    <3> QED BY <3>1, <3>2 DEF Both
  <2>3. Complete(Both(c1) \o Both(c2) \o Both(c3), <<Define(c1), Define(c2), Define(c3)>>,
        <<Use(c1), Use(c2), Use(c3)>>)
    <3>1. Complete(Both(c1) \o Both(c2) \o <<Define(c3), Use(c3)>>,
          Append(<<Define(c1), Define(c2)>>, Define(c3)), Append(<<Use(c1), Use(c2)>>, Use(c3)))
      BY <2>0, <2>2, ThenPair
    <3>2. Append(<<Define(c1), Define(c2)>>, Define(c3)) =
          <<Define(c1), Define(c2), Define(c3)>>
          /\ Append(<<Use(c1), Use(c2)>>, Use(c3)) = <<Use(c1), Use(c2), Use(c3)>>
      BY Tuples
    <3> QED BY <3>1, <3>2 DEF Both
  <2>4. Complete(Both(c1) \o Both(c2) \o Both(c3) \o DefineAt(a),
        <<Define(c1), Define(c2), Define(c3), Define(a)>>, <<Use(c1), Use(c2), Use(c3)>>)
    <3>1. Complete(Both(c1) \o Both(c2) \o Both(c3) \o DefineAt(a),
          Append(<<Define(c1), Define(c2), Define(c3)>>, Define(a)), <<Use(c1), Use(c2), Use(c3)>>)
      BY <2>0, <2>3, ThenDefineAt
    <3>2. Append(<<Define(c1), Define(c2), Define(c3)>>, Define(a)) =
          <<Define(c1), Define(c2), Define(c3), Define(a)>>
      <4>1. AppendsTo(Define(c1), Define(c2), Define(c3), Define(a))
        BY AppendThree
      <4> QED BY <4>1 DEF AppendsTo
    <3> QED BY <3>1, <3>2
  <2>5. Complete(Both(c1) \o Both(c2) \o Both(c3) \o DefineAt(a) \o UseAt(b),
        <<Define(c1), Define(c2), Define(c3), Define(a)>>, <<Use(c1), Use(c2), Use(c3), Use(b)>>)
    <3>1. Complete(Both(c1) \o Both(c2) \o Both(c3) \o DefineAt(a) \o UseAt(b),
          <<Define(c1), Define(c2), Define(c3), Define(a)>>,
          Append(<<Use(c1), Use(c2), Use(c3)>>, Use(b)))
      BY <2>0, <2>4, ThenUseAt
    <3>2. Append(<<Use(c1), Use(c2), Use(c3)>>, Use(b)) = <<Use(c1), Use(c2), Use(c3), Use(b)>>
      <4>1. AppendsTo(Use(c1), Use(c2), Use(c3), Use(b))
        BY AppendThree
      <4> QED BY <4>1 DEF AppendsTo
    <3> QED BY <3>1, <3>2
  <2> QED BY <2>5 DEF c1, c2, c3
<1> QED BY <1>4, <1>5

(* movs alone. *)
LEMMA MovsNodes ==
  ASSUME NEW i, i.op = "movs", Supported(i), ~ i.prefix
  PROVE  Complete(inst_handler(i),
                  <<Define(Edi), Define(Esi), Define(i.dst)>>,
                  <<Use(Edi), Use(Esi), Use(i.src)>>)
<1> DEFINE a == i.dst
           b == i.src
<1>1. Handled(i) /\ i.op \in StringNames
  BY DEF Supported, StringNames
<1>2. Ecx.t # "mem" /\ Edi.t # "mem" /\ Esi.t # "mem"
  BY <1>1, StringOperands, StringCase
<1>3. inst_handler(i) = <<>> \o (Both(Edi) \o Both(Esi) \o DefineAt(a) \o UseAt(b))
  BY DEF inst_handler, VectorNames, JccNames, NotHandled, strmov_handler, movs_handler, Counter
<1>5. Complete(Both(Edi) \o Both(Esi) \o DefineAt(a) \o UseAt(b),
      <<Define(Edi), Define(Esi), Define(a)>>, <<Use(Edi), Use(Esi), Use(b)>>)
  <2> DEFINE c1 == Edi
             c2 == Esi
  <2>0. c1.t # "mem" /\ c2.t # "mem"
    BY <1>2
  <2> HIDE DEF a, b, c1, c2
  <2>1. Complete(Both(c1), <<Define(c1)>>, <<Use(c1)>>)
    BY <2>0, PartsSeq
  <2>2. Complete(Both(c1) \o Both(c2), <<Define(c1), Define(c2)>>, <<Use(c1), Use(c2)>>)
    <3>1. Complete(Both(c1) \o <<Define(c2), Use(c2)>>, Append(<<Define(c1)>>, Define(c2)),
          Append(<<Use(c1)>>, Use(c2)))
      BY <2>0, <2>1, ThenPair
    <3>2. Append(<<Define(c1)>>, Define(c2)) = <<Define(c1), Define(c2)>>
          /\ Append(<<Use(c1)>>, Use(c2)) = <<Use(c1), Use(c2)>>
      BY Tuples
    <3> QED BY <3>1, <3>2 DEF Both
  <2>3. Complete(Both(c1) \o Both(c2) \o DefineAt(a), <<Define(c1), Define(c2), Define(a)>>,
        <<Use(c1), Use(c2)>>)
    <3>1. Complete(Both(c1) \o Both(c2) \o DefineAt(a),
          Append(<<Define(c1), Define(c2)>>, Define(a)), <<Use(c1), Use(c2)>>)
      BY <2>0, <2>2, ThenDefineAt
    <3>2. Append(<<Define(c1), Define(c2)>>, Define(a)) = <<Define(c1), Define(c2), Define(a)>>
      BY Tuples
    <3> QED BY <3>1, <3>2
  <2>4. Complete(Both(c1) \o Both(c2) \o DefineAt(a) \o UseAt(b),
        <<Define(c1), Define(c2), Define(a)>>, <<Use(c1), Use(c2), Use(b)>>)
    <3>1. Complete(Both(c1) \o Both(c2) \o DefineAt(a) \o UseAt(b),
          <<Define(c1), Define(c2), Define(a)>>, Append(<<Use(c1), Use(c2)>>, Use(b)))
      BY <2>0, <2>3, ThenUseAt
    <3>2. Append(<<Use(c1), Use(c2)>>, Use(b)) = <<Use(c1), Use(c2), Use(b)>>
      BY Tuples
    <3> QED BY <3>1, <3>2
  <2> QED BY <2>4 DEF c1, c2
<1>6. <<>> \o (Both(Edi) \o Both(Esi) \o DefineAt(a) \o UseAt(b)) =
      Both(Edi) \o Both(Esi) \o DefineAt(a) \o UseAt(b)
  <2> DEFINE p == Both(Edi) \o Both(Esi) \o DefineAt(a) \o UseAt(b)
  <2>1. IsSeq(p)
    BY <1>5 DEF Complete, Made, IsSeq
  <2> HIDE DEF p
  <2>2. <<>> \o p = p
    BY <2>1, AssocAny
  <2> QED BY <2>2 DEF p
<1> QED BY <1>3, <1>5, <1>6

(* A repeated stos. *)
LEMMA StosRepeatedNodes ==
  ASSUME NEW i, i.op = "stos", Supported(i), i.prefix
  PROVE  Complete(inst_handler(i),
                  <<Define(Ecx), Define(Edi), Define(i.dst)>>,
                  <<Use(Ecx), Use(Edi), Use(i.src)>>)
<1> DEFINE a == i.dst
           b == i.src
<1>1. Handled(i) /\ i.op \in StringNames
  BY DEF Supported, StringNames
<1>2. Ecx.t # "mem" /\ Edi.t # "mem" /\ Esi.t # "mem" /\ b.t # "mem"
  BY <1>1, StringOperands, StringCase
<1>3. inst_handler(i) = Both(Ecx) \o (Both(Edi) \o DefineAt(a) \o <<Use(b)>>)
  BY DEF inst_handler, VectorNames, JccNames, NotHandled, strstore_handler, stos_handler, Counter
<1>4. inst_handler(i) = Both(Ecx) \o Both(Edi) \o DefineAt(a) \o <<Use(b)>>
  <2> HIDE DEF a, b
  <2>1. IsSeq(Both(Ecx)) /\ IsSeq(Both(Edi)) /\ IsSeq(DefineAt(a)) /\ IsSeq(<<Use(b)>>)
    BY PartsSeq
  <2> DEFINE p == Both(Ecx)
             q == Both(Edi)
             r == DefineAt(a)
             s == <<Use(b)>>
  <2>2. IsSeq(p) /\ IsSeq(q) /\ IsSeq(r) /\ IsSeq(s)
    BY <2>1
  <2> HIDE DEF p, q, r, s
  <2>3. Linked(p, Linked(Linked(q, r), s)) = Linked(Linked(Linked(p, q), r), s)
    BY <2>2, Fronts
  <2> QED BY <1>3, <2>3 DEF p, q, r, s, Linked
<1>5. Complete(Both(Ecx) \o Both(Edi) \o DefineAt(a) \o <<Use(b)>>,
      <<Define(Ecx), Define(Edi), Define(a)>>, <<Use(Ecx), Use(Edi), Use(b)>>)
  <2> DEFINE c1 == Ecx
             c2 == Edi
  <2>0. c1.t # "mem" /\ c2.t # "mem" /\ b.t # "mem"
    BY <1>2
  <2> HIDE DEF a, b, c1, c2
  <2>1. Complete(Both(c1), <<Define(c1)>>, <<Use(c1)>>)
    BY <2>0, PartsSeq
  <2>2. Complete(Both(c1) \o Both(c2), <<Define(c1), Define(c2)>>, <<Use(c1), Use(c2)>>)
    <3>1. Complete(Both(c1) \o <<Define(c2), Use(c2)>>, Append(<<Define(c1)>>, Define(c2)),
          Append(<<Use(c1)>>, Use(c2)))
      BY <2>0, <2>1, ThenPair
    <3>2. Append(<<Define(c1)>>, Define(c2)) = <<Define(c1), Define(c2)>>
          /\ Append(<<Use(c1)>>, Use(c2)) = <<Use(c1), Use(c2)>>
      BY Tuples
    <3> QED BY <3>1, <3>2 DEF Both
  <2>3. Complete(Both(c1) \o Both(c2) \o DefineAt(a), <<Define(c1), Define(c2), Define(a)>>,
        <<Use(c1), Use(c2)>>)
    <3>1. Complete(Both(c1) \o Both(c2) \o DefineAt(a),
          Append(<<Define(c1), Define(c2)>>, Define(a)), <<Use(c1), Use(c2)>>)
      BY <2>0, <2>2, ThenDefineAt
    <3>2. Append(<<Define(c1), Define(c2)>>, Define(a)) = <<Define(c1), Define(c2), Define(a)>>
      BY Tuples
    <3> QED BY <3>1, <3>2
  <2>4. Complete(Both(c1) \o Both(c2) \o DefineAt(a) \o <<Use(b)>>,
        <<Define(c1), Define(c2), Define(a)>>, <<Use(c1), Use(c2), Use(b)>>)
    <3>1. Complete(Both(c1) \o Both(c2) \o DefineAt(a) \o <<Use(b)>>,
          <<Define(c1), Define(c2), Define(a)>>, Append(<<Use(c1), Use(c2)>>, Use(b)))
      BY <2>0, <2>3, ThenUse
    <3>2. Append(<<Use(c1), Use(c2)>>, Use(b)) = <<Use(c1), Use(c2), Use(b)>>
      BY Tuples
    <3> QED BY <3>1, <3>2
  <2> QED BY <2>4 DEF c1, c2
<1> QED BY <1>4, <1>5

(* stos alone. *)
LEMMA StosNodes ==
  ASSUME NEW i, i.op = "stos", Supported(i), ~ i.prefix
  PROVE  Complete(inst_handler(i),
                  <<Define(Edi), Define(i.dst)>>,
                  <<Use(Edi), Use(i.src)>>)
<1> DEFINE a == i.dst
           b == i.src
<1>1. Handled(i) /\ i.op \in StringNames
  BY DEF Supported, StringNames
<1>2. Ecx.t # "mem" /\ Edi.t # "mem" /\ Esi.t # "mem" /\ b.t # "mem"
  BY <1>1, StringOperands, StringCase
<1>3. inst_handler(i) = <<>> \o (Both(Edi) \o DefineAt(a) \o <<Use(b)>>)
  BY DEF inst_handler, VectorNames, JccNames, NotHandled, strstore_handler, stos_handler, Counter
<1>5. Complete(Both(Edi) \o DefineAt(a) \o <<Use(b)>>, <<Define(Edi), Define(a)>>,
      <<Use(Edi), Use(b)>>)
  <2> DEFINE c1 == Edi
  <2>0. c1.t # "mem" /\ b.t # "mem"
    BY <1>2
  <2> HIDE DEF a, b, c1
  <2>1. Complete(Both(c1), <<Define(c1)>>, <<Use(c1)>>)
    BY <2>0, PartsSeq
  <2>2. Complete(Both(c1) \o DefineAt(a), <<Define(c1), Define(a)>>, <<Use(c1)>>)
    <3>1. Complete(Both(c1) \o DefineAt(a), Append(<<Define(c1)>>, Define(a)), <<Use(c1)>>)
      BY <2>0, <2>1, ThenDefineAt
    <3>2. Append(<<Define(c1)>>, Define(a)) = <<Define(c1), Define(a)>>
      BY Tuples
    <3> QED BY <3>1, <3>2
  <2>3. Complete(Both(c1) \o DefineAt(a) \o <<Use(b)>>, <<Define(c1), Define(a)>>,
        <<Use(c1), Use(b)>>)
    <3>1. Complete(Both(c1) \o DefineAt(a) \o <<Use(b)>>, <<Define(c1), Define(a)>>,
          Append(<<Use(c1)>>, Use(b)))
      BY <2>0, <2>2, ThenUse
    <3>2. Append(<<Use(c1)>>, Use(b)) = <<Use(c1), Use(b)>>
      BY Tuples
    <3> QED BY <3>1, <3>2
  <2> QED BY <2>3 DEF c1
<1>6. <<>> \o (Both(Edi) \o DefineAt(a) \o <<Use(b)>>) = Both(Edi) \o DefineAt(a) \o <<Use(b)>>
  <2> DEFINE p == Both(Edi) \o DefineAt(a) \o <<Use(b)>>
  <2>1. IsSeq(p)
    BY <1>5 DEF Complete, Made, IsSeq
  <2> HIDE DEF p
  <2>2. <<>> \o p = p
    BY <2>1, AssocAny
  <2> QED BY <2>2 DEF p
<1> QED BY <1>3, <1>5, <1>6

(* lods. *)
LEMMA LodsNodes ==
  ASSUME NEW i, i.op = "lods", Supported(i), ~ i.prefix
  PROVE  Complete(inst_handler(i),
                  <<Define(Esi), Define(i.dst)>>,
                  <<Use(Esi), Use(i.src)>>)
<1> DEFINE a == i.dst
           b == i.src
<1>1. Handled(i) /\ i.op \in StringNames
  BY DEF Supported, StringNames
<1>2. Ecx.t # "mem" /\ Edi.t # "mem" /\ Esi.t # "mem" /\ a.t # "mem"
  BY <1>1, StringOperands, StringCase
<1>4. inst_handler(i) = Both(Esi) \o <<Define(a)>> \o UseAt(b)
  BY DEF inst_handler, VectorNames, JccNames, NotHandled, strload_handler, lods_handler
<1>5. Complete(Both(Esi) \o <<Define(a)>> \o UseAt(b), <<Define(Esi), Define(a)>>,
      <<Use(Esi), Use(b)>>)
  <2> DEFINE c1 == Esi
  <2>0. c1.t # "mem" /\ a.t # "mem"
    BY <1>2
  <2> HIDE DEF a, b, c1
  <2>1. Complete(Both(c1), <<Define(c1)>>, <<Use(c1)>>)
    BY <2>0, PartsSeq
  <2>2. Complete(Both(c1) \o <<Define(a)>>, <<Define(c1), Define(a)>>, <<Use(c1)>>)
    <3>1. Complete(Both(c1) \o <<Define(a)>>, Append(<<Define(c1)>>, Define(a)), <<Use(c1)>>)
      BY <2>0, <2>1, ThenDefine
    <3>2. Append(<<Define(c1)>>, Define(a)) = <<Define(c1), Define(a)>>
      BY Tuples
    <3> QED BY <3>1, <3>2
  <2>3. Complete(Both(c1) \o <<Define(a)>> \o UseAt(b), <<Define(c1), Define(a)>>,
        <<Use(c1), Use(b)>>)
    <3>1. Complete(Both(c1) \o <<Define(a)>> \o UseAt(b), <<Define(c1), Define(a)>>,
          Append(<<Use(c1)>>, Use(b)))
      BY <2>0, <2>2, ThenUseAt
    <3>2. Append(<<Use(c1)>>, Use(b)) = <<Use(c1), Use(b)>>
      BY Tuples
    <3> QED BY <3>1, <3>2
  <2> QED BY <2>3 DEF c1
<1> QED BY <1>4, <1>5

(* scas: the counter and edi. *)
LEMMA GoodScas ==
  ASSUME NEW i \in Instances, i.op = "scas", Supported(i)
  PROVE  Good(i)
<1>0. i.prefix
  <2>1. inst_handler(i) = IF i.prefix THEN inst_handler(i) ELSE Unsupported
    BY DEF inst_handler, VectorNames, JccNames, NotHandled, strsca_handler
  <2>2. Handled(i)
    BY DEF Supported
  <2> QED BY <2>1, <2>2, NotAsserted
<1> DEFINE a == i.dst
           b == i.src
           defs == <<Define(Ecx), Define(Edi)>>
           uses == <<Use(Ecx), Use(Edi)>>
<1>1. Complete(inst_handler(i), defs, uses)
  BY <1>0, ScasNodes
<1>2. i.op \in StringNames /\ ~ Data(i)
  BY DEF StringNames, Data
<1>3. DOMAIN defs = {1, 2} /\ DOMAIN uses = {1, 2}
  OBVIOUS
<1>4. defs[1] = Define(Ecx) /\ defs[2] = Define(Edi)
  OBVIOUS
<1>5. uses[1] = Use(Ecx) /\ uses[2] = Use(Edi)
  OBVIOUS
<1>6. Touched(i) = {"edi"}
  BY DEF Touched
<1>7. Ecx.place = "ecx" /\ Edi.place = "edi"
  BY StringOperands
<1> HIDE DEF defs, uses
<1>8. Places(i, defs)
  <2>1. defs[1].o.place = "ecx" /\ defs[2].o.place = "edi"
    BY <1>4, <1>7 DEF Define
  <2> QED BY <1>0, <1>2, <1>3, <1>6, <2>1 DEF Places
<1> DEFINE t1 == CountTie
           t2 == Move1(2, 2, DW, StepOf(i))
<1>9. /\ Element(i, defs, 1, t1)
      /\ \A L : Live(i, L) /\ counted(L) => Acts(L, t1, counts(L))
      /\ \A L : Live(i, L) /\ counted(L) /\ Honest(i, L) => ~ Idle(i)
      /\ \A L : Live(i, L) /\ ~ counted(L) /\ inst_resolver(i, L) = L => Waits(i, L)
  BY <1>0, <1>1, <1>2, <1>3, <1>4, <1>5, CountPart
<1>10. Element(i, defs, 2, t2) /\ \A L : Acts(L, t2, moves(i, L, 2))
  <2>1. Edi \in {Edi, Esi} /\ Edi.place \in Touched(i)
    BY <1>6, <1>7
  <2> DEFINE o == Edi
  <2>2. /\ o \in {Edi, Esi} /\ o.place \in Touched(i) /\ 2 \in DOMAIN defs /\ 2 \in DOMAIN uses
        /\ defs[2] = Define(o) /\ uses[2] = Use(o)
    BY <1>3, <1>4, <1>5, <2>1
  <2> HIDE DEF o
  <2> QED BY <1>1, <1>2, <2>2, MovePart
<1>11. \A L : inst_resolver(i, L) = IF counted(L) THEN moves(i, counts(L), 2) ELSE L
  BY <1>0, <1>2 DEF inst_resolver, VectorNames, strsca_resolver
<1> HIDE DEF a, b, t1, t2
<1>12. Runs2(i, t1, t2)
  <2> SUFFICES ASSUME NEW L, Live(i, L)
      PROVE  \/ /\ Honest(i, L) => ~ Idle(i)
                /\ \E L1 : Acts(L, t1, L1) /\ Acts(L1, t2, inst_resolver(i, L))
             \/ Waits(i, L)
    BY DEF Runs2
  <2>1. CASE counted(L)
    <3>1. Acts(L, t1, counts(L)) /\ Acts(counts(L), t2, inst_resolver(i, L))
      BY <1>9, <1>10, <1>11, <2>1
    <3> QED BY <3>1, <2>1, <1>9
  <2>2. CASE ~ counted(L)
    BY <1>9, <1>11, <2>2
  <2> QED BY <2>1, <2>2
<1> QED BY <1>1, <1>2, <1>3, <1>8, <1>9, <1>10, <1>12, StringTwo

(* cmps: the counter, edi and esi. *)
LEMMA GoodCmps ==
  ASSUME NEW i \in Instances, i.op = "cmps", Supported(i)
  PROVE  Good(i)
<1>0. i.prefix
  <2>1. inst_handler(i) = IF i.prefix THEN inst_handler(i) ELSE Unsupported
    BY DEF inst_handler, VectorNames, JccNames, NotHandled, strcmp_handler
  <2>2. Handled(i)
    BY DEF Supported
  <2> QED BY <2>1, <2>2, NotAsserted
<1> DEFINE a == i.dst
           b == i.src
           defs == <<Define(Ecx), Define(Edi), Define(Esi)>>
           uses == <<Use(Ecx), Use(Edi), Use(Esi)>>
<1>1. Complete(inst_handler(i), defs, uses)
  BY <1>0, CmpsNodes
<1>2. i.op \in StringNames /\ ~ Data(i)
  BY DEF StringNames, Data
<1>3. DOMAIN defs = {1, 2, 3} /\ DOMAIN uses = {1, 2, 3}
  OBVIOUS
<1>4. defs[1] = Define(Ecx) /\ defs[2] = Define(Edi) /\ defs[3] = Define(Esi)
  OBVIOUS
<1>5. uses[1] = Use(Ecx) /\ uses[2] = Use(Edi) /\ uses[3] = Use(Esi)
  OBVIOUS
<1>6. Touched(i) = {"edi", "esi"}
  BY DEF Touched
<1>7. Ecx.place = "ecx" /\ Edi.place = "edi" /\ Esi.place = "esi"
  BY StringOperands
<1> HIDE DEF defs, uses
<1>8. Places(i, defs)
  <2>1. defs[1].o.place = "ecx" /\ defs[2].o.place = "edi" /\ defs[3].o.place = "esi"
    BY <1>4, <1>7 DEF Define
  <2> QED BY <1>0, <1>2, <1>3, <1>6, <2>1 DEF Places
<1> DEFINE t1 == CountTie
           t2 == Move1(2, 2, DW, StepOf(i))
           t3 == Move1(3, 3, DW, StepOf(i))
<1>9. /\ Element(i, defs, 1, t1)
      /\ \A L : Live(i, L) /\ counted(L) => Acts(L, t1, counts(L))
      /\ \A L : Live(i, L) /\ counted(L) /\ Honest(i, L) => ~ Idle(i)
      /\ \A L : Live(i, L) /\ ~ counted(L) /\ inst_resolver(i, L) = L => Waits(i, L)
  BY <1>0, <1>1, <1>2, <1>3, <1>4, <1>5, CountPart
<1>10. Element(i, defs, 2, t2) /\ \A L : Acts(L, t2, moves(i, L, 2))
  <2>1. Edi \in {Edi, Esi} /\ Edi.place \in Touched(i)
    BY <1>6, <1>7
  <2> DEFINE o == Edi
  <2>2. /\ o \in {Edi, Esi} /\ o.place \in Touched(i) /\ 2 \in DOMAIN defs /\ 2 \in DOMAIN uses
        /\ defs[2] = Define(o) /\ uses[2] = Use(o)
    BY <1>3, <1>4, <1>5, <2>1
  <2> HIDE DEF o
  <2> QED BY <1>1, <1>2, <2>2, MovePart
<1>11. Element(i, defs, 3, t3) /\ \A L : Acts(L, t3, moves(i, L, 3))
  <2>1. Esi \in {Edi, Esi} /\ Esi.place \in Touched(i)
    BY <1>6, <1>7
  <2> DEFINE o == Esi
  <2>2. /\ o \in {Edi, Esi} /\ o.place \in Touched(i) /\ 3 \in DOMAIN defs /\ 3 \in DOMAIN uses
        /\ defs[3] = Define(o) /\ uses[3] = Use(o)
    BY <1>3, <1>4, <1>5, <2>1
  <2> HIDE DEF o
  <2> QED BY <1>1, <1>2, <2>2, MovePart
<1>12. \A L : inst_resolver(i, L) = IF counted(L) THEN moves(i, moves(i, counts(L), 2), 3) ELSE L
  BY <1>0, <1>2 DEF inst_resolver, VectorNames, strcmp_resolver
<1> HIDE DEF a, b, t1, t2, t3
<1>13. Runs3(i, t1, t2, t3)
  <2> SUFFICES ASSUME NEW L, Live(i, L)
      PROVE  \/ /\ Honest(i, L) => ~ Idle(i)
                /\ \E L1, L2 : Acts(L, t1, L1) /\ Acts(L1, t2, L2)
                               /\ Acts(L2, t3, inst_resolver(i, L))
             \/ Waits(i, L)
    BY DEF Runs3
  <2>1. CASE counted(L)
    <3>1. Acts(L, t1, counts(L)) /\ Acts(counts(L), t2, moves(i, counts(L), 2))
          /\ Acts(moves(i, counts(L), 2), t3, inst_resolver(i, L))
      BY <1>9, <1>10, <1>11, <1>12, <2>1
    <3> QED BY <3>1, <2>1, <1>9
  <2>2. CASE ~ counted(L)
    BY <1>9, <1>12, <2>2
  <2> QED BY <2>1, <2>2
<1> QED BY <1>1, <1>2, <1>3, <1>8, <1>9, <1>10, <1>11, <1>13, StringThree

(* A repeated movs: the counter, edi, esi and the datum. *)
LEMMA GoodMovsRepeated ==
  ASSUME NEW i \in Instances, i.op = "movs", Supported(i), i.prefix
  PROVE  Good(i)
<1>0. i.prefix <=> TRUE
  OBVIOUS
<1> DEFINE a == i.dst
           b == i.src
           defs == <<Define(Ecx), Define(Edi), Define(Esi), Define(a)>>
           uses == <<Use(Ecx), Use(Edi), Use(Esi), Use(b)>>
<1>1. Complete(inst_handler(i), defs, uses)
  BY <1>0, MovsRepeatedNodes
<1>2. i.op \in StringNames /\ Data(i)
  BY DEF StringNames, Data
<1>3. DOMAIN defs = {1, 2, 3, 4} /\ DOMAIN uses = {1, 2, 3, 4}
  OBVIOUS
<1>4. defs[1] = Define(Ecx) /\ defs[2] = Define(Edi) /\ defs[3] = Define(Esi) /\ defs[4] = Define(a)
  OBVIOUS
<1>5. uses[1] = Use(Ecx) /\ uses[2] = Use(Edi) /\ uses[3] = Use(Esi) /\ uses[4] = Use(b)
  OBVIOUS
<1>6. Touched(i) = {"edi", "esi"}
  BY DEF Touched
<1>7. Ecx.place = "ecx" /\ Edi.place = "edi" /\ Esi.place = "esi"
  BY StringOperands
<1> HIDE DEF defs, uses
<1>8. Places(i, defs)
  <2>1. defs[1].o.place = "ecx" /\ defs[2].o.place = "edi" /\ defs[3].o.place = "esi"
    BY <1>4, <1>7 DEF Define
  <2>2. defs[4].o.place = i.dst.place
    BY <1>4 DEF Define
  <2> QED BY <1>0, <1>2, <1>3, <1>6, <2>1, <2>2 DEF Places
<1> DEFINE t1 == CountTie
           t2 == Move1(2, 2, DW, StepOf(i))
           t3 == Move1(3, 3, DW, StepOf(i))
           t4 == Copy(4, 4, Size(i.dst))
<1>9. /\ Element(i, defs, 1, t1)
      /\ \A L : Live(i, L) /\ counted(L) => Acts(L, t1, counts(L))
      /\ \A L : Live(i, L) /\ counted(L) /\ Honest(i, L) => ~ Idle(i)
      /\ \A L : Live(i, L) /\ ~ counted(L) /\ inst_resolver(i, L) = L => Waits(i, L)
  BY <1>0, <1>1, <1>2, <1>3, <1>4, <1>5, CountPart
<1>10. Element(i, defs, 2, t2) /\ \A L : Acts(L, t2, moves(i, L, 2))
  <2>1. Edi \in {Edi, Esi} /\ Edi.place \in Touched(i)
    BY <1>6, <1>7
  <2> DEFINE o == Edi
  <2>2. /\ o \in {Edi, Esi} /\ o.place \in Touched(i) /\ 2 \in DOMAIN defs /\ 2 \in DOMAIN uses
        /\ defs[2] = Define(o) /\ uses[2] = Use(o)
    BY <1>3, <1>4, <1>5, <2>1
  <2> HIDE DEF o
  <2> QED BY <1>1, <1>2, <2>2, MovePart
<1>11. Element(i, defs, 3, t3) /\ \A L : Acts(L, t3, moves(i, L, 3))
  <2>1. Esi \in {Edi, Esi} /\ Esi.place \in Touched(i)
    BY <1>6, <1>7
  <2> DEFINE o == Esi
  <2>2. /\ o \in {Edi, Esi} /\ o.place \in Touched(i) /\ 3 \in DOMAIN defs /\ 3 \in DOMAIN uses
        /\ defs[3] = Define(o) /\ uses[3] = Use(o)
    BY <1>3, <1>4, <1>5, <2>1
  <2> HIDE DEF o
  <2> QED BY <1>1, <1>2, <2>2, MovePart
<1>12. Element(i, defs, 4, t4) /\ \A L : Acts(L, t4, copies(L, 4, 4))
  BY <1>1, <1>2, <1>3, <1>4, <1>5, DataPart
<1>13. \A L : inst_resolver(i, L) = IF counted(L)
              THEN copies(moves(i, moves(i, counts(L), 2), 3), 4, 4) ELSE L
  BY <1>0, <1>2 DEF inst_resolver, VectorNames, strmov_resolver
<1> HIDE DEF a, b, t1, t2, t3, t4
<1>14. Runs4(i, t1, t2, t3, t4)
  <2> SUFFICES ASSUME NEW L, Live(i, L)
      PROVE  \/ /\ Honest(i, L) => ~ Idle(i)
                /\ \E L1, L2, L3 : Acts(L, t1, L1) /\ Acts(L1, t2, L2) /\ Acts(L2, t3, L3)
                                   /\ Acts(L3, t4, inst_resolver(i, L))
             \/ Waits(i, L)
    BY DEF Runs4
  <2>1. CASE counted(L)
    <3>1. Acts(L, t1, counts(L)) /\ Acts(counts(L), t2, moves(i, counts(L), 2))
          /\ Acts(moves(i, counts(L), 2), t3, moves(i, moves(i, counts(L), 2), 3))
             /\ Acts(moves(i, moves(i, counts(L), 2), 3), t4, inst_resolver(i, L))
      BY <1>9, <1>10, <1>11, <1>12, <1>13, <2>1
    <3> QED BY <3>1, <2>1, <1>9
  <2>2. CASE ~ counted(L)
    BY <1>9, <1>13, <2>2
  <2> QED BY <2>1, <2>2
<1> QED BY <1>1, <1>2, <1>3, <1>8, <1>9, <1>10, <1>11, <1>12, <1>14, StringFour

(* movs alone: edi, esi and the datum. *)
LEMMA GoodMovs ==
  ASSUME NEW i \in Instances, i.op = "movs", Supported(i), ~ i.prefix
  PROVE  Good(i)
<1>0. i.prefix <=> FALSE
  OBVIOUS
<1> DEFINE a == i.dst
           b == i.src
           defs == <<Define(Edi), Define(Esi), Define(a)>>
           uses == <<Use(Edi), Use(Esi), Use(b)>>
<1>1. Complete(inst_handler(i), defs, uses)
  BY <1>0, MovsNodes
<1>2. i.op \in StringNames /\ Data(i)
  BY DEF StringNames, Data
<1>3. DOMAIN defs = {1, 2, 3} /\ DOMAIN uses = {1, 2, 3}
  OBVIOUS
<1>4. defs[1] = Define(Edi) /\ defs[2] = Define(Esi) /\ defs[3] = Define(a)
  OBVIOUS
<1>5. uses[1] = Use(Edi) /\ uses[2] = Use(Esi) /\ uses[3] = Use(b)
  OBVIOUS
<1>6. Touched(i) = {"edi", "esi"}
  BY DEF Touched
<1>7. Edi.place = "edi" /\ Esi.place = "esi"
  BY StringOperands
<1> HIDE DEF defs, uses
<1>8. Places(i, defs)
  <2>1. defs[1].o.place = "edi" /\ defs[2].o.place = "esi"
    BY <1>4, <1>7 DEF Define
  <2>2. defs[3].o.place = i.dst.place
    BY <1>4 DEF Define
  <2> QED BY <1>0, <1>2, <1>3, <1>6, <2>1, <2>2 DEF Places
<1> DEFINE t1 == Move1(1, 1, DW, StepOf(i))
           t2 == Move1(2, 2, DW, StepOf(i))
           t3 == Copy(3, 3, Size(i.dst))
<1>9. Element(i, defs, 1, t1) /\ \A L : Acts(L, t1, moves(i, L, 1))
  <2>1. Edi \in {Edi, Esi} /\ Edi.place \in Touched(i)
    BY <1>6, <1>7
  <2> DEFINE o == Edi
  <2>2. /\ o \in {Edi, Esi} /\ o.place \in Touched(i) /\ 1 \in DOMAIN defs /\ 1 \in DOMAIN uses
        /\ defs[1] = Define(o) /\ uses[1] = Use(o)
    BY <1>3, <1>4, <1>5, <2>1
  <2> HIDE DEF o
  <2> QED BY <1>1, <1>2, <2>2, MovePart
<1>10. Element(i, defs, 2, t2) /\ \A L : Acts(L, t2, moves(i, L, 2))
  <2>1. Esi \in {Edi, Esi} /\ Esi.place \in Touched(i)
    BY <1>6, <1>7
  <2> DEFINE o == Esi
  <2>2. /\ o \in {Edi, Esi} /\ o.place \in Touched(i) /\ 2 \in DOMAIN defs /\ 2 \in DOMAIN uses
        /\ defs[2] = Define(o) /\ uses[2] = Use(o)
    BY <1>3, <1>4, <1>5, <2>1
  <2> HIDE DEF o
  <2> QED BY <1>1, <1>2, <2>2, MovePart
<1>11. Element(i, defs, 3, t3) /\ \A L : Acts(L, t3, copies(L, 3, 3))
  BY <1>1, <1>2, <1>3, <1>4, <1>5, DataPart
<1>12. \A L : inst_resolver(i, L) = copies(moves(i, moves(i, L, 1), 2), 3, 3)
  BY <1>0, <1>2 DEF inst_resolver, VectorNames, strmov_resolver, movs_resolver
<1> HIDE DEF a, b, t1, t2, t3
<1>13. Runs3(i, t1, t2, t3)
  <2> SUFFICES ASSUME NEW L, Live(i, L)
      PROVE  \/ /\ Honest(i, L) => ~ Idle(i)
                /\ \E L1, L2 : Acts(L, t1, L1) /\ Acts(L1, t2, L2)
                               /\ Acts(L2, t3, inst_resolver(i, L))
             \/ Waits(i, L)
    BY DEF Runs3
  <2>1. Acts(L, t1, moves(i, L, 1)) /\ Acts(moves(i, L, 1), t2, moves(i, moves(i, L, 1), 2))
        /\ Acts(moves(i, moves(i, L, 1), 2), t3, inst_resolver(i, L))
    BY <1>9, <1>10, <1>11, <1>12
  <2>2. ~ Idle(i)
    BY <1>0 DEF Idle
  <2> QED BY <2>1, <2>2
<1> QED BY <1>1, <1>2, <1>3, <1>8, <1>9, <1>10, <1>11, <1>13, StringThree

(* A repeated stos: the counter, edi and the datum. *)
LEMMA GoodStosRepeated ==
  ASSUME NEW i \in Instances, i.op = "stos", Supported(i), i.prefix
  PROVE  Good(i)
<1>0. i.prefix <=> TRUE
  OBVIOUS
<1> DEFINE a == i.dst
           b == i.src
           defs == <<Define(Ecx), Define(Edi), Define(a)>>
           uses == <<Use(Ecx), Use(Edi), Use(b)>>
<1>1. Complete(inst_handler(i), defs, uses)
  BY <1>0, StosRepeatedNodes
<1>2. i.op \in StringNames /\ Data(i)
  BY DEF StringNames, Data
<1>3. DOMAIN defs = {1, 2, 3} /\ DOMAIN uses = {1, 2, 3}
  OBVIOUS
<1>4. defs[1] = Define(Ecx) /\ defs[2] = Define(Edi) /\ defs[3] = Define(a)
  OBVIOUS
<1>5. uses[1] = Use(Ecx) /\ uses[2] = Use(Edi) /\ uses[3] = Use(b)
  OBVIOUS
<1>6. Touched(i) = {"edi"}
  BY DEF Touched
<1>7. Ecx.place = "ecx" /\ Edi.place = "edi"
  BY StringOperands
<1> HIDE DEF defs, uses
<1>8. Places(i, defs)
  <2>1. defs[1].o.place = "ecx" /\ defs[2].o.place = "edi"
    BY <1>4, <1>7 DEF Define
  <2>2. defs[3].o.place = i.dst.place
    BY <1>4 DEF Define
  <2> QED BY <1>0, <1>2, <1>3, <1>6, <2>1, <2>2 DEF Places
<1> DEFINE t1 == CountTie
           t2 == Move1(2, 2, DW, StepOf(i))
           t3 == Copy(3, 3, Size(i.dst))
<1>9. /\ Element(i, defs, 1, t1)
      /\ \A L : Live(i, L) /\ counted(L) => Acts(L, t1, counts(L))
      /\ \A L : Live(i, L) /\ counted(L) /\ Honest(i, L) => ~ Idle(i)
      /\ \A L : Live(i, L) /\ ~ counted(L) /\ inst_resolver(i, L) = L => Waits(i, L)
  BY <1>0, <1>1, <1>2, <1>3, <1>4, <1>5, CountPart
<1>10. Element(i, defs, 2, t2) /\ \A L : Acts(L, t2, moves(i, L, 2))
  <2>1. Edi \in {Edi, Esi} /\ Edi.place \in Touched(i)
    BY <1>6, <1>7
  <2> DEFINE o == Edi
  <2>2. /\ o \in {Edi, Esi} /\ o.place \in Touched(i) /\ 2 \in DOMAIN defs /\ 2 \in DOMAIN uses
        /\ defs[2] = Define(o) /\ uses[2] = Use(o)
    BY <1>3, <1>4, <1>5, <2>1
  <2> HIDE DEF o
  <2> QED BY <1>1, <1>2, <2>2, MovePart
<1>11. Element(i, defs, 3, t3) /\ \A L : Acts(L, t3, copies(L, 3, 3))
  BY <1>1, <1>2, <1>3, <1>4, <1>5, DataPart
<1>12. \A L : inst_resolver(i, L) = IF counted(L) THEN copies(moves(i, counts(L), 2), 3, 3) ELSE L
  BY <1>0, <1>2, StringCase DEF inst_resolver, VectorNames, strstore_resolver
<1> HIDE DEF a, b, t1, t2, t3
<1>13. Runs3(i, t1, t2, t3)
  <2> SUFFICES ASSUME NEW L, Live(i, L)
      PROVE  \/ /\ Honest(i, L) => ~ Idle(i)
                /\ \E L1, L2 : Acts(L, t1, L1) /\ Acts(L1, t2, L2)
                               /\ Acts(L2, t3, inst_resolver(i, L))
             \/ Waits(i, L)
    BY DEF Runs3
  <2>1. CASE counted(L)
    <3>1. Acts(L, t1, counts(L)) /\ Acts(counts(L), t2, moves(i, counts(L), 2))
          /\ Acts(moves(i, counts(L), 2), t3, inst_resolver(i, L))
      BY <1>9, <1>10, <1>11, <1>12, <2>1
    <3> QED BY <3>1, <2>1, <1>9
  <2>2. CASE ~ counted(L)
    BY <1>9, <1>12, <2>2
  <2> QED BY <2>1, <2>2
<1> QED BY <1>1, <1>2, <1>3, <1>8, <1>9, <1>10, <1>11, <1>13, StringThree

(* stos alone: edi and the datum. *)
LEMMA GoodStos ==
  ASSUME NEW i \in Instances, i.op = "stos", Supported(i), ~ i.prefix
  PROVE  Good(i)
<1>0. i.prefix <=> FALSE
  OBVIOUS
<1> DEFINE a == i.dst
           b == i.src
           defs == <<Define(Edi), Define(a)>>
           uses == <<Use(Edi), Use(b)>>
<1>1. Complete(inst_handler(i), defs, uses)
  BY <1>0, StosNodes
<1>2. i.op \in StringNames /\ Data(i)
  BY DEF StringNames, Data
<1>3. DOMAIN defs = {1, 2} /\ DOMAIN uses = {1, 2}
  OBVIOUS
<1>4. defs[1] = Define(Edi) /\ defs[2] = Define(a)
  OBVIOUS
<1>5. uses[1] = Use(Edi) /\ uses[2] = Use(b)
  OBVIOUS
<1>6. Touched(i) = {"edi"}
  BY DEF Touched
<1>7. Edi.place = "edi"
  BY StringOperands
<1> HIDE DEF defs, uses
<1>8. Places(i, defs)
  <2>1. defs[1].o.place = "edi"
    BY <1>4, <1>7 DEF Define
  <2>2. defs[2].o.place = i.dst.place
    BY <1>4 DEF Define
  <2> QED BY <1>0, <1>2, <1>3, <1>6, <2>1, <2>2 DEF Places
<1> DEFINE t1 == Move1(1, 1, DW, StepOf(i))
           t2 == Copy(2, 2, Size(i.dst))
<1>9. Element(i, defs, 1, t1) /\ \A L : Acts(L, t1, moves(i, L, 1))
  <2>1. Edi \in {Edi, Esi} /\ Edi.place \in Touched(i)
    BY <1>6, <1>7
  <2> DEFINE o == Edi
  <2>2. /\ o \in {Edi, Esi} /\ o.place \in Touched(i) /\ 1 \in DOMAIN defs /\ 1 \in DOMAIN uses
        /\ defs[1] = Define(o) /\ uses[1] = Use(o)
    BY <1>3, <1>4, <1>5, <2>1
  <2> HIDE DEF o
  <2> QED BY <1>1, <1>2, <2>2, MovePart
<1>10. Element(i, defs, 2, t2) /\ \A L : Acts(L, t2, copies(L, 2, 2))
  BY <1>1, <1>2, <1>3, <1>4, <1>5, DataPart
<1>11. \A L : inst_resolver(i, L) = copies(moves(i, L, 1), 2, 2)
  BY <1>0, <1>2 DEF inst_resolver, VectorNames, strstore_resolver, stos_resolver
<1> HIDE DEF a, b, t1, t2
<1>12. Runs2(i, t1, t2)
  <2> SUFFICES ASSUME NEW L, Live(i, L)
      PROVE  \/ /\ Honest(i, L) => ~ Idle(i)
                /\ \E L1 : Acts(L, t1, L1) /\ Acts(L1, t2, inst_resolver(i, L))
             \/ Waits(i, L)
    BY DEF Runs2
  <2>1. Acts(L, t1, moves(i, L, 1)) /\ Acts(moves(i, L, 1), t2, inst_resolver(i, L))
    BY <1>9, <1>10, <1>11
  <2>2. ~ Idle(i)
    BY <1>0 DEF Idle
  <2> QED BY <2>1, <2>2
<1> QED BY <1>1, <1>2, <1>3, <1>8, <1>9, <1>10, <1>12, StringTwo

(* lods: esi and the datum. *)
LEMMA GoodLods ==
  ASSUME NEW i \in Instances, i.op = "lods", Supported(i)
  PROVE  Good(i)
<1>0. ~ i.prefix
  BY StringCase DEF StringNames
<1> DEFINE a == i.dst
           b == i.src
           defs == <<Define(Esi), Define(a)>>
           uses == <<Use(Esi), Use(b)>>
<1>1. Complete(inst_handler(i), defs, uses)
  BY <1>0, LodsNodes
<1>2. i.op \in StringNames /\ Data(i)
  BY DEF StringNames, Data
<1>3. DOMAIN defs = {1, 2} /\ DOMAIN uses = {1, 2}
  OBVIOUS
<1>4. defs[1] = Define(Esi) /\ defs[2] = Define(a)
  OBVIOUS
<1>5. uses[1] = Use(Esi) /\ uses[2] = Use(b)
  OBVIOUS
<1>6. Touched(i) = {"esi"}
  BY DEF Touched
<1>7. Esi.place = "esi"
  BY StringOperands
<1> HIDE DEF defs, uses
<1>8. Places(i, defs)
  <2>1. defs[1].o.place = "esi"
    BY <1>4, <1>7 DEF Define
  <2>2. defs[2].o.place = i.dst.place
    BY <1>4 DEF Define
  <2> QED BY <1>0, <1>2, <1>3, <1>6, <2>1, <2>2 DEF Places
<1> DEFINE t1 == Move1(1, 1, DW, StepOf(i))
           t2 == Copy(2, 2, Size(i.dst))
<1>9. Element(i, defs, 1, t1) /\ \A L : Acts(L, t1, moves(i, L, 1))
  <2>1. Esi \in {Edi, Esi} /\ Esi.place \in Touched(i)
    BY <1>6, <1>7
  <2> DEFINE o == Esi
  <2>2. /\ o \in {Edi, Esi} /\ o.place \in Touched(i) /\ 1 \in DOMAIN defs /\ 1 \in DOMAIN uses
        /\ defs[1] = Define(o) /\ uses[1] = Use(o)
    BY <1>3, <1>4, <1>5, <2>1
  <2> HIDE DEF o
  <2> QED BY <1>1, <1>2, <2>2, MovePart
<1>10. Element(i, defs, 2, t2) /\ \A L : Acts(L, t2, copies(L, 2, 2))
  BY <1>1, <1>2, <1>3, <1>4, <1>5, DataPart
<1>11. \A L : inst_resolver(i, L) = copies(moves(i, L, 1), 2, 2)
  BY <1>0, <1>2 DEF inst_resolver, VectorNames, strload_resolver, lods_resolver
<1> HIDE DEF a, b, t1, t2
<1>12. Runs2(i, t1, t2)
  <2> SUFFICES ASSUME NEW L, Live(i, L)
      PROVE  \/ /\ Honest(i, L) => ~ Idle(i)
                /\ \E L1 : Acts(L, t1, L1) /\ Acts(L1, t2, inst_resolver(i, L))
             \/ Waits(i, L)
    BY DEF Runs2
  <2>1. Acts(L, t1, moves(i, L, 1)) /\ Acts(moves(i, L, 1), t2, inst_resolver(i, L))
    BY <1>9, <1>10, <1>11
  <2>2. ~ Idle(i)
    BY <1>0 DEF Idle
  <2> QED BY <2>1, <2>2
<1> QED BY <1>1, <1>2, <1>3, <1>8, <1>9, <1>10, <1>12, StringTwo

(* String instructions. *)
LEMMA GoodString ==
  ASSUME NEW i \in Instances, i.op \in StringNames, Supported(i) PROVE Good(i)
<1>1. CASE i.op = "scas"
  BY <1>1, GoodScas
<1>2. CASE i.op = "cmps"
  BY <1>2, GoodCmps
<1>3. CASE i.op = "movs"
  BY <1>3, GoodMovs, GoodMovsRepeated
<1>4. CASE i.op = "stos"
  BY <1>4, GoodStos, GoodStosRepeated
<1>5. CASE i.op = "lods"
  BY <1>5, GoodLods
<1> QED BY <1>1, <1>2, <1>3, <1>4, <1>5 DEF StringNames

(***************************************************************************)
(* Instructions of which nothing is concluded.                             *)
(***************************************************************************)
(* Comparisons, nops and conditional jumps define nothing. *)
LEMMA NoDefines ==
  ASSUME NEW i \in Instances, NEW uses, Complete(inst_handler(i), <<>>, uses), Effect(i) = NoChange,
         \A L : inst_resolver(i, L) = L
  PROVE  Good(i)
<1>1. DOMAIN <<>> = {}
  OBVIOUS
<1>2. Changed(i) = {}
  <2>1. DOMAIN NoChange = {}
    BY DEF NoChange
  <2> QED BY <2>1 DEF Changed
<1>3. Defined(i, <<>>)
  BY <1>1, <1>2 DEF Defined
<1>4. \A L : Live(i, L) => AllWritten(L)
  BY <1>1, LiveNodes DEF AllWritten
<1> QED BY <1>3, <1>4, NothingSaid

(* cmp, test and ptest write flags only, which have no nodes.              *)
LEMMA GoodCompare ==
  ASSUME NEW i \in Instances, i.op \in {"cmp", "test", "ptest"}, Supported(i) PROVE Good(i)
<1> DEFINE a == i.dst
           b == i.src
<1>1. inst_handler(i) = UseAt(a) \o UseAt(b)
  <2>1. inst_handler(i) = Accept(i, {RR, RI, RM, MR, MI}, UseAt(a) \o UseAt(b))
    BY DEF inst_handler, unknown_handler, VectorNames, JccNames, NotHandled, cmp_handler,
       test_handler
  <2>2. Handled(i)
    BY DEF Supported
  <2> QED BY <2>1, <2>2, Accepted
<1>2. \E uses : Complete(inst_handler(i), <<>>, uses)
  <2> HIDE DEF a, b
  <2>1. Complete(UseAt(a), <<>>, <<Use(a)>>)
    BY MadeFirst
  <2>2. Complete(UseAt(a) \o UseAt(b), <<>>, Append(<<Use(a)>>, Use(b)))
    BY <2>1, ThenUseAt
  <2> QED BY <1>1, <2>2
<1>3. Effect(i) = NoChange
  <2>1. Control(i) = NoChange
    BY DEF Control
  <2> QED BY <2>1 DEF Effect, ArithmeticNames, LogicNames, MoveNames, StringNames
<1>4. \A L : inst_resolver(i, L) = L
  BY DEF inst_resolver, unknown_resolver, VectorNames, nothing_concluded
<1> QED BY <1>2, <1>3, <1>4, NoDefines

(* cld, nop, the floating point instructions and the jumps have no nodes.  *)
LEMMA GoodIdle ==
  ASSUME NEW i \in Instances, i.op \in {"cld", "nop", "fpu"} \cup JccNames PROVE Good(i)
<1>1. inst_handler(i) = <<>>
  BY DEF inst_handler, VectorNames, JccNames, NotHandled, jcc_handler
<1>2. Effect(i) = NoChange
  <2>1. Control(i) = NoChange
    BY DEF Control, JccNames
  <2> QED BY <2>1 DEF Effect, ArithmeticNames, LogicNames, MoveNames, StringNames, JccNames
<1>3. \A L : inst_resolver(i, L) = L
  BY DEF inst_resolver, VectorNames, nothing_concluded, JccNames
<1> QED BY <1>1, <1>2, <1>3, MadeNone, NoDefines

(* One define that is written, of which nothing is concluded. *)
LEMMA OneSilent ==
  ASSUME NEW i \in Instances, NEW a, NEW uses, Complete(inst_handler(i), <<Define(a)>>, uses),
         Only(i, a), After(i, a) \in Bytes(Size(a)), Silent(i), \A L : inst_resolver(i, L) = L
  PROVE  Good(i)
<1>1. Defined(i, <<Define(a)>>)
  BY OneDefined
<1> QED BY <1>1, NothingSaid

(* adc and sbb. *)
LEMMA GoodCarry ==
  ASSUME NEW i \in Instances, i.op \in {"adc", "sbb"}, Supported(i) PROVE Good(i)
<1> DEFINE a == i.dst
           m == Size(a)
           v == Before(i, a)
           w == SourceValue(i)
           r == IF i.op = "adc" THEN AddVal(AddVal(v, w), <<i.flag>>)
                ELSE SubVal(SubVal(v, w), <<i.flag>>)
<1>1. TwoUses(i, i.dst, i.src)
  <2>1. CASE i.op = "adc"
    <3>1. Handled(i) /\ inst_handler(i) = Accept(i, {RR, RM, MI, MR, RI}, DstSrc(i))
      BY <2>1 DEF Supported, inst_handler, VectorNames, JccNames, NotHandled, add_handler
    <3> QED BY <3>1, DstSrcUses
  <2>2. CASE i.op = "sbb"
    <3>1. Handled(i) /\ inst_handler(i) = Accept(i, {RR, RI, MI, MR, RM}, DstSrc(i))
      BY <2>2 DEF Supported, inst_handler, VectorNames, JccNames, NotHandled, sub_handler
    <3> QED BY <3>1, DstSrcUses
  <2> QED BY <2>1, <2>2
<1>2. /\ m \in Nat /\ Size(i.src) \in Nat /\ v \in Bytes(m)
      /\ Before(i, i.src) \in Bytes(Size(i.src))
  BY <1>1 DEF TwoUses, TwoRead
<1>3. w \in Bytes(m)
  BY <1>2, Fits DEF SourceValue
<1>4. <<i.flag>> \in Bytes(1)
  <2>1. i.flag \in {0, 1}
    BY InstancesAssumption DEF IsInstruction
  <2> QED BY <2>1, OperandsAssumption DEF Bytes, Byte
<1>5. r \in Bytes(m)
  <2> HIDE DEF m, v, w
  <2>1. AddVal(v, w) \in Bytes(m) /\ SubVal(v, w) \in Bytes(m)
    BY <1>2, <1>3, SumsUndone
  <2> QED BY <1>2, <1>4, <2>1, SumsUndone
<1>6. Effect(i) = (a.place := r)
  <2>1. Arithmetic(i) = (a.place := r)
    BY DEF Arithmetic
  <2> QED BY <2>1 DEF Effect, ArithmeticNames, LogicNames, MoveNames, StringNames
<1>7. \A L : inst_resolver(i, L) = L
  BY DEF inst_resolver, VectorNames, add_resolver, sub_resolver
<1>8. Silent(i)
  BY DEF Silent
<1> HIDE DEF r
<1>9. Only(i, a) /\ After(i, a) = r
  <2> HIDE DEF a
  <2> QED BY <1>6, Writes
<1> QED BY <1>1, <1>5, <1>7, <1>8, <1>9, OneSilent DEF TwoUses

(* cmovcc and setcc. *)
LEMMA GoodCondition ==
  ASSUME NEW i \in Instances, i.op \in {"cmovcc", "setcc"}, Supported(i) PROVE Good(i)
<1> DEFINE a == i.dst
           b == i.src
<1>1. inst_handler(i) = DefineAt(a) \o (IF b.t = "none" THEN <<>> ELSE UseAt(b))
  BY DEF inst_handler, VectorNames, JccNames, NotHandled, movcc_handler
<1>2. IF b.t = "none" THEN Complete(inst_handler(i), <<Define(a)>>, <<>>)
      ELSE Complete(inst_handler(i), <<Define(a)>>, <<Use(b)>>)
  <2> HIDE DEF a, b
  <2>1. CASE b.t = "none"
    <3>1. Complete(DefineAt(a), <<Define(a)>>, <<>>)
      BY MadeFirst
    <3>2. DefineAt(a) \o <<>> = DefineAt(a)
      <4>1. PICK T : DefineAt(a) \in Seq(T)
        BY <3>1 DEF Complete, Made
      <4> QED BY <4>1, Assoc
    <3> QED BY <1>1, <2>1, <3>1, <3>2
  <2>2. CASE b.t # "none"
    BY <1>1, <2>2, Patterns
  <2> QED BY <2>1, <2>2
<1>3. PICK uses : Complete(inst_handler(i), <<Define(a)>>, uses)
      /\ (b.t # "none" => uses = <<Use(b)>>)
  BY <1>2
<1>4. Before(i, a) \in Bytes(Size(a))
  BY <1>3, Single
<1> DEFINE r == IF i.op = "setcc" THEN <<i.flag>> ELSE IF i.flag = 1 THEN Before(i, b)
                ELSE Before(i, a)
<1>5. r \in Bytes(Size(a))
  <2>1. CASE i.op = "setcc"
    <3>1. i.flag \in {0, 1}
      BY InstancesAssumption DEF IsInstruction
    <3>2. a.dt = "byte"
      BY <2>1 DEF Supported, JccNames
    <3>3. Size(a) = 1
      BY <3>2, Sizes DEF Size
    <3> QED BY <2>1, <3>1, <3>3, OperandsAssumption DEF Bytes, Byte
  <2>2. CASE i.op = "cmovcc"
    <3>1. b.t # "none" /\ a.dt = b.dt
      BY <2>2 DEF Supported, JccNames, SameSize
    <3>2. 1 \in DOMAIN <<Use(b)>> /\ <<Use(b)>>[1] = Use(b)
      OBVIOUS
    <3>3. Before(i, b) \in Bytes(Size(b))
      BY <1>3, <3>1, <3>2, UseOf
    <3>4. Size(a) = Size(b)
      BY <3>1 DEF Size
    <3> QED BY <1>4, <2>2, <3>3, <3>4
  <2> QED BY <2>1, <2>2
<1>6. Effect(i) = (a.place := r)
  <2>1. Move(i) = (a.place := r)
    BY DEF Move
  <2> QED BY <2>1 DEF Effect, ArithmeticNames, LogicNames, MoveNames, StringNames
<1>7. \A L : inst_resolver(i, L) = L
  BY DEF inst_resolver, VectorNames, movcc_resolver
<1>8. Silent(i)
  BY DEF Silent
<1> HIDE DEF r
<1>9. Only(i, a) /\ After(i, a) = r
  <2> HIDE DEF a
  <2> QED BY <1>6, Writes
<1> QED BY <1>3, <1>5, <1>7, <1>8, <1>9, OneSilent

(* bt gets a define that is not written. *)
LEMMA GoodBit ==
  ASSUME NEW i \in Instances, i.op = "bt", Supported(i) PROVE Good(i)
<1> DEFINE a == i.dst
           b == i.src
<1>1. Complete(inst_handler(i), <<Define(a)>>, <<Use(b)>>)
  <2>1. inst_handler(i) = Accept(i, {RM, RR}, <<Define(a)>> \o UseAt(b)) /\ Handled(i)
    BY DEF Supported, inst_handler, VectorNames, JccNames, NotHandled, bittest_handler
  <2>2. inst_handler(i) = <<Define(a)>> \o UseAt(b) /\ Form(i) \in {RM, RR}
    BY <2>1, Accepted
  <2>3. a.t # "mem"
    BY <2>2 DEF Form, RR, RM
  <2> QED BY <2>2, <2>3, Patterns
<1>2. Valid(i, a) /\ Before(i, a) \in Bytes(Size(a))
  BY <1>1, Single
<1>3. Effect(i) = NoChange
  <2>1. Move(i) = NoChange
    BY DEF Move
  <2> QED BY <2>1 DEF Effect, ArithmeticNames, LogicNames, MoveNames, StringNames
<1>4. \A L : inst_resolver(i, L) = L
  BY DEF inst_resolver, VectorNames, bittest_resolver
<1>5. Silent(i)
  BY DEF Silent
<1>6. After(i, a) = Before(i, a)
  <2> HIDE DEF a
  <2> QED BY <1>2, <1>3, Writes DEF Valid
<1>7. Only(i, a)
  <2>1. DOMAIN NoChange = {}
    BY DEF NoChange
  <2> QED BY <1>3, <2>1 DEF Only, Changed
<1> QED BY <1>1, <1>2, <1>4, <1>5, <1>6, <1>7, OneSilent

(* palignr. *)
LEMMA GoodAlign ==
  ASSUME NEW i \in Instances, i.op = "palignr", Supported(i) PROVE Good(i)
<1> DEFINE a == i.dst
           b == i.src
           c == i.third
           n == Before(i, c)[1]
           r == SubSeq(Before(i, b) \o Before(i, a), n + 1, n + 2 * DW)
           uses == <<Use(a), Use(b), Use(c)>>
<1>0. /\ Handled(i) /\ a.dt = "dqword" /\ a.dt = b.dt /\ c.t = "imm" /\ n <= 2 * DW
  BY DEF Supported, JccNames, SameSize
<1>1. inst_handler(i) = DefineAt(a) \o UseAt(a) \o UseAt(b) \o <<Use(c)>>
  <2>1. inst_handler(i) = Accept(i, {RR, RM}, DstSrc(i) \o <<Use(c)>>)
    <3> HIDE DEF a, b, c, n, r, uses
    <3>1. inst_handler(i) = unknown_handler(i)
      BY DEF inst_handler, VectorNames, JccNames, NotHandled
    <3>2. unknown_handler(i) = palignr_handler(i)
      BY DEF unknown_handler
    <3> QED BY <3>1, <3>2 DEF palignr_handler, c
  <2>2. inst_handler(i) = DstSrc(i) \o <<Use(c)>>
    BY <1>0, <2>1, Accepted
  <2> QED BY <2>2 DEF DstSrc
<1>2. Complete(inst_handler(i), <<Define(a)>>, uses)
  <2>0. c.t # "mem"
    BY <1>0
  <2> HIDE DEF a, b, c
  <2>1. Complete((DefineAt(a) \o UseAt(a)) \o UseAt(b), <<Define(a)>>, <<Use(a), Use(b)>>)
    BY Patterns
  <2>2. Complete(((DefineAt(a) \o UseAt(a)) \o UseAt(b)) \o <<Use(c)>>, <<Define(a)>>,
                 Append(<<Use(a), Use(b)>>, Use(c)))
    BY <2>0, <2>1, ThenUse
  <2>3. Append(<<Use(a), Use(b)>>, Use(c)) = uses
    BY Tuples
  <2> QED BY <1>1, <2>2, <2>3
<1>3. DOMAIN uses = {1, 2, 3} /\ uses[2] = Use(b) /\ uses[3] = Use(c)
  OBVIOUS
<1> HIDE DEF uses
<1>4. Before(i, b) \in Bytes(Size(b))
  <2> HIDE DEF b
  <2> QED BY <1>2, <1>3, NodesOf
<1>5. Before(i, c) \in Bytes(Size(c)) /\ Size(c) \in Nat \ {0}
  <2> HIDE DEF c
  <2> QED BY <1>2, <1>3, NodesOf
<1>6. Before(i, a) \in Bytes(Size(a))
  BY <1>2, Single
<1>7. Size(a) = 2 * DW /\ Size(b) = 2 * DW
  BY <1>0, Sizes DEF Size
<1>8. n \in 0 .. 2 * DW
  <2>1. n \in Byte
    BY <1>5 DEF Bytes
  <2> QED BY <1>0, <2>1, OperandsAssumption DEF Byte
<1>9. r \in Bytes(Size(a))
  <2> HIDE DEF a, b, n
  <2> QED BY <1>4, <1>6, <1>7, <1>8, Window
<1>10. Effect(i) = (a.place := r)
  <2>1. Logic(i) = (a.place := r)
    BY DEF Logic
  <2> QED BY <2>1 DEF Effect, ArithmeticNames, LogicNames, MoveNames, StringNames
<1>11. \A L : inst_resolver(i, L) = L
  BY DEF inst_resolver, unknown_resolver, VectorNames, palignr_resolver
<1>12. Silent(i)
  BY DEF Silent
<1> HIDE DEF r
<1>13. Only(i, a) /\ After(i, a) = r
  <2> HIDE DEF a
  <2> QED BY <1>10, Writes
<1> QED BY <1>2, <1>9, <1>11, <1>12, <1>13, OneSilent

(* Registers that the system fills, of which nothing is concluded. *)
LEMMA SystemFills ==
  ASSUME NEW i \in Instances, NEW defs, NEW uses, Complete(inst_handler(i), defs, uses),
         \A j \in DOMAIN defs : /\ defs[j].aft = <<>> /\ Size(defs[j].o) = DW
                                /\ defs[j].o.place \in DOMAIN Effect(i),
         \A p \in DOMAIN Effect(i) : /\ Effect(i)[p] = i.garbage
                                     /\ \E j \in DOMAIN defs : defs[j].o.place = p,
         Silent(i), \A L : inst_resolver(i, L) = L
  PROVE  Good(i)
<1>1. \A j \in DOMAIN defs : After(i, defs[j].o) = i.garbage
  BY DEF After, ++
<1>2. i.garbage \in Bytes(DW)
  BY InstancesAssumption DEF IsInstruction
<1>3. Changed(i) \subseteq DOMAIN Effect(i)
  BY DEF Changed
<1>4. Defined(i, defs)
  BY <1>1, <1>2, <1>3 DEF Defined
<1> QED BY <1>4, NothingSaid

(* The registers. *)
LEMMA SystemRegisters ==
  \A p : Dword(p).t = "reg" /\ Dword(p).place = p /\ Size(Dword(p)) = DW
  BY Sizes DEF Dword, R, Operand, Size

(* rdtsc and int. *)
LEMMA GoodSystem ==
  ASSUME NEW i \in Instances, i.op \in {"rdtsc", "int"} PROVE Good(i)
<1> DEFINE a == Edx
           b == Eax
<1>0. /\ a.t = "reg" /\ a.place = "edx" /\ Size(a) = DW
      /\ b.t = "reg" /\ b.place = "eax" /\ Size(b) = DW
  BY SystemRegisters DEF Eax, Edx
<1>1. Silent(i) /\ \A L : inst_resolver(i, L) = L
  BY DEF Silent, inst_resolver, VectorNames, nothing_concluded
<1>2. CASE i.op = "rdtsc"
  <2> DEFINE defs == <<Define(a), Define(b)>>
  <2>1. Effect(i) = ("edx" := i.garbage) ++ ("eax" := i.garbage)
    <3>1. Control(i) = ("edx" := i.garbage) ++ ("eax" := i.garbage)
      BY <1>2 DEF Control
    <3> QED BY <1>2, <3>1 DEF Effect, ArithmeticNames, LogicNames, MoveNames, StringNames
  <2>2. DOMAIN Effect(i) = {"edx", "eax"} /\ \A p \in {"edx", "eax"} : Effect(i)[p] = i.garbage
    BY <2>1 DEF :=, ++
  <2>3. inst_handler(i) = defs
    BY <1>2 DEF inst_handler, VectorNames, JccNames, NotHandled, rdtsc_handler
  <2> HIDE DEF a, b
  <2>4. Complete(inst_handler(i), defs, <<>>)
    <3>1. Complete(<<Define(a)>>, <<Define(a)>>, <<>>)
      BY <1>0, MadeFirst
    <3>2. Complete(<<Define(a)>> \o <<Define(b)>>, Append(<<Define(a)>>, Define(b)), <<>>)
      BY <1>0, <3>1, ThenDefine
    <3>3. <<Define(a)>> \o <<Define(b)>> = defs
      BY Joins
    <3>4. Append(<<Define(a)>>, Define(b)) = defs
      BY Tuples
    <3> QED BY <2>3, <3>2, <3>3, <3>4
  <2>5. DOMAIN defs = {1, 2} /\ defs[1].o = a /\ defs[2].o = b /\ defs[1].aft = <<>>
        /\ defs[2].aft = <<>>
    BY DEF Define
  <2> HIDE DEF defs
  <2> QED BY <1>0, <1>1, <2>2, <2>4, <2>5, SystemFills
<1>3. CASE i.op = "int"
  <2> DEFINE defs == <<Define(b)>>
  <2>1. Effect(i) = ("eax" := i.garbage)
    <3>1. Control(i) = ("eax" := i.garbage)
      BY <1>3 DEF Control
    <3> QED BY <1>3, <3>1 DEF Effect, ArithmeticNames, LogicNames, MoveNames, StringNames
  <2>2. DOMAIN Effect(i) = {"eax"} /\ Effect(i)["eax"] = i.garbage
    BY <2>1 DEF :=
  <2>3. inst_handler(i) = defs
    BY <1>3 DEF inst_handler, VectorNames, JccNames, NotHandled, int_handler
  <2> HIDE DEF a, b
  <2>4. Complete(inst_handler(i), defs, <<>>)
    BY <1>0, <2>3, MadeFirst
  <2>5. DOMAIN defs = {1} /\ defs[1].o = b /\ defs[1].aft = <<>>
    BY DEF Define
  <2> HIDE DEF defs
  <2> QED BY <1>0, <1>1, <2>2, <2>4, <2>5, SystemFills
<1> QED BY <1>2, <1>3

(* A fourth and a fifth node. *)
FiveJoined(p, q, r, s, t) ==
  /\ <<p, q, r>> \o <<s>> = <<p, q, r, s>> /\ Append(<<p, q, r>>, s) = <<p, q, r, s>>
  /\ <<p, q, r, s>> \o <<t>> = <<p, q, r, s, t>>
(* Such tuples are what joining makes of shorter ones.                     *)
LEMMA FiveJoin == \A p, q, r, s, t : FiveJoined(p, q, r, s, t)
<1> SUFFICES ASSUME NEW p, NEW q, NEW r, NEW s, NEW t PROVE FiveJoined(p, q, r, s, t)
  OBVIOUS
<1>1. <<p, q, r>> \o <<s>> = <<p, q, r, s>>
  <2> DEFINE w == <<p, q, r>> \o <<s>>
  <2>1. w \in Seq({p, q, r, s}) /\ Len(w) = 4 /\ w[1] = p /\ w[2] = q /\ w[3] = r /\ w[4] = s
    OBVIOUS
  <2> HIDE DEF w
  <2>2. w = <<p, q, r, s>>
    BY <2>1
  <2> QED BY <2>2 DEF w
<1>2. Append(<<p, q, r>>, s) = <<p, q, r, s>>
  BY AppendThree DEF AppendsTo
<1>3. <<p, q, r, s>> \o <<t>> = <<p, q, r, s, t>>
  <2> DEFINE w == <<p, q, r, s>> \o <<t>>
  <2>1. w \in Seq({p, q, r, s, t}) /\ Len(w) = 5 /\ w[1] = p /\ w[2] = q /\ w[3] = r /\ w[4] = s
        /\ w[5] = t
    OBVIOUS
  <2> HIDE DEF w
  <2>2. w = <<p, q, r, s, t>>
    BY <2>1
  <2> QED BY <2>2 DEF w
<1> QED BY <1>1, <1>2, <1>3 DEF FiveJoined

(* cpuid. *)
LEMMA GoodIdentification ==
  ASSUME NEW i \in Instances, i.op = "cpuid" PROVE Good(i)
<1> DEFINE a == Eax
           b == Dword("ecx")
           c == Edx
           d == Dword("ebx")
           p1 == Define(a)
           p2 == Define(b)
           p3 == Define(c)
           p4 == Define(d)
           u == Use(a)
           defs == <<p1, p2, p3, p4>>
           uses == <<u>>
           P == {"eax", "ebx", "ecx", "edx"}
<1>0. /\ a.t = "reg" /\ a.place = "eax" /\ Size(a) = DW
      /\ b.t = "reg" /\ b.place = "ecx" /\ Size(b) = DW
      /\ c.t = "reg" /\ c.place = "edx" /\ Size(c) = DW
      /\ d.t = "reg" /\ d.place = "ebx" /\ Size(d) = DW
  BY SystemRegisters DEF Eax, Edx
<1>1. Silent(i) /\ \A L : inst_resolver(i, L) = L
  BY DEF Silent, inst_resolver, VectorNames, nothing_concluded
<1>2. DOMAIN Effect(i) = P /\ \A p \in P : Effect(i)[p] = i.garbage
  <2> DEFINE g == i.garbage
             e1 == ("eax" := g) ++ ("ebx" := g)
             e2 == e1 ++ ("ecx" := g)
  <2>1. Effect(i) = e2 ++ ("edx" := g)
    <3>1. Control(i) = e2 ++ ("edx" := g)
      BY DEF Control
    <3> QED BY <3>1 DEF Effect, ArithmeticNames, LogicNames, MoveNames, StringNames
  <2>2. DOMAIN e1 = {"eax", "ebx"} /\ e1["eax"] = g /\ e1["ebx"] = g
    BY DEF :=, ++
  <2> HIDE DEF e1
  <2>3. DOMAIN e2 = {"eax", "ebx", "ecx"} /\ e2["eax"] = g /\ e2["ebx"] = g /\ e2["ecx"] = g
    BY <2>2 DEF :=, ++
  <2> HIDE DEF e2
  <2> QED BY <2>1, <2>3 DEF :=, ++
<1>3. inst_handler(i) = <<p1, p2, p3, p4, u>>
  BY DEF inst_handler, VectorNames, JccNames, NotHandled, cpuid_handler
<1> HIDE DEF a, b, c, d, P
<1>5. /\ DOMAIN defs = {1, 2, 3, 4} /\ defs[1].o = a /\ defs[2].o = b /\ defs[3].o = c
         /\ defs[4].o = d
      /\ defs[1].aft = <<>> /\ defs[2].aft = <<>> /\ defs[3].aft = <<>> /\ defs[4].aft = <<>>
  BY DEF Define
<1>4. Complete(inst_handler(i), defs, uses)
  <2>0. /\ Complete(<<p1>>, <<p1>>, <<>>)
        /\ \A nodes, ds, us : Complete(nodes, ds, us) =>
             /\ Complete(nodes \o <<p2>>, Append(ds, p2), us)
             /\ Complete(nodes \o <<p3>>, Append(ds, p3), us)
             /\ Complete(nodes \o <<p4>>, Append(ds, p4), us)
             /\ Complete(nodes \o <<u>>, ds, Append(us, u))
    BY <1>0, MadeFirst, ThenDefine, ThenUse
  <2> HIDE DEF p1, p2, p3, p4, u
  <2> HIDE DEF defs, uses
  <2>1. <<p1>> \o <<p2>> = <<p1, p2>>
    BY Joins DEF defs
  <2>1a. Append(<<p1>>, p2) = <<p1, p2>>
    BY Tuples DEF defs, uses
  <2>2. <<p1, p2>> \o <<p3>> = <<p1, p2, p3>>
    BY Joins DEF defs
  <2>2a. Append(<<p1, p2>>, p3) = <<p1, p2, p3>>
    BY Tuples DEF defs, uses
  <2>3. FiveJoined(p1, p2, p3, p4, u)
    BY FiveJoin
  <2>4. /\ <<p1, p2, p3>> \o <<p4>> = defs /\ Append(<<p1, p2, p3>>, p4) = defs
        /\ defs \o <<u>> = <<p1, p2, p3, p4, u>>
    BY <2>3 DEF FiveJoined, defs
  <2>4a. Append(<<>>, u) = uses
    BY Tuples DEF defs, uses
  <2>5. Complete(<<p1, p2>>, <<p1, p2>>, <<>>)
    BY <2>0, <2>1, <2>1a
  <2>6. Complete(<<p1, p2, p3>>, <<p1, p2, p3>>, <<>>)
    BY <2>0, <2>2, <2>2a, <2>5
  <2> HIDE DEF defs, uses
  <2>7. Complete(defs, defs, <<>>)
    BY <2>0, <2>4, <2>6
  <2> QED BY <1>3, <2>0, <2>4, <2>4a, <2>7
<1> HIDE DEF p1, p2, p3, p4, u
<1> HIDE DEF defs, uses
<1>6. \A j \in DOMAIN defs : defs[j].aft = <<>> /\ Size(defs[j].o) = DW
                             /\ defs[j].o.place \in DOMAIN Effect(i)
  <2>1. defs[1].o.place \in P /\ defs[2].o.place \in P /\ defs[3].o.place \in P
        /\ defs[4].o.place \in P
    BY <1>0, <1>5 DEF P
  <2> QED BY <1>0, <1>2, <1>5, <2>1
<1>7. \A p \in P : \E j \in DOMAIN defs : defs[j].o.place = p
  BY <1>0, <1>5 DEF P
<1> QED BY <1>1, <1>2, <1>4, <1>6, <1>7, SystemFills

(***************************************************************************)
(* Resolvers that tell one value.                                          *)
(***************************************************************************)
(* What is left after a typed value, true when the others are, was told.   *)
LEMMA Tells ==
  ASSUME NEW i, NEW L, Live(i, L), NEW side \in Sides, NEW k \in DOMAIN L[side], NEW v, NEW w,
         w = Fit(v, SizeAt(L, side, k)), w \in Bytes(SizeAt(L, side, k)),
         Honest(i, L) => w = RightAt(i, L, side, k),
         NEW K2, K2 = tell(L, side, k, v)
  PROVE  /\ Fine(i, L, K2)
         /\ K2.out = "ok" => /\ Live(i, K2) /\ K2[side][k] = w
                             /\ K2.src = L.src /\ K2.dst = L.dst
                             /\ \A s \in Sides \ {side} : K2[s] = L[s]
                             /\ DOMAIN K2[side] = DOMAIN L[side]
                             /\ \A j \in DOMAIN L[side] : j # k => K2[side][j] = L[side][j]
<1>1. Ready(L) /\ Knowledge(L)
  BY DEF Live, Ready
<1>2. Fine(i, L, K2) /\ Told(L, K2, side, k, w)
  BY <1>1, TellFine
<1>3. Grows(L, K2)
  BY <1>1, TellGrows
<1>4. K2.out = "ok" => Live(i, K2)
  BY <1>2, <1>3, LiveOn
<1> QED BY <1>2, <1>4 DEF Told

(* To tell what is known already changes nothing. *)
LEMMA ToldAgain ==
  ASSUME NEW i, NEW L, Live(i, L), NEW side \in Sides, NEW k \in DOMAIN L[side], NEW v,
         Known(L[side][k]), L[side][k] = Fit(v, SizeAt(L, side, k))
  PROVE  tell(L, side, k, v) = L
  BY Tell DEF Live, Ready

(* The value at a side, for a use and for a define. *)
LEMMA SideFacts ==
  /\ "val" \in Sides /\ "aft" \in Sides /\ "bef" \in Sides
  /\ \A L, k : SizeAt(L, "val", k) = Size(L.src[k]) /\ SizeAt(L, "aft", k) = Size(L.dst[k])
  /\ \A i, L, k : /\ RightAt(i, L, "val", k) = Before(i, L.src[k])
                  /\ RightAt(i, L, "aft", k) = After(i, L.dst[k])
  BY DEF Sides, SizeAt, RightAt

(* movlpd and movhpd load or store one half of a vector register. *)
HalfOf(i, v) == IF i.op = "movlpd" THEN LowHalf(v) ELSE HighHalf(v)
(* Stored, the half of the register is the cell; loaded, it stays unsaid.  *)
LEMMA GoodHalf ==
  ASSUME NEW i \in Instances, i.op \in {"movlpd", "movhpd"}, Supported(i) PROVE Good(i)
<1> DEFINE a == i.dst
           b == i.src
           a0 == Before(i, a)
           v0 == Before(i, b)
           uses == <<Use(b)>>
<1>1. Complete(inst_handler(i), <<Define(a)>>, uses)
  <2>0. Handled(i)
    BY DEF Supported
  <2>1. inst_handler(i) = Accept(i, {RR, RM, MR, MI, RI}, DefineAt(a) \o UseAt(b))
    BY DEF inst_handler, VectorNames, JccNames, NotHandled, mov_handler
  <2>2. inst_handler(i) = DefineAt(a) \o UseAt(b)
    BY <2>0, <2>1, Accepted
  <2> QED BY <2>2, Patterns
<1>2. IF a.t = "reg" THEN Size(a) = 2 * DW /\ Size(b) = DW ELSE Size(a) = DW /\ Size(b) = 2 * DW
  <2>1. IF a.t = "reg" THEN a.dt = "dqword" /\ Size(b) = DW ELSE Size(a) = DW /\ b.dt = "dqword"
    BY DEF Supported, JccNames
  <2> QED BY <2>1, Sizes DEF Size
<1>3. 1 \in DOMAIN uses /\ uses[1] = Use(b)
  OBVIOUS
<1> HIDE DEF uses
<1>4. /\ v0 \in Bytes(Size(b))
      /\ \A L : Live(i, L) => /\ L.src[1] = b /\ 1 \in DOMAIN L.val
                              /\ Known(L.val[1]) => L.val[1] \in Bytes(Size(b))
  BY <1>1, <1>3, UseOf
<1>5. a0 \in Bytes(Size(a)) /\ \A L : Live(i, L) => Ready(L) /\ L.dst[1] = a /\ DOMAIN L.aft = {1}
  BY <1>1, Single
<1>6. DW \in Nat \ {0} /\ 2 * DW \in Nat \ {0}
  BY OperandsAssumption
<1>7. Effect(i) = (a.place := IF a.t = "reg"
      THEN (IF i.op = "movlpd" THEN v0 \o HighHalf(a0) ELSE LowHalf(a0) \o v0)
                              ELSE HalfOf(i, v0))
  <2>1. Effect(i) = Logic(i)
    BY DEF Effect, ArithmeticNames, LogicNames, MoveNames, StringNames
  <2>2. CASE i.op = "movlpd"
    BY <2>1, <2>2 DEF Logic, HalfOf
  <2>3. CASE i.op = "movhpd"
    BY <2>1, <2>3 DEF Logic, HalfOf
  <2> QED BY <2>2, <2>3
<1>8. \A L : inst_resolver(i, L) =
        IF L.dst[1].t = "reg" THEN
          IF Known(L.aft[1]) THEN tell(L, "val", 1, HalfOf(i, L.aft[1])) ELSE L
        ELSE forward_only(L, {1}, 1, HalfOf(i, L.val[1]))
  <2>0. \A L : sees(L, {}, {1}) <=> Known(L.aft[1])
    BY DEF sees
  <2>1. CASE i.op = "movlpd"
    <3>1. \A L : inst_resolver(i, L) = half(L, LowHalf)
      BY <2>1 DEF inst_resolver, VectorNames, mov_resolver, process_other_mov_inst, movlpd_resolver
    <3>2. \A v : HalfOf(i, v) = LowHalf(v)
      BY <2>1 DEF HalfOf
    <3> QED BY <2>0, <3>1, <3>2 DEF half
  <2>2. CASE i.op = "movhpd"
    <3>1. \A L : inst_resolver(i, L) = half(L, HighHalf)
      BY <2>2 DEF inst_resolver, VectorNames, mov_resolver, process_other_mov_inst, movhpd_resolver
    <3>2. \A v : HalfOf(i, v) = HighHalf(v)
      BY <2>2 DEF HalfOf
    <3> QED BY <2>0, <3>1, <3>2 DEF half
  <2> QED BY <2>1, <2>2
<1>9. CASE a.t = "reg"
  <2> DEFINE r == IF i.op = "movlpd" THEN v0 \o HighHalf(a0) ELSE LowHalf(a0) \o v0
  <2>1. r \in Bytes(2 * DW) /\ HalfOf(i, r) = v0
    <3>1. v0 \in Bytes(DW) /\ a0 \in Bytes(2 * DW)
      BY <1>2, <1>4, <1>5, <1>9
    <3>2. LowHalf(a0) \in Bytes(DW) /\ HighHalf(a0) \in Bytes(DW)
      BY <3>1, HalvesOf
    <3> QED BY <3>1, <3>2, Halves DEF HalfOf
  <2>2. After(i, a) = r /\ Only(i, a)
    <3> HIDE DEF a, a0, v0
    <3>1. Effect(i) = (a.place := r)
      BY <1>7, <1>9
    <3> HIDE DEF r
    <3> QED BY <3>1, Writes
  <2> HIDE DEF r
  <2>3. Silent(i)
    BY <1>9 DEF Silent
  <2>4. ASSUME NEW L, Live(i, L) PROVE Resolved(i, L, inst_resolver(i, L))
    <3>1. L.dst[1] = a /\ L.src[1] = b /\ Ready(L) /\ 1 \in DOMAIN L.val /\ 1 \in DOMAIN L.aft
      BY <1>4, <1>5, <2>4
    <3>2. CASE ~ Known(L.aft[1])
      <4>1. inst_resolver(i, L) = L
        BY <1>8, <1>9, <3>1, <3>2
      <4> QED BY <2>3, <3>1, <4>1, FineRefl DEF Resolved
    <3>3. CASE Known(L.aft[1])
      <4> DEFINE v == HalfOf(i, L.aft[1])
                 K2 == tell(L, "val", 1, v)
      <4>1. L.aft[1] \in Bytes(2 * DW)
        BY <1>2, <1>9, <3>1, <3>3 DEF Ready, Sized
      <4>2. v \in Bytes(DW)
        BY <4>1, HalvesOf DEF HalfOf
      <4>3. Fit(v, DW) = v
        BY <1>6, <4>2, BytesKnown
      <4>4. Honest(i, L) => v = v0
        BY <2>1, <2>2, <3>1, <3>3 DEF Honest
      <4>5. inst_resolver(i, L) = K2
        BY <1>8, <1>9, <3>1, <3>3
      <4> HIDE DEF v, K2
      <4>6. SizeAt(L, "val", 1) = DW /\ RightAt(i, L, "val", 1) = v0 /\ "val" \in Sides
            /\ "aft" \in Sides
        BY <1>2, <1>9, <3>1, SideFacts
      <4>7. /\ Fine(i, L, K2)
            /\ K2.out = "ok" => /\ Live(i, K2) /\ K2["val"][1] = v
               /\ DOMAIN K2["val"] = DOMAIN L["val"]
                                /\ K2.src = L.src /\ K2.dst = L.dst /\ K2["aft"] = L["aft"]
        <5>1. 1 \in DOMAIN L["val"] /\ v = Fit(v, SizeAt(L, "val", 1))
              /\ v \in Bytes(SizeAt(L, "val", 1))
              /\ (Honest(i, L) => v = RightAt(i, L, "val", 1)) /\ "aft" \in Sides \ {"val"}
              /\ K2 = tell(L, "val", 1, v) /\ "val" \in Sides
          BY <3>1, <4>2, <4>3, <4>4, <4>6 DEF K2
        <5> QED BY <2>4, <5>1, Tells
      <4>8. ASSUME K2.out = "ok" PROVE inst_resolver(i, K2) = K2
        <5>1. inst_resolver(i, K2) = tell(K2, "val", 1, v)
          BY <1>8, <1>9, <3>1, <3>3, <4>7, <4>8 DEF v
        <5>2. Known(v)
          BY <1>6, <4>2, BytesKnown
        <5>3. SizeAt(K2, "val", 1) = DW
          BY <1>2, <1>9, <3>1, <4>7, <4>8, SideFacts
        <5> QED BY <3>1, <4>3, <4>6, <4>7, <4>8, <5>1, <5>2, <5>3, ToldAgain
      <4> QED BY <2>3, <4>5, <4>7, <4>8 DEF Resolved
    <3> QED BY <3>2, <3>3
  <2>5. Defined(i, <<Define(a)>>)
    <3>1. After(i, a) \in Bytes(Size(a))
      BY <1>2, <1>9, <2>1, <2>2
    <3> HIDE DEF a
    <3> QED BY <2>2, <3>1, OneDefined
  <2> HIDE DEF a, b
  <2> QED BY <1>1, <2>4, <2>5, LiveFirst
<1>10. CASE a.t # "reg"
  <2> DEFINE G == [v \in Bytes(2 * DW) |-> HalfOf(i, v)]
  <2>1. \A v \in Bytes(2 * DW) : HalfOf(i, v) \in Bytes(DW)
    BY HalvesOf DEF HalfOf
  <2>2. After(i, a) = HalfOf(i, v0) /\ Only(i, a)
    <3> HIDE DEF a, a0, v0
    <3>1. Effect(i) = (a.place := HalfOf(i, v0))
      BY <1>7, <1>10
    <3> QED BY <3>1, Writes
  <2>3. /\ \A v \in Bytes(2 * DW) : G[v] \in Bytes(Size(a))
        /\ After(i, a) = G[Before(i, b)] /\ 2 * DW = Size(b)
        /\ \A L : L.val[1] \in Bytes(2 * DW) => HalfOf(i, L.val[1]) = G[L.val[1]]
    BY <1>2, <1>4, <1>10, <2>1, <2>2
  <2>4. \A L : Live(i, L) => inst_resolver(i, L) = forward_only(L, {1}, 1, HalfOf(i, L.val[1]))
    BY <1>5, <1>8, <1>10
  <2> HIDE DEF a, b, G
  <2> QED BY <1>1, <1>3, <2>2, <2>3, <2>4, ComputedFrom
<1> QED BY <1>9, <1>10

(* movq takes a define back from its source, but checks it only a run later. *)
LEMMA GoodQuad ==
  ASSUME NEW i \in Instances, i.op = "movq", Supported(i) PROVE Good(i)
<1> DEFINE a == i.dst
           b == i.src
           m == Size(a)
           n == Size(b)
           v0 == Before(i, b)
           uses == <<Use(b)>>
<1>0. Handled(i) /\ b.dt \in Small \cup {"dqword"}
  BY DEF Supported, JccNames
<1>1. Complete(inst_handler(i), <<Define(a)>>, uses)
  <2>1. inst_handler(i) = Accept(i, {RR, RM, MR, MI, RI}, DefineAt(a) \o UseAt(b))
    BY DEF inst_handler, unknown_handler, VectorNames, JccNames, NotHandled, mov_handler
  <2>2. inst_handler(i) = DefineAt(a) \o UseAt(b)
    BY <1>0, <2>1, Accepted
  <2> QED BY <2>2, Patterns
<1>2. 1 \in DOMAIN uses /\ uses[1] = Use(b)
  OBVIOUS
<1> HIDE DEF uses
<1>3. /\ v0 \in Bytes(n) /\ n \in {1, 2, 4, 8} /\ Valid(i, b)
      /\ \A L : Live(i, L) => /\ L.src[1] = b /\ 1 \in DOMAIN L.val
                              /\ Known(L.val[1]) => L.val[1] \in Bytes(n)
  BY <1>1, <1>2, UseOf
<1>4. /\ m \in {1, 2, 4, 8} /\ Valid(i, a)
      /\ \A L : Live(i, L) => Ready(L) /\ L.dst[1] = a /\ DOMAIN L.aft = {1}
  BY <1>1, Single
<1>5. /\ m \in Nat \ {0} /\ n \in Nat \ {0} /\ m <= 2 * DW /\ n <= 2 * DW /\ 2 * DW \in Nat
      /\ a.dt \in Range(Datatypes) /\ b.dt \in Range(Datatypes)
  BY <1>3, <1>4, WordAssumption DEF Valid
<1>6. Rank(a.dt) >= Rank(b.dt) => n <= m
  BY <1>5, Sizes DEF Size
<1> HIDE DEF m, n
<1>7. \A v \in Bytes(n) : /\ Fit(v, m) \in Bytes(m) /\ Fit(Fit(v, m), m) = Fit(v, m)
                          /\ Fit(clean_valset(v, 2 * DW, FALSE), m) = Fit(v, m)
                          /\ n <= m => Fit(Fit(v, m), n) = v
  <2> SUFFICES ASSUME NEW v \in Bytes(n)
               PROVE  /\ Fit(v, m) \in Bytes(m) /\ Fit(Fit(v, m), m) = Fit(v, m)
                      /\ Fit(clean_valset(v, 2 * DW, FALSE), m) = Fit(v, m)
                      /\ n <= m => Fit(Fit(v, m), n) = v
    OBVIOUS
  <2>1. Fit(v, m) \in Bytes(m) /\ (n <= m => Fit(Fit(v, m), n) = v)
    BY <1>5, Fits
  <2>2. Fit(Fit(v, m), m) = Fit(v, m)
    BY <1>5, <2>1, BytesKnown
  <2>3. /\ clean_valset(v, 2 * DW, FALSE) = Fit(v, 2 * DW)
        /\ \A k \in Nat : n <= 2 * DW /\ k <= 2 * DW => Fit(Fit(v, 2 * DW), k) = Fit(v, k)
    <3> DEFINE d == 2 * DW
    <3>1. d \in Nat
      BY <1>5
    <3> HIDE DEF d
    <3>2. n \in Nat /\ v \in Bytes(n)
      BY <1>5
    <3>3. clean_valset(v, d, FALSE) = Fit(v, d)
      BY <3>1, <3>2, Fits
    <3>4. \A k \in Nat : n <= d /\ k <= d => Fit(Fit(v, d), k) = Fit(v, k)
      BY <3>1, <3>2, Fits
    <3> QED BY <3>3, <3>4 DEF d
  <2> QED BY <1>5, <2>1, <2>2, <2>3
<1>8. \A w \in Bytes(m) : Fit(w, n) \in Bytes(n)
  BY <1>5, Fits
<1>9. After(i, a) = Fit(v0, m) /\ Only(i, a) /\ After(i, a) \in Bytes(m)
  <2>1. Effect(i) = Logic(i)
    BY DEF Effect, ArithmeticNames, LogicNames, MoveNames, StringNames
  <2>2. Logic(i) = (a.place := Fit(v0, m))
    BY DEF Logic, m
  <2> HIDE DEF a, b, v0
  <2>3. After(i, a) = Fit(v0, m) /\ Only(i, a)
    BY <2>1, <2>2, Writes
  <2> QED BY <1>3, <1>7, <2>3
<1>10. \A L : Live(i, L) =>
         /\ Known(L.val[1]) /\ Known(L.aft[1]) => inst_resolver(i, L) = tell(L, "aft", 1, L.val[1])
         /\ Known(L.val[1]) /\ ~ Known(L.aft[1]) =>
              inst_resolver(i, L) = tell(L, "aft", 1, clean_valset(L.val[1], 2 * DW, FALSE))
         /\ ~ Known(L.val[1]) /\ Known(L.aft[1]) /\ Rank(a.dt) >= Rank(b.dt) =>
              inst_resolver(i, L) = tell(L, "val", 1, L.aft[1])
         /\ ~ Known(L.val[1]) /\ (~ Known(L.aft[1]) \/ ~ (Rank(a.dt) >= Rank(b.dt))) =>
              inst_resolver(i, L) = L
  <2> SUFFICES ASSUME NEW L, Live(i, L)
               PROVE /\ Known(L.val[1]) /\ Known(L.aft[1])
                        => inst_resolver(i, L) = tell(L, "aft", 1, L.val[1])
                     /\ Known(L.val[1]) /\ ~ Known(L.aft[1]) =>
                          inst_resolver(i, L) =
                          tell(L, "aft", 1, clean_valset(L.val[1], 2 * DW, FALSE))
                     /\ ~ Known(L.val[1]) /\ Known(L.aft[1]) /\ Rank(a.dt) >= Rank(b.dt) =>
                          inst_resolver(i, L) = tell(L, "val", 1, L.aft[1])
                     /\ ~ Known(L.val[1]) /\ (~ Known(L.aft[1]) \/ ~ (Rank(a.dt) >= Rank(b.dt))) =>
                          inst_resolver(i, L) = L
    OBVIOUS
  <2>1. inst_resolver(i, L) = movq_resolver(i, L)
    BY DEF inst_resolver, VectorNames, unknown_resolver
  <2>2. L.src[1] = b /\ L.dst[1] = a /\ L.out = "ok"
    BY <1>3, <1>4 DEF Ready
  <2>3. /\ sees(L, {1}, {1}) <=> Known(L.val[1]) /\ Known(L.aft[1])
        /\ sees(L, {1}, {}) <=> Known(L.val[1])
        /\ sees(L, {}, {1}) <=> Known(L.aft[1])
    BY DEF sees
  <2>4. \A v, o : if_datatype(L, L.src[1], Small \cup {"dqword"}, put(L, "aft", 1, v)) =
                  put(L, "aft", 1, v)
    BY <1>0, <2>2 DEF if_datatype
  <2>5. /\ ~ Known(L.aft[1]) => \A v : put(L, "aft", 1, v) = tell(L, "aft", 1, v)
        /\ Known(L.aft[1]) => \A v : assert_val(L, "aft", 1, v) = tell(L, "aft", 1, v)
        /\ ~ Known(L.val[1]) => \A v : put(L, "val", 1, v) = tell(L, "val", 1, v)
    BY <2>2 DEF tell
  <2> HIDE DEF a, b
  <2> QED BY <2>1, <2>2, <2>3, <2>4, <2>5 DEF movq_resolver
<1>11. ASSUME NEW L, Live(i, L) PROVE Resolved(i, L, inst_resolver(i, L))
  <2> DEFINE K2 == inst_resolver(i, L)
  <2>1. /\ L.dst[1] = a /\ L.src[1] = b /\ Ready(L) /\ 1 \in DOMAIN L["val"]
           /\ 1 \in DOMAIN L["aft"]
        /\ SizeAt(L, "val", 1) = n /\ RightAt(i, L, "val", 1) = v0
        /\ SizeAt(L, "aft", 1) = m /\ RightAt(i, L, "aft", 1) = Fit(v0, m)
        /\ "val" \in Sides /\ "aft" \in Sides
    BY <1>3, <1>4, <1>9, <1>11, SideFacts DEF m, n
  <2>2. /\ Known(L.val[1]) => L.val[1] \in Bytes(n) /\ (Honest(i, L) => L.val[1] = v0)
        /\ Known(L.aft[1]) => L.aft[1] \in Bytes(m) /\ (Honest(i, L) => L.aft[1] = Fit(v0, m))
    BY <1>9, <2>1 DEF Ready, Sized, Honest, m, n
  <2>3. \A v \in Bytes(n) \cup Bytes(m) : Known(v)
    BY <1>5, BytesKnown
  <2> HIDE DEF a, b, v0
  <2>4. ASSUME Known(L.val[1])
        PROVE  Fine(i, L, K2)
               /\ (K2.out = "ok" => /\ Live(i, K2) /\ Known(K2.val[1]) /\ Known(K2.aft[1])
                                                   /\ DOMAIN K2.aft = DOMAIN L.aft)
    <3> DEFINE v == IF Known(L.aft[1]) THEN L.val[1] ELSE clean_valset(L.val[1], 2 * DW, FALSE)
               w == Fit(L.val[1], m)
    <3>1. K2 = tell(L, "aft", 1, v)
      BY <1>10, <1>11, <2>4
    <3>2. w \in Bytes(m) /\ w = Fit(v, m) /\ (Honest(i, L) => w = Fit(v0, m))
      BY <1>7, <2>2, <2>4
    <3>3. w = Fit(v, SizeAt(L, "aft", 1)) /\ w \in Bytes(SizeAt(L, "aft", 1))
          /\ (Honest(i, L) => w = RightAt(i, L, "aft", 1))
      BY <2>1, <3>2
    <3> HIDE DEF v, w, K2
    <3>4. /\ Fine(i, L, K2)
          /\ K2.out = "ok" => /\ Live(i, K2) /\ K2["aft"][1] = w
             /\ DOMAIN K2["aft"] = DOMAIN L["aft"]
                              /\ \A s \in Sides \ {"aft"} : K2[s] = L[s]
      BY <1>11, <2>1, <3>1, <3>3, Tells
    <3>5. Known(w) /\ "val" \in Sides \ {"aft"}
      BY <2>1, <2>3, <3>2
    <3> QED BY <2>4, <3>4, <3>5
  <2>5. ASSUME ~ Known(L.val[1]), Known(L.aft[1]), Rank(a.dt) >= Rank(b.dt)
        PROVE  Fine(i, L, K2)
               /\ (K2.out = "ok" => /\ Live(i, K2) /\ Known(K2.val[1]) /\ Known(K2.aft[1])
                                                   /\ DOMAIN K2.aft = DOMAIN L.aft)
    <3> DEFINE w == Fit(L.aft[1], n)
    <3>1. K2 = tell(L, "val", 1, L.aft[1])
      BY <1>10, <1>11, <2>5
    <3>2. w \in Bytes(n)
      BY <1>8, <2>2, <2>5
    <3>3. Honest(i, L) => w = v0
      BY <1>3, <1>6, <1>7, <2>2, <2>5 DEF n, a, b, v0
    <3>4. w = Fit(L.aft[1], SizeAt(L, "val", 1)) /\ w \in Bytes(SizeAt(L, "val", 1))
          /\ (Honest(i, L) => w = RightAt(i, L, "val", 1))
      BY <2>1, <3>2, <3>3
    <3> HIDE DEF w, K2
    <3>5. /\ Fine(i, L, K2)
          /\ K2.out = "ok" => /\ Live(i, K2) /\ K2["val"][1] = w
                              /\ \A s \in Sides \ {"val"} : K2[s] = L[s]
      BY <1>11, <2>1, <3>1, <3>4, Tells
    <3>6. Known(w) /\ "aft" \in Sides \ {"val"}
      BY <2>1, <2>3, <3>2
    <3> QED BY <2>5, <3>5, <3>6
  <2>6. CASE Known(L.val[1]) \/ (Known(L.aft[1]) /\ Rank(a.dt) >= Rank(b.dt))
    <3> HIDE DEF K2
    <3>1. Fine(i, L, K2) /\ (K2.out = "ok" => /\ Live(i, K2) /\ Known(K2.val[1]) /\ Known(K2.aft[1])
                                              /\ DOMAIN K2.aft = DOMAIN L.aft)
      BY <2>4, <2>5, <2>6
    <3>2. K2.out = "ok" => AllWritten(K2)
      BY <1>4, <1>11, <3>1 DEF AllWritten
    <3>3. ASSUME K2.out = "ok", Honest(i, L) PROVE inst_resolver(i, K2) = K2
      <4>1. Honest(i, K2) /\ Live(i, K2)
        BY <3>1, <3>3 DEF Fine
      <4>2. inst_resolver(i, K2) = tell(K2, "aft", 1, K2.val[1])
        BY <1>10, <3>1, <3>3
      <4>3. 1 \in DOMAIN K2["aft"] /\ 1 \in DOMAIN K2.val /\ K2.src[1] = b /\ K2.dst[1] = a
        BY <1>3, <1>4, <4>1 DEF a, b
      <4>4. K2.val[1] = v0 /\ K2.aft[1] = Fit(v0, m) /\ SizeAt(K2, "aft", 1) = m
        BY <1>9, <3>1, <3>3, <4>1, <4>3, SideFacts DEF Honest, a, b, v0, m
      <4> QED BY <3>1, <3>3, <4>1, <4>2, <4>3, <4>4, <2>1, ToldAgain
    <3> QED BY <3>1, <3>2, <3>3 DEF Resolved, K2
  <2>7. CASE ~ (Known(L.val[1]) \/ (Known(L.aft[1]) /\ Rank(a.dt) >= Rank(b.dt)))
    <3>1. K2 = L
      BY <1>10, <1>11, <2>7 DEF a, b
    <3>2. ~ AllRead(L)
      BY <2>1, <2>7 DEF AllRead
    <3> QED BY <2>1, <3>1, <3>2, FineRefl DEF Resolved
  <2> QED BY <2>6, <2>7
<1>12. Defined(i, <<Define(a)>>)
  <2> HIDE DEF a
  <2> QED BY <1>9, OneDefined DEF m
<1> HIDE DEF a, b
<1> QED BY <1>1, <1>11, <1>12, LiveFirst

(* Two uses, one after the other. *)
LEMMA ThenUses ==
  ASSUME NEW nodes, NEW defs, NEW uses, Complete(nodes, defs, uses),
         NEW o, o.t # "mem", NEW p, p.t # "mem"
  PROVE  Complete(nodes \o <<Use(o), Use(p)>>, defs, Append(Append(uses, Use(o)), Use(p)))
<1> DEFINE e == Use(o)
           f == Use(p)
<1>1. Complete(nodes \o <<e>>, defs, Append(uses, e))
  BY ThenUse
<1>2. Complete((nodes \o <<e>>) \o <<f>>, defs, Append(Append(uses, e), f))
  BY <1>1, ThenUse
<1>3. (nodes \o <<e>>) \o <<f>> = nodes \o <<e, f>>
  <2>1. PICK S : nodes \in Seq(S)
    BY DEF Complete, Made
  <2> DEFINE T == S \cup {e, f}
  <2> HIDE DEF e, f
  <2>2. nodes \in Seq(T) /\ <<e>> \in Seq(T) /\ <<f>> \in Seq(T)
    BY <2>1
  <2> HIDE DEF T
  <2>3. (nodes \o <<e>>) \o <<f>> = nodes \o (<<e>> \o <<f>>)
    BY <2>2, Assoc
  <2>4. <<e>> \o <<f>> = <<e, f>>
    BY Joins
  <2> QED BY <2>3, <2>4
<1> QED BY <1>2, <1>3

(* What cmpxchg is told, when both sides of its comparison are known. *)
Unequal(L) == Known(L.val[1]) /\ Known(L.val[2]) /\ L.val[1] # L.val[2]
Equal(L)   == Known(L.val[1]) /\ Known(L.val[2]) /\ L.val[1] = L.val[2]

(* cmpxchg. *)
LEMMA GoodCompareExchange ==
  ASSUME NEW i \in Instances, i.op = "cmpxchg", Supported(i) PROVE Good(i)
<1> DEFINE a == i.dst
           b == i.src
           c == Acc(i)
           n == Size(a)
           a0 == Before(i, a)
           b0 == Before(i, b)
           c0 == Before(i, c)
           defs == <<Define(c), Define(a)>>
           uses == <<Use(a), Use(c), Use(b)>>
<1>0. /\ Handled(i) /\ a.dt = b.dt /\ a.dt \in {"byte", "dword"} /\ a.place # "eax"
      /\ c.t = "reg" /\ c.place = "eax" /\ c.dt = b.dt
  BY DEF Supported, JccNames, SameSize, Acc, R, Operand
<1>1. /\ inst_handler(i) = <<Define(c)>> \o DefineAt(a) \o UseAt(a) \o <<Use(c), Use(b)>>
      /\ b.t = "reg"
  <2>1. inst_handler(i) =
        Accept(i, {RR, MR}, <<Define(c)>> \o DefineAt(a) \o UseAt(a) \o <<Use(c), Use(b)>>)
    BY DEF inst_handler, VectorNames, JccNames, NotHandled, xchgcc_handler
  <2> HIDE DEF a, c
  <2>2. inst_handler(i) = <<Define(c)>> \o DefineAt(a) \o UseAt(a) \o <<Use(c), Use(b)>>
        /\ Form(i) \in {RR, MR}
    BY <1>0, <2>1, Accepted
  <2>3. b.t = "reg"
    BY <2>2 DEF Form, RR, MR
  <2> QED BY <2>2, <2>3
<1>2. Complete(inst_handler(i), defs, uses)
  <2> HIDE DEF a, b, c
  <2>1. Complete(<<Define(c)>>, <<Define(c)>>, <<>>)
    BY <1>0, MadeFirst
  <2>2. Complete(<<Define(c)>> \o DefineAt(a), Append(<<Define(c)>>, Define(a)), <<>>)
    BY <2>1, ThenDefineAt
  <2>3. Complete((<<Define(c)>> \o DefineAt(a)) \o UseAt(a),
                 Append(<<Define(c)>>, Define(a)), Append(<<>>, Use(a)))
    BY <2>2, ThenUseAt
  <2>4. Complete(((<<Define(c)>> \o DefineAt(a)) \o UseAt(a)) \o <<Use(c), Use(b)>>,
                 Append(<<Define(c)>>, Define(a)),
                 Append(Append(Append(<<>>, Use(a)), Use(c)), Use(b)))
    BY <1>0, <1>1, <2>3, ThenUses
  <2>5. Append(<<Define(c)>>, Define(a)) = defs
    BY Tuples
  <2>6. Append(<<>>, Use(a)) = <<Use(a)>> /\ Append(<<Use(a)>>, Use(c)) = <<Use(a), Use(c)>>
        /\ Append(<<Use(a), Use(c)>>, Use(b)) = uses
    BY Tuples
  <2> QED BY <1>1, <2>4, <2>5, <2>6
<1>3. /\ DOMAIN defs = {1, 2} /\ defs[1] = Define(c) /\ defs[2] = Define(a)
      /\ DOMAIN uses = {1, 2, 3} /\ uses[1] = Use(a) /\ uses[2] = Use(c) /\ uses[3] = Use(b)
  OBVIOUS
<1>4. Size(b) = n /\ Size(c) = n /\ n = Size(a)
  BY <1>0 DEF Size
<1> HIDE DEF defs, uses
<1>5. /\ defs[1].o = c /\ defs[2].o = a /\ uses[1].o = a /\ uses[2].o = c /\ uses[3].o = b
      /\ defs[1].aft = <<>> /\ defs[2].aft = <<>> /\ n \in Nat \ {0}
      /\ a0 \in Bytes(n) /\ b0 \in Bytes(n) /\ c0 \in Bytes(n)
  <2> HIDE DEF a, b, c, n
  <2>1. /\ \A k \in DOMAIN uses : \A o : uses[k] = Use(o) =>
              uses[k].o = o /\ Before(i, o) \in Bytes(Size(o)) /\ Size(o) \in Nat \ {0}
        /\ \A j \in DOMAIN defs : \A o : defs[j] = Define(o) => defs[j].o = o /\ defs[j].aft = <<>>
    BY <1>2, NodesOf
  <2>2. uses[1].o = a /\ a0 \in Bytes(Size(a)) /\ Size(a) \in Nat \ {0}
    BY <1>3, <2>1
  <2>3. uses[2].o = c /\ c0 \in Bytes(Size(c))
    BY <1>3, <2>1
  <2>4. uses[3].o = b /\ b0 \in Bytes(Size(b))
    BY <1>3, <2>1
  <2>5. defs[1].o = c /\ defs[1].aft = <<>> /\ defs[2].o = a /\ defs[2].aft = <<>>
    BY <1>3, <2>1
  <2> QED BY <1>4, <2>2, <2>3, <2>4, <2>5
<1>6. /\ After(i, c) = a0 /\ After(i, a) = (IF a0 = c0 THEN b0 ELSE a0)
      /\ Changed(i) \subseteq {c.place, a.place}
  <2>1. Effect(i) = (c.place := a0) ++ (a.place := IF a0 = c0 THEN b0 ELSE a0)
    <3>1. Move(i) = ("eax" := a0) ++ (a.place := IF a0 = i.before["eax"] THEN b0 ELSE a0)
      BY DEF Move
    <3>2. Move(i) = (c.place := a0) ++ (a.place := IF a0 = c0 THEN b0 ELSE a0)
      <4>1. c.place = "eax" /\ i.before["eax"] = c0
        BY <1>0 DEF Before
      <4> HIDE DEF a, b, c, a0, b0, c0
      <4> QED BY <3>1, <4>1
    <3> QED BY <3>2 DEF Effect, ArithmeticNames, LogicNames, MoveNames, StringNames
  <2> HIDE DEF a, b, c, a0, b0, c0
  <2> QED BY <1>0, <2>1, TwoCells
<1>7. \A L : Live(i, L) =>
        /\ Ready(L) /\ L.src[1] = a /\ L.src[2] = c /\ L.src[3] = b /\ L.dst[1] = c /\ L.dst[2] = a
        /\ DOMAIN L.val = {1, 2, 3} /\ DOMAIN L.aft = {1, 2}
  <2> HIDE DEF a, b, c
  <2>1. \A L : Live(i, L) =>
          /\ Ready(L) /\ DOMAIN L.val = DOMAIN uses /\ DOMAIN L.aft = DOMAIN defs
          /\ \A k \in DOMAIN uses : L.src[k] = uses[k].o
          /\ \A j \in DOMAIN defs : L.dst[j] = defs[j].o
    BY <1>2, LiveNodes
  <2> QED BY <1>3, <1>5, <2>1
<1>8. \A L : Live(i, L) =>
        /\ ~ Unequal(L) /\ ~ Equal(L) => inst_resolver(i, L) = L
        /\ Unequal(L) => inst_resolver(i, L) = tell(L, "aft", 1, L.val[1])
        /\ Equal(L) /\ Known(L.val[3]) => inst_resolver(i, L) = tell(L, "aft", 2, L.val[3])
        /\ Equal(L) /\ ~ Known(L.val[3]) /\ Known(L.aft[2]) =>
             inst_resolver(i, L) = tell(L, "val", 3, L.aft[2])
        /\ Equal(L) /\ ~ Known(L.val[3]) /\ ~ Known(L.aft[2]) => inst_resolver(i, L) = L
  <2> SUFFICES ASSUME NEW L, Live(i, L)
               PROVE  /\ ~ Unequal(L) /\ ~ Equal(L) => inst_resolver(i, L) = L
                      /\ Unequal(L) => inst_resolver(i, L) = tell(L, "aft", 1, L.val[1])
                      /\ Equal(L) /\ Known(L.val[3])
                         => inst_resolver(i, L) = tell(L, "aft", 2, L.val[3])
                      /\ Equal(L) /\ ~ Known(L.val[3]) /\ Known(L.aft[2]) =>
                           inst_resolver(i, L) = tell(L, "val", 3, L.aft[2])
                      /\ Equal(L) /\ ~ Known(L.val[3]) /\ ~ Known(L.aft[2])
                         => inst_resolver(i, L) = L
    OBVIOUS
  <2>1. inst_resolver(i, L) = xchgcc_resolver(i, L)
    BY DEF inst_resolver, VectorNames
  <2>2. L.src[2] = c /\ L.out = "ok"
    BY <1>7 DEF Ready
  <2>3. c.dt \in {"byte", "dword"}
    BY <1>0
  <2>4. /\ sees(L, {1, 2}, {}) <=> Known(L.val[1]) /\ Known(L.val[2])
        /\ sees(L, {3}, {}) <=> Known(L.val[3])
        /\ sees(L, {}, {2}) <=> Known(L.aft[2])
    BY DEF sees
  <2>5. ~ Known(L.val[3]) => \A v : put(L, "val", 3, v) = tell(L, "val", 3, v)
    BY <2>2 DEF tell
  <2> HIDE DEF a, b, c
  <2> QED BY <2>1, <2>2, <2>3, <2>4, <2>5 DEF xchgcc_resolver, Unequal, Equal
<1>9. Silent(i)
  BY DEF Silent
<1> HIDE DEF a, b, c, n, a0, b0, c0
<1>10. ASSUME NEW L, Live(i, L) PROVE Resolved(i, L, inst_resolver(i, L))
  <2> DEFINE K2 == inst_resolver(i, L)
  <2>1. /\ Ready(L) /\ L.src[1] = a /\ L.src[2] = c /\ L.src[3] = b /\ L.dst[1] = c /\ L.dst[2] = a
        /\ 3 \in DOMAIN L["val"] /\ 1 \in DOMAIN L["aft"] /\ 2 \in DOMAIN L["aft"]
        /\ "val" \in Sides /\ "aft" \in Sides
        /\ SizeAt(L, "aft", 1) = n /\ SizeAt(L, "aft", 2) = n /\ SizeAt(L, "val", 3) = n
        /\ RightAt(i, L, "aft", 1) = a0 /\ RightAt(i, L, "aft", 2) = (IF a0 = c0 THEN b0 ELSE a0)
        /\ RightAt(i, L, "val", 3) = b0
    <3>1. /\ Ready(L) /\ L.src[1] = a /\ L.src[2] = c /\ L.src[3] = b /\ L.dst[1] = c
             /\ L.dst[2] = a
          /\ 3 \in DOMAIN L.val /\ 1 \in DOMAIN L.aft /\ 2 \in DOMAIN L.aft
      BY <1>7, <1>10
    <3> QED BY <1>4, <1>6, <3>1, SideFacts DEF b0
  <2>2. /\ Known(L.val[1]) => L.val[1] \in Bytes(n) /\ (Honest(i, L) => L.val[1] = a0)
        /\ Known(L.val[2]) => L.val[2] \in Bytes(n) /\ (Honest(i, L) => L.val[2] = c0)
        /\ Known(L.val[3]) => L.val[3] \in Bytes(n) /\ (Honest(i, L) => L.val[3] = b0)
    <3>1. DOMAIN L.val = {1, 2, 3} /\ Sized(L)
      BY <1>7, <1>10, <2>1 DEF Ready
    <3> QED BY <1>4, <2>1, <3>1 DEF Sized, Honest, a0, b0, c0
  <2>3. Known(L.aft[2]) => L.aft[2] \in Bytes(n)
        /\ (Honest(i, L) => L.aft[2] = (IF a0 = c0 THEN b0 ELSE a0))
    BY <1>4, <1>6, <2>1 DEF Ready, Sized, Honest
  <2>4. \A v \in Bytes(n) : Known(v) /\ Fit(v, n) = v
    BY <1>5, BytesKnown
  <2>5. CASE Unequal(L)
    <3> DEFINE v == L.val[1]
    <3>1. K2 = tell(L, "aft", 1, v)
      BY <1>8, <1>10, <2>5
    <3>2. /\ v \in Bytes(n) /\ v = Fit(v, SizeAt(L, "aft", 1)) /\ v \in Bytes(SizeAt(L, "aft", 1))
          /\ (Honest(i, L) => v = RightAt(i, L, "aft", 1)) /\ "val" \in Sides \ {"aft"}
      BY <2>1, <2>2, <2>4, <2>5 DEF Unequal
    <3> HIDE DEF K2, v
    <3>3. /\ Fine(i, L, K2)
          /\ K2.out = "ok" => /\ Live(i, K2) /\ K2["aft"][1] = v /\ K2["val"] = L["val"]
             /\ K2.dst = L.dst
                              /\ DOMAIN K2["aft"] = DOMAIN L["aft"]
      BY <1>10, <2>1, <3>1, <3>2, Tells
    <3>4. ASSUME K2.out = "ok" PROVE inst_resolver(i, K2) = K2
      <4>1. Live(i, K2) /\ Unequal(K2) /\ K2.val[1] = v
        BY <2>5, <3>3, <3>4 DEF Unequal, v
      <4>2. inst_resolver(i, K2) = tell(K2, "aft", 1, v)
        BY <1>8, <4>1
      <4>3. Known(v) /\ SizeAt(K2, "aft", 1) = n /\ Fit(v, n) = v
        BY <2>1, <2>4, <3>2, <3>3, <3>4, SideFacts
      <4> QED BY <2>1, <3>3, <3>4, <4>1, <4>2, <4>3, ToldAgain
    <3> QED BY <1>9, <3>3, <3>4 DEF Resolved, K2
  <2>6. CASE Equal(L) /\ Known(L.val[3])
    <3> DEFINE v == L.val[3]
    <3>1. K2 = tell(L, "aft", 2, v)
      BY <1>8, <1>10, <2>6
    <3>2. /\ v \in Bytes(n) /\ v = Fit(v, SizeAt(L, "aft", 2)) /\ v \in Bytes(SizeAt(L, "aft", 2))
          /\ (Honest(i, L) => v = RightAt(i, L, "aft", 2)) /\ "val" \in Sides \ {"aft"}
      BY <2>1, <2>2, <2>4, <2>6 DEF Equal
    <3> HIDE DEF K2, v
    <3>3. /\ Fine(i, L, K2)
          /\ K2.out = "ok" => /\ Live(i, K2) /\ K2["aft"][2] = v /\ K2["val"] = L["val"]
             /\ K2.dst = L.dst
                              /\ DOMAIN K2["aft"] = DOMAIN L["aft"]
      BY <1>10, <2>1, <3>1, <3>2, Tells
    <3>4. ASSUME K2.out = "ok" PROVE inst_resolver(i, K2) = K2
      <4>1. Live(i, K2) /\ Equal(K2) /\ K2.val[3] = v /\ Known(v)
        BY <2>6, <3>3, <3>4 DEF Equal, v
      <4>2. inst_resolver(i, K2) = tell(K2, "aft", 2, v)
        BY <1>8, <4>1
      <4>3. SizeAt(K2, "aft", 2) = n /\ Fit(v, n) = v
        BY <2>1, <2>4, <3>2, <3>3, <3>4, SideFacts
      <4> QED BY <2>1, <3>3, <3>4, <4>1, <4>2, <4>3, ToldAgain
    <3> QED BY <1>9, <3>3, <3>4 DEF Resolved, K2
  <2>7. CASE Equal(L) /\ ~ Known(L.val[3]) /\ Known(L.aft[2])
    <3> DEFINE v == L.aft[2]
    <3>1. K2 = tell(L, "val", 3, v)
      BY <1>8, <1>10, <2>7
    <3>2. /\ v \in Bytes(n) /\ v = Fit(v, SizeAt(L, "val", 3)) /\ v \in Bytes(SizeAt(L, "val", 3))
          /\ (Honest(i, L) => v = RightAt(i, L, "val", 3)) /\ "aft" \in Sides \ {"val"}
      <4>1. Honest(i, L) => a0 = c0
        BY <2>2, <2>7 DEF Equal
      <4> QED BY <2>1, <2>3, <2>4, <2>7, <4>1
    <3> HIDE DEF K2, v
    <3>3. /\ Fine(i, L, K2)
          /\ K2.out = "ok" => /\ Live(i, K2) /\ K2["val"][3] = v /\ K2["aft"] = L["aft"]
             /\ K2.dst = L.dst
                              /\ \A j \in DOMAIN L["val"] : j # 3 => K2["val"][j] = L["val"][j]
      BY <1>10, <2>1, <3>1, <3>2, Tells
    <3>4. ASSUME K2.out = "ok" PROVE inst_resolver(i, K2) = K2
      <4>1. K2.val[1] = L.val[1] /\ K2.val[2] = L.val[2]
        BY <1>7, <1>10, <3>3, <3>4
      <4>2. Live(i, K2) /\ Equal(K2) /\ K2.val[3] = v /\ Known(v) /\ K2.aft[2] = v
        BY <2>7, <3>3, <3>4, <4>1 DEF Equal, v
      <4>3. inst_resolver(i, K2) = tell(K2, "aft", 2, v)
        BY <1>8, <4>2
      <4>4. SizeAt(K2, "aft", 2) = n /\ Fit(v, n) = v /\ 2 \in DOMAIN K2["aft"]
        BY <2>1, <2>4, <3>2, <3>3, <3>4, SideFacts
      <4> QED BY <2>1, <4>2, <4>3, <4>4, ToldAgain
    <3> QED BY <1>9, <3>3, <3>4 DEF Resolved, K2
  <2>8. CASE ~ Unequal(L) /\ ~ (Equal(L) /\ (Known(L.val[3]) \/ Known(L.aft[2])))
    <3>1. K2 = L
      BY <1>8, <1>10, <2>8
    <3> QED BY <1>9, <2>1, <3>1, FineRefl DEF Resolved
  <2> QED BY <2>5, <2>6, <2>7, <2>8
<1>11. Defined(i, defs)
  BY <1>3, <1>4, <1>5, <1>6 DEF Defined
<1> QED BY <1>2, <1>10, <1>11, LiveFirst

(* Every instruction that the tool handles and computes right is good: its  *)
(* handler and its resolver keep what they promise.                        *)
LEMMA AllGood ==
  ASSUME NEW i \in Instances, Supported(i) PROVE Good(i)
<1>1. \/ i.op \in {"inc", "dec"} \/ i.op \in {"not", "neg", "bswap"}
      \/ i.op \in {"mov", "movzx", "movsx"} \/ i.op = "and"
      \/ i.op \in VectorOps \/ i.op \in {"shl", "shr"} \/ i.op = "pmovmskb" \/ i.op = "pshufd"
      \/ i.op \in {"bsr", "bsf"} \/ i.op = "cdq" \/ i.op = "add" \/ i.op = "sub"
      \/ i.op \in {"rol", "ror"} \/ i.op \in XorOps \/ i.op = "xchg" \/ i.op = "push"
      \/ i.op = "pop" \/ i.op = "leave" \/ i.op = "jmp" \/ i.op = "call" \/ i.op = "ret"
      \/ i.op \in StringNames \/ i.op \in {"cmp", "test", "ptest"}
      \/ i.op \in {"cld", "nop", "fpu"} \cup JccNames \/ i.op \in {"adc", "sbb"}
      \/ i.op \in {"cmovcc", "setcc"} \/ i.op = "bt" \/ i.op = "palignr"
      \/ i.op \in {"rdtsc", "int"} \/ i.op = "cpuid" \/ i.op \in {"movlpd", "movhpd"}
      \/ i.op = "movq" \/ i.op = "cmpxchg"
  BY DEF Supported, VectorOps, XorOps, StringNames
<1>2. CASE i.op \in {"inc", "dec"}
  BY <1>2, GoodInc
<1>3. CASE i.op \in {"not", "neg", "bswap"}
  BY <1>3, GoodNot
<1>4. CASE i.op \in {"mov", "movzx", "movsx"}
  BY <1>4, GoodMov
<1>5. CASE i.op = "and"
  BY <1>5, GoodAnd
<1>6. CASE i.op \in VectorOps
  BY <1>6, GoodVector
<1>7. CASE i.op \in {"shl", "shr"}
  BY <1>7, GoodShift
<1>8. CASE i.op = "pmovmskb"
  BY <1>8, GoodMask
<1>9. CASE i.op = "pshufd"
  BY <1>9, GoodShuffle
<1>10. CASE i.op \in {"bsr", "bsf"}
  BY <1>10, GoodScan
<1>11. CASE i.op = "cdq"
  BY <1>11, GoodConversion
<1>12. CASE i.op = "add"
  BY <1>12, GoodAdd
<1>13. CASE i.op = "sub"
  BY <1>13, GoodSub
<1>14. CASE i.op \in {"rol", "ror"}
  BY <1>14, GoodRotate
<1>15. CASE i.op \in XorOps
  BY <1>15, GoodXor
<1>16. CASE i.op = "xchg"
  BY <1>16, GoodXchg
<1>17. CASE i.op = "push"
  BY <1>17, GoodPush
<1>18. CASE i.op = "pop"
  BY <1>18, GoodPop
<1>19. CASE i.op = "leave"
  BY <1>19, GoodLeave
<1>20. CASE i.op = "jmp"
  BY <1>20, GoodJmp
<1>21. CASE i.op = "call"
  BY <1>21, GoodCall
<1>22. CASE i.op = "ret"
  BY <1>22, GoodRet
<1>23. CASE i.op \in StringNames
  BY <1>23, GoodString
<1>24. CASE i.op \in {"cmp", "test", "ptest"}
  BY <1>24, GoodCompare
<1>25. CASE i.op \in {"cld", "nop", "fpu"} \cup JccNames
  BY <1>25, GoodIdle
<1>26. CASE i.op \in {"adc", "sbb"}
  BY <1>26, GoodCarry
<1>27. CASE i.op \in {"cmovcc", "setcc"}
  BY <1>27, GoodCondition
<1>28. CASE i.op = "bt"
  BY <1>28, GoodBit
<1>29. CASE i.op = "palignr"
  BY <1>29, GoodAlign
<1>30. CASE i.op \in {"rdtsc", "int"}
  BY <1>30, GoodSystem
<1>31. CASE i.op = "cpuid"
  BY <1>31, GoodIdentification
<1>32. CASE i.op \in {"movlpd", "movhpd"}
  BY <1>32, GoodHalf
<1>33. CASE i.op = "movq"
  BY <1>33, GoodQuad
<1>34. CASE i.op = "cmpxchg"
  BY <1>34, GoodCompareExchange
<1> QED BY <1>1, <1>2, <1>3, <1>4, <1>5, <1>6, <1>7, <1>8, <1>9, <1>10, <1>11, <1>12, <1>13,
           <1>14, <1>15, <1>16, <1>17, <1>18, <1>19, <1>20, <1>21, <1>22, <1>23, <1>24, <1>25,
           <1>26, <1>27, <1>28, <1>29, <1>30, <1>31, <1>32, <1>33, <1>34

(* No product and no quotient is among them.                               *)
LEMMA NoPairsSupported ==
  ASSUME NEW i, Supported(i) PROVE i.op \notin {"mul", "div"}
  BY DEF Supported, JccNames

(* The shape of a handler's knowledge: as many values as nodes.             *)
LEMMA StartDomains ==
  ASSUME NEW i, NEW K1, Grows(KnowledgeOf(i, inst_handler(i)), K1)
  PROVE  /\ Knowledge(K1)
         /\ K1.src = KnowledgeOf(i, inst_handler(i)).src
         /\ K1.dst = KnowledgeOf(i, inst_handler(i)).dst
         /\ DOMAIN K1.val = DOMAIN K1.src
         /\ DOMAIN K1.aft = DOMAIN K1.dst /\ DOMAIN K1.bef = DOMAIN K1.dst
<1> DEFINE K0 == KnowledgeOf(i, inst_handler(i))
<1>1. DOMAIN K0.val = DOMAIN K0.src /\ DOMAIN K0.aft = DOMAIN K0.dst
      /\ DOMAIN K0.bef = DOMAIN K0.dst
  BY DEF KnowledgeOf
<1> HIDE DEF K0
<1>2. Grows(K0, K1)
  BY DEF K0
<1>3. Knowledge(K1) /\ K1.src = K0.src /\ K1.dst = K0.dst
      /\ \A side \in Sides : DOMAIN K1[side] = DOMAIN K0[side]
  BY <1>2 DEF Grows
<1>4. DOMAIN K1["val"] = DOMAIN K0["val"] /\ DOMAIN K1["aft"] = DOMAIN K0["aft"]
      /\ DOMAIN K1["bef"] = DOMAIN K0["bef"]
  BY <1>3 DEF Sides
<1> QED BY <1>1, <1>3, <1>4 DEF K0

(* The value that the execution had at a slot has the size of the slot.     *)
LEMMA TruthTyped ==
  ASSUME NEW i, Good(i), NEW K1, Grows(KnowledgeOf(i, inst_handler(i)), K1), NEW s \in Slots(K1)
  PROVE  /\ s[1] \in Sides /\ s[2] \in DOMAIN K1[s[1]]
         /\ SizeAt(K1, s[1], s[2]) \in {1, 2, 4, 8}
         /\ Truth(i, K1, s) \in Bytes(SizeAt(K1, s[1], s[2]))
         /\ Truth(i, K1, s) = RightAt(i, K1, s[1], s[2])
<1>1. s[1] \in Sides /\ s[2] \in DOMAIN K1[s[1]]
  BY SlotSides
<1>2. /\ DOMAIN K1["val"] = DOMAIN K1.src
      /\ DOMAIN K1["aft"] = DOMAIN K1.dst /\ DOMAIN K1["bef"] = DOMAIN K1.dst
      /\ \A k \in DOMAIN K1.src : Valid(i, K1.src[k])
      /\ \A j \in DOMAIN K1.dst : Valid(i, K1.dst[j])
      /\ \A j \in DOMAIN K1.dst : After(i, K1.dst[j]) \in Bytes(Size(K1.dst[j]))
  BY StartDomains DEF Good, AllValid, AllDefined
<1>3. CASE s[1] = "val"
  <2>1. Valid(i, K1.src[s[2]])
    BY <1>1, <1>2, <1>3
  <2> QED BY <1>1, <1>3, <2>1 DEF Valid, SizeAt, Truth, RightAt, Before
<1>4. CASE s[1] = "aft"
  <2>1. Valid(i, K1.dst[s[2]]) /\ After(i, K1.dst[s[2]]) \in Bytes(Size(K1.dst[s[2]]))
    BY <1>1, <1>2, <1>4
  <2>2. Truth(i, K1, s) = After(i, K1.dst[s[2]])
    BY <1>4 DEF Truth, After
  <2> QED BY <1>1, <1>4, <2>1, <2>2 DEF Valid, SizeAt, RightAt
<1>5. CASE s[1] = "bef"
  <2>1. Valid(i, K1.dst[s[2]])
    BY <1>1, <1>2, <1>5
  <2> QED BY <1>1, <1>5, <2>1 DEF Valid, SizeAt, Truth, RightAt, Before
<1> QED BY <1>1, <1>3, <1>4, <1>5 DEF Sides

(* A wrong value has the size of the right one.                             *)
LEMMA WrongTyped ==
  ASSUME NEW n \in {1, 2, 4, 8}, NEW v \in Bytes(n), NEW w \in Wrong(v)
  PROVE  w \in Bytes(n)
<1>1. Radix \in Nat \ {0, 1} /\ n \in Nat \ {0}
  BY OperandsAssumption
<1>2. \A k \in Int : k % Radix \in Byte
  BY <1>1, Division DEF Byte
<1>3. Len(v) = n /\ v[1] \in Byte /\ v[n] \in Byte
  BY <1>1, BytesLen DEF Bytes
<1>4. Radix \div 2 \in Int
  BY <1>1
<1>5. (v[1] + 1) % Radix \in Byte /\ (v[n] + Radix \div 2) % Radix \in Byte
  <2>1. v[1] + 1 \in Int /\ v[n] + Radix \div 2 \in Int
    BY <1>1, <1>3, <1>4 DEF Byte
  <2> QED BY <1>2, <2>1
<1>6. \A k : \A a \in Byte : [v EXCEPT ![k] = a] \in Bytes(n)
  BY DEF Bytes
<1>7. w = [v EXCEPT ![1] = (v[1] + 1) % Radix]
      \/ w = [v EXCEPT ![n] = (v[n] + Radix \div 2) % Radix]
  BY <1>3 DEF Wrong
<1>8. CASE w = [v EXCEPT ![1] = (v[1] + 1) % Radix]
  BY <1>5, <1>6, <1>8
<1>9. CASE w = [v EXCEPT ![n] = (v[n] + Radix \div 2) % Radix]
  BY <1>5, <1>6, <1>9
<1> QED BY <1>7, <1>8, <1>9

(* A typed value that is put into an unknown slot leaves typed knowledge,   *)
(* and true knowledge when it is the true one.                              *)
LEMMA PutTyped ==
  ASSUME NEW i, NEW K1, Ready(K1), NEW side \in Sides, NEW j \in DOMAIN K1[side],
         SizeAt(K1, side, j) \in {1, 2, 4, 8}, NEW w \in Bytes(SizeAt(K1, side, j))
  PROVE  /\ Sized(put(K1, side, j, w)) /\ put(K1, side, j, w).out = "ok"
         /\ Honest(i, K1) /\ w = RightAt(i, K1, side, j) => Honest(i, put(K1, side, j, w))
<1> DEFINE K2 == put(K1, side, j, w)
<1>1. Known(w) /\ Fit(w, SizeAt(K1, side, j)) = w
  BY BytesKnown
<1>2. K2 = [K1 EXCEPT ![side][j] = w]
  BY <1>1 DEF put, Ready
<1>3. AssignedTo(K1, K2, side, j, w)
  <2>1. Knowledge(K1)
    BY DEF Ready
  <2> HIDE DEF K2
  <2> QED BY <1>2, <2>1, Assigned
<1> HIDE DEF K2
<1>4. /\ K2.src = K1.src /\ K2.dst = K1.dst /\ K2.out = "ok"
      /\ \A s \in Sides \ {side} : K2[s] = K1[s]
      /\ DOMAIN K2[side] = DOMAIN K1[side] /\ K2[side][j] = w
      /\ \A k \in DOMAIN K1[side] : k # j => K2[side][k] = K1[side][k]
  BY <1>3 DEF AssignedTo, Ready
<1>5. Sized(K1)
  BY DEF Ready
<1>6. CASE side = "val"
  <2>1. K2["aft"] = K1["aft"] /\ K2["bef"] = K1["bef"]
    BY <1>4, <1>6 DEF Sides
  <2>2. w \in Bytes(Size(K1.src[j]))
    BY <1>6 DEF SizeAt
  <2>3. Sized(K2)
    BY <1>4, <1>5, <1>6, <2>1, <2>2 DEF Sized
  <2>4. Honest(i, K1) /\ w = RightAt(i, K1, side, j) => Honest(i, K2)
    BY <1>4, <1>6, <2>1 DEF Honest, RightAt
  <2> QED BY <1>4, <2>3, <2>4 DEF K2
<1>7. CASE side = "aft"
  <2>1. K2["val"] = K1["val"] /\ K2["bef"] = K1["bef"]
    BY <1>4, <1>7 DEF Sides
  <2>2. w \in Bytes(Size(K1.dst[j]))
    BY <1>7 DEF SizeAt
  <2>3. Sized(K2)
    BY <1>4, <1>5, <1>7, <2>1, <2>2 DEF Sized
  <2>4. Honest(i, K1) /\ w = RightAt(i, K1, side, j) => Honest(i, K2)
    BY <1>4, <1>7, <2>1 DEF Honest, RightAt
  <2> QED BY <1>4, <2>3, <2>4 DEF K2
<1>8. CASE side = "bef"
  <2>1. K2["val"] = K1["val"] /\ K2["aft"] = K1["aft"]
    BY <1>4, <1>8 DEF Sides
  <2>2. w \in Bytes(Size(K1.dst[j]))
    BY <1>8 DEF SizeAt
  <2>3. Sized(K2)
    BY <1>4, <1>5, <1>8, <2>1, <2>2 DEF Sized
  <2>4. Honest(i, K1) /\ w = RightAt(i, K1, side, j) => Honest(i, K2)
    BY <1>4, <1>8, <2>1 DEF Honest, RightAt
  <2> QED BY <1>4, <2>3, <2>4 DEF K2
<1> QED BY <1>6, <1>7, <1>8 DEF Sides

(***************************************************************************)
(* The inductive invariant of the execution of one supported instruction:  *)
(* what is known grows from what the handler knew and is typed; without a  *)
(* supposed value it is true; and a resolver that has run has said all.    *)
(***************************************************************************)
AllSupported == \A i \in Instances : Supported(i)

Started0 == KnowledgeOf(x, inst_handler(x))
Taught ==
  /\ x \in Instances /\ supposed \in BOOLEAN
  /\ Grows(Started0, K) /\ Sized(K)
  /\ K.out \in {"ok", "contra"} \/ (K.out = "abort" /\ supposed /\ x.op \in {"xor", "pxor"})
  /\ ~ supposed => K.out = "ok" /\ Honest(x, K)
Said ==
  /\ K.out = "ok" /\ ~ fresh /\ ~ (supposed /\ x.op = "movq") => inst_resolver(x, K) = K
  /\ K.out = "ok" /\ ~ fresh /\ ~ supposed /\ ~ Silent(x) /\ AllRead(K) => AllWritten(K)

(* The handler's knowledge is true and typed.                               *)
LEMMA InitTaught == ASSUME AllSupported, Init PROVE Taught /\ Said
<1>1. Good(x) /\ x \in Instances /\ K = Started0 /\ ~ supposed /\ supposed = FALSE /\ fresh = TRUE
  BY AllGood DEF AllSupported, Init, Started0
<1>2. Live(x, K) /\ Honest(x, K)
  BY <1>1 DEF Good, Started0
<1>3. Grows(Started0, K) /\ Sized(K) /\ K.out = "ok"
  BY <1>2 DEF Live, Ready, Started0
<1> QED BY <1>1, <1>2, <1>3 DEF Taught, Said

(* A value that arrives, right or wrong, is put where nothing was known.    *)
LEMMA PutTaught ==
  ASSUME AllSupported, Taught, K.out = "ok", NEW s \in Slots(K), ~ KnownAt(K, s),
         NEW w \in Bytes(SizeAt(K, s[1], s[2])), K' = put(K, s[1], s[2], w),
         x' = x, fresh' = TRUE,
         supposed' = TRUE \/ (supposed' = supposed /\ w = Truth(x, K, s))
  PROVE  Taught' /\ Said'
<1>1. Good(x) /\ x \in Instances /\ Grows(Started0, K)
  BY AllGood DEF AllSupported, Taught
<1>2. /\ s[1] \in Sides /\ s[2] \in DOMAIN K[s[1]]
      /\ SizeAt(K, s[1], s[2]) \in {1, 2, 4, 8}
      /\ Truth(x, K, s) = RightAt(x, K, s[1], s[2])
  BY <1>1, TruthTyped DEF Started0
<1>3. Ready(K) /\ Knowledge(K) /\ ~ Known(K[s[1]][s[2]])
  BY <1>1 DEF Taught, Ready, Grows, KnownAt
<1>4. /\ Sized(K') /\ K'.out = "ok"
      /\ Honest(x, K) /\ w = RightAt(x, K, s[1], s[2]) => Honest(x, K')
  BY <1>2, <1>3, PutTyped
<1>5. Grows(Started0, K')
  <2>1. Grows(K, K')
    BY <1>2, <1>3, PutGrows
  <2> QED BY <1>1, <2>1, GrowsTrans
<1>6. Started0' = Started0
  BY DEF Started0
<1>7. supposed' \in BOOLEAN
  BY DEF Taught
<1>8. ~ supposed' => Honest(x', K')
  BY <1>2, <1>4 DEF Taught
<1>9. Taught'
  BY <1>1, <1>4, <1>5, <1>6, <1>7, <1>8 DEF Taught
<1>10. Said'
  BY DEF Said
<1> QED BY <1>9, <1>10

(* A resolver, whatever is known, leaves the invariant.                     *)
LEMMA ResolveTaught ==
  ASSUME AllSupported, Taught, Resolve PROVE Taught' /\ Said'
<1>1. /\ Supported(x) /\ Good(x) /\ x \in Instances /\ Grows(Started0, K) /\ Sized(K)
      /\ K.out = "ok" /\ x' = x /\ supposed' = supposed /\ fresh' = FALSE
      /\ K' = inst_resolver(x, K) /\ supposed \in BOOLEAN
      /\ ~ supposed => Honest(x, K)
  BY AllGood DEF AllSupported, Taught, Resolve
<1>2. Knowledge(K)
  BY <1>1 DEF Grows
<1>3. Live(x, K)
  BY <1>1, <1>2 DEF Live, Ready, Started0
<1>4. Resolved(x, K, K')
  BY <1>1, <1>3 DEF Good
<1>5. Started0' = Started0
  BY <1>1 DEF Started0
<1>6. Grows(Started0, K')
  <2>1. Grows(K, K')
    BY <1>1, <1>2, NoPairsSupported, ResolverGrows
  <2> QED BY <1>1, <2>1, GrowsTrans
<1>7. CASE Fine(x, K, K')
  <2>1. /\ Sized(K') /\ K'.out \in {"ok", "contra"}
        /\ Honest(x, K) => Honest(x, K') /\ K'.out = "ok"
    BY <1>7 DEF Fine
  <2>2. Taught'
    BY <1>1, <1>5, <1>6, <2>1 DEF Taught
  <2>3. Said'
    BY <1>1, <1>4 DEF Said, Resolved
  <2> QED BY <2>2, <2>3
<1>8. CASE x.op \in {"xor", "pxor"} /\ K' = abort(K) /\ ~ Honest(x, K)
  <2>1. K'.out = "abort" /\ K'.src = K.src /\ K'.dst = K.dst /\ K'.val = K.val
        /\ K'.aft = K.aft /\ K'.bef = K.bef
    BY <1>2, <1>8 DEF abort, Knowledge
  <2>2. Sized(K')
    BY <1>1, <2>1 DEF Sized
  <2>3. Taught'
    BY <1>1, <1>5, <1>6, <1>8, <2>1, <2>2 DEF Taught
  <2>4. Said'
    BY <2>1 DEF Said
  <2> QED BY <2>3, <2>4
<1> QED BY <1>4, <1>7, <1>8 DEF Resolved

(* Every step leaves it. *)
LEMMA StepTaught ==
  ASSUME AllSupported, Taught, Said, [Next]_vars PROVE Taught' /\ Said'
<1>1. CASE \E s \in Slots(K) : Learn(s)
  <2>1. PICK s \in Slots(K) : Learn(s)
    BY <1>1
  <2>2. Good(x) /\ Grows(Started0, K)
    BY AllGood DEF AllSupported, Taught
  <2>3. Truth(x, K, s) \in Bytes(SizeAt(K, s[1], s[2]))
    BY <2>2, TruthTyped DEF Started0
  <2> QED BY <2>1, <2>3, PutTaught DEF Learn
<1>2. CASE \E s \in Slots(K) : \E v \in Wrong(Truth(x, K, s)) : Suppose(s, v)
  <2>1. PICK s \in Slots(K) : \E v \in Wrong(Truth(x, K, s)) : Suppose(s, v)
    BY <1>2
  <2>2. PICK v \in Wrong(Truth(x, K, s)) : Suppose(s, v)
    BY <2>1
  <2>3. Good(x) /\ Grows(Started0, K)
    BY AllGood DEF AllSupported, Taught
  <2>4. /\ Truth(x, K, s) \in Bytes(SizeAt(K, s[1], s[2]))
        /\ SizeAt(K, s[1], s[2]) \in {1, 2, 4, 8}
    BY <2>3, TruthTyped DEF Started0
  <2>5. v \in Bytes(SizeAt(K, s[1], s[2]))
    BY <2>4, WrongTyped
  <2> QED BY <2>2, <2>5, PutTaught DEF Suppose
<1>3. CASE Resolve
  BY <1>3, ResolveTaught
<1>4. CASE UNCHANGED vars
  <2>1. x' = x /\ K' = K /\ supposed' = supposed /\ fresh' = fresh
    BY <1>4 DEF vars
  <2> QED BY <2>1 DEF Taught, Said, Started0
<1> QED BY <1>1, <1>2, <1>3, <1>4 DEF Next

(* What is known of the nodes of a supported instruction is, at every       *)
(* moment, typed and, as long as nothing is supposed, true, and a resolver  *)
(* that has run would add nothing.                                         *)
THEOREM AlwaysTaught == ASSUME AllSupported PROVE Spec => [](Taught /\ Said)
<1>1. Init => Taught /\ Said
  BY InitTaught
<1>2. Taught /\ Said /\ [Next]_vars => Taught' /\ Said'
  BY StepTaught
<1> QED BY <1>1, <1>2, PTL DEF Spec

(* A known value has the size of its node: no resolver leaves a value that  *)
(* is too short or too long, whatever it was told.                         *)
THEOREM Typed == ASSUME AllSupported PROVE Spec => []TypeOK
<1>1. Taught => TypeOK
  <2> SUFFICES ASSUME Taught, NEW s \in Slots(K), KnownAt(K, s)
               PROVE  K[s[1]][s[2]] \in Bytes(SizeAt(K, s[1], s[2]))
    BY DEF TypeOK, Taught
  <2>1. /\ s[1] \in Sides /\ s[2] \in DOMAIN K[s[1]]
        /\ Sized(K) /\ Known(K[s[1]][s[2]])
    BY SlotSides DEF KnownAt, Taught
  <2>2. CASE s[1] = "val"
    BY <2>1, <2>2 DEF Sized, SizeAt
  <2>3. CASE s[1] = "aft"
    BY <2>1, <2>3 DEF Sized, SizeAt
  <2>4. CASE s[1] = "bef"
    BY <2>1, <2>4 DEF Sized, SizeAt
  <2> QED BY <2>1, <2>2, <2>3, <2>4 DEF Sides
<1> QED BY <1>1, AlwaysTaught, PTL

(* Whatever is learned, and in whatever order, a resolver concludes only    *)
(* what the processor did, and finds no contradiction.                     *)
THEOREM OnlyTruth == ASSUME AllSupported PROVE Spec => []Sound
<1>1. Taught => Sound
  <2> SUFFICES ASSUME Taught, ~ supposed, NEW s \in Slots(K), KnownAt(K, s)
               PROVE  K[s[1]][s[2]] = Truth(x, K, s)
    BY DEF Sound, Taught, Right
  <2>1. Good(x) /\ Grows(Started0, K) /\ Honest(x, K)
    BY AllGood DEF AllSupported, Taught
  <2>2. /\ s[1] \in Sides /\ s[2] \in DOMAIN K[s[1]] /\ Known(K[s[1]][s[2]])
        /\ Truth(x, K, s) = RightAt(x, K, s[1], s[2])
    BY <2>1, TruthTyped DEF KnownAt, Started0
  <2>3. CASE s[1] = "val"
    BY <2>1, <2>2, <2>3 DEF Honest, RightAt
  <2>4. CASE s[1] = "aft"
    BY <2>1, <2>2, <2>4 DEF Honest, RightAt
  <2>5. CASE s[1] = "bef"
    BY <2>1, <2>2, <2>5 DEF Honest, RightAt
  <2> QED BY <2>2, <2>3, <2>4, <2>5 DEF Sides
<1> QED BY <1>1, AlwaysTaught, PTL

(* A wrong hypothesis meets a contradiction or nothing at all, but never an *)
(* assertion that ends the tool: only xor and pxor can fail theirs.        *)
THEOREM NoAssertionFails == ASSUME AllSupported PROVE Spec => []NeverAborts
<1>1. Taught => NeverAborts
  BY DEF Taught, NeverAborts
<1> QED BY <1>1, AlwaysTaught, PTL

(* A resolver that has run need not run again before a value arrives.       *)
THEOREM SaidAll == ASSUME AllSupported PROVE Spec => []Settled
<1>1. Said => Settled
  BY DEF Said, Settled
<1> QED BY <1>1, AlwaysTaught, PTL

(* Whatever a supported instruction changes has a define in the core list.  *)
THEOREM ChangesDefined == ASSUME AllSupported PROVE Spec => []Covered
<1>1. Taught => Covered
  <2> SUFFICES ASSUME Taught PROVE Covered
    OBVIOUS
  <2>1. Good(x) /\ Grows(Started0, K)
    BY AllGood DEF AllSupported, Taught
  <2>2. K.dst = Started0.dst
    BY <2>1 DEF Grows
  <2> QED BY <2>1, <2>2 DEF Good, AllDefined, Covered, Started0
<1> QED BY <1>1, AlwaysTaught, PTL

(* Every node of a memory operand is followed by the uses of the registers  *)
(* that its address is computed from.                                      *)
THEOREM MemoryAddressed == ASSUME AllSupported PROVE Spec => []Addressed
<1>1. Taught => Addressed
  <2> SUFFICES ASSUME Taught PROVE Addressed
    OBVIOUS
  <2>1. Good(x)
    BY AllGood DEF AllSupported, Taught
  <2> QED BY <2>1 DEF Good, SplitAll, Addressed, Nodes
<1> QED BY <1>1, AlwaysTaught, PTL

(* When all that a supported instruction reads is known, so is all that it  *)
(* writes, except for what the tool leaves to other instructions.          *)
THEOREM WritesComputed == ASSUME AllSupported PROVE Spec => []Computed
<1>1. Taught /\ Said => Computed
  <2> SUFFICES ASSUME Taught, Said, K.out = "ok", ~ fresh, ~ supposed, ~ Silent(x),
                      \A s \in Slots(K) : s[1] \in {"val", "bef"} => KnownAt(K, s)
               PROVE  \A j \in DOMAIN K.aft : Known(K.aft[j])
    BY DEF Computed
  <2>1. /\ DOMAIN K.bef = DOMAIN K.dst
    BY StartDomains DEF Taught, Started0
  <2>2. \A k \in DOMAIN K.val : Known(K.val[k])
    <3> TAKE k \in DOMAIN K.val
    <3>1. <<"val", k>> \in Slots(K)
      BY DEF Slots
    <3>2. KnownAt(K, <<"val", k>>)
      BY <3>1
    <3> QED BY <3>2 DEF KnownAt
  <2>3. \A j \in DOMAIN K.bef : K.dst[j].place \in {"esp", "esp, first"} => Known(K.bef[j])
    <3> SUFFICES ASSUME NEW j \in DOMAIN K.bef, K.dst[j].place \in {"esp", "esp, first"}
                 PROVE  Known(K.bef[j])
      OBVIOUS
    <3>1. <<"bef", j>> \in Slots(K)
      BY DEF Slots
    <3>2. KnownAt(K, <<"bef", j>>)
      BY <3>1
    <3> QED BY <3>2 DEF KnownAt
  <2>4. AllRead(K)
    BY <2>2, <2>3 DEF AllRead
  <2> QED BY <2>4 DEF Said, AllWritten
<1> QED BY <1>1, AlwaysTaught, PTL
=============================================================================
