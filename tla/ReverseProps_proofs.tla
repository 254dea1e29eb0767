------------------------ MODULE ReverseProps_proofs ------------------------
(***************************************************************************)
(* Proofs about reverse execution, for all traces.                         *)
(***************************************************************************)
EXTENDS ReverseProps, FiniteSetTheorems, SequenceTheorems,
        WellFoundedInduction, TLAPS

(* Induction over the natural numbers, for a set.                          *)
LEMMA SetInduction ==
  ASSUME NEW S \in SUBSET Nat, 0 \in S, \A n \in S : n + 1 \in S
  PROVE  S = Nat
<1> SUFFICES ASSUME S # Nat PROVE FALSE
  OBVIOUS
<1> DEFINE T == Nat \ S
<1>1. T \subseteq Nat /\ T # {}
  OBVIOUS
<1>2. PICK m \in T : \A y \in T : ~ (<<y, m>> \in OpToRel(<, Nat))
  BY <1>1, NatLessThanWellFounded, WFMin
<1>3. m - 1 \in Nat /\ m - 1 < m
  BY SMT
<1>4. m - 1 \in T
  BY <1>3
<1>5. <<m - 1, m>> \in OpToRel(<, Nat)
  BY <1>3, <1>1 DEF OpToRel
<1> QED BY <1>2, <1>4, <1>5

(* The largest and the smallest member of a set of ids.                    *)
LEMMA MaxMember ==
  ASSUME NEW M \in SUBSET Nat, NEW b \in Nat, \A m \in M : m <= b
  PROVE  /\ MaxOrNull(M) = 0 => M \subseteq {0}
         /\ MaxOrNull(M) # 0 => MaxOrNull(M) \in M
         /\ \A m \in M : m <= MaxOrNull(M)
         /\ M = {} => MaxOrNull(M) = 0
<1>1. CASE M = {}
  BY <1>1 DEF MaxOrNull
<1>2. CASE M # {}
  <2> DEFINE D == {k \in Nat : \E m \in M : m + k = b}
  <2>1. D \subseteq Nat /\ D # {}
    <3>1. PICK m \in M : m \in Nat
      BY <1>2
    <3>2. b - m \in Nat /\ m + (b - m) = b
      BY <3>1
    <3> QED BY <3>1, <3>2
  <2>2. PICK k \in D : \A y \in D : ~ (<<y, k>> \in OpToRel(<, Nat))
    BY <2>1, NatLessThanWellFounded, WFMin
  <2>3. PICK m \in M : m + k = b
    BY <2>2
  <2>4. ASSUME NEW n \in M PROVE m >= n
    <3>1. b - n \in D /\ b - n \in Nat
      BY <2>3
    <3>2. ~ (b - n < k)
      BY <2>2, <3>1 DEF OpToRel
    <3> QED BY <2>3, <3>1, <3>2
  <2>5. Max(M) \in M /\ \A n \in M : Max(M) >= n
    <3> DEFINE c == CHOOSE x \in M : \A y \in M : x >= y
    <3>1. c \in M /\ \A y \in M : c >= y
      BY <2>3, <2>4
    <3> QED BY <3>1 DEF Max
  <2> QED BY <1>2, <2>5 DEF MaxOrNull
<1> QED BY <1>1, <1>2
(* The same for the smallest.                                              *)
LEMMA MinMember ==
  ASSUME NEW M \in SUBSET Nat
  PROVE  /\ M # {} => MinOrNull(M) \in M
         /\ \A m \in M : MinOrNull(M) <= m
         /\ M = {} => MinOrNull(M) = 0
<1>1. CASE M = {}
  BY <1>1 DEF MinOrNull
<1>2. CASE M # {}
  <2>2. PICK m \in M : \A y \in M : ~ (<<y, m>> \in OpToRel(<, Nat))
    BY <1>2, NatLessThanWellFounded, WFMin
  <2>3. ASSUME NEW y \in M PROVE m <= y
    <3>1. ~ (y < m)
      BY <2>2 DEF OpToRel
    <3> QED BY <3>1
  <2>5. Min(M) \in M /\ \A n \in M : Min(M) <= n
    <3> DEFINE c == CHOOSE x \in M : \A y \in M : x <= y
    <3>1. c \in M /\ \A y \in M : c <= y
      BY <2>3
    <3> QED BY <3>1 DEF Min
  <2> QED BY <1>2, <2>5 DEF MinOrNull
<1> QED BY <1>1, <1>2

-----------------------------------------------------------------------------
(***************************************************************************)
(* The shape of re_ds.  What a value or an operand is made of is left open *)
(* here.                                                                   *)
(***************************************************************************)
IsList(s) == \E X : s \in Seq(X)

InstShape(x) == x = [k |-> "inst", i |-> x.i]
DefShape(x)  == /\ x = [k |-> "def", o |-> x.o, addr |-> x.addr, bef |-> x.bef, aft |-> x.aft]
                /\ x.o.size \in Nat \ {0}
UseShape(x)  == /\ x = [k |-> "use", o |-> x.o, ut |-> x.ut, addr |-> x.addr, val |-> x.val]
                /\ x.o.size \in Nat \ {0}
                /\ x.ut \in {"Opd", "Base", "Index"}
NodeShape(x) == InstShape(x) \/ DefShape(x) \/ UseShape(x)

Queue(S, list) == list \in Seq(Ids(S)) /\ Once(S, list)

Fields(S) ==
  /\ S = [tr |-> S.tr, core |-> S.core, dl |-> S.dl, ul |-> S.ul, il |-> S.il,
          um |-> S.um, rec |-> S.rec, cur |-> S.cur, resolving |-> S.resolving,
          ph |-> S.ph, out |-> S.out]
  /\ S.rec = 0 /\ S.out \in {"ok", "abort", "wild"} /\ S.ph \in {"use", "def", "inst"}
  /\ S.um \in Seq(Nat)
Core(S) ==
  /\ IsList(S.core)
  /\ \A n \in Ids(S) : NodeShape(S.core[n])
  /\ S.core # <<>> => IsInst(S.core[1])
Uses(S) ==
  /\ Queue(S, S.ul)
  /\ \A i \in 1 .. Len(S.ul) : IsUse(S.core[S.ul[i]]) /\ HasValue(S.core[S.ul[i]])
Defs(S) ==
  /\ Queue(S, S.dl)
  /\ \A i \in 1 .. Len(S.dl) : IsDef(S.core[S.dl[i]]) /\ HasValue(S.core[S.dl[i]])
Insts(S) ==
  /\ Queue(S, S.il)
  /\ \A i \in 1 .. Len(S.il) : IsInst(S.core[S.il[i]])
Shape(S) == Fields(S) /\ Core(S) /\ Uses(S) /\ Defs(S) /\ Insts(S)

(* A list with one member exchanged.                                       *)
LEMMA ListExcept ==
  ASSUME NEW s, IsList(s), NEW n \in 1 .. Len(s), NEW y
  PROVE  LET t == [s EXCEPT ![n] = y]
         IN  /\ IsList(t) /\ Len(t) = Len(s) /\ t[n] = y
             /\ \A m \in 1 .. Len(s) : m # n => t[m] = s[m]
<1>1. PICK X : s \in Seq(X)
  BY DEF IsList
<1> DEFINE t == [s EXCEPT ![n] = y]
<1>2. s \in Seq(X \cup {y})
  <2>1. Len(s) \in Nat /\ s \in [1 .. Len(s) -> X]
    BY <1>1
  <2> QED BY <1>1, <2>1
<1>3. t \in Seq(X \cup {y}) /\ Len(t) = Len(s)
  BY <1>2
<1>4. t[n] = y /\ \A m \in 1 .. Len(s) : m # n => t[m] = s[m]
  BY <1>1
<1> QED BY <1>3, <1>4 DEF IsList

(* A value put where none was.                                             *)
Fits(x, side) == \/ IsUse(x) /\ side = "val"
                 \/ IsDef(x) /\ side \in {"bef", "aft"}
Put(S, n, side, w) == [S EXCEPT !.core[n][side] = w]

(* A value that is put into a node changes that side of the node only.     *)
LEMMA PutNode ==
  ASSUME NEW x, NodeShape(x), NEW side, Fits(x, side), NEW w, w # <<>>
  PROVE  LET y == [x EXCEPT ![side] = w]
         IN  /\ NodeShape(y) /\ y.k = x.k /\ y[side] = w
             /\ y.o = x.o /\ y.addr = x.addr /\ (IsUse(x) => y.ut = x.ut)
             /\ \A s \in {"val", "bef", "aft"} : s # side /\ Fits(x, s) => y[s] = x[s]
             /\ x[side] = <<>> => Keeps(x, y)
             /\ HasValue(y)
<1>1. CASE IsUse(x)
  BY <1>1 DEF IsUse, IsDef, IsInst, Fits, NodeShape, InstShape, DefShape, UseShape, Keeps, HasValue, Known
<1>2. CASE IsDef(x) /\ side = "bef"
  BY <1>2 DEF IsUse, IsDef, IsInst, Fits, NodeShape, InstShape, DefShape, UseShape, Keeps, HasValue, Known
<1>3. CASE IsDef(x) /\ side = "aft"
  BY <1>3 DEF IsUse, IsDef, IsInst, Fits, NodeShape, InstShape, DefShape, UseShape, Keeps, HasValue, Known
<1> QED BY <1>1, <1>2, <1>3 DEF Fits

(* A value that is put into a node changes that node only.                 *)
LEMMA PutState ==
  ASSUME NEW S, Shape(S), NEW n \in Ids(S), NEW side, Fits(S.core[n], side), NEW w, w # <<>>
  PROVE  LET T == Put(S, n, side, w)
         IN  /\ T = [S EXCEPT !.core = T.core]
             /\ IsList(T.core) /\ Len(T.core) = Len(S.core)
             /\ T.core[n] = [S.core[n] EXCEPT ![side] = w]
             /\ \A m \in Ids(S) : m # n => T.core[m] = S.core[m]
<1> DEFINE y == [S.core[n] EXCEPT ![side] = w]
           c == [S.core EXCEPT ![n] = y]
           T == Put(S, n, side, w)
<1>1. IsList(c) /\ Len(c) = Len(S.core) /\ c[n] = y
      /\ \A m \in Ids(S) : m # n => c[m] = S.core[m]
  <2>1. IsList(S.core) /\ n \in 1 .. Len(S.core)
    BY DEF Shape, Core, Ids
  <2> HIDE DEF y
  <2> QED BY <2>1, ListExcept DEF Ids
<1>2. T = [S EXCEPT !.core = c]
  BY DEF Put
<1>3. T.core = c
  BY <1>2 DEF Shape
<1> QED BY <1>1, <1>2, <1>3

-----------------------------------------------------------------------------
(***************************************************************************)
(* T comes from S by propagation.  Every operation that propagates values  *)
(* is shown to be of this kind, and the relation is transitive, so that    *)
(* whatever order they are called in does not matter.                      *)
(***************************************************************************)
NodeLater(x, y) == y.k = x.k /\ (IsUse(x) => y.ut = x.ut) /\ Keeps(x, y)

Extends(s, t) ==
  Len(t) >= Len(s) /\ \A i \in 1 .. Len(s) : t[Len(t) - Len(s) + i] = s[i]

(* Something is known that was not. *)
NodeGain(x, y) ==
  /\ ~ IsInst(x)
  /\ \/ x.addr = 0 /\ y.addr # 0
     \/ IsUse(x) /\ ~ Known(x.val) /\ Known(y.val)
     \/ IsDef(x) /\ ~ Known(x.bef) /\ Known(y.bef)
     \/ IsDef(x) /\ ~ Known(x.aft) /\ Known(y.aft)
Gain(S, T) == \E n \in Ids(S) : NodeGain(S.core[n], T.core[n])

Agrees(S, p) == \A m \in ElementsOf(S, p) : AgreesWithLog(S, p, m, PlaceOf(S.core[m]))

Grows(S, T) ==
  /\ Shape(T)
  /\ T.tr = S.tr /\ T.cur = S.cur /\ T.resolving = S.resolving /\ T.ph = S.ph
  /\ Len(T.core) = Len(S.core)
  /\ \A n \in Ids(S) : NodeLater(S.core[n], T.core[n])
  /\ S.out # "ok" => T.out = S.out
  /\ Extends(S.dl, T.dl) /\ Extends(S.ul, T.ul) /\ Extends(S.il, T.il)
  /\ (T.ul = S.ul /\ T.dl = S.dl) \/ Gain(S, T)
  /\ T.out = "ok" => \A p \in Ids(S) : IsInst(S.core[p]) /\ Agrees(S, p) => Agrees(T, p)

(* Only values are learned. *)
Tells(S, T) ==
  /\ Grows(S, T)
  /\ T.um = S.um
  /\ \A n \in Ids(S) : ~ IsInst(S.core[n]) => T.core[n].addr = S.core[n].addr

(* What is known of a node goes on being known.                            *)
LEMMA NodeLaterTrans ==
  ASSUME NEW x, NEW y, NEW z, NodeLater(x, y), NodeLater(y, z)
  PROVE  NodeLater(x, z)
BY DEF NodeLater, Keeps, IsInst, IsUse, IsDef

(* What has been learned of a node stays learned.                          *)
LEMMA NodeGainThen ==
  ASSUME NEW x, NEW y, NEW z, NodeLater(x, y), NodeLater(y, z)
  PROVE  /\ NodeGain(x, y) => NodeGain(x, z)
         /\ NodeGain(y, z) => NodeGain(x, z)
BY DEF NodeLater, Keeps, NodeGain, IsInst, IsUse, IsDef

(* Lists that grow at the head, one growth after the other.                *)
LEMMA ExtendsTrans ==
  ASSUME NEW X, NEW s \in Seq(X), NEW t \in Seq(X), NEW u \in Seq(X), Extends(s, t), Extends(t, u)
  PROVE  Extends(s, u)
<1>1. ASSUME NEW i \in 1 .. Len(s) PROVE u[Len(u) - Len(s) + i] = s[i]
  <2>1. Len(t) - Len(s) + i \in 1 .. Len(t)
    BY DEF Extends
  <2>2. Len(u) - Len(t) + (Len(t) - Len(s) + i) = Len(u) - Len(s) + i
    OBVIOUS
  <2> QED BY <2>1, <2>2 DEF Extends
<1> QED BY <1>1 DEF Extends

(* Nothing done is a propagation.                                          *)
LEMMA GrowsRefl ==
  ASSUME NEW S, Shape(S)
  PROVE  Grows(S, S) /\ Tells(S, S)
<1>1. \A n \in Ids(S) : NodeLater(S.core[n], S.core[n])
  BY DEF NodeLater, Keeps, IsInst, IsUse, IsDef
<1>2. \A s : Len(s) \in Nat => Extends(s, s)
  BY DEF Extends
<1>3. Len(S.dl) \in Nat /\ Len(S.ul) \in Nat /\ Len(S.il) \in Nat
  BY DEF Shape, Queue
<1> QED BY <1>1, <1>2, <1>3 DEF Grows, Tells

(* One propagation after the other is one.                                 *)
LEMMA GrowsTrans ==
  ASSUME NEW S, NEW T, NEW U, Shape(S), Grows(S, T), Grows(T, U)
  PROVE  Grows(S, U)
<1>1. Ids(T) = Ids(S) /\ Ids(U) = Ids(S)
  BY DEF Ids, Grows
<1>2. \A n \in Ids(S) : NodeLater(S.core[n], U.core[n])
  BY <1>1, NodeLaterTrans DEF Grows
<1>3. Extends(S.dl, U.dl) /\ Extends(S.ul, U.ul) /\ Extends(S.il, U.il)
  BY <1>1, ExtendsTrans DEF Grows, Shape, Uses, Defs, Insts, Queue
<1>4. Gain(S, T) \/ Gain(T, U) => Gain(S, U)
  BY <1>1, NodeGainThen DEF Grows, Gain
<1>5. (U.ul = S.ul /\ U.dl = S.dl) \/ Gain(S, U)
  BY <1>4 DEF Grows
<1>6. ASSUME U.out = "ok", NEW p \in Ids(S), IsInst(S.core[p]), Agrees(S, p) PROVE Agrees(U, p)
  <2>1. T.out = "ok" /\ IsInst(T.core[p]) /\ p \in Ids(T)
    BY <1>1, <1>6 DEF Grows, NodeLater, IsInst
  <2> QED BY <1>1, <1>6, <2>1 DEF Grows
<1>7. /\ Shape(U) /\ U.tr = S.tr /\ U.cur = S.cur /\ U.resolving = S.resolving
      /\ U.ph = S.ph /\ Len(U.core) = Len(S.core) /\ (S.out # "ok" => U.out = S.out)
  BY DEF Grows
<1> QED BY <1>2, <1>3, <1>5, <1>6, <1>7 DEF Grows

(* One that touches no address, after another such, touches none.          *)
LEMMA TellsTrans ==
  ASSUME NEW S, NEW T, NEW U, Shape(S), Tells(S, T), Tells(T, U)
  PROVE  Tells(S, U)
<1>1. Ids(T) = Ids(S) /\ \A n \in Ids(S) : T.core[n].k = S.core[n].k
  BY DEF Ids, Grows, Tells, NodeLater
<1>2. Grows(S, U)
  BY GrowsTrans DEF Tells
<1> QED BY <1>1, <1>2 DEF Tells, IsInst

-----------------------------------------------------------------------------
(* What kinds of nodes follow each other never changes, and with it where  *)
(* an instruction ends and which uses belong to an operand.                *)
SameKinds(S, T) ==
  /\ Len(T.core) = Len(S.core)
  /\ \A n \in Ids(S) : /\ T.core[n].k = S.core[n].k
                       /\ IsUse(S.core[n]) => T.core[n].ut = S.core[n].ut
                       /\ ~ IsInst(S.core[n]) => T.core[n].o = S.core[n].o
                       /\ IsInst(S.core[n]) => T.core[n] = S.core[n]

(* Propagation changes neither kinds nor operands.                         *)
LEMMA GrowsKinds ==
  ASSUME NEW S, NEW T, Grows(S, T)
  PROVE  SameKinds(S, T)
BY DEF Grows, SameKinds, NodeLater, Keeps, IsInst, IsUse

(* The walks along the main list look at kinds only.                       *)
LEMMA WalksSame ==
  ASSUME NEW S, NEW T, SameKinds(S, T), NEW p \in Nat
  PROVE  /\ LastElement(T, p) = LastElement(S, p)
         /\ ElementsOf(T, p) = ElementsOf(S, p)
         /\ p <= Len(S.core) + 1 => find_inst_of_node(T, p) = find_inst_of_node(S, p)
         /\ Len(S.core) \in Nat => \A ut : get_element_of_exp(T, p, ut) = get_element_of_exp(S, p, ut)
<1> DEFINE N(X) == {j \in p + 1 .. Len(X.core) : IsInst(X.core[j])}
           B(X) == {j \in 1 .. p - 1 : IsInst(X.core[j])}
           E(X) == {j \in p + 1 .. Len(X.core) : ~ IsUse(X.core[j]) \/ X.core[j].ut = "Opd"}
<1>1. N(T) = N(S)
  BY DEF SameKinds, IsInst, Ids
<1>2. p <= Len(S.core) + 1 => B(T) = B(S)
  BY DEF SameKinds, IsInst, Ids
<1>3. E(T) = E(S)
  BY DEF SameKinds, IsUse, Ids
<1>4. LastElement(T, p) = LastElement(S, p)
  <2>1. LastElement(T, p) = IF MinOrNull(N(T)) = 0 THEN Len(T.core) ELSE MinOrNull(N(T)) - 1
    BY DEF LastElement
  <2>2. LastElement(S, p) = IF MinOrNull(N(S)) = 0 THEN Len(S.core) ELSE MinOrNull(N(S)) - 1
    BY DEF LastElement
  <2>3. Len(T.core) = Len(S.core) /\ MinOrNull(N(T)) = MinOrNull(N(S))
    BY <1>1 DEF SameKinds
  <2> HIDE DEF N
  <2> QED BY <2>1, <2>2, <2>3
<1>5. p <= Len(S.core) + 1 => find_inst_of_node(T, p) = find_inst_of_node(S, p)
  BY <1>2 DEF find_inst_of_node
<1>6. ASSUME Len(S.core) \in Nat, NEW ut PROVE get_element_of_exp(T, p, ut) = get_element_of_exp(S, p, ut)
  <2> DEFINE stop(X) == MinOrNull(E(X))
             parts(X) == p + 1 .. (IF stop(X) = 0 THEN Len(X.core) ELSE stop(X) - 1)
             M(X) == {j \in parts(X) : X.core[j].ut = ut}
  <2>1. stop(T) = stop(S) /\ parts(T) = parts(S)
    BY <1>3 DEF SameKinds
  <2>2. ASSUME NEW j \in parts(S) PROVE j \in Ids(S) /\ IsUse(S.core[j]) /\ T.core[j].ut = S.core[j].ut
    <3>1. E(S) \in SUBSET Nat
      BY <1>6
    <3>2. \A m \in E(S) : stop(S) <= m
      BY <3>1, MinMember
    <3>3. E(S) # {} => stop(S) \in E(S)
      BY <3>1, MinMember
    <3>4. E(S) = {} => stop(S) = 0
      BY <3>1, MinMember
    <3> HIDE DEF stop
    <3>5. CASE E(S) = {}
      <4>1. j \in p + 1 .. Len(S.core)
        BY <3>4, <3>5
      <4> HIDE DEF parts
      <4> QED BY <3>5, <4>1 DEF SameKinds, Ids
    <3>6. CASE E(S) # {}
      <4>1. j \in p + 1 .. Len(S.core) /\ j < stop(S)
        BY <1>6, <3>3, <3>6
      <4>2. j \notin E(S)
        BY <3>2, <4>1, <1>6, <3>3, <3>6
      <4> HIDE DEF parts
      <4> QED BY <4>1, <4>2 DEF SameKinds, Ids
    <3> QED BY <3>5, <3>6
  <2> HIDE DEF stop, parts
  <2>3. M(T) = M(S)
    BY <2>1, <2>2
  <2>4. get_element_of_exp(T, p, ut) = MaxOrNull(M(T)) /\ get_element_of_exp(S, p, ut) = MaxOrNull(M(S))
    BY DEF get_element_of_exp, stop, parts
  <2> QED BY <2>3, <2>4
<1> QED BY <1>4, <1>5, <1>6 DEF ElementsOf

(* The elements of an instruction are the nodes up to the next one.        *)
LEMMA ElementsRange ==
  ASSUME NEW S, Len(S.core) \in Nat, NEW p \in 0 .. Len(S.core)
  PROVE  /\ LastElement(S, p) \in p .. Len(S.core)
         /\ \A m \in ElementsOf(S, p) : m \in Ids(S) /\ m > p /\ ~ IsInst(S.core[m])
         /\ \A m \in p + 1 .. Len(S.core) :
              m \in ElementsOf(S, p) \/ \E j \in p + 1 .. m : IsInst(S.core[j])
<1> DEFINE N == {j \in p + 1 .. Len(S.core) : IsInst(S.core[j])}
           next == MinOrNull(N)
<1>1. /\ N # {} => next \in N
      /\ \A j \in N : next <= j
      /\ N = {} => next = 0
  <2>1. N \in SUBSET Nat
    OBVIOUS
  <2> QED BY <2>1, MinMember
<1>2. LastElement(S, p) = IF next = 0 THEN Len(S.core) ELSE next - 1
  BY DEF LastElement
<1> HIDE DEF next
<1>3. CASE N = {}
  BY <1>1, <1>2, <1>3 DEF ElementsOf, Ids
<1>4. CASE N # {}
  BY <1>1, <1>2, <1>4 DEF ElementsOf, Ids
<1> QED BY <1>3, <1>4

(* Every node but the first belongs to one instruction.                    *)
LEMMA InstOf ==
  ASSUME NEW S, Shape(S), NEW n \in Ids(S), ~ IsInst(S.core[n])
  PROVE  LET p == find_inst_of_node(S, n)
         IN  /\ p \in Ids(S) /\ p < n /\ IsInst(S.core[p]) /\ n \in ElementsOf(S, p)
             /\ \A q \in Ids(S) : IsInst(S.core[q]) /\ n \in ElementsOf(S, q) => q = p
<1> DEFINE B == {j \in 1 .. n - 1 : IsInst(S.core[j])}
           p == find_inst_of_node(S, n)
<1>1. Len(S.core) \in Nat /\ n \in Nat /\ (S.core # <<>> => IsInst(S.core[1]))
  BY DEF Shape, Core, IsList, Ids
<1>2. p = MaxOrNull(B)
  BY DEF find_inst_of_node
<1>3. 1 \in B
  <2>1. S.core # <<>>
    BY <1>1 DEF Ids, Shape, Core, IsList
  <2> QED BY <1>1, <2>1 DEF Ids
<1>4. p \in B /\ \A j \in B : j <= p
  <2>1. B \in SUBSET Nat /\ \A m \in B : m <= n
    BY <1>1
  <2>2. /\ MaxOrNull(B) = 0 => B \subseteq {0}
        /\ MaxOrNull(B) # 0 => MaxOrNull(B) \in B
        /\ \A m \in B : m <= MaxOrNull(B)
    BY <1>1, <2>1, MaxMember
  <2> HIDE DEF p
  <2> QED BY <1>2, <1>3, <2>2
<1> HIDE DEF p
<1>5. p \in Ids(S) /\ p < n /\ IsInst(S.core[p])
  BY <1>1, <1>4 DEF Ids
<1>6. n \in ElementsOf(S, p)
  <2>1. n \in p + 1 .. Len(S.core) /\ p \in 0 .. Len(S.core)
    BY <1>1, <1>5 DEF Ids
  <2>2. ASSUME NEW j \in p + 1 .. n PROVE ~ IsInst(S.core[j])
    <3>1. j = n \/ j \in 1 .. n - 1
      BY <1>1, <1>5 DEF Ids
    <3>2. j > p
      BY <1>1, <1>5 DEF Ids
    <3> QED BY <1>4, <3>1, <3>2, <1>5 DEF Ids
  <2> QED BY <1>1, <2>1, <2>2, ElementsRange
<1>7. ASSUME NEW q \in Ids(S), IsInst(S.core[q]), n \in ElementsOf(S, q) PROVE q = p
  <2>1. q < n /\ q \in B
    BY <1>1, <1>7, ElementsRange DEF Ids
  <2>2. ~ q < p
    <3> SUFFICES ASSUME q < p PROVE FALSE
      OBVIOUS
    <3>1. LastElement(S, q) \in Nat /\ n <= LastElement(S, q)
      BY <1>1, <1>7, ElementsRange DEF ElementsOf, Ids
    <3>2. p \in ElementsOf(S, q)
      BY <1>1, <1>5, <3>1 DEF ElementsOf, Ids
    <3>3. q \in 0 .. Len(S.core)
      BY <1>1 DEF Ids
    <3> QED BY <1>1, <1>5, <3>2, <3>3, ElementsRange
  <2> QED BY <1>4, <1>5, <2>1, <2>2 DEF Ids
<1> QED BY <1>5, <1>6, <1>7 DEF p

-----------------------------------------------------------------------------
(***************************************************************************)
(* Values are assigned, handed on and checked.                             *)
(***************************************************************************)
(* What correctness_check looks at belongs to the instruction.             *)
LEMMA AgreesFrame ==
  ASSUME NEW S, NEW T, SameKinds(S, T), T.tr = S.tr, NEW p \in Ids(S), IsInst(S.core[p]),
         Len(S.core) \in Nat, \A m \in ElementsOf(S, p) : T.core[m] = S.core[m], Agrees(S, p)
  PROVE  Agrees(T, p)
<1>1. ElementsOf(T, p) = ElementsOf(S, p)
  BY WalksSame DEF Ids
<1>2. LoggedRegs(T, p) = LoggedRegs(S, p)
  BY DEF LoggedRegs, SameKinds
<1>3. ASSUME NEW m \in ElementsOf(S, p) PROVE AgreesWithLog(T, p, m, PlaceOf(T.core[m]))
  <2>1. AgreesWithLog(S, p, m, PlaceOf(S.core[m])) /\ T.core[m] = S.core[m]
    BY DEF Agrees
  <2>2. \A reg : use_after_def(S, m, reg, p) => use_after_def(T, m, reg, p)
    BY <1>1 DEF use_after_def
  <2> QED BY <1>2, <2>1, <2>2 DEF AgreesWithLog
<1> QED BY <1>1, <1>3 DEF Agrees

(* The same nodes and lists.                                               *)
LEMMA ShapeKept ==
  ASSUME NEW S, Shape(S), NEW T, Fields(T), T.core = S.core, T.dl = S.dl, T.ul = S.ul, T.il = S.il
  PROVE  Shape(T)
<1>1. Core(T)
  BY DEF Shape, Core, Ids
<1>2. Uses(T) /\ Defs(T) /\ Insts(T)
  BY DEF Shape, Uses, Defs, Insts, Queue, Once, Ids
<1> QED BY <1>1, <1>2 DEF Shape

(* A failed assertion changes nothing but the outcome.                     *)
LEMMA FailTells ==
  ASSUME NEW S, Shape(S), NEW kind \in {"abort", "wild"}, NEW T, T = fail(S, kind)
  PROVE  /\ Tells(S, T) /\ T.core = S.core /\ T.il = S.il /\ T.ul = S.ul /\ T.dl = S.dl
         /\ T.out # "ok"
<1>1. CASE S.out # "ok"
  BY <1>1, GrowsRefl DEF fail
<1>2. CASE S.out = "ok"
  <2>1. T = [S EXCEPT !.out = kind]
    BY <1>2 DEF fail
  <2>2. /\ T.core = S.core /\ T.dl = S.dl /\ T.ul = S.ul /\ T.il = S.il /\ T.um = S.um
        /\ T.tr = S.tr /\ T.rec = S.rec /\ T.cur = S.cur /\ T.resolving = S.resolving
        /\ T.ph = S.ph /\ T.out = kind
    BY <2>1 DEF Shape, Fields
  <2>3. Shape(T)
    <3>1. Fields(T)
      BY <2>1, <2>2 DEF Shape, Fields
    <3> QED BY <2>2, <3>1, ShapeKept
  <2>4. \A n \in Ids(S) : NodeLater(S.core[n], S.core[n])
    BY DEF NodeLater, Keeps, IsInst, IsUse, IsDef
  <2>5. \A s : Len(s) \in Nat => Extends(s, s)
    BY DEF Extends
  <2>6. Len(S.dl) \in Nat /\ Len(S.ul) \in Nat /\ Len(S.il) \in Nat
    BY DEF Shape, Uses, Defs, Insts, Queue
  <2> QED BY <1>2, <2>2, <2>3, <2>4, <2>5, <2>6 DEF Grows, Tells
<1> QED BY <1>1, <1>2

(* assert_val and correctness_check assign nothing; a run that goes on     *)
(* agrees with the log.                                                    *)
LEMMA AssertTells ==
  ASSUME NEW S, Shape(S), NEW n, NEW side, NEW v, NEW T, T = assert_val(S, n, side, v)
  PROVE  Tells(S, T) /\ T.core = S.core /\ T.il = S.il /\ T.ul = S.ul /\ T.dl = S.dl
<1>1. S.rec = 0 /\ "abort" \in {"abort", "wild"}
  BY DEF Shape, Fields
<1>2. T = S \/ T = fail(S, "abort")
  BY <1>1 DEF assert_val
<1> QED BY <1>1, <1>2, FailTells, GrowsRefl

(* correctness_check: a run that goes on agrees with the log.              *)
LEMMA CheckTells ==
  ASSUME NEW S, Shape(S), NEW p, NEW T, T = correctness_check(S, p)
  PROVE  /\ Tells(S, T) /\ T.core = S.core /\ T.il = S.il /\ T.ul = S.ul /\ T.dl = S.dl
         /\ T.out = "ok" => Agrees(S, p) /\ S.out = "ok" /\ T = S
<1>1. S.rec = 0 /\ "abort" \in {"abort", "wild"}
  BY DEF Shape, Fields
<1>2. CASE Agrees(S, p)
  <2>1. T = S
    BY <1>2 DEF correctness_check, Agrees
  <2> QED BY <1>2, <2>1, GrowsRefl
<1>3. CASE ~ Agrees(S, p)
  <2>1. T = fail(S, "abort")
    BY <1>1, <1>3 DEF correctness_check, Agrees
  <2> QED BY <1>1, <2>1, FailTells
<1> QED BY <1>2, <1>3

(* A value has a byte at least.                                            *)
LEMMA SliceKnown ==
  ASSUME NEW v, NEW off, NEW size \in Nat \ {0}
  PROVE  Slice(v, off, size) # <<>>
<1>1. DOMAIN Slice(v, off, size) = 1 .. size
  BY DEF Slice
<1>2. 1 \in 1 .. size
  OBVIOUS
<1> QED BY <1>1, <1>2

(* A node has a byte at least.                                             *)
LEMMA SizeOfNode ==
  ASSUME NEW x, NodeShape(x), ~ IsInst(x)
  PROVE  size_of_node(x) \in Nat \ {0}
BY OperandsAssumption DEF NodeShape, InstShape, DefShape, UseShape, IsInst, IsUse, size_of_node

(* A value that is fitted into a node is known there.                      *)
LEMMA FittedKnown ==
  ASSUME NEW S, Shape(S), NEW n \in Ids(S), ~ IsInst(S.core[n]), NEW v
  PROVE  Fitted(S, n, v) # <<>>
BY SliceKnown, SizeOfNode DEF Fitted, Shape, Core

(* The value of a node is assigned: what was unknown, or the value it had. *)
LEMMA PutTells ==
  ASSUME NEW S, Shape(S), NEW n \in Ids(S), NEW side, Fits(S.core[n], side), NEW w, w # <<>>,
         S.core[n][side] = <<>> \/ S.core[n][side] = w,
         NEW T, T = Put(S, n, side, w), NEW p, p = find_inst_of_node(S, n)
  PROVE  /\ Shape(T) /\ SameKinds(S, T) /\ T = [S EXCEPT !.core = T.core]
         /\ \A m \in Ids(S) : NodeLater(S.core[m], T.core[m])
         /\ \A m \in Ids(S) : ~ IsInst(S.core[m]) => T.core[m].addr = S.core[m].addr
         /\ \A q \in Ids(S) : q # p /\ IsInst(S.core[q]) /\ Agrees(S, q) => Agrees(T, q)
         /\ HasValue(T.core[n])
         /\ S.core[n][side] = <<>> => NodeGain(S.core[n], T.core[n])
<1> DEFINE x == S.core[n]
           y == [S.core[n] EXCEPT ![side] = w]
<1>1. /\ T = [S EXCEPT !.core = T.core]
      /\ IsList(T.core) /\ Len(T.core) = Len(S.core)
      /\ T.core[n] = y
      /\ \A m \in Ids(S) : m # n => T.core[m] = S.core[m]
  BY PutState
<1>2. NodeShape(x)
  BY DEF Shape, Core
<1>3. /\ NodeShape(y) /\ y.k = x.k /\ y[side] = w
      /\ y.o = x.o /\ y.addr = x.addr /\ (IsUse(x) => y.ut = x.ut)
      /\ \A s \in {"val", "bef", "aft"} : s # side /\ Fits(x, s) => y[s] = x[s]
      /\ x[side] = <<>> => Keeps(x, y)
      /\ HasValue(y)
  <2> HIDE DEF x
  <2> QED BY <1>2, PutNode DEF x
<1>4. x[side] = w => y = x
  BY <1>2 DEF NodeShape, InstShape, DefShape, UseShape, IsInst, IsDef, IsUse, Fits
<1>5. Keeps(x, x)
  BY DEF Keeps
<1>6. ~ IsInst(x)
  BY DEF Fits, IsInst, IsUse, IsDef
<1>7. x[side] = <<>> => NodeGain(x, y)
  BY <1>3, <1>6 DEF NodeGain, Fits, Known, IsUse, IsDef
<1> HIDE DEF x, y
<1>8. SameKinds(S, T)
  BY <1>1, <1>3, <1>6 DEF SameKinds, x, Ids
<1>9. \A m \in Ids(S) : NodeLater(S.core[m], T.core[m])
  <2>1. NodeLater(x, y)
    BY <1>3, <1>4, <1>5 DEF NodeLater, x
  <2>2. \A z : NodeLater(z, z)
    BY DEF NodeLater, Keeps
  <2> QED BY <1>1, <2>1, <2>2 DEF x
<1>10. \A m \in Ids(S) : ~ IsInst(S.core[m]) => T.core[m].addr = S.core[m].addr
  BY <1>1, <1>3 DEF x
<1>11. ASSUME NEW q \in Ids(S), q # p, IsInst(S.core[q]), Agrees(S, q) PROVE Agrees(T, q)
  <2>1. n \notin ElementsOf(S, q)
    BY <1>6, <1>11, InstOf DEF x
  <2>2. Len(S.core) \in Nat
    BY DEF Shape, Core, IsList
  <2>3. \A m \in ElementsOf(S, q) : m \in Ids(S)
    BY <2>2, ElementsRange DEF Ids
  <2>4. T.tr = S.tr
    BY <1>1 DEF Shape, Fields
  <2> QED BY <1>1, <1>8, <1>11, <2>1, <2>2, <2>3, <2>4, AgreesFrame
<1>12. Shape(T)
  <2>1. /\ T.dl = S.dl /\ T.ul = S.ul /\ T.il = S.il /\ T.um = S.um
        /\ T.tr = S.tr /\ T.rec = S.rec /\ T.cur = S.cur /\ T.resolving = S.resolving
        /\ T.ph = S.ph /\ T.out = S.out
    BY <1>1 DEF Shape, Fields
  <2>2. Fields(T)
    <3>1. Fields(S)
      BY DEF Shape
    <3>2. T = [tr |-> S.tr, core |-> T.core, dl |-> S.dl, ul |-> S.ul, il |-> S.il,
          um |-> S.um, rec |-> S.rec, cur |-> S.cur, resolving |-> S.resolving,
          ph |-> S.ph, out |-> S.out]
      BY <1>1, <3>1 DEF Fields
    <3> QED BY <2>1, <3>1, <3>2 DEF Fields
  <2>3. Ids(T) = Ids(S)
    BY <1>1 DEF Ids
  <2>4. Core(T)
    <3>1. \A m \in Ids(S) : NodeShape(T.core[m])
      BY <1>1, <1>3 DEF Shape, Core
    <3>2. T.core # <<>> => 1 \in Ids(S) /\ S.core # <<>>
      BY <1>1 DEF Ids, IsList
    <3>3. T.core # <<>> => IsInst(T.core[1])
      BY <1>8, <3>2 DEF SameKinds, Shape, Core, IsInst
    <3> QED BY <1>1, <2>3, <3>1, <3>3 DEF Core
  <2>5. \A m \in Ids(S) : /\ IsUse(S.core[m]) => IsUse(T.core[m])
                          /\ IsDef(S.core[m]) => IsDef(T.core[m])
                          /\ IsInst(S.core[m]) => IsInst(T.core[m])
    BY <1>8 DEF SameKinds, IsUse, IsDef, IsInst
  <2>6. \A m \in Ids(S) : HasValue(S.core[m]) => HasValue(T.core[m])
    BY <1>1, <1>3 DEF x
  <2>7. Uses(S) /\ Defs(S) /\ Insts(S)
    BY DEF Shape
  <2>8. \A i \in 1 .. Len(S.ul) : S.ul[i] \in Ids(S)
    BY <2>7 DEF Uses, Queue
  <2>9. \A i \in 1 .. Len(S.dl) : S.dl[i] \in Ids(S)
    BY <2>7 DEF Defs, Queue
  <2>10. \A i \in 1 .. Len(S.il) : S.il[i] \in Ids(S)
    BY <2>7 DEF Insts, Queue
  <2>11. Uses(T)
    BY <1>1, <2>1, <2>3, <2>5, <2>6, <2>7, <2>8 DEF Uses, Queue, Once
  <2>12. Defs(T)
    BY <1>1, <2>1, <2>3, <2>5, <2>6, <2>7, <2>9 DEF Defs, Queue, Once
  <2>13. Insts(T)
    BY <1>1, <2>1, <2>3, <2>5, <2>6, <2>7, <2>10 DEF Insts, Queue, Once
  <2> QED BY <2>2, <2>4, <2>11, <2>12, <2>13 DEF Shape
<1> QED BY <1>1, <1>3, <1>7, <1>8, <1>9, <1>10, <1>11, <1>12 DEF x

(* assign_value, as far as it learns something or changes nothing.         *)
LEMMA AssignTells ==
  ASSUME NEW S, Shape(S), NEW n \in Ids(S), NEW side, Fits(S.core[n], side), NEW v,
         S.core[n][side] = <<>> \/ S.core[n][side] = Fitted(S, n, v),
         NEW T, T = assign_value(S, n, side, v)
  PROVE  /\ Tells(S, T) /\ HasValue(T.core[n]) /\ T.il = S.il /\ T.ul = S.ul /\ T.dl = S.dl
         /\ S.core[n][side] = <<>> => NodeGain(S.core[n], T.core[n])
<1> DEFINE w == Fitted(S, n, v)
           p == find_inst_of_node(S, n)
           P == Put(S, n, side, w)
<1>1. T = correctness_check(P, p)
  BY DEF assign_value, Put
<1>2. ~ IsInst(S.core[n])
  BY DEF Fits, IsInst, IsUse, IsDef
<1>3. w # <<>>
  BY <1>2, FittedKnown
<1> HIDE DEF w, p, P
<1>4. /\ Shape(P) /\ SameKinds(S, P) /\ P = [S EXCEPT !.core = P.core]
      /\ \A m \in Ids(S) : NodeLater(S.core[m], P.core[m])
      /\ \A m \in Ids(S) : ~ IsInst(S.core[m]) => P.core[m].addr = S.core[m].addr
      /\ \A q \in Ids(S) : q # p /\ IsInst(S.core[q]) /\ Agrees(S, q) => Agrees(P, q)
      /\ HasValue(P.core[n])
      /\ S.core[n][side] = <<>> => NodeGain(S.core[n], P.core[n])
  BY <1>3, PutTells DEF w, p, P
<1>5. /\ Tells(P, T) /\ T.core = P.core /\ T.il = P.il /\ T.ul = P.ul /\ T.dl = P.dl
      /\ T.out = "ok" => Agrees(P, p) /\ P.out = "ok" /\ T = P
  BY <1>1, <1>4, CheckTells
<1>6. /\ P.dl = S.dl /\ P.ul = S.ul /\ P.il = S.il /\ P.um = S.um /\ P.tr = S.tr
      /\ P.cur = S.cur /\ P.resolving = S.resolving /\ P.ph = S.ph /\ P.out = S.out
  BY <1>4 DEF Shape, Fields
<1>7. Ids(P) = Ids(S)
  BY <1>4 DEF SameKinds, Ids
<1>8. T.out = "ok" => \A q \in Ids(S) : IsInst(S.core[q]) /\ Agrees(S, q) => Agrees(T, q)
  BY <1>4, <1>5
<1>9. \A s : Len(s) \in Nat => Extends(s, s)
  BY DEF Extends
<1>10. Len(S.dl) \in Nat /\ Len(S.ul) \in Nat /\ Len(S.il) \in Nat
  BY DEF Shape, Uses, Defs, Insts, Queue
<1>11. Grows(S, T)
  BY <1>4, <1>5, <1>6, <1>8, <1>9, <1>10 DEF Grows, Tells, SameKinds
<1> QED BY <1>4, <1>5, <1>6, <1>7, <1>11 DEF Tells

(* A new member of a list.                                                 *)
LEMMA AtHeadList ==
  ASSUME NEW N, NEW s \in Seq(N), NEW n \in N, NEW t, t = AtHead(s, n),
         \A i, j \in DOMAIN s : s[i] = s[j] => i = j
  PROVE  /\ t \in Seq(N) /\ Extends(s, t)
         /\ \A i, j \in DOMAIN t : t[i] = t[j] => i = j
         /\ \A i \in DOMAIN t : t[i] = n \/ \E j \in DOMAIN s : t[i] = s[j]
         /\ \E i \in DOMAIN t : t[i] = n
<1>1. CASE Contains(s, n)
  BY <1>1 DEF AtHead, Extends, Contains
<1>2. CASE ~ Contains(s, n)
  <2>1. t = <<n>> \o s
    BY <1>2 DEF AtHead, Cons
  <2>2. t \in Seq(N) /\ Len(t) = Len(s) + 1 /\ t[1] = n /\ \A i \in 2 .. Len(t) : t[i] = s[i - 1]
    BY <2>1
  <2>3. \A i \in 1 .. Len(s) : s[i] # n
    BY <1>2 DEF Contains
  <2>4. \A i \in 2 .. Len(t) : i - 1 \in 1 .. Len(s)
    BY <2>2
  <2>5. \A i \in 1 .. Len(s) : t[i + 1] = s[i]
    BY <2>2
  <2>6. Extends(s, t)
    <3> SUFFICES ASSUME NEW i \in 1 .. Len(s) PROVE t[Len(t) - Len(s) + i] = s[i]
      BY <2>2 DEF Extends
    <3>1. Len(t) - Len(s) + i = i + 1
      BY <2>2
    <3> QED BY <2>5, <3>1
  <2>7. \A i, j \in DOMAIN t : t[i] = t[j] => i = j
    <3> SUFFICES ASSUME NEW i \in 1 .. Len(t), NEW j \in 1 .. Len(t), t[i] = t[j] PROVE i = j
      BY <2>2
    <3>1. CASE i = 1 /\ j \in 2 .. Len(t)
      BY <2>2, <2>3, <2>4, <3>1
    <3>2. CASE j = 1 /\ i \in 2 .. Len(t)
      BY <2>2, <2>3, <2>4, <3>2
    <3>3. CASE i \in 2 .. Len(t) /\ j \in 2 .. Len(t)
      <4>1. s[i - 1] = s[j - 1] /\ i - 1 \in 1 .. Len(s) /\ j - 1 \in 1 .. Len(s)
        BY <2>2, <2>4, <3>3
      <4>2. i - 1 = j - 1
        BY <4>1
      <4> QED BY <4>2
    <3> QED BY <2>2, <3>1, <3>2, <3>3
  <2>8. \A i \in DOMAIN t : t[i] = n \/ \E j \in DOMAIN s : t[i] = s[j]
    BY <2>2, <2>4
  <2> QED BY <2>2, <2>6, <2>7, <2>8
<1> QED BY <1>1, <1>2

(* A node joins its work list.                                             *)
LEMMA EnlistShape ==
  ASSUME NEW S, Shape(S), NEW n \in Ids(S), ~ IsInst(S.core[n]), HasValue(S.core[n]),
         NEW T, T = enlist(S, n)
  PROVE  /\ Shape(T) /\ T = [S EXCEPT !.dl = T.dl, !.ul = T.ul]
         /\ Extends(S.dl, T.dl) /\ Extends(S.ul, T.ul)
<1>1. \A s : Len(s) \in Nat => Extends(s, s)
  BY DEF Extends
<1>2. Len(S.dl) \in Nat /\ Len(S.ul) \in Nat
  BY DEF Shape, Uses, Defs, Queue
<1>3. CASE IsDef(S.core[n])
  <2>1. T = [S EXCEPT !.dl = AtHead(S.dl, n)]
    BY <1>3 DEF enlist, add_to_deflist
  <2>2. /\ T.dl = AtHead(S.dl, n) /\ T.ul = S.ul /\ T.il = S.il /\ T.core = S.core
        /\ Fields(T) /\ T = [S EXCEPT !.dl = T.dl, !.ul = T.ul]
    BY <2>1 DEF Shape, Fields
  <2>3. S.dl \in Seq(Ids(S)) /\ \A i, j \in DOMAIN S.dl : S.dl[i] = S.dl[j] => i = j
    BY DEF Shape, Defs, Queue, Once
  <2>4. /\ T.dl \in Seq(Ids(S)) /\ Extends(S.dl, T.dl)
        /\ \A i, j \in DOMAIN T.dl : T.dl[i] = T.dl[j] => i = j
        /\ \A i \in DOMAIN T.dl : T.dl[i] = n \/ \E j \in DOMAIN S.dl : T.dl[i] = S.dl[j]
    <3> DEFINE s == S.dl
               t == T.dl
    <3>1. t = AtHead(s, n) /\ s \in Seq(Ids(S)) /\ \A i, j \in DOMAIN s : s[i] = s[j] => i = j
      BY <2>2, <2>3
    <3> HIDE DEF s, t
    <3>2. /\ t \in Seq(Ids(S)) /\ Extends(s, t)
          /\ \A i, j \in DOMAIN t : t[i] = t[j] => i = j
          /\ \A i \in DOMAIN t : t[i] = n \/ \E j \in DOMAIN s : t[i] = s[j]
      BY <3>1, AtHeadList
    <3> QED BY <3>2 DEF s, t
  <2>5. Ids(T) = Ids(S)
    BY <2>2 DEF Ids
  <2>6. Defs(T)
    <3>1. Queue(T, T.dl)
      BY <2>4, <2>5 DEF Queue, Once, Ids
    <3>2. \A i \in 1 .. Len(S.dl) : IsDef(S.core[S.dl[i]]) /\ HasValue(S.core[S.dl[i]])
      BY DEF Shape, Defs
    <3>3. DOMAIN T.dl = 1 .. Len(T.dl) /\ DOMAIN S.dl = 1 .. Len(S.dl)
      BY <2>3, <2>4
    <3>4. \A i \in 1 .. Len(T.dl) : IsDef(S.core[T.dl[i]]) /\ HasValue(S.core[T.dl[i]])
      BY <1>3, <2>4, <3>2, <3>3
    <3> QED BY <2>2, <3>1, <3>4 DEF Defs
  <2>7. Core(T) /\ Uses(T) /\ Insts(T)
    BY <2>2, <2>5 DEF Shape, Core, Uses, Insts, Queue, Once
  <2> QED BY <1>1, <1>2, <2>2, <2>4, <2>6, <2>7 DEF Shape
<1>4. CASE IsUse(S.core[n])
  <2>0. ~ IsDef(S.core[n])
    BY <1>4 DEF IsUse, IsDef
  <2>1. T = [S EXCEPT !.ul = AtHead(S.ul, n)]
    BY <2>0 DEF enlist, add_to_uselist
  <2>2. /\ T.ul = AtHead(S.ul, n) /\ T.dl = S.dl /\ T.il = S.il /\ T.core = S.core
        /\ Fields(T) /\ T = [S EXCEPT !.dl = T.dl, !.ul = T.ul]
    BY <2>1 DEF Shape, Fields
  <2>3. S.ul \in Seq(Ids(S)) /\ \A i, j \in DOMAIN S.ul : S.ul[i] = S.ul[j] => i = j
    BY DEF Shape, Uses, Queue, Once
  <2>4. /\ T.ul \in Seq(Ids(S)) /\ Extends(S.ul, T.ul)
        /\ \A i, j \in DOMAIN T.ul : T.ul[i] = T.ul[j] => i = j
        /\ \A i \in DOMAIN T.ul : T.ul[i] = n \/ \E j \in DOMAIN S.ul : T.ul[i] = S.ul[j]
    <3> DEFINE s == S.ul
               t == T.ul
    <3>1. t = AtHead(s, n) /\ s \in Seq(Ids(S)) /\ \A i, j \in DOMAIN s : s[i] = s[j] => i = j
      BY <2>2, <2>3
    <3> HIDE DEF s, t
    <3>2. /\ t \in Seq(Ids(S)) /\ Extends(s, t)
          /\ \A i, j \in DOMAIN t : t[i] = t[j] => i = j
          /\ \A i \in DOMAIN t : t[i] = n \/ \E j \in DOMAIN s : t[i] = s[j]
      BY <3>1, AtHeadList
    <3> QED BY <3>2 DEF s, t
  <2>5. Ids(T) = Ids(S)
    BY <2>2 DEF Ids
  <2>6. Uses(T)
    <3>1. Queue(T, T.ul)
      BY <2>4, <2>5 DEF Queue, Once, Ids
    <3>2. \A i \in 1 .. Len(S.ul) : IsUse(S.core[S.ul[i]]) /\ HasValue(S.core[S.ul[i]])
      BY DEF Shape, Uses
    <3>3. DOMAIN T.ul = 1 .. Len(T.ul) /\ DOMAIN S.ul = 1 .. Len(S.ul)
      BY <2>3, <2>4
    <3>4. \A i \in 1 .. Len(T.ul) : IsUse(S.core[T.ul[i]]) /\ HasValue(S.core[T.ul[i]])
      BY <1>4, <2>4, <3>2, <3>3
    <3> QED BY <2>2, <3>1, <3>4 DEF Uses
  <2>7. Core(T) /\ Defs(T) /\ Insts(T)
    BY <2>2, <2>5 DEF Shape, Core, Defs, Insts, Queue, Once
  <2> QED BY <1>1, <1>2, <2>2, <2>4, <2>6, <2>7 DEF Shape
<1>5. IsDef(S.core[n]) \/ IsUse(S.core[n])
  <2>1. NodeShape(S.core[n])
    BY DEF Shape, Core
  <2> QED BY <2>1 DEF NodeShape, InstShape, DefShape, UseShape, IsInst, IsDef, IsUse
<1> QED BY <1>3, <1>4, <1>5

(* A node is queued only after something has become known.                 *)
LEMMA EnlistGrows ==
  ASSUME NEW S, Shape(S), NEW A, Grows(S, A), Gain(S, A),
         NEW n \in Ids(S), ~ IsInst(S.core[n]), HasValue(A.core[n]),
         NEW T, T = enlist(A, n)
  PROVE  /\ Grows(S, T) /\ T.core = A.core /\ T.il = A.il /\ T.um = A.um /\ Gain(S, T)
         /\ Tells(S, A) => Tells(S, T)
<1>1. Shape(A) /\ n \in Ids(A) /\ ~ IsInst(A.core[n])
  BY DEF Grows, NodeLater, IsInst, Ids
<1>2. /\ Shape(T) /\ T = [A EXCEPT !.dl = T.dl, !.ul = T.ul]
      /\ Extends(A.dl, T.dl) /\ Extends(A.ul, T.ul)
  BY <1>1, EnlistShape
<1>3. /\ T.core = A.core /\ T.tr = A.tr /\ T.cur = A.cur /\ T.resolving = A.resolving
      /\ T.ph = A.ph /\ T.out = A.out /\ T.il = A.il /\ T.um = A.um
  BY <1>1, <1>2 DEF Shape, Fields
<1>4. Extends(S.dl, T.dl) /\ Extends(S.ul, T.ul)
  <2>1. /\ S.dl \in Seq(Ids(S)) /\ A.dl \in Seq(Ids(S)) /\ T.dl \in Seq(Ids(S))
        /\ S.ul \in Seq(Ids(S)) /\ A.ul \in Seq(Ids(S)) /\ T.ul \in Seq(Ids(S))
    <3>1. Ids(A) = Ids(S) /\ Ids(T) = Ids(S)
      BY <1>3 DEF Grows, Ids
    <3> QED BY <1>1, <1>2, <3>1 DEF Shape, Uses, Defs, Queue
  <2>2. Extends(S.dl, A.dl) /\ Extends(S.ul, A.ul)
    BY DEF Grows
  <2> QED BY <1>2, <2>1, <2>2, ExtendsTrans
<1>5. Gain(S, T)
  BY <1>3 DEF Gain
<1>6. \A p : Agrees(A, p) => Agrees(T, p)
  <2>1. \A p : ElementsOf(T, p) = ElementsOf(A, p) /\ LoggedRegs(T, p) = LoggedRegs(A, p)
    BY <1>3 DEF ElementsOf, LastElement, LoggedRegs
  <2>2. \A p, m, reg : AgreesWithLog(A, p, m, reg) => AgreesWithLog(T, p, m, reg)
    BY <1>3, <2>1 DEF AgreesWithLog, use_after_def
  <2> QED BY <1>3, <2>1, <2>2 DEF Agrees
<1>7. Grows(S, T)
  BY <1>2, <1>3, <1>4, <1>5, <1>6 DEF Grows
<1> QED BY <1>3, <1>5, <1>7 DEF Tells

(* A conclusion about a node: told, or compared with what is known.        *)
LEMMA GiveTells ==
  ASSUME NEW S, Shape(S), NEW n \in Ids(S), NEW side, Fits(S.core[n], side), NEW v,
         NEW T, T = give(S, n, side, v)
  PROVE  Tells(S, T) /\ T.il = S.il
<1>1. CASE Known(S.core[n][side])
  BY <1>1, AssertTells DEF give
<1>2. CASE ~ Known(S.core[n][side])
  <2> DEFINE A == assign_value(S, n, side, v)
  <2>1. S.core[n][side] = <<>>
    BY <1>2 DEF Known
  <2>2. /\ Tells(S, A) /\ HasValue(A.core[n]) /\ A.il = S.il
        /\ NodeGain(S.core[n], A.core[n])
    BY <2>1, AssignTells
  <2>3. T = enlist(A, n)
    BY <1>2 DEF give
  <2> HIDE DEF A
  <2>4. Gain(S, A) /\ ~ IsInst(S.core[n]) /\ Grows(S, A)
    BY <2>2 DEF Gain, NodeGain, Tells
  <2> QED BY <2>2, <2>3, <2>4, EnlistGrows
<1> QED BY <1>1, <1>2

(* The main list has a length.                                             *)
LEMMA CoreLen ==
  ASSUME NEW S, Shape(S)
  PROVE  Len(S.core) \in Nat /\ \A n \in Ids(S) : n \in Nat /\ 1 <= n /\ n <= Len(S.core)
<1>1. IsList(S.core)
  BY DEF Shape, Core
<1>2. Len(S.core) \in Nat
  BY <1>1 DEF IsList
<1> QED BY <1>2 DEF Ids

(* The neighbours of a node are nodes of the kind that is looked for.      *)
LEMMA NextNode ==
  ASSUME NEW S, Shape(S), NEW n \in Ids(S), NEW place, NEW kind,
         NEW m, m = find_next(S, n, place, kind), m # 0
  PROVE  m \in Ids(S) /\ m < n /\ S.core[m].k = kind
<1>1. n \in Nat /\ n <= Len(S.core) /\ Len(S.core) \in Nat
  BY CoreLen
<1> DEFINE M == {j \in 1 .. n - 1 : Matches(S, j, place, kind)}
<1>2. m = MaxOrNull(M)
  BY DEF find_next
<1>3. M \subseteq 1 .. n - 1
  OBVIOUS
<1>4. \A i \in M : S.core[i].k = kind
  BY DEF Matches
<1> HIDE DEF M
<1>5. M \in SUBSET Nat /\ \A i \in M : i <= n
  BY <1>1, <1>3
<1>6. m \in M
  BY <1>1, <1>2, <1>5, MaxMember
<1> QED BY <1>1, <1>3, <1>4, <1>6 DEF Ids

(* The same for the neighbour that is earlier in the execution.            *)
LEMMA PrevNode ==
  ASSUME NEW S, Shape(S), NEW n \in Ids(S), NEW place, NEW kind,
         NEW m, m = find_prev(S, n, place, kind), m # 0
  PROVE  m \in Ids(S) /\ m > n /\ S.core[m].k = kind
<1>1. n \in Nat /\ n <= Len(S.core) /\ Len(S.core) \in Nat
  BY CoreLen
<1> DEFINE M == {j \in n + 1 .. Len(S.core) : Matches(S, j, place, kind)}
<1>2. m = MinOrNull(M)
  BY DEF find_prev
<1>3. M \subseteq n + 1 .. Len(S.core)
  OBVIOUS
<1>4. \A i \in M : S.core[i].k = kind
  BY DEF Matches
<1> HIDE DEF M
<1>5. M \in SUBSET Nat
  BY <1>1, <1>3
<1>6. m \in M
  BY <1>2, <1>5, MinMember
<1> QED BY <1>1, <1>3, <1>4, <1>6 DEF Ids

(* So is the node a value is carried to.                                   *)
LEMMA Receiver ==
  ASSUME NEW S, Shape(S), NEW n \in Ids(S),
         NEW way \in {"next_def", "next_use", "prev_def", "prev_use"},
         NEW j, j = receiver(S, n, way), j # 0
  PROVE  j \in Ids(S) /\ Fits(S.core[j], SideOf(way))
<1> DEFINE place == PlaceOf(S.core[n])
           nd == find_next(S, n, place, "def")
           nu == find_next(S, n, place, "use")
           pd == find_prev(S, n, place, "def")
           pu == find_prev(S, n, place, "use")
<1>1. /\ way = "next_def" => j = nd /\ SideOf(way) = "bef"
      /\ way = "next_use" => j = nu /\ SideOf(way) = "val"
      /\ way = "prev_def" => j = pd /\ SideOf(way) = "aft"
      /\ way = "prev_use" => j = pu /\ SideOf(way) = "val"
  <2> HIDE DEF place
  <2>1. receiver(S, n, way) =
          CASE way = "next_def" -> nd
            [] way = "next_use" -> IF nd # 0 /\ node1_add_before_node2(nu, nd) THEN 0 ELSE nu
            [] way = "prev_def" -> pd
            [] way = "prev_use" -> IF pd # 0 /\ node1_add_before_node2(pd, pu) THEN 0 ELSE pu
    BY DEF receiver, place
  <2> HIDE DEF nd, nu, pd, pu
  <2> QED BY <2>1 DEF SideOf
<1>2. /\ nd # 0 => nd \in Ids(S) /\ S.core[nd].k = "def"
      /\ nu # 0 => nu \in Ids(S) /\ S.core[nu].k = "use"
      /\ pd # 0 => pd \in Ids(S) /\ S.core[pd].k = "def"
      /\ pu # 0 => pu \in Ids(S) /\ S.core[pu].k = "use"
  <2> HIDE DEF place
  <2>1. /\ nd = find_next(S, n, place, "def") /\ nu = find_next(S, n, place, "use")
        /\ pd = find_prev(S, n, place, "def") /\ pu = find_prev(S, n, place, "use")
    OBVIOUS
  <2> HIDE DEF nd, nu, pd, pu
  <2>2. nd # 0 => nd \in Ids(S) /\ S.core[nd].k = "def"
    BY <2>1, NextNode
  <2>3. nu # 0 => nu \in Ids(S) /\ S.core[nu].k = "use"
    BY <2>1, NextNode
  <2>4. pd # 0 => pd \in Ids(S) /\ S.core[pd].k = "def"
    BY <2>1, PrevNode
  <2>5. pu # 0 => pu \in Ids(S) /\ S.core[pu].k = "use"
    BY <2>1, PrevNode
  <2> QED BY <2>2, <2>3, <2>4, <2>5
<1> HIDE DEF place, nd, nu, pd, pu
<1>3. CASE way = "next_def"
  BY <1>1, <1>2, <1>3 DEF Fits, IsDef
<1>4. CASE way = "prev_def"
  BY <1>1, <1>2, <1>4 DEF Fits, IsDef
<1>5. CASE way = "next_use"
  BY <1>1, <1>2, <1>5 DEF Fits, IsUse, IsDef
<1>6. CASE way = "prev_use"
  BY <1>1, <1>2, <1>6 DEF Fits, IsUse, IsDef
<1> QED BY <1>3, <1>4, <1>5, <1>6

(* A value is carried to a neighbour.                                      *)
LEMMA CarryTells ==
  ASSUME NEW S, Shape(S), NEW n \in Ids(S),
         NEW way \in {"next_def", "next_use", "prev_def", "prev_use"},
         NEW T, T = carry(S, n, way)
  PROVE  Tells(S, T) /\ T.il = S.il
<1> DEFINE j == receiver(S, n, way)
           v == IF IsUse(S.core[n]) THEN S.core[n].val
                ELSE IF way \in {"next_def", "next_use"} THEN S.core[n].aft ELSE S.core[n].bef
<1>1. T = carry_to(S, n, j, way, v)
  BY DEF carry
<1> HIDE DEF j, v
<1>2. CASE T = S
  BY <1>2, GrowsRefl
<1>3. CASE T # S
  <2>1. j # 0 /\ T = give(S, j, SideOf(way), Carried(S, n, j, v, MatchType(S, j, PlaceOf(S.core[n]))))
    BY <1>1, <1>3 DEF carry_to
  <2>2. j = receiver(S, n, way)
    BY DEF j
  <2>3. j \in Ids(S) /\ Fits(S.core[j], SideOf(way))
    BY <2>1, <2>2, Receiver
  <2> DEFINE side == SideOf(way)
             w == Carried(S, n, j, v, MatchType(S, j, PlaceOf(S.core[n])))
  <2>4. T = give(S, j, side, w) /\ Fits(S.core[j], side)
    BY <2>1, <2>3
  <2> HIDE DEF side, w
  <2> QED BY <2>3, <2>4, GiveTells
<1> QED BY <1>2, <1>3

(* The instruction of a node is visited again.                             *)
LEMMA QueueInstTells ==
  ASSUME NEW S, Shape(S), NEW n \in Ids(S), ~ IsInst(S.core[n]),
         NEW T, T = queue_inst(S, n)
  PROVE  Tells(S, T) /\ T.core = S.core /\ T.ul = S.ul /\ T.dl = S.dl
<1> DEFINE p == find_inst_of_node(S, n)
<1>1. T = S \/ T = add_to_instlist(S, p)
  BY DEF queue_inst
<1>2. p \in Ids(S) /\ IsInst(S.core[p])
  BY InstOf
<1> HIDE DEF p
<1>3. CASE T = S
  BY <1>3, GrowsRefl
<1>4. CASE T = add_to_instlist(S, p)
  <2>1. T = [S EXCEPT !.il = AtHead(S.il, p)]
    BY <1>4 DEF add_to_instlist
  <2>2. /\ T.il = AtHead(S.il, p) /\ T.dl = S.dl /\ T.ul = S.ul /\ T.core = S.core /\ T.um = S.um
        /\ Fields(T) /\ T.tr = S.tr /\ T.cur = S.cur /\ T.resolving = S.resolving
        /\ T.ph = S.ph /\ T.out = S.out
    BY <2>1 DEF Shape, Fields
  <2>3. S.il \in Seq(Ids(S)) /\ \A i, j \in DOMAIN S.il : S.il[i] = S.il[j] => i = j
    BY DEF Shape, Insts, Queue, Once
  <2>4. /\ T.il \in Seq(Ids(S)) /\ Extends(S.il, T.il)
        /\ \A i, j \in DOMAIN T.il : T.il[i] = T.il[j] => i = j
        /\ \A i \in DOMAIN T.il : T.il[i] = p \/ \E j \in DOMAIN S.il : T.il[i] = S.il[j]
    <3> DEFINE s == S.il
               t == T.il
               N == Ids(S)
    <3>1. /\ t = AtHead(s, p) /\ s \in Seq(N) /\ p \in N
          /\ \A i, j \in DOMAIN s : s[i] = s[j] => i = j
      BY <1>2, <2>2, <2>3
    <3> HIDE DEF s, t, N
    <3>2. /\ t \in Seq(N) /\ Extends(s, t)
          /\ \A i, j \in DOMAIN t : t[i] = t[j] => i = j
          /\ \A i \in DOMAIN t : t[i] = p \/ \E j \in DOMAIN s : t[i] = s[j]
      BY <3>1, AtHeadList
    <3> QED BY <3>2 DEF s, t, N
  <2>5. Ids(T) = Ids(S)
    BY <2>2 DEF Ids
  <2>6. Insts(T)
    <3>1. Queue(T, T.il)
      BY <2>4, <2>5 DEF Queue, Once, Ids
    <3>2. \A i \in 1 .. Len(S.il) : IsInst(S.core[S.il[i]])
      BY DEF Shape, Insts
    <3>3. DOMAIN T.il = 1 .. Len(T.il) /\ DOMAIN S.il = 1 .. Len(S.il)
      BY <2>3, <2>4
    <3>4. \A i \in 1 .. Len(T.il) : IsInst(S.core[T.il[i]])
      BY <1>2, <2>4, <3>2, <3>3
    <3> QED BY <2>2, <3>1, <3>4 DEF Insts
  <2>7. Core(T) /\ Uses(T) /\ Defs(T)
    BY <2>2, <2>5 DEF Shape, Core, Uses, Defs, Queue, Once
  <2>8. Shape(T)
    BY <2>2, <2>6, <2>7 DEF Shape
  <2>9. \A q : Agrees(S, q) => Agrees(T, q)
    <3>1. \A q : ElementsOf(T, q) = ElementsOf(S, q) /\ LoggedRegs(T, q) = LoggedRegs(S, q)
      BY <2>2 DEF ElementsOf, LastElement, LoggedRegs
    <3>2. \A q, m, reg : AgreesWithLog(S, q, m, reg) => AgreesWithLog(T, q, m, reg)
      BY <2>2, <3>1 DEF AgreesWithLog, use_after_def
    <3> QED BY <2>2, <3>1, <3>2 DEF Agrees
  <2>10. \A x : NodeLater(x, x)
    BY DEF NodeLater, Keeps
  <2>11. \A s : Len(s) \in Nat => Extends(s, s)
    BY DEF Extends
  <2>12. Len(S.dl) \in Nat /\ Len(S.ul) \in Nat
    BY DEF Shape, Uses, Defs, Queue
  <2>13. Grows(S, T)
    BY <2>2, <2>4, <2>8, <2>9, <2>10, <2>11, <2>12 DEF Grows
  <2> QED BY <2>2, <2>13 DEF Tells
<1> QED BY <1>1, <1>3, <1>4

(* One entry of the use or define list.                                    *)
LEMMA ResolveNodeTells ==
  ASSUME NEW S, Shape(S), NEW n \in Ids(S), ~ IsInst(S.core[n]),
         NEW T, T = resolve_node(S, n)
  PROVE  Tells(S, T)
<1> DEFINE A == queue_inst(S, n)
           B == carry(A, n, "next_def")
           C == carry(B, n, "next_use")
           D == carry(C, n, "prev_def")
<1>1. T = carry(D, n, "prev_use")
  BY DEF resolve_node, to_earlier, to_later
<1>2. \A X : Tells(S, X) => Shape(X) /\ n \in Ids(X)
  BY DEF Tells, Grows, Ids
<1>3. Tells(S, A)
  BY QueueInstTells
<1> HIDE DEF A
<1>4. Tells(S, B)
  <2>1. Tells(A, B)
    BY <1>2, <1>3, CarryTells
  <2> HIDE DEF B
  <2> QED BY <1>3, <2>1, TellsTrans
<1> HIDE DEF B
<1>5. Tells(S, C)
  <2>1. Tells(B, C)
    BY <1>2, <1>4, CarryTells
  <2> HIDE DEF C
  <2> QED BY <1>4, <2>1, TellsTrans
<1> HIDE DEF C
<1>6. Tells(S, D)
  <2>1. Tells(C, D)
    BY <1>2, <1>5, CarryTells
  <2> HIDE DEF D
  <2> QED BY <1>5, <2>1, TellsTrans
<1> HIDE DEF D
<1>7. Tells(D, T)
  BY <1>1, <1>2, <1>6, CarryTells
<1> QED BY <1>6, <1>7, TellsTrans

-----------------------------------------------------------------------------
(***************************************************************************)
(* Addresses: what a node's address is follows from its registers, so that *)
(* computing it again gives the same.                                      *)
(***************************************************************************)
(* The instructions are those of a recorded trace.                         *)
Recorded(S) ==
  /\ S.tr \in Traces
  /\ \A n \in Ids(S) : IsInst(S.core[n]) => S.core[n].i \in 1 .. Len(S.tr.prog)

Located(S, n) == node_is_exp(S.core[n]) /\ AddrFound(S, n) /\ S.core[n].addr = AddrNow(S, n)
Addressed(S) == \A n \in Ids(S) : ~ IsInst(S.core[n]) /\ S.core[n].addr # 0 => Located(S, n)

(* The uses of an address are among the nodes that follow it directly.     *)
LEMMA ElementOfExp ==
  ASSUME NEW S, Len(S.core) \in Nat, NEW n \in Ids(S), NEW ut \in {"Base", "Index"},
         NEW m, m = get_element_of_exp(S, n, ut), m # 0
  PROVE  /\ m \in Ids(S) /\ m > n /\ IsUse(S.core[m]) /\ S.core[m].ut = ut
         /\ \A j \in n + 1 .. m : IsUse(S.core[j]) /\ S.core[j].ut # "Opd"
<1> DEFINE E == {j \in n + 1 .. Len(S.core) : ~ IsUse(S.core[j]) \/ S.core[j].ut = "Opd"}
           stop == MinOrNull(E)
           last == IF stop = 0 THEN Len(S.core) ELSE stop - 1
           M == {j \in n + 1 .. last : S.core[j].ut = ut}
<1>0. n \in Nat /\ 1 <= n /\ n <= Len(S.core)
  BY DEF Ids
<1>1. m = MaxOrNull(M)
  BY DEF get_element_of_exp
<1>2. /\ E # {} => stop \in E
      /\ \A j \in E : stop <= j
      /\ E = {} => stop = 0
  <2>1. E \in SUBSET Nat
    BY <1>0
  <2> HIDE DEF E
  <2> QED BY <2>1, MinMember
<1>3. last \in Nat /\ last <= Len(S.core) /\ \A j \in n + 1 .. last : j \notin E
  <2>1. E \subseteq n + 1 .. Len(S.core)
    OBVIOUS
  <2> HIDE DEF E, stop
  <2>2. CASE E = {}
    BY <1>0, <1>2, <2>2
  <2>3. CASE E # {}
    <3>0. stop \in n + 1 .. Len(S.core)
      BY <1>2, <2>1, <2>3
    <3>1. stop \in n + 1 .. Len(S.core) /\ stop # 0
      BY <1>0, <3>0
    <3>2. last = stop - 1
      BY <3>1
    <3> HIDE DEF last
    <3> QED BY <1>0, <1>2, <3>1, <3>2
  <2> QED BY <2>2, <2>3
<1> HIDE DEF stop, last
<1>5. m \in M
  <2>1. M \subseteq n + 1 .. last
    OBVIOUS
  <2> HIDE DEF M
  <2>2. n \in Nat /\ last \in Nat
    BY <1>0, <1>3
  <2>3. \A j \in n + 1 .. last : j \in Nat /\ j <= last
    BY <2>2
  <2>4. M \in SUBSET Nat /\ \A j \in M : j <= last
    BY <2>1, <2>3, Zenon
  <2> QED BY <1>1, <1>3, <2>4, MaxMember
<1>6. m \in n + 1 .. last /\ S.core[m].ut = ut
  BY <1>5
<1>7. \A j \in n + 1 .. m : j \in n + 1 .. last /\ j \in n + 1 .. Len(S.core)
  BY <1>0, <1>3, <1>6
<1>8. \A j \in n + 1 .. m : IsUse(S.core[j]) /\ S.core[j].ut # "Opd"
  BY <1>3, <1>7
<1> HIDE DEF M, E
<1>9. m \in n + 1 .. m
  BY <1>0, <1>3, <1>6
<1> QED BY <1>0, <1>3, <1>6, <1>8, <1>9 DEF Ids

(* What is known of an address stays so.                                   *)
LEMMA AddrFoundKept ==
  ASSUME NEW S, Shape(S), NEW T, SameKinds(S, T),
         \A m \in Ids(S) : NodeLater(S.core[m], T.core[m]),
         NEW n \in Ids(S), ~ IsInst(S.core[n])
  PROVE  /\ AddrFound(S, n) => AddrFound(T, n) /\ AddrNow(T, n) = AddrNow(S, n)
         /\ node_is_exp(T.core[n]) = node_is_exp(S.core[n])
         /\ StatusOf(S, n) = "NBaseNIndex" => StatusOf(T, n) = "NBaseNIndex"
<1> DEFINE base == get_element_of_exp(S, n, "Base")
           index == get_element_of_exp(S, n, "Index")
<1>1. n \in Nat /\ Len(S.core) \in Nat
  BY CoreLen
<1>2. get_element_of_exp(T, n, "Base") = base /\ get_element_of_exp(T, n, "Index") = index
  BY <1>1, WalksSame
<1>3. base # 0 => base \in Ids(S) /\ IsUse(S.core[base])
  <2>1. base = get_element_of_exp(S, n, "Base") /\ "Base" \in {"Base", "Index"}
    OBVIOUS
  <2> HIDE DEF base
  <2> QED BY <1>1, <2>1, ElementOfExp
<1>4. index # 0 => index \in Ids(S) /\ IsUse(S.core[index])
  <2>1. index = get_element_of_exp(S, n, "Index") /\ "Index" \in {"Base", "Index"}
    OBVIOUS
  <2> HIDE DEF index
  <2> QED BY <1>1, <2>1, ElementOfExp
<1>5. \A m \in Ids(S) : IsUse(S.core[m]) /\ Known(S.core[m].val) => T.core[m].val = S.core[m].val
  BY DEF NodeLater, Keeps, IsInst, IsUse
<1>6. T.core[n].o = S.core[n].o
  BY DEF SameKinds
<1>7. StatusOf(S, n) = exp_addr_status(S, base, index) /\ StatusOf(T, n) = exp_addr_status(T, base, index)
  BY <1>2 DEF StatusOf
<1>8. AddrNow(S, n) = EffectiveAddr(S, n, base, index) /\ AddrNow(T, n) = EffectiveAddr(T, n, base, index)
  BY <1>2 DEF AddrNow
<1> HIDE DEF base, index
<1>9. ASSUME StatusOf(S, n) = "KBaseKIndex"
      PROVE  /\ base # 0 => T.core[base].val = S.core[base].val
             /\ index # 0 => T.core[index].val = S.core[index].val
             /\ StatusOf(T, n) = "KBaseKIndex"
  <2>1. (base # 0 => Known(S.core[base].val)) /\ (index # 0 => Known(S.core[index].val))
    BY <1>7, <1>9 DEF exp_addr_status
  <2>2. ~ (base = 0 /\ index = 0)
    BY <1>7, <1>9 DEF exp_addr_status
  <2>3. /\ base # 0 => T.core[base].val = S.core[base].val
        /\ index # 0 => T.core[index].val = S.core[index].val
    BY <1>3, <1>4, <1>5, <2>1
  <2> QED BY <1>7, <2>1, <2>2, <2>3 DEF exp_addr_status
<1>10. ASSUME StatusOf(S, n) = "NBaseNIndex"
       PROVE  base = 0 /\ index = 0 /\ StatusOf(T, n) = "NBaseNIndex"
  BY <1>7, <1>10 DEF exp_addr_status
<1>11. node_is_exp(T.core[n]) = node_is_exp(S.core[n])
  <2>1. IsUse(S.core[n]) \/ IsDef(S.core[n])
    <3>1. NodeShape(S.core[n])
      BY DEF Shape, Core
    <3> QED BY <3>1 DEF NodeShape, InstShape, DefShape, UseShape, IsInst, IsDef, IsUse
  <2>2. T.core[n].k = S.core[n].k /\ (IsUse(S.core[n]) => T.core[n].ut = S.core[n].ut)
    BY DEF SameKinds
  <2> QED BY <1>6, <2>1, <2>2 DEF node_is_exp, IsInst, IsDef, IsUse
<1>12. ASSUME AddrFound(S, n) PROVE AddrNow(T, n) = AddrNow(S, n)
  <2>1. RegPart(T, base) = RegPart(S, base) /\ RegPart(T, index) = RegPart(S, index)
    BY <1>9, <1>10, <1>12 DEF RegPart, AddrFound
  <2> QED BY <1>6, <1>8, <2>1 DEF EffectiveAddr
<1>13. AddrFound(S, n) => AddrFound(T, n)
  BY <1>6, <1>9, <1>10 DEF AddrFound
<1> QED BY <1>10, <1>11, <1>12, <1>13

(* Addresses stay right while values are told.                             *)
LEMMA AddressedTells ==
  ASSUME NEW S, Shape(S), NEW T, Tells(S, T), Addressed(S)
  PROVE  Addressed(T)
<1>1. Ids(T) = Ids(S) /\ SameKinds(S, T) /\ \A m \in Ids(S) : NodeLater(S.core[m], T.core[m])
  BY GrowsKinds DEF Tells, Grows, Ids
<1>2. ASSUME NEW n \in Ids(S), ~ IsInst(T.core[n]), T.core[n].addr # 0 PROVE Located(T, n)
  <2>1. ~ IsInst(S.core[n])
    BY <1>1, <1>2 DEF SameKinds, IsInst
  <2>2. T.core[n].addr = S.core[n].addr
    BY <2>1 DEF Tells
  <2>3. Located(S, n)
    BY <1>2, <2>1, <2>2 DEF Addressed
  <2> QED BY <1>1, <2>1, <2>2, <2>3, AddrFoundKept DEF Located
<1> QED BY <1>1, <1>2 DEF Addressed

(* The instructions stay those of the trace.                               *)
LEMMA RecordedKept ==
  ASSUME NEW S, NEW T, Recorded(S), SameKinds(S, T), T.tr = S.tr
  PROVE  Recorded(T)
BY DEF Recorded, SameKinds, Ids, IsInst

(* An entry leaves umemlist: the others keep their order.                  *)
LEMMA RemoveFirstList ==
  ASSUME NEW s \in Seq(Nat), NEW n
  PROVE  LET t == RemoveFirst(s, n)
         IN  /\ t \in Seq(Nat)
             /\ t # s => \E i \in 1 .. Len(s) :
                           /\ s[i] = n /\ \A j \in 1 .. i - 1 : s[j] # n
                           /\ Len(t) = Len(s) - 1
                           /\ \A j \in 1 .. Len(t) : t[j] = IF j < i THEN s[j] ELSE s[j + 1]
             /\ t = s => \A i \in 1 .. Len(s) : s[i] # n
<1> DEFINE t == RemoveFirst(s, n)
           I == {i \in 1 .. Len(s) : s[i] = n}
<1>1. CASE I = {}
  <2>1. ~ \E i \in 1 .. Len(s) : s[i] = n
    BY <1>1
  <2>2. t = s
    BY <2>1 DEF RemoveFirst
  <2> HIDE DEF t
  <2>3. t \in Seq(Nat) /\ \A i \in 1 .. Len(s) : s[i] # n
    BY <2>1, <2>2
  <2> QED BY <2>2, <2>3 DEF t
<1>2. CASE I # {}
  <2> DEFINE i == MinOrNull(I)
  <2>1. i \in I /\ \A j \in I : i <= j
    <3>1. I \in SUBSET Nat
      OBVIOUS
    <3> HIDE DEF I
    <3> QED BY <1>2, <3>1, MinMember
  <2>2. t = RemoveAt(s, i)
    <3>1. \E j \in 1 .. Len(s) : s[j] = n
      BY <1>2
    <3>2. SelectInSeq(s, LAMBDA v : v = n) = i
      BY <1>2 DEF SelectInSeq, MinOrNull
    <3> QED BY <3>1, <3>2 DEF RemoveFirst
  <2>3. i \in 1 .. Len(s) /\ s[i] = n /\ \A j \in 1 .. i - 1 : s[j] # n
    <3>1. i \in 1 .. Len(s) /\ s[i] = n
      BY <2>1
    <3>2. ASSUME NEW j \in 1 .. i - 1, s[j] = n PROVE FALSE
      <4>1. j \in I
        BY <3>1, <3>2
      <4> HIDE DEF I, i
      <4> QED BY <2>1, <3>1, <4>1
    <3> QED BY <3>1, <3>2
  <2> HIDE DEF i, I
  <2>4. t = SubSeq(s, 1, i - 1) \o SubSeq(s, i + 1, Len(s))
    BY <2>2 DEF RemoveAt
  <2> HIDE DEF t
  <2> DEFINE a == SubSeq(s, 1, i - 1)
             b == SubSeq(s, i + 1, Len(s))
  <2>a. a \in Seq(Nat) /\ Len(a) = i - 1 /\ \A j \in 1 .. i - 1 : a[j] = s[j]
    BY <2>3
  <2>b. b \in Seq(Nat) /\ Len(b) = Len(s) - i /\ \A j \in 1 .. Len(s) - i : b[j] = s[i + j]
    <3>1. i + 1 \in Int /\ Len(s) \in Int /\ i + 1 >= 1 /\ i <= Len(s)
      BY <2>3
    <3>2. \A j \in i + 1 .. Len(s) : s[j] \in Nat
      BY <2>3
    <3>3. /\ b \in Seq(Nat) /\ Len(b) = IF i + 1 <= Len(s) THEN Len(s) - (i + 1) + 1 ELSE 0
          /\ \A j \in 1 .. Len(s) - (i + 1) + 1 : b[j] = s[i + 1 + j - 1]
      BY <3>1, <3>2, SubSeqProperties
    <3> HIDE DEF b
    <3>4. Len(b) = Len(s) - i
      BY <2>3, <3>1, <3>3
    <3>5. \A j \in 1 .. Len(s) - i : i + 1 + j - 1 = i + j /\ j \in 1 .. Len(s) - (i + 1) + 1
      BY <2>3, <3>1
    <3> QED BY <3>3, <3>4, <3>5
  <2>c. t = a \o b
    BY <2>4
  <2> HIDE DEF a, b
  <2>5. t \in Seq(Nat) /\ Len(t) = Len(s) - 1
    <3>1. t \in Seq(Nat)
      BY <2>a, <2>b, <2>c
    <3>2. Len(t) = Len(a) + Len(b)
      BY <2>a, <2>b, <2>c
    <3> QED BY <2>3, <2>a, <2>b, <3>1, <3>2
  <2>6. \A j \in 1 .. Len(t) : t[j] = IF j < i THEN s[j] ELSE s[j + 1]
    <3> SUFFICES ASSUME NEW j \in 1 .. Len(t) PROVE t[j] = IF j < i THEN s[j] ELSE s[j + 1]
      OBVIOUS
    <3>1. j \in 1 .. Len(a) + Len(b)
      BY <2>3, <2>5, <2>a, <2>b
    <3>2. t[j] = IF j <= Len(a) THEN a[j] ELSE b[j - Len(a)]
      BY <2>a, <2>b, <2>c, <3>1, ConcatProperties
    <3>3. CASE j < i
      BY <2>3, <2>a, <3>1, <3>2, <3>3
    <3>4. CASE ~ j < i
      <4>1. t[j] = b[j - (i - 1)] /\ j - (i - 1) \in 1 .. Len(s) - i
        BY <2>3, <2>a, <2>b, <3>1, <3>2, <3>4
      <4>2. i + (j - (i - 1)) = j + 1
        BY <2>3
      <4> QED BY <2>b, <3>4, <4>1, <4>2
    <3> QED BY <3>3, <3>4
  <2>7. t # s
    BY <2>5
  <2> QED BY <2>3, <2>5, <2>6, <2>7 DEF t
<1> QED BY <1>1, <1>2

(* The address of an operand is computed and its node leaves umemlist.     *)
LEMMA SolveGrows ==
  ASSUME NEW S, Shape(S), Addressed(S), Recorded(S), NEW n \in Ids(S), node_is_exp(S.core[n]),
         AddrFound(S, n), NEW T,
         T = remove_from_umemlist(
               set_address(S, n, get_element_of_exp(S, n, "Base"), get_element_of_exp(S, n, "Index")), n)
  PROVE  /\ Grows(S, T) /\ Addressed(T) /\ T.il = S.il /\ T.ul = S.ul /\ T.dl = S.dl
         /\ T.um = RemoveFirst(S.um, n) /\ T.core[n].addr = AddrNow(S, n)
         /\ \A m \in Ids(S) : m # n => T.core[m] = S.core[m]
<1> DEFINE x == S.core[n]
           y == [S.core[n] EXCEPT !.addr = AddrNow(S, n)]
           c == [S.core EXCEPT ![n] = y]
<1>1. IsList(c) /\ Len(c) = Len(S.core) /\ c[n] = y
      /\ \A m \in Ids(S) : m # n => c[m] = S.core[m]
  <2>1. IsList(S.core) /\ n \in 1 .. Len(S.core)
    BY DEF Shape, Core, Ids
  <2> HIDE DEF y
  <2> QED BY <2>1, ListExcept DEF Ids
<1>2. T = [S EXCEPT !.core = c, !.um = RemoveFirst(S.um, n)]
  <2>1. set_address(S, n, get_element_of_exp(S, n, "Base"), get_element_of_exp(S, n, "Index"))
          = [S EXCEPT !.core = c]
    BY DEF set_address, AddrNow
  <2>2. T = [[S EXCEPT !.core = c] EXCEPT !.um = RemoveFirst([S EXCEPT !.core = c].um, n)]
    BY <2>1 DEF remove_from_umemlist
  <2> HIDE DEF c
  <2> QED BY <2>2 DEF Shape, Fields
<1>3. ~ IsInst(x) /\ NodeShape(x)
  BY DEF node_is_exp, Shape, Core
<1>4. x.addr # 0 => x.addr = AddrNow(S, n)
  BY <1>3 DEF Addressed, Located
<1>5. /\ NodeShape(y) /\ y.k = x.k /\ y.o = x.o /\ (IsUse(x) => y.ut = x.ut /\ y.val = x.val)
      /\ IsDef(x) => y.bef = x.bef /\ y.aft = x.aft
      /\ y.addr = AddrNow(S, n)
  <2> HIDE DEF x
  <2>1. y = [x EXCEPT !.addr = AddrNow(S, n)]
    BY DEF x
  <2> HIDE DEF y
  <2>2. CASE IsUse(x)
    BY <1>3, <2>1, <2>2 DEF IsUse, IsDef, IsInst, NodeShape, InstShape, DefShape, UseShape
  <2>3. CASE IsDef(x)
    BY <1>3, <2>1, <2>3 DEF IsUse, IsDef, IsInst, NodeShape, InstShape, DefShape, UseShape
  <2>4. IsUse(x) \/ IsDef(x)
    BY <1>3 DEF IsUse, IsDef, IsInst, NodeShape, InstShape, DefShape, UseShape
  <2> QED BY <2>2, <2>3, <2>4
<1> HIDE DEF x, y
<1>6. NodeLater(x, y) /\ (HasValue(x) => HasValue(y)) /\ PlaceOf(y).t = PlaceOf(x).t
  <2>1. IsUse(x) \/ IsDef(x)
    BY <1>3 DEF IsUse, IsDef, IsInst, NodeShape, InstShape, DefShape, UseShape
  <2>2. NodeLater(x, y)
    BY <1>3, <1>4, <1>5 DEF NodeLater, Keeps, IsUse, IsDef, IsInst
  <2>3. HasValue(x) => HasValue(y)
    BY <1>5, <2>1 DEF HasValue, IsUse, IsDef, IsInst
  <2>4. node_is_exp(x) /\ node_is_exp(y)
    BY <1>5, <2>1 DEF node_is_exp, IsUse, IsDef, IsInst, x
  <2> QED BY <2>2, <2>3, <2>4 DEF PlaceOf
<1> HIDE DEF c
<1>7. /\ T.core = c /\ T.um = RemoveFirst(S.um, n) /\ T.dl = S.dl /\ T.ul = S.ul /\ T.il = S.il
      /\ T.tr = S.tr /\ T.cur = S.cur /\ T.resolving = S.resolving /\ T.ph = S.ph /\ T.out = S.out
      /\ T.rec = S.rec
  BY <1>2 DEF Shape, Fields
<1>8. Ids(T) = Ids(S)
  BY <1>1, <1>7 DEF Ids
<1>9. SameKinds(S, T)
  BY <1>1, <1>3, <1>5, <1>7 DEF SameKinds, x, Ids
<1>10. \A m \in Ids(S) : NodeLater(S.core[m], T.core[m])
  <2>1. \A z : NodeLater(z, z)
    BY DEF NodeLater, Keeps
  <2> QED BY <1>1, <1>6, <1>7, <2>1 DEF x
<1>11. Shape(T)
  <2>1. Fields(T)
    <3>1. S.um \in Seq(Nat)
      BY DEF Shape, Fields
    <3>2. T.um \in Seq(Nat)
      BY <1>7, <3>1, RemoveFirstList
    <3> QED BY <1>2, <1>7, <3>2 DEF Shape, Fields
  <2>2. Core(T)
    <3>1. \A m \in Ids(S) : NodeShape(T.core[m])
      BY <1>1, <1>5, <1>7 DEF Shape, Core
    <3>2. T.core # <<>> => 1 \in Ids(S) /\ S.core # <<>>
      BY <1>1, <1>7 DEF Ids, IsList
    <3>3. T.core # <<>> => IsInst(T.core[1])
      BY <1>9, <3>2 DEF SameKinds, Shape, Core, IsInst
    <3> QED BY <1>1, <1>7, <1>8, <3>1, <3>3 DEF Core
  <2>3. \A m \in Ids(S) : /\ IsUse(S.core[m]) => IsUse(T.core[m])
                          /\ IsDef(S.core[m]) => IsDef(T.core[m])
                          /\ IsInst(S.core[m]) => IsInst(T.core[m])
    BY <1>9 DEF SameKinds, IsUse, IsDef, IsInst
  <2>4. \A m \in Ids(S) : HasValue(S.core[m]) => HasValue(T.core[m])
    BY <1>1, <1>6, <1>7 DEF x
  <2>5. Uses(S) /\ Defs(S) /\ Insts(S)
    BY DEF Shape
  <2>6. /\ \A i \in 1 .. Len(S.ul) : S.ul[i] \in Ids(S)
        /\ \A i \in 1 .. Len(S.dl) : S.dl[i] \in Ids(S)
        /\ \A i \in 1 .. Len(S.il) : S.il[i] \in Ids(S)
    BY <2>5 DEF Uses, Defs, Insts, Queue
  <2>7. Uses(T)
    BY <1>1, <1>7, <1>8, <2>3, <2>4, <2>5, <2>6 DEF Uses, Queue, Once
  <2>8. Defs(T)
    BY <1>1, <1>7, <1>8, <2>3, <2>4, <2>5, <2>6 DEF Defs, Queue, Once
  <2>9. Insts(T)
    BY <1>1, <1>7, <1>8, <2>3, <2>4, <2>5, <2>6 DEF Insts, Queue, Once
  <2> QED BY <2>1, <2>2, <2>7, <2>8, <2>9 DEF Shape
<1>12. ASSUME NEW p \in Ids(S), IsInst(S.core[p]), Agrees(S, p) PROVE Agrees(T, p)
  <2>1. p \in Nat /\ p \in 0 .. Len(S.core) /\ Len(S.core) \in Nat
    BY CoreLen
  <2>2. ElementsOf(T, p) = ElementsOf(S, p)
    BY <1>9, <2>1, WalksSame
  <2>3. \A m \in ElementsOf(S, p) : m \in Ids(S)
    BY <2>1, ElementsRange
  <2>4. LoggedRegs(T, p) = LoggedRegs(S, p)
    BY <1>7, <1>9, <1>12 DEF LoggedRegs, SameKinds
  <2>5. \A r \in DOMAIN LoggedRegs(S, p) : r.t = "reg"
    BY <1>12, TracesAssumption DEF LoggedRegs, Recorded
  <2>6. ASSUME NEW m \in Ids(S), PlaceOf(S.core[m]).t = "reg" \/ PlaceOf(T.core[m]).t = "reg"
        PROVE T.core[m] = S.core[m]
    <3>1. PlaceOf(x).t = "mem"
      BY DEF PlaceOf, x
    <3>2. m # n
      BY <1>1, <1>6, <1>7, <2>6, <3>1 DEF x
    <3> QED BY <1>1, <1>7, <3>2
  <2>7. ASSUME NEW m \in ElementsOf(S, p) PROVE AgreesWithLog(T, p, m, PlaceOf(T.core[m]))
    <3> DEFINE reg == PlaceOf(T.core[m])
    <3> SUFFICES ASSUME reg \in DOMAIN LoggedRegs(T, p)
                 PROVE  \/ use_after_def(T, m, reg, p)
                        \/ AsLogged(T.core[m], ValueBefore(T.core[m]), LoggedRegs(T, p)[reg])
      BY DEF AgreesWithLog
    <3>1. reg.t = "reg"
      BY <2>4, <2>5
    <3>2. T.core[m] = S.core[m]
      BY <2>3, <2>6, <3>1
    <3>3. AgreesWithLog(S, p, m, reg)
      BY <1>12, <3>2 DEF Agrees
    <3>4. use_after_def(S, m, reg, p) => use_after_def(T, m, reg, p)
      <4> SUFFICES ASSUME use_after_def(S, m, reg, p) PROVE use_after_def(T, m, reg, p)
        OBVIOUS
      <4> HIDE DEF reg
      <4>1. PICK d \in ElementsOf(S, p) : IsDef(S.core[d]) /\ PlaceOf(S.core[d]) = reg /\ m < d
        BY DEF use_after_def
      <4>2. T.core[d] = S.core[d]
        BY <2>3, <2>6, <3>1, <4>1
      <4> QED BY <2>2, <4>1, <4>2 DEF use_after_def
    <3> HIDE DEF reg
    <3> QED BY <2>4, <3>2, <3>3, <3>4 DEF AgreesWithLog
  <2> QED BY <2>2, <2>7 DEF Agrees
<1>13. Grows(S, T)
  <2>1. \A s : Len(s) \in Nat => Extends(s, s)
    BY DEF Extends
  <2>2. Len(S.dl) \in Nat /\ Len(S.ul) \in Nat /\ Len(S.il) \in Nat
    BY DEF Shape, Uses, Defs, Insts, Queue
  <2> QED BY <1>1, <1>7, <1>10, <1>11, <1>12, <2>1, <2>2 DEF Grows
<1>14. Addressed(T)
  <2>1. \A m \in Ids(S) : ~ IsInst(S.core[m]) =>
          /\ AddrFound(S, m) => AddrFound(T, m) /\ AddrNow(T, m) = AddrNow(S, m)
          /\ node_is_exp(T.core[m]) = node_is_exp(S.core[m])
    BY <1>9, <1>10, AddrFoundKept
  <2>2. ASSUME NEW m \in Ids(S), ~ IsInst(T.core[m]), T.core[m].addr # 0 PROVE Located(T, m)
    <3>1. ~ IsInst(S.core[m])
      BY <1>9, <2>2 DEF SameKinds, IsInst
    <3>2. CASE m = n
      BY <1>1, <1>3, <1>5, <1>7, <2>1, <3>1, <3>2 DEF Located
    <3>3. CASE m # n
      <4>1. T.core[m] = S.core[m] /\ Located(S, m)
        BY <1>1, <1>7, <2>2, <3>1, <3>3 DEF Addressed
      <4> QED BY <2>1, <3>1, <4>1 DEF Located
    <3> QED BY <3>2, <3>3
  <2> QED BY <1>8, <2>2 DEF Addressed
<1> QED BY <1>1, <1>5, <1>7, <1>13, <1>14

(* Nodes are instructions, defines and uses.                               *)
LEMMA DefOrUse ==
  ASSUME NEW S, Shape(S), NEW n \in Ids(S), ~ IsInst(S.core[n])
  PROVE  IsDef(S.core[n]) \/ IsUse(S.core[n])
<1>1. NodeShape(S.core[n])
  BY DEF Shape, Core
<1> QED BY <1>1 DEF NodeShape, InstShape, DefShape, UseShape, IsInst, IsDef, IsUse

(* The bytes of a memory operand are taken over, or compared.              *)
LEMMA FillTells ==
  ASSUME NEW S, Shape(S), NEW n \in Ids(S), NEW side, Fits(S.core[n], side), NEW bytes,
         NEW T, T = fill(S, n, side, bytes)
  PROVE  Tells(S, T) /\ T.il = S.il /\ T.ul = S.ul /\ T.dl = S.dl
<1>1. S.rec = 0 /\ "wild" \in {"abort", "wild"}
  BY DEF Shape, Fields
<1>2. CASE T = S
  BY <1>2, GrowsRefl
<1>3. CASE T = assert_address(S)
  <2>1. T = fail(S, "wild")
    BY <1>1, <1>3 DEF assert_address
  <2> QED BY <1>1, <2>1, FailTells
<1>4. CASE T = assign_or_assert(S, n, side, bytes)
  <2>1. CASE Known(S.core[n][side])
    BY <1>4, <2>1, AssertTells DEF assign_or_assert
  <2>2. CASE ~ Known(S.core[n][side])
    <3>1. T = assign_value(S, n, side, bytes) /\ S.core[n][side] = <<>>
      BY <1>4, <2>2 DEF assign_or_assert, Known
    <3> QED BY <3>1, AssignTells
  <2> QED BY <2>1, <2>2
<1>5. T = S \/ T = assert_address(S) \/ T = assign_or_assert(S, n, side, bytes)
  BY DEF fill
<1> QED BY <1>2, <1>3, <1>4, <1>5

(* So are the bytes collected for one side of it.                          *)
LEMMA AssignMemTells ==
  ASSUME NEW S, Shape(S), NEW n \in Ids(S), NEW side, Fits(S.core[n], side),
         NEW T, T = assign_mem_val(S, n, side)
  PROVE  Tells(S, T) /\ T.il = S.il /\ T.ul = S.ul /\ T.dl = S.dl
<1> DEFINE bytes == collect_bytes(S, n, side)
<1>1. T = fill(S, n, side, bytes)
  BY DEF assign_mem_val
<1> HIDE DEF bytes
<1> QED BY <1>1, FillTells

(* Its address is set, and the values found there follow.                  *)
LEMMA AddressSolvedGrows ==
  ASSUME NEW S, Shape(S), Addressed(S), Recorded(S), NEW n \in Ids(S), node_is_exp(S.core[n]),
         AddrFound(S, n), NEW T,
         T = address_solved(S, n, get_element_of_exp(S, n, "Base"), get_element_of_exp(S, n, "Index"))
  PROVE  /\ Grows(S, T) /\ Addressed(T) /\ T.il = S.il /\ T.ul = S.ul /\ T.dl = S.dl
         /\ T.um = RemoveFirst(S.um, n) /\ T.core[n].addr = AddrNow(S, n)
         /\ \A m \in Ids(S) : m # n /\ ~ IsInst(S.core[m]) => T.core[m].addr = S.core[m].addr
<1> DEFINE A == remove_from_umemlist(
                  set_address(S, n, get_element_of_exp(S, n, "Base"),
                                    get_element_of_exp(S, n, "Index")), n)
           B == fill_first(A, n)
<1>1. T = fill_after(B, n)
  BY DEF address_solved
<1>2. /\ Grows(S, A) /\ Addressed(A) /\ A.il = S.il /\ A.ul = S.ul /\ A.dl = S.dl
      /\ A.um = RemoveFirst(S.um, n) /\ A.core[n].addr = AddrNow(S, n)
      /\ \A m \in Ids(S) : m # n => A.core[m] = S.core[m]
  <2> HIDE DEF A
  <2> QED BY SolveGrows DEF A
<1> HIDE DEF A
<1>3. Shape(A) /\ n \in Ids(A) /\ ~ IsInst(A.core[n]) /\ Ids(A) = Ids(S)
  <2>1. ~ IsInst(S.core[n])
    BY DEF node_is_exp
  <2> QED BY <1>2, <2>1 DEF Grows, Ids, NodeLater, IsInst
<1>4. \A X : Shape(X) /\ n \in Ids(X) /\ ~ IsInst(X.core[n]) => IsDef(X.core[n]) \/ IsUse(X.core[n])
  BY DefOrUse
<1>5. Tells(A, B) /\ B.il = A.il /\ B.ul = A.ul /\ B.dl = A.dl
  <2> DEFINE side == IF IsDef(A.core[n]) THEN "bef" ELSE "val"
  <2>1. B = assign_mem_val(A, n, side)
    BY DEF fill_first
  <2>2. Fits(A.core[n], side)
    BY <1>3, <1>4 DEF Fits
  <2> HIDE DEF B, side
  <2> QED BY <1>3, <2>1, <2>2, AssignMemTells
<1> HIDE DEF B
<1>6. Shape(B) /\ n \in Ids(B) /\ ~ IsInst(B.core[n]) /\ Ids(B) = Ids(S)
  BY <1>3, <1>5 DEF Tells, Grows, Ids, NodeLater, IsInst
<1>7. Tells(B, T) /\ T.il = B.il /\ T.ul = B.ul /\ T.dl = B.dl
  <2>1. CASE IsDef(B.core[n])
    <3>1. T = assign_mem_val(B, n, "aft") /\ Fits(B.core[n], "aft")
      BY <1>1, <2>1 DEF fill_after, Fits
    <3> QED BY <1>6, <3>1, AssignMemTells
  <2>2. CASE ~ IsDef(B.core[n])
    <3>1. T = B
      BY <1>1, <2>2 DEF fill_after
    <3> QED BY <1>6, <3>1, GrowsRefl
  <2> QED BY <2>1, <2>2
<1>8. Tells(A, T)
  BY <1>3, <1>5, <1>7, TellsTrans
<1>9. Grows(S, T)
  BY <1>2, <1>8, GrowsTrans DEF Tells
<1>10. Addressed(T)
  BY <1>2, <1>3, <1>8, AddressedTells
<1>11. T.um = A.um /\ \A m \in Ids(S) : ~ IsInst(A.core[m]) => T.core[m].addr = A.core[m].addr
  BY <1>3, <1>8 DEF Tells
<1> QED BY <1>2, <1>3, <1>5, <1>7, <1>9, <1>10, <1>11

(* An unknown write joins umemlist.                                        *)
LEMMA AddUmemGrows ==
  ASSUME NEW S, Shape(S), Addressed(S), NEW n \in Ids(S), NEW T, T = add_to_umemlist(S, n)
  PROVE  /\ Grows(S, T) /\ Addressed(T) /\ T.il = S.il /\ T.ul = S.ul /\ T.dl = S.dl
         /\ T.um = AtHead(S.um, n) /\ T.core = S.core
<1>1. T = [S EXCEPT !.um = AtHead(S.um, n)]
  BY DEF add_to_umemlist
<1>2. /\ T.core = S.core /\ T.um = AtHead(S.um, n) /\ T.dl = S.dl /\ T.ul = S.ul /\ T.il = S.il
      /\ T.tr = S.tr /\ T.cur = S.cur /\ T.resolving = S.resolving /\ T.ph = S.ph /\ T.out = S.out
      /\ T.rec = S.rec
  BY <1>1 DEF Shape, Fields
<1>3. Shape(T)
  <2>1. S.um \in Seq(Nat) /\ n \in Nat
    BY CoreLen DEF Shape, Fields
  <2>2. T.um \in Seq(Nat)
    <3>1. CASE Contains(S.um, n)
      BY <1>2, <2>1, <3>1 DEF AtHead
    <3>2. CASE ~ Contains(S.um, n)
      <4>1. T.um = <<n>> \o S.um
        BY <1>2, <3>2 DEF AtHead, Cons
      <4> QED BY <2>1, <4>1
    <3> QED BY <3>1, <3>2
  <2>3. Fields(T)
    BY <1>1, <1>2, <2>2 DEF Shape, Fields
  <2> QED BY <1>2, <2>3, ShapeKept
<1>4. \A p : Agrees(S, p) => Agrees(T, p)
  <2>1. \A p : ElementsOf(T, p) = ElementsOf(S, p) /\ LoggedRegs(T, p) = LoggedRegs(S, p)
    BY <1>2 DEF ElementsOf, LastElement, LoggedRegs
  <2>2. \A p, m, reg : AgreesWithLog(S, p, m, reg) => AgreesWithLog(T, p, m, reg)
    BY <1>2, <2>1 DEF AgreesWithLog, use_after_def
  <2> QED BY <1>2, <2>1, <2>2 DEF Agrees
<1>5. Grows(S, T)
  <2>1. \A s : Len(s) \in Nat => Extends(s, s)
    BY DEF Extends
  <2>2. Len(S.dl) \in Nat /\ Len(S.ul) \in Nat /\ Len(S.il) \in Nat
    BY DEF Shape, Uses, Defs, Insts, Queue
  <2>3. \A z : NodeLater(z, z)
    BY DEF NodeLater, Keeps
  <2> QED BY <1>2, <1>3, <1>4, <2>1, <2>2, <2>3 DEF Grows
<1>6. Addressed(T)
  <2>1. SameKinds(S, T)
    BY <1>5, GrowsKinds
  <2>2. \A m \in Ids(S) : ~ IsInst(S.core[m]) =>
          /\ AddrFound(S, m) => AddrFound(T, m) /\ AddrNow(T, m) = AddrNow(S, m)
    BY <1>5, <2>1, AddrFoundKept DEF Grows
  <2> QED BY <1>2, <2>2 DEF Addressed, Located, Ids
<1> QED BY <1>2, <1>5, <1>6

(* An operand: its address is computed, or as a write of unknown address   *)
(* it joins umemlist, or it waits for its registers.                       *)
ListedFor(S, T, n) ==
  \/ /\ AddrFound(S, n)
     /\ T.um = RemoveFirst(S.um, n)
     /\ T.core[n].addr = AddrNow(S, n)
     /\ \A m \in Ids(S) : m # n /\ ~ IsInst(S.core[m]) => T.core[m].addr = S.core[m].addr
  \/ /\ ~ AddrFound(S, n)
     /\ T.core = S.core
     /\ IsDef(S.core[n]) => T.um = AtHead(S.um, n)
     /\ IsUse(S.core[n]) => \/ T.um = S.um
                            \/ StatusOf(S, n) = "NBaseNIndex" /\ T.um = AtHead(S.um, n)

(* res_expression: one of the two happens.                                 *)
LEMMA ResExpressionGrows ==
  ASSUME NEW S, Shape(S), Addressed(S), Recorded(S), NEW n \in Ids(S), node_is_exp(S.core[n]),
         NEW T, T = res_expression(S, n)
  PROVE  /\ Grows(S, T) /\ Addressed(T) /\ T.il = S.il /\ T.ul = S.ul /\ T.dl = S.dl
         /\ ListedFor(S, T, n)
<1> DEFINE base == get_element_of_exp(S, n, "Base")
           index == get_element_of_exp(S, n, "Index")
           status == exp_addr_status(S, base, index)
<1>1. T = res_with(S, n, base, index, status)
  BY DEF res_expression
<1>2. status = StatusOf(S, n)
  BY DEF StatusOf
<1>3. CASE AddrFound(S, n)
  <2>1. T = address_solved(S, n, base, index)
    BY <1>1, <1>2, <1>3 DEF res_with, AddrFound
  <2>2. /\ Grows(S, T) /\ Addressed(T) /\ T.il = S.il /\ T.ul = S.ul /\ T.dl = S.dl
        /\ T.um = RemoveFirst(S.um, n) /\ T.core[n].addr = AddrNow(S, n)
        /\ \A m \in Ids(S) : m # n /\ ~ IsInst(S.core[m]) => T.core[m].addr = S.core[m].addr
    BY <1>3, <2>1, AddressSolvedGrows
  <2> HIDE DEF base, index, status
  <2> QED BY <1>3, <2>2 DEF ListedFor
<1>4. CASE ~ AddrFound(S, n)
  <2> HIDE DEF base, index, status
  <2>0. ~ IsInst(S.core[n])
    BY DEF node_is_exp
  <2>1. S.core[n].addr = 0
    BY <1>4, <2>0 DEF Addressed, Located
  <2>2. unsolved_write(S, n, base, index, status) = add_to_umemlist(S, n)
    BY <2>1 DEF unsolved_write
  <2>3. IsDef(S.core[n]) \/ IsUse(S.core[n])
    BY <2>0, DefOrUse
  <2>4. CASE IsUse(S.core[n]) /\ status # "NBaseNIndex"
    <3>1. T = S
      BY <1>1, <1>2, <1>4, <2>4 DEF res_with, AddrFound
    <3>2. ~ IsDef(S.core[n])
      BY <2>4 DEF IsUse, IsDef
    <3>3. Grows(S, T)
      BY <3>1, GrowsRefl
    <3> QED BY <1>4, <2>4, <3>1, <3>2, <3>3 DEF ListedFor
  <2>5. CASE ~ (IsUse(S.core[n]) /\ status # "NBaseNIndex")
    <3>1. T = add_to_umemlist(S, n)
      BY <1>1, <1>2, <1>4, <2>2, <2>5 DEF res_with, AddrFound
    <3>2. /\ Grows(S, T) /\ Addressed(T) /\ T.il = S.il /\ T.ul = S.ul /\ T.dl = S.dl
          /\ T.um = AtHead(S.um, n) /\ T.core = S.core
      BY <3>1, AddUmemGrows
    <3> QED BY <1>2, <1>4, <2>5, <3>2 DEF ListedFor
  <2> QED BY <2>4, <2>5
<1> QED BY <1>3, <1>4

(* One operand of the instruction that is worked on.  ListedFor says what  *)
(* it did to the addresses and to umemlist.                                *)
LEMMA TraverseGrows ==
  ASSUME NEW S, Shape(S), Addressed(S), Recorded(S), NEW n \in Ids(S), ~ IsInst(S.core[n]),
         NEW T, T = traverse_operand(S, n)
  PROVE  /\ Grows(S, T) /\ Addressed(T) /\ T.il = S.il
         /\ \/ node_is_exp(S.core[n]) /\ ListedFor(S, T, n)
            \/ T = S /\ (node_is_exp(S.core[n]) => S.core[n].addr # 0)
<1>1. CASE ~ node_is_exp(S.core[n]) \/ (Taken(S.core[n]) /\ S.core[n].addr # 0)
  <2>1. T = S
    BY <1>1 DEF traverse_operand
  <2> QED BY <1>1, <2>1, GrowsRefl
<1>2. CASE ~ (~ node_is_exp(S.core[n]) \/ (Taken(S.core[n]) /\ S.core[n].addr # 0))
  <2> DEFINE A == res_expression(S, n)
  <2>1. T = enlist_gained(A, n, S.core[n])
    BY <1>2 DEF traverse_operand
  <2>2. /\ Grows(S, A) /\ Addressed(A) /\ A.il = S.il /\ A.ul = S.ul /\ A.dl = S.dl
        /\ ListedFor(S, A, n)
    BY <1>2, ResExpressionGrows
  <2> HIDE DEF A
  <2>3. CASE T = A
    BY <1>2, <2>2, <2>3
  <2>4. CASE T # A
    <3>1. /\ T = enlist(A, n)
          /\ A.core[n].addr # 0 /\ Taken(A.core[n])
          /\ S.core[n].addr = 0 \/ ~ Taken(S.core[n])
      BY <2>1, <2>4 DEF enlist_gained
    <3>2. IsDef(S.core[n]) \/ IsUse(S.core[n])
      BY DefOrUse
    <3>3. /\ IsDef(S.core[n]) <=> IsDef(A.core[n])
          /\ IsUse(S.core[n]) <=> IsUse(A.core[n])
      BY <2>2 DEF Grows, NodeLater, IsDef, IsUse
    <3>4. NodeGain(S.core[n], A.core[n])
      BY <3>1, <3>2, <3>3 DEF NodeGain, Taken, IsDef, IsUse, IsInst
    <3>5. HasValue(A.core[n])
      BY <3>1, <3>2, <3>3 DEF HasValue, Taken, IsDef, IsUse
    <3>6. Gain(S, A)
      BY <3>4 DEF Gain
    <3>7. Grows(S, T) /\ T.core = A.core /\ T.il = A.il /\ T.um = A.um
      BY <2>2, <3>1, <3>5, <3>6, EnlistGrows
    <3>8. ListedFor(S, T, n)
      BY <2>2, <3>7 DEF ListedFor
    <3>9. Addressed(T)
      <4>1. Ids(T) = Ids(A) /\ Len(A.core) \in Nat
        BY <2>2, <3>7, CoreLen DEF Ids, Grows
      <4>2. \A m : StatusOf(T, m) = StatusOf(A, m) /\ AddrNow(T, m) = AddrNow(A, m)
        BY <3>7 DEF StatusOf, AddrNow, get_element_of_exp, exp_addr_status, EffectiveAddr, RegPart
      <4> QED BY <2>2, <3>7, <4>1, <4>2 DEF Addressed, Located, AddrFound
    <3> QED BY <1>2, <2>2, <3>7, <3>8, <3>9
  <2> QED BY <2>3, <2>4
<1> QED BY <1>1, <1>2

-----------------------------------------------------------------------------
(***************************************************************************)
(* The loops over the operands of an instruction, over its rules and over  *)
(* the nodes its handler creates.                                          *)
(***************************************************************************)
Do(x, S, k) ==
  CASE x.loop = "operands" -> traverse_operand(S, x.inst + k)
    [] x.loop = "rules"    -> believe(S, conclusion(S, x.inst, x.src, x.dst, x.rules[k]))
    [] x.loop = "nodes"    -> add_new_node(S, x.table[k])
Runs(x, S, max, g) == g = [k \in 0 .. max |-> IF k = 0 THEN S ELSE Do(x, g[k - 1], k)]

(* The loops are well defined.                                             *)
LEMMA LoopRuns ==
  ASSUME NEW x, NEW S, NEW max \in Nat
  PROVE  \E g : Runs(x, S, max, g)
<1> DEFINE N == {n \in Nat : \E g : Runs(x, S, n, g)}
<1>1. 0 \in N
  <2>1. Runs(x, S, 0, [k \in 0 .. 0 |-> S])
    BY DEF Runs
  <2> QED BY <2>1
<1>2. ASSUME NEW n \in N PROVE n + 1 \in N
  <2>1. PICK g : Runs(x, S, n, g)
    OBVIOUS
  <2> DEFINE e == [k \in 0 .. n + 1 |-> IF k = n + 1 THEN Do(x, g[n], n + 1) ELSE g[k]]
  <2>2. ASSUME NEW k \in 0 .. n + 1 PROVE e[k] = IF k = 0 THEN S ELSE Do(x, e[k - 1], k)
    <3>1. n \in Nat /\ n \in 0 .. n + 1
      OBVIOUS
    <3>2. CASE k = 0
      <4>1. g[0] = S
        BY <2>1, <3>1 DEF Runs
      <4> QED BY <3>1, <3>2, <4>1
    <3>3. CASE k = n + 1
      <4>1. k - 1 = n /\ n # n + 1
        BY <3>1, <3>3
      <4>2. e[n] = g[n]
        BY <3>1, <4>1
      <4> HIDE DEF Do
      <4> QED BY <3>1, <3>3, <4>1, <4>2
    <3>4. CASE k \in 1 .. n
      <4>1. k \in 0 .. n /\ k - 1 \in 0 .. n /\ k # 0 /\ k # n + 1 /\ k - 1 # n + 1
        BY <3>1, <3>4
      <4>2. g[k] = Do(x, g[k - 1], k)
        BY <2>1, <4>1 DEF Runs
      <4>3. e[k] = g[k] /\ e[k - 1] = g[k - 1]
        BY <3>1, <4>1
      <4> QED BY <4>1, <4>2, <4>3
    <3> QED BY <3>1, <3>2, <3>3, <3>4
  <2>3. Runs(x, S, n + 1, e)
    <3>1. e = [k \in 0 .. n + 1 |-> e[k]]
      OBVIOUS
    <3> HIDE DEF e
    <3> QED BY <2>2, <3>1 DEF Runs
  <2> HIDE DEF e
  <2> QED BY <2>3
<1>3. N \in SUBSET Nat
  OBVIOUS
<1> HIDE DEF N
<1>4. N = Nat
  BY <1>1, <1>2, <1>3, SetInduction
<1> QED BY <1>4 DEF N

(* What the loops compute.                                                 *)
LEMMA OperandsLoop ==
  ASSUME NEW S, NEW p, LastElement(S, p) - p \in Nat
  PROVE  \E g : /\ Runs([loop |-> "operands", inst |-> p], S, LastElement(S, p) - p, g)
                /\ traverse_inst_operand(S, p) = g[LastElement(S, p) - p]
<1> DEFINE x == [loop |-> "operands", inst |-> p]
           max == LastElement(S, p) - p
           Is(g) == g = [k \in 0 .. max |-> IF k = 0 THEN S ELSE traverse_operand(g[k - 1], p + k)]
           upto == CHOOSE g : Is(g)
<1>1. \A T, k : Do(x, T, k) = traverse_operand(T, p + k)
  BY DEF Do
<1>2. \A g : Runs(x, S, max, g) <=> Is(g)
  BY <1>1 DEF Runs
<1>3. \E g : Is(g)
  <2> HIDE DEF max, x
  <2>1. max \in Nat
    BY DEF max
  <2> HIDE DEF Is
  <2> QED BY <1>2, <2>1, LoopRuns
<1>4. Is(upto)
  <2> HIDE DEF Is
  <2> QED BY <1>3
<1>5. traverse_inst_operand(S, p) = upto[max]
  BY DEF traverse_inst_operand
<1> HIDE DEF upto, Is
<1> QED BY <1>2, <1>4, <1>5

(* The loop over the rules of an instruction.                              *)
LEMMA RulesLoop ==
  ASSUME NEW S, NEW p, NEW src, NEW dst, NEW rules, Len(rules) \in Nat
  PROVE  \E g : /\ Runs([loop |-> "rules", inst |-> p, src |-> src, dst |-> dst, rules |-> rules],
                        S, Len(rules), g)
                /\ apply_rules(S, p, src, dst, rules) = g[Len(rules)]
<1> DEFINE x == [loop |-> "rules", inst |-> p, src |-> src, dst |-> dst, rules |-> rules]
           max == Len(rules)
           Is(g) == g = [k \in 0 .. max |->
                           IF k = 0 THEN S
                           ELSE believe(g[k - 1], conclusion(g[k - 1], p, src, dst, rules[k]))]
           after == CHOOSE g : Is(g)
<1>1. \A T, k : Do(x, T, k) = believe(T, conclusion(T, p, src, dst, rules[k]))
  BY DEF Do
<1>2. \A g : Runs(x, S, max, g) <=> Is(g)
  BY <1>1 DEF Runs
<1>3. \E g : Is(g)
  <2> HIDE DEF x
  <2>1. max \in Nat
    OBVIOUS
  <2> HIDE DEF Is, max
  <2> QED BY <1>2, <2>1, LoopRuns
<1>4. Is(after)
  <2> HIDE DEF Is
  <2> QED BY <1>3
<1>5. apply_rules(S, p, src, dst, rules) = after[max]
  BY DEF apply_rules
<1> HIDE DEF after, Is
<1> QED BY <1>2, <1>4, <1>5

(* The loop over the table of a handler.                                   *)
LEMMA NodesLoop ==
  ASSUME NEW S, NEW table, Len(table) \in Nat
  PROVE  \E g : /\ Runs([loop |-> "nodes", table |-> table], S, Len(table), g)
                /\ create_nodes(S, table) = g[Len(table)]
<1> DEFINE x == [loop |-> "nodes", table |-> table]
           max == Len(table)
           Is(g) == g = [k \in 0 .. max |-> IF k = 0 THEN S ELSE add_new_node(g[k - 1], table[k])]
           after == CHOOSE g : Is(g)
<1>1. \A T, k : Do(x, T, k) = add_new_node(T, table[k])
  BY DEF Do
<1>2. \A g : Runs(x, S, max, g) <=> Is(g)
  BY <1>1 DEF Runs
<1>3. \E g : Is(g)
  <2> HIDE DEF x
  <2>1. max \in Nat
    OBVIOUS
  <2> HIDE DEF Is, max
  <2> QED BY <1>2, <2>1, LoopRuns
<1>4. Is(after)
  <2> HIDE DEF Is
  <2> QED BY <1>3
<1>5. create_nodes(S, table) = after[max]
  BY DEF create_nodes
<1> HIDE DEF after, Is
<1> QED BY <1>2, <1>4, <1>5

(* The operands of an instruction.                                         *)
OperandRun(S, p, T, g, max) ==
  /\ max \in Nat /\ LastElement(S, p) = p + max /\ g[0] = S /\ g[max] = T
  /\ \A k \in 0 .. max : /\ Grows(S, g[k]) /\ Addressed(g[k]) /\ Recorded(g[k])
                         /\ g[k].il = S.il
  /\ \A k \in 1 .. max : /\ g[k] = traverse_operand(g[k - 1], p + k)
                         /\ p + k \in Ids(S) /\ ~ IsInst(S.core[p + k])

(* Each operand in its turn is a propagation.                              *)
LEMMA OperandsRun ==
  ASSUME NEW S, Shape(S), Addressed(S), Recorded(S), NEW p \in Ids(S),
         NEW T, T = traverse_inst_operand(S, p)
  PROVE  \E g, max : OperandRun(S, p, T, g, max)
<1> DEFINE x == [loop |-> "operands", inst |-> p]
           max == LastElement(S, p) - p
<1>1. Len(S.core) \in Nat /\ p \in Nat /\ p \in 0 .. Len(S.core)
  BY CoreLen
<1>2. /\ max \in Nat /\ LastElement(S, p) \in Nat
      /\ \A k \in 1 .. max : p + k \in ElementsOf(S, p)
      /\ \A m \in ElementsOf(S, p) : m \in Ids(S) /\ ~ IsInst(S.core[m])
  <2>1. /\ LastElement(S, p) \in p .. Len(S.core)
        /\ \A m \in ElementsOf(S, p) : m \in Ids(S) /\ ~ IsInst(S.core[m])
    BY <1>1, ElementsRange
  <2> QED BY <1>1, <2>1 DEF ElementsOf
<1>3. PICK g : Runs(x, S, max, g) /\ T = g[max]
  BY <1>2, OperandsLoop
<1> HIDE DEF max
<1>4. g[0] = S /\ \A k \in 1 .. max : g[k] = traverse_operand(g[k - 1], p + k)
  <2>1. g = [k \in 0 .. max |-> IF k = 0 THEN S ELSE traverse_operand(g[k - 1], p + k)]
    BY <1>3 DEF Runs, Do
  <2>2. 0 \in 0 .. max /\ \A k \in 1 .. max : k \in 0 .. max /\ k # 0
    BY <1>2
  <2> QED BY <2>1, <2>2
<1> DEFINE P(k) == Grows(S, g[k]) /\ Addressed(g[k]) /\ Recorded(g[k]) /\ g[k].il = S.il
           N == {k \in Nat : k <= max => P(k)}
<1>5. 0 \in N
  BY <1>4, GrowsRefl
<1>6. ASSUME NEW k \in N PROVE k + 1 \in N
  <2> SUFFICES ASSUME k + 1 <= max PROVE P(k + 1)
    OBVIOUS
  <2>1. k \in Nat /\ k + 1 \in 1 .. max /\ (k + 1) - 1 = k
    BY <1>2
  <2>2. P(k)
    BY <1>2, <2>1
  <2>3. g[k + 1] = traverse_operand(g[k], p + (k + 1))
    BY <1>4, <2>1
  <2>4. p + (k + 1) \in Ids(S) /\ ~ IsInst(S.core[p + (k + 1)])
    BY <1>2, <2>1
  <2> DEFINE A == g[k]
             B == g[k + 1]
             n == p + (k + 1)
  <2>5. Shape(A) /\ n \in Ids(A) /\ ~ IsInst(A.core[n])
    BY <2>2, <2>4 DEF Grows, Ids, NodeLater, IsInst
  <2>6. Grows(S, A) /\ Addressed(A) /\ Recorded(A) /\ A.il = S.il /\ B = traverse_operand(A, n)
    BY <2>2, <2>3
  <2> HIDE DEF A, B, n
  <2>7. Grows(A, B) /\ Addressed(B) /\ B.il = A.il
    BY <2>5, <2>6, TraverseGrows
  <2>8. Grows(S, B)
    BY <2>6, <2>7, GrowsTrans
  <2>9. Recorded(B)
    BY <2>6, <2>7, RecordedKept, GrowsKinds DEF Grows
  <2> QED BY <2>6, <2>7, <2>8, <2>9 DEF B
<1>7. N \in SUBSET Nat
  OBVIOUS
<1> HIDE DEF N
<1>8. N = Nat
  BY <1>5, <1>6, <1>7, SetInduction
<1>9. \A k \in 0 .. max : P(k)
  BY <1>2, <1>8 DEF N
<1>10. \A k \in 1 .. max : p + k \in Ids(S) /\ ~ IsInst(S.core[p + k])
  BY <1>2
<1>11. LastElement(S, p) = p + max
  BY <1>1, <1>2 DEF max
<1>12. OperandRun(S, p, T, g, max)
  BY <1>2, <1>3, <1>4, <1>9, <1>10, <1>11 DEF OperandRun
<1> QED BY <1>12

(* And so are all of them.                                                 *)
LEMMA TraverseInstGrows ==
  ASSUME NEW S, Shape(S), Addressed(S), Recorded(S), NEW p \in Ids(S),
         NEW T, T = traverse_inst_operand(S, p)
  PROVE  Grows(S, T) /\ Addressed(T) /\ T.il = S.il
<1>1. PICK g, max : OperandRun(S, p, T, g, max)
  BY OperandsRun
<1>2. max \in 0 .. max
  BY <1>1 DEF OperandRun
<1> QED BY <1>1, <1>2 DEF OperandRun

(* Ordered lists the members of a set of ids.                              *)
LEMMA OrderedMembers ==
  ASSUME NEW M \in SUBSET Nat, IsFiniteSet(M)
  PROVE  /\ Cardinality(M) \in Nat /\ Len(Ordered(M)) = Cardinality(M)
         /\ \A i \in 1 .. Cardinality(M) : Ordered(M)[i] \in M
<1> DEFINE Below(n) == {m \in M : m < n}
           c == Cardinality(M)
<1>1. c \in Nat
  BY FS_CardinalityType
<1>2. \A n \in M : IsFiniteSet(Below(n)) /\ Cardinality(Below(n)) \in Nat
  <2> TAKE n \in M
  <2>1. Below(n) \in SUBSET M
    OBVIOUS
  <2> HIDE DEF Below
  <2> QED BY <2>1, FS_Subset, FS_CardinalityType
<1> DEFINE K == {k \in Nat : k < c => \E n \in M : Cardinality(Below(n)) = k}
<1>3. 0 \in K
  <2> SUFFICES ASSUME 0 < c PROVE \E n \in M : Cardinality(Below(n)) = 0
    BY Zenon
  <2>1. M # {}
    BY FS_EmptySet
  <2> DEFINE n == MinOrNull(M)
  <2>2. n \in M /\ \A m \in M : n <= m
    BY <2>1, MinMember
  <2> HIDE DEF n
  <2>3. Below(n) = {}
    <3> SUFFICES ASSUME NEW m \in M, m < n PROVE FALSE
      OBVIOUS
    <3>1. n <= m /\ n \in Nat /\ m \in Nat
      BY <2>2
    <3> QED BY <3>1
  <2> QED BY <2>2, <2>3, FS_EmptySet
<1>4. ASSUME NEW k \in K PROVE k + 1 \in K
  <2>1. k \in Nat
    OBVIOUS
  <2> SUFFICES ASSUME k + 1 < c PROVE \E n \in M : Cardinality(Below(n)) = k + 1
    BY <2>1
  <2>2. PICK n \in M : Cardinality(Below(n)) = k
    BY <1>1, <2>1
  <2> DEFINE Above == {m \in M : m > n}
             next == MinOrNull(Above)
  <2>3. M = (Below(n) \cup {n}) \cup Above
    <3>1. \A m \in M : m < n \/ m = n \/ m > n
      OBVIOUS
    <3>2. n \in M
      OBVIOUS
    <3> QED BY <3>1, <3>2
  <2>4. IsFiniteSet(Below(n) \cup {n}) /\ Cardinality(Below(n) \cup {n}) = k + 1
    <3>1. n \notin Below(n) /\ IsFiniteSet(Below(n))
      BY <1>2
    <3> HIDE DEF Below
    <3> QED BY <2>1, <2>2, <3>1, FS_AddElement
  <2>5. Above # {}
    <3> HIDE DEF Below
    <3> QED BY <1>1, <2>1, <2>3, <2>4
  <2>6. next \in Above /\ \A m \in Above : next <= m
    <3>1. Above \in SUBSET Nat
      OBVIOUS
    <3> HIDE DEF Above
    <3> QED BY <2>5, <3>1, MinMember
  <2> HIDE DEF next
  <2>7. next \in M /\ Below(next) = Below(n) \cup {n}
    <3>1. next \in M /\ next > n
      BY <2>6
    <3>2. ASSUME NEW m \in M PROVE m < next <=> m < n \/ m = n
      <4>1. ~ m > n => m < next
        BY <3>1
      <4>2. m > n => ~ m < next
        BY <2>6, <3>1
      <4> QED BY <4>1, <4>2
    <3> QED BY <3>1, <3>2
  <2> HIDE DEF Below
  <2> QED BY <2>4, <2>7
<1>5. K \in SUBSET Nat
  OBVIOUS
<1> HIDE DEF K
<1>6. K = Nat
  BY <1>3, <1>4, <1>5, SetInduction
<1>7. ASSUME NEW i \in 1 .. c PROVE Ordered(M)[i] \in M
  <2>1. i - 1 \in K /\ i - 1 \in Nat /\ i - 1 < c /\ i \in 1 .. c
    BY <1>1, <1>6
  <2>2. \E n \in M : Cardinality(Below(n)) = i - 1
    BY <2>1 DEF K
  <2> DEFINE chosen == CHOOSE n \in M : Cardinality(Below(n)) = i - 1
  <2>3. chosen \in M
    BY <2>2
  <2>4. Ordered(M)[i] = chosen
    BY <2>1 DEF Ordered
  <2> HIDE DEF chosen
  <2> QED BY <2>3, <2>4
<1>8. Len(Ordered(M)) = c
  BY <1>1 DEF Ordered
<1> QED BY <1>1, <1>7, <1>8

(* How many operands and defines the rules of an instruction speak about.  *)
OpdSet(S, p) == {j \in ElementsOf(S, p) : IsUse(S.core[j]) /\ S.core[j].ut = "Opd"}
DefSet(S, p) == {j \in ElementsOf(S, p) : IsDef(S.core[j])}
Ops == {"mov", "add", "lea", "xchg", "push", "pop"}
OpdsNeeded(op) == IF op = "lea" THEN 0 ELSE IF op \in {"add", "xchg"} THEN 2 ELSE 1
DefsNeeded(op) == IF op \in {"xchg", "push", "pop"} THEN 2 ELSE 1
Enough(S, p) == /\ inst_of(S, p).op \in Ops
                /\ Cardinality(OpdSet(S, p)) >= OpdsNeeded(inst_of(S, p).op)
                /\ Cardinality(DefSet(S, p)) >= DefsNeeded(inst_of(S, p).op)
AllEnough(S) == \A p \in Ids(S) : IsInst(S.core[p]) => Enough(S, p)

(* An instruction keeps its operands and defines.                          *)
LEMMA EnoughKept ==
  ASSUME NEW S, Shape(S), NEW T, SameKinds(S, T), T.tr = S.tr, AllEnough(S)
  PROVE  AllEnough(T)
<1>1. Ids(T) = Ids(S) /\ Len(S.core) \in Nat
  BY CoreLen DEF Ids, SameKinds
<1>2. ASSUME NEW p \in Ids(S), IsInst(T.core[p]) PROVE Enough(T, p)
  <2>1. IsInst(S.core[p]) /\ T.core[p] = S.core[p] /\ p \in Nat /\ p \in 0 .. Len(S.core)
    BY <1>1, <1>2, CoreLen DEF SameKinds, IsInst
  <2>2. ElementsOf(T, p) = ElementsOf(S, p)
    BY <2>1, WalksSame
  <2>3. \A m \in ElementsOf(S, p) : m \in Ids(S)
    BY <1>1, <2>1, ElementsRange
  <2>4. \A m \in Ids(S) : /\ IsUse(T.core[m]) <=> IsUse(S.core[m])
                          /\ IsDef(T.core[m]) <=> IsDef(S.core[m])
                          /\ IsUse(S.core[m]) => T.core[m].ut = S.core[m].ut
    BY DEF SameKinds, IsUse, IsDef
  <2>5. OpdSet(T, p) = OpdSet(S, p)
    BY <2>2, <2>3, <2>4 DEF OpdSet
  <2>6. DefSet(T, p) = DefSet(S, p)
    BY <2>2, <2>3, <2>4 DEF DefSet
  <2>7. inst_of(T, p) = inst_of(S, p)
    BY <2>1 DEF inst_of, ProgramOf
  <2> QED BY <2>1, <2>5, <2>6, <2>7 DEF AllEnough, Enough
<1> QED BY <1>1, <1>2 DEF AllEnough

(* What the lists of uses and defines of an instruction hold.              *)
UsesIn(S, list) == \A i \in 1 .. Len(list) : list[i] \in Ids(S) /\ IsUse(S.core[list[i]])
DefsIn(S, list) == \A i \in 1 .. Len(list) : list[i] \in Ids(S) /\ IsDef(S.core[list[i]])

(* The lists hold uses and defines of the main list, all of them.          *)
LEMMA InstLists ==
  ASSUME NEW S, Shape(S), NEW p \in Ids(S)
  PROVE  /\ UsesIn(S, UsesOf(S, p)) /\ Len(UsesOf(S, p)) \in Nat
         /\ UsesIn(S, OperandsOf(S, p)) /\ Len(OperandsOf(S, p)) = Cardinality(OpdSet(S, p))
         /\ DefsIn(S, DefsOf(S, p)) /\ Len(DefsOf(S, p)) = Cardinality(DefSet(S, p))
         /\ Len(OperandsOf(S, p)) \in Nat /\ Len(DefsOf(S, p)) \in Nat
<1> DEFINE U == {j \in ElementsOf(S, p) : IsUse(S.core[j])}
<1>1. ElementsOf(S, p) \in SUBSET Nat /\ IsFiniteSet(ElementsOf(S, p))
      /\ \A m \in ElementsOf(S, p) : m \in Ids(S)
  <2>1. Len(S.core) \in Nat /\ p \in Nat /\ p \in 0 .. Len(S.core)
    BY CoreLen
  <2>2. LastElement(S, p) \in p .. Len(S.core) /\ \A m \in ElementsOf(S, p) : m \in Ids(S)
    BY <2>1, ElementsRange
  <2>3. p + 1 \in Int /\ LastElement(S, p) \in Int
    BY <2>1, <2>2
  <2>4. IsFiniteSet(p + 1 .. LastElement(S, p))
    BY <2>3, FS_Interval
  <2> QED BY <2>1, <2>2, <2>4 DEF ElementsOf
<1>2. U \in SUBSET ElementsOf(S, p)
  OBVIOUS
<1>3. OpdSet(S, p) \in SUBSET ElementsOf(S, p)
  BY DEF OpdSet
<1>4. DefSet(S, p) \in SUBSET ElementsOf(S, p)
  BY DEF DefSet
<1>5. ASSUME NEW M \in SUBSET ElementsOf(S, p)
      PROVE  /\ Cardinality(M) \in Nat /\ Len(Ordered(M)) = Cardinality(M)
             /\ \A i \in 1 .. Len(Ordered(M)) : Ordered(M)[i] \in M /\ Ordered(M)[i] \in Ids(S)
  <2>1. M \in SUBSET Nat /\ IsFiniteSet(M)
    BY <1>1, FS_Subset
  <2>2. /\ Cardinality(M) \in Nat /\ Len(Ordered(M)) = Cardinality(M)
        /\ \A i \in 1 .. Cardinality(M) : Ordered(M)[i] \in M
    BY <2>1, OrderedMembers
  <2> QED BY <1>1, <2>2
<1>6. /\ UsesOf(S, p) = Ordered(U)
      /\ OperandsOf(S, p) = Ordered(OpdSet(S, p)) /\ DefsOf(S, p) = Ordered(DefSet(S, p))
  BY DEF UsesOf, OperandsOf, DefsOf, OpdSet, DefSet
<1>7. UsesIn(S, UsesOf(S, p)) /\ Len(UsesOf(S, p)) \in Nat
  BY <1>2, <1>5, <1>6 DEF UsesIn
<1>8. \A j \in OpdSet(S, p) : IsUse(S.core[j])
  BY DEF OpdSet
<1>9. \A j \in DefSet(S, p) : IsDef(S.core[j])
  BY DEF DefSet
<1>10. /\ UsesIn(S, OperandsOf(S, p)) /\ Len(OperandsOf(S, p)) = Cardinality(OpdSet(S, p))
       /\ Len(OperandsOf(S, p)) \in Nat
  BY <1>3, <1>5, <1>6, <1>8 DEF UsesIn
<1>11. /\ DefsIn(S, DefsOf(S, p)) /\ Len(DefsOf(S, p)) = Cardinality(DefSet(S, p))
       /\ Len(DefsOf(S, p)) \in Nat
  BY <1>4, <1>5, <1>6, <1>9 DEF DefsIn
<1> QED BY <1>7, <1>10, <1>11

(* The rules name operands and defines that are there.                     *)
Suits(r, uses, defs) ==
  \/ r.rule \in {"copy", "extend"} /\ r.use \in 1 .. uses /\ r.def \in 1 .. defs
  \/ r.rule \in {"back", "ahead"} /\ r.def \in 1 .. defs
  \/ r.rule = "sum" /\ uses >= 2 /\ defs >= 1
  \/ r.rule = "lea" /\ defs >= 1

(* Each table of rules suits its instruction.                              *)
LEMMA RulesSuit ==
  ASSUME NEW op \in Ops
  PROVE  /\ Len(RulesOf(op)) \in Nat
         /\ \A k \in 1 .. Len(RulesOf(op)) : Suits(RulesOf(op)[k], OpdsNeeded(op), DefsNeeded(op))
<1> USE DEF OpdsNeeded, DefsNeeded, Suits
<1>1. CASE op = "mov"
  <2>1. RulesOf(op) = <<Copy(1, 1)>>
    BY <1>1 DEF RulesOf, mov_resolver
  <2> QED BY <1>1, <2>1 DEF Copy
<1>2. CASE op = "xchg"
  <2>1. RulesOf(op) = <<Copy(1, 2), Copy(2, 1)>>
    BY <1>2 DEF RulesOf, xchg_resolver
  <2> QED BY <1>2, <2>1 DEF Copy
<1>3. CASE op = "push"
  <2>1. RulesOf(op) = <<Extend(1, 1), Back(2, Minus(0, DW)), Ahead(2, Minus(0, DW))>>
    BY <1>3 DEF RulesOf, push_resolver
  <2> QED BY <1>3, <2>1 DEF Extend, Back, Ahead
<1>4. CASE op = "pop"
  <2>1. RulesOf(op) = <<Copy(1, 2), Back(1, DW), Ahead(1, DW)>>
    BY <1>4 DEF RulesOf, pop_resolver
  <2> QED BY <1>4, <2>1 DEF Copy, Back, Ahead
<1>5. CASE op = "add"
  <2>1. RulesOf(op) = <<Sum>>
    BY <1>5 DEF RulesOf, add_resolver
  <2> QED BY <1>5, <2>1 DEF Sum
<1>6. CASE op = "lea"
  <2>1. RulesOf(op) = <<Lea>>
    BY <1>6 DEF RulesOf, lea_resolver
  <2> QED BY <1>6, <2>1 DEF Lea
<1> QED BY <1>1, <1>2, <1>3, <1>4, <1>5, <1>6 DEF Ops

(* A conclusion is about a side that the node has.                         *)
ConclusionFits(S, c) == c.n # 0 => c.n \in Ids(S) /\ Fits(S.core[c.n], c.side)

(* Whatever is concluded about a side that is there fits.                  *)
LEMMA ConcludeFits ==
  ASSUME NEW S, NEW n, NEW side, NEW v, n \in Ids(S) /\ Fits(S.core[n], side)
  PROVE  ConclusionFits(S, Conclude(n, side, v))
BY DEF ConclusionFits, Conclude

(* Every rule that suits draws a conclusion that fits.                     *)
LEMMA ConclusionsFit ==
  ASSUME NEW S, NEW p, NEW src, NEW dst, UsesIn(S, src), DefsIn(S, dst),
         Len(src) \in Nat, Len(dst) \in Nat,
         NEW uses \in Nat, uses <= Len(src), NEW defs \in Nat, defs <= Len(dst),
         NEW r, Suits(r, uses, defs)
  PROVE  ConclusionFits(S, conclusion(S, p, src, dst, r))
<1>1. \A i \in 1 .. uses : src[i] \in Ids(S) /\ Fits(S.core[src[i]], "val")
  BY DEF UsesIn, Fits
<1>2. \A i \in 1 .. defs : /\ dst[i] \in Ids(S)
                           /\ Fits(S.core[dst[i]], "bef") /\ Fits(S.core[dst[i]], "aft")
  BY DEF DefsIn, Fits
<1>3. ConclusionFits(S, Nothing)
  BY DEF ConclusionFits, Nothing, Conclude
<1>4. CASE r.rule \in {"copy", "extend"}
  <2> DEFINE u == src[r.use]
             d == dst[r.def]
             w == S.core[d].aft
  <2>1. r.use \in 1 .. uses /\ r.def \in 1 .. defs
    BY <1>4 DEF Suits
  <2>2. u \in Ids(S) /\ Fits(S.core[u], "val") /\ d \in Ids(S) /\ Fits(S.core[d], "aft")
    BY <1>1, <1>2, <2>1
  <2>3. conclusion(S, p, src, dst, r) \in
          {copy(u, d, S.core[u].val, w, S.core[u].val), copy(u, d, S.core[u].val, w, SignExtend(S.core[u].val))}
    BY <1>4 DEF conclusion
  <2> HIDE DEF u, d, w
  <2>4. \A v, x, e : ConclusionFits(S, copy(u, d, v, x, e))
    BY <1>3, <2>2, ConcludeFits DEF copy
  <2> QED BY <2>3, <2>4
<1>5. CASE r.rule \in {"back", "ahead"}
  <2> DEFINE d == dst[r.def]
  <2>1. r.def \in 1 .. defs
    BY <1>5 DEF Suits
  <2>2. d \in Ids(S) /\ Fits(S.core[d], "bef") /\ Fits(S.core[d], "aft")
    BY <1>2, <2>1
  <2>3. conclusion(S, p, src, dst, r) \in
          {step_back(d, S.core[d], r.by), step_ahead(d, S.core[d], r.by)}
    BY <1>5 DEF conclusion
  <2> HIDE DEF d
  <2>4. \A x, by : /\ ConclusionFits(S, step_back(d, x, by))
                   /\ ConclusionFits(S, step_ahead(d, x, by))
    BY <1>3, <2>2, ConcludeFits DEF step_back, step_ahead
  <2> QED BY <2>3, <2>4
<1>6. CASE r.rule = "sum"
  <2>1. 1 \in 1 .. uses /\ 2 \in 1 .. uses /\ 1 \in 1 .. defs
    BY <1>6 DEF Suits
  <2> DEFINE u1 == src[1]
             u2 == src[2]
             d == dst[1]
  <2>2. /\ u1 \in Ids(S) /\ Fits(S.core[u1], "val") /\ u2 \in Ids(S) /\ Fits(S.core[u2], "val")
        /\ d \in Ids(S) /\ Fits(S.core[d], "aft")
    BY <1>1, <1>2, <2>1
  <2>3. conclusion(S, p, src, dst, r) = sum(S, u1, u2, d)
    BY <1>6 DEF conclusion
  <2> HIDE DEF u1, u2, d
  <2> QED BY <1>3, <2>2, <2>3, ConcludeFits DEF sum
<1>7. CASE r.rule = "lea"
  <2> DEFINE d == dst[1]
             disp == inst_of(S, p).src.disp
             addr == LeaAddr(src, LeaSum(S, src), disp)
  <2>1. d \in Ids(S) /\ Fits(S.core[d], "aft")
    <3>1. 1 \in 1 .. defs
      BY <1>7 DEF Suits
    <3> QED BY <1>2, <3>1
  <2>2. conclusion(S, p, src, dst, r) = lea(S, src, d, disp, addr)
    BY <1>7 DEF conclusion
  <2>3. Len(src) = 1 => src[1] \in Ids(S) /\ Fits(S.core[src[1]], "val")
    BY DEF UsesIn, Fits
  <2> HIDE DEF d, disp, addr
  <2> QED BY <1>3, <2>1, <2>2, <2>3, ConcludeFits DEF lea
<1> QED BY <1>4, <1>5, <1>6, <1>7 DEF Suits

(* The rules of an instruction.                                            *)
LEMMA ApplyRulesTells ==
  ASSUME NEW S, Shape(S), NEW p, NEW src, NEW dst, UsesIn(S, src), DefsIn(S, dst),
         Len(src) \in Nat, Len(dst) \in Nat,
         NEW uses \in Nat, uses <= Len(src), NEW defs \in Nat, defs <= Len(dst),
         NEW rules, Len(rules) \in Nat, \A k \in 1 .. Len(rules) : Suits(rules[k], uses, defs),
         NEW T, T = apply_rules(S, p, src, dst, rules)
  PROVE  Tells(S, T) /\ T.il = S.il
<1> DEFINE x == [loop |-> "rules", inst |-> p, src |-> src, dst |-> dst, rules |-> rules]
           max == Len(rules)
<1>1. PICK g : Runs(x, S, max, g) /\ T = g[max]
  BY RulesLoop
<1>2. /\ g[0] = S
      /\ \A k \in 1 .. max : g[k] = believe(g[k - 1], conclusion(g[k - 1], p, src, dst, rules[k]))
  <2>1. g = [k \in 0 .. max |->
               IF k = 0 THEN S ELSE believe(g[k - 1], conclusion(g[k - 1], p, src, dst, rules[k]))]
    BY <1>1 DEF Runs, Do
  <2>2. 0 \in 0 .. max /\ \A k \in 1 .. max : k \in 0 .. max /\ k # 0
    OBVIOUS
  <2> QED BY <2>1, <2>2
<1> DEFINE P(k) == Tells(S, g[k]) /\ g[k].il = S.il
           N == {k \in Nat : k <= max => P(k)}
<1>3. 0 \in N
  BY <1>2, GrowsRefl
<1>4. ASSUME NEW k \in N PROVE k + 1 \in N
  <2> SUFFICES ASSUME k + 1 <= max PROVE P(k + 1)
    OBVIOUS
  <2>1. k \in Nat /\ k + 1 \in 1 .. max /\ (k + 1) - 1 = k
    OBVIOUS
  <2>2. P(k)
    BY <2>1
  <2> DEFINE A == g[k]
             B == g[k + 1]
             c == conclusion(A, p, src, dst, rules[k + 1])
  <2>3. B = believe(A, c)
    BY <1>2, <2>1
  <2>4. Tells(S, A) /\ A.il = S.il
    BY <2>2
  <2> HIDE DEF A, B, c
  <2>5. Shape(A) /\ SameKinds(S, A) /\ Ids(A) = Ids(S)
    BY <2>4, GrowsKinds DEF Tells, Grows, Ids
  <2>6. UsesIn(A, src) /\ DefsIn(A, dst)
    BY <2>5 DEF UsesIn, DefsIn, SameKinds, IsUse, IsDef
  <2>7. Suits(rules[k + 1], uses, defs)
    BY <2>1
  <2>8. ConclusionFits(A, c)
    BY <2>6, <2>7, ConclusionsFit DEF c
  <2>9. Tells(A, B) /\ B.il = A.il
    <3>1. CASE c.n = 0
      BY <2>3, <2>5, <3>1, GrowsRefl DEF believe
    <3>2. CASE c.n # 0
      <4>1. B = give(A, c.n, c.side, c.v) /\ c.n \in Ids(A) /\ Fits(A.core[c.n], c.side)
        BY <2>3, <2>8, <3>2 DEF believe, ConclusionFits
      <4> QED BY <2>5, <4>1, GiveTells
    <3> QED BY <3>1, <3>2
  <2>10. Tells(S, B)
    BY <2>4, <2>9, TellsTrans
  <2> QED BY <2>4, <2>9, <2>10 DEF B
<1>5. N \in SUBSET Nat
  OBVIOUS
<1> HIDE DEF N
<1>6. max \in N
  BY <1>3, <1>4, <1>5, SetInduction
<1> QED BY <1>1, <1>6 DEF N

(* All that is assumed of the structure between two steps.                 *)
Sane(S) == Shape(S) /\ Addressed(S) /\ Recorded(S) /\ AllEnough(S)

Traversed(S, p) ==
  IF inst_of(S, p).op = "lea" THEN S ELSE traverse_inst_operand(S, p)

(* The resolver of an instruction: its operands, then its rules.           *)
LEMMA InstResolverGrows ==
  ASSUME NEW S, Sane(S), NEW p \in Ids(S), IsInst(S.core[p]), NEW T, T = inst_resolver(S, p)
  PROVE  Grows(S, T) /\ Addressed(T) /\ T.il = S.il /\ Tells(Traversed(S, p), T)
<1> DEFINE op == inst_of(S, p).op
           A == IF op = "lea" THEN S ELSE traverse_inst_operand(S, p)
           src == IF op = "lea" THEN UsesOf(S, p) ELSE OperandsOf(S, p)
           dst == DefsOf(S, p)
<1>1. T = apply_rules(A, p, src, dst, RulesOf(op))
  BY DEF inst_resolver
<1>2. Grows(S, A) /\ Addressed(A) /\ A.il = S.il
  <2>1. CASE op = "lea"
    BY <2>1, GrowsRefl DEF Sane
  <2>2. CASE op # "lea"
    BY <2>2, TraverseInstGrows DEF Sane
  <2> QED BY <2>1, <2>2
<1>3. op \in Ops /\ Cardinality(OpdSet(S, p)) >= OpdsNeeded(op) /\ Cardinality(DefSet(S, p)) >= DefsNeeded(op)
  BY DEF Sane, AllEnough, Enough
<1>4. /\ UsesIn(S, UsesOf(S, p)) /\ Len(UsesOf(S, p)) \in Nat
      /\ UsesIn(S, OperandsOf(S, p)) /\ Len(OperandsOf(S, p)) = Cardinality(OpdSet(S, p))
      /\ DefsIn(S, dst) /\ Len(dst) = Cardinality(DefSet(S, p))
      /\ Len(OperandsOf(S, p)) \in Nat /\ Len(dst) \in Nat
  BY InstLists DEF Sane
<1>5. UsesIn(S, src) /\ Len(src) \in Nat
  BY <1>4
<1>6. OpdsNeeded(op) \in Nat /\ DefsNeeded(op) \in Nat
  BY DEF OpdsNeeded, DefsNeeded
<1>7. OpdsNeeded(op) <= Len(src)
  <2>1. CASE op = "lea"
    BY <1>4, <2>1 DEF OpdsNeeded
  <2>2. CASE op # "lea"
    BY <1>3, <1>4, <1>6, <2>2
  <2> QED BY <2>1, <2>2
<1>8. DefsNeeded(op) <= Len(dst)
  BY <1>3, <1>4, <1>6
<1>9. /\ Len(RulesOf(op)) \in Nat
      /\ \A k \in 1 .. Len(RulesOf(op)) : Suits(RulesOf(op)[k], OpdsNeeded(op), DefsNeeded(op))
  BY <1>3, RulesSuit
<1> DEFINE rules == RulesOf(op)
           uses == OpdsNeeded(op)
           defs == DefsNeeded(op)
<1>10. /\ T = apply_rules(A, p, src, dst, rules) /\ Len(rules) \in Nat
       /\ \A k \in 1 .. Len(rules) : Suits(rules[k], uses, defs)
       /\ uses \in Nat /\ uses <= Len(src) /\ defs \in Nat /\ defs <= Len(dst)
       /\ Len(src) \in Nat /\ Len(dst) \in Nat /\ UsesIn(S, src) /\ DefsIn(S, dst)
  BY <1>1, <1>4, <1>5, <1>6, <1>7, <1>8, <1>9
<1>a. A = Traversed(S, p)
  BY DEF Traversed
<1> HIDE DEF A, rules, uses, defs, src, dst
<1>11. Shape(A) /\ UsesIn(A, src) /\ DefsIn(A, dst)
  <2>1. SameKinds(S, A) /\ Ids(A) = Ids(S) /\ Shape(A)
    BY <1>2, GrowsKinds DEF Grows, Ids
  <2> QED BY <1>10, <2>1 DEF UsesIn, DefsIn, SameKinds, IsUse, IsDef
<1>12. Tells(A, T) /\ T.il = A.il
  BY <1>10, <1>11, ApplyRulesTells
<1>13. Grows(S, T)
  BY <1>2, <1>12, GrowsTrans DEF Tells, Sane
<1>14. Addressed(T)
  BY <1>2, <1>11, <1>12, AddressedTells
<1> QED BY <1>a, <1>2, <1>12, <1>13, <1>14

-----------------------------------------------------------------------------
(***************************************************************************)
(* One turn of re_resolve.                                                 *)
(***************************************************************************)
(* The same nodes: only lists differ.                                      *)
LEMMA SaneFrame ==
  ASSUME NEW S, Sane(S), NEW T, Shape(T), T.core = S.core, T.tr = S.tr
  PROVE  Sane(T) /\ \A p : Agrees(S, p) => Agrees(T, p)
<1>1. \A p : ElementsOf(T, p) = ElementsOf(S, p) /\ LoggedRegs(T, p) = LoggedRegs(S, p)
  BY DEF ElementsOf, LastElement, LoggedRegs
<1>2. \A p, m, reg : AgreesWithLog(S, p, m, reg) => AgreesWithLog(T, p, m, reg)
  BY <1>1 DEF AgreesWithLog, use_after_def
<1>3. \A p : Agrees(S, p) => Agrees(T, p)
  BY <1>1, <1>2 DEF Agrees
<1>4. SameKinds(S, T)
  BY DEF SameKinds
<1>5. Recorded(T) /\ AllEnough(T)
  BY <1>4, RecordedKept, EnoughKept DEF Sane
<1>6. Addressed(T)
  <2>1. \A m : StatusOf(T, m) = StatusOf(S, m) /\ AddrNow(T, m) = AddrNow(S, m)
    BY DEF StatusOf, AddrNow, get_element_of_exp, exp_addr_status, EffectiveAddr, RegPart
  <2> QED BY <2>1 DEF Sane, Addressed, Located, AddrFound, Ids
<1> QED BY <1>3, <1>5, <1>6 DEF Sane

(* What grows stays sane.                                                  *)
LEMMA SaneGrows ==
  ASSUME NEW S, Sane(S), NEW T, Grows(S, T), Addressed(T)
  PROVE  Sane(T)
<1>1. SameKinds(S, T) /\ T.tr = S.tr /\ Shape(T)
  BY GrowsKinds DEF Grows
<1> QED BY <1>1, RecordedKept, EnoughKept DEF Sane

(* A list without its last member.                                         *)
LEMMA FrontList ==
  ASSUME NEW N, NEW s \in Seq(N), s # <<>>, NEW t, t = Front(s)
  PROVE  /\ t \in Seq(N) /\ Len(t) = Len(s) - 1 /\ DOMAIN t = 1 .. Len(t)
         /\ \A i \in 1 .. Len(t) : i \in 1 .. Len(s) /\ t[i] = s[i] /\ t[i] \in N
<1>1. Len(s) \in Nat /\ Len(s) >= 1 /\ \A i \in 1 .. Len(s) - 1 : s[i] \in N
  BY EmptySeq
<1>2. 1 \in Int /\ Len(s) - 1 \in Int /\ Len(s) >= 1
  BY <1>1
<1>3. /\ SubSeq(s, 1, Len(s) - 1) \in Seq(N)
      /\ Len(SubSeq(s, 1, Len(s) - 1)) = IF 1 <= Len(s) - 1 THEN (Len(s) - 1) - 1 + 1 ELSE 0
      /\ \A i \in 1 .. (Len(s) - 1) - 1 + 1 : SubSeq(s, 1, Len(s) - 1)[i] = s[1 + i - 1]
  BY <1>1, <1>2, SubSeqProperties
<1>4. t = SubSeq(s, 1, Len(s) - 1)
  BY DEF Front
<1>5. Len(t) = Len(s) - 1
  <2> DEFINE l == Len(s)
             m == Len(SubSeq(s, 1, Len(s) - 1))
  <2>1. l \in Nat /\ l >= 1 /\ m = (IF 1 <= l - 1 THEN (l - 1) - 1 + 1 ELSE 0)
    BY <1>1, <1>3
  <2> HIDE DEF l, m
  <2>2. m = l - 1
    BY <2>1
  <2> QED BY <2>2, <1>4 DEF l, m
<1>6. \A i \in 1 .. Len(t) : i \in 1 .. (Len(s) - 1) - 1 + 1 /\ 1 + i - 1 = i /\ i \in 1 .. Len(s)
  BY <1>1, <1>5
<1>7. \A i \in 1 .. Len(t) : t[i] = s[i]
  BY <1>3, <1>4, <1>6
<1>8. t \in Seq(N)
  BY <1>3, <1>4
<1>9. DOMAIN t = 1 .. Len(t) /\ \A i \in 1 .. Len(t) : t[i] \in N
  BY <1>8
<1> QED BY <1>5, <1>6, <1>7, <1>8, <1>9

(* An entry that has been worked off leaves its list.                      *)
UseLeft(S, ph)    == [S EXCEPT !.ul = Front(S.ul), !.ph = ph]
DefineLeft(S, ph) == [S EXCEPT !.dl = Front(S.dl), !.ph = ph]
InstLeft(S, ph)   == [S EXCEPT !.il = Front(S.il), !.ph = ph]

(* A use leaves the tail of its list.                                      *)
LEMMA UseDone ==
  ASSUME NEW S, Shape(S), S.ul # <<>>, NEW ph \in {"use", "def", "inst"},
         NEW T, T = UseLeft(S, ph)
  PROVE  /\ Shape(T) /\ T.core = S.core /\ T.tr = S.tr /\ T.um = S.um /\ T.out = S.out
         /\ T.dl = S.dl /\ T.il = S.il /\ Len(T.ul) = Len(S.ul) - 1
         /\ T.cur = S.cur /\ T.resolving = S.resolving
<1>1. /\ T.core = S.core /\ T.tr = S.tr /\ T.um = S.um /\ T.out = S.out /\ T.rec = S.rec
      /\ T.dl = S.dl /\ T.il = S.il /\ T.ul = Front(S.ul) /\ T.cur = S.cur
      /\ T.resolving = S.resolving /\ T.ph = ph /\ Fields(T)
  BY DEF Shape, Fields, UseLeft
<1>2. S.ul \in Seq(Ids(S)) /\ \A i, j \in 1 .. Len(S.ul) : S.ul[i] = S.ul[j] => i = j
  BY DEF Shape, Uses, Queue, Once
<1>3. /\ T.ul \in Seq(Ids(S)) /\ Len(T.ul) = Len(S.ul) - 1 /\ DOMAIN T.ul = 1 .. Len(T.ul)
      /\ \A i \in 1 .. Len(T.ul) : i \in 1 .. Len(S.ul) /\ T.ul[i] = S.ul[i] /\ T.ul[i] \in Ids(S)
  BY <1>1, <1>2, FrontList
<1>5. Ids(T) = Ids(S)
  BY <1>1 DEF Ids
<1>6. Queue(T, T.ul)
  <2>1. \A i, j \in 1 .. Len(T.ul) : T.ul[i] = T.ul[j] => i = j
    BY <1>2, <1>3
  <2> QED BY <1>3, <1>5, <2>1 DEF Queue, Once, Ids
<1>7. Uses(T)
  BY <1>1, <1>3, <1>6 DEF Shape, Uses
<1>8. Core(T) /\ Defs(T) /\ Insts(T)
  BY <1>1, <1>5 DEF Shape, Core, Defs, Insts, Queue, Once
<1> QED BY <1>1, <1>3, <1>7, <1>8 DEF Shape

(* A define leaves the tail of its list.                                   *)
LEMMA DefineDone ==
  ASSUME NEW S, Shape(S), S.dl # <<>>, NEW ph \in {"use", "def", "inst"},
         NEW T, T = DefineLeft(S, ph)
  PROVE  /\ Shape(T) /\ T.core = S.core /\ T.tr = S.tr /\ T.um = S.um /\ T.out = S.out
         /\ T.ul = S.ul /\ T.il = S.il /\ Len(T.dl) = Len(S.dl) - 1
         /\ T.cur = S.cur /\ T.resolving = S.resolving
<1>1. /\ T.core = S.core /\ T.tr = S.tr /\ T.um = S.um /\ T.out = S.out /\ T.rec = S.rec
      /\ T.ul = S.ul /\ T.il = S.il /\ T.dl = Front(S.dl) /\ T.cur = S.cur
      /\ T.resolving = S.resolving /\ T.ph = ph /\ Fields(T)
  BY DEF Shape, Fields, DefineLeft
<1>2. S.dl \in Seq(Ids(S)) /\ \A i, j \in 1 .. Len(S.dl) : S.dl[i] = S.dl[j] => i = j
  BY DEF Shape, Defs, Queue, Once
<1>3. /\ T.dl \in Seq(Ids(S)) /\ Len(T.dl) = Len(S.dl) - 1 /\ DOMAIN T.dl = 1 .. Len(T.dl)
      /\ \A i \in 1 .. Len(T.dl) : i \in 1 .. Len(S.dl) /\ T.dl[i] = S.dl[i] /\ T.dl[i] \in Ids(S)
  BY <1>1, <1>2, FrontList
<1>5. Ids(T) = Ids(S)
  BY <1>1 DEF Ids
<1>6. Queue(T, T.dl)
  <2>1. \A i, j \in 1 .. Len(T.dl) : T.dl[i] = T.dl[j] => i = j
    BY <1>2, <1>3
  <2> QED BY <1>3, <1>5, <2>1 DEF Queue, Once, Ids
<1>7. Defs(T)
  BY <1>1, <1>3, <1>6 DEF Shape, Defs
<1>8. Core(T) /\ Uses(T) /\ Insts(T)
  BY <1>1, <1>5 DEF Shape, Core, Uses, Insts, Queue, Once
<1> QED BY <1>1, <1>3, <1>7, <1>8 DEF Shape

(* An instruction leaves the tail of its list.                             *)
LEMMA InstDone ==
  ASSUME NEW S, Shape(S), S.il # <<>>, NEW ph \in {"use", "def", "inst"},
         NEW T, T = InstLeft(S, ph)
  PROVE  /\ Shape(T) /\ T.core = S.core /\ T.tr = S.tr /\ T.um = S.um /\ T.out = S.out
         /\ T.ul = S.ul /\ T.dl = S.dl /\ Len(T.il) = Len(S.il) - 1
         /\ T.cur = S.cur /\ T.resolving = S.resolving
         /\ \A i \in 1 .. Len(T.il) : T.il[i] = S.il[i] /\ i \in 1 .. Len(S.il)
<1>1. /\ T.core = S.core /\ T.tr = S.tr /\ T.um = S.um /\ T.out = S.out /\ T.rec = S.rec
      /\ T.ul = S.ul /\ T.dl = S.dl /\ T.il = Front(S.il) /\ T.cur = S.cur
      /\ T.resolving = S.resolving /\ T.ph = ph /\ Fields(T)
  BY DEF Shape, Fields, InstLeft
<1>2. S.il \in Seq(Ids(S)) /\ \A i, j \in 1 .. Len(S.il) : S.il[i] = S.il[j] => i = j
  BY DEF Shape, Insts, Queue, Once
<1>3. /\ T.il \in Seq(Ids(S)) /\ Len(T.il) = Len(S.il) - 1 /\ DOMAIN T.il = 1 .. Len(T.il)
      /\ \A i \in 1 .. Len(T.il) : i \in 1 .. Len(S.il) /\ T.il[i] = S.il[i] /\ T.il[i] \in Ids(S)
  BY <1>1, <1>2, FrontList
<1>5. Ids(T) = Ids(S)
  BY <1>1 DEF Ids
<1>6. Queue(T, T.il)
  <2>1. \A i, j \in 1 .. Len(T.il) : T.il[i] = T.il[j] => i = j
    BY <1>2, <1>3
  <2> QED BY <1>3, <1>5, <2>1 DEF Queue, Once, Ids
<1>7. Insts(T)
  BY <1>1, <1>3, <1>6 DEF Shape, Insts
<1>8. Core(T) /\ Uses(T) /\ Defs(T)
  BY <1>1, <1>5 DEF Shape, Core, Uses, Defs, Queue, Once
<1> QED BY <1>1, <1>3, <1>7, <1>8 DEF Shape

(* What holds of every instruction but those that are still to be worked   *)
(* on: nothing known of it differs from the log.                           *)
Has(list, n)  == \E i \in 1 .. Len(list) : list[i] = n
Pending(S, p) == Has(S.il, p)
Logged(S) ==
  S.out = "ok" => \A p \in Ids(S) : IsInst(S.core[p]) => Agrees(S, p) \/ Pending(S, p)

(* A turn learns something or leaves less to do.                           *)
Onward(S, T) ==
  \/ Gain(S, T)
  \/ Len(T.ul) + Len(T.dl) < Len(S.ul) + Len(S.dl)
  \/ T.ul = S.ul /\ T.dl = S.dl /\ Len(T.il) < Len(S.il)
Turn(S, T) ==
  /\ Sane(T) /\ T.tr = S.tr /\ T.cur = S.cur /\ T.resolving = S.resolving
  /\ Len(T.core) = Len(S.core)
  /\ \A n \in Ids(S) : NodeLater(S.core[n], T.core[n])
  /\ Onward(S, T)
  /\ Logged(S) => Logged(T)

(* What the loops take from a list is a node of its kind.                  *)
LEMMA TakenFrom ==
  ASSUME NEW S, Shape(S)
  PROVE  /\ S.ul # <<>> => Last(S.ul) \in Ids(S) /\ IsUse(S.core[Last(S.ul)])
         /\ S.dl # <<>> => Last(S.dl) \in Ids(S) /\ IsDef(S.core[Last(S.dl)])
         /\ S.il # <<>> => Last(S.il) \in Ids(S) /\ IsInst(S.core[Last(S.il)])
<1>1. ASSUME NEW s \in Seq(Ids(S)), s # <<>>
      PROVE  Last(s) = s[Len(s)] /\ Len(s) \in 1 .. Len(s) /\ s[Len(s)] \in Ids(S)
  <2>1. Len(s) \in Nat /\ Len(s) # 0
    BY <1>1, EmptySeq
  <2> QED BY <1>1, <2>1 DEF Last
<1>2. S.ul \in Seq(Ids(S)) /\ S.dl \in Seq(Ids(S)) /\ S.il \in Seq(Ids(S))
  BY DEF Shape, Uses, Defs, Insts, Queue
<1> QED BY <1>1, <1>2 DEF Shape, Uses, Defs, Insts

(* A list that grows at its head is not empty when it was not.             *)
LEMMA StillThere ==
  ASSUME NEW N, NEW s \in Seq(N), NEW t \in Seq(N), Extends(s, t)
  PROVE  /\ Len(s) \in Nat /\ Len(t) \in Nat /\ Len(s) <= Len(t)
         /\ s # <<>> => t # <<>>
         /\ \A n : Has(s, n) => Has(t, n)
<1>1. Len(s) \in Nat /\ Len(t) \in Nat /\ Len(s) <= Len(t)
  BY DEF Extends
<1>2. s # <<>> => t # <<>>
  BY <1>1, EmptySeq
<1>3. ASSUME NEW i \in 1 .. Len(s) PROVE \E j \in 1 .. Len(t) : t[j] = s[i]
  <2>1. Len(t) - Len(s) + i \in 1 .. Len(t) /\ t[Len(t) - Len(s) + i] = s[i]
    BY <1>1 DEF Extends
  <2> QED BY <2>1
<1> QED BY <1>1, <1>2, <1>3 DEF Has

(* Logged survives what only adds to the work on instructions.             *)
LEMMA LoggedGrows ==
  ASSUME NEW S, Shape(S), NEW T, Grows(S, T), Logged(S)
  PROVE  Logged(T)
<1>1. SUFFICES ASSUME T.out = "ok", NEW p \in Ids(T), IsInst(T.core[p])
               PROVE  Agrees(T, p) \/ Pending(T, p)
  BY DEF Logged
<1>2. p \in Ids(S) /\ IsInst(S.core[p]) /\ S.out = "ok"
  BY <1>1 DEF Grows, Ids, NodeLater, IsInst
<1>3. CASE Agrees(S, p)
  BY <1>1, <1>2, <1>3 DEF Grows
<1>4. CASE Pending(S, p)
  <2>1. S.il \in Seq(Ids(S)) /\ T.il \in Seq(Ids(S)) /\ Extends(S.il, T.il)
    BY DEF Grows, Shape, Insts, Queue, Ids
  <2>2. \A n : Has(S.il, n) => Has(T.il, n)
    BY <2>1, StillThere
  <2> QED BY <1>4, <2>2 DEF Pending
<1> QED BY <1>2, <1>3, <1>4, <1>1 DEF Logged

(* resolve_use: a turn that changes no address.                            *)
LEMMA UseTurn ==
  ASSUME NEW S, Sane(S), S.ul # <<>>, NEW T, T = resolve_use(S)
  PROVE  /\ Turn(S, T) /\ T.um = S.um
         /\ \A n \in Ids(S) : ~ IsInst(S.core[n]) => T.core[n].addr = S.core[n].addr
<1> DEFINE n == Last(S.ul)
           A == resolve_node(S, n)
           ph == NextPhase(S.ul, "use", "def")
<1>1. n \in Ids(S) /\ ~ IsInst(S.core[n]) /\ Shape(S)
  BY TakenFrom DEF Sane, IsUse, IsInst
<1>2. Tells(S, A)
  BY <1>1, ResolveNodeTells
<1>3. T = UseLeft(A, ph) /\ ph \in {"use", "def", "inst"}
  BY DEF resolve_use, NextPhase, UseLeft
<1> HIDE DEF n, A, ph
<1>4. Grows(S, A) /\ Shape(A) /\ Sane(A)
  BY <1>1, <1>2, AddressedTells, SaneGrows DEF Tells, Grows, Sane
<1>5. /\ S.ul \in Seq(Ids(S)) /\ A.ul \in Seq(Ids(S)) /\ Extends(S.ul, A.ul)
      /\ S.dl \in Seq(Ids(S)) /\ A.dl \in Seq(Ids(S)) /\ Extends(S.dl, A.dl)
  BY <1>1, <1>4 DEF Grows, Shape, Uses, Defs, Queue, Ids
<1>6. A.ul # <<>> /\ Len(S.ul) \in Nat /\ Len(S.dl) \in Nat
  BY <1>5, StillThere
<1>7. /\ Shape(T) /\ T.core = A.core /\ T.tr = A.tr /\ T.um = A.um /\ T.out = A.out
      /\ T.dl = A.dl /\ T.il = A.il /\ Len(T.ul) = Len(A.ul) - 1
      /\ T.cur = A.cur /\ T.resolving = A.resolving
  BY <1>3, <1>4, <1>6, UseDone
<1>8. Sane(T) /\ \A p : Agrees(A, p) => Agrees(T, p)
  BY <1>4, <1>7, SaneFrame
<1>9. Onward(S, T)
  <2>1. CASE Gain(S, A)
    BY <1>7, <2>1 DEF Gain, Onward
  <2>2. CASE A.ul = S.ul /\ A.dl = S.dl
    <3>1. Len(T.ul) = Len(S.ul) - 1 /\ Len(T.dl) = Len(S.dl)
      BY <1>7, <2>2
    <3>2. Len(T.ul) + Len(T.dl) < Len(S.ul) + Len(S.dl)
      <4> DEFINE l == Len(S.ul)
                 m == Len(S.dl)
                 t == Len(T.ul)
                 u == Len(T.dl)
      <4>1. l \in Nat /\ m \in Nat /\ t = l - 1 /\ u = m
        BY <1>6, <3>1
      <4> HIDE DEF l, m, t, u
      <4>2. t + u < l + m
        BY <4>1
      <4> QED BY <4>2 DEF l, m, t, u
    <3> QED BY <3>2 DEF Onward
  <2> QED BY <1>4, <2>1, <2>2 DEF Grows
<1>10. Logged(S) => Logged(T)
  <2>1. Logged(S) => Logged(A)
    BY <1>1, <1>4, LoggedGrows
  <2>2. Logged(A) => Logged(T)
    BY <1>7, <1>8 DEF Logged, Pending, Has, Ids
  <2> QED BY <2>1, <2>2
<1> QED BY <1>2, <1>4, <1>7, <1>8, <1>9, <1>10 DEF Turn, Grows, Tells

(* resolve_define: a turn that changes no address.                         *)
LEMMA DefineTurn ==
  ASSUME NEW S, Sane(S), S.dl # <<>>, NEW T, T = resolve_define(S)
  PROVE  /\ Turn(S, T) /\ T.um = S.um
         /\ \A n \in Ids(S) : ~ IsInst(S.core[n]) => T.core[n].addr = S.core[n].addr
<1> DEFINE n == Last(S.dl)
           A == resolve_node(S, n)
           ph == NextPhase(S.dl, "def", "inst")
<1>1. n \in Ids(S) /\ ~ IsInst(S.core[n]) /\ Shape(S)
  BY TakenFrom DEF Sane, IsDef, IsInst
<1>2. Tells(S, A)
  BY <1>1, ResolveNodeTells
<1>3. T = DefineLeft(A, ph) /\ ph \in {"use", "def", "inst"}
  BY DEF resolve_define, NextPhase, DefineLeft
<1> HIDE DEF n, A, ph
<1>4. Grows(S, A) /\ Shape(A) /\ Sane(A)
  BY <1>1, <1>2, AddressedTells, SaneGrows DEF Tells, Grows, Sane
<1>5. /\ S.ul \in Seq(Ids(S)) /\ A.ul \in Seq(Ids(S)) /\ Extends(S.ul, A.ul)
      /\ S.dl \in Seq(Ids(S)) /\ A.dl \in Seq(Ids(S)) /\ Extends(S.dl, A.dl)
  BY <1>1, <1>4 DEF Grows, Shape, Uses, Defs, Queue, Ids
<1>6. A.dl # <<>> /\ Len(S.ul) \in Nat /\ Len(S.dl) \in Nat
  BY <1>5, StillThere
<1>7. /\ Shape(T) /\ T.core = A.core /\ T.tr = A.tr /\ T.um = A.um /\ T.out = A.out
      /\ T.ul = A.ul /\ T.il = A.il /\ Len(T.dl) = Len(A.dl) - 1
      /\ T.cur = A.cur /\ T.resolving = A.resolving
  BY <1>3, <1>4, <1>6, DefineDone
<1>8. Sane(T) /\ \A p : Agrees(A, p) => Agrees(T, p)
  BY <1>4, <1>7, SaneFrame
<1>9. Onward(S, T)
  <2>1. CASE Gain(S, A)
    BY <1>7, <2>1 DEF Gain, Onward
  <2>2. CASE A.ul = S.ul /\ A.dl = S.dl
    <3>1. Len(T.dl) = Len(S.dl) - 1 /\ Len(T.ul) = Len(S.ul)
      BY <1>7, <2>2
    <3>2. Len(T.ul) + Len(T.dl) < Len(S.ul) + Len(S.dl)
      <4> DEFINE l == Len(S.ul)
                 m == Len(S.dl)
                 t == Len(T.ul)
                 u == Len(T.dl)
      <4>1. l \in Nat /\ m \in Nat /\ u = m - 1 /\ t = l
        BY <1>6, <3>1
      <4> HIDE DEF l, m, t, u
      <4>2. t + u < l + m
        BY <4>1
      <4> QED BY <4>2 DEF l, m, t, u
    <3> QED BY <3>2 DEF Onward
  <2> QED BY <1>4, <2>1, <2>2 DEF Grows
<1>10. Logged(S) => Logged(T)
  <2>1. Logged(S) => Logged(A)
    BY <1>1, <1>4, LoggedGrows
  <2>2. Logged(A) => Logged(T)
    BY <1>7, <1>8 DEF Logged, Pending, Has, Ids
  <2> QED BY <2>1, <2>2
<1> QED BY <1>2, <1>4, <1>7, <1>8, <1>9, <1>10 DEF Turn, Grows, Tells

(* resolve_inst: a turn that does to the nodes what the resolver does.     *)
LEMMA InstTurn ==
  ASSUME NEW S, Sane(S), S.il # <<>>, NEW T, T = resolve_inst(S)
  PROVE  /\ Turn(S, T)
         /\ LET A == inst_resolver(S, Last(S.il)) IN T.um = A.um /\ T.core = A.core
<1> DEFINE p == Last(S.il)
           A == inst_resolver(S, p)
           ph == NextPhase(S.il, "inst", "use")
           B == InstLeft(A, ph)
<1>1. p \in Ids(S) /\ IsInst(S.core[p]) /\ Shape(S)
  BY TakenFrom DEF Sane
<1>2. Grows(S, A) /\ Addressed(A) /\ A.il = S.il
  BY <1>1, InstResolverGrows
<1>3. T = correctness_check(B, p)
  BY DEF resolve_inst, InstLeft
<1>4. ph \in {"use", "def", "inst"} /\ B = InstLeft(A, ph)
  BY DEF NextPhase
<1>5. p = S.il[Len(S.il)]
  BY DEF Last
<1>6. \A U : U = inst_resolver(S, Last(S.il)) => U = A
  OBVIOUS
<1> HIDE DEF A, B, ph, p
<1>7. Shape(A) /\ Sane(A)
  BY <1>1, <1>2, SaneGrows DEF Grows, Sane
<1>8. /\ S.ul \in Seq(Ids(S)) /\ A.ul \in Seq(Ids(S)) /\ Extends(S.ul, A.ul)
      /\ S.dl \in Seq(Ids(S)) /\ A.dl \in Seq(Ids(S)) /\ Extends(S.dl, A.dl)
      /\ S.il \in Seq(Ids(S))
  BY <1>1, <1>2 DEF Grows, Shape, Uses, Defs, Insts, Queue, Ids
<1>9. Len(S.ul) \in Nat /\ Len(S.dl) \in Nat /\ Len(S.il) \in Nat /\ Len(S.il) # 0
  BY <1>8, EmptySeq
<1>10. /\ Shape(B) /\ B.core = A.core /\ B.tr = A.tr /\ B.um = A.um /\ B.out = A.out
       /\ B.ul = A.ul /\ B.dl = A.dl /\ Len(B.il) = Len(A.il) - 1
       /\ B.cur = A.cur /\ B.resolving = A.resolving
       /\ \A i \in 1 .. Len(B.il) : B.il[i] = A.il[i] /\ i \in 1 .. Len(A.il)
  BY <1>2, <1>4, <1>7, InstDone
<1>11. Sane(B) /\ \A q : Agrees(A, q) => Agrees(B, q)
  BY <1>7, <1>10, SaneFrame
<1>12. /\ Tells(B, T) /\ T.core = B.core /\ T.il = B.il /\ T.ul = B.ul /\ T.dl = B.dl
       /\ T.out = "ok" => Agrees(B, p) /\ B.out = "ok" /\ T = B
  BY <1>3, <1>10, CheckTells
<1>13. Sane(T)
  BY <1>11, <1>12, AddressedTells, SaneGrows DEF Tells, Sane
<1>14. Onward(S, T)
  <2>1. CASE Gain(S, A)
    BY <1>10, <1>12, <2>1 DEF Gain, Onward
  <2>2. CASE A.ul = S.ul /\ A.dl = S.dl
    <3>1. T.ul = S.ul /\ T.dl = S.dl /\ Len(T.il) = Len(S.il) - 1
      BY <1>2, <1>10, <1>12, <2>2
    <3>2. Len(T.il) < Len(S.il)
      BY <1>9, <3>1
    <3> QED BY <3>1, <3>2 DEF Onward
  <2> QED BY <1>2, <2>1, <2>2 DEF Grows
<1>15. ASSUME Logged(S), T.out = "ok", NEW q \in Ids(T), IsInst(T.core[q])
       PROVE  Agrees(T, q) \/ Pending(T, q)
  <2>1. T = B /\ Agrees(B, p) /\ A.out = "ok"
    BY <1>10, <1>12, <1>15
  <2>2. q \in Ids(A) /\ IsInst(A.core[q]) /\ Logged(A)
    BY <1>1, <1>2, <1>10, <1>15, <2>1, LoggedGrows DEF Ids
  <2>3. CASE Agrees(A, q)
    BY <1>11, <2>1, <2>3
  <2>4. CASE Pending(A, q)
    <3>1. PICK i \in 1 .. Len(A.il) : A.il[i] = q
      BY <2>4 DEF Pending, Has
    <3>2. CASE i = Len(A.il)
      BY <1>2, <1>5, <2>1, <3>1, <3>2
    <3>3. CASE i # Len(A.il)
      <4>1. i \in 1 .. Len(B.il)
        BY <1>2, <1>9, <1>10, <3>3
      <4> QED BY <1>10, <2>1, <3>1, <4>1 DEF Pending, Has
    <3> QED BY <3>2, <3>3
  <2> QED BY <2>1, <2>2, <2>3, <2>4 DEF Logged
<1>16. Logged(S) => Logged(T)
  BY <1>15 DEF Logged
<1>17. T.um = A.um /\ T.core = A.core
  BY <1>10, <1>12 DEF Tells
<1>18. /\ T.tr = S.tr /\ T.cur = S.cur /\ T.resolving = S.resolving
       /\ Len(T.core) = Len(S.core) /\ \A n \in Ids(S) : NodeLater(S.core[n], T.core[n])
  BY <1>2, <1>10, <1>12 DEF Grows, Tells
<1> QED BY <1>13, <1>14, <1>16, <1>17, <1>18 DEF Turn, A, p

-----------------------------------------------------------------------------
(***************************************************************************)
(* A new instruction.  It gets its nodes while no work is waiting.         *)
(***************************************************************************)
Same(S, T) == /\ T.tr = S.tr /\ T.um = S.um /\ T.cur = S.cur
              /\ T.resolving = S.resolving /\ T.ph = S.ph
Prefix(S, T) == Len(S.core) <= Len(T.core) /\ \A n \in Ids(S) : T.core[n] = S.core[n]
Added(S, T) ==
  /\ Shape(T) /\ Quiet(T) /\ Same(S, T) /\ Prefix(S, T)
  /\ \A n \in Len(S.core) + 1 .. Len(T.core) : ~ IsInst(T.core[n]) /\ T.core[n].addr = 0

(* A list with one more member.                                            *)
LEMMA ListAppend ==
  ASSUME NEW s, IsList(s), NEW y
  PROVE  LET t == Append(s, y)
         IN  /\ IsList(t) /\ Len(t) = Len(s) + 1 /\ t[Len(s) + 1] = y /\ t # <<>>
             /\ Len(s) \in Nat /\ \A m \in 1 .. Len(s) : t[m] = s[m]
<1>1. PICK X : s \in Seq(X)
  BY DEF IsList
<1> DEFINE t == Append(s, y)
<1>2. s \in Seq(X \cup {y}) /\ Len(s) \in Nat
  <2>1. Len(s) \in Nat /\ s \in [1 .. Len(s) -> X]
    BY <1>1
  <2> QED BY <1>1, <2>1
<1>3. t \in Seq(X \cup {y}) /\ Len(t) = Len(s) + 1 /\ t[Len(s) + 1] = y
      /\ \A m \in 1 .. Len(s) : t[m] = s[m]
  BY <1>2, AppendProperties
<1>4. t # <<>>
  BY <1>2, <1>3, EmptySeq
<1> QED BY <1>2, <1>3, <1>4 DEF IsList

(* One more node.                                                          *)
LEMMA AppendNode ==
  ASSUME NEW S, Shape(S), Quiet(S), NEW x, NodeShape(x), S.core # <<>> \/ IsInst(x),
         NEW T, T = [S EXCEPT !.core = Append(S.core, x)]
  PROVE  /\ Shape(T) /\ Quiet(T) /\ Same(S, T) /\ Prefix(S, T) /\ T.out = S.out
         /\ Len(T.core) = Len(S.core) + 1 /\ T.core[Len(S.core) + 1] = x
<1>1. /\ T.core = Append(S.core, x) /\ T.dl = S.dl /\ T.ul = S.ul /\ T.il = S.il
      /\ T.out = S.out /\ Same(S, T) /\ Fields(T)
  BY DEF Shape, Fields, Same
<1>2. /\ IsList(T.core) /\ Len(T.core) = Len(S.core) + 1 /\ T.core[Len(S.core) + 1] = x
      /\ Len(S.core) \in Nat /\ \A m \in 1 .. Len(S.core) : T.core[m] = S.core[m]
  BY <1>1, ListAppend DEF Shape, Core
<1>3. \A n \in Ids(T) : n \in Ids(S) \/ n = Len(S.core) + 1
  BY <1>2 DEF Ids
<1>4. Core(T)
  <2>1. \A n \in Ids(T) : NodeShape(T.core[n])
    BY <1>2, <1>3 DEF Shape, Core, Ids
  <2>2. IsInst(T.core[1])
    <3>1. CASE S.core = <<>>
      BY <1>2, <3>1
    <3>2. CASE S.core # <<>>
      <4>1. 1 \in 1 .. Len(S.core)
        BY <1>2, <3>2, EmptySeq DEF Shape, Core, IsList
      <4> QED BY <1>2, <3>2, <4>1 DEF Shape, Core
    <3> QED BY <3>1, <3>2
  <2> QED BY <1>2, <2>1, <2>2 DEF Core
<1>5. T.dl = <<>> /\ T.ul = <<>> /\ T.il = <<>>
  BY <1>1 DEF Quiet
<1>6. Uses(T) /\ Defs(T) /\ Insts(T)
  <2>1. \A N : <<>> \in Seq(N) /\ Len(<<>>) = 0 /\ DOMAIN <<>> = {}
    BY EmptySeq
  <2>2. 1 .. Len(<<>>) = {}
    BY <2>1
  <2> QED BY <1>5, <2>1, <2>2 DEF Uses, Defs, Insts, Queue, Once
<1>7. Prefix(S, T)
  BY <1>2 DEF Prefix, Ids
<1> QED BY <1>1, <1>2, <1>4, <1>5, <1>6, <1>7 DEF Shape, Quiet

(* An assignment touches one side of one node.                             *)
LEMMA AssignOnly ==
  ASSUME NEW S, Shape(S), NEW n \in Ids(S), NEW side, Fits(S.core[n], side), NEW v,
         NEW T, T = assign_value(S, n, side, v)
  PROVE  /\ \A m \in Ids(S) : m # n => T.core[m] = S.core[m]
         /\ \A s \in {"bef", "aft"} : s # side /\ IsDef(S.core[n]) => T.core[n][s] = S.core[n][s]
         /\ T.core[n][side] = Fitted(S, n, v)
<1> DEFINE w == Fitted(S, n, v)
           p == find_inst_of_node(S, n)
           P == Put(S, n, side, w)
<1>1. T = correctness_check(P, p)
  BY DEF assign_value, Put
<1>2. ~ IsInst(S.core[n])
  BY DEF Fits, IsInst, IsUse, IsDef
<1>3. w # <<>>
  BY <1>2, FittedKnown
<1> HIDE DEF w, p
<1>4. /\ P.core[n] = [S.core[n] EXCEPT ![side] = w]
      /\ \A m \in Ids(S) : m # n => P.core[m] = S.core[m]
  BY <1>3, PutState
<1>5. T.core = P.core
  BY <1>1 DEF correctness_check, fail
<1>6. NodeShape(S.core[n])
  BY DEF Shape, Core
<1>7. /\ P.core[n][side] = w
      /\ \A s \in {"bef", "aft"} : s # side /\ IsDef(S.core[n]) => P.core[n][s] = S.core[n][s]
  <2>1. CASE IsUse(S.core[n])
    BY <1>4, <1>6, <2>1 DEF IsUse, IsDef, IsInst, Fits, NodeShape, InstShape, DefShape, UseShape
  <2>2. CASE IsDef(S.core[n]) /\ side = "bef"
    BY <1>4, <1>6, <2>2 DEF IsUse, IsDef, IsInst, Fits, NodeShape, InstShape, DefShape, UseShape
  <2>3. CASE IsDef(S.core[n]) /\ side = "aft"
    BY <1>4, <1>6, <2>3 DEF IsUse, IsDef, IsInst, Fits, NodeShape, InstShape, DefShape, UseShape
  <2> QED BY <2>1, <2>2, <2>3 DEF Fits
<1> QED BY <1>4, <1>5, <1>7 DEF w

Blank(x, side) == x[side] = <<>>
Initial(S, T, n, side) ==
  /\ Shape(T) /\ Quiet(T) /\ Same(S, T) /\ Len(T.core) = Len(S.core)
  /\ \A m \in Ids(S) : m # n => T.core[m] = S.core[m]
  /\ NodeLater(S.core[n], T.core[n]) /\ T.core[n].addr = S.core[n].addr
  /\ side = "aft" /\ IsDef(S.core[n]) => T.core[n].bef = S.core[n].bef

(* The value of the newest node: from the core dump, or from the next      *)
(* define of its register.                                                 *)
LEMMA TakeInitial ==
  ASSUME NEW S, Shape(S), Quiet(S), NEW n \in Ids(S), NEW side, Fits(S.core[n], side),
         Blank(S.core[n], side), NEW T, T = take_initial(S, n, side)
  PROVE  Initial(S, T, n, side)
<1> DEFINE place == PlaceOf(S.core[n])
           nd == find_next(S, n, place, "def")
           w == get_regval_from_coredump(S, place)
<1>1. T = take_from_next(S, n, side, nd, place)
  BY DEF take_initial
<1>0. S.core[n][side] = <<>>
  BY DEF Blank
<1>2. ~ IsInst(S.core[n]) /\ NodeShape(S.core[n])
  BY DEF Fits, IsInst, IsUse, IsDef, Shape, Core
<1>3. place.t = "reg" => w # <<>>
  <2>1. ASSUME place.t = "reg" PROVE place.size \in Nat \ {0}
    <3>1. ~ node_is_exp(S.core[n])
      BY <2>1 DEF PlaceOf
    <3> QED BY <1>2, <2>1, <3>1, OperandsAssumption
            DEF PlaceOf, Full, Reg, NodeShape, InstShape, DefShape, UseShape, IsInst, IsDef, IsUse
  <2>2. w = Slice(ToBytes(DumpOf(S).reg[place.fam], DW), place.lo, place.size)
    BY DEF get_regval_from_coredump, RegValue
  <2> QED BY <2>1, <2>2, SliceKnown
<1> HIDE DEF place, nd, w
<1>4. CASE T = S
  BY <1>4, GrowsRefl DEF Same, Tells, Grows, Initial
<1>5. CASE T = Put(S, n, side, w) /\ place.t = "reg"
  <2>1. w # <<>>
    BY <1>3, <1>5
  <2> DEFINE p == find_inst_of_node(S, n)
  <2>2. /\ Shape(T) /\ SameKinds(S, T) /\ T = [S EXCEPT !.core = T.core]
        /\ \A m \in Ids(S) : NodeLater(S.core[m], T.core[m])
        /\ \A m \in Ids(S) : ~ IsInst(S.core[m]) => T.core[m].addr = S.core[m].addr
    <3>1. p = find_inst_of_node(S, n)
      OBVIOUS
    <3> HIDE DEF p
    <3> QED BY <1>0, <1>5, <2>1, <3>1, PutTells
  <2>3. /\ T.core[n] = [S.core[n] EXCEPT ![side] = w]
        /\ \A m \in Ids(S) : m # n => T.core[m] = S.core[m]
    BY <1>5, <2>1, PutState
  <2>4. side = "aft" /\ IsDef(S.core[n]) => T.core[n].bef = S.core[n].bef
    <3>1. CASE IsDef(S.core[n])
      BY <1>2, <2>3, <3>1 DEF IsDef, IsInst, IsUse, Fits, NodeShape, InstShape, DefShape, UseShape
    <3> QED BY <3>1
  <2>5. Same(S, T) /\ T.dl = S.dl /\ T.ul = S.ul /\ T.il = S.il
    BY <2>2 DEF Same, Shape, Fields
  <2> QED BY <1>2, <2>2, <2>3, <2>4, <2>5 DEF Quiet, SameKinds, Initial
<1>6. CASE T = assign_value(S, n, side, S.core[nd].bef)
  <2> DEFINE v == S.core[nd].bef
  <2>1. T = assign_value(S, n, side, v)
    BY <1>6
  <2> HIDE DEF v
  <2>2. Tells(S, T) /\ T.il = S.il /\ T.ul = S.ul /\ T.dl = S.dl
    BY <1>0, <2>1, AssignTells
  <2>3. /\ \A m \in Ids(S) : m # n => T.core[m] = S.core[m]
        /\ \A s \in {"bef", "aft"} : s # side /\ IsDef(S.core[n]) => T.core[n][s] = S.core[n][s]
    BY <2>1, AssignOnly
  <2> QED BY <1>2, <2>2, <2>3 DEF Tells, Grows, Same, Quiet, Initial
<1> QED BY <1>1, <1>4, <1>5, <1>6 DEF take_from_next, Put, w

(* What a node that was just created is.                                   *)
NewUse(S, T, o, ut) ==
  LET x == T.core[Len(S.core) + 1]
  IN  /\ Added(S, T) /\ Len(T.core) = Len(S.core) + 1
      /\ IsUse(x) /\ x.o = o /\ x.ut = ut
NewDefine(S, T, o) ==
  LET x == T.core[Len(S.core) + 1]
  IN  /\ Added(S, T) /\ Len(T.core) = Len(S.core) + 1
      /\ IsDef(x) /\ x.o = o /\ x.bef = <<>>

(* add_new_use adds one use, with or without its value.                    *)
LEMMA AddNewUse ==
  ASSUME NEW S, Shape(S), Quiet(S), S.core # <<>>, NEW o, o.size \in Nat \ {0},
         NEW ut \in {"Opd", "Base", "Index"}, NEW T, T = add_new_use(S, o, ut)
  PROVE  NewUse(S, T, o, ut)
<1> DEFINE n == Len(S.core) + 1
<1>0. Len(S.core) \in Nat /\ \A m \in Ids(S) : m # n
  BY CoreLen
<1>1. CASE o.t = "imm"
  <2> DEFINE x == [UseNode(o, ut) EXCEPT !.val = o.v]
  <2>1. NodeShape(x) /\ IsUse(x) /\ x.o = o /\ x.ut = ut /\ ~ IsInst(x) /\ x.addr = 0
    BY DEF UseNode, NodeShape, UseShape, IsUse, IsInst
  <2>2. T = [S EXCEPT !.core = Append(S.core, x)]
    BY <1>1 DEF add_new_use, append_node
  <2> HIDE DEF x
  <2>3. /\ Shape(T) /\ Quiet(T) /\ Same(S, T) /\ Prefix(S, T)
        /\ Len(T.core) = Len(S.core) + 1 /\ T.core[Len(S.core) + 1] = x
    BY <2>1, <2>2, AppendNode
  <2>4. \A m \in Len(S.core) + 1 .. Len(T.core) : m = n
    BY <1>0, <2>3
  <2> QED BY <2>1, <2>3, <2>4 DEF NewUse, Added
<1>2. CASE o.t # "imm"
  <2> DEFINE x == UseNode(o, ut)
             A == append_node(S, x)
  <2>1. /\ NodeShape(x) /\ IsUse(x) /\ x.o = o /\ x.ut = ut /\ ~ IsInst(x) /\ x.addr = 0
        /\ x.val = <<>>
    BY DEF UseNode, NodeShape, UseShape, IsUse, IsInst
  <2>2. T = take_initial(A, n, "val") /\ A = [S EXCEPT !.core = Append(S.core, x)]
    BY <1>2 DEF add_new_use, append_node
  <2> HIDE DEF x, A
  <2>3. /\ Shape(A) /\ Quiet(A) /\ Same(S, A) /\ Prefix(S, A)
        /\ Len(A.core) = Len(S.core) + 1 /\ A.core[n] = x
    BY <2>1, <2>2, AppendNode
  <2>4. n \in Ids(A) /\ Fits(A.core[n], "val") /\ Blank(A.core[n], "val")
    BY <1>0, <2>1, <2>3 DEF Ids, Fits, Blank
  <2>5. /\ Shape(T) /\ Quiet(T) /\ Same(A, T) /\ Len(T.core) = Len(A.core)
        /\ \A m \in Ids(A) : m # n => T.core[m] = A.core[m]
        /\ NodeLater(A.core[n], T.core[n]) /\ T.core[n].addr = A.core[n].addr
    <3>1. Initial(A, T, n, "val")
      <4> HIDE DEF n
      <4> QED BY <2>2, <2>3, <2>4, TakeInitial
    <3> QED BY <3>1 DEF Initial
  <2>6. \A m \in n .. Len(T.core) : m = n
    BY <1>0, <2>3, <2>5
  <2>7. IsUse(T.core[n]) /\ T.core[n].o = o /\ T.core[n].ut = ut /\ ~ IsInst(T.core[n]) /\ T.core[n].addr = 0
    BY <2>1, <2>3, <2>5 DEF NodeLater, Keeps, IsUse, IsInst
  <2>8. Prefix(S, T) /\ Same(S, T)
    <3>1. \A m \in Ids(S) : m \in Ids(A) /\ m # n
      BY <1>0, <2>3 DEF Ids
    <3> QED BY <1>0, <2>3, <2>5, <3>1 DEF Prefix, Same
  <2> QED BY <2>3, <2>5, <2>6, <2>7, <2>8 DEF NewUse, Added
<1> QED BY <1>1, <1>2

(* add_new_define adds one define.                                         *)
LEMMA AddNewDefine ==
  ASSUME NEW S, Shape(S), Quiet(S), S.core # <<>>, NEW o, o.size \in Nat \ {0},
         NEW T, T = add_new_define(S, o)
  PROVE  NewDefine(S, T, o)
<1> DEFINE n == Len(S.core) + 1
           x == DefNode(o)
           A == append_node(S, x)
<1>0. Len(S.core) \in Nat /\ \A m \in Ids(S) : m # n
  BY CoreLen
<1>1. /\ NodeShape(x) /\ IsDef(x) /\ x.o = o /\ ~ IsInst(x) /\ x.addr = 0
      /\ x.bef = <<>> /\ x.aft = <<>>
  BY DEF DefNode, NodeShape, DefShape, IsDef, IsInst
<1>2. T = take_initial(A, n, "aft") /\ A = [S EXCEPT !.core = Append(S.core, x)]
  BY DEF add_new_define, append_node
<1> HIDE DEF x, A
<1>3. /\ Shape(A) /\ Quiet(A) /\ Same(S, A) /\ Prefix(S, A)
      /\ Len(A.core) = Len(S.core) + 1 /\ A.core[n] = x
  BY <1>1, <1>2, AppendNode
<1>4. n \in Ids(A) /\ Fits(A.core[n], "aft") /\ Blank(A.core[n], "aft")
  BY <1>0, <1>1, <1>3 DEF Ids, Fits, Blank
<1>5. /\ Shape(T) /\ Quiet(T) /\ Same(A, T) /\ Len(T.core) = Len(A.core)
      /\ \A m \in Ids(A) : m # n => T.core[m] = A.core[m]
      /\ NodeLater(A.core[n], T.core[n]) /\ T.core[n].addr = A.core[n].addr
      /\ IsDef(A.core[n]) => T.core[n].bef = A.core[n].bef
  <2>1. Initial(A, T, n, "aft")
    <3> HIDE DEF n
    <3> QED BY <1>2, <1>3, <1>4, TakeInitial
  <2> QED BY <2>1 DEF Initial
<1>6. \A m \in n .. Len(T.core) : m = n
  BY <1>0, <1>3, <1>5
<1>7. IsDef(T.core[n]) /\ T.core[n].o = o /\ T.core[n].bef = <<>> /\ ~ IsInst(T.core[n]) /\ T.core[n].addr = 0
  BY <1>1, <1>3, <1>5 DEF NodeLater, Keeps, IsDef, IsInst
<1>8. Prefix(S, T) /\ Same(S, T)
  <2>1. \A m \in Ids(S) : m \in Ids(A) /\ m # n
    BY <1>0, <1>3 DEF Ids
  <2> QED BY <1>0, <1>3, <1>5, <2>1 DEF Prefix, Same
<1> QED BY <1>3, <1>5, <1>6, <1>7, <1>8 DEF NewDefine, Added

(* Nodes added, and then more.                                             *)
LEMMA AddedTrans ==
  ASSUME NEW S, NEW T, NEW U, Shape(S), Added(S, T), Added(T, U)
  PROVE  Added(S, U)
<1>1. Len(S.core) \in Nat /\ Len(T.core) \in Nat /\ Len(U.core) \in Nat
  BY CoreLen DEF Added
<1>2. Same(S, U)
  BY DEF Added, Same
<1>3. \A n \in Ids(S) : n \in Ids(T)
  BY <1>1 DEF Added, Prefix, Ids
<1>4. Prefix(S, U)
  BY <1>1, <1>3 DEF Added, Prefix
<1>5. ASSUME NEW n \in Len(S.core) + 1 .. Len(U.core) PROVE ~ IsInst(U.core[n]) /\ U.core[n].addr = 0
  <2>1. CASE n <= Len(T.core)
    <3>1. n \in Len(S.core) + 1 .. Len(T.core) /\ n \in Ids(T)
      BY <1>1, <2>1 DEF Ids
    <3> QED BY <3>1 DEF Added, Prefix
  <2>2. CASE ~ (n <= Len(T.core))
    <3>1. n \in Len(T.core) + 1 .. Len(U.core)
      BY <1>1, <2>2
    <3> QED BY <3>1 DEF Added
  <2> QED BY <2>1, <2>2
<1> QED BY <1>2, <1>4, <1>5 DEF Added

(* No node added.                                                          *)
LEMMA AddedRefl ==
  ASSUME NEW S, Shape(S), Quiet(S)
  PROVE  Added(S, S)
<1>1. Len(S.core) \in Nat
  BY CoreLen
<1>2. Len(S.core) + 1 .. Len(S.core) = {}
  BY <1>1
<1> QED BY <1>1, <1>2 DEF Added, Same, Prefix

(* The uses of the registers of an address.                                *)
Parts(S, T) ==
  /\ Added(S, T)
  /\ \A n \in Len(S.core) + 1 .. Len(T.core) : IsUse(T.core[n]) /\ T.core[n].ut # "Opd"

(* Parts of an address, and then more.                                     *)
LEMMA PartsTrans ==
  ASSUME NEW S, NEW T, NEW U, Shape(S), Parts(S, T), Parts(T, U)
  PROVE  Parts(S, U)
<1>1. Len(S.core) \in Nat /\ Len(T.core) \in Nat /\ Len(U.core) \in Nat
  BY CoreLen DEF Parts, Added
<1>2. Added(S, U)
  BY AddedTrans DEF Parts
<1>3. ASSUME NEW n \in Len(S.core) + 1 .. Len(U.core) PROVE IsUse(U.core[n]) /\ U.core[n].ut # "Opd"
  <2>1. CASE n <= Len(T.core)
    <3>1. n \in Len(S.core) + 1 .. Len(T.core) /\ n \in Ids(T)
      BY <1>1, <2>1 DEF Ids
    <3> QED BY <3>1 DEF Parts, Added, Prefix
  <2>2. CASE ~ (n <= Len(T.core))
    <3>1. n \in Len(T.core) + 1 .. Len(U.core)
      BY <1>1, <2>2
    <3> QED BY <3>1 DEF Parts
  <2> QED BY <2>1, <2>2
<1> QED BY <1>2, <1>3 DEF Parts

(* The base or the index, if there is one.                                 *)
LEMMA ElementUse ==
  ASSUME NEW S, Shape(S), Quiet(S), S.core # <<>>, NEW o, o.size \in Nat \ {0}, NEW reg,
         NEW ut \in {"Base", "Index"}, NEW T, T = element_use(S, o, reg, ut)
  PROVE  Parts(S, T)
<1>0. Len(S.core) \in Nat
  BY CoreLen
<1>1. CASE reg = NoReg
  <2>1. T = S
    BY <1>1 DEF element_use
  <2>2. Added(S, T) /\ Len(S.core) + 1 .. Len(S.core) = {}
    BY <1>0, <2>1, AddedRefl
  <2> QED BY <2>1, <2>2 DEF Parts
<1>2. CASE reg # NoReg
  <2>1. T = add_new_use(S, o, ut) /\ ut \in {"Opd", "Base", "Index"}
    BY <1>2 DEF element_use
  <2>2. NewUse(S, T, o, ut)
    BY <2>1, AddNewUse
  <2>3. \A n \in Len(S.core) + 1 .. Len(T.core) : n = Len(S.core) + 1
    BY <1>0, <2>2 DEF NewUse
  <2> QED BY <2>2, <2>3 DEF NewUse, Parts
<1> QED BY <1>1, <1>2

(* split_expression_to_use: both.                                          *)
LEMMA SplitParts ==
  ASSUME NEW S, Shape(S), Quiet(S), S.core # <<>>, NEW o, o.size \in Nat \ {0},
         NEW T, T = split_expression_to_use(S, o)
  PROVE  Parts(S, T)
<1>0. Len(S.core) \in Nat
  BY CoreLen
<1>1. CASE o.t # "mem"
  <2>1. T = S
    BY <1>1 DEF split_expression_to_use
  <2>2. Added(S, T) /\ Len(S.core) + 1 .. Len(S.core) = {}
    BY <1>0, <2>1, AddedRefl
  <2> QED BY <2>1, <2>2 DEF Parts
<1>2. CASE o.t = "mem"
  <2> DEFINE A == element_use(S, o, o.base, "Base")
             base == o.base
             index == o.index
  <2>1. A = element_use(S, o, base, "Base") /\ T = element_use(A, o, index, "Index")
    BY <1>2 DEF split_expression_to_use
  <2> HIDE DEF A, base, index
  <2>2. Parts(S, A)
    BY <2>1, ElementUse
  <2>3. Shape(A) /\ Quiet(A) /\ A.core # <<>>
    <3>1. Len(A.core) \in Nat /\ Len(S.core) # 0 /\ Len(S.core) <= Len(A.core)
      BY <1>0, <2>2, CoreLen, EmptySeq DEF Parts, Added, Prefix, Shape, Core, IsList
    <3>2. Len(<<>>) = 0
      BY EmptySeq
    <3> QED BY <1>0, <2>2, <3>1, <3>2 DEF Parts, Added
  <2>4. Parts(A, T)
    BY <2>1, <2>3, ElementUse
  <2> QED BY <2>2, <2>4, PartsTrans
<1> QED BY <1>1, <1>2

(* One entry of a handler's table: the node of the operand, which comes    *)
(* first, and the uses of its registers.                                   *)
Entry(e) == /\ e.node \in {"def", "use", "lone_def", "elements", "esp"}
            /\ e.o.size \in Nat \ {0}
HeadNode(x, e) == IF e.node = "use" THEN IsUse(x) /\ x.ut = "Opd" /\ x.o = e.o
              ELSE IsDef(x) /\ x.o = e.o
AddsNode(S, T, e) ==
  /\ Added(S, T)
  /\ e.node # "elements" =>
       Len(S.core) + 1 \in Ids(T) /\ HeadNode(T.core[Len(S.core) + 1], e)
  /\ \A n \in Len(S.core) + 1 .. Len(T.core) :
       e.node = "elements" \/ n # Len(S.core) + 1 => IsUse(T.core[n]) /\ T.core[n].ut # "Opd"

(* The node of an operand first, the uses of its registers after it.       *)
LEMMA HeadThenParts ==
  ASSUME NEW S, Shape(S), NEW A, NEW T, NEW e, e.node # "elements", Added(S, A), Parts(A, T),
         Len(A.core) = Len(S.core) + 1, HeadNode(A.core[Len(S.core) + 1], e)
  PROVE  AddsNode(S, T, e)
<1>1. Len(S.core) \in Nat /\ Len(A.core) \in Nat /\ Len(T.core) \in Nat
      /\ Len(A.core) <= Len(T.core)
  BY CoreLen DEF Parts, Added, Prefix
<1>2. Added(S, T)
  BY AddedTrans DEF Parts
<1>3. Len(S.core) + 1 \in Ids(A) /\ Len(S.core) + 1 \in Ids(T)
  BY <1>1 DEF Ids
<1>4. T.core[Len(S.core) + 1] = A.core[Len(S.core) + 1]
  BY <1>3 DEF Parts, Added, Prefix
<1>5. ASSUME NEW n \in Len(S.core) + 1 .. Len(T.core), n # Len(S.core) + 1
      PROVE  IsUse(T.core[n]) /\ T.core[n].ut # "Opd"
  <2>1. n \in Len(A.core) + 1 .. Len(T.core)
    BY <1>1, <1>5
  <2> QED BY <2>1 DEF Parts
<1> QED BY <1>2, <1>3, <1>4, <1>5 DEF AddsNode

OnlyDefine(S, T, o) ==
  /\ Added(S, T) /\ Len(T.core) = Len(S.core) + 1
  /\ IsDef(T.core[Len(S.core) + 1]) /\ T.core[Len(S.core) + 1].o = o

(* before_from_after adds nothing and changes the new define only.         *)
LEMMA BeforeFromAfter ==
  ASSUME NEW S, Shape(S), S.core # <<>>, NEW o, NEW A, NewDefine(S, A, o),
         NEW n, n = Len(S.core) + 1, NEW by, NEW T, T = before_from_after(A, n, by)
  PROVE  OnlyDefine(S, T, o)
<1>0. Len(S.core) \in Nat /\ \A m \in Ids(S) : m # n
  BY CoreLen
<1>1. CASE T = A
  BY <1>1 DEF NewDefine, OnlyDefine
<1>2. CASE T # A
  <2> DEFINE v == ToBytes(Minus(ToNum(A.core[n].aft), by), DW)
  <2>1. T = assign_value(A, n, "bef", v)
    BY <1>2 DEF before_from_after
  <2> HIDE DEF v
  <2>2. Shape(A) /\ n \in Ids(A) /\ Fits(A.core[n], "bef") /\ A.core[n]["bef"] = <<>>
        /\ IsDef(A.core[n]) /\ A.core[n].o = o /\ A.core[n].addr = 0 /\ Quiet(A)
        /\ Len(A.core) = n /\ Prefix(S, A) /\ Same(S, A)
    <3>1. n \in Len(S.core) + 1 .. Len(A.core)
      BY <1>0 DEF NewDefine
    <3> QED BY <1>0, <3>1 DEF NewDefine, Added, Ids, Fits
  <2>3. Tells(A, T) /\ T.il = A.il /\ T.ul = A.ul /\ T.dl = A.dl
    BY <2>1, <2>2, AssignTells
  <2>4. \A m \in Ids(A) : m # n => T.core[m] = A.core[m]
    BY <2>1, <2>2, AssignOnly
  <2>5. /\ Shape(T) /\ Quiet(T) /\ Len(T.core) = Len(A.core)
        /\ IsDef(T.core[n]) /\ T.core[n].o = o /\ T.core[n].addr = 0
    BY <2>2, <2>3 DEF Tells, Grows, NodeLater, Keeps, IsDef, IsInst, Quiet
  <2>6. Same(S, T)
    BY <2>2, <2>3 DEF Same, Tells, Grows
  <2>7. Prefix(S, T)
    <3>1. \A m \in Ids(S) : m \in Ids(A) /\ m # n
      BY <1>0, <2>2 DEF Ids
    <3> QED BY <1>0, <2>2, <2>4, <2>5, <3>1 DEF Prefix
  <2>8. \A m \in Len(S.core) + 1 .. Len(T.core) : m = n
    BY <1>0, <2>2, <2>5
  <2> QED BY <2>2, <2>5, <2>6, <2>7, <2>8 DEF Added, IsDef, IsInst, OnlyDefine
<1> QED BY <1>1, <1>2

(* Every kind of entry adds its node and nothing but uses of registers.    *)
LEMMA AddNewNode ==
  ASSUME NEW S, Shape(S), Quiet(S), S.core # <<>>, NEW e, Entry(e), NEW T, T = add_new_node(S, e)
  PROVE  AddsNode(S, T, e)
<1> DEFINE o == e.o
<1>0. Len(S.core) \in Nat /\ o.size \in Nat \ {0}
  BY CoreLen DEF Entry
<1>1. \A A : Added(S, A) => Shape(A) /\ Quiet(A) /\ A.core # <<>>
  <2>1. ASSUME NEW A, Added(S, A) PROVE A.core # <<>>
    <3>1. Len(A.core) \in Nat /\ Len(S.core) # 0 /\ Len(S.core) <= Len(A.core)
      BY <1>0, <2>1, CoreLen, EmptySeq DEF Added, Prefix, Shape, Core, IsList
    <3>2. Len(<<>>) = 0
      BY EmptySeq
    <3> QED BY <1>0, <3>1, <3>2
  <2> QED BY <2>1 DEF Added
<1>2. CASE e.node = "def"
  <2> DEFINE A == add_new_define(S, o)
  <2>1. T = split_expression_to_use(A, o) /\ A = add_new_define(S, o)
    BY <1>2 DEF add_new_node
  <2> HIDE DEF A, o
  <2>2. NewDefine(S, A, o)
    BY <1>0, <2>1, AddNewDefine
  <2>3. Parts(A, T)
    BY <1>0, <1>1, <2>1, <2>2, SplitParts DEF NewDefine
  <2>4. e.node # "elements" /\ Added(S, A) /\ Len(A.core) = Len(S.core) + 1
        /\ HeadNode(A.core[Len(S.core) + 1], e)
    BY <1>2, <2>2 DEF NewDefine, HeadNode, o
  <2> QED BY <2>3, <2>4, HeadThenParts
<1>3. CASE e.node = "use"
  <2> DEFINE A == add_new_use(S, o, "Opd")
  <2>1. T = split_expression_to_use(A, o) /\ A = add_new_use(S, o, "Opd")
    BY <1>3 DEF add_new_node
  <2> HIDE DEF A, o
  <2>2. NewUse(S, A, o, "Opd")
    BY <1>0, <2>1, AddNewUse
  <2>3. Parts(A, T)
    BY <1>0, <1>1, <2>1, <2>2, SplitParts DEF NewUse
  <2>4. e.node # "elements" /\ Added(S, A) /\ Len(A.core) = Len(S.core) + 1
        /\ HeadNode(A.core[Len(S.core) + 1], e)
    BY <1>3, <2>2 DEF NewUse, HeadNode, o
  <2> QED BY <2>3, <2>4, HeadThenParts
<1>4. CASE e.node = "lone_def"
  <2>1. T = add_new_define(S, o)
    BY <1>4 DEF add_new_node
  <2> HIDE DEF o
  <2>2. NewDefine(S, T, o)
    BY <1>0, <2>1, AddNewDefine
  <2>3. Len(S.core) + 1 \in Ids(T) /\ \A n \in Len(S.core) + 1 .. Len(T.core) : n = Len(S.core) + 1
    BY <1>0, <2>2 DEF NewDefine, Ids
  <2> QED BY <1>4, <2>2, <2>3 DEF NewDefine, AddsNode, HeadNode, o
<1>5. CASE e.node = "elements"
  <2>1. T = split_expression_to_use(S, o)
    BY <1>5 DEF add_new_node
  <2> HIDE DEF o
  <2>2. Parts(S, T)
    BY <1>0, <2>1, SplitParts
  <2> QED BY <1>5, <2>2 DEF Parts, AddsNode
<1>6. CASE e.node = "esp"
  <2> DEFINE A == add_new_define(S, o)
             by == e.by
  <2>1. T = before_from_after(A, Len(S.core) + 1, by) /\ A = add_new_define(S, o)
    BY <1>6 DEF add_new_node
  <2> HIDE DEF A, o, by
  <2>2. NewDefine(S, A, o)
    BY <1>0, <2>1, AddNewDefine
  <2>3. OnlyDefine(S, T, o)
    <3> DEFINE n == Len(S.core) + 1
    <3>1. n = Len(S.core) + 1 /\ T = before_from_after(A, n, by)
      BY <2>1
    <3> HIDE DEF n
    <3> QED BY <2>2, <3>1, BeforeFromAfter
  <2>4. Len(S.core) + 1 \in Ids(T) /\ \A n \in Len(S.core) + 1 .. Len(T.core) : n = Len(S.core) + 1
    BY <1>0, <2>3 DEF Ids, OnlyDefine
  <2> QED BY <1>6, <2>3, <2>4 DEF OnlyDefine, AddsNode, HeadNode, o
<1> QED BY <1>2, <1>3, <1>4, <1>5, <1>6 DEF Entry

(* A whole table: its entries have their nodes, each its own, and there    *)
(* are no other defines and operands.                                      *)
HeadsAt(S, T, table, size, pos) ==
  /\ \A i \in 1 .. size : table[i].node # "elements" =>
       pos[i] \in Len(S.core) + 1 .. Len(T.core) /\ HeadNode(T.core[pos[i]], table[i])
  /\ \A i, j \in 1 .. size :
       i # j /\ table[i].node # "elements" /\ table[j].node # "elements" => pos[i] # pos[j]
  /\ \A n \in Len(S.core) + 1 .. Len(T.core) :
       \/ IsUse(T.core[n]) /\ T.core[n].ut # "Opd"
       \/ \E i \in 1 .. size : table[i].node # "elements" /\ n = pos[i]
Made(S, T, table, size) == Added(S, T) /\ \E pos : HeadsAt(S, T, table, size, pos)

(* One more entry of the table.                                            *)
LEMMA MadeNext ==
  ASSUME NEW S, Shape(S), Quiet(S), S.core # <<>>, NEW table, NEW k \in Nat,
         Entry(table[k + 1]), NEW A, Made(S, A, table, k),
         NEW T, T = add_new_node(A, table[k + 1])
  PROVE  Made(S, T, table, k + 1)
<1>0. Len(S.core) \in Nat /\ Len(A.core) \in Nat /\ Len(S.core) <= Len(A.core)
      /\ Shape(A) /\ Quiet(A)
  BY CoreLen DEF Made, Added, Prefix
<1>1. A.core # <<>>
  <2>1. Len(S.core) # 0 /\ Len(<<>>) = 0
    BY <1>0, EmptySeq DEF Shape, Core, IsList
  <2> QED BY <1>0, <2>1
<1> DEFINE e == table[k + 1]
           h == Len(A.core) + 1
<1>2. AddsNode(A, T, e)
  <2>1. Entry(e) /\ T = add_new_node(A, e)
    OBVIOUS
  <2> HIDE DEF e
  <2> QED BY <1>0, <1>1, <2>1, AddNewNode
<1>3. Added(S, T)
  BY <1>2, AddedTrans DEF Made, AddsNode
<1>4. PICK pos : HeadsAt(S, A, table, k, pos)
  BY DEF Made
<1>5. Len(T.core) \in Nat /\ Len(A.core) <= Len(T.core) /\ Prefix(A, T)
  BY <1>2, <1>3, CoreLen DEF AddsNode, Added, Prefix
<1> DEFINE q == [i \in 1 .. k + 1 |-> IF i = k + 1 THEN h ELSE pos[i]]
<1>6. \A i \in 1 .. k + 1 : i = k + 1 \/ (i \in 1 .. k /\ i # k + 1)
  OBVIOUS
<1>7. q[k + 1] = h /\ \A i \in 1 .. k : q[i] = pos[i] /\ i \in 1 .. k + 1
  <2>1. k + 1 \in 1 .. k + 1 /\ \A i \in 1 .. k : i \in 1 .. k + 1 /\ i # k + 1
    OBVIOUS
  <2> QED BY <2>1
<1> HIDE DEF q
<1>8. ASSUME NEW i \in 1 .. k, table[i].node # "elements"
      PROVE  /\ pos[i] \in Len(S.core) + 1 .. Len(A.core) /\ pos[i] \in Len(S.core) + 1 .. Len(T.core)
             /\ pos[i] # h /\ HeadNode(T.core[pos[i]], table[i])
  <2>1. pos[i] \in Len(S.core) + 1 .. Len(A.core) /\ HeadNode(A.core[pos[i]], table[i])
    BY <1>4, <1>8 DEF HeadsAt
  <2>2. pos[i] \in Ids(A) /\ pos[i] # h /\ pos[i] \in Len(S.core) + 1 .. Len(T.core)
    BY <1>0, <1>5, <2>1 DEF Ids
  <2>3. T.core[pos[i]] = A.core[pos[i]]
    BY <1>5, <2>2 DEF Prefix
  <2> QED BY <2>1, <2>2, <2>3
<1>9. e.node # "elements" => h \in Len(S.core) + 1 .. Len(T.core) /\ HeadNode(T.core[h], e)
  <2>1. ASSUME e.node # "elements" PROVE h \in Ids(T) /\ HeadNode(T.core[h], e)
    BY <1>2, <2>1 DEF AddsNode
  <2> QED BY <1>0, <1>5, <2>1 DEF Ids
<1>10. \A i \in 1 .. k + 1 : table[i].node # "elements" =>
         q[i] \in Len(S.core) + 1 .. Len(T.core) /\ HeadNode(T.core[q[i]], table[i])
  <2> HIDE DEF h
  <2> QED BY <1>6, <1>7, <1>8, <1>9
<1>11. ASSUME NEW i \in 1 .. k + 1, NEW j \in 1 .. k + 1, i # j,
              table[i].node # "elements", table[j].node # "elements"
       PROVE  q[i] # q[j]
  <2> HIDE DEF h
  <2>1. CASE i = k + 1
    BY <1>6, <1>7, <1>8, <1>11, <2>1
  <2>2. CASE j = k + 1
    BY <1>6, <1>7, <1>8, <1>11, <2>2
  <2>3. CASE i \in 1 .. k /\ j \in 1 .. k
    BY <1>4, <1>7, <1>11, <2>3 DEF HeadsAt
  <2> QED BY <1>6, <2>1, <2>2, <2>3
<1>12. ASSUME NEW n \in Len(S.core) + 1 .. Len(T.core), ~ (IsUse(T.core[n]) /\ T.core[n].ut # "Opd")
       PROVE  \E i \in 1 .. k + 1 : table[i].node # "elements" /\ n = q[i]
  <2>1. CASE n <= Len(A.core)
    <3>1. n \in Len(S.core) + 1 .. Len(A.core) /\ n \in Ids(A)
      BY <1>0, <2>1 DEF Ids
    <3>2. T.core[n] = A.core[n]
      BY <1>5, <3>1 DEF Prefix
    <3>3. PICK i \in 1 .. k : table[i].node # "elements" /\ n = pos[i]
      BY <1>4, <1>12, <3>1, <3>2 DEF HeadsAt
    <3> QED BY <1>7, <3>3
  <2>2. CASE ~ (n <= Len(A.core))
    <3>1. n \in Len(A.core) + 1 .. Len(T.core)
      BY <1>0, <1>5, <2>2
    <3>2. e.node # "elements" /\ n = h
      BY <1>2, <1>12, <3>1 DEF AddsNode
    <3>3. k + 1 \in 1 .. k + 1
      OBVIOUS
    <3> QED BY <1>7, <3>2, <3>3
  <2> QED BY <2>1, <2>2
<1>13. HeadsAt(S, T, table, k + 1, q)
  BY <1>10, <1>11, <1>12 DEF HeadsAt
<1> QED BY <1>3, <1>13 DEF Made

(* All of them.                                                            *)
LEMMA CreateNodes ==
  ASSUME NEW S, Shape(S), Quiet(S), S.core # <<>>, NEW table, Len(table) \in Nat,
         \A k \in 1 .. Len(table) : Entry(table[k]), NEW T, T = create_nodes(S, table)
  PROVE  Made(S, T, table, Len(table))
<1> DEFINE max == Len(table)
           x == [loop |-> "nodes", table |-> table]
<1>1. PICK g : Runs(x, S, max, g) /\ T = g[max]
  <2>1. \E g : Runs(x, S, Len(table), g) /\ create_nodes(S, table) = g[Len(table)]
    BY NodesLoop
  <2> QED BY <2>1
<1>2. \A A, k : Do(x, A, k) = add_new_node(A, table[k])
  BY DEF Do
<1>3. g[0] = S /\ \A k \in 1 .. max : g[k] = add_new_node(g[k - 1], table[k])
  <2>1. \A k \in 0 .. max : g[k] = IF k = 0 THEN S ELSE Do(x, g[k - 1], k)
    BY <1>1 DEF Runs
  <2>2. 0 \in 0 .. max /\ \A k \in 1 .. max : k \in 0 .. max /\ k # 0
    OBVIOUS
  <2> HIDE DEF x, max
  <2> QED BY <1>2, <2>1, <2>2
<1> DEFINE N == {k \in Nat : k <= max => Made(S, g[k], table, k)}
<1>4. 0 \in N
  <2>1. Added(S, S) /\ Len(S.core) \in Nat
    BY AddedRefl, CoreLen
  <2>2. 1 .. 0 = {} /\ Len(S.core) + 1 .. Len(S.core) = {}
    BY <2>1
  <2>3. HeadsAt(S, S, table, 0, <<>>)
    BY <2>2 DEF HeadsAt
  <2> QED BY <1>3, <2>1, <2>3 DEF Made
<1>5. ASSUME NEW k \in N PROVE k + 1 \in N
  <2>1. SUFFICES ASSUME k + 1 <= max PROVE Made(S, g[k + 1], table, k + 1)
    OBVIOUS
  <2>2. k \in Nat /\ k <= max /\ k + 1 \in 1 .. max /\ (k + 1) - 1 = k
    BY <2>1
  <2>3. Made(S, g[k], table, k) /\ Entry(table[k + 1])
    BY <2>2
  <2>4. g[k + 1] = add_new_node(g[k], table[k + 1])
    BY <1>3, <2>2
  <2> QED BY <2>2, <2>3, <2>4, MadeNext
<1>6. N = Nat
  <2> HIDE DEF N
  <2>1. N \in SUBSET Nat
    BY DEF N
  <2> QED BY <1>4, <1>5, <2>1, SetInduction
<1> QED BY <1>1, <1>6

-----------------------------------------------------------------------------
(***************************************************************************)
(* What the handlers put into their tables: as many operands and defines   *)
(* as the rules speak about, and one define of memory at most.             *)
(***************************************************************************)
IsDefEntry(e) == e.node \in {"def", "lone_def", "esp"}
Table(table, op) ==
  /\ Len(table) \in Nat
  /\ \A k \in 1 .. Len(table) : Entry(table[k])
  /\ op # "lea" => \E i \in 1 .. Len(table) : table[i].node = "use"
  /\ op \in {"add", "xchg"} =>
       \E i, j \in 1 .. Len(table) : i # j /\ table[i].node = "use" /\ table[j].node = "use"
  /\ \E i \in 1 .. Len(table) : IsDefEntry(table[i])
  /\ op \in {"xchg", "push", "pop"} =>
       \E i, j \in 1 .. Len(table) : i # j /\ IsDefEntry(table[i]) /\ IsDefEntry(table[j])
  /\ \A i, j \in 1 .. Len(table) :
       IsDefEntry(table[i]) /\ IsDefEntry(table[j]) /\ table[i].o.t = "mem" /\ table[j].o.t = "mem" => i = j
  /\ op = "lea" => \A i \in 1 .. Len(table) : IsDefEntry(table[i]) => table[i].o.t # "mem"

(* What the tables are made of are entries.                                *)
LEMMA EntryOf ==
  ASSUME NEW o, IsOperand(o), NEW by
  PROVE  /\ Entry(Define(o)) /\ Entry(Use(o)) /\ Entry(DefineOnly(o)) /\ Entry(Elements(o))
         /\ Entry(DefineEsp(by)) /\ Entry(Define(EspMem("post"))) /\ Entry(Use(EspMem("pre")))
<1>1. Full("esp").size \in Nat \ {0} /\ EspMem("post").size \in Nat \ {0} /\ EspMem("pre").size \in Nat \ {0}
  BY OperandsAssumption DEF Full, Reg, EspMem, Ea
<1> QED BY <1>1 DEF IsOperand, Entry, Define, Use, DefineOnly, Elements, DefineEsp

(* mov: a define and a use.                                                *)
LEMMA MovTable ==
  ASSUME NEW x, IsInstruction(x), x.op = "mov"
  PROVE  Table(mov_handler(x), "mov")
<1> DEFINE t == mov_handler(x)
<1>1. Len(t) = 2 /\ t[1] = Define(x.dst) /\ t[2] = Use(x.src)
  BY DEF mov_handler
<1>2. Entry(t[1]) /\ Entry(t[2])
  BY <1>1, EntryOf DEF IsInstruction
<1>3. IsDefEntry(t[1]) /\ ~ IsDefEntry(t[2]) /\ t[2].node = "use"
  BY <1>1 DEF IsDefEntry, Define, Use
<1>4. \A i \in 1 .. 2 : i = 1 \/ i = 2
  OBVIOUS
<1> HIDE DEF t
<1>11. 1 \in 1 .. Len(t) /\ 2 \in 1 .. Len(t)
  BY <1>1
<1>12. \A k \in 1 .. Len(t) : Entry(t[k])
  BY <1>1, <1>2, <1>4
<1>13. \A i, j \in 1 .. Len(t) :
          IsDefEntry(t[i]) /\ IsDefEntry(t[j]) /\ t[i].o.t = "mem" /\ t[j].o.t = "mem" => i = j
  BY <1>1, <1>3, <1>4
<1>14. \E i \in 1 .. Len(t) : t[i].node = "use"
  BY <1>3, <1>11
<1>15. \E i \in 1 .. Len(t) : IsDefEntry(t[i])
  BY <1>3, <1>11
<1>20. Table(t, "mov")
  BY <1>1, <1>11, <1>12, <1>13, <1>14, <1>15 DEF Table
<1> QED BY <1>20 DEF t

(* add: a define and two uses.                                             *)
LEMMA AddTable ==
  ASSUME NEW x, IsInstruction(x), x.op = "add"
  PROVE  Table(add_handler(x), "add")
<1> DEFINE t == add_handler(x)
<1>1. Len(t) = 3 /\ t[1] = Define(x.dst) /\ t[2] = Use(x.dst) /\ t[3] = Use(x.src)
  BY DEF add_handler
<1>2. Entry(t[1]) /\ Entry(t[2]) /\ Entry(t[3])
  BY <1>1, EntryOf DEF IsInstruction
<1>3. /\ IsDefEntry(t[1]) /\ ~ IsDefEntry(t[2]) /\ ~ IsDefEntry(t[3])
      /\ t[2].node = "use" /\ t[3].node = "use"
  BY <1>1 DEF IsDefEntry, Define, Use
<1>4. \A i \in 1 .. 3 : i = 1 \/ i = 2 \/ i = 3
  OBVIOUS
<1> HIDE DEF t
<1>11. 1 \in 1 .. Len(t) /\ 2 \in 1 .. Len(t) /\ 3 \in 1 .. Len(t)
  BY <1>1
<1>12. \A k \in 1 .. Len(t) : Entry(t[k])
  BY <1>1, <1>2, <1>4
<1>13. \A i, j \in 1 .. Len(t) :
          IsDefEntry(t[i]) /\ IsDefEntry(t[j]) /\ t[i].o.t = "mem" /\ t[j].o.t = "mem" => i = j
  BY <1>1, <1>3, <1>4
<1>14. \E i \in 1 .. Len(t) : t[i].node = "use"
  BY <1>3, <1>11
<1>15. \E i, j \in 1 .. Len(t) : i # j /\ t[i].node = "use" /\ t[j].node = "use"
  BY <1>3, <1>11
<1>16. \E i \in 1 .. Len(t) : IsDefEntry(t[i])
  BY <1>3, <1>11
<1>20. Table(t, "add")
  BY <1>1, <1>11, <1>12, <1>13, <1>14, <1>15, <1>16 DEF Table
<1> QED BY <1>20 DEF t

(* lea: a define of a register; the memory operand has no node.            *)
LEMMA LeaTable ==
  ASSUME NEW x, IsInstruction(x), x.op = "lea"
  PROVE  Table(lea_handler(x), "lea")
<1> DEFINE t == lea_handler(x)
<1>1. Len(t) = 2 /\ t[1] = DefineOnly(x.dst) /\ t[2] = Elements(x.src)
  BY DEF lea_handler
<1>2. Entry(t[1]) /\ Entry(t[2])
  BY <1>1, EntryOf DEF IsInstruction
<1>3. IsDefEntry(t[1]) /\ ~ IsDefEntry(t[2])
  BY <1>1 DEF IsDefEntry, DefineOnly, Elements
<1>4. \A i \in 1 .. 2 : i = 1 \/ i = 2
  OBVIOUS
<1> HIDE DEF t
<1>11. 1 \in 1 .. Len(t) /\ 2 \in 1 .. Len(t)
  BY <1>1
<1>12. \A k \in 1 .. Len(t) : Entry(t[k])
  BY <1>1, <1>2, <1>4
<1>13. \A i, j \in 1 .. Len(t) :
          IsDefEntry(t[i]) /\ IsDefEntry(t[j]) /\ t[i].o.t = "mem" /\ t[j].o.t = "mem" => i = j
  BY <1>1, <1>3, <1>4
<1>14. \E i \in 1 .. Len(t) : IsDefEntry(t[i])
  BY <1>3, <1>11
<1>15. \A i \in 1 .. Len(t) : IsDefEntry(t[i]) => t[i].o.t # "mem"
  <2>1. t[1].o.t = "reg"
    BY <1>1 DEF DefineOnly, IsInstruction
  <2> QED BY <1>1, <1>3, <1>4, <2>1
<1>20. Table(t, "lea")
  BY <1>1, <1>11, <1>12, <1>13, <1>14, <1>15 DEF Table
<1> QED BY <1>20 DEF t

(* xchg: two defines, of which one is memory at most, and two uses.        *)
LEMMA XchgTable ==
  ASSUME NEW x, IsInstruction(x), x.op = "xchg"
  PROVE  Table(xchg_handler(x), "xchg")
<1> DEFINE t == xchg_handler(x)
<1>1. /\ Len(t) = 4 /\ t[1] = Define(x.dst) /\ t[2] = Define(x.src)
      /\ t[3] = Use(x.dst) /\ t[4] = Use(x.src)
  BY DEF xchg_handler
<1>2. Entry(t[1]) /\ Entry(t[2]) /\ Entry(t[3]) /\ Entry(t[4])
  BY <1>1, EntryOf DEF IsInstruction
<1>3. /\ IsDefEntry(t[1]) /\ IsDefEntry(t[2]) /\ ~ IsDefEntry(t[3]) /\ ~ IsDefEntry(t[4])
      /\ t[3].node = "use" /\ t[4].node = "use"
      /\ ~ (t[1].o.t = "mem" /\ t[2].o.t = "mem")
  BY <1>1 DEF IsDefEntry, Define, Use, IsInstruction
<1>4. \A i \in 1 .. 4 : i = 1 \/ i = 2 \/ i = 3 \/ i = 4
  OBVIOUS
<1> HIDE DEF t
<1>11. 1 \in 1 .. Len(t) /\ 2 \in 1 .. Len(t) /\ 3 \in 1 .. Len(t) /\ 4 \in 1 .. Len(t)
  BY <1>1
<1>12. \A k \in 1 .. Len(t) : Entry(t[k])
  BY <1>1, <1>2, <1>4
<1>13. \A i, j \in 1 .. Len(t) :
          IsDefEntry(t[i]) /\ IsDefEntry(t[j]) /\ t[i].o.t = "mem" /\ t[j].o.t = "mem" => i = j
  BY <1>1, <1>3, <1>4
<1>14. \E i \in 1 .. Len(t) : t[i].node = "use"
  BY <1>3, <1>11
<1>15. \E i, j \in 1 .. Len(t) : i # j /\ t[i].node = "use" /\ t[j].node = "use"
  BY <1>3, <1>11
<1>16. \E i \in 1 .. Len(t) : IsDefEntry(t[i])
  BY <1>3, <1>11
<1>17. \E i, j \in 1 .. Len(t) : i # j /\ IsDefEntry(t[i]) /\ IsDefEntry(t[j])
  BY <1>3, <1>11
<1>20. Table(t, "xchg")
  BY <1>1, <1>11, <1>12, <1>13, <1>14, <1>15, <1>16, <1>17 DEF Table
<1> QED BY <1>20 DEF t

(* push: the write below esp, the define of esp, and a use.                *)
LEMMA PushTable ==
  ASSUME NEW x, IsInstruction(x), x.op = "push"
  PROVE  Table(push_handler(x), "push")
<1> DEFINE t == push_handler(x)
<1>1. /\ Len(t) = 3 /\ t[1] = Define(EspMem("post")) /\ t[2] = DefineEsp(Minus(0, DW))
      /\ t[3] = Use(x.src)
  BY DEF push_handler
<1>2. Entry(t[1]) /\ Entry(t[2]) /\ Entry(t[3])
  BY <1>1, EntryOf DEF IsInstruction
<1>3. /\ IsDefEntry(t[1]) /\ IsDefEntry(t[2]) /\ ~ IsDefEntry(t[3])
      /\ t[3].node = "use" /\ t[2].o.t # "mem"
  BY <1>1 DEF IsDefEntry, Define, Use, DefineEsp, Full, Reg
<1>4. \A i \in 1 .. 3 : i = 1 \/ i = 2 \/ i = 3
  OBVIOUS
<1> HIDE DEF t
<1>11. 1 \in 1 .. Len(t) /\ 2 \in 1 .. Len(t) /\ 3 \in 1 .. Len(t)
  BY <1>1
<1>12. \A k \in 1 .. Len(t) : Entry(t[k])
  BY <1>1, <1>2, <1>4
<1>13. \A i, j \in 1 .. Len(t) :
          IsDefEntry(t[i]) /\ IsDefEntry(t[j]) /\ t[i].o.t = "mem" /\ t[j].o.t = "mem" => i = j
  BY <1>1, <1>3, <1>4
<1>14. \E i \in 1 .. Len(t) : t[i].node = "use"
  BY <1>3, <1>11
<1>15. \E i \in 1 .. Len(t) : IsDefEntry(t[i])
  BY <1>3, <1>11
<1>16. \E i, j \in 1 .. Len(t) : i # j /\ IsDefEntry(t[i]) /\ IsDefEntry(t[j])
  BY <1>3, <1>11
<1>20. Table(t, "push")
  BY <1>1, <1>11, <1>12, <1>13, <1>14, <1>15, <1>16 DEF Table
<1> QED BY <1>20 DEF t

(* pop: the define of esp, a define, and the read at esp.                  *)
LEMMA PopTable ==
  ASSUME NEW x, IsInstruction(x), x.op = "pop"
  PROVE  Table(pop_handler(x), "pop")
<1> DEFINE t == pop_handler(x)
<1>1. /\ Len(t) = 3 /\ t[1] = DefineEsp(DW) /\ t[2] = Define(x.dst)
      /\ t[3] = Use(EspMem("pre"))
  BY DEF pop_handler
<1>2. Entry(t[1]) /\ Entry(t[2]) /\ Entry(t[3])
  BY <1>1, EntryOf DEF IsInstruction
<1>3. /\ IsDefEntry(t[1]) /\ IsDefEntry(t[2]) /\ ~ IsDefEntry(t[3])
      /\ t[3].node = "use" /\ t[1].o.t # "mem"
  BY <1>1 DEF IsDefEntry, Define, Use, DefineEsp, Full, Reg
<1>4. \A i \in 1 .. 3 : i = 1 \/ i = 2 \/ i = 3
  OBVIOUS
<1> HIDE DEF t
<1>11. 1 \in 1 .. Len(t) /\ 2 \in 1 .. Len(t) /\ 3 \in 1 .. Len(t)
  BY <1>1
<1>12. \A k \in 1 .. Len(t) : Entry(t[k])
  BY <1>1, <1>2, <1>4
<1>13. \A i, j \in 1 .. Len(t) :
          IsDefEntry(t[i]) /\ IsDefEntry(t[j]) /\ t[i].o.t = "mem" /\ t[j].o.t = "mem" => i = j
  BY <1>1, <1>3, <1>4
<1>14. \E i \in 1 .. Len(t) : t[i].node = "use"
  BY <1>3, <1>11
<1>15. \E i \in 1 .. Len(t) : IsDefEntry(t[i])
  BY <1>3, <1>11
<1>16. \E i, j \in 1 .. Len(t) : i # j /\ IsDefEntry(t[i]) /\ IsDefEntry(t[j])
  BY <1>3, <1>11
<1>20. Table(t, "pop")
  BY <1>1, <1>11, <1>12, <1>13, <1>14, <1>15, <1>16 DEF Table
<1> QED BY <1>20 DEF t

(* Whatever the instruction.                                               *)
LEMMA HandlerTable ==
  ASSUME NEW x, IsInstruction(x)
  PROVE  x.op \in Ops /\ Table(inst_handler(x), x.op)
<1>1. x.op \in Ops
  BY DEF IsInstruction, Ops
<1>2. CASE x.op = "mov"
  BY <1>2, <1>1, MovTable DEF inst_handler
<1>3. CASE x.op = "add"
  BY <1>3, <1>1, AddTable DEF inst_handler
<1>4. CASE x.op = "lea"
  BY <1>4, <1>1, LeaTable DEF inst_handler
<1>5. CASE x.op = "xchg"
  BY <1>5, <1>1, XchgTable DEF inst_handler
<1>6. CASE x.op = "push"
  BY <1>6, <1>1, PushTable DEF inst_handler
<1>7. CASE x.op = "pop"
  BY <1>7, <1>1, PopTable DEF inst_handler
<1> QED BY <1>1, <1>2, <1>3, <1>4, <1>5, <1>6, <1>7 DEF Ops

(* Sets with members.                                                      *)
LEMMA AtLeast ==
  ASSUME NEW M, IsFiniteSet(M)
  PROVE  /\ \A a \in M : Cardinality(M) >= 1
         /\ \A a, b \in M : a # b => Cardinality(M) >= 2
<1>1. ASSUME NEW a \in M PROVE Cardinality(M) >= 1
  <2>1. {a} \subseteq M /\ Cardinality({a}) = 1
    BY FS_Singleton
  <2> QED BY <2>1, FS_Subset
<1>2. ASSUME NEW a \in M, NEW b \in M, a # b PROVE Cardinality(M) >= 2
  <2>1. IsFiniteSet({a}) /\ Cardinality({a}) = 1
    BY FS_Singleton
  <2>2. Cardinality({a} \cup {b}) = 1 + 1
    BY <1>2, <2>1, FS_AddElement
  <2>3. {a} \cup {b} \subseteq M
    OBVIOUS
  <2>4. Cardinality({a} \cup {b}) <= Cardinality(M)
    BY <2>3, FS_Subset
  <2>5. Cardinality(M) \in Nat
    BY FS_CardinalityType
  <2> QED BY <2>2, <2>4, <2>5
<1> QED BY <1>1, <1>2

-----------------------------------------------------------------------------
(***************************************************************************)
(* What was there does not see the new instruction.                        *)
(***************************************************************************)
(* The first member of a set that has been continued above a bound.        *)
LEMMA MinContinued ==
  ASSUME NEW l \in Nat, NEW M, NEW N \in SUBSET Nat, M \subseteq N, 0 \notin N, l + 1 \in N,
         \A m \in M : m <= l, \A n \in N : n <= l => n \in M
  PROVE  MinOrNull(N) = IF MinOrNull(M) = 0 THEN l + 1 ELSE MinOrNull(M)
<1> DEFINE a == MinOrNull(N)
           b == MinOrNull(M)
<1>1. a \in N /\ a \in Nat /\ \A n \in N : a <= n
  BY MinMember
<1>2. /\ M # {} => b \in M
      /\ \A m \in M : b <= m
      /\ M = {} => b = 0
  <2>1. M \in SUBSET Nat
    OBVIOUS
  <2> QED BY <2>1, MinMember
<1> HIDE DEF a, b
<1>3. CASE M = {}
  <2>1. a = l + 1
    <3>1. a <= l + 1 /\ ~ (a <= l)
      BY <1>1, <1>3
    <3> QED BY <1>1, <3>1
  <2> QED BY <1>2, <1>3, <2>1 DEF a, b
<1>4. CASE M # {}
  <2>1. b \in M /\ b \in N /\ b \in Nat /\ b <= l /\ b # 0
    BY <1>2, <1>4
  <2>2. a <= b
    BY <1>1, <2>1
  <2>3. a <= l /\ a \in M
    BY <1>1, <2>1, <2>2
  <2>4. b <= a
    BY <1>2, <2>3
  <2>5. a = b
    BY <1>1, <2>1, <2>2, <2>4
  <2> QED BY <2>1, <2>5 DEF a, b
<1> QED BY <1>3, <1>4

Continued(S, T) ==
  /\ Prefix(S, T) /\ T.tr = S.tr /\ Len(T.core) \in Nat
  /\ Len(S.core) + 1 <= Len(T.core) /\ IsInst(T.core[Len(S.core) + 1])

(* Its walks end where they ended.                                         *)
LEMMA ContinuedWalks ==
  ASSUME NEW S, Shape(S), NEW T, Continued(S, T), NEW n \in Ids(S)
  PROVE  /\ ElementsOf(T, n) = ElementsOf(S, n)
         /\ \A ut : get_element_of_exp(T, n, ut) = get_element_of_exp(S, n, ut)
<1> DEFINE l == Len(S.core)
<1>1. l \in Nat /\ n \in Nat /\ 1 <= n /\ n <= l /\ l + 1 \in n + 1 .. Len(T.core)
      /\ l + 1 <= Len(T.core) /\ Len(T.core) \in Nat
  BY CoreLen DEF Continued
<1>2. \A j \in n + 1 .. l : j \in n + 1 .. Len(T.core) /\ T.core[j] = S.core[j] /\ j \in Ids(S)
  BY <1>1 DEF Continued, Prefix, Ids
<1>3. \A j \in n + 1 .. Len(T.core) : j <= l => j \in n + 1 .. l
  BY <1>1
<1>4. IsInst(T.core[l + 1]) /\ ~ IsUse(T.core[l + 1])
  BY DEF Continued, IsInst, IsUse
<1>5. LastElement(T, n) = LastElement(S, n)
  <2> DEFINE M == {j \in n + 1 .. Len(S.core) : IsInst(S.core[j])}
             N == {j \in n + 1 .. Len(T.core) : IsInst(T.core[j])}
  <2>1. /\ N \in SUBSET Nat /\ M \subseteq N /\ 0 \notin N /\ l + 1 \in N
        /\ \A m \in M : m <= l
        /\ \A m \in N : m <= l => m \in M
    BY <1>1, <1>2, <1>3, <1>4
  <2>2. /\ LastElement(S, n) = IF MinOrNull(M) = 0 THEN l ELSE MinOrNull(M) - 1
        /\ LastElement(T, n) = IF MinOrNull(N) = 0 THEN Len(T.core) ELSE MinOrNull(N) - 1
    BY DEF LastElement
  <2> HIDE DEF M, N, l
  <2>3. MinOrNull(N) = IF MinOrNull(M) = 0 THEN l + 1 ELSE MinOrNull(M)
    BY <1>1, <2>1, MinContinued
  <2>4. CASE MinOrNull(M) = 0
    BY <1>1, <2>2, <2>3, <2>4
  <2>5. CASE MinOrNull(M) # 0
    BY <1>1, <2>2, <2>3, <2>5
  <2> QED BY <2>4, <2>5
<1>6. ASSUME NEW ut PROVE get_element_of_exp(T, n, ut) = get_element_of_exp(S, n, ut)
  <2> DEFINE M == {j \in n + 1 .. Len(S.core) : ~ IsUse(S.core[j]) \/ S.core[j].ut = "Opd"}
             N == {j \in n + 1 .. Len(T.core) : ~ IsUse(T.core[j]) \/ T.core[j].ut = "Opd"}
             last == IF MinOrNull(M) = 0 THEN l ELSE MinOrNull(M) - 1
             also == IF MinOrNull(N) = 0 THEN Len(T.core) ELSE MinOrNull(N) - 1
             P == {j \in n + 1 .. last : S.core[j].ut = ut}
             Q == {j \in n + 1 .. also : T.core[j].ut = ut}
  <2>1. /\ N \in SUBSET Nat /\ M \subseteq N /\ 0 \notin N /\ l + 1 \in N
        /\ \A m \in M : m <= l
        /\ \A m \in N : m <= l => m \in M
    BY <1>1, <1>2, <1>3, <1>4
  <2>2. /\ get_element_of_exp(S, n, ut) = MaxOrNull(P)
        /\ get_element_of_exp(T, n, ut) = MaxOrNull(Q)
    BY DEF get_element_of_exp
  <2>3. MinOrNull(M) # 0 => MinOrNull(M) \in Nat /\ MinOrNull(M) <= l
    <3>1. M \in SUBSET Nat
      BY <2>1
    <3> HIDE DEF M
    <3> QED BY <2>1, <3>1, MinMember
  <2>4. MinOrNull(N) = IF MinOrNull(M) = 0 THEN l + 1 ELSE MinOrNull(M)
    <3> HIDE DEF M, N, l
    <3> QED BY <1>1, <2>1, MinContinued
  <2>5. also = last /\ last <= l /\ last \in Int
    <3> HIDE DEF M, N, l
    <3>1. CASE MinOrNull(M) = 0
      BY <1>1, <2>4, <3>1
    <3>2. CASE MinOrNull(M) # 0
      BY <1>1, <2>3, <2>4, <3>2
    <3> QED BY <3>1, <3>2
  <2> HIDE DEF last, also
  <2>6. \A j \in n + 1 .. last : j \in n + 1 .. l
    BY <1>1, <2>5
  <2>7. P = Q
    BY <1>2, <2>5, <2>6
  <2> QED BY <2>2, <2>7
<1> QED BY <1>5, <1>6 DEF ElementsOf

(* An instruction writes to memory in one place at most.                   *)
MemDef(S, n) == IsDef(S.core[n]) /\ S.core[n].o.t = "mem"
OneWrite(S, p) ==
  /\ \A m, n \in ElementsOf(S, p) : MemDef(S, m) /\ MemDef(S, n) => m = n
  /\ inst_of(S, p).op = "lea" => \A m \in ElementsOf(S, p) : ~ MemDef(S, m)
OneWriteEach(S) == \A p \in Ids(S) : IsInst(S.core[p]) => OneWrite(S, p)

(* The nodes of the newest instruction.                                    *)
LEMMA NewestElements ==
  ASSUME NEW T, Len(T.core) \in Nat, NEW p \in Ids(T),
         \A n \in p + 1 .. Len(T.core) : ~ IsInst(T.core[n])
  PROVE  ElementsOf(T, p) = p + 1 .. Len(T.core)
<1> DEFINE N == {j \in p + 1 .. Len(T.core) : IsInst(T.core[j])}
<1>1. N = {}
  OBVIOUS
<1>2. MinOrNull(N) = 0
  <2> HIDE DEF N
  <2> QED BY <1>1 DEF MinOrNull
<1>3. LastElement(T, p) = Len(T.core)
  <2>1. LastElement(T, p) = IF MinOrNull(N) = 0 THEN Len(T.core) ELSE MinOrNull(N) - 1
    BY DEF LastElement
  <2> HIDE DEF N
  <2> QED BY <1>2, <2>1
<1> QED BY <1>3 DEF ElementsOf

(* The new instruction has what its rules need, and one write at most.     *)
LEMMA MadeSuits ==
  ASSUME NEW A, Shape(A), NEW p \in Ids(A), p = Len(A.core), NEW table, NEW op \in Ops,
         Table(table, op), NEW T, Made(A, T, table, Len(table)), inst_of(T, p).op = op
  PROVE  Enough(T, p) /\ OneWrite(T, p)
<1>1. /\ Shape(T) /\ Len(T.core) \in Nat /\ p \in Ids(T) /\ p \in Nat
      /\ \A n \in p + 1 .. Len(T.core) : ~ IsInst(T.core[n])
  <2>1. Shape(T) /\ Len(T.core) \in Nat /\ Len(A.core) \in Nat /\ Len(A.core) <= Len(T.core)
    BY CoreLen DEF Made, Added, Prefix
  <2> QED BY <2>1 DEF Made, Added, Ids
<1>2. ElementsOf(T, p) = p + 1 .. Len(T.core)
  BY <1>1, NewestElements
<1>3. PICK pos : HeadsAt(A, T, table, Len(table), pos)
  BY DEF Made
<1>4. ASSUME NEW i \in 1 .. Len(table), table[i].node = "use" PROVE pos[i] \in OpdSet(T, p)
  BY <1>2, <1>3, <1>4 DEF HeadsAt, HeadNode, OpdSet
<1>5. ASSUME NEW i \in 1 .. Len(table), IsDefEntry(table[i])
      PROVE  pos[i] \in DefSet(T, p) /\ table[i].node # "elements" /\ T.core[pos[i]].o = table[i].o
  <2>1. table[i].node # "elements" /\ table[i].node # "use"
    BY <1>5 DEF IsDefEntry
  <2>2. pos[i] \in p + 1 .. Len(T.core) /\ IsDef(T.core[pos[i]]) /\ T.core[pos[i]].o = table[i].o
    BY <1>3, <2>1 DEF HeadsAt, HeadNode
  <2> QED BY <1>2, <2>1, <2>2 DEF DefSet
<1>6. \A i, j \in 1 .. Len(table) :
        i # j /\ table[i].node # "elements" /\ table[j].node # "elements" => pos[i] # pos[j]
  BY <1>3 DEF HeadsAt
<1>7. IsFiniteSet(OpdSet(T, p)) /\ IsFiniteSet(DefSet(T, p))
  <2>1. IsFiniteSet(p + 1 .. Len(T.core))
    <3>1. p + 1 \in Int /\ Len(T.core) \in Int
      BY <1>1
    <3> QED BY <3>1, FS_Interval
  <2>2. OpdSet(T, p) \subseteq p + 1 .. Len(T.core) /\ DefSet(T, p) \subseteq p + 1 .. Len(T.core)
    BY <1>2 DEF OpdSet, DefSet
  <2> QED BY <2>1, <2>2, FS_Subset
<1>8. Cardinality(OpdSet(T, p)) \in Nat /\ Cardinality(DefSet(T, p)) \in Nat
  BY <1>7, FS_CardinalityType
<1>9. Cardinality(OpdSet(T, p)) >= OpdsNeeded(op)
  <2>1. CASE op = "lea"
    BY <1>8, <2>1 DEF OpdsNeeded
  <2>2. CASE op \in {"add", "xchg"}
    <3>1. PICK i, j \in 1 .. Len(table) : i # j /\ table[i].node = "use" /\ table[j].node = "use"
      BY <2>2 DEF Table
    <3>2. pos[i] \in OpdSet(T, p) /\ pos[j] \in OpdSet(T, p) /\ pos[i] # pos[j]
      BY <1>4, <1>6, <3>1
    <3>3. Cardinality(OpdSet(T, p)) >= 2
      BY <1>7, <3>2, AtLeast
    <3> QED BY <2>2, <3>3 DEF OpdsNeeded
  <2>3. CASE op \notin {"add", "xchg", "lea"}
    <3>1. PICK i \in 1 .. Len(table) : table[i].node = "use"
      BY <2>3 DEF Table
    <3>2. Cardinality(OpdSet(T, p)) >= 1
      BY <1>4, <1>7, <3>1, AtLeast
    <3> QED BY <2>3, <3>2 DEF OpdsNeeded
  <2> QED BY <2>1, <2>2, <2>3
<1>10. Cardinality(DefSet(T, p)) >= DefsNeeded(op)
  <2>1. CASE op \in {"xchg", "push", "pop"}
    <3>1. PICK i, j \in 1 .. Len(table) : i # j /\ IsDefEntry(table[i]) /\ IsDefEntry(table[j])
      BY <2>1 DEF Table
    <3>2. pos[i] \in DefSet(T, p) /\ pos[j] \in DefSet(T, p) /\ pos[i] # pos[j]
      BY <1>5, <1>6, <3>1
    <3>3. Cardinality(DefSet(T, p)) >= 2
      BY <1>7, <3>2, AtLeast
    <3> QED BY <2>1, <3>3 DEF DefsNeeded
  <2>2. CASE op \notin {"xchg", "push", "pop"}
    <3>1. PICK i \in 1 .. Len(table) : IsDefEntry(table[i])
      BY DEF Table
    <3>2. Cardinality(DefSet(T, p)) >= 1
      BY <1>5, <1>7, <3>1, AtLeast
    <3> QED BY <2>2, <3>2 DEF DefsNeeded
  <2> QED BY <2>1, <2>2
<1>11. ASSUME NEW n \in ElementsOf(T, p), MemDef(T, n)
       PROVE  \E i \in 1 .. Len(table) : IsDefEntry(table[i]) /\ table[i].o.t = "mem" /\ n = pos[i]
  <2>1. n \in p + 1 .. Len(T.core) /\ IsDef(T.core[n]) /\ ~ IsUse(T.core[n])
    BY <1>2, <1>11 DEF MemDef, IsDef, IsUse
  <2>2. PICK i \in 1 .. Len(table) : table[i].node # "elements" /\ n = pos[i]
    BY <1>3, <2>1 DEF HeadsAt
  <2>3. Entry(table[i]) /\ HeadNode(T.core[n], table[i])
    BY <1>3, <2>2 DEF HeadsAt, Table
  <2>4. IsDefEntry(table[i]) /\ table[i].o.t = "mem"
    BY <1>11, <2>1, <2>2, <2>3 DEF Entry, HeadNode, IsDefEntry, MemDef
  <2> QED BY <2>2, <2>4
<1>12. OneWrite(T, p)
  <2>1. \A i, j \in 1 .. Len(table) :
          IsDefEntry(table[i]) /\ IsDefEntry(table[j]) /\ table[i].o.t = "mem" /\ table[j].o.t = "mem" => i = j
    BY DEF Table
  <2>2. inst_of(T, p).op = "lea" =>
          \A i \in 1 .. Len(table) : IsDefEntry(table[i]) => table[i].o.t # "mem"
    BY DEF Table
  <2> QED BY <1>11, <2>1, <2>2 DEF OneWrite
<1> QED BY <1>9, <1>10, <1>12 DEF Enough

(* The older instructions as they were.                                    *)
LEMMA OlderKept ==
  ASSUME NEW S, Shape(S), NEW T, Continued(S, T), NEW p \in Ids(S), IsInst(S.core[p])
  PROVE  /\ \A m \in ElementsOf(T, p) : m \in Ids(S) /\ T.core[m] = S.core[m]
         /\ T.core[p] = S.core[p] /\ inst_of(T, p) = inst_of(S, p)
         /\ Enough(S, p) => Enough(T, p)
         /\ OneWrite(S, p) => OneWrite(T, p)
         /\ Agrees(S, p) => Agrees(T, p)
<1>1. ElementsOf(T, p) = ElementsOf(S, p)
  BY ContinuedWalks
<1>2. \A m \in ElementsOf(S, p) : m \in Ids(S) /\ T.core[m] = S.core[m]
  <2>1. Len(S.core) \in Nat /\ p \in 0 .. Len(S.core)
    BY CoreLen
  <2> QED BY <2>1, ElementsRange DEF Continued, Prefix
<1>3. T.core[p] = S.core[p] /\ T.tr = S.tr
  BY DEF Continued, Prefix
<1>4. inst_of(T, p) = inst_of(S, p) /\ LoggedRegs(T, p) = LoggedRegs(S, p)
  BY <1>3 DEF inst_of, ProgramOf, LoggedRegs
<1>5. OpdSet(T, p) = OpdSet(S, p) /\ DefSet(T, p) = DefSet(S, p)
  BY <1>1, <1>2 DEF OpdSet, DefSet
<1>6. Enough(S, p) => Enough(T, p)
  BY <1>4, <1>5 DEF Enough
<1>7. OneWrite(S, p) => OneWrite(T, p)
  BY <1>1, <1>2, <1>4 DEF OneWrite, MemDef
<1>8. Agrees(S, p) => Agrees(T, p)
  BY <1>1, <1>2, <1>4 DEF Agrees, AgreesWithLog, use_after_def
<1> QED BY <1>1, <1>2, <1>3, <1>4, <1>6, <1>7, <1>8

NewInst(S, T) ==
  LET n == Len(S.core) + 1
  IN  /\ Sane(T) /\ Continued(S, T) /\ OneWriteEach(T)
      /\ T.um = S.um /\ T.cur = S.cur /\ T.resolving = S.resolving
      /\ T.ul = <<>> /\ T.dl = <<>> /\ T.il = <<n>>
      /\ \A m \in n + 1 .. Len(T.core) : ~ IsInst(T.core[m]) /\ T.core[m].addr = 0
      /\ S.out = "ok" /\ Logged(S) => Logged(T)

HandleOne(S, i) ==
  LET A == add_new_inst(S, i)
  IN  [add_to_instlist(create_nodes(A, inst_handler(ProgramOf(A)[i])), Len(A.core))
         EXCEPT !.ph = "use"]

(* The handler of an instruction makes it and leaves the rest alone.       *)
LEMMA HandleTurn ==
  ASSUME NEW S, Sane(S), Quiet(S), OneWriteEach(S), NEW i \in 1 .. Len(S.tr.prog),
         NEW T, T = HandleOne(S, i)
  PROVE  NewInst(S, T)
<1> DEFINE A == add_new_inst(S, i)
           n == Len(A.core)
           x == ProgramOf(A)[i]
           table == inst_handler(x)
           B == create_nodes(A, table)
<1>1. A = [S EXCEPT !.core = Append(S.core, InstNode(i))]
  BY DEF add_new_inst
<1>2. T = [[B EXCEPT !.il = AtHead(B.il, n)] EXCEPT !.ph = "use"]
  BY DEF HandleOne, add_to_instlist
<1>3. NodeShape(InstNode(i)) /\ IsInst(InstNode(i)) /\ InstNode(i).i = i
  BY DEF InstNode, NodeShape, InstShape, IsInst
<1> HIDE DEF A
<1>4. /\ Shape(A) /\ Quiet(A) /\ Same(S, A) /\ Prefix(S, A) /\ A.out = S.out
      /\ n = Len(S.core) + 1 /\ A.core[Len(S.core) + 1] = InstNode(i)
  BY <1>1, <1>3, AppendNode DEF Sane
<1>5. Len(S.core) \in Nat /\ n \in Nat /\ n \in Ids(A) /\ A.core # <<>>
  <2>1. Len(S.core) \in Nat
    BY CoreLen DEF Sane
  <2>2. n # 0 /\ Len(<<>>) = 0
    BY <1>4, <2>1, EmptySeq
  <2> QED BY <1>4, <2>1, <2>2 DEF Ids
<1>6. IsInstruction(x) /\ x = S.tr.prog[i]
  <2>1. x = S.tr.prog[i]
    BY <1>4 DEF ProgramOf, Same
  <2>2. S.tr \in Traces
    BY DEF Sane, Recorded
  <2> QED BY <2>1, <2>2, TracesAssumption
<1> DEFINE op == x.op
<1>7. op \in Ops /\ Table(table, op)
  <2> HIDE DEF x
  <2> QED BY <1>6, HandlerTable
<1>8. B = create_nodes(A, table)
  OBVIOUS
<1> HIDE DEF B, table, x, op, n
<1>9. Made(A, B, table, Len(table))
  BY <1>4, <1>5, <1>7, <1>8, CreateNodes DEF Table
<1>10. /\ Shape(B) /\ Quiet(B) /\ Same(A, B) /\ Prefix(A, B) /\ Len(B.core) \in Nat
       /\ \A m \in n + 1 .. Len(B.core) : ~ IsInst(B.core[m]) /\ B.core[m].addr = 0
  BY <1>9, CoreLen DEF Made, Added, n
<1>11. B.core[n] = InstNode(i) /\ n <= Len(B.core) /\ n \in Ids(B)
  BY <1>4, <1>5, <1>10 DEF Prefix, Ids, n
<1>12. B.il = <<>> /\ B.ul = <<>> /\ B.dl = <<>>
  BY <1>10 DEF Quiet
<1>13. AtHead(<<>>, n) = <<n>>
  <2>1. ~ Contains(<<>>, n)
    BY DEF Contains
  <2> QED BY <2>1 DEF AtHead, Cons
<1>14. /\ T.core = B.core /\ T.tr = B.tr /\ T.um = B.um /\ T.cur = B.cur
       /\ T.resolving = B.resolving /\ T.out = B.out /\ T.rec = B.rec
       /\ T.ul = <<>> /\ T.dl = <<>> /\ T.il = <<n>> /\ T.ph = "use" /\ Fields(T)
  BY <1>2, <1>10, <1>12, <1>13 DEF Shape, Fields
<1>15. Shape(T)
  <2>1. Ids(T) = Ids(B) /\ IsInst(T.core[n])
    BY <1>3, <1>11, <1>14 DEF Ids
  <2>2. T.il \in Seq(Ids(T)) /\ Len(T.il) = 1 /\ DOMAIN T.il = 1 .. 1 /\ T.il[1] = n
    BY <1>11, <1>14, <2>1
  <2>3. Insts(T)
    <3>1. \A j \in 1 .. 1 : j = 1
      OBVIOUS
    <3> QED BY <1>11, <2>1, <2>2, <3>1 DEF Insts, Queue, Once, Ids
  <2>4. Core(T) /\ Uses(T) /\ Defs(T)
    BY <1>10, <1>12, <1>14, <2>1 DEF Shape, Core, Uses, Defs, Queue, Once
  <2> QED BY <1>14, <2>3, <2>4 DEF Shape
<1>16. Continued(S, T)
  <2>1. T.tr = S.tr
    BY <1>4, <1>10, <1>14 DEF Same
  <2>2. \A m \in Ids(S) : m \in Ids(A)
    BY <1>4, <1>5 DEF Ids, n
  <2>3. Prefix(S, T)
    BY <1>4, <1>5, <1>10, <1>14, <2>2 DEF Prefix
  <2> QED BY <1>3, <1>4, <1>10, <1>11, <1>14, <2>1, <2>3 DEF Continued
<1>17. inst_of(T, n) = x /\ T.core[n].i = i
  BY <1>3, <1>6, <1>11, <1>14, <1>16 DEF inst_of, ProgramOf, Continued
<1>18. Enough(T, n) /\ OneWrite(T, n)
  <2>1. inst_of(B, n).op = op /\ inst_of(B, n) = inst_of(T, n)
    BY <1>14, <1>17 DEF inst_of, ProgramOf, op
  <2>2. n = Len(A.core)
    BY DEF n
  <2>3. Enough(B, n) /\ OneWrite(B, n)
    BY <1>4, <1>5, <1>7, <1>9, <2>1, <2>2, MadeSuits
  <2> QED BY <1>14, <2>1, <2>3
          DEF Enough, OneWrite, MemDef, OpdSet, DefSet, ElementsOf, LastElement
<1>19. ASSUME NEW p \in Ids(T), IsInst(T.core[p]) PROVE p = n \/ (p \in Ids(S) /\ IsInst(S.core[p]))
  <2>1. p \notin n + 1 .. Len(T.core)
    BY <1>10, <1>14, <1>19
  <2>2. p = n \/ p \in Ids(S)
    BY <1>4, <1>5, <1>10, <1>14, <2>1 DEF Ids
  <2> QED BY <1>16, <1>19, <2>2 DEF Continued, Prefix
<1>20. AllEnough(T) /\ OneWriteEach(T)
  BY <1>16, <1>18, <1>19, OlderKept DEF AllEnough, OneWriteEach, Sane
<1>21. Recorded(T)
  <2>1. T.tr = S.tr /\ \A p \in Ids(S) : T.core[p] = S.core[p]
    BY <1>16 DEF Continued, Prefix
  <2> QED BY <1>17, <1>19, <2>1 DEF Recorded, Sane
<1>22. Addressed(T)
  <2>1. SUFFICES ASSUME NEW m \in Ids(T), ~ IsInst(T.core[m]), T.core[m].addr # 0
                 PROVE  Located(T, m)
    BY DEF Addressed
  <2>2. m \in Ids(S)
    <3>1. m \notin n + 1 .. Len(T.core) /\ m # n
      BY <1>3, <1>10, <1>11, <1>14, <2>1
    <3> QED BY <1>4, <1>5, <1>10, <1>14, <3>1 DEF Ids
  <2>3. Located(S, m) /\ T.core[m] = S.core[m]
    BY <1>16, <2>1, <2>2 DEF Sane, Addressed, Continued, Prefix
  <2> DEFINE base == get_element_of_exp(S, m, "Base")
             index == get_element_of_exp(S, m, "Index")
  <2>4. /\ get_element_of_exp(T, m, "Base") = base /\ get_element_of_exp(T, m, "Index") = index
    BY <1>16, <2>2, ContinuedWalks DEF Sane
  <2>5. /\ base # 0 => T.core[base] = S.core[base]
        /\ index # 0 => T.core[index] = S.core[index]
    <3>1. base # 0 => base \in Ids(S)
      <4>1. base = get_element_of_exp(S, m, "Base") /\ "Base" \in {"Base", "Index"}
        OBVIOUS
      <4> HIDE DEF base
      <4> QED BY <1>5, <2>2, <4>1, ElementOfExp
    <3>2. index # 0 => index \in Ids(S)
      <4>1. index = get_element_of_exp(S, m, "Index") /\ "Index" \in {"Base", "Index"}
        OBVIOUS
      <4> HIDE DEF index
      <4> QED BY <1>5, <2>2, <4>1, ElementOfExp
    <3> QED BY <1>16, <3>1, <3>2 DEF Continued, Prefix
  <2>6. StatusOf(T, m) = exp_addr_status(T, base, index) /\ StatusOf(S, m) = exp_addr_status(S, base, index)
    BY <2>4 DEF StatusOf
  <2>7. AddrNow(T, m) = EffectiveAddr(T, m, base, index) /\ AddrNow(S, m) = EffectiveAddr(S, m, base, index)
    BY <2>4 DEF AddrNow
  <2> HIDE DEF base, index
  <2>8. StatusOf(T, m) = StatusOf(S, m)
    BY <2>5, <2>6 DEF exp_addr_status
  <2>9. AddrNow(T, m) = AddrNow(S, m)
    BY <2>3, <2>5, <2>7 DEF EffectiveAddr, RegPart
  <2> QED BY <2>3, <2>8, <2>9 DEF Located, AddrFound
<1>23. ASSUME S.out = "ok", Logged(S) PROVE Logged(T)
  <2>1. SUFFICES ASSUME NEW p \in Ids(T), IsInst(T.core[p]) PROVE Agrees(T, p) \/ Pending(T, p)
    BY DEF Logged
  <2>2. CASE p = n
    <3>1. Len(<<n>>) = 1 /\ <<n>>[1] = n /\ 1 \in 1 .. 1
      OBVIOUS
    <3> QED BY <1>14, <2>2, <3>1 DEF Pending, Has
  <2>3. CASE p \in Ids(S) /\ IsInst(S.core[p])
    <3>1. ~ Pending(S, p)
      BY EmptySeq DEF Pending, Has, Quiet
    <3> QED BY <1>16, <1>23, <2>3, <3>1, OlderKept DEF Logged, Sane
  <2> QED BY <1>19, <2>1, <2>2, <2>3
<1>24. n = Len(S.core) + 1
  BY <1>4 DEF n
<1> QED BY <1>4, <1>10, <1>14, <1>15, <1>16, <1>20, <1>21, <1>22, <1>23, <1>24 DEF NewInst, Sane, Same

-----------------------------------------------------------------------------
(***************************************************************************)
(* The other steps.                                                        *)
(***************************************************************************)
(* The list a loop works on is not empty.                                  *)
LEMMA WorkingList ==
  ASSUME NEW S, Shape(S), ~ Quiet(S)
  PROVE  /\ Working(S) \in {"use", "def", "inst"}
         /\ Working(S) = "use"  => S.ul # <<>>
         /\ Working(S) = "def"  => S.dl # <<>>
         /\ Working(S) = "inst" => S.il # <<>>
<1> DEFINE turn == CASE S.ph = "use"  -> <<"use", "def", "inst">>
                     [] S.ph = "def"  -> <<"def", "inst", "use">>
                     [] S.ph = "inst" -> <<"inst", "use", "def">>
           list(ph) == CASE ph = "use" -> S.ul [] ph = "def" -> S.dl [] ph = "inst" -> S.il
           M == {i \in 1 .. 3 : list(turn[i]) # <<>>}
<1>1. Working(S) = turn[Min(M)]
  BY DEF Working
<1>2. /\ \A i \in 1 .. 3 : turn[i] \in {"use", "def", "inst"}
      /\ \A ph \in {"use", "def", "inst"} : \E i \in 1 .. 3 : turn[i] = ph
  <2>1. S.ph \in {"use", "def", "inst"}
    BY DEF Shape, Fields
  <2>2. 1 \in 1 .. 3 /\ 2 \in 1 .. 3 /\ 3 \in 1 .. 3 /\ \A i \in 1 .. 3 : i = 1 \/ i = 2 \/ i = 3
    OBVIOUS
  <2>3. CASE S.ph = "use"
    <3>1. turn[1] = "use" /\ turn[2] = "def" /\ turn[3] = "inst"
      BY <2>3
    <3> HIDE DEF turn
    <3> QED BY <2>2, <3>1
  <2>4. CASE S.ph = "def"
    <3>1. turn[1] = "def" /\ turn[2] = "inst" /\ turn[3] = "use"
      BY <2>4
    <3> HIDE DEF turn
    <3> QED BY <2>2, <3>1
  <2>5. CASE S.ph = "inst"
    <3>1. turn[1] = "inst" /\ turn[2] = "use" /\ turn[3] = "def"
      BY <2>5
    <3> HIDE DEF turn
    <3> QED BY <2>2, <3>1
  <2> QED BY <2>1, <2>3, <2>4, <2>5
<1>3. list("use") = S.ul /\ list("def") = S.dl /\ list("inst") = S.il
  OBVIOUS
<1> HIDE DEF turn, list
<1>4. M # {} /\ M \in SUBSET Nat
  <2>1. \E ph \in {"use", "def", "inst"} : list(ph) # <<>>
    BY <1>3 DEF Quiet
  <2> QED BY <1>2, <2>1
<1>5. \A i \in M : i \in 1 .. 3 /\ list(turn[i]) # <<>>
  OBVIOUS
<1> HIDE DEF M
<1>6. Min(M) \in M
  <2>1. MinOrNull(M) = Min(M)
    BY <1>4 DEF MinOrNull
  <2> QED BY <1>4, <2>1, MinMember
<1> QED BY <1>1, <1>2, <1>3, <1>5, <1>6

(* The operands of the nodes do not change, nor how many an instruction    *)
(* writes to.                                                              *)
LEMMA OneWriteKept ==
  ASSUME NEW S, Shape(S), NEW T, T.tr = S.tr, Len(T.core) = Len(S.core),
         \A n \in Ids(S) : NodeLater(S.core[n], T.core[n]), OneWriteEach(S)
  PROVE  OneWriteEach(T) /\ SameKinds(S, T)
<1>1. SameKinds(S, T)
  BY DEF SameKinds, NodeLater, Keeps, IsInst, IsUse
<1>2. Ids(T) = Ids(S) /\ Len(S.core) \in Nat
  BY CoreLen DEF Ids
<1>3. ASSUME NEW p \in Ids(S), IsInst(S.core[p]), OneWrite(S, p) PROVE OneWrite(T, p)
  <2>1. p \in Nat /\ p \in 0 .. Len(S.core)
    BY <1>2, CoreLen
  <2>2. ElementsOf(T, p) = ElementsOf(S, p)
    BY <1>1, <2>1, WalksSame
  <2>3. \A m \in ElementsOf(S, p) : m \in Ids(S) /\ ~ IsInst(S.core[m])
    BY <1>2, <2>1, ElementsRange
  <2>4. \A m \in ElementsOf(S, p) : MemDef(T, m) => MemDef(S, m)
    BY <1>1, <2>3 DEF SameKinds, MemDef, IsDef
  <2>5. inst_of(T, p) = inst_of(S, p)
    BY <1>1, <1>3 DEF inst_of, ProgramOf, SameKinds
  <2> QED BY <1>3, <2>2, <2>4, <2>5 DEF OneWrite
<1>4. \A p \in Ids(S) : IsInst(T.core[p]) => IsInst(S.core[p])
  BY <1>1 DEF SameKinds, IsInst
<1> QED BY <1>1, <1>2, <1>3, <1>4 DEF OneWriteEach

(* All that is assumed between two steps.                                  *)
Standing(S) == Sane(S) /\ OneWriteEach(S) /\ Logged(S)
Kept(S, T) ==
  /\ T.tr = S.tr /\ Len(T.core) = Len(S.core)
  /\ \A n \in Ids(S) : NodeLater(S.core[n], T.core[n])

(* A turn of re_resolve leaves it so.                                      *)
LEMMA TurnStands ==
  ASSUME NEW S, Standing(S), NEW T, Turn(S, T)
  PROVE  Standing(T) /\ Kept(S, T)
<1>1. Shape(S)
  BY DEF Standing, Sane
<1>2. OneWriteEach(T)
  BY <1>1, OneWriteKept DEF Standing, Turn
<1> QED BY <1>2 DEF Standing, Kept, Turn

(* Nothing has been read yet.                                              *)
LEMMA FreshStands ==
  ASSUME NEW tr \in Traces
  PROVE  Standing(Fresh(tr)) /\ Fresh(tr).um = <<>> /\ Fresh(tr).core = <<>>
<1> DEFINE S == Fresh(tr)
<1>1. /\ S.core = <<>> /\ S.ul = <<>> /\ S.dl = <<>> /\ S.il = <<>> /\ S.um = <<>>
      /\ S.tr = tr /\ Fields(S)
  BY EmptySeq DEF Fresh, Fields
<1> HIDE DEF S
<1>2. Ids(S) = {} /\ \A N : <<>> \in Seq(N)
  BY <1>1, EmptySeq DEF Ids
<1>3. Core(S)
  BY <1>1, <1>2 DEF Core, IsList
<1>4. Uses(S) /\ Defs(S) /\ Insts(S)
  <2>1. Len(<<>>) = 0 /\ DOMAIN <<>> = {} /\ 1 .. 0 = {}
    BY EmptySeq
  <2> QED BY <1>1, <1>2, <2>1 DEF Uses, Defs, Insts, Queue, Once
<1>5. Standing(S)
  BY <1>1, <1>2, <1>3, <1>4
     DEF Standing, Sane, Shape, Addressed, Recorded, AllEnough, OneWriteEach, Logged
<1> QED BY <1>1, <1>5 DEF S

(* The variables of the rounds.                                            *)
LEMMA SameNodesStand ==
  ASSUME NEW S, Standing(S), NEW T, Shape(T), T.core = S.core, T.tr = S.tr,
         T.out = "ok" => S.out = "ok", \A p : Pending(S, p) => Pending(T, p)
  PROVE  Standing(T) /\ Kept(S, T)
<1>1. Sane(T) /\ \A p : Agrees(S, p) => Agrees(T, p)
  BY SaneFrame DEF Standing
<1>2. \A n \in Ids(S) : NodeLater(S.core[n], T.core[n])
  BY DEF NodeLater, Keeps, IsInst, IsUse, IsDef
<1>3. OneWriteEach(T)
  BY <1>2, OneWriteKept DEF Standing, Sane
<1>4. Logged(T)
  BY <1>1 DEF Standing, Logged, Ids
<1> QED BY <1>1, <1>2, <1>3, <1>4 DEF Standing, Kept

(* The second round begins.                                                *)
LEMMA BeginStands ==
  ASSUME NEW S, Standing(S), NEW T, T = [S EXCEPT !.resolving = TRUE]
  PROVE  Standing(T) /\ Kept(S, T) /\ T.um = S.um /\ T.core = S.core /\ T.out = S.out
<1>1. /\ T.core = S.core /\ T.ul = S.ul /\ T.dl = S.dl /\ T.il = S.il /\ T.um = S.um
      /\ T.tr = S.tr /\ T.out = S.out /\ Fields(T) /\ Shape(S)
  BY DEF Standing, Sane, Shape, Fields
<1>2. Shape(T) /\ \A p : Pending(S, p) => Pending(T, p)
  BY <1>1, ShapeKept DEF Pending
<1> QED BY <1>1, <1>2, SameNodesStand

(* An instruction is visited again.                                        *)
Visit(S, n) == [add_to_instlist(S, n) EXCEPT !.cur = n, !.ph = "use"]
(* Only the work lists and the position change.                            *)
LEMMA VisitStands ==
  ASSUME NEW S, Standing(S), Quiet(S), NEW n \in Ids(S), IsInst(S.core[n]), NEW T, T = Visit(S, n)
  PROVE  Standing(T) /\ Kept(S, T) /\ T.um = S.um /\ T.core = S.core /\ T.out = S.out
<1>1. AtHead(<<>>, n) = <<n>>
  <2>1. ~ Contains(<<>>, n)
    BY DEF Contains
  <2> QED BY <2>1 DEF AtHead, Cons
<1>2. T = [[S EXCEPT !.il = AtHead(S.il, n)] EXCEPT !.cur = n, !.ph = "use"]
  BY DEF Visit, add_to_instlist
<1>3. /\ T.core = S.core /\ T.ul = S.ul /\ T.dl = S.dl /\ T.il = <<n>> /\ T.um = S.um
      /\ T.tr = S.tr /\ T.out = S.out /\ Fields(T) /\ Shape(S)
  BY <1>1, <1>2 DEF Standing, Sane, Shape, Fields, Quiet
<1>4. Ids(T) = Ids(S)
  BY <1>3 DEF Ids
<1>5. Insts(T)
  <2>1. T.il \in Seq(Ids(T)) /\ Len(T.il) = 1 /\ DOMAIN T.il = 1 .. 1 /\ T.il[1] = n
    BY <1>3, <1>4
  <2>2. \A j \in 1 .. 1 : j = 1
    OBVIOUS
  <2> QED BY <1>3, <1>4, <2>1, <2>2 DEF Insts, Queue, Once, Ids
<1>6. Core(T) /\ Uses(T) /\ Defs(T)
  BY <1>3, <1>4 DEF Shape, Core, Uses, Defs, Queue, Once
<1>7. \A p : ~ Pending(S, p)
  BY EmptySeq DEF Quiet, Pending, Has
<1> QED BY <1>3, <1>5, <1>6, <1>7, SameNodesStand DEF Shape

(* The recorded value of a register fits its node.                         *)
LEMMA LogFits ==
  ASSUME NEW S, Standing(S), NEW n \in Ids(S), IsUse(S.core[n]), ~ node_is_exp(S.core[n]),
         NEW p \in Ids(S), IsInst(S.core[p]),
         NEW place, place = PlaceOf(S.core[n]), place \in DOMAIN LoggedRegs(S, p)
  PROVE  Fitted(S, n, LoggedRegs(S, p)[place]) = LoggedRegs(S, p)[place] /\ place.t = "reg"
<1> DEFINE i == S.core[p].i
           v == S.tr.log[i][place]
<1>1. S.tr \in Traces /\ i \in 1 .. Len(S.tr.prog) /\ LoggedRegs(S, p) = S.tr.log[i]
  BY DEF Standing, Sane, Recorded, LoggedRegs
<1> HIDE DEF i
<1>2. v \in Seq(Byte) /\ Len(v) = place.size /\ place.t = "reg"
  BY <1>1, TracesAssumption
<1>3. size_of_node(S.core[n]) = place.size
  BY DEF size_of_node, PlaceOf, Full, Reg, IsUse, IsDef
<1>4. LoggedRegs(S, p)[place] = v
  BY <1>1
<1> HIDE DEF v
<1>5. Slice(v, 0, place.size) = v
  <2>1. v = [k \in 1 .. place.size |-> v[k]]
    BY <1>2
  <2>2. \A k \in 1 .. place.size : 0 + k = k
    OBVIOUS
  <2> QED BY <2>1, <2>2 DEF Slice
<1> QED BY <1>2, <1>3, <1>4, <1>5 DEF Fitted

(* A register that nothing earlier defines.                                *)
LEMMA NotDefined ==
  ASSUME NEW S, Shape(S), NEW n \in Ids(S), NEW place, place.t = "reg",
         find_prev(S, n, place, "def") = 0, NEW p \in Ids(S)
  PROVE  ~ use_after_def(S, n, place, p)
<1> SUFFICES ASSUME use_after_def(S, n, place, p) PROVE FALSE
  OBVIOUS
<1> DEFINE M == {j \in n + 1 .. Len(S.core) : Matches(S, j, place, "def")}
<1>1. Len(S.core) \in Nat /\ n \in Nat /\ p \in Nat /\ p \in 0 .. Len(S.core)
  BY CoreLen
<1>2. PICK d \in ElementsOf(S, p) : IsDef(S.core[d]) /\ PlaceOf(S.core[d]) = place /\ n < d
  BY DEF use_after_def
<1>3. d \in Ids(S) /\ d \in n + 1 .. Len(S.core)
  <2>1. d \in Ids(S)
    BY <1>1, ElementsRange
  <2> QED BY <1>1, <1>2, <2>1 DEF Ids
<1>4. Matches(S, d, place, "def")
  BY <1>2 DEF Matches, MatchType, compare_two_targets, compare_reg, IsDef, EXACT, NO_MATCH
<1>5. M # {} /\ M \in SUBSET Nat /\ 0 \notin M
  BY <1>1, <1>3, <1>4
<1>6. find_prev(S, n, place, "def") = MinOrNull(M)
  BY DEF find_prev
<1> HIDE DEF M
<1> QED BY <1>5, <1>6, MinMember

Taking(S, n) == [init_reg_use(S, n) EXCEPT !.ph = "use"]
(* init_reg_use contradicts nothing that is known.                         *)
LEMMA TakingStands ==
  ASSUME NEW S, Standing(S), Quiet(S), S.out = "ok", NEW n \in Ids(S), IsUse(S.core[n]),
         EspAsLogged(S, n), NEW T, T = Taking(S, n)
  PROVE  /\ Standing(T) /\ Kept(S, T) /\ T.um = S.um
         /\ \A m \in Ids(S) : ~ IsInst(S.core[m]) => T.core[m].addr = S.core[m].addr
<1> DEFINE p == find_inst_of_node(S, n)
           place == PlaceOf(S.core[n])
           v == LoggedRegs(S, p)[place]
           A == assign_value(S, n, "val", v)
           B == enlist(A, n)
<1>0. Shape(S) /\ ~ IsInst(S.core[n]) /\ ~ IsDef(S.core[n]) /\ Fits(S.core[n], "val")
  BY DEF Standing, Sane, IsUse, IsInst, IsDef, Fits
<1>1. p \in Ids(S) /\ IsInst(S.core[p]) /\ n \in ElementsOf(S, p)
  <2>1. p = find_inst_of_node(S, n)
    OBVIOUS
  <2> HIDE DEF p
  <2> QED BY <1>0, <2>1, InstOf
<1>2. CASE init_reg_use(S, n) = S
  <2>1. T = [S EXCEPT !.ph = "use"]
    BY <1>2 DEF Taking
  <2>2. /\ T.core = S.core /\ T.ul = S.ul /\ T.dl = S.dl /\ T.il = S.il /\ T.um = S.um
        /\ T.tr = S.tr /\ T.out = S.out /\ Fields(T)
    BY <1>0, <2>1 DEF Shape, Fields
  <2>3. Shape(T) /\ \A q : Pending(S, q) => Pending(T, q)
    BY <1>0, <2>2, ShapeKept DEF Pending
  <2> QED BY <2>2, <2>3, SameNodesStand
<1>3. CASE init_reg_use(S, n) # S
  <2>1. /\ ~ node_is_exp(S.core[n]) /\ find_prev(S, n, place, "def") = 0
        /\ place \in DOMAIN LoggedRegs(S, p)
    BY <1>3 DEF init_reg_use
  <2>2. T = [add_to_uselist(A, n) EXCEPT !.ph = "use"]
    BY <1>3 DEF init_reg_use, Taking
  <2>3. EspAsLogged(S, n) => (S.core[n].ut = "Base" /\ place = Full("esp") /\ Known(S.core[n].val)
                              => S.core[n].val = v)
    BY <2>1 DEF EspAsLogged
  <2>4. A = assign_value(S, n, "val", v) /\ B = enlist(A, n) /\ v = LoggedRegs(S, p)[place]
        /\ place = PlaceOf(S.core[n])
    OBVIOUS
  <2> HIDE DEF p, place, v, A, B
  <2>5. Fitted(S, n, v) = v /\ place.t = "reg"
    BY <1>1, <2>1, <2>4, LogFits
  <2>6. S.core[n].val = <<>> \/ S.core[n].val = v
    <3>1. Agrees(S, p)
      <4>1. ~ Pending(S, p)
        BY EmptySeq DEF Quiet, Pending, Has
      <4> QED BY <1>1, <4>1 DEF Standing, Logged
    <3>2. AgreesWithLog(S, p, n, place)
      BY <1>1, <2>4, <3>1 DEF Agrees
    <3>3. ~ use_after_def(S, n, place, p)
      BY <1>0, <1>1, <2>1, <2>5, NotDefined
    <3>4. AsLogged(S.core[n], S.core[n].val, v)
      BY <2>1, <2>4, <3>2, <3>3 DEF AgreesWithLog, ValueBefore
    <3> QED BY <2>3, <2>4, <3>4 DEF AsLogged, Known
  <2>7. /\ Tells(S, A) /\ HasValue(A.core[n]) /\ A.il = S.il /\ A.ul = S.ul /\ A.dl = S.dl
    BY <1>0, <2>4, <2>5, <2>6, AssignTells
  <2>8. Standing(A) /\ Shape(A) /\ Kept(S, A)
    <3>1. Sane(A)
      BY <1>0, <2>7, AddressedTells, SaneGrows DEF Tells, Standing, Sane
    <3>2. Logged(A)
      BY <1>0, <2>7, LoggedGrows DEF Tells, Standing
    <3>3. Kept(S, A)
      BY <2>7 DEF Tells, Grows, Kept
    <3>4. OneWriteEach(A)
      BY <1>0, <3>3, OneWriteKept DEF Standing, Kept
    <3> QED BY <3>1, <3>2, <3>3, <3>4 DEF Standing, Sane
  <2>9. n \in Ids(A) /\ IsUse(A.core[n]) /\ ~ IsInst(A.core[n]) /\ ~ IsDef(A.core[n])
    BY <1>0, <2>8 DEF Kept, Ids, NodeLater, IsUse, IsInst, IsDef
  <2>10. Shape(B) /\ B = [A EXCEPT !.dl = B.dl, !.ul = B.ul]
    <3>1. Shape(A) /\ HasValue(A.core[n]) /\ B = enlist(A, n)
      BY <2>4, <2>7, <2>8
    <3> QED BY <2>9, <3>1, EnlistShape
  <2>11. T = [B EXCEPT !.ph = "use"]
    BY <2>2, <2>4, <2>9 DEF enlist
  <2>12. /\ B.core = A.core /\ B.il = A.il /\ B.um = A.um /\ B.tr = A.tr /\ B.out = A.out
    BY <2>8, <2>10 DEF Shape, Fields
  <2>13. /\ T.core = B.core /\ T.ul = B.ul /\ T.dl = B.dl /\ T.il = B.il /\ T.um = B.um
         /\ T.tr = B.tr /\ T.out = B.out /\ Fields(T)
    BY <2>10, <2>11 DEF Shape, Fields
  <2>14. Shape(T) /\ \A q : Pending(A, q) => Pending(T, q)
    BY <2>10, <2>12, <2>13, ShapeKept DEF Pending
  <2>15. Standing(T) /\ Kept(A, T)
    BY <2>8, <2>12, <2>13, <2>14, SameNodesStand
  <2>16. T.core = A.core /\ T.tr = A.tr /\ T.um = S.um
    BY <2>7, <2>12, <2>13 DEF Tells
  <2> QED BY <2>7, <2>8, <2>15, <2>16 DEF Kept, Tells
<1> QED BY <1>2, <1>3

-----------------------------------------------------------------------------
(***************************************************************************)
(* What is still unknown can be counted.                                   *)
(***************************************************************************)
LEMMA FewerLeft ==
  ASSUME NEW M, NEW N, IsFiniteSet(N), M \subseteq N
  PROVE  /\ Cardinality(M) \in Nat /\ Cardinality(N) \in Nat
         /\ Cardinality(M) <= Cardinality(N)
         /\ \A x : x \in N /\ x \notin M => Cardinality(M) < Cardinality(N)
<1>1. /\ IsFiniteSet(M) /\ Cardinality(M) \in Nat /\ Cardinality(N) \in Nat
      /\ Cardinality(M) <= Cardinality(N)
  BY FS_Subset, FS_CardinalityType
<1>2. ASSUME NEW x, x \in N, x \notin M PROVE Cardinality(M) < Cardinality(N)
  <2>1. /\ IsFiniteSet(N \ {x}) /\ Cardinality(N \ {x}) = Cardinality(N) - 1
    BY <1>2, FS_RemoveElement
  <2>2. M \subseteq N \ {x}
    BY <1>2
  <2>3. Cardinality(M) <= Cardinality(N \ {x})
    BY <2>1, <2>2, FS_Subset
  <2> QED BY <1>1, <2>1, <2>3
<1> QED BY <1>1, <1>2

NoAddr(S) == {n \in Nodes(S) : S.core[n].addr = 0}
NoVal(S)  == {n \in Nodes(S) : IsUse(S.core[n]) /\ ~ Known(S.core[n].val)}
NoBef(S)  == {n \in Nodes(S) : IsDef(S.core[n]) /\ ~ Known(S.core[n].bef)}
NoAft(S)  == {n \in Nodes(S) : IsDef(S.core[n]) /\ ~ Known(S.core[n].aft)}

(* Propagation never makes more of it, and less when something is learned. *)
LEMMA MissingKept ==
  ASSUME NEW S, Shape(S), NEW T, Kept(S, T)
  PROVE  /\ Missing(S) \in Nat /\ Missing(T) \in Nat /\ Missing(T) <= Missing(S)
         /\ Gain(S, T) => Missing(T) < Missing(S)
<1>1. Len(S.core) \in Nat /\ Len(T.core) = Len(S.core)
  BY CoreLen DEF Kept
<1>2. \A n \in Ids(S) : NodeLater(S.core[n], T.core[n])
  BY DEF Kept
<1>3. /\ NoAddr(T) \subseteq NoAddr(S) /\ NoVal(T) \subseteq NoVal(S)
      /\ NoBef(T) \subseteq NoBef(S) /\ NoAft(T) \subseteq NoAft(S)
  <2>1. Nodes(T) = Nodes(S)
    BY <1>1, <1>2 DEF Nodes, Ids, NodeLater, IsInst
  <2>2. ASSUME NEW n \in Nodes(S)
        PROVE  /\ n \in NoAddr(T) => n \in NoAddr(S)
               /\ n \in NoVal(T) => n \in NoVal(S)
               /\ n \in NoBef(T) => n \in NoBef(S)
               /\ n \in NoAft(T) => n \in NoAft(S)
    <3>1. NodeLater(S.core[n], T.core[n]) /\ ~ IsInst(S.core[n])
      BY <1>2, <2>2 DEF Nodes, Ids
    <3> QED BY <3>1 DEF NodeLater, Keeps, NoAddr, NoVal, NoBef, NoAft, IsUse, IsDef, IsInst
  <2> QED BY <2>1, <2>2 DEF NoAddr, NoVal, NoBef, NoAft
<1>4. /\ IsFiniteSet(NoAddr(S)) /\ IsFiniteSet(NoVal(S))
      /\ IsFiniteSet(NoBef(S)) /\ IsFiniteSet(NoAft(S))
  <2>1. IsFiniteSet(1 .. Len(S.core))
    <3>1. 1 \in Int /\ Len(S.core) \in Int
      BY <1>1
    <3> QED BY <3>1, FS_Interval
  <2>2. /\ NoAddr(S) \subseteq 1 .. Len(S.core) /\ NoVal(S) \subseteq 1 .. Len(S.core)
        /\ NoBef(S) \subseteq 1 .. Len(S.core) /\ NoAft(S) \subseteq 1 .. Len(S.core)
    BY DEF NoAddr, NoVal, NoBef, NoAft, Nodes, Ids
  <2> QED BY <2>1, <2>2, FS_Subset
<1> DEFINE a == Cardinality(NoAddr(S))
           b == Cardinality(NoVal(S))
           c == Cardinality(NoBef(S))
           d == Cardinality(NoAft(S))
           e == Cardinality(NoAddr(T))
           f == Cardinality(NoVal(T))
           g == Cardinality(NoBef(T))
           h == Cardinality(NoAft(T))
<1>5. Missing(S) = a + b + c + d /\ Missing(T) = e + f + g + h
  BY DEF Missing, NoAddr, NoVal, NoBef, NoAft
<1>6. /\ a \in Nat /\ e \in Nat /\ e <= a
      /\ \A x : x \in NoAddr(S) /\ x \notin NoAddr(T) => e < a
  BY <1>3, <1>4, FewerLeft
<1>7. /\ b \in Nat /\ f \in Nat /\ f <= b
      /\ \A x : x \in NoVal(S) /\ x \notin NoVal(T) => f < b
  BY <1>3, <1>4, FewerLeft
<1>8. /\ c \in Nat /\ g \in Nat /\ g <= c
      /\ \A x : x \in NoBef(S) /\ x \notin NoBef(T) => g < c
  BY <1>3, <1>4, FewerLeft
<1>9. /\ d \in Nat /\ h \in Nat /\ h <= d
      /\ \A x : x \in NoAft(S) /\ x \notin NoAft(T) => h < d
  BY <1>3, <1>4, FewerLeft
<1>10. Gain(S, T) => e < a \/ f < b \/ g < c \/ h < d
  <2> SUFFICES ASSUME Gain(S, T) PROVE e < a \/ f < b \/ g < c \/ h < d
    OBVIOUS
  <2>1. PICK n \in Ids(S) : NodeGain(S.core[n], T.core[n])
    BY DEF Gain
  <2>2. \/ n \in NoAddr(S) /\ n \notin NoAddr(T)
        \/ n \in NoVal(S) /\ n \notin NoVal(T)
        \/ n \in NoBef(S) /\ n \notin NoBef(T)
        \/ n \in NoAft(S) /\ n \notin NoAft(T)
    BY <2>1 DEF NodeGain, NoAddr, NoVal, NoBef, NoAft, Nodes, Ids
  <2> HIDE DEF a, b, c, d, e, f, g, h
  <2> QED BY <1>6, <1>7, <1>8, <1>9, <2>2
<1> HIDE DEF a, b, c, d, e, f, g, h
<1>11. e + f + g + h <= a + b + c + d
  BY <1>6, <1>7, <1>8, <1>9
<1>12. e < a \/ f < b \/ g < c \/ h < d => e + f + g + h < a + b + c + d
  BY <1>6, <1>7, <1>8, <1>9
<1> QED BY <1>5, <1>6, <1>7, <1>8, <1>9, <1>10, <1>11, <1>12

(* So that a turn leaves less to do.                                       *)
LEMMA TurnAdvances ==
  ASSUME NEW S, Standing(S), NEW T, Turn(S, T)
  PROVE  Smaller(T, S)
<1>1. Kept(S, T) /\ Shape(S) /\ Shape(T)
  BY TurnStands DEF Standing, Sane, Turn
<1> DEFINE s == Missing(S)
           t == Missing(T)
<1>2. s \in Nat /\ t \in Nat /\ t <= s /\ (Gain(S, T) => t < s)
  BY <1>1, MissingKept
<1>3. Smaller(T, S) <=>
        \/ t < s
        \/ /\ t = s
           /\ \/ Len(T.ul) + Len(T.dl) < Len(S.ul) + Len(S.dl)
              \/ Len(T.ul) + Len(T.dl) = Len(S.ul) + Len(S.dl) /\ Len(T.il) < Len(S.il)
  BY DEF Smaller
<1> HIDE DEF s, t
<1>4. CASE Gain(S, T)
  BY <1>2, <1>3, <1>4
<1>5. t < s \/ t = s
  BY <1>2
<1>6. CASE Len(T.ul) + Len(T.dl) < Len(S.ul) + Len(S.dl)
  BY <1>3, <1>5, <1>6
<1>7. CASE T.ul = S.ul /\ T.dl = S.dl /\ Len(T.il) < Len(S.il)
  BY <1>3, <1>5, <1>7
<1> QED BY <1>4, <1>6, <1>7 DEF Turn, Onward

-----------------------------------------------------------------------------
(***************************************************************************)
(* The steps of the analysis.                                              *)
(***************************************************************************)
Rounds ==
  /\ stage \in {"first", "init", "second", "done"}
  /\ stage = "first"  => at \in Nat \ {0}
  /\ stage = "init"   => at \in 0 .. Len(re_ds.core)
  /\ stage = "second" => at \in Nat \ {0}

(* The inductive invariant.                                                *)
IInv == Standing(re_ds) /\ Rounds

(* A step makes an instruction, or it works on the nodes there are.        *)
Made1(S, T) == S.out = "ok" /\ Quiet(S) /\ NewInst(S, T)
Moved(S, T) == Made1(S, T) \/ Kept(S, T)

(* A new instruction leaves what is assumed as it was.                     *)
LEMMA NewInstStands ==
  ASSUME NEW S, Standing(S), S.out = "ok", NEW T, NewInst(S, T)
  PROVE  Standing(T)
BY DEF Standing, NewInst

(* Nothing done keeps everything.                                          *)
LEMMA KeptRefl ==
  ASSUME NEW S
  PROVE  Kept(S, S)
BY DEF Kept, NodeLater, Keeps, IsInst, IsUse, IsDef

(* The analysis starts with an empty list.                                 *)
LEMMA InitIInv == Init => IInv
  BY FreshStands DEF Init, IInv, Rounds

(* Init and the nine steps.                                                *)
LEMMA StepIInv ==
  ASSUME IInv, BaseAsLogged, [Next]_vars
  PROVE  IInv' /\ Moved(re_ds, re_ds')
<1>0. Standing(re_ds) /\ Sane(re_ds) /\ Shape(re_ds) /\ Len(re_ds.core) \in Nat
  BY CoreLen DEF IInv, Standing, Sane
<1>1. CASE HandleInst
  <2>1. /\ stage = "first" /\ re_ds.out = "ok" /\ Quiet(re_ds) /\ at \in 1 .. Len(re_ds.tr.prog)
        /\ at' = at + 1 /\ stage' = stage /\ at \in Nat \ {0}
    <3>1. stage = "first" /\ at \in Nat \ {0} /\ at <= Len(re_ds.tr.prog) /\ Idle
      BY <1>1 DEF HandleInst, IInv, Rounds, ProgramOf
    <3>2. Len(re_ds.tr.prog) \in Nat
      BY <1>0, TracesAssumption DEF Sane, Recorded
    <3> QED BY <1>1, <3>1, <3>2 DEF HandleInst, Idle
  <2>2. re_ds' = HandleOne(re_ds, at)
    BY <1>1 DEF HandleInst, HandleOne
  <2>3. NewInst(re_ds, re_ds')
    BY <1>0, <2>1, <2>2, HandleTurn DEF Standing
  <2>4. Standing(re_ds')
    BY <1>0, <2>1, <2>3, NewInstStands
  <2>5. Rounds'
    BY <2>1 DEF Rounds
  <2> QED BY <2>1, <2>3, <2>4, <2>5 DEF IInv, Moved, Made1
<1>2. ASSUME Turn(re_ds, re_ds'), UNCHANGED <<stage, at>>
      PROVE  IInv' /\ Moved(re_ds, re_ds')
  <2>1. Standing(re_ds') /\ Kept(re_ds, re_ds')
    BY <1>0, <1>2, TurnStands
  <2>2. Rounds'
    BY <1>2, <2>1 DEF IInv, Rounds, Kept
  <2> QED BY <2>1, <2>2 DEF IInv, Moved
<1>3. CASE ResolveUse
  <2>1. re_ds.ul # <<>> /\ re_ds' = resolve_use(re_ds)
    BY <1>0, <1>3, WorkingList DEF ResolveUse, Busy
  <2>2. Turn(re_ds, re_ds')
    BY <1>0, <2>1, UseTurn
  <2> QED BY <1>2, <1>3, <2>2 DEF ResolveUse
<1>4. CASE ResolveDefine
  <2>1. re_ds.dl # <<>> /\ re_ds' = resolve_define(re_ds)
    BY <1>0, <1>4, WorkingList DEF ResolveDefine, Busy
  <2>2. Turn(re_ds, re_ds')
    BY <1>0, <2>1, DefineTurn
  <2> QED BY <1>2, <1>4, <2>2 DEF ResolveDefine
<1>5. CASE ResolveInst
  <2>1. re_ds.il # <<>> /\ re_ds' = resolve_inst(re_ds)
    BY <1>0, <1>5, WorkingList DEF ResolveInst, Busy
  <2>2. Turn(re_ds, re_ds')
    BY <1>0, <2>1, InstTurn
  <2> QED BY <1>2, <1>5, <2>2 DEF ResolveInst
<1>6. CASE EndFirstRound
  BY <1>0, <1>6, KeptRefl DEF EndFirstRound, IInv, Rounds, Moved
<1>7. CASE InitRegUse
  <2>1. /\ stage = "init" /\ Quiet(re_ds) /\ re_ds.out = "ok" /\ Idle /\ at' = at - 1
        /\ stage' = "init" /\ at \in 0 .. Len(re_ds.core) /\ at > 0
    BY <1>7 DEF InitRegUse, Idle, IInv, Rounds
  <2>2. at \in Ids(re_ds) /\ at - 1 \in 0 .. Len(re_ds.core)
    BY <1>0, <2>1 DEF Ids
  <2>3. Standing(re_ds') /\ Kept(re_ds, re_ds')
    <3>1. CASE IsUse(re_ds.core[at])
      <4>1. re_ds' = Taking(re_ds, at)
        BY <1>7, <3>1 DEF InitRegUse, Taking
      <4>2. EspAsLogged(re_ds, at)
        BY <2>1, <2>2 DEF BaseAsLogged
      <4> QED BY <1>0, <2>1, <2>2, <3>1, <4>1, <4>2, TakingStands
    <3>2. CASE ~ IsUse(re_ds.core[at])
      <4>1. re_ds' = re_ds
        BY <1>7, <3>2 DEF InitRegUse
      <4> QED BY <1>0, <4>1, KeptRefl
    <3> QED BY <3>1, <3>2
  <2>4. Rounds'
    BY <2>1, <2>2, <2>3 DEF Rounds, Kept
  <2> QED BY <2>3, <2>4 DEF IInv, Moved
<1>8. CASE BeginSecondRound
  <2>1. re_ds' = [re_ds EXCEPT !.resolving = TRUE] /\ stage' = "second" /\ at' = 1
    BY <1>8 DEF BeginSecondRound
  <2>2. Standing(re_ds') /\ Kept(re_ds, re_ds')
    BY <1>0, <2>1, BeginStands
  <2> QED BY <2>1, <2>2 DEF IInv, Rounds, Moved
<1>9. CASE NextInst
  <2>1. /\ stage = "second" /\ Quiet(re_ds) /\ at' = at + 1 /\ stage' = stage
        /\ at \in Nat \ {0} /\ at <= Len(re_ds.core)
    BY <1>9 DEF NextInst, Idle, IInv, Rounds
  <2>2. at \in Ids(re_ds)
    BY <1>0, <2>1 DEF Ids
  <2>3. Standing(re_ds') /\ Kept(re_ds, re_ds')
    <3>1. CASE IsInst(re_ds.core[at])
      <4>1. re_ds' = Visit(re_ds, at)
        BY <1>9, <3>1 DEF NextInst, Visit
      <4> QED BY <1>0, <2>1, <2>2, <3>1, <4>1, VisitStands
    <3>2. CASE ~ IsInst(re_ds.core[at])
      <4>1. re_ds' = re_ds
        BY <1>9, <3>2 DEF NextInst
      <4> QED BY <1>0, <4>1, KeptRefl
    <3> QED BY <3>1, <3>2
  <2>4. Rounds'
    BY <2>1 DEF Rounds
  <2> QED BY <2>3, <2>4 DEF IInv, Moved
<1>10. CASE Finish
  BY <1>10, KeptRefl DEF Finish, IInv, Rounds, Moved
<1>11. CASE Ended \/ UNCHANGED vars
  BY <1>11, KeptRefl DEF Ended, vars, IInv, Rounds, Moved
<1> QED BY <1>1, <1>3, <1>4, <1>5, <1>6, <1>7, <1>8, <1>9, <1>10, <1>11 DEF Next

(* What the inductive invariant says of the lists.                         *)
LEMMA ReadyIInv == IInv => ListsReady
<1> SUFFICES ASSUME IInv PROVE ListsReady
  OBVIOUS
<1>1. Shape(re_ds)
  BY DEF IInv, Standing, Sane
<1>2. DOMAIN re_ds.ul = 1 .. Len(re_ds.ul) /\ DOMAIN re_ds.dl = 1 .. Len(re_ds.dl)
      /\ DOMAIN re_ds.il = 1 .. Len(re_ds.il)
  BY <1>1 DEF Shape, Uses, Defs, Insts, Queue
<1> QED BY <1>1, <1>2 DEF ListsReady, Shape, Uses, Defs, Insts, Queue

(* A turn of the loops is one of the three.                                *)
LEMMA DrainsIInv == IInv => Drains
<1> SUFFICES ASSUME IInv, ~ Idle, re_ds.out = "ok" PROVE Smaller(re_resolve_step(re_ds), re_ds)
  BY DEF Drains, Advanced, re_resolve_step
<1>1. Standing(re_ds) /\ Sane(re_ds) /\ Shape(re_ds) /\ ~ Quiet(re_ds)
  BY DEF IInv, Standing, Sane, Idle
<1> DEFINE T == re_resolve_step(re_ds)
<1>2. \/ re_ds.ul # <<>> /\ T = resolve_use(re_ds)
      \/ re_ds.dl # <<>> /\ T = resolve_define(re_ds)
      \/ re_ds.il # <<>> /\ T = resolve_inst(re_ds)
  BY <1>1, WorkingList DEF re_resolve_step
<1> HIDE DEF T
<1>3. Turn(re_ds, T)
  BY <1>1, <1>2, UseTurn, DefineTurn, InstTurn
<1> QED BY <1>1, <1>3, TurnAdvances DEF T

(* Nothing that was known is lost.                                         *)
LEMMA MovedKeeps ==
  ASSUME NEW S, NEW T, Moved(S, T)
  PROVE  T.tr = S.tr /\ \A n \in 1 .. Len(S.core) : Keeps(S.core[n], T.core[n])
<1>1. CASE Kept(S, T)
  BY <1>1 DEF Kept, NodeLater, Ids
<1>2. CASE NewInst(S, T)
  BY <1>2 DEF NewInst, Continued, Prefix, Ids, Keeps, IsInst
<1> QED BY <1>1, <1>2 DEF Moved, Made1

(* The invariant of the whole run.                                         *)
LEMMA AlwaysIInv == Spec /\ []BaseAsLogged => []IInv
<1>1. BaseAsLogged /\ IInv /\ [Next]_vars => IInv'
  BY StepIInv
<1> QED BY <1>1, InitIInv, PTL DEF Spec

(* The work lists are as resolve_use and resolve_define assert, in every   *)
(* state of every run.                                                     *)
THEOREM ListsAlwaysReady == Spec /\ []BaseAsLogged => []ListsReady
BY AlwaysIInv, ReadyIInv, PTL

(* Every turn of the loops of re_resolve learns something or leaves less   *)
(* work, so that they come to an end.                                      *)
THEOREM LoopsDrain == Spec /\ []BaseAsLogged => []Drains
BY AlwaysIInv, DrainsIInv, PTL

(* No step of the analysis forgets or replaces anything that was known.    *)
THEOREM KnownForever == Spec /\ []BaseAsLogged => NothingForgotten
<1>1. IInv /\ BaseAsLogged /\ [Next]_vars =>
        [/\ re_ds'.tr = re_ds.tr
         /\ re_ds'.out = "ok" =>
              \A n \in 1 .. Len(re_ds.core) : Keeps(re_ds.core[n], re_ds'.core[n])]_vars
  BY StepIInv, MovedKeeps
<1> QED BY <1>1, AlwaysIInv, PTL DEF Spec, NothingForgotten

-----------------------------------------------------------------------------
(***************************************************************************)
(* umemlist.                                                               *)
(***************************************************************************)
UWrites(S) == {n \in Ids(S) : UnknownWrite(S.core[n])}
Members(S) == \A i \in 1 .. Len(S.um) : S.um[i] \in Ids(S) /\ MemDef(S, S.um[i])

(* What the visit of an operand, or of all of them, can do to umemlist.    *)
NoEffect(S, T)  == T.um = S.um /\ UWrites(T) = UWrites(S)
Solved(S, T, w) == T.um = RemoveFirst(S.um, w) /\ UWrites(T) = UWrites(S) \ {w}
Listed(S, T, w) == T.um = AtHead(S.um, w) /\ UWrites(T) = UWrites(S) /\ w \in UWrites(S)
Effect(S, T, w) == Solved(S, T, w) \/ Listed(S, T, w) \/ (NoEffect(S, T) /\ w \notin UWrites(S))

(* Writes to memory stay writes to memory.                                 *)
LEMMA MemDefKept ==
  ASSUME NEW S, NEW T, Grows(S, T)
  PROVE  /\ Ids(T) = Ids(S)
         /\ \A n \in Ids(S) : MemDef(T, n) <=> MemDef(S, n)
         /\ \A n \in UWrites(S) : MemDef(S, n) /\ ~ IsInst(S.core[n])
         /\ \A n \in Ids(S) : MemDef(S, n) => node_is_exp(S.core[n]) /\ ~ IsUse(S.core[n])
         /\ \A n \in Ids(S) : T.core[n].addr = S.core[n].addr =>
              (UnknownWrite(T.core[n]) <=> UnknownWrite(S.core[n]))
<1>1. SameKinds(S, T) /\ Ids(T) = Ids(S)
  BY GrowsKinds DEF Grows, Ids
<1> QED BY <1>1 DEF SameKinds, MemDef, UWrites, UnknownWrite, node_is_exp, IsInst, IsDef, IsUse

(* The operands of an instruction, one by one.                             *)
LEMMA OperandEffect ==
  ASSUME NEW A, Shape(A), Addressed(A), Recorded(A), Members(A),
         NEW n \in Ids(A), ~ IsInst(A.core[n]),
         NEW B, B = traverse_operand(A, n), NEW T, Grows(B, T), NonZero(T)
  PROVE  IF MemDef(A, n) THEN Effect(A, B, n) ELSE NoEffect(A, B)
<1>1. /\ Grows(A, B) /\ Addressed(B)
      /\ \/ node_is_exp(A.core[n]) /\ ListedFor(A, B, n)
         \/ B = A /\ (node_is_exp(A.core[n]) => A.core[n].addr # 0)
  BY TraverseGrows
<1>2. Ids(B) = Ids(A) /\ Ids(T) = Ids(A) /\ Grows(A, T) /\ Shape(T)
  <2>1. Grows(A, B)
    BY <1>1
  <2>2. Grows(A, T)
    BY <2>1, GrowsTrans
  <2>3. Len(B.core) = Len(A.core)
    BY <2>1 DEF Grows
  <2>4. Len(T.core) = Len(A.core) /\ Shape(T)
    BY <2>2 DEF Grows
  <2> QED BY <2>2, <2>3, <2>4 DEF Ids
<1>3. SameKinds(A, T) /\ \A m \in Ids(A) : NodeLater(A.core[m], T.core[m])
  BY <1>2, GrowsKinds DEF Grows
<1>4. /\ AddrFound(A, n) => AddrFound(T, n) /\ AddrNow(T, n) = AddrNow(A, n)
      /\ node_is_exp(T.core[n]) = node_is_exp(A.core[n])
      /\ StatusOf(A, n) = "NBaseNIndex" => StatusOf(T, n) = "NBaseNIndex"
  BY <1>3, AddrFoundKept
<1>5. T.core[n].o = A.core[n].o
  BY <1>3 DEF SameKinds
<1>6. node_is_exp(A.core[n]) /\ AddrFound(A, n) => AddrNow(A, n) # 0
  BY <1>2, <1>4 DEF NonZero, AddrFound
<1>7. node_is_exp(A.core[n]) /\ StatusOf(A, n) = "NBaseNIndex" => AddrFound(A, n)
  BY <1>2, <1>4, <1>5 DEF NonZero, AddrFound
<1>8. MemDef(A, n) <=> IsDef(A.core[n]) /\ node_is_exp(A.core[n])
  BY DEF MemDef, node_is_exp
<1>9. IsDef(A.core[n]) \/ IsUse(A.core[n])
  BY DefOrUse
<1>10. CASE B = A /\ (node_is_exp(A.core[n]) => A.core[n].addr # 0)
  BY <1>8, <1>10 DEF Effect, NoEffect, UWrites, UnknownWrite
<1>11. CASE node_is_exp(A.core[n]) /\ ListedFor(A, B, n) /\ AddrFound(A, n)
  <2>1. /\ B.um = RemoveFirst(A.um, n) /\ B.core[n].addr # 0
        /\ \A m \in Ids(A) : m # n /\ ~ IsInst(A.core[m]) => B.core[m].addr = A.core[m].addr
    BY <1>6, <1>11 DEF ListedFor
  <2>2. \A m \in Ids(A) : m # n /\ ~ IsInst(A.core[m]) =>
          (UnknownWrite(B.core[m]) <=> UnknownWrite(A.core[m]))
    BY <1>1, <2>1, MemDefKept
  <2>3. \A m \in Ids(A) : IsInst(A.core[m]) => ~ UnknownWrite(A.core[m]) /\ ~ UnknownWrite(B.core[m])
    BY <1>1, GrowsKinds DEF SameKinds, UnknownWrite, IsInst, IsDef
  <2>4. UWrites(B) = UWrites(A) \ {n}
    BY <1>2, <2>1, <2>2, <2>3 DEF UWrites, UnknownWrite
  <2>5. CASE MemDef(A, n)
    BY <2>1, <2>4, <2>5 DEF Effect, Solved
  <2>6. CASE ~ MemDef(A, n)
    <3>1. n \notin UWrites(A)
      BY <1>8, <2>6 DEF UWrites, UnknownWrite
    <3>2. \A i \in 1 .. Len(A.um) : A.um[i] # n
      BY <2>6 DEF Members
    <3>3. B.um = A.um
      BY <2>1, <3>2 DEF RemoveFirst
    <3> QED BY <2>4, <2>6, <3>1, <3>3 DEF NoEffect
  <2> QED BY <2>5, <2>6
<1>12. CASE node_is_exp(A.core[n]) /\ ListedFor(A, B, n) /\ ~ AddrFound(A, n)
  <2>1. /\ B.core = A.core
        /\ IsDef(A.core[n]) => B.um = AtHead(A.um, n)
        /\ IsUse(A.core[n]) => B.um = A.um
    BY <1>7, <1>12 DEF ListedFor
  <2>2. UWrites(B) = UWrites(A)
    BY <2>1 DEF UWrites, Ids
  <2>3. A.core[n].addr = 0
    BY <1>12 DEF Addressed, Located
  <2>4. CASE MemDef(A, n)
    BY <1>8, <2>1, <2>2, <2>3, <2>4 DEF Effect, Listed, UWrites, UnknownWrite
  <2>5. CASE ~ MemDef(A, n)
    BY <1>8, <1>9, <1>12, <2>1, <2>2, <2>5 DEF NoEffect
  <2> QED BY <2>4, <2>5
<1> QED BY <1>1, <1>10, <1>11, <1>12

(* What the later operands do comes on top of it.                          *)
LEMMA RunGrows ==
  ASSUME NEW S, NEW p, NEW T, NEW g, NEW max, OperandRun(S, p, T, g, max)
  PROVE  \A k \in 0 .. max : Grows(g[k], T)
<1> DEFINE M == {d \in Nat : d <= max => Grows(g[max - d], T)}
<1>1. max \in Nat /\ g[max] = T /\ \A k \in 0 .. max : Grows(S, g[k])
  BY DEF OperandRun
<1>2. 0 \in M
  <2>1. Shape(T)
    BY <1>1 DEF Grows
  <2> QED BY <1>1, <2>1, GrowsRefl
<1>3. ASSUME NEW d \in M PROVE d + 1 \in M
  <2>1. SUFFICES ASSUME d + 1 <= max PROVE Grows(g[max - (d + 1)], T)
    OBVIOUS
  <2> DEFINE k == max - d
             A == g[k - 1]
             n == p + k
  <2>2. k \in 1 .. max /\ k - 1 \in 0 .. max /\ max - (d + 1) = k - 1
    BY <1>1, <2>1
  <2>3. Grows(g[k], T)
    BY <1>1, <2>1
  <2> HIDE DEF k
  <2>4. /\ Grows(S, A) /\ Addressed(A) /\ Recorded(A)
        /\ g[k] = traverse_operand(A, n) /\ n \in Ids(S) /\ ~ IsInst(S.core[n])
    BY <2>2 DEF OperandRun
  <2>5. Shape(A) /\ SameKinds(S, A) /\ Len(A.core) = Len(S.core)
    BY <2>4, GrowsKinds DEF Grows
  <2>6. n \in Ids(A) /\ ~ IsInst(A.core[n])
    BY <2>4, <2>5 DEF SameKinds, Ids, IsInst
  <2> HIDE DEF n
  <2>7. Grows(A, g[k])
    <3> DEFINE B == g[k]
    <3>1. B = traverse_operand(A, n)
      BY <2>4
    <3> HIDE DEF A, B
    <3>2. Grows(A, B)
      BY <2>4, <2>5, <2>6, <3>1, TraverseGrows
    <3> QED BY <3>2 DEF B
  <2>8. Grows(A, T)
    <3> DEFINE B == g[k]
    <3> HIDE DEF A, B
    <3>1. Grows(A, B) /\ Grows(B, T)
      BY <2>3, <2>7 DEF B
    <3> QED BY <2>5, <3>1, GrowsTrans
  <2> QED BY <2>2, <2>8
<1>4. M = Nat
  BY <1>2, <1>3, SetInduction
<1> SUFFICES ASSUME NEW k \in 0 .. max PROVE Grows(g[k], T)
  OBVIOUS
<1>5. max - k \in Nat /\ max - k <= max /\ max - (max - k) = k
  BY <1>1
<1>6. max - k \in M
  BY <1>4, <1>5
<1> QED BY <1>5, <1>6

(* No entry is on the list twice.                                          *)
Single(S) == \A i, j \in DOMAIN S.um : S.um[i] = S.um[j] => i = j

(* The list goes on to hold writes to memory.                              *)
LEMMA EffectMembers ==
  ASSUME NEW S, Shape(S), Members(S), Single(S), NEW w \in Ids(S), MemDef(S, w),
         NEW T, Grows(S, T), NoEffect(S, T) \/ Effect(S, T, w)
  PROVE  Members(T)
<1>1. Ids(T) = Ids(S) /\ \A n \in Ids(S) : MemDef(T, n) <=> MemDef(S, n)
  BY MemDefKept
<1>2. S.um \in Seq(Nat) /\ w \in Nat
  BY CoreLen DEF Shape, Fields
<1>3. CASE T.um = S.um
  BY <1>1, <1>3 DEF Members
<1>4. CASE T.um = RemoveFirst(S.um, w)
  <2>1. CASE RemoveFirst(S.um, w) = S.um
    BY <1>3, <1>4, <2>1
  <2>2. CASE RemoveFirst(S.um, w) # S.um
    <3>1. PICK i \in 1 .. Len(S.um) :
            /\ Len(T.um) = Len(S.um) - 1
            /\ \A j \in 1 .. Len(T.um) : T.um[j] = IF j < i THEN S.um[j] ELSE S.um[j + 1]
      <4> DEFINE s == S.um
                 t == RemoveFirst(s, w)
      <4>1. s \in Seq(Nat)
        BY <1>2
      <4> HIDE DEF s
      <4>2. t # s => \E i \in 1 .. Len(s) :
                        /\ Len(t) = Len(s) - 1
                        /\ \A j \in 1 .. Len(t) : t[j] = IF j < i THEN s[j] ELSE s[j + 1]
        BY <4>1, RemoveFirstList
      <4> QED BY <1>4, <2>2, <4>2 DEF s
    <3>2. \A j \in 1 .. Len(T.um) : j \in 1 .. Len(S.um) /\ j + 1 \in 1 .. Len(S.um)
      BY <1>2, <3>1
    <3> QED BY <1>1, <3>1, <3>2 DEF Members
  <2> QED BY <2>1, <2>2
<1>5. CASE T.um = AtHead(S.um, w)
  <2>1. DOMAIN S.um = 1 .. Len(S.um)
    BY <1>2
  <2>2. /\ T.um \in Seq(Nat)
        /\ \A i \in DOMAIN T.um : T.um[i] = w \/ \E j \in DOMAIN S.um : T.um[i] = S.um[j]
    <3>1. \A i, j \in DOMAIN S.um : S.um[i] = S.um[j] => i = j
      BY DEF Single
    <3> QED BY <1>2, <1>5, <3>1, AtHeadList
  <2>3. DOMAIN T.um = 1 .. Len(T.um)
    BY <2>2
  <2> QED BY <1>1, <2>1, <2>2, <2>3 DEF Members
<1> QED BY <1>3, <1>4, <1>5 DEF NoEffect, Effect, Solved, Listed

(* A whole instruction: it has one write to memory at most, and nothing    *)
(* else touches umemlist.                                                  *)
InstEffect(S, T, p) ==
  \/ (\A m \in ElementsOf(S, p) : ~ MemDef(S, m)) /\ NoEffect(S, T)
  \/ \E w \in ElementsOf(S, p) : MemDef(S, w) /\ Effect(S, T, w)

(* The same for the first k operands.                                      *)
UpTo(S, T, p, k) ==
  \/ (\A m \in p + 1 .. p + k : ~ MemDef(S, m)) /\ NoEffect(S, T)
  \/ \E w \in p + 1 .. p + k : MemDef(S, w) /\ Effect(S, T, w)

(* One effect after the other.                                             *)
LEMMA EffectThen ==
  ASSUME NEW S, NEW A, NEW B, NEW n
  PROVE  /\ NoEffect(S, A) /\ NoEffect(A, B) => NoEffect(S, B)
         /\ NoEffect(S, A) /\ Effect(A, B, n) => Effect(S, B, n)
         /\ Effect(S, A, n) /\ NoEffect(A, B) => Effect(S, B, n)
BY DEF NoEffect, Effect, Solved, Listed

(* What the operands of an instruction do to umemlist.                     *)
LEMMA OperandsEffect ==
  ASSUME NEW S, Shape(S), OneWriteEach(S), Members(S), Single(S),
         NEW p \in Ids(S), IsInst(S.core[p]),
         NEW T, NEW g, NEW max, OperandRun(S, p, T, g, max), NEW U, Grows(T, U), NonZero(U)
  PROVE  InstEffect(S, T, p)
<1> DEFINE J == {k \in Nat : k <= max => UpTo(S, g[k], p, k)}
<1>1. /\ max \in Nat /\ g[max] = T /\ g[0] = S /\ LastElement(S, p) = p + max
      /\ \A k \in 0 .. max : Grows(S, g[k]) /\ Addressed(g[k]) /\ Recorded(g[k])
      /\ p \in Nat
  BY CoreLen DEF OperandRun
<1>2. ElementsOf(S, p) = p + 1 .. p + max
  BY <1>1 DEF ElementsOf
<1>3. 0 \in J
  <2>1. NoEffect(S, S)
    BY DEF NoEffect
  <2>2. p + 1 .. p + 0 = {}
    BY <1>1
  <2> QED BY <1>1, <2>1, <2>2 DEF UpTo
<1>4. ASSUME NEW k \in J PROVE k + 1 \in J
  <2>1. SUFFICES ASSUME k + 1 <= max PROVE UpTo(S, g[k + 1], p, k + 1)
    OBVIOUS
  <2> DEFINE A == g[k]
             B == g[k + 1]
             n == p + (k + 1)
  <2>2. k + 1 \in 1 .. max /\ (k + 1) - 1 = k /\ k \in 0 .. max /\ k + 1 \in 0 .. max
    BY <1>1, <2>1
  <2>3. /\ Grows(S, A) /\ Addressed(A) /\ Recorded(A) /\ Grows(S, B)
        /\ B = traverse_operand(A, n) /\ n \in Ids(S) /\ ~ IsInst(S.core[n])
    BY <1>1, <2>2 DEF OperandRun
  <2>4. Grows(B, T)
    BY <2>2, RunGrows
  <2>5. UpTo(S, A, p, k)
    BY <2>2
  <2>6. \A m \in p + 1 .. n : m \in ElementsOf(S, p)
    BY <1>1, <1>2, <2>2
  <2>7. \A m \in p + 1 .. n : m = n \/ m \in p + 1 .. p + k
    BY <1>1, <2>2
  <2>8. n \in p + 1 .. n /\ \A m \in p + 1 .. p + k : m \in p + 1 .. n /\ m # n
    BY <1>1, <2>2
  <2> HIDE DEF A, B, n
  <2>9. Grows(B, U)
    <3>1. Shape(B)
      BY <2>3 DEF Grows
    <3> QED BY <2>4, <3>1, GrowsTrans
  <2>10. Shape(A) /\ n \in Ids(A) /\ ~ IsInst(A.core[n]) /\ (MemDef(A, n) <=> MemDef(S, n))
    <3>1. SameKinds(S, A) /\ Ids(A) = Ids(S)
      BY <2>3, GrowsKinds, MemDefKept
    <3> QED BY <2>3, <3>1, MemDefKept DEF SameKinds, Grows, IsInst
  <2>11. Members(A)
    <3>1. CASE NoEffect(S, A)
      BY <2>3, <3>1, MemDefKept DEF NoEffect, Members
    <3>2. CASE \E w \in p + 1 .. p + k : MemDef(S, w) /\ Effect(S, A, w)
      <4>1. PICK w \in p + 1 .. p + k : MemDef(S, w) /\ Effect(S, A, w)
        BY <3>2
      <4>2. w \in Ids(S)
        BY <2>6, <2>8, CoreLen, ElementsRange, <4>1 DEF Ids
      <4> QED BY <2>3, <4>1, <4>2, EffectMembers
    <3> QED BY <2>5, <3>1, <3>2 DEF UpTo
  <2>12. IF MemDef(A, n) THEN Effect(A, B, n) ELSE NoEffect(A, B)
    BY <2>3, <2>9, <2>10, <2>11, OperandEffect
  <2>13. \A m \in p + 1 .. p + k : MemDef(S, m) => ~ MemDef(S, n)
    BY <2>6, <2>8 DEF OneWriteEach, OneWrite
  <2>14. \/ (\A m \in p + 1 .. n : ~ MemDef(S, m)) /\ NoEffect(S, B)
         \/ \E w \in p + 1 .. n : MemDef(S, w) /\ Effect(S, B, w)
    <3>1. CASE MemDef(S, n)
      <4>1. NoEffect(S, A) /\ Effect(A, B, n)
        BY <2>5, <2>10, <2>12, <2>13, <3>1 DEF UpTo
      <4>2. Effect(S, B, n)
        BY <4>1, EffectThen
      <4> QED BY <2>8, <3>1, <4>2
    <3>2. CASE ~ MemDef(S, n) /\ (\A m \in p + 1 .. p + k : ~ MemDef(S, m)) /\ NoEffect(S, A)
      <4>1. NoEffect(S, B)
        BY <2>10, <2>12, <3>2, EffectThen
      <4>2. \A m \in p + 1 .. n : ~ MemDef(S, m)
        BY <2>7, <3>2
      <4> QED BY <4>1, <4>2
    <3>3. CASE ~ MemDef(S, n) /\ \E w \in p + 1 .. p + k : MemDef(S, w) /\ Effect(S, A, w)
      <4>1. PICK w \in p + 1 .. p + k : MemDef(S, w) /\ Effect(S, A, w)
        BY <3>3
      <4>2. Effect(S, B, w)
        BY <2>10, <2>12, <3>3, <4>1, EffectThen
      <4> QED BY <2>8, <4>1, <4>2
    <3> QED BY <2>5, <3>1, <3>2, <3>3 DEF UpTo
  <2> QED BY <2>14 DEF UpTo, n, B
<1>5. J = Nat
  BY <1>3, <1>4, SetInduction
<1>6. UpTo(S, T, p, max)
  BY <1>1, <1>5
<1> QED BY <1>2, <1>6 DEF UpTo, InstEffect

(* The rules of the instruction change neither the list nor an address.    *)
LEMMA ResolverEffect ==
  ASSUME NEW S, Sane(S), OneWriteEach(S), Members(S), Single(S),
         NEW p \in Ids(S), IsInst(S.core[p]),
         NEW T, T = inst_resolver(S, p), NonZero(T)
  PROVE  InstEffect(S, T, p) /\ Grows(S, T)
<1> DEFINE V == Traversed(S, p)
<1>1. Grows(S, T) /\ Tells(V, T)
  BY InstResolverGrows
<1>2. NoEffect(V, T)
  <2> HIDE DEF V
  <2>1. /\ Grows(V, T) /\ T.um = V.um
        /\ \A n \in Ids(V) : ~ IsInst(V.core[n]) => T.core[n].addr = V.core[n].addr
    BY <1>1 DEF Tells
  <2>2. /\ Ids(T) = Ids(V) /\ SameKinds(V, T)
        /\ \A n \in Ids(V) : T.core[n].addr = V.core[n].addr =>
             (UnknownWrite(T.core[n]) <=> UnknownWrite(V.core[n]))
    BY <2>1, MemDefKept, GrowsKinds
  <2>3. \A n \in Ids(V) : IsInst(V.core[n]) =>
          ~ UnknownWrite(V.core[n]) /\ ~ UnknownWrite(T.core[n])
    BY <2>2 DEF SameKinds, UnknownWrite, IsInst, IsDef
  <2>4. UWrites(T) = UWrites(V)
    BY <2>1, <2>2, <2>3 DEF UWrites
  <2> QED BY <2>1, <2>4 DEF NoEffect
<1>3. CASE inst_of(S, p).op = "lea"
  <2>1. V = S
    BY <1>3 DEF Traversed
  <2>2. \A m \in ElementsOf(S, p) : ~ MemDef(S, m)
    BY <1>3 DEF OneWriteEach, OneWrite
  <2> QED BY <1>1, <1>2, <2>1, <2>2 DEF InstEffect
<1>4. CASE inst_of(S, p).op # "lea"
  <2>1. V = traverse_inst_operand(S, p)
    BY <1>4 DEF Traversed
  <2> HIDE DEF V
  <2>2. PICK g, max : OperandRun(S, p, V, g, max)
    BY <2>1, OperandsRun DEF Sane
  <2>3. Grows(V, T) /\ Shape(S)
    BY <1>1 DEF Tells, Sane
  <2>4. InstEffect(S, V, p)
    BY <2>2, <2>3, OperandsEffect
  <2> QED BY <1>1, <1>2, <2>4, EffectThen DEF InstEffect
<1> QED BY <1>3, <1>4

-----------------------------------------------------------------------------
(***************************************************************************)
(* The write of the newest instruction may wait to be listed, and only     *)
(* while that instruction is about to be worked on for the first time.     *)
(***************************************************************************)
Waiting(S) == {n \in UWrites(S) : ~ Has(S.um, n)}
ListedBefore(S, p) == \A i \in 1 .. Len(S.um) : S.um[i] < p
Descends(S) == \A i, j \in 1 .. Len(S.um) : i < j => S.um[i] > S.um[j]
AboutTo(S, p) ==
  /\ S.ul = <<>> /\ S.dl = <<>> /\ S.il = <<p>>
  /\ p \in Ids(S) /\ IsInst(S.core[p])
  /\ Waiting(S) \subseteq ElementsOf(S, p) /\ ListedBefore(S, p)
UmInv(S) ==
  /\ Members(S)
  /\ \A i \in 1 .. Len(S.um) : S.um[i] \in UWrites(S)
  /\ Descends(S)
  /\ Waiting(S) # {} => \E p : AboutTo(S, p)

(* The steps of the list, as the abstract machine has them.                *)
Unmoved(S, T)  == T.um = S.um /\ Waiting(T) = Waiting(S)
Settled1(S, T) == \E w : Waiting(S) = {w} /\ Waiting(T) = {} /\ T.um = S.um
Enlisted(S, T) == \E w : Waiting(S) = {w} /\ Waiting(T) = {} /\ T.um = <<w>> \o S.um
Shortened(s, t, i) == t = [j \in 1 .. Len(s) - 1 |-> IF j < i THEN s[j] ELSE s[j + 1]]
Delisted(S, T) == /\ Waiting(S) = {} /\ Waiting(T) = {}
                  /\ \E i \in 1 .. Len(S.um) : Shortened(S.um, T.um, i)
UmStep(S, T) == Unmoved(S, T) \/ Settled1(S, T) \/ Enlisted(S, T) \/ Delisted(S, T)

(* A descending list has no entry twice.                                   *)
LEMMA UmSingle ==
  ASSUME NEW S, Shape(S), Descends(S)
  PROVE  Single(S)
<1>1. S.um \in Seq(Nat)
  BY DEF Shape, Fields
<1>2. DOMAIN S.um = 1 .. Len(S.um) /\ Len(S.um) \in Nat /\ \A i \in 1 .. Len(S.um) : S.um[i] \in Nat
  BY <1>1
<1> SUFFICES ASSUME NEW i \in DOMAIN S.um, NEW j \in DOMAIN S.um, S.um[i] = S.um[j]
             PROVE  i = j
  BY DEF Single
<1>3. ~ (i < j) /\ ~ (j < i)
  BY <1>2 DEF Descends
<1> QED BY <1>2, <1>3

(* Nothing waits, nothing changes.                                         *)
LEMMA UmFrame ==
  ASSUME NEW S, Shape(S), UmInv(S), Waiting(S) = {}, NEW T, Kept(S, T), T.um = S.um,
         \A n \in Ids(S) : ~ IsInst(S.core[n]) => T.core[n].addr = S.core[n].addr
  PROVE  UmInv(T) /\ Unmoved(S, T)
<1>1. /\ Ids(T) = Ids(S)
      /\ \A n \in Ids(S) : NodeLater(S.core[n], T.core[n])
  BY DEF Kept, Ids
<1>2. \A n \in Ids(S) : /\ T.core[n].k = S.core[n].k
                        /\ ~ IsInst(S.core[n]) => T.core[n].o = S.core[n].o
                        /\ IsUse(S.core[n]) => T.core[n].ut = S.core[n].ut
  BY <1>1 DEF NodeLater, Keeps
<1>3. /\ \A n \in Ids(S) : MemDef(T, n) <=> MemDef(S, n)
      /\ \A n \in Ids(S) : UnknownWrite(T.core[n]) <=> UnknownWrite(S.core[n])
  BY <1>2 DEF MemDef, UnknownWrite, node_is_exp, IsInst, IsDef, IsUse
<1>4. UWrites(T) = UWrites(S) /\ Waiting(T) = Waiting(S)
  BY <1>1, <1>3 DEF UWrites, Waiting
<1> QED BY <1>1, <1>3, <1>4 DEF UmInv, Members, Descends, Unmoved

(* A member leaves the list, wherever it stands.                           *)
LEMMA ListWithout ==
  ASSUME NEW s \in Seq(Nat), NEW n, NEW t, t = RemoveFirst(s, n)
  PROVE  /\ ~ Has(s, n) => t = s
         /\ Has(s, n) => \E i \in 1 .. Len(s) :
              s[i] = n /\ Shortened(s, t, i) /\ (\A j \in 1 .. i - 1 : s[j] # n)
<1>1. /\ t \in Seq(Nat)
      /\ t # s => \E i \in 1 .. Len(s) :
                    /\ s[i] = n /\ \A j \in 1 .. i - 1 : s[j] # n
                    /\ Len(t) = Len(s) - 1
                    /\ \A j \in 1 .. Len(t) : t[j] = IF j < i THEN s[j] ELSE s[j + 1]
      /\ t = s => \A i \in 1 .. Len(s) : s[i] # n
  <2> DEFINE u == RemoveFirst(s, n)
  <2>1. /\ u \in Seq(Nat)
        /\ u # s => \E i \in 1 .. Len(s) :
                      /\ s[i] = n /\ \A j \in 1 .. i - 1 : s[j] # n
                      /\ Len(u) = Len(s) - 1
                      /\ \A j \in 1 .. Len(u) : u[j] = IF j < i THEN s[j] ELSE s[j + 1]
        /\ u = s => \A i \in 1 .. Len(s) : s[i] # n
    BY RemoveFirstList
  <2>2. t = u
    OBVIOUS
  <2> HIDE DEF u
  <2> QED BY <2>1, <2>2
<1>2. CASE t = s
  BY <1>1, <1>2 DEF Has
<1>3. CASE t # s
  <2>1. PICK i \in 1 .. Len(s) :
          /\ s[i] = n /\ \A j \in 1 .. i - 1 : s[j] # n
          /\ Len(t) = Len(s) - 1
          /\ \A j \in 1 .. Len(t) : t[j] = IF j < i THEN s[j] ELSE s[j + 1]
    BY <1>1, <1>3
  <2>2. Has(s, n)
    BY <2>1 DEF Has
  <2>3. t = [j \in 1 .. Len(s) - 1 |-> t[j]]
    BY <1>1, <2>1
  <2>4. Shortened(s, t, i)
    BY <2>1, <2>3 DEF Shortened
  <2> QED BY <2>1, <2>2, <2>4
<1> QED BY <1>2, <1>3

(* What is left of a descending list descends.                             *)
LEMMA ShortList ==
  ASSUME NEW s \in Seq(Nat), \A i, j \in 1 .. Len(s) : i < j => s[i] > s[j],
         NEW k \in 1 .. Len(s), NEW t, Shortened(s, t, k)
  PROVE  /\ Len(t) = Len(s) - 1
         /\ \A i, j \in 1 .. Len(t) : i < j => t[i] > t[j]
         /\ \A n : Has(t, n) <=> Has(s, n) /\ n # s[k]
<1>1. Len(s) \in Nat /\ \A i \in 1 .. Len(s) : s[i] \in Nat
  OBVIOUS
<1>2. t \in Seq(Nat) /\ Len(t) = Len(s) - 1
  <2>1. \A j \in 1 .. Len(s) - 1 : (IF j < k THEN s[j] ELSE s[j + 1]) \in Nat
    BY <1>1
  <2>2. Len(s) - 1 \in Nat
    BY <1>1
  <2> QED BY <2>1, <2>2 DEF Shortened
<1>3. \A j \in 1 .. Len(t) : /\ t[j] = IF j < k THEN s[j] ELSE s[j + 1]
                             /\ j \in 1 .. Len(s) /\ j + 1 \in 1 .. Len(s)
  BY <1>1, <1>2 DEF Shortened
<1>4. \A i, j \in 1 .. Len(t) : i < j => t[i] > t[j]
  <2> SUFFICES ASSUME NEW i \in 1 .. Len(t), NEW j \in 1 .. Len(t), i < j PROVE t[i] > t[j]
    OBVIOUS
  <2> DEFINE a == IF i < k THEN i ELSE i + 1
             b == IF j < k THEN j ELSE j + 1
  <2>1. a \in 1 .. Len(s) /\ b \in 1 .. Len(s) /\ a < b
    <3> DEFINE l == Len(s)
    <3>1. l \in Nat /\ k \in 1 .. l /\ i \in 1 .. l - 1 /\ j \in 1 .. l - 1 /\ i < j
      BY <1>1, <1>2
    <3> HIDE DEF l
    <3>2. a \in 1 .. l /\ b \in 1 .. l /\ a < b
      BY <3>1
    <3> QED BY <3>2 DEF l
  <2>2. t[i] = s[a] /\ t[j] = s[b]
    BY <1>3
  <2> HIDE DEF a, b
  <2> QED BY <2>1, <2>2
<1>5. ASSUME NEW n, Has(t, n) PROVE Has(s, n) /\ n # s[k]
  <2>1. PICK j \in 1 .. Len(t) : t[j] = n
    BY <1>5 DEF Has
  <2> DEFINE b == IF j < k THEN j ELSE j + 1
  <2>2. b \in 1 .. Len(s) /\ b # k /\ n = s[b]
    <3>1. j \in 1 .. Len(s) /\ j + 1 \in 1 .. Len(s) /\ n = s[b]
      BY <1>3, <2>1
    <3>2. b # k /\ b \in 1 .. Len(s)
      BY <3>1
    <3> QED BY <3>1, <3>2
  <2> HIDE DEF b
  <2>3. s[b] # s[k]
    <3>1. s[b] > s[k] \/ s[k] > s[b]
      BY <1>1, <2>2
    <3> QED BY <1>1, <2>2, <3>1
  <2> QED BY <2>2, <2>3 DEF Has
<1>6. ASSUME NEW n, Has(s, n), n # s[k] PROVE Has(t, n)
  <2>1. PICK b \in 1 .. Len(s) : s[b] = n
    BY <1>6 DEF Has
  <2> DEFINE j == IF b < k THEN b ELSE b - 1
  <2>2. b # k
    BY <1>6, <2>1
  <2>3. j \in 1 .. Len(t) /\ b = IF j < k THEN j ELSE j + 1
    BY <1>1, <1>2, <2>2
  <2> HIDE DEF j
  <2>4. t[j] = n
    BY <1>3, <2>1, <2>3
  <2> QED BY <2>3, <2>4 DEF Has
<1> QED BY <1>2, <1>4, <1>5, <1>6

(* What an instruction that is worked on does to the list and to the       *)
(* writes that wait: w is its write.                                       *)
LEMMA SolvedStep ==
  ASSUME NEW S, S.um \in Seq(Nat), UmInv(S), NEW w, Waiting(S) \subseteq {w},
         NEW T, Solved(S, T, w)
  PROVE  /\ UmStep(S, T) /\ Waiting(T) = {}
         /\ \A i \in 1 .. Len(T.um) : T.um[i] \in UWrites(T)
         /\ Descends(T)
<1> DEFINE s == S.um
           t == T.um
<1>1. s \in Seq(Nat) /\ t = RemoveFirst(s, w) /\ UWrites(T) = UWrites(S) \ {w}
  BY DEF Solved
<1>2. /\ \A i, j \in 1 .. Len(s) : i < j => s[i] > s[j]
      /\ \A n : Has(s, n) => n \in UWrites(S)
      /\ \A n \in UWrites(S) : n # w => Has(s, n)
      /\ \A n : n \in Waiting(S) <=> n \in UWrites(S) /\ ~ Has(s, n)
      /\ \A n : n \in Waiting(T) <=> n \in UWrites(T) /\ ~ Has(t, n)
  BY DEF UmInv, Descends, Has, Waiting
<1>3. /\ (\A i, j \in 1 .. Len(t) : i < j => t[i] > t[j]) => Descends(T)
      /\ (\A n : Has(t, n) => n \in UWrites(T)) =>
           \A i \in 1 .. Len(T.um) : T.um[i] \in UWrites(T)
  BY DEF Descends, Has
<1>4. /\ t = s /\ Waiting(S) = {w} /\ Waiting(T) = {} => UmStep(S, T)
      /\ t = s /\ Waiting(S) = {} /\ Waiting(T) = {} => UmStep(S, T)
      /\ \A i \in 1 .. Len(s) :
           Waiting(S) = {} /\ Waiting(T) = {} /\ Shortened(s, t, i) => UmStep(S, T)
  BY DEF UmStep, Unmoved, Settled1, Delisted
<1> HIDE DEF s, t
<1>5. CASE ~ Has(s, w)
  <2>1. t = s
    BY <1>1, <1>5, ListWithout
  <2>2. Waiting(T) = {}
    BY <1>1, <1>2, <2>1
  <2>3. \A n : Has(t, n) => n \in UWrites(T)
    BY <1>1, <1>2, <1>5, <2>1
  <2>4. Waiting(S) = {w} \/ Waiting(S) = {}
    OBVIOUS
  <2> QED BY <1>2, <1>3, <1>4, <2>1, <2>2, <2>3, <2>4
<1>6. CASE Has(s, w)
  <2>1. PICK i \in 1 .. Len(s) : s[i] = w /\ Shortened(s, t, i)
    BY <1>1, <1>6, ListWithout
  <2>2. /\ \A j, k \in 1 .. Len(t) : j < k => t[j] > t[k]
        /\ \A n : Has(t, n) <=> Has(s, n) /\ n # w
    BY <1>1, <1>2, <2>1, ShortList
  <2>3. Waiting(S) = {}
    BY <1>2, <1>6
  <2>4. Waiting(T) = {}
    BY <1>1, <1>2, <2>2
  <2>5. \A n : Has(t, n) => n \in UWrites(T)
    BY <1>1, <1>2, <2>2
  <2> QED BY <1>3, <1>4, <2>1, <2>2, <2>3, <2>4, <2>5
<1> QED BY <1>5, <1>6

(* The write of the instruction is listed, or is listed already.           *)
LEMMA ListedStep ==
  ASSUME NEW S, S.um \in Seq(Nat), UmInv(S), NEW w \in Nat, Waiting(S) \subseteq {w},
         Waiting(S) # {} => ListedBefore(S, w), NEW T, Listed(S, T, w)
  PROVE  /\ UmStep(S, T) /\ Waiting(T) = {}
         /\ \A i \in 1 .. Len(T.um) : T.um[i] \in UWrites(T)
         /\ Descends(T)
<1> DEFINE s == S.um
           t == T.um
<1>1. /\ s \in Seq(Nat) /\ t = AtHead(s, w) /\ UWrites(T) = UWrites(S) /\ w \in UWrites(S)
      /\ Waiting(S) # {} => \A i \in 1 .. Len(s) : s[i] < w
  BY DEF Listed, ListedBefore
<1>2. /\ \A i, j \in 1 .. Len(s) : i < j => s[i] > s[j]
      /\ \A n : Has(s, n) => n \in UWrites(S)
      /\ \A n \in UWrites(S) : n # w => Has(s, n)
      /\ \A n : n \in Waiting(S) <=> n \in UWrites(S) /\ ~ Has(s, n)
      /\ \A n : n \in Waiting(T) <=> n \in UWrites(T) /\ ~ Has(t, n)
  BY DEF UmInv, Descends, Has, Waiting
<1>3. /\ (\A i, j \in 1 .. Len(t) : i < j => t[i] > t[j]) => Descends(T)
      /\ (\A n : Has(t, n) => n \in UWrites(T)) =>
           \A i \in 1 .. Len(T.um) : T.um[i] \in UWrites(T)
  BY DEF Descends, Has
<1>4. /\ t = s /\ Waiting(S) = {} /\ Waiting(T) = {} => UmStep(S, T)
      /\ t = <<w>> \o s /\ Waiting(S) = {w} /\ Waiting(T) = {} => UmStep(S, T)
  BY DEF UmStep, Unmoved, Enlisted
<1>5. Contains(s, w) <=> Has(s, w)
  BY <1>1 DEF Contains, Has
<1> HIDE DEF s, t
<1>6. CASE Has(s, w)
  <2>1. t = s
    BY <1>1, <1>5, <1>6 DEF AtHead
  <2>2. Waiting(S) = {} /\ Waiting(T) = {}
    BY <1>1, <1>2, <1>6, <2>1
  <2> QED BY <1>1, <1>2, <1>3, <1>4, <2>1, <2>2
<1>7. CASE ~ Has(s, w)
  <2>1. t = <<w>> \o s
    BY <1>1, <1>5, <1>7 DEF AtHead, Cons
  <2>2. Waiting(S) = {w}
    BY <1>1, <1>2, <1>7
  <2>3. /\ Len(s) \in Nat /\ Len(t) = Len(s) + 1 /\ t[1] = w
        /\ \A i \in 2 .. Len(t) : i - 1 \in 1 .. Len(s) /\ t[i] = s[i - 1]
    BY <1>1, <2>1
  <2>4. \A i \in 1 .. Len(s) : i + 1 \in 2 .. Len(t) /\ t[i + 1] = s[i]
    BY <1>1, <2>1, <2>3
  <2>5. \A n : Has(t, n) <=> n = w \/ Has(s, n)
    <3> SUFFICES ASSUME NEW n PROVE Has(t, n) <=> n = w \/ Has(s, n)
      OBVIOUS
    <3>1. 1 \in 1 .. Len(t) /\ \A i \in 1 .. Len(t) : i = 1 \/ i \in 2 .. Len(t)
      BY <2>3
    <3>2. \A i \in 2 .. Len(t) : i \in 1 .. Len(t)
      BY <2>3
    <3> QED BY <2>3, <2>4, <3>1, <3>2 DEF Has
  <2>6. Waiting(T) = {} /\ \A n : Has(t, n) => n \in UWrites(T)
    BY <1>1, <1>2, <2>5
  <2>7. \A i, j \in 1 .. Len(t) : i < j => t[i] > t[j]
    <3> SUFFICES ASSUME NEW i \in 1 .. Len(t), NEW j \in 1 .. Len(t), i < j PROVE t[i] > t[j]
      OBVIOUS
    <3>1. j \in 2 .. Len(t)
      BY <2>3
    <3>2. j - 1 \in 1 .. Len(s) /\ t[j] = s[j - 1] /\ s[j - 1] \in Nat
      BY <1>1, <2>3, <3>1
    <3>3. CASE i = 1
      BY <1>1, <2>2, <2>3, <3>2, <3>3
    <3>4. CASE i # 1
      <4>1. i \in 2 .. Len(t) /\ i - 1 < j - 1
        BY <2>3, <3>4
      <4>2. t[i] = s[i - 1] /\ i - 1 \in 1 .. Len(s)
        BY <2>3, <4>1
      <4> QED BY <1>2, <3>2, <4>1, <4>2
    <3> QED BY <3>3, <3>4
  <2> QED BY <1>3, <1>4, <2>1, <2>2, <2>6, <2>7
<1> QED BY <1>6, <1>7

(* All this depends on the nodes and on the list only.                     *)
LEMMA UmSame ==
  ASSUME NEW A, NEW T, T.core = A.core, T.um = A.um
  PROVE  /\ NonZero(T) => NonZero(A)
         /\ \A S : UmStep(S, A) => UmStep(S, T)
         /\ Waiting(T) = Waiting(A)
         /\ UmInv(A) /\ Waiting(A) = {} => UmInv(T)
<1>1. Ids(T) = Ids(A) /\ UWrites(T) = UWrites(A) /\ Waiting(T) = Waiting(A)
  BY DEF Ids, UWrites, Waiting
<1>2. \A n : /\ StatusOf(T, n) = StatusOf(A, n) /\ AddrNow(T, n) = AddrNow(A, n)
             /\ MemDef(T, n) <=> MemDef(A, n)
  BY DEF StatusOf, AddrNow, MemDef, exp_addr_status, get_element_of_exp, EffectiveAddr, RegPart
<1>3. \A n : AddrFound(T, n) <=> AddrFound(A, n)
  BY <1>2 DEF AddrFound
<1>4. NonZero(T) => NonZero(A)
  BY <1>1, <1>2, <1>3 DEF NonZero
<1>5. \A S : UmStep(S, A) => UmStep(S, T)
  BY <1>1 DEF UmStep, Unmoved, Settled1, Enlisted, Delisted
<1>6. UmInv(A) /\ Waiting(A) = {} => UmInv(T)
  BY <1>1, <1>2 DEF UmInv, Members, Descends
<1> QED BY <1>1, <1>4, <1>5, <1>6

(* The resolver of an instruction is a step of the abstract machine, and   *)
(* afterwards nothing waits.                                               *)
LEMMA UmResolver ==
  ASSUME NEW S, Sane(S), OneWriteEach(S), UmInv(S), NEW p \in Ids(S), IsInst(S.core[p]),
         Has(S.il, p), NEW T, T = inst_resolver(S, p), NonZero(T)
  PROVE  UmInv(T) /\ UmStep(S, T) /\ Waiting(T) = {}
<1>1. Members(S) /\ Single(S) /\ Shape(S) /\ S.um \in Seq(Nat)
  BY UmSingle DEF UmInv, Sane, Shape, Fields
<1>2. InstEffect(S, T, p) /\ Grows(S, T)
  BY <1>1, ResolverEffect
<1>3. \A m \in ElementsOf(S, p) : m \in Ids(S) /\ m \in Nat /\ m > p
  BY <1>1, CoreLen, ElementsRange
<1>4. CASE Waiting(S) # {}
  <2>1. AboutTo(S, p)
    <3>1. PICK q : AboutTo(S, q)
      BY <1>4 DEF UmInv
    <3>2. q = p
      BY <3>1 DEF AboutTo, Has
    <3> QED BY <3>1, <3>2
  <2>2. PICK w : w \in Waiting(S)
    BY <1>4
  <2>3. w \in ElementsOf(S, p) /\ w \in UWrites(S) /\ MemDef(S, w) /\ Waiting(S) \subseteq {w}
    <3>1. \A n \in Waiting(S) : n \in ElementsOf(S, p) /\ n \in UWrites(S)
      BY <2>1 DEF AboutTo, Waiting
    <3>2. \A n \in UWrites(S) : MemDef(S, n)
      BY DEF UWrites, UnknownWrite, MemDef, node_is_exp
    <3> QED BY <2>2, <3>1, <3>2 DEF OneWriteEach, OneWrite
  <2>4. \A v \in ElementsOf(S, p) : MemDef(S, v) => v = w
    BY <2>3 DEF OneWriteEach, OneWrite
  <2>5. Effect(S, T, w)
    BY <1>2, <2>3, <2>4 DEF InstEffect
  <2>6. Solved(S, T, w) \/ Listed(S, T, w)
    BY <2>3, <2>5 DEF Effect
  <2>7. ListedBefore(S, w) /\ w \in Nat
    <3>1. \A i \in 1 .. Len(S.um) : S.um[i] \in Nat
      BY <1>1
    <3>2. ListedBefore(S, p) /\ p \in Nat /\ w \in Nat /\ w > p
      BY <1>1, <1>3, <2>1, <2>3, CoreLen DEF AboutTo
    <3> QED BY <3>1, <3>2 DEF ListedBefore
  <2>8. /\ UmStep(S, T) /\ Waiting(T) = {} /\ Descends(T)
        /\ \A i \in 1 .. Len(T.um) : T.um[i] \in UWrites(T)
    BY <1>1, <2>3, <2>6, <2>7, SolvedStep, ListedStep
  <2>9. Members(T)
    BY <1>1, <1>2, <1>3, <2>3, <2>5, EffectMembers
  <2> QED BY <2>8, <2>9 DEF UmInv
<1>5. CASE Waiting(S) = {} /\ \E w \in ElementsOf(S, p) : MemDef(S, w) /\ Effect(S, T, w)
  <2>1. PICK w \in ElementsOf(S, p) : MemDef(S, w) /\ Effect(S, T, w)
    BY <1>5
  <2>2. w \in Ids(S) /\ w \in Nat
    BY <1>3, <2>1
  <2>3. Members(T)
    BY <1>1, <1>2, <2>1, <2>2, EffectMembers
  <2>4. CASE Solved(S, T, w) \/ Listed(S, T, w)
    <3>1. /\ UmStep(S, T) /\ Waiting(T) = {} /\ Descends(T)
          /\ \A i \in 1 .. Len(T.um) : T.um[i] \in UWrites(T)
      BY <1>1, <1>5, <2>2, <2>4, SolvedStep, ListedStep
    <3> QED BY <2>3, <3>1 DEF UmInv
  <2>5. CASE NoEffect(S, T)
    <3>1. Waiting(T) = {}
      BY <1>5, <2>5 DEF NoEffect, Waiting
    <3> QED BY <1>5, <2>3, <2>5, <3>1 DEF UmInv, UmStep, Unmoved, NoEffect, Descends
  <2> QED BY <2>1, <2>4, <2>5 DEF Effect
<1>6. CASE Waiting(S) = {} /\ NoEffect(S, T)
  <2>1. Waiting(T) = {}
    BY <1>6 DEF NoEffect, Waiting
  <2>2. Members(T)
    BY <1>1, <1>2, <1>6, MemDefKept DEF NoEffect, Members
  <2> QED BY <1>6, <2>1, <2>2 DEF UmInv, UmStep, Unmoved, NoEffect, Descends
<1> QED BY <1>2, <1>4, <1>5, <1>6 DEF InstEffect

(* A turn of the instruction loop is a step of the abstract machine.       *)
LEMMA UmInstTurn ==
  ASSUME NEW S, Sane(S), OneWriteEach(S), UmInv(S), S.il # <<>>,
         NEW T, T = resolve_inst(S), NonZero(T)
  PROVE  UmInv(T) /\ UmStep(S, T)
<1> DEFINE p == Last(S.il)
           A == inst_resolver(S, p)
<1>1. p \in Ids(S) /\ IsInst(S.core[p]) /\ Has(S.il, p)
  <2>1. Shape(S)
    BY DEF Sane
  <2>2. S.il \in Seq(Ids(S))
    BY <2>1 DEF Shape, Insts, Queue
  <2>3. Len(S.il) \in 1 .. Len(S.il) /\ S.il[Len(S.il)] = p
    BY <2>2 DEF Last
  <2> QED BY <2>1, <2>3, TakenFrom DEF Has
<1>2. T.um = A.um /\ T.core = A.core
  BY InstTurn
<1> HIDE DEF p
<1>3. NonZero(A)
  BY <1>2, UmSame
<1>4. UmInv(A) /\ UmStep(S, A) /\ Waiting(A) = {}
  BY <1>1, <1>3, UmResolver
<1> HIDE DEF A
<1> QED BY <1>2, <1>4, UmSame

(* Nothing waits while the other lists are worked on, or none is.          *)
LEMMA NothingWaits ==
  ASSUME NEW S, UmInv(S), Quiet(S) \/ S.ul # <<>> \/ S.dl # <<>>
  PROVE  Waiting(S) = {}
<1> SUFFICES ASSUME NEW p, AboutTo(S, p) PROVE FALSE
  BY DEF UmInv
<1> QED BY DEF AboutTo, Quiet

(* A new instruction has at most one write, which waits from now on.       *)
UmMade(S, T) ==
  /\ Waiting(S) = {} /\ T.um = S.um /\ Len(S.core) < Len(T.core)
  /\ Waiting(T) = {} \/ \E w \in Len(S.core) + 1 .. Len(T.core) : Waiting(T) = {w}
UmMoved(S, T) == UmMade(S, T) \/ (Len(T.core) = Len(S.core) /\ UmStep(S, T))

(* The handler of an instruction creates nodes for the abstract machine.   *)
LEMMA UmNewInst ==
  ASSUME NEW S, Shape(S), Quiet(S), UmInv(S), NEW T, NewInst(S, T)
  PROVE  UmInv(T) /\ UmMade(S, T)
<1> DEFINE n == Len(S.core) + 1
<1>1. /\ Shape(T) /\ OneWriteEach(T) /\ T.um = S.um /\ S.um \in Seq(Nat)
      /\ \A m \in Ids(S) : T.core[m] = S.core[m] /\ m \in Ids(T)
      /\ n \in Ids(T) /\ IsInst(T.core[n]) /\ Len(S.core) \in Nat /\ Len(T.core) \in Nat
      /\ T.ul = <<>> /\ T.dl = <<>> /\ T.il = <<n>>
      /\ \A m \in n + 1 .. Len(T.core) : ~ IsInst(T.core[m])
  <2>1. Len(S.core) \in Nat /\ Len(T.core) \in Nat /\ Shape(T)
    BY CoreLen DEF NewInst, Sane
  <2>2. Prefix(S, T) /\ Len(S.core) + 1 <= Len(T.core) /\ IsInst(T.core[Len(S.core) + 1])
    BY DEF NewInst, Continued
  <2>3. \A m \in Ids(S) : m \in Ids(T)
    BY <2>1, <2>2 DEF Ids
  <2>4. n \in Ids(T)
    BY <2>1, <2>2 DEF Ids
  <2> QED BY <2>1, <2>2, <2>3, <2>4 DEF NewInst, Prefix, Shape, Fields
<1>2. Len(S.core) < Len(T.core) /\ \A m \in Ids(T) : m \in Ids(S) \/ m = n \/ m \in n + 1 .. Len(T.core)
  BY <1>1 DEF Ids
<1>3. /\ ElementsOf(T, n) = n + 1 .. Len(T.core)
      /\ \A m \in n + 1 .. Len(T.core) : m \in Len(S.core) + 1 .. Len(T.core)
  <2> HIDE DEF n
  <2>1. ElementsOf(T, n) = n + 1 .. Len(T.core)
    BY <1>1, NewestElements
  <2>2. \A m \in n + 1 .. Len(T.core) : m \in Len(S.core) + 1 .. Len(T.core)
    BY <1>1 DEF n
  <2> QED BY <2>1, <2>2
<1>4. Waiting(S) = {}
  BY NothingWaits
<1>5. \A m \in Ids(S) : /\ UnknownWrite(T.core[m]) <=> UnknownWrite(S.core[m])
                        /\ MemDef(T, m) <=> MemDef(S, m)
  BY <1>1 DEF MemDef
<1>6. ~ UnknownWrite(T.core[n])
  BY <1>1 DEF UnknownWrite, IsInst, IsDef
<1> HIDE DEF n
<1>7. Waiting(T) \subseteq ElementsOf(T, n)
  <2> SUFFICES ASSUME NEW m \in Waiting(T) PROVE m \in ElementsOf(T, n)
    OBVIOUS
  <2>1. m \in Ids(T) /\ UnknownWrite(T.core[m]) /\ ~ Has(S.um, m)
    BY <1>1 DEF Waiting, UWrites
  <2>2. m \notin Ids(S)
    BY <1>4, <1>5, <2>1 DEF Waiting, UWrites
  <2> QED BY <1>2, <1>3, <1>6, <2>1, <2>2
<1>8. \A i \in 1 .. Len(S.um) : S.um[i] \in UWrites(T) /\ S.um[i] \in Ids(S)
  BY <1>1, <1>5 DEF UmInv, UWrites
<1>9. ListedBefore(T, n)
  BY <1>1, <1>8 DEF ListedBefore, Ids, n
<1>10. UmInv(T)
  <2>1. Members(T) /\ Descends(T)
    BY <1>1, <1>5, <1>8 DEF UmInv, Members, Descends
  <2>2. AboutTo(T, n)
    BY <1>1, <1>7, <1>9 DEF AboutTo
  <2> QED BY <1>1, <1>8, <2>1, <2>2 DEF UmInv
<1>11. \A v, w \in Waiting(T) : v = w
  <2> SUFFICES ASSUME NEW v \in Waiting(T), NEW w \in Waiting(T) PROVE v = w
    OBVIOUS
  <2>1. MemDef(T, v) /\ MemDef(T, w)
    BY DEF Waiting, UWrites, UnknownWrite, MemDef, node_is_exp
  <2> QED BY <1>1, <1>7, <2>1 DEF OneWriteEach, OneWrite
<1>12. Waiting(T) = {} \/ \E w \in Len(S.core) + 1 .. Len(T.core) : Waiting(T) = {w}
  <2> SUFFICES ASSUME NEW w \in Waiting(T)
               PROVE  \E x \in Len(S.core) + 1 .. Len(T.core) : Waiting(T) = {x}
    OBVIOUS
  <2>1. Waiting(T) = {w}
    BY <1>11
  <2> QED BY <1>3, <1>7, <2>1
<1> QED BY <1>1, <1>2, <1>4, <1>10, <1>12 DEF UmMade

(* The rest of the steps.                                                  *)
LEMMA UmKept ==
  ASSUME NEW S, Shape(S), UmInv(S), Quiet(S) \/ S.ul # <<>> \/ S.dl # <<>>,
         NEW T, Kept(S, T), T.um = S.um,
         \A n \in Ids(S) : ~ IsInst(S.core[n]) => T.core[n].addr = S.core[n].addr
  PROVE  UmInv(T) /\ UmMoved(S, T)
<1>1. Waiting(S) = {}
  BY NothingWaits
<1> QED BY <1>1, UmFrame DEF UmMoved, UmStep, Kept

(* Nothing done is no step.                                                *)
LEMMA UmStays ==
  ASSUME NEW S, UmInv(S)
  PROVE  UmMoved(S, S)
BY DEF UmMoved, UmStep, Unmoved

(* Init and the nine steps.                                                *)
LEMMA StepUm ==
  ASSUME IInv, UmInv(re_ds), BaseAsLogged, NonZero(re_ds'), [Next]_vars
  PROVE  UmInv(re_ds') /\ UmMoved(re_ds, re_ds')
<1>0. /\ Standing(re_ds) /\ Sane(re_ds) /\ Shape(re_ds) /\ Len(re_ds.core) \in Nat
      /\ OneWriteEach(re_ds)
  BY CoreLen DEF IInv, Standing, Sane
<1>1. CASE HandleInst
  <2>1. /\ stage = "first" /\ re_ds.out = "ok" /\ Quiet(re_ds) /\ at \in 1 .. Len(re_ds.tr.prog)
    <3>1. stage = "first" /\ at \in Nat \ {0} /\ at <= Len(re_ds.tr.prog) /\ Idle
      BY <1>1 DEF HandleInst, IInv, Rounds, ProgramOf
    <3>2. Len(re_ds.tr.prog) \in Nat
      BY <1>0, TracesAssumption DEF Sane, Recorded
    <3> QED BY <1>1, <3>1, <3>2 DEF HandleInst, Idle
  <2>2. re_ds' = HandleOne(re_ds, at)
    BY <1>1 DEF HandleInst, HandleOne
  <2>3. NewInst(re_ds, re_ds')
    BY <1>0, <2>1, <2>2, HandleTurn
  <2> QED BY <1>0, <2>1, <2>3, UmNewInst DEF UmMoved
<1>2. CASE ResolveUse
  <2>1. re_ds.ul # <<>> /\ re_ds' = resolve_use(re_ds)
    BY <1>0, <1>2, WorkingList DEF ResolveUse, Busy
  <2>2. /\ Turn(re_ds, re_ds') /\ re_ds'.um = re_ds.um
        /\ \A n \in Ids(re_ds) : ~ IsInst(re_ds.core[n]) => re_ds'.core[n].addr = re_ds.core[n].addr
    BY <1>0, <2>1, UseTurn
  <2>3. Kept(re_ds, re_ds')
    BY <1>0, <2>2, TurnStands
  <2> QED BY <1>0, <2>1, <2>2, <2>3, UmKept
<1>3. CASE ResolveDefine
  <2>1. re_ds.dl # <<>> /\ re_ds' = resolve_define(re_ds)
    BY <1>0, <1>3, WorkingList DEF ResolveDefine, Busy
  <2>2. /\ Turn(re_ds, re_ds') /\ re_ds'.um = re_ds.um
        /\ \A n \in Ids(re_ds) : ~ IsInst(re_ds.core[n]) => re_ds'.core[n].addr = re_ds.core[n].addr
    BY <1>0, <2>1, DefineTurn
  <2>3. Kept(re_ds, re_ds')
    BY <1>0, <2>2, TurnStands
  <2> QED BY <1>0, <2>1, <2>2, <2>3, UmKept
<1>4. CASE ResolveInst
  <2>1. re_ds.il # <<>> /\ re_ds' = resolve_inst(re_ds)
    BY <1>0, <1>4, WorkingList DEF ResolveInst, Busy
  <2>2. UmInv(re_ds') /\ UmStep(re_ds, re_ds')
    BY <1>0, <2>1, UmInstTurn
  <2>3. Len(re_ds'.core) = Len(re_ds.core)
    BY <1>0, <2>1, InstTurn DEF Turn
  <2> QED BY <2>2, <2>3 DEF UmMoved
<1>5. CASE InitRegUse
  <2>1. /\ Quiet(re_ds) /\ re_ds.out = "ok" /\ Idle /\ stage = "init"
        /\ at \in 0 .. Len(re_ds.core) /\ at > 0
    BY <1>5 DEF InitRegUse, Idle, IInv, Rounds
  <2>2. at \in Ids(re_ds)
    BY <1>0, <2>1 DEF Ids
  <2>3. CASE IsUse(re_ds.core[at])
    <3>1. re_ds' = Taking(re_ds, at)
      BY <1>5, <2>3 DEF InitRegUse, Taking
    <3>2. EspAsLogged(re_ds, at)
      BY <2>1, <2>2 DEF BaseAsLogged
    <3>3. /\ Kept(re_ds, re_ds') /\ re_ds'.um = re_ds.um
          /\ \A m \in Ids(re_ds) : ~ IsInst(re_ds.core[m]) => re_ds'.core[m].addr = re_ds.core[m].addr
      BY <1>0, <2>1, <2>2, <2>3, <3>1, <3>2, TakingStands
    <3> QED BY <1>0, <2>1, <3>3, UmKept
  <2>4. CASE ~ IsUse(re_ds.core[at])
    <3>1. re_ds' = re_ds
      BY <1>5, <2>4 DEF InitRegUse
    <3> QED BY <3>1, UmStays
  <2> QED BY <2>3, <2>4
<1>6. CASE BeginSecondRound
  <2>1. re_ds' = [re_ds EXCEPT !.resolving = TRUE] /\ Quiet(re_ds)
    BY <1>6 DEF BeginSecondRound, Idle
  <2>2. Kept(re_ds, re_ds') /\ re_ds'.um = re_ds.um /\ re_ds'.core = re_ds.core
    BY <1>0, <2>1, BeginStands
  <2> QED BY <1>0, <2>1, <2>2, UmKept
<1>7. CASE NextInst
  <2>1. Quiet(re_ds) /\ at \in Nat \ {0} /\ at <= Len(re_ds.core)
    BY <1>7 DEF NextInst, Idle, IInv, Rounds
  <2>2. at \in Ids(re_ds)
    BY <1>0, <2>1 DEF Ids
  <2>3. CASE IsInst(re_ds.core[at])
    <3>1. re_ds' = Visit(re_ds, at)
      BY <1>7, <2>3 DEF NextInst, Visit
    <3>2. Kept(re_ds, re_ds') /\ re_ds'.um = re_ds.um /\ re_ds'.core = re_ds.core
      BY <1>0, <2>1, <2>2, <2>3, <3>1, VisitStands
    <3> QED BY <1>0, <2>1, <3>2, UmKept
  <2>4. CASE ~ IsInst(re_ds.core[at])
    <3>1. re_ds' = re_ds
      BY <1>7, <2>4 DEF NextInst
    <3> QED BY <3>1, UmStays
  <2> QED BY <2>3, <2>4
<1>8. CASE EndFirstRound \/ Finish \/ Ended \/ UNCHANGED vars
  <2>1. re_ds' = re_ds
    BY <1>8 DEF EndFirstRound, Finish, Ended, vars
  <2> QED BY <2>1, UmStays
<1> QED BY <1>1, <1>2, <1>3, <1>4, <1>5, <1>6, <1>7, <1>8 DEF Next

-----------------------------------------------------------------------------
(* The inductive invariant of umemlist.                                    *)
UmIInv == UmInv(re_ds)

(* The list starts empty.                                                  *)
LEMMA InitUm == Init => UmIInv
<1> SUFFICES ASSUME Init PROVE UmInv(re_ds)
  BY DEF UmIInv
<1>1. PICK tr \in Traces : re_ds = Fresh(tr)
  BY DEF Init
<1>2. re_ds.um = <<>> /\ re_ds.core = <<>>
  BY <1>1, FreshStands
<1>3. Len(re_ds.um) = 0 /\ Ids(re_ds) = {}
  BY <1>2 DEF Ids
<1>4. Waiting(re_ds) = {}
  BY <1>3 DEF Waiting, UWrites
<1> QED BY <1>3, <1>4 DEF UmInv, Members, Descends

(* The invariant of umemlist holds throughout.                             *)
LEMMA AlwaysUm ==
  Spec /\ []BaseAsLogged /\ []AddressesNonZero => [](IInv /\ UmIInv)
<1>1. IInv /\ UmIInv /\ BaseAsLogged /\ AddressesNonZero' /\ [Next]_vars => UmIInv'
  BY StepUm DEF UmIInv, AddressesNonZero
<1> QED BY <1>1, InitUm, AlwaysIInv, PTL DEF Spec

(* What it says of the list.                                               *)
LEMMA ReadyUm == IInv /\ UmIInv => UmemReady
<1> SUFFICES ASSUME IInv, UmIInv PROVE UmemReady
  OBVIOUS
<1>1. re_ds.um \in Seq(Nat) /\ UmInv(re_ds)
  BY DEF IInv, Standing, Sane, Shape, Fields, UmIInv
<1>2. DOMAIN re_ds.um = 1 .. Len(re_ds.um)
  BY <1>1
<1>3. UmemDescending
  BY <1>1, <1>2 DEF UmemDescending, UmInv, Descends
<1>4. ASSUME Quiet(re_ds)
      PROVE  {re_ds.um[i] : i \in DOMAIN re_ds.um} = UWrites(re_ds)
  <2>1. Waiting(re_ds) = {}
    BY <1>1, <1>4, NothingWaits
  <2>2. \A n \in UWrites(re_ds) : \E i \in 1 .. Len(re_ds.um) : re_ds.um[i] = n
    BY <2>1 DEF Waiting, Has
  <2>3. \A i \in 1 .. Len(re_ds.um) : re_ds.um[i] \in UWrites(re_ds)
    BY <1>1 DEF UmInv
  <2> QED BY <1>2, <2>2, <2>3
<1>5. UmemExact
  BY <1>4 DEF UmemExact, UWrites, Ids
<1> QED BY <1>3, <1>5 DEF UmemReady

(* umemlist is in order of age, and complete whenever no work waits, in    *)
(* every run in which no address is 0: the early exit of resolve_alias     *)
(* misses no write.                                                        *)
THEOREM UmemAlwaysReady ==
  Spec /\ []BaseAsLogged /\ []AddressesNonZero => []UmemReady
BY AlwaysUm, ReadyUm, PTL

-----------------------------------------------------------------------------
(***************************************************************************)
(* Reverse execution implements UnknownWrites.                             *)
(***************************************************************************)
UnlistedIn(S) ==
  {n \in 1 .. Len(S.core) :
     UnknownWrite(S.core[n]) /\ \A i \in DOMAIN S.um : S.um[i] # n}
Abs(S) == MaxOrNull(UnlistedIn(S))

(* What waits is what the abstract machine has pending.                    *)
LEMMA AbsValue ==
  ASSUME NEW S, Shape(S)
  PROVE  /\ Abs(S) = MaxOrNull(Waiting(S))
         /\ Waiting(S) = {} => Abs(S) = 0
         /\ \A w : Waiting(S) = {w} => Abs(S) = w /\ w \in Nat \ {0}
<1>1. S.um \in Seq(Nat) /\ Len(S.core) \in Nat
  BY CoreLen DEF Shape, Fields
<1>2. DOMAIN S.um = 1 .. Len(S.um)
  BY <1>1
<1>3. UnlistedIn(S) = Waiting(S)
  BY <1>2 DEF UnlistedIn, Waiting, UWrites, Ids, Has
<1>4. Waiting(S) = {} => Abs(S) = 0
  BY <1>3 DEF Abs, MaxOrNull
<1>5. ASSUME NEW w, Waiting(S) = {w} PROVE Abs(S) = w /\ w \in Nat \ {0}
  <2>1. w \in Nat \ {0}
    BY <1>1, <1>5 DEF Waiting, UWrites, Ids
  <2>2. MaxOrNull({w}) = w
    <3>1. {w} \in SUBSET Nat /\ \A m \in {w} : m <= w
      BY <2>1
    <3>2. MaxOrNull({w}) = 0 => {w} \subseteq {0}
      BY <2>1, <3>1, MaxMember
    <3>3. MaxOrNull({w}) # 0 => MaxOrNull({w}) \in {w}
      BY <2>1, <3>1, MaxMember
    <3> QED BY <2>1, <3>2, <3>3
  <2> QED BY <1>3, <1>5, <2>1, <2>2 DEF Abs
<1> QED BY <1>3, <1>4, <1>5 DEF Abs

(* A step is one of the abstract machine, or none.                         *)
LEMMA AbstractStep ==
  ASSUME NEW S, NEW T, Shape(S), Shape(T), UmMoved(S, T), MaxNodes \in Nat,
         Len(T.core) <= MaxNodes
  PROVE  \/ Len(T.core) = Len(S.core) /\ Abs(T) = Abs(S) /\ T.um = S.um
         \/ /\ Abs(S) = 0 /\ T.um = S.um
            /\ \E n \in Len(S.core) + 1 .. MaxNodes :
                 \E w \in {0} \cup (Len(S.core) + 1 .. n) : Len(T.core) = n /\ Abs(T) = w
         \/ /\ Abs(S) # 0 /\ T.um = <<Abs(S)>> \o S.um /\ Abs(T) = 0
            /\ Len(T.core) = Len(S.core)
         \/ Abs(S) # 0 /\ Abs(T) = 0 /\ T.um = S.um /\ Len(T.core) = Len(S.core)
         \/ /\ \E i \in 1 .. Len(S.um) : Shortened(S.um, T.um, i)
            /\ Abs(T) = Abs(S) /\ Len(T.core) = Len(S.core)
<1>0. Len(S.core) \in Nat /\ Len(T.core) \in Nat
  BY CoreLen
<1>1. CASE UmMade(S, T)
  <2>1. Abs(S) = 0 /\ T.um = S.um /\ Len(T.core) \in Len(S.core) + 1 .. MaxNodes
    BY <1>0, <1>1, AbsValue DEF UmMade
  <2>2. Abs(T) \in {0} \cup (Len(S.core) + 1 .. Len(T.core))
    <3>1. CASE Waiting(T) = {}
      BY <3>1, AbsValue
    <3>2. CASE \E w \in Len(S.core) + 1 .. Len(T.core) : Waiting(T) = {w}
      BY <3>2, AbsValue
    <3> QED BY <1>1, <3>1, <3>2 DEF UmMade
  <2> QED BY <2>1, <2>2
<1>2. CASE Unmoved(S, T) /\ Len(T.core) = Len(S.core) /\ Abs(T) = Abs(S)
  BY <1>2 DEF Unmoved
<1>3. CASE Settled1(S, T) /\ Len(T.core) = Len(S.core)
  BY <1>3, AbsValue DEF Settled1
<1>4. CASE Enlisted(S, T) /\ Len(T.core) = Len(S.core)
  BY <1>4, AbsValue DEF Enlisted
<1>5. CASE Delisted(S, T) /\ Len(T.core) = Len(S.core)
  BY <1>5, AbsValue DEF Delisted
<1>6. Unmoved(S, T) => Abs(T) = Abs(S)
  BY AbsValue DEF Unmoved
<1> QED BY <1>1, <1>2, <1>3, <1>4, <1>5, <1>6 DEF UmMoved, UmStep

(* The main list is no longer than the bound of the abstract machine.      *)
CoreBounded == MaxNodes \in Nat /\ Len(re_ds.core) <= MaxNodes

(* The abstract machine starts where the tool starts.                      *)
LEMMA InitAbstract == Init => UW!Init
<1> SUFFICES ASSUME Init PROVE UW!Init
  OBVIOUS
<1>1. PICK tr \in Traces : re_ds = Fresh(tr)
  BY DEF Init
<1>2. re_ds.um = <<>> /\ re_ds.core = <<>> /\ Shape(re_ds)
  BY <1>1, FreshStands DEF Standing, Sane
<1>3. Len(re_ds.core) = 0
  BY <1>2
<1>4. Waiting(re_ds) = {}
  BY <1>3 DEF Waiting, UWrites, Ids
<1>5. MaxOrNull(Unlisted) = 0
  BY <1>2, <1>4, AbsValue DEF Abs, UnlistedIn, Unlisted
<1> QED BY <1>2, <1>3, <1>5 DEF UW!Init

(* A step of the tool is one of the abstract machine, or none.             *)
LEMMA NextAbstract ==
  ASSUME IInv, UmIInv, IInv', BaseAsLogged, AddressesNonZero', CoreBounded', [Next]_vars
  PROVE  [UW!Next]_UW!vars
<1> DEFINE S == re_ds
           T == re_ds'
<1>1. UmMoved(S, T)
  BY StepUm DEF UmIInv, AddressesNonZero
<1>2. Shape(S) /\ Shape(T) /\ MaxNodes \in Nat /\ Len(T.core) <= MaxNodes
  BY DEF IInv, Standing, Sane, CoreBounded
<1>3. MaxOrNull(Unlisted) = Abs(S) /\ MaxOrNull(Unlisted)' = Abs(T)
  BY DEF Abs, UnlistedIn, Unlisted
<1>4. re_ds.um = S.um /\ re_ds.um' = T.um /\ Len(re_ds.core) = Len(S.core)
      /\ Len(re_ds.core)' = Len(T.core)
  OBVIOUS
<1> HIDE DEF S, T
<1>5. \/ Len(T.core) = Len(S.core) /\ Abs(T) = Abs(S) /\ T.um = S.um
      \/ /\ Abs(S) = 0 /\ T.um = S.um
         /\ \E n \in Len(S.core) + 1 .. MaxNodes :
              \E w \in {0} \cup (Len(S.core) + 1 .. n) : Len(T.core) = n /\ Abs(T) = w
      \/ /\ Abs(S) # 0 /\ T.um = <<Abs(S)>> \o S.um /\ Abs(T) = 0
         /\ Len(T.core) = Len(S.core)
      \/ Abs(S) # 0 /\ Abs(T) = 0 /\ T.um = S.um /\ Len(T.core) = Len(S.core)
      \/ /\ \E i \in 1 .. Len(S.um) : Shortened(S.um, T.um, i)
         /\ Abs(T) = Abs(S) /\ Len(T.core) = Len(S.core)
  BY <1>1, <1>2, AbstractStep
<1> QED BY <1>3, <1>4, <1>5
        DEF Shortened, UW!Next, UW!vars, UW!Create, UW!Enlist, UW!Settle, UW!Delist

(* Whatever order the work lists are drained in, umemlist behaves as the   *)
(* abstract list UnknownWrites, so that all that is proved of that one     *)
(* holds of the tool's.                                                    *)
THEOREM UmemImplements ==
  Spec /\ []BaseAsLogged /\ []AddressesNonZero /\ []CoreBounded => ImplementsUnknownWrites
<1>1. IInv /\ UmIInv /\ IInv' /\ BaseAsLogged /\ AddressesNonZero' /\ CoreBounded' /\ [Next]_vars
        => [UW!Next]_UW!vars
  BY NextAbstract
<1> QED BY <1>1, InitAbstract, AlwaysUm, PTL DEF Spec, UW!Spec, ImplementsUnknownWrites
=============================================================================
