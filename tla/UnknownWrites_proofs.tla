------------------------ MODULE UnknownWrites_proofs ------------------------
(***************************************************************************)
(* Proofs about umemlist, for any number of nodes.                         *)
(***************************************************************************)
EXTENDS UnknownWrites, TLAPS

(* Order needs PendingYoungest to survive the next Enlist. *)
IInv == TypeOK /\ Descending /\ PendingYoungest

(* The initial list is empty. *)
LEMMA InitIInv == Init => IInv
  BY MaxLenAssumption DEF Init, IInv, TypeOK, Descending, PendingYoungest

(* Creating nodes leaves the list alone and takes ids above all listed.    *)
LEMMA CreateIInv ==
  ASSUME IInv, NEW n \in len + 1 .. MaxLen, NEW w \in {0} \cup (len + 1 .. n),
         Create(n, w)
  PROVE  IInv'
<1> USE DEF Create, IInv, TypeOK
<1>1. TypeOK'
  <2>1. um' \in Seq(1 .. n)
    <3>1. um \in Seq(1 .. len) /\ um' = um /\ 1 .. len \subseteq 1 .. n
      BY MaxLenAssumption
    <3> QED BY <3>1
  <2> QED BY <2>1, MaxLenAssumption
<1>2. Descending'
  BY DEF Descending
<1>3. PendingYoungest'
  <2>1. \A i \in 1 .. Len(um) : um[i] \in 1 .. len
    OBVIOUS
  <2> QED BY <2>1, MaxLenAssumption DEF PendingYoungest
<1> QED BY <1>1, <1>2, <1>3

(* The pending write goes in front of older ones. *)
LEMMA EnlistIInv == IInv /\ Enlist => IInv'
<1> SUFFICES ASSUME IInv, Enlist PROVE IInv'
  OBVIOUS
<1> USE DEF Enlist, IInv, TypeOK
<1>1. /\ um' \in Seq(1 .. len)
      /\ Len(um') = Len(um) + 1
      /\ um'[1] = pending
      /\ \A i \in 2 .. Len(um') : um'[i] = um[i - 1]
  BY MaxLenAssumption
<1>2. TypeOK'
  BY <1>1, MaxLenAssumption
<1>3. Descending'
  <2> SUFFICES ASSUME NEW i \in 1 .. Len(um'), NEW j \in 1 .. Len(um'), i < j
               PROVE  um'[i] > um'[j]
    BY DEF Descending
  <2>1. j - 1 \in 1 .. Len(um) /\ um'[j] = um[j - 1]
    BY <1>1
  <2>2. CASE i = 1
    BY <1>1, <2>1, <2>2, MaxLenAssumption DEF PendingYoungest
  <2>3. CASE i # 1
    <3>1. i - 1 \in 1 .. Len(um) /\ um'[i] = um[i - 1] /\ i - 1 < j - 1
      BY <1>1, <2>3
    <3> QED BY <2>1, <3>1 DEF Descending
  <2> QED BY <2>2, <2>3
<1>4. PendingYoungest'
  BY DEF PendingYoungest
<1> QED BY <1>2, <1>3, <1>4

(* Taking an entry out keeps the order of the others. *)
LEMMA DelistIInv ==
  ASSUME IInv, NEW i \in 1 .. Len(um), Delist(i)
  PROVE  IInv'
<1> USE DEF Delist, IInv, TypeOK
<1> DEFINE from(j) == IF j < i THEN j ELSE j + 1
<1>1. /\ Len(um) \in Nat
      /\ um' \in Seq(1 .. len)
      /\ Len(um') = Len(um) - 1
      /\ \A j \in 1 .. Len(um') : um'[j] = um[from(j)] /\ from(j) \in 1 .. Len(um)
  <2>1. Len(um) \in Nat /\ i \in Nat /\ \A j \in 1 .. Len(um) : um[j] \in 1 .. len
    OBVIOUS
  <2>2. \A j \in 1 .. Len(um) - 1 : from(j) \in 1 .. Len(um)
    BY <2>1
  <2>3. um' = [j \in 1 .. Len(um) - 1 |-> um[from(j)]]
    OBVIOUS
  <2>4. Len(um) - 1 \in Nat
    BY <2>1
  <2>5. um' \in [1 .. Len(um) - 1 -> 1 .. len]
    BY <2>1, <2>2, <2>3
  <2> HIDE DEF from
  <2> QED BY <2>1, <2>2, <2>3, <2>4, <2>5, SMTT(60)
<1>2. TypeOK'
  BY <1>1
<1>3. Descending'
  <2> SUFFICES ASSUME NEW j \in 1 .. Len(um'), NEW k \in 1 .. Len(um'), j < k
               PROVE  um'[j] > um'[k]
    BY DEF Descending
  <2>1. from(j) < from(k)
    BY <1>1
  <2> HIDE DEF from
  <2> QED BY <1>1, <2>1 DEF Descending
<1>4. PendingYoungest'
  <2> HIDE DEF from
  <2> QED BY <1>1 DEF PendingYoungest
<1> QED BY <1>2, <1>3, <1>4

(* Every step keeps the invariant. *)
LEMMA NextIInv == IInv /\ [Next]_vars => IInv'
<1> SUFFICES ASSUME IInv, [Next]_vars PROVE IInv'
  OBVIOUS
<1>1. CASE \E n \in len + 1 .. MaxLen : \E w \in {0} \cup (len + 1 .. n) : Create(n, w)
  BY <1>1, CreateIInv
<1>2. CASE Enlist
  BY <1>2, EnlistIInv
<1>3. CASE Settle
  BY <1>3, MaxLenAssumption
  DEF Settle, IInv, TypeOK, Descending, PendingYoungest
<1>4. CASE \E i \in 1 .. Len(um) : Delist(i)
  BY <1>4, DelistIInv
<1>5. CASE UNCHANGED vars
  BY <1>5 DEF vars, IInv, TypeOK, Descending, PendingYoungest
<1> QED BY <1>1, <1>2, <1>3, <1>4, <1>5 DEF Next

(* umemlist is well formed and in order of age in every reachable state.   *)
THEOREM UmemOrdered == Spec => [](TypeOK /\ Descending)
<1>1. IInv => TypeOK /\ Descending
  BY DEF IInv
<1> QED BY InitIInv, NextIInv, <1>1, PTL DEF Spec

(* The early exit of resolve_alias is safe in every reachable state: no    *)
(* write that could stand between two accesses is left out of the walk.    *)
THEOREM EarlyExitSafe == Spec => []NothingSkipped
<1>1. IInv => NothingSkipped
  <2> SUFFICES ASSUME IInv, NEW target \in 1 .. len, NEW i \in 1 .. Len(um),
                      um[i] >= target
               PROVE  i \in Visited(target)
    BY DEF NothingSkipped
  <2>1. \A j \in 1 .. Len(um) : um[j] \in 1 .. len
    BY DEF IInv, TypeOK
  <2>2. ASSUME NEW j \in 1 .. i PROVE ~ um[j] < target
    <3>1. j \in 1 .. Len(um) /\ (j = i \/ j < i)
      BY DEF IInv, TypeOK
    <3>2. um[j] >= um[i]
      BY <2>1, <3>1 DEF IInv, Descending
    <3> QED BY <2>1, <3>1, <3>2 DEF IInv, TypeOK
  <2> QED BY <2>2 DEF Visited
<1> QED BY InitIInv, NextIInv, <1>1, PTL DEF Spec
=============================================================================
