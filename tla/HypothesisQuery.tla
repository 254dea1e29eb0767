-------------------------- MODULE HypothesisQuery --------------------------
(***************************************************************************)
(* To the propagation an alias question is atomic: HypothesisTest          *)
(* implements AtomicQuery, and every test comes to its end.                *)
(***************************************************************************)
EXTENDS HypothesisProps, SequencesExt

(* The nodes of a list, in order. *)
Order(l, h) == Walk(l, h, 2 * N + 1)

(* The part of um from e on. *)
Onwards(um, e) ==
  IF e \in ToSet(um) THEN SubSeq(um, CHOOSE i \in DOMAIN um : um[i] = e, Len(um)) ELSE <<>>

(* What the walk of resolve_alias has before it; a test interrupts it at   *)
(* the entry it is for.                                                    *)
Unvisited ==
  IF pc = "walk" \/ Testing THEN Onwards(Order(umemlist, MainHead), entry) ELSE <<>>

Query == INSTANCE AtomicQuery WITH
  Node <- Orig,
  core <- Order(list, MainHead),
  unknown <- Order(umemlist, MainHead),
  work <- Order(worklist, Work),
  facts <- [c \in Orig |-> known[c]],
  rest <- Unvisited

(* A question changes nothing and visits each unknown write once, in       *)
(* order, whatever tests ht_verify_alias runs and however they end.        *)
ImplementsAtomicQuery == Query!Spec

(* The program runs until it stops. *)
FairSpec == Spec /\ WF_vars(Next)

(* A test comes to its end: the copying and the freeing loops terminate,   *)
(* and the propagation on the copy finds its end or a contradiction.       *)
TestEnds == Testing ~> ~ Testing
============================================================================
