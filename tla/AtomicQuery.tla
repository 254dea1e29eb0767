---------------------------- MODULE AtomicQuery ----------------------------
(***************************************************************************)
(* What the propagation may rely on: an alias question is answered without *)
(* touching what is being propagated.  Three lists and what is known of    *)
(* every node change only by the propagation's own steps; a question       *)
(* visits the unknown writes in the order of the list, each one once, and  *)
(* hypothesis tests on the way leave no trace.                             *)
(***************************************************************************)
EXTENDS Naturals, Sequences, SequencesExt

CONSTANT Node     (* nodes that can be created *)

VARIABLES
  core,     (* the main list, head first *)
  unknown,  (* umemlist, head first *)
  work,     (* the work list *)
  facts,    (* what is known of a node *)
  rest      (* what the question asked now has still to visit *)

state == <<core, unknown, work, facts>>
vars == <<core, unknown, work, facts, rest>>

Init == core = <<>> /\ unknown = <<>> /\ work = <<>>
        /\ facts = [n \in Node |-> {}] /\ rest = <<>>

Create(n) == n \notin ToSet(core) /\ core' = <<n>> \o core /\ UNCHANGED <<unknown, work, facts>>
Enlist(n) ==
  /\ "address" \notin facts[n] /\ n \notin ToSet(unknown)
  /\ unknown' = <<n>> \o unknown
  /\ UNCHANGED <<core, work, facts>>
LearnAddress(n) ==
  /\ "address" \notin facts[n]
  /\ facts' = [facts EXCEPT ![n] = @ \cup {"address"}]
  /\ \/ n \notin ToSet(unknown) /\ UNCHANGED unknown
     \/ \E i \in DOMAIN unknown : unknown[i] = n /\ unknown' = RemoveAt(unknown, i)
  /\ UNCHANGED <<core, work>>
LearnValue(n) ==
  /\ "value" \notin facts[n]
  /\ facts' = [facts EXCEPT ![n] = @ \cup {"value"}]
  /\ work' = IF n \in ToSet(work) THEN work ELSE <<n>> \o work
  /\ UNCHANGED <<core, unknown>>
Done == work # <<>> /\ work' = Front(work) /\ UNCHANGED <<core, unknown, facts>>

Propagate ==
  /\ rest = <<>>
  /\ UNCHANGED rest
  /\ \/ \E n \in Node : Create(n)
     \/ \E n \in ToSet(core) : Enlist(n) \/ LearnAddress(n) \/ LearnValue(n)
     \/ Done

Ask == rest = <<>> /\ rest' = unknown /\ UNCHANGED state
Visit == rest # <<>> /\ rest' = Tail(rest) /\ UNCHANGED state
Stop == rest' = <<>> /\ UNCHANGED state

Next == Propagate \/ Ask \/ Visit \/ Stop

Spec == Init /\ [][Next]_vars
============================================================================
