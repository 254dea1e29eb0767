---------------------------- MODULE UnknownWrites ----------------------------
(***************************************************************************)
(* umemlist: the memory writes whose address is unknown, as an abstract    *)
(* machine.  Nodes are created with increasing ids while the trace is read *)
(* backwards; an instruction writes memory at most once; a write of        *)
(* unknown address is put at the head of the list when its instruction is  *)
(* worked off, and leaves it when its address is found.                    *)
(*                                                                         *)
(* resolve_alias walks the list from its head and gives up at the first    *)
(* entry that is later in the execution than the node it works for.  What  *)
(* makes that right is said here, for lists of any length; ReverseExec     *)
(* implements this machine.                                                *)
(***************************************************************************)
EXTENDS Naturals, Sequences

CONSTANT MaxLen   (* bound on the number of nodes *)

ASSUME MaxLenAssumption == MaxLen \in Nat

VARIABLES
  len,       (* nodes of the main list *)
  pending,   (* 0, or the write of the newest instruction not yet listed *)
  um         (* umemlist, head first *)

vars == <<len, pending, um>>

Init == len = 0 /\ pending = 0 /\ um = <<>>

(* Bug: the newest node is not counted. *)
CreateShort(n, w) ==
  /\ pending = 0
  /\ len' = n - 1
  /\ pending' = w
  /\ UNCHANGED um

(* The handler of the next instruction creates its nodes, up to node n;    *)
(* w is its memory write, 0 when it has none or its address is known.      *)
Create(n, w) ==
  /\ pending = 0
  /\ len' = n
  /\ pending' = w
  /\ UNCHANGED um

(* Bug: the new write goes to the tail. *)
EnlistLast ==
  /\ pending # 0
  /\ um' = um \o <<pending>>
  /\ pending' = 0
  /\ UNCHANGED len

(* add_to_umemlist. *)
Enlist ==
  /\ pending # 0
  /\ um' = <<pending>> \o um
  /\ pending' = 0
  /\ UNCHANGED len

(* The address of the pending write is found before it was ever listed.    *)
Settle ==
  /\ pending # 0
  /\ pending' = 0
  /\ UNCHANGED <<len, um>>

(* remove_from_umemlist: the address of the i-th entry is found.           *)
Delist(i) ==
  /\ um' = [j \in 1 .. Len(um) - 1 |-> IF j < i THEN um[j] ELSE um[j + 1]]
  /\ UNCHANGED <<len, pending>>

Next ==
  \/ \E n \in len + 1 .. MaxLen : \E w \in {0} \cup (len + 1 .. n) : Create(n, w)
  \/ Enlist
  \/ Settle
  \/ \E i \in 1 .. Len(um) : Delist(i)

Spec == Init /\ [][Next]_vars

-----------------------------------------------------------------------------
(* Ids in umemlist are ids of nodes in the main list, and so is the one    *)
(* that is about to be listed.                                             *)
TypeOK ==
  /\ len \in 0 .. MaxLen
  /\ pending \in 0 .. len
  /\ um \in Seq(1 .. len)

(* The list is in order of age, the youngest node first. *)
Descending == \A i, j \in 1 .. Len(um) : i < j => um[i] > um[j]

(* What waits to be listed is younger than all that is listed. *)
PendingYoungest == pending # 0 => \A i \in 1 .. Len(um) : um[i] < pending

(* Where the walk on behalf of a node stops, and what it has seen by then. *)
Visited(target) ==
  {i \in 1 .. Len(um) : \A j \in 1 .. i : ~ um[j] < target}

(* The early exit of resolve_alias loses nothing: every listed write that  *)
(* is not later in the execution than the target is visited.               *)
NothingSkipped ==
  \A target \in 1 .. len : \A i \in 1 .. Len(um) :
    um[i] >= target => i \in Visited(target)
=============================================================================
