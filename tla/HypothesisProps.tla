-------------------------- MODULE HypothesisProps --------------------------
(***************************************************************************)
(* What a hypothesis test promises to the propagation it interrupts.       *)
(***************************************************************************)
EXTENDS HypothesisTest

(* Links join cells; only nodes that exist are listed or queued; the       *)
(* depth of tests is at most one.                                          *)
TypeOK ==
  /\ {list, umemlist, worklist} \subseteq Links(Cells)
  /\ live \subseteq Orig \cup Copies /\ listed \subseteq live /\ queued \subseteq live
  /\ known \in [Cells -> SUBSET Fact]
  /\ {re, oldre} \subseteq [rec_count : 0 .. 1, aliasret : {"unset", "set"}]
  /\ pc \in {"propagate", "walk", "fork_corelist", "fork_umemlist", "delete_corelist"}
  /\ {entry, temp, cur} \subseteq Cells
  /\ verdict \in BOOLEAN

(* From save_re_ds to restore_re_ds. *)
Testing == pc \notin {"propagate", "walk"} \/ re.rec_count > 0

(* The head of the main structure: re_ds.head is lent to the copy. *)
MainHead == IF Testing THEN OldHead ELSE ReHead

(* The test itself runs, on a complete copy. *)
OnCopy == pc = "propagate" /\ re.rec_count > 0

(* Every list that can be walked is closed, both ways: no link leads to a  *)
(* freed node, to a dead frame or from one structure into the other, while *)
(* nodes are copied with their links, run and freed.                       *)
WellLinked ==
  /\ Ring(list, MainHead, live \cap Orig)
  /\ Ring(umemlist, MainHead, listed \cap Orig)
  /\ Ring(worklist, Work, queued \cap Orig)
  /\ Testing => Ring(list, ReHead, live \cap Copies)
  /\ OnCopy \/ pc = "fork_umemlist" => Ring(umemlist, ReHead, listed \cap Copies)
  /\ OnCopy => Ring(worklist, TestWork, queued \cap Copies)

(* A test leaves nothing behind, however it ended.                         *)
NothingLeft ==
  ~ Testing => live \subseteq Orig /\ re = [rec_count |-> 0, aliasret |-> "unset"]

Untouched ==
  \A c \in Orig :
    /\ known'[c] = known[c]
    /\ list'.next[c] = list.next[c] /\ list'.prev[c] = list.prev[c]
    /\ umemlist'.next[c] = umemlist.next[c] /\ umemlist'.prev[c] = umemlist.prev[c]
    /\ worklist'.next[c] = worklist.next[c] /\ worklist'.prev[c] = worklist.prev[c]

(* Whatever runs on the copy, the nodes of the main structure and their    *)
(* order stay as they are.                                                 *)
Isolated == [][Testing /\ Testing' => Untouched]_vars
============================================================================
