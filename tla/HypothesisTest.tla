--------------------------- MODULE HypothesisTest ---------------------------
(***************************************************************************)
(* ht_verify_alias: re_ds is forked, the propagation runs on the copy      *)
(* under the hypothesis that two accesses meet, and whatever comes of it,  *)
(* by a return or by a longjmp out of the middle, the copy is freed and    *)
(* re_ds restored.  Everything hangs on pointers: three families of links  *)
(* run through the nodes, the copies are made by memcpy, links included,   *)
(* the list heads are inside re_ds, and re_ds is put aside on the stack.   *)
(*                                                                         *)
(* What a step of the propagation computes is left to ReverseExec; here it *)
(* reads and changes a node and the lists it is on, on whichever structure *)
(* re_ds.head leads to.                                                    *)
(***************************************************************************)
EXTENDS IntrusiveList, FiniteSets

CONSTANT N    (* nodes that the trace leads to *)

ASSUME NAssumption == N \in Nat \ {0}

REC_LIMIT == 2

(* What can become known of a node. *)
Fact == {"value", "address"}

(* Addresses.  Copies lie where malloc put them, apart from the originals. *)
Orig == 1 .. N
copy_of(c) == N + c
Copies == N + 1 .. 2 * N
ReHead == 0                  \* re_ds.head
OldHead == 2 * N + 1         \* oldre.head, on the stack of ht_verify_alias
Work == 2 * N + 2          \* the work list of the propagation itself
TestWork == 2 * N + 3      \* the work list in re_alias_resolve
Cells == 0 .. 2 * N + 3

VARIABLES
  list,       (* links of the main list *)
  umemlist,   (* links of the unknown writes *)
  worklist,   (* links of a work list; uselist, deflist, instlist are alike *)
  live,       (* nodes allocated, all of them on a main list *)
  listed,     (* nodes on an umemlist: what member_in_umemlist finds *)
  queued,     (* nodes on a work list: what check_node_in_list finds *)
  known,      (* contents of a node: what is known of it *)
  re,         (* other fields of re_ds: rec_count, and whether aliasret is set *)
  oldre,      (* their copy on the stack *)
  pc,         (* where control is *)
  entry, temp,(* the two cursors of the walk in resolve_alias *)
  cur,        (* the cursor of the loop that forks or deletes *)
  verdict     (* what the running test will return *)

links == <<list, umemlist, worklist>>
members == <<live, listed, queued>>
walk == <<entry, temp>>
vars == <<links, members, known, re, oldre, pc, walk, cur, verdict>>

NoLinks == [next |-> [c \in Cells |-> LIST_POISON], prev |-> [c \in Cells |-> LIST_POISON]]

Init ==
  /\ list = INIT_LIST_HEAD(NoLinks, ReHead)
  /\ umemlist = INIT_LIST_HEAD(NoLinks, ReHead)
  /\ worklist = INIT_LIST_HEAD(NoLinks, Work)
  /\ live = {} /\ listed = {} /\ queued = {}
  /\ known = [c \in Cells |-> {}]
  /\ re = [rec_count |-> 0, aliasret |-> "unset"]
  /\ oldre = re
  /\ pc = "propagate"
  /\ entry = ReHead /\ temp = ReHead /\ cur = ReHead
  /\ verdict = FALSE

-----------------------------------------------------------------------------
(* The propagation.  Under a test it runs the same code on the copy.       *)

Here == IF re.rec_count = 0 THEN Orig ELSE Copies
work_head == IF re.rec_count = 0 THEN Work ELSE TestWork
Control == <<re, oldre, pc, walk, cur, verdict>>

(* The handler of an instruction adds nodes. *)
add_new_node(c) ==
  /\ pc = "propagate" /\ re.rec_count = 0
  /\ c \notin live
  /\ list' = list_add(list, c, ReHead)
  /\ live' = live \cup {c}
  /\ UNCHANGED <<umemlist, worklist, listed, queued, known, Control>>

(* resolve_address: a write of unknown address is listed, ... *)
add_to_umemlist(c) ==
  /\ pc = "propagate"
  /\ "address" \notin known[c] /\ c \notin listed
  /\ umemlist' = list_add(umemlist, c, ReHead)
  /\ listed' = listed \cup {c}
  /\ UNCHANGED <<list, worklist, live, queued, known, Control>>

remove_from_umemlist(c) ==
  /\ umemlist' = IF c \in listed THEN list_del(umemlist, c) ELSE umemlist
  /\ listed' = listed \ {c}

(* ... and taken off the list when the address is found. *)
assign_address(c) ==
  /\ pc = "propagate"
  /\ "address" \notin known[c]
  /\ known' = [known EXCEPT ![c] = @ \cup {"address"}]
  /\ remove_from_umemlist(c)
  /\ UNCHANGED <<list, worklist, live, queued, Control>>

(* Bug: a value that is known already is assigned again. *)
assign_value_again(c) ==
  /\ pc = "propagate"
  /\ known' = [known EXCEPT ![c] = @ \cup {"value"}]
  /\ worklist' = IF c \in queued THEN worklist ELSE list_add(worklist, c, work_head)
  /\ queued' = queued \cup {c}
  /\ UNCHANGED <<list, umemlist, live, listed, Control>>

(* A value of the node becomes known, and the node has to be worked on. *)
assign_value(c) ==
  /\ pc = "propagate"
  /\ "value" \notin known[c]
  /\ known' = [known EXCEPT ![c] = @ \cup {"value"}]
  /\ worklist' = IF c \in queued THEN worklist ELSE list_add(worklist, c, work_head)
  /\ queued' = queued \cup {c}
  /\ UNCHANGED <<list, umemlist, live, listed, Control>>

(* The last entry of a work list is done with. *)
resolve_entry ==
  /\ pc = "propagate"
  /\ ~ list_empty(worklist, work_head)
  /\ worklist' = list_del(worklist, worklist.prev[work_head])
  /\ queued' = queued \ {worklist.prev[work_head]}
  /\ UNCHANGED <<list, umemlist, live, listed, known, Control>>

Propagate ==
  \/ \E c \in Orig : add_new_node(c)
  \/ \E c \in Here \cap live :
       add_to_umemlist(c) \/ assign_address(c) \/ assign_value(c)
  \/ resolve_entry

-----------------------------------------------------------------------------
(* resolve_alias walks umemlist.  It refuses to under a test.              *)

(* Bug: the depth is not looked at. *)
StartWalk_nested ==
  /\ pc = "propagate"
  /\ pc' = "walk"
  /\ entry' = umemlist.next[ReHead]
  /\ temp' = umemlist.next[umemlist.next[ReHead]]
  /\ UNCHANGED <<links, members, known, re, oldre, cur, verdict>>

StartWalk ==
  /\ pc = "propagate"
  /\ re.rec_count + 1 # REC_LIMIT
  /\ pc' = "walk"
  /\ entry' = umemlist.next[ReHead]
  /\ temp' = umemlist.next[umemlist.next[ReHead]]
  /\ UNCHANGED <<links, members, known, re, oldre, cur, verdict>>

advance(l) == entry' = temp /\ temp' = l.next[temp]

(* An entry that is not later than the target needs no test. *)
SkipEntry ==
  /\ pc = "walk" /\ entry # ReHead
  /\ advance(umemlist)
  /\ UNCHANGED <<links, members, known, re, oldre, pc, cur, verdict>>

(* The walk is over, at its end or with an early return. *)
StopWalk ==
  /\ pc = "walk"
  /\ pc' = "propagate"
  /\ UNCHANGED <<links, members, known, re, oldre, walk, cur, verdict>>

-----------------------------------------------------------------------------
(* ht_verify_alias.                                                        *)

(* Bug: the nodes still point to re_ds. *)
save_re_ds_shallow(l) == copy_links(l, ReHead, OldHead)

(* memcpy of re_ds, then the list heads. *)
save_re_ds(l) == REPLACE_HEAD(copy_links(l, ReHead, OldHead), ReHead, OldHead)

(* Bug: the nodes still point to the stack. *)
restore_re_ds_shallow(l) == copy_links(l, OldHead, ReHead)

restore_re_ds(l) == REPLACE_HEAD(copy_links(l, OldHead, ReHead), OldHead, ReHead)

(* save_re_ds, and the start of init_alias_config. *)
StartTest ==
  /\ pc = "walk" /\ entry # ReHead
  /\ oldre' = re
  /\ list' = INIT_LIST_HEAD(save_re_ds(list), ReHead)
  /\ umemlist' = save_re_ds(umemlist)
  /\ pc' = "fork_corelist"
  /\ cur' = list'.prev[OldHead]
  /\ UNCHANGED <<worklist, members, known, re, walk, verdict>>

(* One iteration of fork_corelist: the whole node is copied, links too. *)
fork_corelist ==
  /\ pc = "fork_corelist" /\ cur # OldHead
  /\ list' = list_add(list, copy_of(cur), ReHead)
  /\ umemlist' = copy_links(umemlist, cur, copy_of(cur))
  /\ worklist' = copy_links(worklist, cur, copy_of(cur))
  /\ known' = [known EXCEPT ![copy_of(cur)] = known[cur]]
  /\ live' = live \cup {copy_of(cur)}
  /\ cur' = list.prev[cur]
  /\ UNCHANGED <<listed, queued, re, oldre, pc, walk, verdict>>

CorelistForked ==
  /\ pc = "fork_corelist" /\ cur = OldHead
  /\ umemlist' = INIT_LIST_HEAD(umemlist, ReHead)
  /\ pc' = "fork_umemlist"
  /\ cur' = umemlist.prev[OldHead]
  /\ UNCHANGED <<list, worklist, members, known, re, oldre, walk, verdict>>

(* Bug: the original goes on the list of the copy. *)
fork_umemlist_original ==
  /\ pc = "fork_umemlist" /\ cur # OldHead
  /\ umemlist' = list_add(umemlist, cur, ReHead)
  /\ listed' = listed \cup {copy_of(cur)}
  /\ cur' = umemlist.prev[cur]
  /\ UNCHANGED <<list, worklist, live, queued, known, re, oldre, pc, walk, verdict>>

(* One iteration of fork_umemlist; get_new_exp_copy finds the copy. *)
fork_umemlist ==
  /\ pc = "fork_umemlist" /\ cur # OldHead
  /\ copy_of(cur) \in live
  /\ umemlist' = list_add(umemlist, copy_of(cur), ReHead)
  /\ listed' = listed \cup {copy_of(cur)}
  /\ cur' = umemlist.prev[cur]
  /\ UNCHANGED <<list, worklist, live, queued, known, re, oldre, pc, walk, verdict>>

(* setjmp, inc_rec_count, the start of re_alias_resolve on the copies: the *)
(* hypothesis takes the copied write off the list, unless its registers    *)
(* were known and only had to be compared.  At the limit the program would *)
(* jump to REC_LIM; TypeOK shows that resolve_alias keeps it from that.    *)
RunTest ==
  /\ pc = "fork_umemlist" /\ cur = OldHead
  /\ copy_of(entry) \in live
  /\ re' = [rec_count |-> re.rec_count + 1, aliasret |-> "set"]
  /\ worklist' = INIT_LIST_HEAD(worklist, TestWork)
  /\ pc' = IF re'.rec_count = REC_LIMIT THEN "limit" ELSE "propagate"
  /\ remove_from_umemlist(copy_of(entry)) \/ UNCHANGED <<umemlist, listed>>
  /\ UNCHANGED <<list, live, queued, known, oldre, walk, cur, verdict>>

(* The test is over: the propagation came to its end, or a longjmp cut it  *)
(* short.  Either way delete_corelist follows.                             *)
end_test(v) ==
  /\ verdict' = v
  /\ pc' = "delete_corelist"
  /\ cur' = list.next[ReHead]
  /\ UNCHANGED <<links, members, known, re, oldre, walk>>

NoConflict ==
  /\ pc = "propagate" /\ re.rec_count > 0
  /\ list_empty(worklist, TestWork)
  /\ end_test(TRUE)

(* Bug: the longjmp leaves the copy behind. *)
Conflict_leak ==
  /\ pc = "propagate" /\ re.rec_count > 0
  /\ re.aliasret = "set"
  /\ verdict' = FALSE
  /\ pc' = "delete_corelist"
  /\ cur' = ReHead
  /\ UNCHANGED <<links, members, known, re, oldre, walk>>

Conflict ==
  /\ pc = "propagate" /\ re.rec_count > 0
  /\ re.aliasret = "set"
  /\ end_test(FALSE)

delete_corelist ==
  /\ pc = "delete_corelist" /\ cur # ReHead
  /\ list' = list_del(list, cur)
  /\ umemlist' = discard(umemlist, {cur})
  /\ worklist' = discard(worklist, {cur})
  /\ known' = [known EXCEPT ![cur] = {}]
  /\ live' = live \ {cur}
  /\ listed' = listed \ {cur}
  /\ queued' = queued \ {cur}
  /\ cur' = list.next[cur]
  /\ UNCHANGED <<re, oldre, pc, walk, verdict>>

(* restore_re_ds, and the return: the walk goes on unless the accesses may *)
(* meet.                                                                   *)
EndTest ==
  /\ pc = "delete_corelist" /\ cur = ReHead
  /\ re' = oldre
  /\ list' = discard(restore_re_ds(list), {OldHead})
  /\ umemlist' = discard(restore_re_ds(umemlist), {OldHead})
  /\ worklist' = discard(worklist, {TestWork})
  /\ IF verdict THEN pc' = "propagate" /\ UNCHANGED walk
                ELSE pc' = "walk" /\ advance(umemlist')
  /\ UNCHANGED <<members, known, oldre, cur, verdict>>

Next ==
  \/ Propagate
  \/ StartWalk \/ SkipEntry \/ StopWalk
  \/ StartTest \/ fork_corelist \/ CorelistForked \/ fork_umemlist \/ RunTest
  \/ NoConflict \/ Conflict \/ delete_corelist \/ EndTest

Spec == Init /\ [][Next]_vars
=============================================================================
