----------------------- MODULE HypothesisQuery_proofs -----------------------
(***************************************************************************)
(* Proofs about ht_verify_alias, for any number of nodes: every list is    *)
(* well formed at all times, a test leaves nothing behind, and nothing     *)
(* that runs on the copy reaches the main structure; and from this,        *)
(* HypothesisTest implements AtomicQuery: an alias question leaves the     *)
(* lists and what is known as they were, and visits each unknown write     *)
(* once, in order.                                                         *)
(***************************************************************************)
EXTENDS HypothesisQuery, IntrusiveList_proofs

(* How deep the program is in a test, and what waits on the stack. *)
Levels ==
  /\ re = IF OnCopy \/ pc = "delete_corelist" THEN [rec_count |-> 1, aliasret |-> "set"]
                                              ELSE [rec_count |-> 0, aliasret |-> "unset"]
  /\ oldre = [rec_count |-> 0, aliasret |-> "unset"]

(* The walk stands on unknown writes of the main structure. *)
Cursors ==
  /\ pc = "walk" => {entry, temp} \subseteq listed \cup {ReHead}
  /\ Testing => entry \in listed \cap Orig /\ temp \in (listed \cap Orig) \cup {ReHead}

(* A loop that forks goes backwards; what it is done with lies between its *)
(* cursor and the end.                                                     *)
Forking(l, S, done) ==
  /\ cur \in S \cup {OldHead} /\ cur \notin done
  /\ \A c \in done \cup {cur} : l.next[c] \in done \cup {OldHead}
Originals(S) == {c \in Orig : copy_of(c) \in S}

Loops ==
  /\ pc = "fork_corelist" =>
       Forking(list, live \cap Orig, Originals(live)) /\ listed \cup queued \subseteq Orig
  /\ pc = "fork_umemlist" =>
       Forking(umemlist, listed \cap Orig, Originals(listed)) /\ queued \subseteq Orig
  /\ pc = "delete_corelist" => cur = list.next[ReHead]

IInv == TypeOK /\ WellLinked /\ NothingLeft /\ Levels /\ Cursors /\ Loops

-----------------------------------------------------------------------------
(* Where things lie in memory. *)
LEMMA Layout ==
  /\ Orig \cup Copies \subseteq Cells /\ Orig \cap Copies = {}
  /\ {ReHead, OldHead, Work, TestWork} \subseteq Cells \ (Orig \cup Copies)
  /\ ReHead # OldHead /\ Work # TestWork
  /\ \A c \in Orig : copy_of(c) \in Copies
  /\ \A c, d \in Orig : copy_of(c) = copy_of(d) => c = d
BY NAssumption DEF Orig, Copies, copy_of, ReHead, OldHead, Work, TestWork, Cells

(* The invariant holds in the empty structure.                             *)
LEMMA InitIInv ==
  Init => IInv
<1> SUFFICES ASSUME Init PROVE IInv
  OBVIOUS
<1>1. NoLinks \in Links(Cells)
  BY DEF NoLinks, Links
<1>2. /\ {list, umemlist, worklist} \subseteq Links(Cells)
      /\ Ring(list, ReHead, {}) /\ Ring(umemlist, ReHead, {}) /\ Ring(worklist, Work, {})
  BY <1>1, RingEmpty, Layout DEF Init
<1>3. ~ Testing /\ ~ OnCopy
  BY DEF Init, Testing, OnCopy
<1>4. TypeOK
  <2>1. known \in [Cells -> SUBSET Fact]
    BY DEF Init
  <2>2. {re, oldre} \subseteq [rec_count : 0 .. 1, aliasret : {"unset", "set"}]
    BY DEF Init
  <2>3. {entry, temp, cur} \subseteq Cells
    BY Layout DEF Init
  <2> QED BY <1>2, <2>1, <2>2, <2>3 DEF Init, TypeOK
<1>5. WellLinked
  <2>1. live \cap Orig = {} /\ listed \cap Orig = {} /\ queued \cap Orig = {}
    BY DEF Init
  <2> QED BY <1>2, <1>3, <2>1 DEF Init, WellLinked, MainHead
<1>6. NothingLeft /\ Levels /\ Cursors /\ Loops
  BY <1>3 DEF Init, NothingLeft, Levels, Cursors, Loops
<1> QED BY <1>4, <1>5, <1>6 DEF IInv

(* The propagation's own steps: what re_ds.head leads to is the main       *)
(* structure, or the copy.                                                 *)
LEMMA Structure ==
  ASSUME IInv, pc = "propagate"
  PROVE  /\ Testing <=> OnCopy
         /\ OnCopy <=> re.rec_count # 0
         /\ Ring(umemlist, ReHead, listed \cap Here)
         /\ Ring(worklist, work_head, queued \cap Here)
         /\ Here = IF OnCopy THEN Copies ELSE Orig
         /\ work_head = IF OnCopy THEN TestWork ELSE Work
         /\ Control' = Control => (OnCopy' = OnCopy /\ Testing' = Testing /\ MainHead' = MainHead)
<1>1. /\ Testing <=> OnCopy
      /\ OnCopy <=> re.rec_count # 0
  BY DEF IInv, Levels, Testing, OnCopy
<1> QED BY <1>1 DEF IInv, WellLinked, MainHead, Here, work_head, Testing, OnCopy, Control, walk

(* A new node is linked into the core list.                                *)
LEMMA AddNodeIInv ==
  ASSUME IInv, NEW c \in Orig, add_new_node(c)
  PROVE  IInv'
<1> USE DEF IInv, add_new_node, Control, walk
<1>1. ~ Testing /\ ~ OnCopy /\ ~ Testing' /\ ~ OnCopy'
  BY DEF Testing, OnCopy
<1>2. /\ Ring(list', ReHead, (live \cap Orig) \cup {c}) /\ list' \in Links(Cells)
      /\ live' \cap Orig = (live \cap Orig) \cup {c}
  <2> DEFINE L == live \cap Orig
  <2>1. /\ list \in Links(Cells) /\ ReHead \in Cells /\ L \in SUBSET Cells
        /\ c \in Cells \ (L \cup {ReHead}) /\ ReHead \notin L /\ Ring(list, ReHead, L)
    BY <1>1, Layout DEF WellLinked, MainHead, TypeOK
  <2>2. list' = list_add(list, c, ReHead) /\ live' \cap Orig = L \cup {c}
    OBVIOUS
  <2> HIDE DEF L
  <2>3. /\ Ring(list_add(list, c, ReHead), ReHead, L \cup {c})
        /\ list_add(list, c, ReHead) \in Links(Cells)
    BY <2>1, RingAdd, SMTT(60)
  <2> QED BY <2>2, <2>3 DEF L
<1>3. TypeOK'
  BY <1>2 DEF TypeOK
<1>4. WellLinked'
  BY <1>1, <1>2 DEF WellLinked, MainHead
<1>5. NothingLeft' /\ Levels' /\ Cursors' /\ Loops'
  BY <1>1 DEF NothingLeft, Levels, Cursors, Loops
<1> QED BY <1>3, <1>4, <1>5

(* A write without an address is linked into umemlist, too.                *)
LEMMA AddUnknownIInv ==
  ASSUME IInv, NEW c \in Here \cap live, add_to_umemlist(c)
  PROVE  IInv' /\ (Testing /\ Testing' => Untouched)
<1> USE DEF IInv, add_to_umemlist
<1>1. /\ c \in Cells /\ c \notin (listed \cap Here) \cup {ReHead}
      /\ Ring(umemlist', ReHead, (listed \cap Here) \cup {c}) /\ umemlist' \in Links(Cells)
      /\ \A d \in Cells \ ((listed \cap Here) \cup {ReHead, c}) :
           umemlist'.next[d] = umemlist.next[d] /\ umemlist'.prev[d] = umemlist.prev[d]
  <2>1. c \in Cells /\ c \notin (listed \cap Here) \cup {ReHead}
    BY Structure, Layout
  <2>2. umemlist \in Links(Cells) /\ ReHead \in Cells /\ listed \cap Here \in SUBSET Cells
    BY Structure, Layout DEF TypeOK
  <2> QED BY <2>1, <2>2, Structure, RingAdd
<1>2. Control' = Control /\ pc' = pc /\ OnCopy' = OnCopy /\ Testing' = Testing /\ MainHead' = MainHead
  BY Structure DEF Control
<1>3. TypeOK'
  BY <1>1, <1>2 DEF TypeOK, Control, walk
<1>4. WellLinked'
  <2>1. CASE OnCopy
    <3>1. listed' \cap Orig = listed \cap Orig /\ listed' \cap Copies = (listed \cap Here) \cup {c}
      BY <2>1, Structure, Layout
    <3>2. \A d \in (listed \cap Orig) \cup {OldHead} :
            umemlist'.next[d] = umemlist.next[d] /\ umemlist'.prev[d] = umemlist.prev[d]
      BY <1>1, <2>1, Structure, Layout
    <3>3. Ring(umemlist', OldHead, listed' \cap Orig)
      BY <2>1, <3>1, <3>2, RingFrame, Structure DEF WellLinked, MainHead
    <3> QED BY <1>1, <1>2, <2>1, <3>1, <3>3, Structure DEF WellLinked, MainHead
  <2>2. CASE ~ OnCopy
    <3>1. listed' \cap Orig = (listed \cap Here) \cup {c}
      BY <2>2, Structure, Layout
    <3> QED BY <1>1, <1>2, <2>2, <3>1, Structure DEF WellLinked, MainHead
  <2> QED BY <2>1, <2>2
<1>5. NothingLeft' /\ Levels' /\ Loops'
  BY <1>2, Structure DEF NothingLeft, Levels, Loops, Control, walk
<1>6. Cursors'
  BY <1>2, Structure DEF Cursors, Control, walk
<1>7. Testing /\ Testing' => Untouched
  <2>1. OnCopy => \A d \in Orig : d \in Cells \ ((listed \cap Here) \cup {ReHead, c})
    BY Structure, Layout
  <2> QED BY <1>1, <2>1, Structure DEF Untouched
<1> QED BY <1>3, <1>4, <1>5, <1>6, <1>7

(* The list of one structure, S, loses a member.                           *)
LEMMA RemoveUnknown ==
  ASSUME NEW S \in SUBSET Cells, ReHead \notin S, NEW c \in S,
         umemlist \in Links(Cells), Ring(umemlist, ReHead, listed \cap S),
         remove_from_umemlist(c)
  PROVE  /\ umemlist' \in Links(Cells)
         /\ Ring(umemlist', ReHead, (listed \cap S) \ {c})
         /\ \A d \in Cells \ ((listed \cap S) \cup {ReHead}) :
              umemlist'.next[d] = umemlist.next[d] /\ umemlist'.prev[d] = umemlist.prev[d]
         /\ listed' = listed \ {c}
<1>1. CASE c \in listed
  <2> DEFINE L == listed \cap S
  <2>1. /\ L \in SUBSET Cells /\ c \in L /\ Ring(umemlist, ReHead, L)
        /\ ReHead \notin L /\ ReHead \in Cells
    BY <1>1, Layout
  <2> HIDE DEF L
  <2>2. /\ Ring(list_del(umemlist, c), ReHead, L \ {c})
        /\ list_del(umemlist, c) \in Links(Cells)
        /\ \A d \in Cells \ (L \cup {ReHead}) :
             /\ list_del(umemlist, c).next[d] = umemlist.next[d]
             /\ list_del(umemlist, c).prev[d] = umemlist.prev[d]
    BY <2>1, RingDel, SMTT(60)
  <2> QED BY <1>1, <2>2 DEF L, remove_from_umemlist
<1>2. CASE c \notin listed
  <2>1. (listed \cap S) \ {c} = listed \cap S
    BY <1>2
  <2> QED BY <1>2, <2>1 DEF remove_from_umemlist
<1> QED BY <1>1, <1>2

(* An address that becomes known takes its write off umemlist.             *)
LEMMA AddressIInv ==
  ASSUME IInv, NEW c \in Here \cap live, assign_address(c)
  PROVE  IInv' /\ (Testing /\ Testing' => Untouched)
<1> USE DEF IInv, assign_address, remove_from_umemlist
<1>1. /\ umemlist' \in Links(Cells)
      /\ Ring(umemlist', ReHead, (listed \cap Here) \ {c})
      /\ \A d \in Cells \ ((listed \cap Here) \cup {ReHead}) :
           umemlist'.next[d] = umemlist.next[d] /\ umemlist'.prev[d] = umemlist.prev[d]
  BY Structure, Layout, RemoveUnknown DEF TypeOK
<1>2. Control' = Control /\ pc' = pc /\ OnCopy' = OnCopy /\ Testing' = Testing /\ MainHead' = MainHead
  BY Structure DEF Control
<1>3. TypeOK'
  <2>1. known' \in [Cells -> SUBSET Fact]
    BY DEF TypeOK, Fact
  <2> QED BY <1>1, <1>2, <2>1 DEF TypeOK, Control, walk
<1>4. WellLinked'
  <2>1. CASE OnCopy
    <3>1. listed' \cap Orig = listed \cap Orig /\ listed' \cap Copies = (listed \cap Here) \ {c}
      BY <2>1, Structure, Layout
    <3>2. \A d \in (listed \cap Orig) \cup {OldHead} :
            umemlist'.next[d] = umemlist.next[d] /\ umemlist'.prev[d] = umemlist.prev[d]
      BY <1>1, <2>1, Structure, Layout
    <3>3. Ring(umemlist', OldHead, listed' \cap Orig)
      BY <2>1, <3>1, <3>2, RingFrame, Structure DEF WellLinked, MainHead
    <3> QED BY <1>1, <1>2, <2>1, <3>1, <3>3, Structure DEF WellLinked, MainHead
  <2>2. CASE ~ OnCopy
    <3>1. listed' \cap Orig = (listed \cap Here) \ {c}
      BY <2>2, Structure, Layout
    <3> QED BY <1>1, <1>2, <2>2, <3>1, Structure DEF WellLinked, MainHead
  <2> QED BY <2>1, <2>2
<1>5. NothingLeft' /\ Levels' /\ Loops'
  BY <1>2, Structure DEF NothingLeft, Levels, Loops, Control, walk
<1>6. Cursors'
  <2>1. OnCopy => c \notin Orig
    BY Structure, Layout
  <2> QED BY <1>2, <2>1, Structure DEF Cursors, Control, walk
<1>7. Testing /\ Testing' => Untouched
  <2>1. OnCopy => \A d \in Orig : d \in Cells \ ((listed \cap Here) \cup {ReHead}) /\ d # c
    BY Structure, Layout
  <2>2. \A d \in Orig : d # c => known'[d] = known[d]
    BY Layout DEF TypeOK
  <2> QED BY <1>1, <2>1, <2>2, Structure DEF Untouched
<1> QED BY <1>3, <1>4, <1>5, <1>6, <1>7

(* The work lists of the propagation and of the test are on different      *)
(* nodes and have heads of their own.                                      *)
LEMMA WorkWellLinked ==
  ASSUME IInv, pc = "propagate", Control' = Control,
         UNCHANGED <<list, umemlist, live, listed>>,
         NEW S, S \subseteq Here, queued' = (queued \ Here) \cup S,
         queued' \subseteq live, worklist' \in Links(Cells), known' \in [Cells -> SUBSET Fact],
         Ring(worklist', work_head, S), \A d \in Cells \ Here : known'[d] = known[d],
         \A d \in Cells \ (Here \cup {work_head}) :
           worklist'.next[d] = worklist.next[d] /\ worklist'.prev[d] = worklist.prev[d]
  PROVE  IInv' /\ (Testing /\ Testing' => Untouched)
<1> USE DEF IInv
<1>2. pc' = pc /\ OnCopy' = OnCopy /\ Testing' = Testing /\ MainHead' = MainHead
  BY Structure DEF Control
<1>3. TypeOK'
  BY DEF TypeOK, Control, walk
<1>4. WellLinked'
  <2>1. CASE OnCopy
    <3>1. queued' \cap Orig = queued \cap Orig /\ queued' \cap Copies = S
      BY <2>1, Structure, Layout
    <3>2. \A d \in (queued \cap Orig) \cup {Work} :
            worklist'.next[d] = worklist.next[d] /\ worklist'.prev[d] = worklist.prev[d]
      BY <2>1, Structure, Layout
    <3>3. Ring(worklist', Work, queued' \cap Orig)
      BY <3>1, <3>2, RingFrame DEF WellLinked
    <3> QED BY <1>2, <2>1, <3>1, <3>3, Structure DEF WellLinked, MainHead
  <2>2. CASE ~ OnCopy
    <3>1. queued' \cap Orig = S
      BY <2>2, Structure, Layout
    <3> QED BY <1>2, <2>2, <3>1, Structure DEF WellLinked, MainHead
  <2> QED BY <2>1, <2>2
<1>5. NothingLeft' /\ Levels' /\ Loops' /\ Cursors'
  BY <1>2, Structure DEF NothingLeft, Levels, Loops, Cursors, Control, walk
<1>6. Testing /\ Testing' => Untouched
  <2>1. OnCopy => \A d \in Orig : d \in Cells \ (Here \cup {work_head})
    BY Structure, Layout
  <2> QED BY <2>1, Structure DEF Untouched
<1> QED BY <1>3, <1>4, <1>5, <1>6

(* A value that becomes known may queue nodes that are at hand.            *)
LEMMA ValueIInv ==
  ASSUME IInv, NEW c \in Here \cap live, assign_value(c)
  PROVE  IInv' /\ (Testing /\ Testing' => Untouched)
<1> USE DEF IInv, assign_value
<1> DEFINE S == (queued \cap Here) \cup {c}
<1>1. worklist \in Links(Cells) /\ work_head \in Cells /\ queued \cap Here \in SUBSET Cells
      /\ c \in Cells /\ c # work_head
  BY Structure, Layout DEF TypeOK
<1>2. /\ worklist' \in Links(Cells) /\ Ring(worklist', work_head, S)
      /\ \A d \in Cells \ (Here \cup {work_head}) :
           worklist'.next[d] = worklist.next[d] /\ worklist'.prev[d] = worklist.prev[d]
  <2>1. CASE c \in queued
    <3>1. S = queued \cap Here
      BY <2>1
    <3> QED BY <1>1, <2>1, <3>1, Structure
  <2>2. CASE c \notin queued
    <3>1. c \notin (queued \cap Here) \cup {work_head}
      BY <1>1, <2>2
    <3> DEFINE Q == queued \cap Here
    <3>2. /\ worklist \in Links(Cells) /\ work_head \in Cells /\ Q \in SUBSET Cells
          /\ c \in Cells \ (Q \cup {work_head}) /\ Ring(worklist, work_head, Q)
          /\ work_head \notin Q
      BY <1>1, <3>1, Structure, Layout
    <3>3. worklist' = list_add(worklist, c, work_head)
      BY <2>2
    <3> HIDE DEF Q
    <3>4. /\ list_add(worklist, c, work_head) \in Links(Cells)
          /\ Ring(list_add(worklist, c, work_head), work_head, Q \cup {c})
          /\ \A d \in Cells \ (Q \cup {c, work_head}) :
               /\ list_add(worklist, c, work_head).next[d] = worklist.next[d]
               /\ list_add(worklist, c, work_head).prev[d] = worklist.prev[d]
      BY <3>2, RingAdd, SMTT(60)
    <3> QED BY <1>1, <3>3, <3>4 DEF Q
  <2> QED BY <2>1, <2>2
<1>3. known' \in [Cells -> SUBSET Fact] /\ \A d \in Cells \ Here : known'[d] = known[d]
  BY DEF TypeOK, Fact
<1>4. S \subseteq Here /\ queued' = (queued \ Here) \cup S /\ queued' \subseteq live
  BY DEF TypeOK
<1> HIDE DEF S
<1> QED BY <1>2, <1>3, <1>4, WorkWellLinked

(* An entry of the work list is taken off and may queue others.            *)
LEMMA EntryIInv ==
  ASSUME IInv, resolve_entry
  PROVE  IInv' /\ (Testing /\ Testing' => Untouched)
<1> USE DEF IInv, resolve_entry
<1> DEFINE c == worklist.prev[work_head]
           S == (queued \cap Here) \ {c}
<1>1. worklist \in Links(Cells) /\ work_head \in Cells /\ queued \cap Here \in SUBSET Cells
      /\ work_head \notin queued \cap Here
  BY Structure, Layout DEF TypeOK
<1>2. c \in queued \cap Here
  BY Structure DEF Ring, list_empty
<1>3. /\ worklist' \in Links(Cells) /\ Ring(worklist', work_head, S)
      /\ \A d \in Cells \ (Here \cup {work_head}) :
           worklist'.next[d] = worklist.next[d] /\ worklist'.prev[d] = worklist.prev[d]
  <2> DEFINE Q == queued \cap Here
  <2>1. Q \in SUBSET Cells /\ c \in Q /\ Ring(worklist, work_head, Q) /\ work_head \notin Q
        /\ Q \subseteq Here /\ S = Q \ {c}
    BY <1>1, <1>2, Structure
  <2>2. worklist' = list_del(worklist, c)
    OBVIOUS
  <2> HIDE DEF Q, c, S
  <2>3. /\ Ring(list_del(worklist, c), work_head, Q \ {c})
        /\ list_del(worklist, c) \in Links(Cells)
        /\ \A d \in Cells \ (Q \cup {work_head}) :
             /\ list_del(worklist, c).next[d] = worklist.next[d]
             /\ list_del(worklist, c).prev[d] = worklist.prev[d]
    BY <1>1, <2>1, RingDel
  <2> QED BY <2>1, <2>2, <2>3
<1>4. S \subseteq Here /\ queued' = (queued \ Here) \cup S /\ queued' \subseteq live
      /\ known' \in [Cells -> SUBSET Fact] /\ known' = known
  BY <1>2 DEF TypeOK
<1> HIDE DEF S
<1> QED BY <1>3, <1>4, WorkWellLinked


-----------------------------------------------------------------------------
(* The walk of resolve_alias reads the list of unknown writes.             *)
LEMMA WalkIInv == IInv /\ (StartWalk \/ SkipEntry \/ StopWalk) => IInv'
<1> SUFFICES ASSUME IInv, StartWalk \/ SkipEntry \/ StopWalk PROVE IInv'
  OBVIOUS
<1> USE DEF IInv
<1>1. ~ OnCopy /\ ~ Testing /\ ~ OnCopy' /\ ~ Testing' /\ pc' \in {"propagate", "walk"}
      /\ UNCHANGED <<links, members, known, re, oldre, cur, verdict>>
  BY DEF StartWalk, SkipEntry, StopWalk, OnCopy, Testing, Levels, REC_LIMIT
<1>2. /\ Ring(umemlist, ReHead, listed) /\ umemlist \in Links(Cells)
      /\ listed \subseteq Orig
  <2>1. listed \subseteq Orig /\ listed \cap Orig = listed
    BY <1>1 DEF NothingLeft, TypeOK
  <2> QED BY <1>1, <2>1 DEF WellLinked, MainHead, TypeOK
<1>3. /\ entry' \in Cells /\ temp' \in Cells
      /\ pc' = "walk" => entry' \in listed \cup {ReHead} /\ temp' \in listed \cup {ReHead}
  <2>1. \A c \in listed \cup {ReHead} : umemlist.next[c] \in listed \cup {ReHead}
    BY <1>2 DEF Ring
  <2>2. \A c \in listed \cup {ReHead} : c \in Cells
    BY <1>2, Layout
  <2>3. CASE StartWalk
    <3>1. entry' = umemlist.next[ReHead] /\ temp' = umemlist.next[entry']
      BY <2>3 DEF StartWalk
    <3>2. entry' \in listed \cup {ReHead}
      BY <2>1, <3>1
    <3> QED BY <2>1, <2>2, <3>1, <3>2
  <2>4. CASE SkipEntry
    <3>1. temp \in listed \cup {ReHead} /\ entry' = temp /\ temp' = umemlist.next[temp]
      BY <2>4 DEF SkipEntry, Cursors, advance
    <3> QED BY <2>1, <2>2, <3>1
  <2>5. CASE StopWalk
    BY <2>5 DEF StopWalk, walk, TypeOK
  <2> QED BY <2>3, <2>4, <2>5
<1>4. TypeOK'
  BY <1>1, <1>2, <1>3, Layout DEF TypeOK, links, members
<1>5. WellLinked'
  BY <1>1 DEF WellLinked, MainHead, links, members
<1>6. NothingLeft' /\ Levels' /\ Loops'
  BY <1>1 DEF NothingLeft, Levels, Loops, members
<1>7. Cursors'
  BY <1>1, <1>3 DEF Cursors, members
<1> QED BY <1>4, <1>5, <1>6, <1>7

-----------------------------------------------------------------------------
(* The test.  save_re_ds moves both lists to the head on the stack; they   *)
(* are not empty, since the test is for an entry of one of them.           *)
LEMMA StartIInv ==
  ASSUME IInv, StartTest
  PROVE  IInv'
<1> USE DEF IInv, StartTest
<1>1. /\ ~ OnCopy /\ ~ Testing /\ ~ OnCopy' /\ Testing' /\ MainHead' = OldHead
      /\ UNCHANGED <<worklist, members, known, re, walk, verdict>>
  BY DEF OnCopy, Testing, MainHead, Levels
<1>2. /\ live \subseteq Orig /\ listed \subseteq live /\ queued \subseteq live
      /\ live \cap Orig = live /\ listed \cap Orig = listed /\ live \cap Copies = {}
      /\ entry \in listed /\ listed # {} /\ live # {}
  BY <1>1, Layout DEF NothingLeft, TypeOK, Cursors
<1>3. Ring(list, ReHead, live) /\ Ring(umemlist, ReHead, listed)
  BY <1>1, <1>2 DEF WellLinked, MainHead
<1>4. /\ live \in SUBSET Cells /\ listed \in SUBSET Cells
      /\ ReHead \notin live /\ OldHead \notin live \cup {ReHead}
      /\ ReHead \notin listed /\ OldHead \notin listed \cup {ReHead}
      /\ ReHead \in Cells /\ OldHead \in Cells
      /\ list \in Links(Cells) /\ umemlist \in Links(Cells)
  BY <1>2, Layout DEF TypeOK
<1> DEFINE l == save_re_ds(list)
<1>5. Ring(l, OldHead, live) /\ l \in Links(Cells)
  BY <1>2, <1>3, <1>4, RingMove DEF save_re_ds
<1>6. Ring(umemlist', OldHead, listed) /\ umemlist' \in Links(Cells)
  BY <1>2, <1>3, <1>4, RingMove DEF save_re_ds
<1> HIDE DEF l
<1>7. /\ Ring(list', ReHead, {}) /\ list' \in Links(Cells)
      /\ \A c \in live \cup {OldHead} : list'.next[c] = l.next[c] /\ list'.prev[c] = l.prev[c]
  <2>1. list' = INIT_LIST_HEAD(l, ReHead)
    BY DEF l
  <2>2. \A c \in live \cup {OldHead} : list'.next[c] = l.next[c] /\ list'.prev[c] = l.prev[c]
    BY <1>4, <1>5, <2>1 DEF INIT_LIST_HEAD, Links
  <2> QED BY <1>4, <1>5, <2>1, <2>2, RingEmpty
<1>8. Ring(list', OldHead, live)
  BY <1>5, <1>7, RingFrame
<1>9. TypeOK'
  <2>1. cur' \in Cells
    BY <1>4, <1>8 DEF Ring
  <2> QED BY <1>1, <1>6, <1>7, <2>1 DEF TypeOK, members, walk
<1>10. WellLinked'
  BY <1>1, <1>2, <1>6, <1>7, <1>8 DEF WellLinked, MainHead, members
<1>11. NothingLeft' /\ Levels' /\ Cursors'
  BY <1>1, <1>2 DEF NothingLeft, Levels, Cursors, members, walk
<1>12. Loops'
  <2>1. Originals(live)' = {} /\ live' = live /\ live' \cap Orig = live
    BY <1>1, <1>2, Layout DEF Originals, members
  <2>2. Forking(list, live \cap Orig, Originals(live))'
    BY <1>8, <2>1 DEF Forking, Ring
  <2> QED BY <1>1, <1>2, <2>2 DEF Loops, members
<1> QED BY <1>9, <1>10, <1>11, <1>12

(* Backwards from a cursor: one more is done, and the cursor's predecessor *)
(* is not among the done.                                                  *)
LEMMA ForkingStep ==
  ASSUME NEW l, NEW S, NEW done, S \subseteq Orig, done \subseteq Orig,
         cur \in S, Ring(l, OldHead, S),
         Forking(l, S, done), cur' = l.prev[cur],
         NEW m, \A c \in Orig \cup {OldHead} : m.next[c] = l.next[c]
  PROVE  /\ cur' \in S \cup {OldHead} /\ cur' \notin done \cup {cur}
         /\ \A c \in done \cup {cur} \cup {cur'} : m.next[c] \in done \cup {cur} \cup {OldHead}
<1>1. cur' \in S \cup {OldHead} /\ l.next[cur'] = cur
  BY DEF Ring
<1>2. cur # OldHead /\ cur \notin done /\ \A c \in done \cup {cur} : l.next[c] \in done \cup {OldHead}
  BY Layout DEF Forking
<1>3. cur' \notin done \cup {cur}
  BY <1>1, <1>2
<1>4. \A c \in done \cup {cur} \cup {cur'} : l.next[c] \in done \cup {cur} \cup {OldHead}
  BY <1>1, <1>2
<1> QED BY <1>1, <1>3, <1>4

(* One iteration of fork_corelist: a copy of the node under the cursor is  *)
(* linked into the list of copies.                                         *)
LEMMA ForkCoreIInv ==
  ASSUME IInv, fork_corelist
  PROVE  IInv' /\ (Testing /\ Testing' => Untouched)
<1> USE DEF IInv, fork_corelist
<1> DEFINE new == copy_of(cur)
           S == live \cap Orig
           D == live \cap Copies
           done == Originals(live)
<1>1. /\ ~ OnCopy /\ Testing /\ ~ OnCopy' /\ Testing' /\ MainHead = OldHead /\ MainHead' = OldHead
      /\ UNCHANGED <<listed, queued, re, oldre, pc, walk, verdict>>
      /\ pc = "fork_corelist"
  BY DEF OnCopy, Testing, MainHead, Levels
<1>2. /\ Forking(list, S, done) /\ listed \cup queued \subseteq Orig
      /\ cur \in S /\ cur \notin done
  BY <1>1 DEF Loops, Forking
<1>3. new \in Copies /\ new \in Cells /\ new \notin Orig /\ new \notin D \cup {ReHead}
  BY <1>2, Layout DEF Originals
<1>4. Ring(list, OldHead, S) /\ Ring(list, ReHead, D)
  BY <1>1 DEF WellLinked
<1>5. /\ list \in Links(Cells) /\ ReHead \in Cells /\ D \in SUBSET Cells
      /\ S \cup {OldHead} \subseteq Cells \ (D \cup {ReHead, new})
  BY <1>3, Layout DEF TypeOK
<1>6. /\ Ring(list', ReHead, D \cup {new}) /\ list' \in Links(Cells)
      /\ \A c \in Cells \ (D \cup {ReHead, new}) :
           list'.next[c] = list.next[c] /\ list'.prev[c] = list.prev[c]
  <2>1. list' = list_add(list, new, ReHead)
    OBVIOUS
  <2> HIDE DEF D, new
  <2> QED BY <1>3, <1>4, <1>5, <2>1, RingAdd, SMTT(30)
<1>7. Ring(list', OldHead, S)
  BY <1>4, <1>5, <1>6, RingFrame
<1>8. live' \cap Orig = S /\ live' \cap Copies = D \cup {new}
  BY <1>3
<1>9. /\ umemlist' \in Links(Cells) /\ worklist' \in Links(Cells)
      /\ \A c \in Cells \ {new} :
           /\ umemlist'.next[c] = umemlist.next[c] /\ umemlist'.prev[c] = umemlist.prev[c]
           /\ worklist'.next[c] = worklist.next[c] /\ worklist'.prev[c] = worklist.prev[c]
  <2>1. cur \in Cells /\ new \in Cells
    BY <1>3 DEF TypeOK
  <2>2. umemlist \in Links(Cells) /\ umemlist' = copy_links(umemlist, cur, new)
    BY DEF TypeOK
  <2>3. worklist \in Links(Cells) /\ worklist' = copy_links(worklist, cur, new)
    BY DEF TypeOK
  <2> HIDE DEF new, fork_corelist, IInv
  <2>4. /\ umemlist' \in Links(Cells)
        /\ \A c \in Cells \ {new} :
             umemlist'.next[c] = umemlist.next[c] /\ umemlist'.prev[c] = umemlist.prev[c]
    <3> HIDE DEF S, D, done
    <3>1. /\ copy_links(umemlist, cur, new) \in Links(Cells)
          /\ \A c \in Cells \ {new} :
               /\ copy_links(umemlist, cur, new).next[c] = umemlist.next[c]
               /\ copy_links(umemlist, cur, new).prev[c] = umemlist.prev[c]
      BY <2>1, <2>2, CopyFrame, SMTT(60)
    <3> QED BY <2>2, <3>1
  <2>5. /\ worklist' \in Links(Cells)
        /\ \A c \in Cells \ {new} :
             worklist'.next[c] = worklist.next[c] /\ worklist'.prev[c] = worklist.prev[c]
    <3> HIDE DEF S, D, done
    <3>1. /\ copy_links(worklist, cur, new) \in Links(Cells)
          /\ \A c \in Cells \ {new} :
               /\ copy_links(worklist, cur, new).next[c] = worklist.next[c]
               /\ copy_links(worklist, cur, new).prev[c] = worklist.prev[c]
      BY <2>1, <2>3, CopyFrame, SMTT(60)
    <3> QED BY <2>3, <3>1
  <2> QED BY <2>4, <2>5
<1>10. Ring(umemlist', OldHead, listed \cap Orig) /\ Ring(worklist', Work, queued \cap Orig)
  <2>1. Ring(umemlist, OldHead, listed \cap Orig) /\ Ring(worklist, Work, queued \cap Orig)
    BY <1>1 DEF WellLinked
  <2>2. /\ \A c \in (listed \cap Orig) \cup {OldHead} : c \in Cells \ {new}
        /\ \A c \in (queued \cap Orig) \cup {Work} : c \in Cells \ {new}
    BY <1>3, Layout
  <2> HIDE DEF new
  <2> QED BY <1>9, <2>1, <2>2, RingFrame
<1>11. TypeOK'
  <2>1. cur' \in Cells
    BY <1>2, <1>4, <1>5 DEF Ring
  <2>2. known' \in [Cells -> SUBSET Fact]
    BY <1>2, <1>5 DEF TypeOK
  <2> QED BY <1>1, <1>3, <1>6, <1>9, <2>1, <2>2 DEF TypeOK, walk
<1>12. WellLinked'
  BY <1>1, <1>6, <1>7, <1>8, <1>10 DEF WellLinked
<1>13. NothingLeft' /\ Levels' /\ Cursors'
  BY <1>1 DEF NothingLeft, Levels, Cursors, walk
<1>14. Loops'
  <2>1. Originals(live)' = done \cup {cur}
    BY <1>2, Layout DEF Originals
  <2>2. S \subseteq Orig /\ done \subseteq Orig
    BY DEF Originals
  <2>3. \A c \in Orig \cup {OldHead} : list'.next[c] = list.next[c]
    BY <1>3, <1>6, Layout
  <2>4. cur' = list.prev[cur]
    OBVIOUS
  <2> HIDE DEF S, done
  <2>5. /\ cur' \in S \cup {OldHead} /\ cur' \notin done \cup {cur}
        /\ \A c \in done \cup {cur} \cup {cur'} : list'.next[c] \in done \cup {cur} \cup {OldHead}
    BY <1>2, <1>4, <2>2, <2>3, <2>4, ForkingStep
  <2>6. Forking(list, live \cap Orig, Originals(live))'
    BY <1>8, <2>1, <2>5 DEF Forking
  <2> QED BY <1>1, <1>2, <2>6 DEF Loops
<1>15. Testing /\ Testing' => Untouched
  <2>1. \A c \in Orig : c \in Cells \ (D \cup {ReHead, new})
    BY <1>3, Layout
  <2>2. \A c \in Orig : known'[c] = known[c]
    BY <1>3, Layout DEF TypeOK
  <2> QED BY <1>6, <1>9, <2>1, <2>2 DEF Untouched
<1> QED BY <1>11, <1>12, <1>13, <1>14, <1>15

(* The core list is copied; the list of unknown writes begins empty.       *)
LEMMA ForkedIInv ==
  ASSUME IInv, CorelistForked
  PROVE  IInv' /\ (Testing /\ Testing' => Untouched)
<1> USE DEF IInv, CorelistForked
<1>1. /\ ~ OnCopy /\ Testing /\ ~ OnCopy' /\ Testing' /\ MainHead = OldHead /\ MainHead' = OldHead
      /\ UNCHANGED <<list, worklist, members, known, re, oldre, walk, verdict>>
      /\ pc = "fork_corelist" /\ pc' = "fork_umemlist"
  BY DEF OnCopy, Testing, MainHead, Levels
<1>2. listed \subseteq Orig /\ queued \subseteq Orig /\ listed \cap Copies = {}
  BY <1>1, Layout DEF Loops
<1>3. Ring(umemlist, OldHead, listed \cap Orig) /\ umemlist \in Links(Cells) /\ ReHead \in Cells
  BY <1>1, Layout DEF WellLinked, TypeOK
<1>4. /\ Ring(umemlist', ReHead, {}) /\ umemlist' \in Links(Cells)
  BY <1>3, RingEmpty
<1>5. \A c \in (listed \cap Orig) \cup {OldHead} :
        umemlist'.next[c] = umemlist.next[c] /\ umemlist'.prev[c] = umemlist.prev[c]
  BY <1>3, Layout DEF INIT_LIST_HEAD, Links
<1>6. Ring(umemlist', OldHead, listed \cap Orig)
  BY <1>3, <1>5, RingFrame
<1>7. cur' \in (listed \cap Orig) \cup {OldHead} /\ umemlist'.next[cur'] = OldHead
  BY <1>3, <1>5 DEF Ring
<1>8. TypeOK'
  BY <1>1, <1>4, <1>7, Layout DEF TypeOK, members, walk
<1>9. WellLinked'
  BY <1>1, <1>2, <1>4, <1>6 DEF WellLinked, members
<1>10. NothingLeft' /\ Levels' /\ Cursors'
  BY <1>1 DEF NothingLeft, Levels, Cursors, members, walk
<1>11. Loops'
  <2>1. Originals(listed)' = {}
    BY <1>1, <1>2, Layout DEF Originals, members
  <2>2. Forking(umemlist, listed \cap Orig, Originals(listed))'
    BY <1>1, <1>7, <2>1 DEF Forking, members
  <2> QED BY <1>1, <1>2, <2>2 DEF Loops, members
<1>12. Testing /\ Testing' => Untouched
  <2>1. \A c \in Orig : umemlist'.next[c] = umemlist.next[c] /\ umemlist'.prev[c] = umemlist.prev[c]
    BY <1>3, Layout DEF INIT_LIST_HEAD, Links
  <2> QED BY <1>1, <2>1 DEF Untouched
<1> QED BY <1>8, <1>9, <1>10, <1>11, <1>12

(* One iteration of fork_umemlist: the copy of a listed write is listed.   *)
LEMMA ForkUnknownIInv ==
  ASSUME IInv, fork_umemlist
  PROVE  IInv' /\ (Testing /\ Testing' => Untouched)
<1> USE DEF IInv, fork_umemlist
<1> DEFINE new == copy_of(cur)
           S == listed \cap Orig
           D == listed \cap Copies
           done == Originals(listed)
<1>1. /\ ~ OnCopy /\ Testing /\ ~ OnCopy' /\ Testing' /\ MainHead = OldHead /\ MainHead' = OldHead
      /\ UNCHANGED <<list, worklist, live, queued, known, re, oldre, pc, walk, verdict>>
      /\ pc = "fork_umemlist"
  BY DEF OnCopy, Testing, MainHead, Levels
<1>2. /\ Forking(umemlist, S, done) /\ queued \subseteq Orig
      /\ cur \in S /\ cur \notin done
  BY <1>1 DEF Loops, Forking
<1>3. new \in Copies /\ new \in Cells /\ new \notin Orig /\ new \notin D \cup {ReHead}
  BY <1>2, Layout DEF Originals
<1>4. Ring(umemlist, OldHead, S) /\ Ring(umemlist, ReHead, D)
  BY <1>1 DEF WellLinked
<1>5. /\ umemlist \in Links(Cells) /\ ReHead \in Cells /\ D \in SUBSET Cells
      /\ S \cup {OldHead} \subseteq Cells \ (D \cup {ReHead, new})
  BY <1>3, Layout DEF TypeOK
<1>6. /\ Ring(umemlist', ReHead, D \cup {new}) /\ umemlist' \in Links(Cells)
      /\ \A c \in Cells \ (D \cup {ReHead, new}) :
           umemlist'.next[c] = umemlist.next[c] /\ umemlist'.prev[c] = umemlist.prev[c]
  <2>1. umemlist' = list_add(umemlist, new, ReHead)
    OBVIOUS
  <2> DEFINE m == list_add(umemlist, new, ReHead)
  <2> HIDE DEF D, new, fork_umemlist, IInv
  <2>3. new \in Cells /\ new \notin D \cup {ReHead} /\ Ring(umemlist, ReHead, D)
    BY <1>3, <1>4
  <2>4. umemlist \in Links(Cells) /\ ReHead \in Cells /\ D \in SUBSET Cells
    BY <1>5
  <2>2. /\ Ring(m, ReHead, D \cup {new}) /\ m \in Links(Cells)
        /\ \A c \in Cells \ (D \cup {ReHead, new}) :
             m.next[c] = umemlist.next[c] /\ m.prev[c] = umemlist.prev[c]
    BY <2>3, <2>4, RingAdd
  <2> QED BY <2>1, <2>2
<1>7. Ring(umemlist', OldHead, S)
  BY <1>4, <1>5, <1>6, RingFrame
<1>8. listed' \cap Orig = S /\ listed' \cap Copies = D \cup {new}
  BY <1>3
<1>9. TypeOK'
  <2>1. cur' \in Cells
    BY <1>2, <1>4, <1>5 DEF Ring
  <2> QED BY <1>1, <1>3, <1>6, <2>1 DEF TypeOK, walk
<1>10. WellLinked'
  BY <1>1, <1>6, <1>7, <1>8 DEF WellLinked
<1>11. NothingLeft' /\ Levels'
  BY <1>1 DEF NothingLeft, Levels
<1>12. Cursors'
  BY <1>1, <1>8 DEF Cursors, walk
<1>13. Loops'
  <2>1. Originals(listed)' = done \cup {cur}
    BY <1>2, Layout DEF Originals
  <2>2. S \subseteq Orig /\ done \subseteq Orig
    BY DEF Originals
  <2>3. \A c \in Orig \cup {OldHead} : umemlist'.next[c] = umemlist.next[c]
    BY <1>3, <1>6, Layout
  <2>4. cur' = umemlist.prev[cur]
    OBVIOUS
  <2> HIDE DEF S, done
  <2>5. /\ cur' \in S \cup {OldHead} /\ cur' \notin done \cup {cur}
        /\ \A c \in done \cup {cur} \cup {cur'} : umemlist'.next[c] \in done \cup {cur} \cup {OldHead}
    BY <1>2, <1>4, <2>2, <2>3, <2>4, ForkingStep
  <2>6. Forking(umemlist, listed \cap Orig, Originals(listed))'
    BY <1>8, <2>1, <2>5 DEF Forking
  <2> QED BY <1>1, <1>2, <2>6 DEF Loops
<1>14. Testing /\ Testing' => Untouched
  <2>1. \A c \in Orig : c \in Cells \ (D \cup {ReHead, new})
    BY <1>3, Layout
  <2> QED BY <1>1, <1>6, <2>1 DEF Untouched
<1> QED BY <1>9, <1>10, <1>11, <1>12, <1>13, <1>14

(* setjmp is done and the propagation starts on the copy, one level deep.  *)
LEMMA RunIInv ==
  ASSUME IInv, RunTest
  PROVE  IInv' /\ (Testing /\ Testing' => Untouched)
<1> USE DEF IInv, RunTest
<1>1. /\ ~ OnCopy /\ Testing /\ MainHead = OldHead /\ pc = "fork_umemlist"
      /\ UNCHANGED <<list, live, queued, known, oldre, walk, cur, verdict>>
  BY DEF OnCopy, Testing, MainHead, Levels
<1>2. /\ re' = [rec_count |-> 1, aliasret |-> "set"] /\ pc' = "propagate"
      /\ OnCopy' /\ Testing' /\ MainHead' = OldHead
  BY <1>1 DEF Levels, OnCopy, Testing, MainHead, REC_LIMIT
<1>3. queued \subseteq Orig /\ queued \cap Copies = {}
  BY <1>1, Layout DEF Loops
<1>4. worklist \in Links(Cells) /\ TestWork \in Cells
  BY Layout DEF TypeOK
<1>5. Ring(worklist', TestWork, {}) /\ worklist' \in Links(Cells)
  BY <1>4, RingEmpty
<1>6. Ring(worklist', Work, queued \cap Orig)
  <2>1. Ring(worklist, Work, queued \cap Orig)
    BY DEF WellLinked
  <2>2. \A c \in (queued \cap Orig) \cup {Work} :
          worklist'.next[c] = worklist.next[c] /\ worklist'.prev[c] = worklist.prev[c]
    BY <1>4, Layout DEF INIT_LIST_HEAD, Links
  <2> QED BY <2>1, <2>2, RingFrame
<1> DEFINE new == copy_of(entry)
<1>7. /\ umemlist' \in Links(Cells)
       /\ Ring(umemlist', ReHead, listed' \cap Copies)
       /\ \A d \in Orig \cup {OldHead} :
            umemlist'.next[d] = umemlist.next[d] /\ umemlist'.prev[d] = umemlist.prev[d]
       /\ listed' \cap Orig = listed \cap Orig /\ listed' \subseteq listed
  <2>1. /\ umemlist \in Links(Cells) /\ Ring(umemlist, ReHead, listed \cap Copies)
        /\ new \in Copies
    BY <1>1, Layout DEF TypeOK, WellLinked, Cursors
  <2> HIDE DEF new
  <2>2. CASE UNCHANGED <<umemlist, listed>>
    BY <2>1, <2>2
  <2>3. CASE remove_from_umemlist(new)
    <3>1. Copies \in SUBSET Cells /\ ReHead \notin Copies
      BY Layout
    <3>2. /\ umemlist' \in Links(Cells)
          /\ Ring(umemlist', ReHead, (listed \cap Copies) \ {new})
          /\ \A d \in Cells \ ((listed \cap Copies) \cup {ReHead}) :
               umemlist'.next[d] = umemlist.next[d] /\ umemlist'.prev[d] = umemlist.prev[d]
          /\ listed' = listed \ {new}
      BY <2>1, <2>3, <3>1, RemoveUnknown
    <3>3. (listed \cap Copies) \ {new} = listed' \cap Copies
      BY <3>2
    <3> QED BY <2>1, <3>2, <3>3, Layout
  <2> QED BY <2>2, <2>3 DEF new
<1>8. Ring(umemlist', OldHead, listed' \cap Orig)
  BY <1>1, <1>7, RingFrame DEF WellLinked
<1>9. TypeOK'
  <2>1. re' \in [rec_count : 0 .. 1, aliasret : {"unset", "set"}]
    BY <1>2
  <2> QED BY <1>1, <1>2, <1>5, <1>7, <2>1 DEF TypeOK, walk
<1>10. WellLinked'
  BY <1>1, <1>2, <1>3, <1>5, <1>6, <1>7, <1>8 DEF WellLinked
<1>11. NothingLeft' /\ Levels' /\ Cursors' /\ Loops'
  BY <1>1, <1>2, <1>7 DEF NothingLeft, Levels, Cursors, Loops, walk
<1>12. Testing /\ Testing' => Untouched
  <2>1. \A c \in Orig : worklist'.next[c] = worklist.next[c] /\ worklist'.prev[c] = worklist.prev[c]
    BY <1>4, Layout DEF INIT_LIST_HEAD, Links
  <2> QED BY <1>1, <1>7, <2>1 DEF Untouched
<1> QED BY <1>9, <1>10, <1>11, <1>12

(* By a return or by a longjmp, the test ends at the same place.           *)
LEMMA EndingIInv == IInv /\ (NoConflict \/ Conflict) => IInv' /\ (Testing /\ Testing' => Untouched)
<1> SUFFICES ASSUME IInv, NEW v \in BOOLEAN, OnCopy, end_test(v) PROVE IInv' /\ (Testing /\ Testing' => Untouched)
  BY DEF NoConflict, Conflict, IInv, Levels, OnCopy
<1> USE DEF IInv, end_test
<1>1. /\ Testing /\ ~ OnCopy' /\ Testing' /\ MainHead = OldHead /\ MainHead' = OldHead
      /\ pc' = "delete_corelist" /\ UNCHANGED <<links, members, known, re, oldre, walk>>
  BY DEF OnCopy, Testing, MainHead
<1>2. cur' \in Cells
  <2>1. Ring(list, ReHead, live \cap Copies)
    BY <1>1 DEF WellLinked
  <2> QED BY <2>1, Layout DEF Ring
<1>3. TypeOK'
  BY <1>1, <1>2 DEF TypeOK, links, members, walk
<1>4. WellLinked'
  BY <1>1 DEF WellLinked, links, members
<1>5. NothingLeft' /\ Levels' /\ Cursors' /\ Loops'
  BY <1>1 DEF NothingLeft, Levels, Cursors, Loops, links, members, walk
<1>6. Testing /\ Testing' => Untouched
  BY <1>1 DEF Untouched, links
<1> QED BY <1>3, <1>4, <1>5, <1>6

(* One iteration of delete_corelist: the first copy is taken off and freed. *)
LEMMA DeleteIInv ==
  ASSUME IInv, delete_corelist
  PROVE  IInv' /\ (Testing /\ Testing' => Untouched)
<1> USE DEF IInv, delete_corelist
<1> DEFINE D == live \cap Copies
<1>1. /\ ~ OnCopy /\ Testing /\ ~ OnCopy' /\ Testing' /\ MainHead = OldHead /\ MainHead' = OldHead
      /\ UNCHANGED <<re, oldre, pc, walk, verdict>> /\ pc = "delete_corelist"
  BY DEF OnCopy, Testing, MainHead
<1>2. /\ Ring(list, ReHead, D) /\ Ring(list, OldHead, live \cap Orig)
      /\ cur = list.next[ReHead]
  BY <1>1 DEF WellLinked, Loops
<1>3. cur \in D /\ cur \in Copies /\ cur \notin Orig /\ cur \in Cells
  <2>1. cur \in D
    BY <1>2 DEF Ring
  <2> QED BY <2>1, Layout
<1>4. list \in Links(Cells) /\ ReHead \in Cells /\ D \in SUBSET Cells /\ ReHead \notin D
  BY Layout DEF TypeOK
<1>5. /\ Ring(list', ReHead, D \ {cur}) /\ list' \in Links(Cells)
      /\ \A c \in Cells \ (D \cup {ReHead}) : list'.next[c] = list.next[c] /\ list'.prev[c] = list.prev[c]
  <2> DEFINE m == list_del(list, cur)
  <2>1. list' = m
    OBVIOUS
  <2>2. Ring(list, ReHead, D) /\ cur \in D
    BY <1>2, <1>3
  <2> HIDE DEF D, IInv, delete_corelist
  <2>3. /\ Ring(m, ReHead, D \ {cur}) /\ m \in Links(Cells)
        /\ \A c \in Cells \ (D \cup {ReHead}) : m.next[c] = list.next[c] /\ m.prev[c] = list.prev[c]
    BY <1>4, <2>2, RingDel
  <2> QED BY <2>1, <2>3
<1>6. Ring(list', OldHead, live \cap Orig)
  <2>1. \A c \in (live \cap Orig) \cup {OldHead} : c \in Cells \ (D \cup {ReHead})
    BY Layout
  <2> QED BY <1>2, <1>5, <2>1, RingFrame
<1>7. /\ umemlist' \in Links(Cells)
      /\ \A c \in Cells \ {cur} : umemlist'.next[c] = umemlist.next[c] /\ umemlist'.prev[c] = umemlist.prev[c]
  BY DiscardFrame DEF TypeOK
<1>8. /\ worklist' \in Links(Cells)
      /\ \A c \in Cells \ {cur} : worklist'.next[c] = worklist.next[c] /\ worklist'.prev[c] = worklist.prev[c]
  BY DiscardFrame DEF TypeOK
<1>9. live' \cap Orig = live \cap Orig /\ listed' \cap Orig = listed \cap Orig
      /\ queued' \cap Orig = queued \cap Orig /\ live' \cap Copies = D \ {cur}
  BY <1>3
<1>10. Ring(umemlist', OldHead, listed \cap Orig)
  <2>1. Ring(umemlist, OldHead, listed \cap Orig)
    BY <1>1 DEF WellLinked
  <2>2. \A c \in (listed \cap Orig) \cup {OldHead} : c \in Cells \ {cur}
    BY <1>3, Layout
  <2> QED BY <1>7, <2>1, <2>2, RingFrame
<1>11. Ring(worklist', Work, queued \cap Orig)
  <2>1. Ring(worklist, Work, queued \cap Orig)
    BY DEF WellLinked
  <2>2. \A c \in (queued \cap Orig) \cup {Work} : c \in Cells \ {cur}
    BY <1>3, Layout
  <2> QED BY <1>8, <2>1, <2>2, RingFrame
<1>12. TypeOK'
  <2>1. cur' \in Cells
    BY <1>2, <1>3, <1>4 DEF Ring
  <2>2. known' \in [Cells -> SUBSET Fact]
    BY DEF TypeOK
  <2>3. live' \subseteq Orig \cup Copies /\ listed' \subseteq live' /\ queued' \subseteq live'
    BY DEF TypeOK
  <2> QED BY <1>1, <1>5, <1>7, <1>8, <2>1, <2>2, <2>3 DEF TypeOK, walk
<1>13. WellLinked'
  BY <1>1, <1>5, <1>6, <1>9, <1>10, <1>11 DEF WellLinked
<1>14. NothingLeft' /\ Levels'
  BY <1>1 DEF NothingLeft, Levels
<1>15. Cursors'
  BY <1>1, <1>9 DEF Cursors, walk
<1>16. Loops'
  <2>1. list'.next[ReHead] = list.next[list.next[ReHead]]
    BY <1>2, <1>3, <1>4, RingDelFirst
  <2> QED BY <1>1, <1>2, <2>1 DEF Loops
<1>17. Testing /\ Testing' => Untouched
  <2>1. \A c \in Orig : c \in Cells \ (D \cup {ReHead}) /\ c \in Cells \ {cur}
    BY <1>3, Layout
  <2>2. \A c \in Orig : known'[c] = known[c]
    BY <1>3, Layout DEF TypeOK
  <2> QED BY <1>5, <1>7, <1>8, <2>1, <2>2 DEF Untouched
<1> QED BY <1>12, <1>13, <1>14, <1>15, <1>16, <1>17

(* restore_re_ds moves the lists back to re_ds.head.                       *)
LEMMA EndIInv ==
  ASSUME IInv, EndTest
  PROVE  IInv'
<1> USE DEF IInv, EndTest
<1>1. /\ ~ OnCopy /\ Testing /\ MainHead = OldHead /\ pc = "delete_corelist"
      /\ UNCHANGED <<members, known, oldre, cur, verdict>>
  BY DEF OnCopy, Testing, MainHead
<1>2. /\ re' = [rec_count |-> 0, aliasret |-> "unset"] /\ pc' \in {"propagate", "walk"}
      /\ ~ OnCopy' /\ ~ Testing' /\ MainHead' = ReHead
  BY DEF Levels, OnCopy, Testing, MainHead
<1>3. live \cap Copies = {}
  BY <1>1, RingEnd DEF WellLinked, Loops
<1>4. /\ live \subseteq Orig /\ listed \subseteq live /\ queued \subseteq live
      /\ live \cap Orig = live /\ listed \cap Orig = listed
      /\ entry \in listed /\ listed # {} /\ live # {}
  BY <1>1, <1>3 DEF TypeOK, Cursors
<1>5. Ring(list, OldHead, live) /\ Ring(umemlist, OldHead, listed)
  BY <1>1, <1>4 DEF WellLinked
<1>6. /\ live \in SUBSET Cells /\ listed \in SUBSET Cells
      /\ OldHead \notin live /\ ReHead \notin live \cup {OldHead}
      /\ OldHead \notin listed /\ ReHead \notin listed \cup {OldHead}
      /\ ReHead \in Cells /\ OldHead \in Cells
      /\ list \in Links(Cells) /\ umemlist \in Links(Cells)
  BY <1>4, Layout DEF TypeOK
<1> DEFINE l == restore_re_ds(list)
           u == restore_re_ds(umemlist)
<1>7. Ring(l, ReHead, live) /\ l \in Links(Cells)
  BY <1>4, <1>5, <1>6, RingMove DEF restore_re_ds
<1>8. Ring(u, ReHead, listed) /\ u \in Links(Cells)
  BY <1>4, <1>5, <1>6, RingMove DEF restore_re_ds
<1> HIDE DEF l, u
<1>9. Ring(list', ReHead, live) /\ list' \in Links(Cells)
  <2>1. list' = discard(l, {OldHead}) /\ l \in Links(Cells)
    BY <1>7 DEF l
  <2>2. list' \in Links(Cells)
        /\ \A c \in Cells \ {OldHead} : list'.next[c] = l.next[c] /\ list'.prev[c] = l.prev[c]
    <3> HIDE DEF IInv, EndTest
    <3> QED BY <2>1, DiscardFrame
  <2>3. \A c \in live \cup {ReHead} : c \in Cells \ {OldHead}
    BY <1>6
  <2> QED BY <1>7, <2>2, <2>3, RingFrame
<1>10. Ring(umemlist', ReHead, listed) /\ umemlist' \in Links(Cells)
  <2>1. umemlist' = discard(u, {OldHead}) /\ u \in Links(Cells)
    BY <1>8 DEF u
  <2>2. umemlist' \in Links(Cells)
        /\ \A c \in Cells \ {OldHead} : umemlist'.next[c] = u.next[c] /\ umemlist'.prev[c] = u.prev[c]
    <3> HIDE DEF IInv, EndTest
    <3> QED BY <2>1, DiscardFrame
  <2>3. \A c \in listed \cup {ReHead} : c \in Cells \ {OldHead}
    BY <1>6
  <2> QED BY <1>8, <2>2, <2>3, RingFrame
<1>11. Ring(worklist', Work, queued \cap Orig) /\ worklist' \in Links(Cells)
  <2>1. Ring(worklist, Work, queued \cap Orig)
    BY DEF WellLinked
  <2>2. worklist' \in Links(Cells)
        /\ \A c \in Cells \ {TestWork} : worklist'.next[c] = worklist.next[c] /\ worklist'.prev[c] = worklist.prev[c]
    BY DiscardFrame DEF TypeOK
  <2>3. \A c \in (queued \cap Orig) \cup {Work} : c \in Cells \ {TestWork}
    BY Layout
  <2> QED BY <2>1, <2>2, <2>3, RingFrame
<1>12. /\ entry' \in Cells /\ temp' \in Cells
       /\ pc' = "walk" => entry' \in listed \cup {ReHead} /\ temp' \in listed \cup {ReHead}
  <2>1. /\ \A c \in listed \cup {ReHead} : umemlist'.next[c] \in listed \cup {ReHead}
        /\ \A c \in listed \cup {ReHead} : c \in Cells
    <3>1. \A c \in listed \cup {ReHead} : c \in Cells
      BY <1>6
    <3> HIDE DEF IInv, EndTest
    <3>2. \A c \in listed \cup {ReHead} : umemlist'.next[c] \in listed \cup {ReHead}
      BY <1>10 DEF Ring
    <3> QED BY <3>1, <3>2
  <2>2. temp \in listed \cup {ReHead}
    BY <1>1 DEF Cursors
  <2>3. CASE verdict
    BY <2>3 DEF walk, TypeOK
  <2>4. CASE ~ verdict
    <3>1. entry' = temp /\ temp' = umemlist'.next[temp]
      BY <2>4 DEF advance
    <3> QED BY <2>1, <2>2, <3>1
  <2> QED BY <2>3, <2>4
<1>13. TypeOK'
  <2>1. re' \in [rec_count : 0 .. 1, aliasret : {"unset", "set"}]
    BY <1>2
  <2> QED BY <1>1, <1>2, <1>9, <1>10, <1>11, <1>12, <2>1 DEF TypeOK, members
<1>14. WellLinked'
  BY <1>1, <1>2, <1>4, <1>9, <1>10, <1>11 DEF WellLinked, members
<1>15. NothingLeft' /\ Levels'
  BY <1>1, <1>2, <1>4 DEF NothingLeft, Levels, members
<1>16. Cursors' /\ Loops'
  BY <1>1, <1>2, <1>12 DEF Cursors, Loops, members
<1> QED BY <1>13, <1>14, <1>15, <1>16

(* Every step keeps the invariant.                                         *)
LEMMA NextIInv == IInv /\ [Next]_vars => IInv'
<1> SUFFICES ASSUME IInv, [Next]_vars PROVE IInv'
  OBVIOUS
<1>1. CASE Propagate
  BY <1>1, AddNodeIInv, AddUnknownIInv, AddressIInv, ValueIInv, EntryIInv DEF Propagate
<1>2. CASE StartWalk \/ SkipEntry \/ StopWalk
  BY <1>2, WalkIInv
<1>3. CASE StartTest \/ fork_corelist \/ CorelistForked \/ fork_umemlist \/ RunTest
  BY <1>3, StartIInv, ForkCoreIInv, ForkedIInv, ForkUnknownIInv, RunIInv
<1>4. CASE NoConflict \/ Conflict
  BY <1>4, EndingIInv
<1>5. CASE delete_corelist \/ EndTest
  BY <1>5, DeleteIInv, EndIInv
<1>6. CASE UNCHANGED vars
  BY <1>6 DEF vars, links, members, walk, IInv, TypeOK, WellLinked, NothingLeft, Levels,
              Cursors, Loops, Testing, OnCopy, MainHead, Forking, Originals
<1> QED BY <1>1, <1>2, <1>3, <1>4, <1>5, <1>6 DEF Next

-----------------------------------------------------------------------------
(* Tests never nest, however often the propagation asks: rec_count stays   *)
(* below REC_LIMIT, and every variable keeps its type.                     *)
THEOREM TypeCorrect == Spec => []TypeOK
<1>1. IInv => TypeOK
  BY DEF IInv
<1> QED BY InitIInv, NextIInv, <1>1, PTL DEF Spec

(* All three lists of the main structure and of the copy are well formed   *)
(* at every moment: no walk ever meets a freed node, a dead frame or a     *)
(* node of the other structure, and none misses a node.                    *)
THEOREM ListsWellFormed == Spec => []WellLinked
<1>1. IInv => WellLinked
  BY DEF IInv
<1> QED BY InitIInv, NextIInv, <1>1, PTL DEF Spec

(* However a test ended, re_ds is what it was and every copy is freed.     *)
THEOREM TestLeavesNothing == Spec => []NothingLeft
<1>1. IInv => NothingLeft
  BY DEF IInv
<1> QED BY InitIInv, NextIInv, <1>1, PTL DEF Spec

(* A step of a test touches no node of the main structure.                 *)
LEMMA TestingUntouched ==
  ASSUME IInv, Next, Testing, Testing'
  PROVE  Untouched
<1>1. CASE Propagate
  <2>1. ~ \E c \in Orig : add_new_node(c)
    BY DEF add_new_node, Testing
  <2> QED BY <1>1, <2>1, AddUnknownIInv, AddressIInv, ValueIInv, EntryIInv DEF Propagate
<1>2. CASE StartWalk \/ SkipEntry \/ StopWalk \/ StartTest
  BY <1>2 DEF StartWalk, SkipEntry, StopWalk, StartTest, Testing, IInv, Levels, OnCopy, REC_LIMIT
<1>3. CASE fork_corelist \/ CorelistForked \/ fork_umemlist \/ RunTest
  BY <1>3, ForkCoreIInv, ForkedIInv, ForkUnknownIInv, RunIInv
<1>4. CASE NoConflict \/ Conflict \/ delete_corelist
  BY <1>4, EndingIInv, DeleteIInv
<1>5. CASE EndTest
  BY <1>5 DEF EndTest, Testing, IInv, Levels
<1> QED BY <1>1, <1>2, <1>3, <1>4, <1>5 DEF Next

(* While a test runs, nothing it does reaches the main structure: its      *)
(* nodes keep their values and their place on every list.                  *)
THEOREM TestIsolated == Spec => Isolated
<1>1. IInv /\ [Next]_vars => [Testing /\ Testing' => Untouched]_vars
  BY TestingUntouched
<1> QED BY InitIInv, NextIInv, <1>1, PTL DEF Spec, Isolated

-----------------------------------------------------------------------------
(***************************************************************************)
(* HypothesisTest implements AtomicQuery.                                  *)
(***************************************************************************)
(* The list of head h holds the nodes of S in the order in which a walk    *)
(* meets them.                                                             *)
Arranged(l, h, S) == Threads(l, h, S, Order(l, h))

Core == Order(list, MainHead)
Unknowns == Order(umemlist, MainHead)
Queue == Order(worklist, Work)

(* The walk of resolve_alias stands on an unknown write and knows its      *)
(* successor, through the tests it starts, or is past the last one.        *)
Standing ==
  pc = "walk" \/ Testing =>
    \/ entry = ReHead
    \/ \E i \in 1 .. Len(Unknowns) :
         Unknowns[i] = entry /\ temp = After(ReHead, Unknowns, i)

QInv ==
  /\ IInv
  /\ Arranged(list, MainHead, live \cap Orig)
  /\ Arranged(umemlist, MainHead, listed \cap Orig)
  /\ Arranged(worklist, Work, queued \cap Orig)
  /\ Standing

-----------------------------------------------------------------------------
(* A list of nodes of the main structure is shorter than the longest walk. *)
LEMMA OrderIs ==
  ASSUME NEW l \in Links(Cells), NEW h \in Cells \ Orig, NEW S \in SUBSET Orig,
         NEW s, Threads(l, h, S, s)
  PROVE  Order(l, h) = s /\ Arranged(l, h, S)
<1>1. s \in Seq(S) /\ Len(s) \in Nat /\ \A i \in 1 .. Len(s) : s[i] \in Orig
  BY DEF Threads
<1>2. Len(s) <= N
  <2>1. s \in Injection(1 .. Len(s), Orig)
    <3>1. s \in [1 .. Len(s) -> Orig]
      BY <1>1, LenProperties
    <3>2. \A i, j \in 1 .. Len(s) : s[i] = s[j] => i = j
      BY DEF Threads
    <3> QED BY <3>1, <3>2 DEF Injection, IsInjective
  <2>2. IsFiniteSet(Orig) /\ Cardinality(Orig) = N
    BY FS_Interval, NAssumption DEF Orig
  <2>3. Cardinality(1 .. Len(s)) = Len(s)
    BY <1>1, FS_Interval
  <2> QED BY <2>1, <2>2, <2>3, FS_Injection
<1>3. LIST_POISON \notin Cells /\ Orig \subseteq Cells /\ 2 * N + 1 \in Nat /\ N < 2 * N + 1
  BY NAssumption DEF LIST_POISON, Cells, Orig
<1>4. Walk(l, h, 2 * N + 1) = s
  <2>1. Len(s) < 2 * N + 1
    BY <1>1, <1>2, <1>3, NAssumption
  <2>2. S \in SUBSET Cells /\ h \notin S
    BY <1>3
  <2> QED BY <1>3, <2>1, <2>2, WalkThreads
<1>5. Order(l, h) = s
  BY <1>4 DEF Order
<1> QED BY <1>5 DEF Arranged

(* An arranged list keeps its order while no link of it is written.        *)
LEMMA ArrangedFrame ==
  ASSUME NEW l \in Links(Cells), NEW m \in Links(Cells), NEW h \in Cells \ Orig,
         NEW S \in SUBSET Orig, Arranged(l, h, S),
         \A c \in S \cup {h} : m.next[c] = l.next[c]
  PROVE  Order(m, h) = Order(l, h) /\ Arranged(m, h, S)
<1>1. Threads(m, h, S, Order(l, h))
  BY ThreadsFrame DEF Arranged
<1> QED BY <1>1, OrderIs

(* The order of a list names the members of the list and nothing else.     *)
LEMMA ArrangedRange ==
  ASSUME NEW l, NEW h, NEW S, Arranged(l, h, S)
  PROVE  /\ ToSet(Order(l, h)) = S /\ Order(l, h) \in Seq(S) /\ Len(Order(l, h)) \in Nat
         /\ DOMAIN Order(l, h) = 1 .. Len(Order(l, h))
<1> DEFINE s == Order(l, h)
<1>1. s \in Seq(S) /\ (\A c \in S : \E i \in 1 .. Len(s) : s[i] = c)
  BY DEF Arranged, Threads
<1> HIDE DEF s
<1>2. DOMAIN s = 1 .. Len(s) /\ \A i \in 1 .. Len(s) : s[i] \in S
  BY <1>1
<1>3. ToSet(s) = S
  BY <1>1, <1>2 DEF ToSet
<1> QED BY <1>1, <1>2, <1>3 DEF s

(* Two lists of the same nodes that agree on the links of the nodes start  *)
(* with the same one.                                                      *)
LEMMA HeadFixed ==
  ASSUME NEW l, NEW m, NEW h, NEW S, h \notin S, Ring(l, h, S), Ring(m, h, S),
         \A c \in S : m.next[c] = l.next[c] /\ m.prev[c] = l.prev[c]
  PROVE  m.next[h] = l.next[h]
<1>1. m.next[h] \in S \cup {h} /\ m.prev[m.next[h]] = h /\ l.next[h] \in S \cup {h}
  BY DEF Ring
<1>2. CASE m.next[h] = h
  <2>1. S = {}
    BY <1>2, RingEnd
  <2> QED BY <1>1, <1>2, <2>1
<1>3. CASE m.next[h] \in S
  <2>1. l.prev[m.next[h]] = h
    BY <1>1, <1>3
  <2> QED BY <1>3, <2>1 DEF Ring
<1> QED BY <1>1, <1>2, <1>3

(* The heads and the nodes of the main structure. *)
LEMMA Heads ==
  /\ MainHead \in Cells \ Orig /\ ReHead \in Cells \ Orig /\ Work \in Cells \ Orig
  /\ OldHead \in Cells \ Orig /\ Orig \subseteq Cells
BY Layout DEF MainHead

(* What is left to visit from the i-th unknown write on.                   *)
LEMMA OnwardsIs ==
  ASSUME NEW l, NEW h, NEW S, Arranged(l, h, S)
  PROVE  LET um == Order(l, h)
         IN  /\ \A i \in 1 .. Len(um) : Onwards(um, um[i]) = SubSeq(um, i, Len(um))
             /\ \A e : e \notin S => Onwards(um, e) = <<>>
<1> DEFINE um == Order(l, h)
<1>1. \A j, k \in 1 .. Len(um) : um[j] = um[k] => j = k
  BY DEF Arranged, Threads
<1>2. DOMAIN um = 1 .. Len(um) /\ ToSet(um) = S
  BY ArrangedRange
<1> HIDE DEF um
<1>3. ASSUME NEW i \in 1 .. Len(um) PROVE Onwards(um, um[i]) = SubSeq(um, i, Len(um))
  <2>1. (CHOOSE j \in DOMAIN um : um[j] = um[i]) = i
    BY <1>1, <1>2
  <2>2. um[i] \in ToSet(um)
    BY <1>2 DEF ToSet
  <2> QED BY <2>1, <2>2 DEF Onwards
<1>4. \A e : e \notin S => Onwards(um, e) = <<>>
  BY <1>2 DEF Onwards
<1> QED BY <1>3, <1>4 DEF um

-----------------------------------------------------------------------------
(* The propagation on the main structure. *)
LEMMA Propagating ==
  ASSUME QInv, pc = "propagate", ~ Testing
  PROVE  /\ Here = Orig /\ work_head = Work /\ MainHead = ReHead
         /\ list \in Links(Cells) /\ umemlist \in Links(Cells) /\ worklist \in Links(Cells)
         /\ Ring(umemlist, ReHead, listed \cap Orig) /\ Ring(worklist, Work, queued \cap Orig)
         /\ listed \subseteq Orig /\ queued \subseteq Orig /\ live \subseteq Orig
         /\ Control' = Control => ~ Testing' /\ MainHead' = ReHead /\ Standing' /\ pc' = "propagate"
         /\ Unvisited = <<>>
         /\ Control' = Control => Unvisited' = <<>>
<1>1. IInv
  BY DEF QInv
<1>2. re.rec_count = 0
  BY <1>1 DEF Testing, IInv, TypeOK
<1>3. Here = Orig /\ work_head = Work /\ MainHead = ReHead
  BY <1>2 DEF Here, work_head, MainHead
<1>4. /\ list \in Links(Cells) /\ umemlist \in Links(Cells) /\ worklist \in Links(Cells)
      /\ listed \subseteq Orig /\ queued \subseteq Orig /\ live \subseteq Orig
  BY <1>1 DEF IInv, TypeOK, NothingLeft
<1>5. Ring(umemlist, ReHead, listed \cap Orig) /\ Ring(worklist, Work, queued \cap Orig)
  BY <1>1, <1>3 DEF IInv, WellLinked
<1>6. Control' = Control => ~ Testing' /\ MainHead' = ReHead /\ Standing' /\ pc' = "propagate"
  BY DEF Control, Testing, MainHead, Standing
<1>7. Unvisited = <<>>
  BY DEF Unvisited
<1>8. Control' = Control => Unvisited' = <<>>
  BY <1>6 DEF Unvisited
<1> QED BY <1>1, <1>3, <1>4, <1>5, <1>6, <1>7, <1>8

(* add_new_node puts a node first on the main list.                        *)
LEMMA CreateStep ==
  ASSUME QInv, NEW c \in Orig, add_new_node(c)
  PROVE  QInv' /\ Query!Create(c) /\ Unvisited = <<>> /\ Unvisited' = <<>>
<1>1. pc = "propagate" /\ ~ Testing /\ Control' = Control
  BY DEF add_new_node, Testing, Control, walk
<1>2. /\ list \in Links(Cells) /\ live \subseteq Orig /\ listed \subseteq Orig /\ queued \subseteq Orig
      /\ MainHead = ReHead /\ MainHead' = ReHead /\ Standing' /\ Unvisited = <<>> /\ Unvisited' = <<>>
  BY <1>1, Propagating
<1>3. IInv'
  BY AddNodeIInv DEF QInv
<1>4. Arranged(list, ReHead, live \cap Orig)
  BY <1>2 DEF QInv
<1>5. /\ c \notin live /\ list' = list_add(list, c, ReHead) /\ live' = live \cup {c}
      /\ UNCHANGED <<umemlist, worklist, listed, queued, known>>
  BY DEF add_new_node
<1>6. Threads(list', ReHead, live' \cap Orig, <<c>> \o Order(list, ReHead))
  <2>1. live \cap Orig \in SUBSET Cells /\ ReHead \in Cells /\ ReHead \notin live \cap Orig
        /\ c \in Cells /\ c \notin (live \cap Orig) \cup {ReHead}
    BY <1>5, Heads
  <2>2. Threads(list_add(list, c, ReHead), ReHead, (live \cap Orig) \cup {c}, <<c>> \o Order(list, ReHead))
    BY <1>2, <1>4, <2>1, ThreadsAdd DEF Arranged
  <2>3. (live \cap Orig) \cup {c} = live' \cap Orig
    BY <1>5
  <2> QED BY <1>5, <2>2, <2>3
<1>7. Order(list', ReHead) = <<c>> \o Order(list, ReHead) /\ Arranged(list', ReHead, live' \cap Orig)
  <2>1. list' \in Links(Cells) /\ live' \cap Orig \in SUBSET Orig
    BY <1>3 DEF IInv, TypeOK
  <2> QED BY <1>6, <2>1, Heads, OrderIs
<1>8. ToSet(Order(list, ReHead)) = live \cap Orig
  BY <1>4, ArrangedRange
<1>9. QInv'
  BY <1>2, <1>3, <1>5, <1>7 DEF QInv
<1>10. Query!Create(c)
  <2>1. ToSet(Order(list, MainHead)) = live \cap Orig
    BY <1>2, <1>8
  <2>2. c \notin Query!ToSet(Order(list, MainHead))
    BY <1>5, <2>1 DEF Query!ToSet, ToSet
  <2>3. Order(list, MainHead)' = <<c>> \o Order(list, MainHead)
    BY <1>2, <1>7
  <2>4. UNCHANGED <<Order(umemlist, MainHead), Order(worklist, Work), [n \in Orig |-> known[n]]>>
    BY <1>2, <1>5
  <2> QED BY <2>2, <2>3, <2>4 DEF Query!Create
<1> QED BY <1>2, <1>9, <1>10

(* add_to_umemlist puts an unknown write first.                            *)
LEMMA EnlistStep ==
  ASSUME QInv, ~ Testing, NEW c \in Here \cap live, add_to_umemlist(c)
  PROVE  QInv' /\ (\E n \in ToSet(Core) : Query!Enlist(n)) /\ Unvisited = <<>> /\ Unvisited' = <<>>
<1>1. pc = "propagate" /\ Control' = Control
  BY DEF add_to_umemlist
<1>2. /\ umemlist \in Links(Cells) /\ live \subseteq Orig /\ Here = Orig
      /\ MainHead = ReHead /\ MainHead' = ReHead /\ Standing' /\ Unvisited = <<>> /\ Unvisited' = <<>>
  BY <1>1, Propagating
<1>3. IInv'
  BY AddUnknownIInv DEF QInv
<1>4. Arranged(umemlist, ReHead, listed \cap Orig) /\ Arranged(list, ReHead, live \cap Orig)
  BY <1>2 DEF QInv
<1>5. /\ "address" \notin known[c] /\ c \notin listed /\ c \in Orig
      /\ umemlist' = list_add(umemlist, c, ReHead) /\ listed' = listed \cup {c}
      /\ UNCHANGED <<list, worklist, live, queued, known>>
  BY <1>2 DEF add_to_umemlist
<1>6. Threads(umemlist', ReHead, listed' \cap Orig, <<c>> \o Order(umemlist, ReHead))
  <2>1. listed \cap Orig \in SUBSET Cells /\ ReHead \in Cells /\ ReHead \notin listed \cap Orig
        /\ c \in Cells /\ c \notin (listed \cap Orig) \cup {ReHead}
    BY <1>5, Heads
  <2>2. Threads(list_add(umemlist, c, ReHead), ReHead, (listed \cap Orig) \cup {c}, <<c>> \o Order(umemlist, ReHead))
    BY <1>2, <1>4, <2>1, ThreadsAdd DEF Arranged
  <2>3. (listed \cap Orig) \cup {c} = listed' \cap Orig
    BY <1>5
  <2> QED BY <1>5, <2>2, <2>3
<1>7. Order(umemlist', ReHead) = <<c>> \o Order(umemlist, ReHead)
      /\ Arranged(umemlist', ReHead, listed' \cap Orig)
  <2>1. umemlist' \in Links(Cells) /\ listed' \cap Orig \in SUBSET Orig
    BY <1>3 DEF IInv, TypeOK
  <2> QED BY <1>6, <2>1, Heads, OrderIs
<1>8. QInv'
  BY <1>2, <1>3, <1>5, <1>7 DEF QInv
<1>9. ToSet(Order(umemlist, ReHead)) = listed \cap Orig /\ c \in ToSet(Core)
  BY <1>2, <1>4, <1>5, ArrangedRange DEF Core
<1>10. Query!Enlist(c)
  <2>1. "address" \notin [n \in Orig |-> known[n]][c]
    BY <1>5
  <2>2. c \notin Query!ToSet(Order(umemlist, MainHead))
    BY <1>2, <1>5, <1>9 DEF Query!ToSet, ToSet
  <2>3. Order(umemlist, MainHead)' = <<c>> \o Order(umemlist, MainHead)
    BY <1>2, <1>7
  <2>4. UNCHANGED <<Order(list, MainHead), Order(worklist, Work), [n \in Orig |-> known[n]]>>
    BY <1>2, <1>5
  <2> QED BY <2>1, <2>2, <2>3, <2>4 DEF Query!Enlist
<1> QED BY <1>2, <1>8, <1>9, <1>10

(* assign_address takes the write off the list of the unknown ones, if it  *)
(* is there, and leaves the others in their order.                         *)
LEMMA AddressStep ==
  ASSUME QInv, ~ Testing, NEW c \in Here \cap live, assign_address(c)
  PROVE  QInv' /\ (\E n \in ToSet(Core) : Query!LearnAddress(n)) /\ Unvisited = <<>> /\ Unvisited' = <<>>
<1>1. pc = "propagate" /\ Control' = Control
  BY DEF assign_address
<1>2. /\ umemlist \in Links(Cells) /\ live \subseteq Orig /\ Here = Orig
      /\ MainHead = ReHead /\ MainHead' = ReHead /\ Standing' /\ Unvisited = <<>> /\ Unvisited' = <<>>
      /\ Ring(umemlist, ReHead, listed \cap Orig)
  BY <1>1, Propagating
<1>3. IInv' /\ known \in [Cells -> SUBSET Fact]
  BY AddressIInv DEF QInv, IInv, TypeOK
<1>4. Arranged(umemlist, ReHead, listed \cap Orig) /\ Arranged(list, ReHead, live \cap Orig)
  BY <1>2 DEF QInv
<1>5. /\ "address" \notin known[c] /\ c \in Orig /\ c \in Cells
      /\ umemlist' = (IF c \in listed THEN list_del(umemlist, c) ELSE umemlist) /\ listed' = listed \ {c}
      /\ known' = [known EXCEPT ![c] = @ \cup {"address"}]
      /\ UNCHANGED <<list, worklist, live, queued>>
  BY <1>2, Heads DEF assign_address, remove_from_umemlist
<1> DEFINE um == Order(umemlist, ReHead)
<1>6. ToSet(um) = listed \cap Orig /\ DOMAIN um = 1 .. Len(um) /\ c \in ToSet(Core)
  BY <1>2, <1>4, <1>5, ArrangedRange DEF Core
<1>7. umemlist' \in Links(Cells) /\ listed' \cap Orig \in SUBSET Orig
  BY <1>3 DEF IInv, TypeOK
<1>8. /\ Arranged(umemlist', ReHead, listed' \cap Orig)
      /\ \/ c \notin ToSet(um) /\ Order(umemlist', ReHead) = um
         \/ \E i \in DOMAIN um : um[i] = c /\ Order(umemlist', ReHead) = RemoveAt(um, i)
  <2>1. CASE c \notin listed
    <3>1. umemlist' = umemlist /\ listed' \cap Orig = listed \cap Orig
      BY <1>5, <2>1
    <3> QED BY <1>4, <1>6, <2>1, <3>1
  <2>2. CASE c \in listed
    <3>1. PICK i \in 1 .. Len(um) : um[i] = c
      BY <1>4, <1>5, <2>2 DEF Arranged, Threads
    <3>2. listed \cap Orig \in SUBSET Cells /\ ReHead \in Cells /\ ReHead \notin listed \cap Orig
      BY Heads
    <3>3. Threads(list_del(umemlist, um[i]), ReHead, (listed \cap Orig) \ {um[i]}, RemoveAt(um, i))
      BY <1>2, <1>4, <3>2, ThreadsDel DEF Arranged
    <3>4. (listed \cap Orig) \ {c} = listed' \cap Orig /\ umemlist' = list_del(umemlist, c)
      BY <1>5, <2>2
    <3>5. Threads(umemlist', ReHead, listed' \cap Orig, RemoveAt(um, i))
      BY <3>1, <3>3, <3>4
    <3>6. Order(umemlist', ReHead) = RemoveAt(um, i) /\ Arranged(umemlist', ReHead, listed' \cap Orig)
      BY <1>7, <3>5, Heads, OrderIs
    <3> QED BY <1>6, <3>1, <3>6
  <2> QED BY <2>1, <2>2
<1> HIDE DEF um
<1>9. QInv'
  BY <1>2, <1>3, <1>5, <1>8 DEF QInv
<1>10. Query!LearnAddress(c)
  <2>1. "address" \notin [n \in Orig |-> known[n]][c]
    BY <1>5
  <2>2. [n \in Orig |-> known[n]]' =
          [[n \in Orig |-> known[n]] EXCEPT ![c] = [n \in Orig |-> known[n]][c] \cup {"address"}]
    BY <1>3, <1>5, Heads
  <2>3. Order(umemlist, MainHead) = um /\ Order(umemlist, MainHead)' = Order(umemlist', ReHead)
    BY <1>2 DEF um
  <2>4. \/ c \notin Query!ToSet(Order(umemlist, MainHead)) /\ UNCHANGED Order(umemlist, MainHead)
        \/ \E i \in DOMAIN Order(umemlist, MainHead) :
             /\ Order(umemlist, MainHead)[i] = c
             /\ Order(umemlist, MainHead)' = Query!RemoveAt(Order(umemlist, MainHead), i)
    BY <1>8, <2>3 DEF Query!ToSet, ToSet, Query!RemoveAt, RemoveAt
  <2>5. UNCHANGED <<Order(list, MainHead), Order(worklist, Work)>>
    BY <1>2, <1>5
  <2> QED BY <2>1, <2>2, <2>4, <2>5 DEF Query!LearnAddress
<1> QED BY <1>2, <1>6, <1>9, <1>10

(* assign_value puts the node first on the work list, if it is not there.  *)
LEMMA ValueStep ==
  ASSUME QInv, ~ Testing, NEW c \in Here \cap live, assign_value(c)
  PROVE  QInv' /\ (\E n \in ToSet(Core) : Query!LearnValue(n)) /\ Unvisited = <<>> /\ Unvisited' = <<>>
<1>1. pc = "propagate" /\ Control' = Control
  BY DEF assign_value
<1>2. /\ worklist \in Links(Cells) /\ live \subseteq Orig /\ Here = Orig /\ work_head = Work
      /\ MainHead = ReHead /\ MainHead' = ReHead /\ Standing' /\ Unvisited = <<>> /\ Unvisited' = <<>>
  BY <1>1, Propagating
<1>3. IInv' /\ known \in [Cells -> SUBSET Fact]
  BY ValueIInv DEF QInv, IInv, TypeOK
<1>4. Arranged(worklist, Work, queued \cap Orig) /\ Arranged(list, ReHead, live \cap Orig)
  BY <1>2 DEF QInv
<1>5. /\ "value" \notin known[c] /\ c \in Orig /\ c \in Cells
      /\ worklist' = (IF c \in queued THEN worklist ELSE list_add(worklist, c, Work))
      /\ queued' = queued \cup {c} /\ known' = [known EXCEPT ![c] = @ \cup {"value"}]
      /\ UNCHANGED <<list, umemlist, live, listed>>
  BY <1>2, Heads DEF assign_value
<1> DEFINE wl == Order(worklist, Work)
<1>6. ToSet(wl) = queued \cap Orig /\ c \in ToSet(Core)
  BY <1>2, <1>4, <1>5, ArrangedRange DEF Core
<1>7. worklist' \in Links(Cells) /\ queued' \cap Orig \in SUBSET Orig
  BY <1>3 DEF IInv, TypeOK
<1>8. /\ Arranged(worklist', Work, queued' \cap Orig)
      /\ Order(worklist', Work) = IF c \in ToSet(wl) THEN wl ELSE <<c>> \o wl
  <2>1. CASE c \in queued
    <3>1. worklist' = worklist /\ queued' \cap Orig = queued \cap Orig
      BY <1>5, <2>1
    <3> QED BY <1>4, <1>5, <1>6, <2>1, <3>1
  <2>2. CASE c \notin queued
    <3>1. queued \cap Orig \in SUBSET Cells /\ Work \in Cells /\ Work \notin queued \cap Orig
          /\ c \notin (queued \cap Orig) \cup {Work}
      BY <1>5, <2>2, Heads
    <3>2. Threads(list_add(worklist, c, Work), Work, (queued \cap Orig) \cup {c}, <<c>> \o wl)
      BY <1>2, <1>4, <1>5, <3>1, ThreadsAdd DEF Arranged
    <3>3. (queued \cap Orig) \cup {c} = queued' \cap Orig /\ worklist' = list_add(worklist, c, Work)
      BY <1>5, <2>2
    <3>4. Threads(worklist', Work, queued' \cap Orig, <<c>> \o wl)
      BY <3>2, <3>3
    <3>5. Order(worklist', Work) = <<c>> \o wl /\ Arranged(worklist', Work, queued' \cap Orig)
      BY <1>7, <3>4, Heads, OrderIs
    <3> QED BY <1>6, <2>2, <3>5
  <2> QED BY <2>1, <2>2
<1> HIDE DEF wl
<1>9. QInv'
  BY <1>2, <1>3, <1>5, <1>8 DEF QInv
<1>10. Query!LearnValue(c)
  <2>1. "value" \notin [n \in Orig |-> known[n]][c]
    BY <1>5
  <2>2. [n \in Orig |-> known[n]]' =
          [[n \in Orig |-> known[n]] EXCEPT ![c] = [n \in Orig |-> known[n]][c] \cup {"value"}]
    BY <1>3, <1>5, Heads
  <2>3. Order(worklist, Work)' = IF c \in Query!ToSet(Order(worklist, Work)) THEN Order(worklist, Work)
                                 ELSE <<c>> \o Order(worklist, Work)
    BY <1>8 DEF wl, Query!ToSet, ToSet
  <2>4. UNCHANGED <<Order(list, MainHead), Order(umemlist, MainHead)>>
    BY <1>2, <1>5
  <2> QED BY <2>1, <2>2, <2>3, <2>4 DEF Query!LearnValue
<1> QED BY <1>2, <1>6, <1>9, <1>10

(* The last entry of the work list is done with.                           *)
LEMMA DoneStep ==
  ASSUME QInv, ~ Testing, resolve_entry
  PROVE  QInv' /\ Query!Done /\ Unvisited = <<>> /\ Unvisited' = <<>>
<1>1. pc = "propagate" /\ Control' = Control
  BY DEF resolve_entry
<1>2. /\ worklist \in Links(Cells) /\ work_head = Work /\ Ring(worklist, Work, queued \cap Orig)
      /\ MainHead = ReHead /\ MainHead' = ReHead /\ Standing' /\ Unvisited = <<>> /\ Unvisited' = <<>>
      /\ queued \subseteq Orig
  BY <1>1, Propagating
<1>3. IInv'
  BY EntryIInv DEF QInv
<1>4. Arranged(worklist, Work, queued \cap Orig)
  BY DEF QInv
<1> DEFINE wl == Order(worklist, Work)
           c == worklist.prev[Work]
<1>5. /\ worklist.next[Work] # Work /\ worklist' = list_del(worklist, c) /\ queued' = queued \ {c}
      /\ UNCHANGED <<list, umemlist, live, listed, known>>
  BY <1>2 DEF resolve_entry, list_empty
<1>6. wl \in Seq(queued \cap Orig) /\ Len(wl) \in Nat
  BY <1>4, ArrangedRange
<1>7. Len(wl) \in 1 .. Len(wl) /\ wl[Len(wl)] = c
  <2>1. worklist.next[Work] = After(Work, wl, 0)
        /\ \A i \in 1 .. Len(wl) : worklist.next[wl[i]] = After(Work, wl, i)
    BY <1>4 DEF Arranged, Threads
  <2> HIDE DEF wl
  <2>2. 0 < Len(wl)
    BY <1>5, <1>6, <2>1 DEF After
  <2>3. wl[Len(wl)] \in queued \cap Orig /\ worklist.next[wl[Len(wl)]] = Work
    BY <1>6, <2>1, <2>2 DEF After
  <2>4. worklist.prev[worklist.next[wl[Len(wl)]]] = wl[Len(wl)]
    BY <1>2, <2>3 DEF Ring
  <2> QED BY <1>6, <2>2, <2>3, <2>4
<1>8. worklist' \in Links(Cells) /\ queued' \cap Orig \in SUBSET Orig
  BY <1>3 DEF IInv, TypeOK
<1>9. RemoveAt(wl, Len(wl)) = Front(wl)
  <2> HIDE DEF wl
  <2>1. SubSeq(wl, 1, Len(wl) - 1) \in Seq(queued \cap Orig)
    BY <1>6
  <2>2. SubSeq(wl, Len(wl) + 1, Len(wl)) = <<>>
    BY <1>6, SubSeqEmpty
  <2> QED BY <2>1, <2>2, ConcatEmptySeq DEF RemoveAt, Front
<1>10. Order(worklist', Work) = Front(wl) /\ Arranged(worklist', Work, queued' \cap Orig)
  <2>1. queued \cap Orig \in SUBSET Cells /\ Work \in Cells /\ Work \notin queued \cap Orig
    BY Heads
  <2>2. Threads(list_del(worklist, wl[Len(wl)]), Work, (queued \cap Orig) \ {wl[Len(wl)]}, RemoveAt(wl, Len(wl)))
    BY <1>2, <1>4, <1>7, <2>1, ThreadsDel DEF Arranged
  <2>3. (queued \cap Orig) \ {c} = queued' \cap Orig
    BY <1>5
  <2>4. Threads(worklist', Work, queued' \cap Orig, Front(wl))
    BY <1>5, <1>7, <1>9, <2>2, <2>3
  <2> QED BY <1>8, <2>4, Heads, OrderIs
<1> HIDE DEF wl
<1>11. QInv'
  BY <1>2, <1>3, <1>5, <1>10 DEF QInv
<1>12. Query!Done
  <2>1. wl # <<>>
    BY <1>7
  <2>2. Order(worklist, Work) # <<>> /\ Order(worklist, Work)' = Query!Front(Order(worklist, Work))
    BY <1>10, <2>1 DEF wl, Query!Front, Front
  <2>3. UNCHANGED <<Order(list, MainHead), Order(umemlist, MainHead), [n \in Orig |-> known[n]]>>
    BY <1>2, <1>5
  <2> QED BY <2>2, <2>3 DEF Query!Done
<1> QED BY <1>2, <1>11, <1>12

-----------------------------------------------------------------------------
(* The walk over the unknown writes.                                       *)

(* Nothing but control and the cursors changes.                            *)
LEMMA WalkFrame ==
  ASSUME QInv, UNCHANGED <<links, members, known>>, MainHead' = MainHead
  PROVE  /\ UNCHANGED Query!state /\ Unknowns' = Unknowns
         /\ Arranged(list', MainHead', live' \cap Orig)
         /\ Arranged(umemlist', MainHead', listed' \cap Orig)
         /\ Arranged(worklist', Work, queued' \cap Orig)
<1>1. UNCHANGED <<list, umemlist, worklist, live, listed, queued, known>>
  BY DEF links, members
<1>2. UNCHANGED <<Order(list, MainHead), Order(umemlist, MainHead), Order(worklist, Work),
                  [n \in Orig |-> known[n]]>>
  BY <1>1
<1>3. UNCHANGED Query!state
  BY <1>2 DEF Query!state
<1> QED BY <1>1, <1>2, <1>3 DEF QInv, Unknowns

(* What the walk knows of the list of unknown writes when no test runs.    *)
LEMMA WalkedList ==
  ASSUME QInv, ~ Testing
  PROVE  /\ MainHead = ReHead /\ Arranged(umemlist, ReHead, listed \cap Orig)
         /\ Unknowns \in Seq(listed \cap Orig) /\ Len(Unknowns) \in Nat
         /\ umemlist.next[ReHead] = After(ReHead, Unknowns, 0)
         /\ \A i \in 1 .. Len(Unknowns) :
              /\ umemlist.next[Unknowns[i]] = After(ReHead, Unknowns, i)
              /\ Unknowns[i] # ReHead
              /\ Onwards(Unknowns, Unknowns[i]) = SubSeq(Unknowns, i, Len(Unknowns))
         /\ Onwards(Unknowns, ReHead) = <<>>
<1>1. MainHead = ReHead /\ Arranged(umemlist, ReHead, listed \cap Orig) /\ Unknowns = Order(umemlist, ReHead)
  BY DEF QInv, MainHead, Unknowns
<1>2. ReHead \notin listed \cap Orig
  BY Heads
<1>3. Unknowns \in Seq(listed \cap Orig) /\ Len(Unknowns) \in Nat
  BY <1>1, ArrangedRange
<1>4. umemlist.next[ReHead] = After(ReHead, Unknowns, 0)
      /\ \A i \in 1 .. Len(Unknowns) : umemlist.next[Unknowns[i]] = After(ReHead, Unknowns, i)
  BY <1>1 DEF Arranged, Threads
<1>5. /\ \A i \in 1 .. Len(Unknowns) : Onwards(Unknowns, Unknowns[i]) = SubSeq(Unknowns, i, Len(Unknowns))
      /\ Onwards(Unknowns, ReHead) = <<>>
  BY <1>1, <1>2, OnwardsIs
<1>6. \A i \in 1 .. Len(Unknowns) : Unknowns[i] # ReHead
  BY <1>2, <1>3
<1> QED BY <1>1, <1>3, <1>4, <1>5, <1>6

(* A question starts with all unknown writes before it.                    *)
LEMMA AskStep ==
  ASSUME QInv, StartWalk
  PROVE  QInv' /\ Query!Ask
<1>1. IInv /\ IInv'
  BY WalkIInv DEF QInv
<1>2. ~ Testing /\ ~ Testing' /\ MainHead = ReHead /\ MainHead' = ReHead /\ pc = "propagate" /\ pc' = "walk"
      /\ UNCHANGED <<links, members, known>>
      /\ entry' = umemlist.next[ReHead] /\ temp' = umemlist.next[umemlist.next[ReHead]]
  BY <1>1 DEF StartWalk, Testing, MainHead, IInv, TypeOK, REC_LIMIT
<1>3. /\ UNCHANGED Query!state /\ Unknowns' = Unknowns
      /\ Arranged(list', MainHead', live' \cap Orig)
      /\ Arranged(umemlist', MainHead', listed' \cap Orig)
      /\ Arranged(worklist', Work, queued' \cap Orig)
  BY <1>2, WalkFrame
<1> DEFINE um == Unknowns
<1>4. /\ um \in Seq(listed \cap Orig) /\ Len(um) \in Nat
      /\ umemlist.next[ReHead] = After(ReHead, um, 0)
      /\ \A i \in 1 .. Len(um) : /\ umemlist.next[um[i]] = After(ReHead, um, i)
                                 /\ Onwards(um, um[i]) = SubSeq(um, i, Len(um))
      /\ Onwards(um, ReHead) = <<>>
  BY <1>2, WalkedList
<1>5. Unvisited = <<>> /\ Unvisited' = Onwards(um', entry')
  BY <1>2 DEF Unvisited, Unknowns
<1> HIDE DEF um
<1>6. CASE Len(um) = 0
  <2>1. entry' = ReHead /\ um = <<>>
    BY <1>2, <1>4, <1>6 DEF After
  <2>2. Standing'
    BY <2>1 DEF Standing
  <2>3. Unvisited' = um
    BY <1>3, <1>4, <1>5, <2>1 DEF um
  <2> QED BY <1>1, <1>3, <1>5, <2>2, <2>3 DEF QInv, Query!Ask, Unknowns, um
<1>7. CASE Len(um) # 0
  <2>1. 1 \in 1 .. Len(um) /\ entry' = um[1] /\ temp' = After(ReHead, um, 1)
    BY <1>2, <1>4, <1>7 DEF After
  <2>2. Standing'
    BY <1>3, <2>1 DEF Standing, um
  <2>3. Unvisited' = um
    BY <1>3, <1>4, <1>5, <2>1, SubSeqFull DEF um
  <2> QED BY <1>1, <1>3, <1>5, <2>2, <2>3 DEF QInv, Query!Ask, Unknowns, um
<1> QED BY <1>6, <1>7

(* Going on from the i-th unknown write.                                   *)
LEMMA Advanced ==
  ASSUME NEW um, NEW S, um \in Seq(S), ReHead \notin S, NEW i \in 1 .. Len(um),
         \A j \in 1 .. Len(um) : Onwards(um, um[j]) = SubSeq(um, j, Len(um)),
         Onwards(um, ReHead) = <<>>
  PROVE  LET e == After(ReHead, um, i)
         IN  /\ SubSeq(um, i, Len(um)) # <<>>
             /\ Onwards(um, e) = Tail(SubSeq(um, i, Len(um)))
             /\ e = ReHead \/ (i + 1 \in 1 .. Len(um) /\ um[i + 1] = e)
<1>1. Len(um) \in Nat
  OBVIOUS
<1>2. Tail(SubSeq(um, i, Len(um))) = SubSeq(um, i + 1, Len(um))
  BY <1>1, HeadTailOfSubSeq
<1>3. SubSeq(um, i, Len(um)) # <<>>
  <2> DEFINE t == SubSeq(um, i, Len(um))
  <2>1. Len(t) = Len(um) - i + 1
    BY <1>1
  <2>2. Len(t) # 0
    BY <1>1, <2>1
  <2> HIDE DEF t
  <2>3. t # <<>>
    BY <2>2
  <2> QED BY <2>3 DEF t
<1>4. CASE i < Len(um)
  <2>1. i + 1 \in 1 .. Len(um) /\ After(ReHead, um, i) = um[i + 1]
    BY <1>1, <1>4 DEF After
  <2> QED BY <1>2, <1>3, <2>1
<1>5. CASE ~ (i < Len(um))
  <2>1. After(ReHead, um, i) = ReHead /\ SubSeq(um, i + 1, Len(um)) = <<>>
    BY <1>1, <1>5, SubSeqEmpty DEF After
  <2> QED BY <1>2, <1>3, <2>1
<1> QED BY <1>4, <1>5

(* An entry that needs no test is visited.                                 *)
LEMMA SkipStep ==
  ASSUME QInv, SkipEntry
  PROVE  QInv' /\ Query!Visit
<1>1. IInv /\ IInv'
  BY WalkIInv DEF QInv
<1>2. pc = "walk" /\ pc' = "walk" /\ UNCHANGED <<links, members, known, re>>
      /\ entry # ReHead /\ entry' = temp /\ temp' = umemlist.next[temp]
  BY DEF SkipEntry, advance
<1>3. ~ Testing /\ ~ Testing' /\ MainHead = ReHead /\ MainHead' = ReHead
  BY <1>1, <1>2 DEF Testing, MainHead, IInv, Levels, OnCopy
<1>4. /\ UNCHANGED Query!state /\ Unknowns' = Unknowns
      /\ Arranged(list', MainHead', live' \cap Orig)
      /\ Arranged(umemlist', MainHead', listed' \cap Orig)
      /\ Arranged(worklist', Work, queued' \cap Orig)
  BY <1>2, <1>3, WalkFrame
<1> DEFINE um == Unknowns
<1>5. /\ um \in Seq(listed \cap Orig) /\ Len(um) \in Nat /\ ReHead \notin listed \cap Orig
      /\ \A i \in 1 .. Len(um) : umemlist.next[um[i]] = After(ReHead, um, i)
      /\ \A i \in 1 .. Len(um) : Onwards(um, um[i]) = SubSeq(um, i, Len(um))
      /\ Onwards(um, ReHead) = <<>>
  BY <1>3, WalkedList, Heads
<1>6. Unvisited = Onwards(um, entry) /\ Unvisited' = Onwards(um', entry')
  BY <1>2 DEF Unvisited, Unknowns
<1>7. PICK i \in 1 .. Len(um) : um[i] = entry /\ temp = After(ReHead, um, i)
  BY <1>2 DEF QInv, Standing
<1> HIDE DEF um
<1>8. /\ SubSeq(um, i, Len(um)) # <<>> /\ Onwards(um, temp) = Tail(SubSeq(um, i, Len(um)))
      /\ temp = ReHead \/ (i + 1 \in 1 .. Len(um) /\ um[i + 1] = temp)
  BY <1>5, <1>7, Advanced
<1>9. Standing'
  <2>1. CASE temp = ReHead
    BY <1>2, <2>1 DEF Standing
  <2>2. CASE i + 1 \in 1 .. Len(um) /\ um[i + 1] = temp
    <3>1. um[i + 1] = entry' /\ temp' = After(ReHead, um, i + 1)
      BY <1>2, <1>5, <2>2
    <3> QED BY <1>4, <2>2, <3>1 DEF Standing, um
  <2> QED BY <1>8, <2>1, <2>2
<1>10. Unvisited # <<>> /\ Unvisited' = Tail(Unvisited)
  <2>1. Unvisited = SubSeq(um, i, Len(um))
    BY <1>5, <1>6, <1>7
  <2>2. Unvisited' = Onwards(um, temp)
    BY <1>2, <1>4, <1>6 DEF um
  <2> QED BY <1>8, <2>1, <2>2
<1> QED BY <1>1, <1>4, <1>9, <1>10 DEF QInv, Query!Visit

(* The walk is over.                                                       *)
LEMMA StopStep ==
  ASSUME QInv, StopWalk
  PROVE  QInv' /\ Query!Stop
<1>1. IInv /\ IInv'
  BY WalkIInv DEF QInv
<1>2. pc = "walk" /\ pc' = "propagate" /\ UNCHANGED <<links, members, known, re>>
  BY DEF StopWalk
<1>3. ~ Testing /\ ~ Testing' /\ MainHead = ReHead /\ MainHead' = ReHead
  BY <1>1, <1>2 DEF Testing, MainHead, IInv, Levels, OnCopy
<1>4. /\ UNCHANGED Query!state
      /\ Arranged(list', MainHead', live' \cap Orig)
      /\ Arranged(umemlist', MainHead', listed' \cap Orig)
      /\ Arranged(worklist', Work, queued' \cap Orig)
  BY <1>2, <1>3, WalkFrame
<1>5. Standing' /\ Unvisited' = <<>>
  BY <1>2, <1>3 DEF Standing, Unvisited
<1> QED BY <1>1, <1>4, <1>5 DEF QInv, Query!Stop

-----------------------------------------------------------------------------
(* A test changes which head leads the lists, and nothing else. *)

(* save_re_ds moves both lists to the head on the stack.                   *)
LEMMA StartStep ==
  ASSUME QInv, StartTest
  PROVE  QInv' /\ UNCHANGED Query!vars
<1>1. IInv /\ IInv'
  BY StartIInv DEF QInv
<1>2. /\ pc = "walk" /\ entry # ReHead /\ pc' = "fork_corelist"
      /\ list' = INIT_LIST_HEAD(save_re_ds(list), ReHead) /\ umemlist' = save_re_ds(umemlist)
      /\ UNCHANGED <<worklist, live, listed, queued, known, entry, temp>>
  BY DEF StartTest, members, walk
<1>3. ~ Testing /\ Testing' /\ MainHead = ReHead /\ MainHead' = OldHead
  BY <1>1, <1>2 DEF Testing, MainHead, IInv, Levels, OnCopy
<1>4. /\ list \in Links(Cells) /\ list' \in Links(Cells)
      /\ umemlist \in Links(Cells) /\ umemlist' \in Links(Cells)
      /\ listed \subseteq live
  BY <1>1 DEF IInv, TypeOK
<1>5. Ring(list, ReHead, live \cap Orig) /\ Ring(umemlist, ReHead, listed \cap Orig)
  BY <1>1, <1>3 DEF IInv, WellLinked
<1>6. entry \in listed \cap Orig
  <2>1. listed \subseteq Orig
    BY <1>1, <1>3, <1>4 DEF IInv, NothingLeft
  <2> QED BY <1>1, <1>2, <2>1 DEF IInv, Cursors
<1>7. /\ live \cap Orig \in SUBSET Orig /\ live \cap Orig \in SUBSET Cells /\ live \cap Orig # {}
      /\ listed \cap Orig \in SUBSET Orig /\ listed \cap Orig \in SUBSET Cells /\ listed \cap Orig # {}
      /\ ReHead \in Cells /\ OldHead \in Cells /\ ReHead \notin Orig /\ OldHead \notin Orig \cup {ReHead}
  BY <1>4, <1>6, Heads, Layout
<1>8. Order(umemlist', OldHead) = Unknowns /\ Arranged(umemlist', OldHead, listed \cap Orig)
  <2>1. Threads(umemlist, ReHead, listed \cap Orig, Unknowns)
    BY <1>3 DEF QInv, Arranged, Unknowns
  <2>2. Threads(umemlist', OldHead, listed \cap Orig, Unknowns)
    BY <1>2, <1>4, <1>5, <1>7, <2>1, ThreadsMove DEF save_re_ds
  <2> QED BY <1>4, <1>7, <2>2, OrderIs
<1>9. Order(list', OldHead) = Core /\ Arranged(list', OldHead, live \cap Orig)
  <2>1. Threads(list, ReHead, live \cap Orig, Core)
    BY <1>3 DEF QInv, Arranged, Core
  <2> DEFINE l == save_re_ds(list)
  <2>2. Threads(l, OldHead, live \cap Orig, Core)
    BY <1>4, <1>5, <1>7, <2>1, ThreadsMove DEF save_re_ds
  <2>3. l \in Links(Cells)
    BY <1>4, <1>5, <1>7, RingMove DEF save_re_ds
  <2> HIDE DEF l
  <2>4. \A c \in (live \cap Orig) \cup {OldHead} : list'.next[c] = l.next[c]
    BY <1>2, <1>7, <2>3 DEF l, INIT_LIST_HEAD, Links
  <2>5. Threads(list', OldHead, live \cap Orig, Core)
    BY <2>2, <2>4, ThreadsFrame
  <2> QED BY <1>4, <1>7, <2>5, OrderIs
<1>10. Unknowns' = Unknowns
  BY <1>3, <1>8 DEF Unknowns
<1>11. Standing'
  BY <1>2, <1>10 DEF QInv, Standing
<1>12. QInv'
  BY <1>1, <1>2, <1>3, <1>8, <1>9, <1>11 DEF QInv
<1>13. UNCHANGED Query!vars
  <2>1. Unvisited' = Unvisited
    BY <1>2, <1>3, <1>10 DEF Unvisited, Unknowns
  <2>2. UNCHANGED <<Order(list, MainHead), Order(umemlist, MainHead), Order(worklist, Work),
                    [n \in Orig |-> known[n]]>>
    BY <1>2, <1>3, <1>8, <1>9 DEF Core, Unknowns
  <2> QED BY <2>1, <2>2 DEF Query!vars
<1> QED BY <1>12, <1>13

(* While a test runs no node of the main structure joins or leaves a list. *)
LEMMA MembersStay ==
  ASSUME IInv, Next, Testing, Testing'
  PROVE  /\ live' \cap Orig = live \cap Orig /\ listed' \cap Orig = listed \cap Orig
         /\ queued' \cap Orig = queued \cap Orig
         /\ UNCHANGED walk /\ MainHead = OldHead /\ MainHead' = OldHead
<1> USE DEF IInv
<1>1. MainHead = OldHead /\ MainHead' = OldHead
  BY DEF MainHead
<1>2. Orig \cap Copies = {} /\ (\A c \in Orig : copy_of(c) \in Copies)
      /\ OldHead \notin Orig /\ TestWork \notin Orig
  BY Layout
<1>3. CASE \E c \in Here \cap live : add_to_umemlist(c) \/ assign_address(c) \/ assign_value(c)
  <2>1. PICK c \in Here \cap live : add_to_umemlist(c) \/ assign_address(c) \/ assign_value(c)
    BY <1>3
  <2>2. c \in Copies
    <3>1. pc = "propagate"
      BY <2>1 DEF add_to_umemlist, assign_address, assign_value
    <3> QED BY <3>1, Structure
  <2>3. c \notin Orig
    BY <1>2, <2>2
  <2> QED BY <1>1, <2>1, <2>3 DEF add_to_umemlist, assign_address, assign_value, remove_from_umemlist, Control, walk
<1>4. CASE resolve_entry
  <2>1. /\ work_head = TestWork /\ Ring(worklist, TestWork, queued \cap Copies)
        /\ queued' = queued \ {worklist.prev[TestWork]}
    <3>1. pc = "propagate"
      BY <1>4 DEF resolve_entry
    <3>2. Here = Copies /\ work_head = TestWork /\ Ring(worklist, work_head, queued \cap Here)
      BY <3>1, Structure
    <3> QED BY <1>4, <3>2 DEF resolve_entry
  <2>2. worklist.prev[TestWork] \in (queued \cap Copies) \cup {TestWork}
    BY <2>1 DEF Ring
  <2> QED BY <1>1, <1>2, <1>4, <2>1, <2>2 DEF resolve_entry, Control, walk
<1>5. CASE fork_corelist
  <2>1. cur \in Orig
    BY <1>5 DEF fork_corelist, Loops, Forking
  <2> QED BY <1>1, <1>2, <1>5, <2>1 DEF fork_corelist
<1>6. CASE CorelistForked
  BY <1>1, <1>6 DEF CorelistForked, members
<1>7. CASE fork_umemlist
  <2>1. cur \in Orig
    BY <1>7 DEF fork_umemlist, Loops, Forking
  <2> QED BY <1>1, <1>2, <1>7, <2>1 DEF fork_umemlist
<1>8. CASE RunTest
  <2>1. entry \in Orig
    BY DEF Cursors
  <2> QED BY <1>1, <1>2, <1>8, <2>1 DEF RunTest, remove_from_umemlist
<1>9. CASE NoConflict \/ Conflict
  BY <1>1, <1>9 DEF NoConflict, Conflict, end_test, members
<1>10. CASE delete_corelist
  <2>1. Ring(list, ReHead, live \cap Copies) /\ cur = list.next[ReHead] /\ cur # ReHead
    BY <1>10 DEF delete_corelist, WellLinked, Loops
  <2>2. cur \in Copies
    BY <2>1 DEF Ring
  <2> QED BY <1>1, <1>2, <1>10, <2>2 DEF delete_corelist
<1>11. ~ (\E c \in Orig : add_new_node(c)) /\ ~ StartWalk /\ ~ SkipEntry /\ ~ StopWalk /\ ~ StartTest /\ ~ EndTest
  BY DEF add_new_node, StartWalk, SkipEntry, StopWalk, StartTest, EndTest, Testing, Levels, OnCopy, REC_LIMIT
<1> QED BY <1>3, <1>4, <1>5, <1>6, <1>7, <1>8, <1>9, <1>10, <1>11 DEF Next, Propagate

(* Whatever a test does, the lists of the main structure stay as they are. *)
LEMMA TestStep ==
  ASSUME QInv, Next, Testing, Testing'
  PROVE  QInv' /\ UNCHANGED Query!vars
<1>1. IInv /\ IInv' /\ Untouched
  BY NextIInv, TestingUntouched DEF QInv
<1>2. /\ live' \cap Orig = live \cap Orig /\ listed' \cap Orig = listed \cap Orig
      /\ queued' \cap Orig = queued \cap Orig
      /\ UNCHANGED walk /\ MainHead = OldHead /\ MainHead' = OldHead
  BY <1>1, MembersStay
<1>3. /\ list \in Links(Cells) /\ umemlist \in Links(Cells) /\ worklist \in Links(Cells)
      /\ list' \in Links(Cells) /\ umemlist' \in Links(Cells) /\ worklist' \in Links(Cells)
  BY <1>1 DEF IInv, TypeOK
<1>4. /\ Ring(list, OldHead, live \cap Orig) /\ Ring(list', OldHead, live \cap Orig)
      /\ Ring(umemlist, OldHead, listed \cap Orig) /\ Ring(umemlist', OldHead, listed \cap Orig)
      /\ Ring(worklist, Work, queued \cap Orig) /\ Ring(worklist', Work, queued \cap Orig)
  BY <1>1, <1>2 DEF IInv, WellLinked
<1>5. /\ \A c \in live \cap Orig : list'.next[c] = list.next[c] /\ list'.prev[c] = list.prev[c]
      /\ \A c \in listed \cap Orig : umemlist'.next[c] = umemlist.next[c] /\ umemlist'.prev[c] = umemlist.prev[c]
      /\ \A c \in queued \cap Orig : worklist'.next[c] = worklist.next[c] /\ worklist'.prev[c] = worklist.prev[c]
  BY <1>1 DEF Untouched
<1>6. /\ Arranged(list, OldHead, live \cap Orig) /\ Arranged(umemlist, OldHead, listed \cap Orig)
      /\ Arranged(worklist, Work, queued \cap Orig)
  BY <1>2 DEF QInv
<1>7. /\ live \cap Orig \in SUBSET Orig /\ listed \cap Orig \in SUBSET Orig /\ queued \cap Orig \in SUBSET Orig
      /\ OldHead \in Cells \ Orig /\ Work \in Cells \ Orig
  BY Heads
<1>8. Order(list', OldHead) = Order(list, OldHead) /\ Arranged(list', OldHead, live \cap Orig)
  <2>1. list'.next[OldHead] = list.next[OldHead]
    BY <1>4, <1>5, <1>7, HeadFixed
  <2> QED BY <1>3, <1>5, <1>6, <1>7, <2>1, ArrangedFrame
<1>9. Order(umemlist', OldHead) = Order(umemlist, OldHead) /\ Arranged(umemlist', OldHead, listed \cap Orig)
  <2>1. umemlist'.next[OldHead] = umemlist.next[OldHead]
    BY <1>4, <1>5, <1>7, HeadFixed
  <2> QED BY <1>3, <1>5, <1>6, <1>7, <2>1, ArrangedFrame
<1>10. Order(worklist', Work) = Order(worklist, Work) /\ Arranged(worklist', Work, queued \cap Orig)
  <2>1. worklist'.next[Work] = worklist.next[Work]
    BY <1>4, <1>5, <1>7, HeadFixed
  <2> QED BY <1>3, <1>5, <1>6, <1>7, <2>1, ArrangedFrame
<1>11. Unknowns' = Unknowns /\ entry' = entry /\ temp' = temp
  BY <1>2, <1>9 DEF Unknowns, walk
<1>12. Standing'
  BY <1>11 DEF QInv, Standing
<1>13. QInv'
  BY <1>1, <1>2, <1>8, <1>9, <1>10, <1>12 DEF QInv
<1>14. UNCHANGED Query!vars
  <2>1. Unvisited' = Unvisited
    BY <1>11 DEF Unvisited, Unknowns
  <2>2. UNCHANGED [n \in Orig |-> known[n]]
    BY <1>1 DEF Untouched
  <2>3. UNCHANGED <<Order(list, MainHead), Order(umemlist, MainHead), Order(worklist, Work)>>
    BY <1>2, <1>8, <1>9, <1>10
  <2> QED BY <2>1, <2>2, <2>3 DEF Query!vars
<1> QED BY <1>13, <1>14

(* A list moved back to re_ds, after which the frame on the stack is gone. *)
LEMMA MovedBack ==
  ASSUME NEW l \in Links(Cells), NEW S \in SUBSET Orig, S # {},
         Ring(l, OldHead, S), Arranged(l, OldHead, S),
         NEW m \in Links(Cells), m = discard(restore_re_ds(l), {OldHead})
  PROVE  Order(m, ReHead) = Order(l, OldHead) /\ Arranged(m, ReHead, S)
<1>1. /\ S \in SUBSET Cells /\ ReHead \in Cells /\ OldHead \in Cells
      /\ OldHead \notin S /\ ReHead \notin S \cup {OldHead} /\ ReHead \in Cells \ Orig
  BY Heads, Layout
<1> DEFINE r == restore_re_ds(l)
<1>2. Threads(r, ReHead, S, Order(l, OldHead))
  BY <1>1, ThreadsMove DEF restore_re_ds, Arranged
<1>3. r \in Links(Cells)
  BY <1>1, RingMove DEF restore_re_ds
<1> HIDE DEF r
<1>4. \A c \in S \cup {ReHead} : m.next[c] = r.next[c]
  <2>1. \A c \in S \cup {ReHead} : c \in Cells \ {OldHead}
    BY <1>1
  <2>2. \A c \in Cells \ {OldHead} : discard(r, {OldHead}).next[c] = r.next[c]
    BY <1>3, DiscardFrame
  <2> QED BY <2>1, <2>2 DEF r
<1>5. Threads(m, ReHead, S, Order(l, OldHead))
  BY <1>2, <1>4, ThreadsFrame
<1> QED BY <1>1, <1>5, OrderIs

(* restore_re_ds puts everything back where the walk left it, and the walk *)
(* has visited one unknown write more, or stops.                           *)
LEMMA EndStep ==
  ASSUME QInv, EndTest
  PROVE  QInv' /\ (Query!Visit \/ Query!Stop)
<1>1. IInv /\ IInv'
  BY EndIInv DEF QInv
<1>2. /\ pc = "delete_corelist" /\ re' = oldre /\ pc' = (IF verdict THEN "propagate" ELSE "walk")
      /\ list' = discard(restore_re_ds(list), {OldHead})
      /\ umemlist' = discard(restore_re_ds(umemlist), {OldHead})
      /\ worklist' = discard(worklist, {TestWork})
      /\ ~ verdict => entry' = temp /\ temp' = umemlist'.next[temp]
      /\ UNCHANGED <<live, listed, queued, known>>
  BY DEF EndTest, members, advance
<1>3. Testing /\ ~ Testing' /\ MainHead = OldHead /\ MainHead' = ReHead
  BY <1>1, <1>2 DEF Testing, MainHead, IInv, Levels
<1>4. /\ list \in Links(Cells) /\ list' \in Links(Cells)
      /\ umemlist \in Links(Cells) /\ umemlist' \in Links(Cells)
      /\ worklist \in Links(Cells) /\ worklist' \in Links(Cells) /\ listed \subseteq live
  BY <1>1 DEF IInv, TypeOK
<1>5. Ring(list, OldHead, live \cap Orig) /\ Ring(umemlist, OldHead, listed \cap Orig)
  BY <1>1, <1>3 DEF IInv, WellLinked
<1>6. entry \in listed \cap Orig
  BY <1>1, <1>3 DEF IInv, Cursors
<1>7. /\ live \cap Orig \in SUBSET Orig /\ live \cap Orig # {}
      /\ listed \cap Orig \in SUBSET Orig /\ listed \cap Orig # {} /\ queued \cap Orig \in SUBSET Orig
  BY <1>4, <1>6
<1>8. /\ Arranged(list, OldHead, live \cap Orig) /\ Arranged(umemlist, OldHead, listed \cap Orig)
      /\ Arranged(worklist, Work, queued \cap Orig)
  BY <1>3 DEF QInv
<1>9. Order(list', ReHead) = Core /\ Arranged(list', ReHead, live \cap Orig)
  BY <1>2, <1>3, <1>4, <1>5, <1>7, <1>8, MovedBack DEF Core
<1>10. Order(umemlist', ReHead) = Unknowns /\ Arranged(umemlist', ReHead, listed \cap Orig)
  BY <1>2, <1>3, <1>4, <1>5, <1>7, <1>8, MovedBack DEF Unknowns
<1>11. Order(worklist', Work) = Queue /\ Arranged(worklist', Work, queued \cap Orig)
  <2>1. \A c \in Cells \ {TestWork} : worklist'.next[c] = worklist.next[c]
    BY <1>2, <1>4, DiscardFrame
  <2>2. \A c \in (queued \cap Orig) \cup {Work} : c \in Cells \ {TestWork}
    BY Layout
  <2> QED BY <1>4, <1>7, <1>8, <2>1, <2>2, Heads, ArrangedFrame DEF Queue
<1> DEFINE um == Unknowns
<1>12. um' = um
  BY <1>3, <1>10 DEF Unknowns
<1>13. /\ um \in Seq(listed \cap Orig) /\ ReHead \notin listed \cap Orig
       /\ \A j \in 1 .. Len(um) : Onwards(um, um[j]) = SubSeq(um, j, Len(um))
       /\ Onwards(um, ReHead) = <<>>
  BY <1>3, <1>8, ArrangedRange, OnwardsIs, Heads DEF Unknowns
<1>14. UNCHANGED Query!state
  <2>1. UNCHANGED <<Order(list, MainHead), Order(umemlist, MainHead), Order(worklist, Work),
                    [n \in Orig |-> known[n]]>>
    BY <1>2, <1>3, <1>9, <1>10, <1>11 DEF Core, Unknowns, Queue
  <2> QED BY <2>1 DEF Query!state
<1>15. Unvisited = Onwards(um, entry) /\ Unvisited' = IF verdict THEN <<>> ELSE Onwards(um', entry')
  BY <1>2, <1>3 DEF Unvisited, Unknowns
<1> HIDE DEF um
<1>16. CASE verdict
  <2>1. Standing'
    BY <1>2, <1>3, <1>16 DEF Standing
  <2>2. Query!Stop
    BY <1>14, <1>15, <1>16 DEF Query!Stop
  <2> QED BY <1>1, <1>2, <1>3, <1>9, <1>10, <1>11, <2>1, <2>2 DEF QInv
<1>17. CASE ~ verdict
  <2>1. PICK i \in 1 .. Len(um) : um[i] = entry /\ temp = After(ReHead, um, i)
    BY <1>3, <1>6, <1>13 DEF QInv, Standing, um
  <2>2. /\ SubSeq(um, i, Len(um)) # <<>> /\ Onwards(um, temp) = Tail(SubSeq(um, i, Len(um)))
        /\ temp = ReHead \/ (i + 1 \in 1 .. Len(um) /\ um[i + 1] = temp)
    BY <1>13, <2>1, Advanced
  <2>3. Unvisited # <<>> /\ Unvisited' = Tail(Unvisited)
    BY <1>2, <1>12, <1>13, <1>15, <1>17, <2>1, <2>2
  <2>4. Standing'
    <3>1. CASE temp = ReHead
      BY <1>2, <1>17, <3>1 DEF Standing
    <3>2. CASE i + 1 \in 1 .. Len(um) /\ um[i + 1] = temp
      <4>1. umemlist'.next[um[i + 1]] = After(ReHead, um, i + 1)
        BY <1>10, <3>2 DEF Arranged, Threads, um
      <4>2. um[i + 1] = entry' /\ temp' = After(ReHead, um, i + 1)
        BY <1>2, <1>17, <3>2, <4>1
      <4> QED BY <1>12, <3>2, <4>2 DEF Standing, um
    <3> QED BY <2>2, <3>1, <3>2
  <2>5. Query!Visit
    BY <1>14, <2>3 DEF Query!Visit
  <2> QED BY <1>1, <1>2, <1>3, <1>9, <1>10, <1>11, <2>4, <2>5 DEF QInv
<1> QED BY <1>16, <1>17

-----------------------------------------------------------------------------
(* At the start every list is empty.                                       *)
LEMMA InitQuery == Init => QInv /\ Query!Init
<1> SUFFICES ASSUME Init PROVE QInv /\ Query!Init
  OBVIOUS
<1>1. IInv
  BY InitIInv
<1>2. /\ list = INIT_LIST_HEAD(NoLinks, ReHead) /\ umemlist = list /\ worklist = INIT_LIST_HEAD(NoLinks, Work)
      /\ live = {} /\ listed = {} /\ queued = {} /\ known = [c \in Cells |-> {}]
      /\ pc = "propagate" /\ re.rec_count = 0
  BY DEF Init
<1>3. ~ Testing /\ MainHead = ReHead
  BY <1>2 DEF Testing, MainHead
<1>4. /\ Threads(list, ReHead, {}, <<>>) /\ Threads(umemlist, ReHead, {}, <<>>)
      /\ Threads(worklist, Work, {}, <<>>)
  <2>1. NoLinks \in Links(Cells)
    BY DEF NoLinks, Links
  <2> QED BY <1>2, <2>1, Heads, ThreadsEmpty
<1>5. /\ Order(list, ReHead) = <<>> /\ Arranged(list, ReHead, {})
      /\ Order(umemlist, ReHead) = <<>> /\ Arranged(umemlist, ReHead, {})
      /\ Order(worklist, Work) = <<>> /\ Arranged(worklist, Work, {})
  <2>1. list \in Links(Cells) /\ umemlist \in Links(Cells) /\ worklist \in Links(Cells)
    BY <1>1 DEF IInv, TypeOK
  <2> QED BY <1>4, <2>1, Heads, OrderIs
<1>6. Standing
  BY <1>2, <1>3 DEF Standing
<1>7. QInv
  BY <1>1, <1>2, <1>3, <1>5, <1>6 DEF QInv
<1>8. Unvisited = <<>>
  BY <1>2, <1>3 DEF Unvisited
<1>9. [n \in Orig |-> known[n]] = [n \in Orig |-> {}]
  BY <1>2, Heads
<1> QED BY <1>3, <1>5, <1>7, <1>8, <1>9 DEF Query!Init

(* Every step of the program is one of the abstract propagation, or of a   *)
(* question, or is not seen.                                               *)
LEMMA NextQuery == QInv /\ [Next]_vars => QInv' /\ [Query!Next]_(Query!vars)
<1> SUFFICES ASSUME QInv, [Next]_vars PROVE QInv' /\ [Query!Next]_(Query!vars)
  OBVIOUS
<1>1. CASE Next /\ Testing /\ Testing'
  BY <1>1, TestStep
<1>2. CASE ~ Testing /\ Propagate
  <2>1. CASE \E c \in Orig : add_new_node(c)
    BY <2>1, CreateStep DEF Query!Next, Query!Propagate
  <2>2. CASE \E c \in Here \cap live : add_to_umemlist(c)
    <3>1. QInv' /\ (\E n \in ToSet(Core) : Query!Enlist(n)) /\ Unvisited = <<>> /\ Unvisited' = <<>>
      BY <1>2, <2>2, EnlistStep
    <3> QED BY <3>1 DEF Query!Next, Query!Propagate, Core, ToSet, Query!ToSet
  <2>3. CASE \E c \in Here \cap live : assign_address(c)
    <3>1. QInv' /\ (\E n \in ToSet(Core) : Query!LearnAddress(n)) /\ Unvisited = <<>> /\ Unvisited' = <<>>
      BY <1>2, <2>3, AddressStep
    <3> QED BY <3>1 DEF Query!Next, Query!Propagate, Core, ToSet, Query!ToSet
  <2>4. CASE \E c \in Here \cap live : assign_value(c)
    <3>1. QInv' /\ (\E n \in ToSet(Core) : Query!LearnValue(n)) /\ Unvisited = <<>> /\ Unvisited' = <<>>
      BY <1>2, <2>4, ValueStep
    <3> QED BY <3>1 DEF Query!Next, Query!Propagate, Core, ToSet, Query!ToSet
  <2>5. CASE resolve_entry
    <3>1. QInv' /\ Query!Done /\ Unvisited = <<>> /\ Unvisited' = <<>>
      BY <1>2, <2>5, DoneStep
    <3> QED BY <3>1 DEF Query!Next, Query!Propagate
  <2> QED BY <1>2, <2>1, <2>2, <2>3, <2>4, <2>5 DEF Propagate
<1>3. CASE StartWalk
  BY <1>3, AskStep DEF Query!Next
<1>4. CASE SkipEntry
  BY <1>4, SkipStep DEF Query!Next
<1>5. CASE StopWalk
  BY <1>5, StopStep DEF Query!Next
<1>6. CASE StartTest
  BY <1>6, StartStep
<1>7. CASE EndTest
  BY <1>7, EndStep DEF Query!Next
<1>8. CASE UNCHANGED vars
  <2>1. IInv'
    BY <1>8, NextIInv DEF QInv
  <2>2. UNCHANGED <<list, umemlist, worklist, live, listed, queued, known, re, pc, entry, temp>>
    BY <1>8 DEF vars, links, members, walk
  <2>3. MainHead' = MainHead /\ Testing' = Testing
    BY <2>2 DEF MainHead, Testing
  <2>4. Unknowns' = Unknowns /\ Unvisited' = Unvisited
    BY <2>2, <2>3 DEF Unknowns, Unvisited
  <2>5. QInv'
    BY <2>1, <2>2, <2>3, <2>4 DEF QInv, Standing
  <2>6. UNCHANGED Query!vars
    BY <2>2, <2>3, <2>4 DEF Query!vars
  <2> QED BY <2>5, <2>6
<1>9. Next => \/ ~ Testing /\ Propagate
              \/ StartWalk \/ SkipEntry \/ StopWalk \/ StartTest \/ EndTest
              \/ Next /\ Testing /\ Testing'
  <2> SUFFICES ASSUME Next, ~ Propagate \/ Testing, ~ StartWalk, ~ SkipEntry, ~ StopWalk,
                      ~ StartTest, ~ EndTest
               PROVE  Testing /\ Testing'
    OBVIOUS
  <2>1. CASE Propagate
    <3>1. UNCHANGED <<pc, re>>
      BY <2>1 DEF Propagate, add_new_node, add_to_umemlist, assign_address, assign_value,
                  resolve_entry, Control
    <3> QED BY <2>1, <3>1 DEF Testing
  <2>2. CASE fork_corelist \/ CorelistForked \/ fork_umemlist \/ delete_corelist
    BY <2>2 DEF fork_corelist, CorelistForked, fork_umemlist, delete_corelist, Testing
  <2>3. CASE RunTest
    <3>1. re'.rec_count = 1
      BY <2>3 DEF RunTest, QInv, IInv, Levels, OnCopy
    <3> QED BY <2>3, <3>1 DEF RunTest, Testing
  <2>4. CASE NoConflict \/ Conflict
    BY <2>4 DEF NoConflict, Conflict, end_test, Testing
  <2> QED BY <2>1, <2>2, <2>3, <2>4 DEF Next
<1> QED BY <1>1, <1>2, <1>3, <1>4, <1>5, <1>6, <1>7, <1>8, <1>9

(* To the propagation an alias question is atomic, whatever tests it runs  *)
(* and however they end, for any number of nodes.                          *)
THEOREM QueryAtomic == Spec => ImplementsAtomicQuery
<1>1. Init => QInv /\ Query!Init
  BY InitQuery
<1>2. QInv /\ [Next]_vars => QInv' /\ [Query!Next]_(Query!vars)
  BY NextQuery
<1> QED BY <1>1, <1>2, PTL DEF Spec, ImplementsAtomicQuery, Query!Spec
=============================================================================
