--------------------------- MODULE IntrusiveList ---------------------------
(***************************************************************************)
(* list.h: circular doubly linked lists threaded through the nodes.  A     *)
(* family of link fields is a record l of two functions on cells, l.next   *)
(* and l.prev; cells are natural numbers, and a list head is a cell too.   *)
(* A cell that is on no list keeps what its fields last held.              *)
(***************************************************************************)
EXTENDS Integers, Sequences

LIST_POISON == -1

INIT_LIST_HEAD(l, h) ==
  [next |-> [l.next EXCEPT ![h] = h], prev |-> [l.prev EXCEPT ![h] = h]]

list_empty(l, h) == l.next[h] = h

insert_between(l, new, p, n) ==
  [next |-> [l.next EXCEPT ![new] = n, ![p] = new],
   prev |-> [l.prev EXCEPT ![n] = new, ![new] = p]]

list_add(l, new, h) == insert_between(l, new, h, l.next[h])

list_del(l, c) ==
  [next |-> [l.next EXCEPT ![l.prev[c]] = l.next[c], ![c] = LIST_POISON],
   prev |-> [l.prev EXCEPT ![l.next[c]] = l.prev[c], ![c] = LIST_POISON]]

(* memcpy over cell b of the structure that holds cell a. *)
copy_links(l, a, b) ==
  [next |-> [l.next EXCEPT ![b] = l.next[a]],
   prev |-> [l.prev EXCEPT ![b] = l.prev[a]]]

(* The cells of S are freed, or their stack frame left: they hold nothing  *)
(* that may be read.                                                       *)
discard(l, S) ==
  [next |-> [c \in DOMAIN l.next |-> IF c \in S THEN LIST_POISON ELSE l.next[c]],
   prev |-> [c \in DOMAIN l.prev |-> IF c \in S THEN LIST_POISON ELSE l.prev[c]]]

(* Its second statement reads what the first one wrote. *)
REPLACE_HEAD(l, old, new) ==
  LET p == [l.prev EXCEPT ![l.next[old]] = new]
  IN  [next |-> [l.next EXCEPT ![p[old]] = new], prev |-> p]

-----------------------------------------------------------------------------
Links(C) == [next : [C -> C \cup {LIST_POISON}], prev : [C -> C \cup {LIST_POISON}]]

(* The nodes of S are what is on the list of head h: links stay inside,    *)
(* next and prev undo each other, and going along next from the head no    *)
(* node is left out.                                                       *)
Ring(l, h, S) ==
  /\ \A c \in S \cup {h} :
       /\ l.next[c] \in S \cup {h} /\ l.prev[l.next[c]] = c
       /\ l.prev[c] \in S \cup {h} /\ l.next[l.prev[c]] = c
  /\ \A T \in SUBSET S :
       (\A c \in T \cup {h} : l.next[c] \in T \cup {h}) => T = S

(* What a loop along next meets before it is back at the head, in order; a *)
(* loop that is not back after max steps is cut off, and a wild pointer    *)
(* leads nowhere.                                                          *)
Walk(l, h, max) ==
  LET follow == [c \in DOMAIN l.next \cup {LIST_POISON} |->
                   IF c = LIST_POISON THEN c ELSE l.next[c]]
      at[k \in 0 .. max] == IF k = 0 THEN h ELSE follow[at[k - 1]]
      back == {k \in 1 .. max : at[k] = h}
      end == IF back = {} THEN max ELSE (CHOOSE k \in back : \A j \in back : k <= j) - 1
  IN  [k \in 1 .. end |-> at[k]]
============================================================================
