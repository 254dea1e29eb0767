------------------------ MODULE IntrusiveList_proofs ------------------------
(***************************************************************************)
(* The operations of list.h keep lists well formed, and touch no cell that *)
(* is not on the list they work on.                                        *)
(***************************************************************************)
EXTENDS IntrusiveList, SequencesExt, SequenceTheorems, FiniteSetTheorems,
        WellFoundedInduction, TLAPS

(* A set of nodes that the walk from the head does not leave is the list. *)
LEMMA RingWhole ==
  ASSUME NEW l, NEW h, NEW S, Ring(l, h, S), NEW T, T \subseteq S,
         \A c \in T \cup {h} : l.next[c] \in T \cup {h}
  PROVE  T = S
<1>1. T \in SUBSET S
  OBVIOUS
<1> QED BY <1>1 DEF Ring

(* Only the links of its own cells matter to a list. *)
LEMMA RingFrame ==
  ASSUME NEW l, NEW m, NEW h, NEW S, Ring(l, h, S),
         \A c \in S \cup {h} : m.next[c] = l.next[c] /\ m.prev[c] = l.prev[c]
  PROVE  Ring(m, h, S)
<1>1. ASSUME NEW c \in S \cup {h}
      PROVE  /\ m.next[c] \in S \cup {h} /\ m.prev[m.next[c]] = c
             /\ m.prev[c] \in S \cup {h} /\ m.next[m.prev[c]] = c
  BY <1>1 DEF Ring
<1>2. ASSUME NEW T \in SUBSET S, \A c \in T \cup {h} : m.next[c] \in T \cup {h}
      PROVE  T = S
  <2>1. \A c \in T \cup {h} : l.next[c] \in T \cup {h}
    BY <1>2
  <2> QED BY <2>1, RingWhole
<1> QED BY <1>1, <1>2 DEF Ring

(* INIT_LIST_HEAD makes an empty list.                                     *)
LEMMA RingEmpty ==
  ASSUME NEW C, NEW l \in Links(C), NEW h \in C
  PROVE  /\ Ring(INIT_LIST_HEAD(l, h), h, {})
         /\ INIT_LIST_HEAD(l, h) \in Links(C)
BY DEF Ring, INIT_LIST_HEAD, Links

(* A copied node takes links over and changes nobody else's.               *)
LEMMA CopyFrame ==
  ASSUME NEW C, NEW l \in Links(C), NEW a \in C, NEW b \in C
  PROVE  /\ copy_links(l, a, b) \in Links(C)
         /\ \A c \in C \ {b} : /\ copy_links(l, a, b).next[c] = l.next[c]
                              /\ copy_links(l, a, b).prev[c] = l.prev[c]
BY DEF copy_links, Links

(* Freeing nodes leaves the links of all others as they are.               *)
LEMMA DiscardFrame ==
  ASSUME NEW C, NEW l \in Links(C), NEW S
  PROVE  /\ discard(l, S) \in Links(C)
         /\ \A c \in C \ S : discard(l, S).next[c] = l.next[c] /\ discard(l, S).prev[c] = l.prev[c]
BY DEF discard, Links

(* A list whose head points to itself has no node. *)
LEMMA RingEnd ==
  ASSUME NEW l, NEW h, NEW S, Ring(l, h, S), l.next[h] = h
  PROVE  S = {}
<1> DEFINE U == {}
<1>1. U \subseteq S /\ \A c \in U \cup {h} : l.next[c] \in U \cup {h}
  OBVIOUS
<1>2. U = S
  <2> HIDE DEF U
  <2> QED BY <1>1, RingWhole
<1> QED BY <1>2

(* list_add puts a node that was on no list at the head, and writes only   *)
(* to cells of that list.                                                  *)
LEMMA RingAdd ==
  ASSUME NEW C, NEW l \in Links(C), NEW h \in C, NEW S \in SUBSET C,
         NEW new \in C, new \notin S \cup {h}, Ring(l, h, S)
  PROVE  /\ Ring(list_add(l, new, h), h, S \cup {new})
         /\ list_add(l, new, h) \in Links(C)
         /\ \A c \in C \ (S \cup {h, new}) :
              /\ list_add(l, new, h).next[c] = l.next[c]
              /\ list_add(l, new, h).prev[c] = l.prev[c]
<1> DEFINE m == list_add(l, new, h)
           n == l.next[h]
<1>1. n \in S \cup {h} /\ n # new /\ l.prev[n] = h
  BY DEF Ring
<1>2. m \in Links(C)
  BY <1>1 DEF list_add, insert_between, Links
<1>3. /\ \A c \in C : m.next[c] = IF c = h THEN new ELSE IF c = new THEN n ELSE l.next[c]
      /\ \A c \in C : m.prev[c] = IF c = new THEN h ELSE IF c = n THEN new ELSE l.prev[c]
  BY <1>1 DEF list_add, insert_between, Links
<1> HIDE DEF m
<1>4. ASSUME NEW c \in S \cup {new} \cup {h}
      PROVE  /\ m.next[c] \in S \cup {new} \cup {h} /\ m.prev[m.next[c]] = c
             /\ m.prev[c] \in S \cup {new} \cup {h} /\ m.next[m.prev[c]] = c
  BY <1>1, <1>3 DEF Ring
<1>5. ASSUME NEW T \in SUBSET (S \cup {new}),
             \A c \in T \cup {h} : m.next[c] \in T \cup {h}
      PROVE  T = S \cup {new}
  <2> DEFINE U == T \ {new}
  <2>1. new \in T /\ n \in U \cup {h}
    BY <1>1, <1>3, <1>5
  <2>2. U \subseteq S /\ \A c \in U \cup {h} : l.next[c] \in U \cup {h}
    BY <1>1, <1>3, <1>5, <2>1 DEF Ring
  <2>3. U = S
    <3> HIDE DEF U
    <3> QED BY <2>2, RingWhole
  <2> QED BY <2>1, <2>3
<1>6. Ring(m, h, S \cup {new})
  BY <1>4, <1>5 DEF Ring
<1> QED BY <1>1, <1>2, <1>3, <1>6 DEF m

(* list_del takes a member off, and writes only to cells of that list.     *)
LEMMA RingDel ==
  ASSUME NEW C, NEW l \in Links(C), NEW h \in C, NEW S \in SUBSET C,
         NEW d \in S, h \notin S, Ring(l, h, S)
  PROVE  /\ Ring(list_del(l, d), h, S \ {d})
         /\ list_del(l, d) \in Links(C)
         /\ \A c \in C \ (S \cup {h}) :
              /\ list_del(l, d).next[c] = l.next[c]
              /\ list_del(l, d).prev[c] = l.prev[c]
<1> DEFINE m == list_del(l, d)
           n == l.next[d]
           p == l.prev[d]
<1>1. /\ n \in S \cup {h} /\ l.prev[n] = d
      /\ p \in S \cup {h} /\ l.next[p] = d
  BY DEF Ring
<1>2. n # d /\ p # d
  <2>1. ASSUME n = d PROVE FALSE
    <3> DEFINE U == S \ {d}
    <3>1. U \subseteq S /\ \A c \in U \cup {h} : l.next[c] \in U \cup {h}
      BY <2>1 DEF Ring
    <3>2. U = S
      <4> HIDE DEF U
      <4> QED BY <3>1, RingWhole
    <3> QED BY <3>2
  <2> QED BY <1>1, <2>1
<1>3. m \in Links(C)
  BY <1>1 DEF list_del, Links
<1>4. /\ \A c \in C : m.next[c] = IF c = d THEN LIST_POISON ELSE IF c = p THEN n ELSE l.next[c]
      /\ \A c \in C : m.prev[c] = IF c = d THEN LIST_POISON ELSE IF c = n THEN p ELSE l.prev[c]
  BY <1>1 DEF list_del, Links
<1> HIDE DEF m
<1>5. ASSUME NEW c \in (S \ {d}) \cup {h}
      PROVE  /\ m.next[c] \in (S \ {d}) \cup {h} /\ m.prev[m.next[c]] = c
             /\ m.prev[c] \in (S \ {d}) \cup {h} /\ m.next[m.prev[c]] = c
  BY <1>1, <1>2, <1>4 DEF Ring
<1>6. ASSUME NEW T \in SUBSET (S \ {d}),
             \A c \in T \cup {h} : m.next[c] \in T \cup {h}
      PROVE  T = S \ {d}
  <2>1. CASE p \in T \cup {h}
    <3>1. n \in T \cup {h}
      BY <1>1, <1>2, <1>4, <1>6, <2>1
    <3> DEFINE U == T \cup {d}
    <3>2. U \subseteq S /\ \A c \in U \cup {h} : l.next[c] \in U \cup {h}
      BY <1>1, <1>4, <1>6, <3>1
    <3>3. U = S
      <4> HIDE DEF U
      <4> QED BY <3>2, RingWhole
    <3> QED BY <3>3
  <2>2. CASE p \notin T \cup {h}
    <3>1. \A c \in T \cup {h} : l.next[c] \in T \cup {h}
      BY <1>1, <1>4, <1>6, <2>2
    <3>2. T = S
      BY <3>1, RingWhole
    <3> QED BY <3>2
  <2> QED BY <2>1, <2>2
<1>7. Ring(m, h, S \ {d})
  BY <1>5, <1>6 DEF Ring
<1>8. \A c \in C \ (S \cup {h}) : m.next[c] = l.next[c] /\ m.prev[c] = l.prev[c]
  BY <1>1, <1>4
<1> QED BY <1>3, <1>7, <1>8 DEF m

(* Taking the first node off makes its successor the first. *)
LEMMA RingDelFirst ==
  ASSUME NEW C, NEW l \in Links(C), NEW h \in C, NEW S \in SUBSET C,
         h \notin S, l.next[h] \in S, Ring(l, h, S)
  PROVE  list_del(l, l.next[h]).next[h] = l.next[l.next[h]]
<1>1. l.prev[l.next[h]] = h /\ l.next[h] # h
  BY DEF Ring
<1> QED BY <1>1 DEF list_del, Links

(* A list that is not empty may be moved to another head; an empty one     *)
(* would keep a link to the old one.                                       *)
LEMMA RingMove ==
  ASSUME NEW C, NEW l \in Links(C), NEW h \in C, NEW g \in C, NEW S \in SUBSET C,
         S # {}, h \notin S, g \notin S \cup {h}, Ring(l, h, S)
  PROVE  LET m == REPLACE_HEAD(copy_links(l, h, g), h, g)
         IN  /\ Ring(m, g, S)
             /\ m \in Links(C)
             /\ \A c \in C \ (S \cup {g}) : m.next[c] = l.next[c] /\ m.prev[c] = l.prev[c]
<1> DEFINE m == REPLACE_HEAD(copy_links(l, h, g), h, g)
           n == l.next[h]
           p == l.prev[h]
<1>1. /\ n \in S /\ p \in S /\ l.prev[n] = h /\ l.next[p] = h
  <2>1. /\ n \in S \cup {h} /\ l.prev[n] = h
        /\ p \in S \cup {h} /\ l.next[p] = h
    BY DEF Ring
  <2>2. n # h
    BY RingEnd
  <2> QED BY <2>1, <2>2
<1>2. m \in Links(C)
  BY <1>1 DEF REPLACE_HEAD, copy_links, Links
<1>3. /\ \A c \in C : m.next[c] = IF c = p THEN g ELSE IF c = g THEN n ELSE l.next[c]
      /\ \A c \in C : m.prev[c] = IF c = n THEN g ELSE IF c = g THEN p ELSE l.prev[c]
  BY <1>1 DEF REPLACE_HEAD, copy_links, Links
<1> HIDE DEF m
<1>4. ASSUME NEW c \in S \cup {g}
      PROVE  /\ m.next[c] \in S \cup {g} /\ m.prev[m.next[c]] = c
             /\ m.prev[c] \in S \cup {g} /\ m.next[m.prev[c]] = c
  BY <1>1, <1>3 DEF Ring
<1>5. ASSUME NEW T \in SUBSET S, \A c \in T \cup {g} : m.next[c] \in T \cup {g}
      PROVE  T = S
  <2>1. \A c \in T \cup {h} : l.next[c] \in T \cup {h}
    BY <1>1, <1>3, <1>5 DEF Ring
  <2> QED BY <2>1, RingWhole
<1>6. Ring(m, g, S)
  BY <1>4, <1>5 DEF Ring
<1> QED BY <1>1, <1>2, <1>3, <1>6 DEF m

-----------------------------------------------------------------------------
(* Induction: a set of numbers that is closed under successor. *)
LEMMA SetInduction ==
  ASSUME NEW S \in SUBSET Nat, 0 \in S, \A n \in S : n + 1 \in S
  PROVE  S = Nat
<1> SUFFICES ASSUME S # Nat PROVE FALSE
  OBVIOUS
<1> DEFINE T == Nat \ S
<1>1. T \subseteq Nat /\ T # {}
  OBVIOUS
<1>2. PICK m \in T : \A y \in T : ~ (<<y, m>> \in OpToRel(<, Nat))
  BY <1>1, NatLessThanWellFounded, WFMin
<1>3. m - 1 \in Nat /\ m - 1 < m
  BY SMT
<1>4. m - 1 \in T
  BY <1>3
<1>5. <<m - 1, m>> \in OpToRel(<, Nat)
  BY <1>3, <1>1 DEF OpToRel
<1> QED BY <1>2, <1>4, <1>5

(* What a loop meets that follows f from h, max steps long. *)
Iterates(f, h, max, g) == g = [k \in 0 .. max |-> IF k = 0 THEN h ELSE f[g[k - 1]]]

(* There is such a walk, however many steps it has. *)
LEMMA Iterated ==
  ASSUME NEW f, NEW h, NEW max \in Nat
  PROVE  \E g : Iterates(f, h, max, g)
<1> DEFINE P(n) == \E g : g = [k \in 0 .. n |-> IF k = 0 THEN h ELSE f[g[k - 1]]]
           S == {n \in Nat : P(n)}
<1>1. 0 \in S
  <2>1. [k \in 0 .. 0 |-> h] = [k \in 0 .. 0 |-> IF k = 0 THEN h ELSE f[[j \in 0 .. 0 |-> h][k - 1]]]
    OBVIOUS
  <2> QED BY <2>1
<1>2. ASSUME NEW n \in S PROVE n + 1 \in S
  <2>1. PICK g : g = [k \in 0 .. n |-> IF k = 0 THEN h ELSE f[g[k - 1]]]
    OBVIOUS
  <2> DEFINE e == [k \in 0 .. n + 1 |-> IF k = n + 1 THEN f[g[n]] ELSE g[k]]
  <2>2. \A k \in 0 .. n + 1 : e[k] = IF k = 0 THEN h ELSE f[e[k - 1]]
    <3>1. n \in Nat
      OBVIOUS
    <3> TAKE k \in 0 .. n + 1
    <3>2. CASE k = 0
      BY <2>1, <3>1, <3>2
    <3>3. CASE k = n + 1
      BY <2>1, <3>1, <3>3
    <3>4. CASE k \in 1 .. n
      <4>1. k \in 0 .. n /\ k - 1 \in 0 .. n /\ k # 0 /\ k # n + 1 /\ k - 1 # n + 1
        BY <3>1, <3>4
      <4>2. g[k] = f[g[k - 1]]
        BY <2>1, <4>1
      <4> QED BY <4>1, <4>2
    <3> QED BY <3>1, <3>2, <3>3, <3>4
  <2>3. e = [k \in 0 .. n + 1 |-> IF k = 0 THEN h ELSE f[e[k - 1]]]
    <3>1. e = [k \in 0 .. n + 1 |-> e[k]]
      OBVIOUS
    <3> HIDE DEF e
    <3> QED BY <2>2, <3>1
  <2> HIDE DEF e
  <2>4. P(n + 1)
    BY <2>3
  <2> QED BY <2>4
<1>3. S = Nat
  <2> HIDE DEF S
  <2>1. S \in SUBSET Nat
    BY DEF S
  <2> QED BY <1>1, <1>2, <2>1, SetInduction
<1> QED BY <1>3 DEF Iterates

-----------------------------------------------------------------------------
(* The nodes of a list in order, and what next leads to from each. *)
After(h, s, i) == IF i < Len(s) THEN s[i + 1] ELSE h
Threads(l, h, S, s) ==
  /\ s \in Seq(S)
  /\ \A c \in S : \E i \in 1 .. Len(s) : s[i] = c
  /\ \A i, j \in 1 .. Len(s) : s[i] = s[j] => i = j
  /\ l.next[h] = After(h, s, 0)
  /\ \A i \in 1 .. Len(s) : l.next[s[i]] = After(h, s, i)

(* A sequence is one over any set that holds its elements.               *)
LEMMA SeqOfElements ==
  ASSUME NEW S, NEW T, NEW s \in Seq(S), \A i \in 1 .. Len(s) : s[i] \in T
  PROVE  s \in Seq(T)
OBVIOUS

(* Taking an element out closes the gap.                                  *)
LEMMA RemoveAtProperties ==
  ASSUME NEW S, NEW s \in Seq(S), NEW i \in 1 .. Len(s)
  PROVE  LET r == RemoveAt(s, i)
         IN  /\ r \in Seq(S) /\ Len(r) = Len(s) - 1
             /\ \A j \in 1 .. Len(r) : r[j] = IF j < i THEN s[j] ELSE s[j + 1]
<1> DEFINE a == SubSeq(s, 1, i - 1)
           b == SubSeq(s, i + 1, Len(s))
<1>1. a \in Seq(S) /\ Len(a) = i - 1 /\ \A j \in 1 .. i - 1 : a[j] = s[j]
  OBVIOUS
<1>2. b \in Seq(S) /\ Len(b) = Len(s) - i /\ \A j \in 1 .. Len(s) - i : b[j] = s[i + j]
  OBVIOUS
<1>3. RemoveAt(s, i) = a \o b
  BY DEF RemoveAt
<1> HIDE DEF a, b
<1>4. a \o b \in Seq(S) /\ Len(a \o b) = Len(a) + Len(b)
      /\ \A j \in 1 .. Len(a) + Len(b) : (a \o b)[j] = IF j <= Len(a) THEN a[j] ELSE b[j - Len(a)]
  BY <1>1, <1>2, ConcatProperties
<1>5. Len(a) + Len(b) = Len(s) - 1
  BY <1>1, <1>2
<1>6. ASSUME NEW j \in 1 .. Len(s) - 1 PROVE (a \o b)[j] = IF j < i THEN s[j] ELSE s[j + 1]
  <2>1. CASE j < i
    BY <1>1, <1>4, <1>5, <2>1
  <2>2. CASE ~ (j < i)
    <3>1. j - Len(a) = j - i + 1 /\ j - i + 1 \in 1 .. Len(s) - i /\ ~ (j <= Len(a))
      BY <1>1, <2>2
    <3>2. (a \o b)[j] = b[j - i + 1]
      BY <1>4, <1>5, <3>1
    <3>3. b[j - i + 1] = s[i + (j - i + 1)]
      BY <1>2, <3>1
    <3>4. i + (j - i + 1) = j + 1
      OBVIOUS
    <3> QED BY <2>2, <3>2, <3>3, <3>4
  <2> QED BY <2>1, <2>2
<1> QED BY <1>3, <1>4, <1>5, <1>6

(* Only next of its own cells matters to the order of a list.             *)
LEMMA ThreadsFrame ==
  ASSUME NEW l, NEW m, NEW h, NEW S, NEW s, Threads(l, h, S, s),
         \A c \in S \cup {h} : m.next[c] = l.next[c]
  PROVE  Threads(m, h, S, s)
<1>1. \A i \in 1 .. Len(s) : s[i] \in S
  BY DEF Threads
<1> QED BY <1>1 DEF Threads

(* A head that is initialised leads a list without nodes.                 *)
LEMMA ThreadsEmpty ==
  ASSUME NEW C, NEW l \in Links(C), NEW h \in C
  PROVE  Threads(INIT_LIST_HEAD(l, h), h, {}, <<>>)
BY DEF Threads, After, INIT_LIST_HEAD, Links

(* list_add puts a node first.                                            *)
LEMMA ThreadsAdd ==
  ASSUME NEW C, NEW l \in Links(C), NEW h \in C, NEW S \in SUBSET C, h \notin S,
         NEW new \in C, new \notin S \cup {h}, NEW s, Threads(l, h, S, s)
  PROVE  Threads(list_add(l, new, h), h, S \cup {new}, <<new>> \o s)
<1> DEFINE m == list_add(l, new, h)
           t == <<new>> \o s
           T == S \cup {new}
<1>1. s \in Seq(T) /\ <<new>> \in Seq(T) /\ Len(s) \in Nat
  <2>1. s \in Seq(S)
    BY DEF Threads
  <2>2. s \in Seq(T)
    BY <2>1, SeqMonotonic
  <2> QED BY <2>1, <2>2
<1>2. t \in Seq(T) /\ Len(t) = Len(s) + 1 /\ t[1] = new /\ \A i \in 2 .. Len(s) + 1 : t[i] = s[i - 1]
  <2>1. t \in Seq(T) /\ Len(t) = 1 + Len(s) /\ \A i \in 1 .. 1 + Len(s) : t[i] = IF i <= 1 THEN <<new>>[i] ELSE s[i - 1]
    BY <1>1, ConcatProperties
  <2> QED BY <2>1, <1>1
<1>3. m.next[h] = new /\ m.next[new] = l.next[h] /\ \A c \in S : m.next[c] = l.next[c]
  BY DEF list_add, insert_between, Links
<1> HIDE DEF t, m
<1>4. ASSUME NEW c \in T PROVE \E i \in 1 .. Len(t) : t[i] = c
  <2>1. CASE c = new
    BY <1>1, <1>2, <2>1
  <2>2. CASE c \in S
    <3>1. PICK i \in 1 .. Len(s) : s[i] = c
      BY <2>2 DEF Threads
    <3>2. i + 1 \in 2 .. Len(s) + 1 /\ (i + 1) - 1 = i
      BY <1>1
    <3>3. t[i + 1] = c
      BY <1>2, <3>1, <3>2
    <3> QED BY <1>2, <3>2, <3>3
  <2> QED BY <2>1, <2>2
<1>5. \A i \in 1 .. Len(s) : s[i] \in S
  BY DEF Threads
<1>6. ASSUME NEW i \in 1 .. Len(t), NEW j \in 1 .. Len(t), t[i] = t[j] PROVE i = j
  <2>1. \A k \in 2 .. Len(t) : k - 1 \in 1 .. Len(s) /\ t[k] = s[k - 1] /\ t[k] # new
    BY <1>1, <1>2, <1>5
  <2>2. CASE i = 1 \/ j = 1
    BY <1>2, <1>6, <2>1, <2>2
  <2>3. CASE i # 1 /\ j # 1
    <3>1. s[i - 1] = s[j - 1] /\ i - 1 \in 1 .. Len(s) /\ j - 1 \in 1 .. Len(s)
      BY <1>1, <1>2, <1>6, <2>1, <2>3
    <3>2. i - 1 = j - 1
      BY <3>1 DEF Threads
    <3> QED BY <3>2
  <2> QED BY <2>2, <2>3
<1>7. m.next[h] = After(h, t, 0)
  BY <1>1, <1>2, <1>3 DEF After
<1>8. ASSUME NEW i \in 1 .. Len(t) PROVE m.next[t[i]] = After(h, t, i)
  <2>1. CASE i = 1
    <3>1. m.next[t[i]] = After(h, s, 0)
      BY <1>2, <1>3, <2>1 DEF Threads
    <3> QED BY <1>1, <1>2, <2>1, <3>1 DEF After
  <2>2. CASE i # 1
    <3>1. i - 1 \in 1 .. Len(s) /\ t[i] = s[i - 1] /\ s[i - 1] \in S
      BY <1>1, <1>2, <1>5, <2>2
    <3>2. m.next[t[i]] = After(h, s, i - 1)
      <4>1. l.next[s[i - 1]] = After(h, s, i - 1)
        BY <3>1 DEF Threads
      <4> QED BY <1>3, <3>1, <4>1
    <3>3. (i - 1) + 1 = i /\ (i < Len(t) => t[i + 1] = s[i]) /\ (i < Len(t) <=> i - 1 < Len(s))
      BY <1>1, <1>2, <3>1
    <3> QED BY <3>2, <3>3 DEF After
  <2> QED BY <2>1, <2>2
<1>9. Threads(m, h, T, t)
  BY <1>2, <1>4, <1>6, <1>7, <1>8 DEF Threads
<1> QED BY <1>9 DEF m, t

(* list_del takes one node out and leaves the others in their order.      *)
LEMMA ThreadsDel ==
  ASSUME NEW C, NEW l \in Links(C), NEW h \in C, NEW S \in SUBSET C, h \notin S,
         NEW s, Threads(l, h, S, s), Ring(l, h, S), NEW i \in 1 .. Len(s)
  PROVE  Threads(list_del(l, s[i]), h, S \ {s[i]}, RemoveAt(s, i))
<1> DEFINE d == s[i]
           m == list_del(l, d)
           r == RemoveAt(s, i)
           R == S \ {d}
<1>1. s \in Seq(S) /\ d \in S /\ Len(s) \in Nat /\ \A j \in 1 .. Len(s) : s[j] \in S
  BY DEF Threads
<1>2. /\ Len(r) = Len(s) - 1 /\ r \in Seq(S)
      /\ \A j \in 1 .. Len(r) : r[j] = IF j < i THEN s[j] ELSE s[j + 1]
  BY <1>1, RemoveAtProperties
<1>3. l.next[l.prev[d]] = d /\ l.prev[d] \in S \cup {h} /\ l.prev[d] # d
  <2>1. l.next[l.prev[d]] = d /\ l.prev[d] \in S \cup {h}
    BY <1>1 DEF Ring
  <2>2. After(h, s, i) # d
    <3>1. CASE i < Len(s)
      <4>1. s[i + 1] # s[i]
        BY <1>1, <3>1 DEF Threads
      <4> QED BY <3>1, <4>1 DEF After
    <3>2. CASE ~ (i < Len(s))
      BY <1>1, <3>2 DEF After
    <3> QED BY <3>1, <3>2
  <2>3. l.next[d] # d
    BY <2>2 DEF Threads
  <2> QED BY <2>1, <2>3
<1>4. \A c \in (S \cup {h}) \ {d} : m.next[c] = IF l.next[c] = d THEN l.next[d] ELSE l.next[c]
  <2>1. \A c \in S \cup {h} : l.next[c] = d => c = l.prev[d]
    BY DEF Ring
  <2>2. \A c \in (S \cup {h}) \ {d} : m.next[c] = IF c = l.prev[d] THEN l.next[d] ELSE l.next[c]
    BY <1>3 DEF list_del, Links
  <2> QED BY <1>3, <2>1, <2>2
<1>5. l.next[d] = After(h, s, i)
  BY DEF Threads
<1>6. \A j \in 1 .. Len(s) : s[j] = d => j = i
  BY DEF Threads
<1> HIDE DEF m, r, d
<1>7. \A j \in 1 .. Len(r) : r[j] \in R
  <2> TAKE j \in 1 .. Len(r)
  <2>1. j \in 1 .. Len(s) /\ j + 1 \in 1 .. Len(s) /\ (~ (j < i) => j + 1 # i) /\ (j < i => j # i)
    BY <1>1, <1>2
  <2> QED BY <1>1, <1>2, <1>6, <2>1
<1>8. ASSUME NEW c \in R PROVE \E j \in 1 .. Len(r) : r[j] = c
  <2>1. PICK j \in 1 .. Len(s) : s[j] = c
    BY DEF Threads
  <2>2. j # i
    BY <2>1 DEF d
  <2>3. CASE j < i
    <3>1. j \in 1 .. Len(r)
      BY <1>1, <1>2, <2>3
    <3> QED BY <1>2, <2>1, <2>3, <3>1
  <2>4. CASE i < j
    <3>1. j - 1 \in 1 .. Len(r) /\ ~ (j - 1 < i) /\ (j - 1) + 1 = j
      BY <1>1, <1>2, <2>4
    <3>2. r[j - 1] = s[(j - 1) + 1]
      BY <1>2, <3>1
    <3> QED BY <2>1, <3>1, <3>2
  <2> QED BY <2>2, <2>3, <2>4
<1>9. ASSUME NEW j \in 1 .. Len(r), NEW k \in 1 .. Len(r), r[j] = r[k] PROVE j = k
  <2>1. j \in 1 .. Len(s) /\ j + 1 \in 1 .. Len(s) /\ k \in 1 .. Len(s) /\ k + 1 \in 1 .. Len(s)
    BY <1>1, <1>2
  <2>2. (IF j < i THEN s[j] ELSE s[j + 1]) = IF k < i THEN s[k] ELSE s[k + 1]
    BY <1>2, <1>9
  <2>3. (IF j < i THEN j ELSE j + 1) = IF k < i THEN k ELSE k + 1
    BY <2>1, <2>2 DEF Threads
  <2> QED BY <2>1, <2>3
<1>10. \A j \in 1 .. Len(s) : (After(h, s, j) = d <=> j + 1 = i)
       /\ (After(h, s, 0) = d <=> i = 1)
  <2> SUFFICES ASSUME NEW j \in 0 .. Len(s) PROVE After(h, s, j) = d <=> j + 1 = i
    BY <1>1
  <2>1. h # d
    BY <1>1
  <2>2. CASE j < Len(s)
    <3>1. j + 1 \in 1 .. Len(s)
      BY <1>1, <2>2
    <3> QED BY <1>6, <2>2, <3>1 DEF After, d
  <2>3. CASE ~ (j < Len(s))
    BY <1>1, <2>1, <2>3 DEF After
  <2> QED BY <2>2, <2>3
<1>11. m.next[h] = After(h, r, 0)
  <2>1. h # d /\ l.next[h] = After(h, s, 0)
    BY <1>1 DEF Threads
  <2>2. m.next[h] = IF l.next[h] = d THEN l.next[d] ELSE l.next[h]
    BY <1>4, <2>1
  <2>3. CASE i = 1
    <3>1. m.next[h] = After(h, s, 1)
      BY <1>1, <1>5, <1>10, <2>1, <2>2, <2>3
    <3>2. After(h, r, 0) = After(h, s, 1)
      BY <1>1, <1>2, <2>3 DEF After
    <3> QED BY <3>1, <3>2
  <2>4. CASE i # 1
    <3>1. m.next[h] = After(h, s, 0)
      BY <1>1, <1>10, <2>1, <2>2, <2>4
    <3>2. After(h, r, 0) = After(h, s, 0)
      BY <1>1, <1>2, <2>4 DEF After
    <3> QED BY <3>1, <3>2
  <2> QED BY <2>3, <2>4
<1>12. ASSUME NEW j \in 1 .. Len(r) PROVE m.next[r[j]] = After(h, r, j)
  <2>1. r[j] \in (S \cup {h}) \ {d}
    BY <1>7
  <2>2. m.next[r[j]] = IF l.next[r[j]] = d THEN l.next[d] ELSE l.next[r[j]]
    BY <1>4, <2>1
  <2>3. j \in 1 .. Len(s) /\ j + 1 \in 1 .. Len(s)
    BY <1>1, <1>2
  <2>4. CASE j + 1 = i
    <3>1. r[j] = s[j] /\ l.next[r[j]] = d
      <4>1. r[j] = s[j]
        BY <1>2, <2>3, <2>4
      <4>2. l.next[s[j]] = After(h, s, j) /\ After(h, s, j) = d
        BY <1>10, <2>3, <2>4 DEF Threads
      <4> QED BY <4>1, <4>2
    <3>2. m.next[r[j]] = After(h, s, i)
      BY <1>5, <2>2, <3>1
    <3>3. After(h, r, j) = After(h, s, i)
      <4>1. j < Len(r) => r[j + 1] = s[j + 2]
        BY <1>2, <2>3, <2>4
      <4>2. i + 1 = j + 2 /\ (j < Len(r) <=> i < Len(s))
        BY <1>1, <1>2, <2>3, <2>4
      <4> QED BY <4>1, <4>2 DEF After
    <3> QED BY <3>2, <3>3
  <2>5. CASE j + 1 < i
    <3>1. r[j] = s[j] /\ r[j + 1] = s[j + 1] /\ j < Len(r) /\ j < Len(s)
      BY <1>1, <1>2, <2>3, <2>5
    <3>2. l.next[s[j]] = After(h, s, j) /\ After(h, s, j) # d
      BY <1>10, <2>3, <2>5 DEF Threads
    <3> QED BY <2>2, <3>1, <3>2 DEF After
  <2>6. CASE i < j + 1
    <3>1. r[j] = s[j + 1] /\ (j < Len(r) => r[j + 1] = s[j + 2]) /\ (j < Len(r) <=> j + 1 < Len(s))
          /\ (j + 1) + 1 = j + 2 /\ j + 2 # i
      <4>1. r[j] = s[j + 1]
        BY <1>2, <2>3, <2>6
      <4>2. j < Len(r) => r[j + 1] = s[(j + 1) + 1]
        BY <1>1, <1>2, <2>3, <2>6
      <4> QED BY <1>1, <1>2, <2>3, <2>6, <4>1, <4>2
    <3>2. l.next[s[j + 1]] = After(h, s, j + 1) /\ After(h, s, j + 1) # d
      BY <1>10, <2>3, <3>1 DEF Threads
    <3> QED BY <2>2, <3>1, <3>2 DEF After
  <2> QED BY <2>3, <2>4, <2>5, <2>6
<1>13. r \in Seq(R)
  BY <1>2, <1>7, SeqOfElements
<1>14. Threads(m, h, R, r)
  BY <1>8, <1>9, <1>11, <1>12, <1>13 DEF Threads
<1> QED BY <1>14 DEF m, r, d

(* A list that is moved to another head keeps its order.                  *)
LEMMA ThreadsMove ==
  ASSUME NEW C, NEW l \in Links(C), NEW h \in C, NEW g \in C, NEW S \in SUBSET C,
         S # {}, h \notin S, g \notin S \cup {h}, Ring(l, h, S),
         NEW s, Threads(l, h, S, s)
  PROVE  Threads(REPLACE_HEAD(copy_links(l, h, g), h, g), g, S, s)
<1> DEFINE m == REPLACE_HEAD(copy_links(l, h, g), h, g)
           n == l.next[h]
           p == l.prev[h]
<1>1. /\ n \in S /\ p \in S /\ l.prev[n] = h /\ l.next[p] = h
  <2>1. /\ n \in S \cup {h} /\ l.prev[n] = h
        /\ p \in S \cup {h} /\ l.next[p] = h
    BY DEF Ring
  <2>2. n # h
    BY RingEnd
  <2> QED BY <2>1, <2>2
<1>2. \A c \in S \cup {g} : m.next[c] = IF c = p THEN g ELSE IF c = g THEN n ELSE l.next[c]
  BY <1>1 DEF REPLACE_HEAD, copy_links, Links
<1>3. \A c \in S : l.next[c] = h => c = p
  BY DEF Ring
<1> HIDE DEF m, n, p
<1>4. s \in Seq(S) /\ Len(s) \in Nat /\ \A i \in 1 .. Len(s) : s[i] \in S
  BY DEF Threads
<1>5. 0 < Len(s)
  <2>1. \E i \in 1 .. Len(s) : s[i] = p
    BY <1>1 DEF Threads
  <2> QED BY <1>4, <2>1
<1>6. m.next[g] = After(g, s, 0)
  <2>1. m.next[g] = n /\ n = After(h, s, 0)
    BY <1>1, <1>2 DEF n, Threads
  <2> QED BY <1>5, <2>1 DEF After
<1>7. ASSUME NEW i \in 1 .. Len(s) PROVE m.next[s[i]] = After(g, s, i)
  <2>1. s[i] \in S /\ s[i] # g /\ l.next[s[i]] = After(h, s, i)
    <3>1. s[i] \in S /\ s[i] # g
      BY <1>4
    <3>2. l.next[s[i]] = After(h, s, i)
      BY DEF Threads
    <3> QED BY <3>1, <3>2
  <2>2. CASE i < Len(s)
    <3>1. l.next[s[i]] = s[i + 1] /\ s[i + 1] \in S /\ s[i + 1] # h
      BY <1>4, <2>1, <2>2 DEF After
    <3>2. s[i] # p
      BY <1>1, <3>1
    <3> QED BY <1>2, <2>1, <2>2, <3>1, <3>2 DEF After
  <2>3. CASE ~ (i < Len(s))
    BY <1>2, <1>3, <2>1, <2>3 DEF After
  <2> QED BY <2>2, <2>3
<1>8. Threads(m, g, S, s)
  BY <1>6, <1>7 DEF Threads
<1> QED BY <1>8 DEF m

(* A walk from the head visits the nodes in order and comes back.         *)
LEMMA WalkThreads ==
  ASSUME NEW C, NEW l \in Links(C), LIST_POISON \notin C, NEW h \in C, NEW S \in SUBSET C, h \notin S,
         NEW s, Threads(l, h, S, s), NEW max \in Nat, Len(s) < max
  PROVE  Walk(l, h, max) = s
<1> DEFINE follow == [c \in DOMAIN l.next \cup {LIST_POISON} |->
                        IF c = LIST_POISON THEN c ELSE l.next[c]]
           at[k \in 0 .. max] == IF k = 0 THEN h ELSE follow[at[k - 1]]
           back == {k \in 1 .. max : at[k] = h}
           first == CHOOSE k \in back : \A j \in back : k <= j
           end == IF back = {} THEN max ELSE first - 1
<1>1. s \in Seq(S) /\ Len(s) \in Nat /\ \A i \in 1 .. Len(s) : s[i] \in S
  BY DEF Threads
<1>2. \A c \in C : follow[c] = l.next[c]
  BY DEF Links
<1>3. \A k \in 0 .. max : at[k] = IF k = 0 THEN h ELSE follow[at[k - 1]]
  <2> HIDE DEF follow
  <2>1. \E g : g = [k \in 0 .. max |-> IF k = 0 THEN h ELSE follow[g[k - 1]]]
    <3>1. \E g : Iterates(follow, h, max, g)
      BY Iterated
    <3> QED BY <3>1, Zenon DEF Iterates
  <2>2. at = [k \in 0 .. max |-> IF k = 0 THEN h ELSE follow[at[k - 1]]]
    BY <2>1, Zenon
  <2> HIDE DEF at
  <2> QED BY <2>2
<1> HIDE DEF follow, at
<1> DEFINE P(k) == k <= Len(s) => at[k] = (IF k = 0 THEN h ELSE s[k]) /\ at[k + 1] = After(h, s, k)
           K == {k \in Nat : P(k)}
<1>4. K = Nat
  <2>1. 0 \in K
    <3>1. at[0] = h /\ at[0 + 1] = follow[at[0]]
      BY <1>1, <1>3
    <3>2. follow[h] = l.next[h] /\ l.next[h] = After(h, s, 0)
      BY <1>2 DEF Threads
    <3> QED BY <3>1, <3>2
  <2>2. ASSUME NEW k \in K PROVE k + 1 \in K
    <3> SUFFICES ASSUME k + 1 <= Len(s)
                 PROVE  at[k + 1] = s[k + 1] /\ at[(k + 1) + 1] = After(h, s, k + 1)
      BY <1>1
    <3>1. k < Len(s) /\ P(k) /\ k \in Nat /\ k <= Len(s)
      BY <1>1
    <3>2. at[k + 1] = s[k + 1]
      BY <3>1 DEF After
    <3>3. k + 1 \in 1 .. Len(s) /\ (k + 1) + 1 \in 0 .. max /\ (k + 1) + 1 # 0 /\ ((k + 1) + 1) - 1 = k + 1
      BY <1>1, <3>1
    <3>4. at[(k + 1) + 1] = follow[at[k + 1]]
      BY <1>3, <3>3
    <3>5. follow[s[k + 1]] = l.next[s[k + 1]]
      BY <1>1, <1>2, <3>3
    <3>6. l.next[s[k + 1]] = After(h, s, k + 1)
      BY <3>3 DEF Threads
    <3> QED BY <3>2, <3>4, <3>5, <3>6
  <2>3. K \in SUBSET Nat
    OBVIOUS
  <2> HIDE DEF K
  <2> QED BY <2>1, <2>2, <2>3, SetInduction
<1>5. \A i \in 1 .. Len(s) : at[i] = s[i] /\ at[i] # h
  <2> TAKE i \in 1 .. Len(s)
  <2>1. i \in K /\ i <= Len(s) /\ i # 0
    BY <1>1, <1>4
  <2>2. at[i] = s[i]
    BY <2>1
  <2> QED BY <1>1, <2>2
<1>6. at[Len(s) + 1] = h
  <2>1. Len(s) \in K
    BY <1>1, <1>4
  <2> QED BY <1>1, <2>1 DEF After
<1>7. Len(s) + 1 \in back /\ \A k \in back : Len(s) + 1 <= k
  BY <1>1, <1>5, <1>6
<1>8. \A k \in back : k \in Int
  OBVIOUS
<1> HIDE DEF back
<1>9. end = Len(s)
  <2>1. first = Len(s) + 1
    BY <1>1, <1>7, <1>8
  <2> HIDE DEF first
  <2> QED BY <1>1, <1>7, <2>1
<1>10. Walk(l, h, max) = [k \in 1 .. end |-> at[k]]
  BY DEF Walk, follow, at, back
<1> HIDE DEF end
<1>11. [k \in 1 .. end |-> at[k]] = [k \in 1 .. Len(s) |-> s[k]]
  BY <1>5, <1>9
<1>12. s = [k \in 1 .. Len(s) |-> s[k]]
  BY <1>1, LenProperties
<1> QED BY <1>10, <1>11, <1>12, Zenon
=============================================================================
