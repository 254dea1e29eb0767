-------------------------- MODULE SystemCalls_proofs --------------------------
(***************************************************************************)
(* Proofs about the blocks of system calls, for every call.                *)
(***************************************************************************)
EXTENDS SystemCalls, TLAPS

Nodes == [kind : {"eax", "block", "byte"}, at : Nat, bef : Seq(Int), aft : Seq(Int)]
Lists == [dst : Seq(Nodes), known : SUBSET {"ebx", "ecx", "buf"}, umem : BOOLEAN,
          out : {"ok", "abort"}]

(* A define of eax or of a byte, of which the truth may be known.          *)
Holds(d, before, after) ==
  d.bef \in {Unknown, <<before>>} /\ d.aft \in {Unknown, <<after>>}

(* The call is not resolved yet.                                           *)
Open ==
  /\ L.umem /\ Len(L.dst) = 2
  /\ L.dst[1].kind = "eax" /\ Holds(L.dst[1], x.id, x.ret)
  /\ L.dst[2].kind = "block" /\ L.dst[2].bef = Unknown /\ L.dst[2].aft = Unknown

(* A byte that stands alone before eax is taken for an unresolved call.    *)
Closed ==
  /\ ~ L.umem /\ \A d \in DOMAIN L.dst : L.dst[d].kind # "block"
  /\ Len(L.dst) = 2 => L.dst[1].kind = "byte" /\ L.dst[1].at = x.buf

CInv == x \in Calls /\ L \in Lists /\ (Open \/ Closed)

(* Taking out the second define leaves the first.                          *)
LEMMA RemoveSecond ==
  ASSUME NEW S, NEW s \in Seq(S), Len(s) = 2
  PROVE  LET r == RemoveAt(s, 2) IN r \in Seq(S) /\ Len(r) = 1 /\ r[1] = s[1]
<1>1. LET t == SubSeq(s, 1, 1) IN t \in Seq(S) /\ Len(t) = 1 /\ t[1] = s[1]
  OBVIOUS
<1>2. SubSeq(s, 3, 2) = <<>>
  OBVIOUS
<1>3. RemoveAt(s, 2) = SubSeq(s, 1, 1) \o SubSeq(s, 3, 2)
  BY DEF RemoveAt
<1> QED BY <1>1, <1>2, <1>3

(* What a resolver may do, and for which calls.                            *)
LEMMA ResolverCases ==
  ASSUME NEW K, NEW n \in DOMAIN sys_index_tab
  PROVE  LET R == syscall_resolver(n, K) IN
         \/ R = K \/ R = abort(K)
         \/ n \in NotAffecting /\ R = remove_block(K)
         \/ /\ n = "read" \/ (n = "socketcall" /\ x.ebx = SYS_RECV)
            /\ Known(K.dst[1].aft)
            /\ R = received(K, x.buf, K.dst[1].aft[1])
<1>1. n \in {"socketcall", "write", "close", "fcntl64", "nanosleep", "mmap2", "lseek",
             "llseek", "open", "brk", "stat64", "fstat64", "read", "mremap", "munmap",
             "dup", "getrusage", "rt_sigaction", "time"}
  BY DEF sys_index_tab
<1>2. CASE n = "socketcall"
  BY <1>2 DEF syscall_resolver, sys_socketcall_resolver
<1>3. CASE n = "read"
  BY <1>3 DEF syscall_resolver, sys_read_resolver
<1>4. CASE n \in {"stat64", "fstat64", "rt_sigaction", "time"}
  BY <1>4 DEF syscall_resolver, sys_stat64_resolver, sys_fstat64_resolver,
              sys_rt_sigaction_resolver, sys_time_resolver
<1>5. CASE n \in NotAffecting
  BY <1>5 DEF syscall_resolver, NotAffecting, sys_write_resolver, sys_close_resolver,
              sys_fcntl64_resolver, sys_nanosleep_resolver, sys_mmap2_resolver,
              sys_lseek_resolver, sys__llseek_resolver, sys_open_resolver,
              sys_brk_resolver, sys_mremap_resolver, sys_munmap_resolver,
              sys_dup_resolver, sys_getrusage_resolver
<1> QED BY <1>1, <1>2, <1>3, <1>4, <1>5 DEF NotAffecting

(* The same of a resolver found by the number of the call.                 *)
LEMMA DispatchCases ==
  ASSUME NEW K
  PROVE  LET R == dispatch(K)
             id == K.dst[1].bef[1] IN
         \/ R = K \/ R = abort(K)
         \/ Known(K.dst[1].bef) /\ (\E n \in NotAffecting : sys_index_tab[n] = id) /\ R = remove_block(K)
         \/ /\ Known(K.dst[1].bef)
            /\ \/ id = sys_index_tab["read"]
               \/ id = sys_index_tab["socketcall"] /\ x.ebx = SYS_RECV
            /\ Known(K.dst[1].aft)
            /\ R = received(K, x.buf, K.dst[1].aft[1])
<1> DEFINE id == K.dst[1].bef[1]
           n == CHOOSE m \in syscall_to_index(id) : TRUE
<1>1. CASE ~ Known(K.dst[1].bef) \/ syscall_to_index(id) = {}
  BY <1>1 DEF dispatch
<1>2. CASE Known(K.dst[1].bef) /\ syscall_to_index(id) # {}
  <2>1. n \in DOMAIN sys_index_tab /\ sys_index_tab[n] = id
    <3>1. n \in syscall_to_index(id)
      BY <1>2
    <3> QED BY <3>1 DEF syscall_to_index
  <2>2. dispatch(K) = syscall_resolver(n, K)
    BY <1>2 DEF dispatch
  <2> HIDE DEF n, id
  <2> QED BY <1>2, <2>1, <2>2, ResolverCases DEF id
<1> QED BY <1>1, <1>2

(* Bytes received stand in front, from the lowest address.                 *)
LEMMA Extended ==
  ASSUME NEW K \in Lists, NEW address \in Nat, NEW size \in Nat
  PROVE  LET R == extend_corelist_from_sysenter(K, address, size) IN
         /\ R \in Lists /\ R.umem = K.umem /\ R.out = K.out
         /\ Len(R.dst) = size + Len(K.dst)
         /\ \A d \in 1 .. size : R.dst[d] = generate_empty_defnode(address + d - 1)
         /\ \A d \in 1 .. Len(K.dst) : R.dst[size + d] = K.dst[d]
<1> DEFINE new == [i \in 1 .. size |-> generate_empty_defnode(address + i - 1)]
           R == extend_corelist_from_sysenter(K, address, size)
<1>1. new \in Seq(Nodes) /\ Len(new) = size
  <2>1. \A i \in 1 .. size : generate_empty_defnode(address + i - 1) \in Nodes
    BY DEF generate_empty_defnode, DefNode, Nodes, Unknown
  <2> QED BY <2>1
<1>2. R = [K EXCEPT !.dst = new \o @]
  BY DEF extend_corelist_from_sysenter
<1>3. K.dst \in Seq(Nodes)
  BY DEF Lists
<1> DEFINE dst == new \o K.dst
<1>4. /\ dst \in Seq(Nodes) /\ Len(dst) = size + Len(K.dst)
      /\ \A d \in 1 .. size : dst[d] = new[d]
      /\ \A d \in 1 .. Len(K.dst) : dst[size + d] = K.dst[d]
  <2> HIDE DEF new
  <2> QED BY <1>1, <1>3
<1>5. R = [K EXCEPT !.dst = dst]
  BY <1>2
<1>6. \A d \in 1 .. size : new[d] = generate_empty_defnode(address + d - 1)
  OBVIOUS
<1> HIDE DEF new, dst, R
<1>7. R.dst = dst /\ R.umem = K.umem /\ R.out = K.out /\ R \in Lists
  BY <1>4, <1>5 DEF Lists
<1>8. QED BY <1>4, <1>6, <1>7 DEF R

(* Taking the block out, or eax when the block is gone.                    *)
LEMMA Removed ==
  ASSUME NEW K \in Lists, Len(K.dst) = 2, K.umem => K.dst[2].kind = "block"
  PROVE  LET R == remove_block(K) IN
         /\ R \in Lists /\ ~ R.umem /\ R.out = K.out
         /\ Len(R.dst) = 1 /\ R.dst[1] = K.dst[1]
<1> DEFINE dst == RemoveAt(K.dst, 2)
<1>1. dst \in Seq(Nodes) /\ Len(dst) = 1 /\ dst[1] = K.dst[1]
  <2>1. K.dst \in Seq(Nodes)
    BY DEF Lists
  <2> QED BY <2>1, RemoveSecond
<1>2. remove_block(K) = [[K EXCEPT !.umem = FALSE] EXCEPT !.dst = dst]
  <2>1. (K.umem /\ K.dst[2].kind # "block") = FALSE
    OBVIOUS
  <2>2. remove_from_umemlist(K, 2) = [K EXCEPT !.umem = FALSE]
    BY <2>1 DEF remove_from_umemlist
  <2>3. [K EXCEPT !.umem = FALSE].dst = K.dst
    BY DEF Lists
  <2> QED BY <2>2, <2>3 DEF remove_block, list_del
<1> HIDE DEF dst
<1> QED BY <1>1, <1>2 DEF Lists

(* Bytes received take the place of the block; without any, the tool ends. *)
LEMMA Received ==
  ASSUME NEW K \in Lists, Len(K.dst) = 2, K.umem => K.dst[2].kind = "block",
         NEW address \in Nat, NEW size \in Int
  PROVE  LET R == received(K, address, size) IN
         /\ R \in Lists /\ ~ R.umem
         /\ size <= 0 => R.out = "abort" /\ Len(R.dst) = 1 /\ R.dst[1] = K.dst[1]
         /\ size > 0 =>
              /\ R.out = K.out /\ Len(R.dst) = size + 1 /\ R.dst[size + 1] = K.dst[1]
              /\ \A d \in 1 .. size : R.dst[d] = generate_empty_defnode(address + d - 1)
<1> DEFINE B == remove_block(K)
<1>1. B \in Lists /\ ~ B.umem /\ B.out = K.out /\ Len(B.dst) = 1 /\ B.dst[1] = K.dst[1]
  BY Removed
<1>2. received(K, address, size) = IF size <= 0 THEN abort(B)
                                   ELSE extend_corelist_from_sysenter(B, address, size)
  BY DEF received
<1> HIDE DEF B
<1>3. CASE size <= 0
  BY <1>1, <1>2, <1>3 DEF abort, Lists
<1>4. CASE size > 0
  <2>1. size \in Nat
    BY <1>4
  <2> DEFINE R == extend_corelist_from_sysenter(B, address, size)
  <2>2. /\ R \in Lists /\ R.umem = B.umem /\ R.out = B.out
        /\ Len(R.dst) = size + Len(B.dst)
        /\ \A d \in 1 .. size : R.dst[d] = generate_empty_defnode(address + d - 1)
        /\ \A d \in 1 .. Len(B.dst) : R.dst[size + d] = B.dst[d]
    BY <1>1, <2>1, Extended
  <2>3. received(K, address, size) = R
    BY <1>2, <1>4
  <2> HIDE DEF R
  <2> QED BY <1>1, <1>4, <2>1, <2>2, <2>3
<1> QED BY <1>3, <1>4
-----------------------------------------------------------------------------
(* The handler's nodes are well formed.                                    *)
LEMMA InitCInv == Init => CInv
<1> SUFFICES ASSUME Init PROVE CInv
  OBVIOUS
<1>1. L.dst \in Seq(Nodes)
  BY DEF Init, sysenter_handler, DefNode, Nodes, Unknown
<1> QED BY <1>1 DEF Init, CInv, sysenter_handler, DefNode, Unknown, Lists, Open, Holds

(* What arrives changes one value of a node, to what it was in fact.       *)
LEMMA LearnNodeChange ==
  ASSUME CInv, NEW d \in DOMAIN L.dst, NEW side \in {"bef", "aft"}, LearnNode(d, side)
  PROVE  /\ L' \in Lists /\ L'.umem = L.umem /\ L'.out = L.out /\ x' = x
         /\ DOMAIN L'.dst = DOMAIN L.dst /\ Len(L'.dst) = Len(L.dst)
         /\ \A i \in DOMAIN L.dst :
              /\ L'.dst[i].kind = L.dst[i].kind /\ L'.dst[i].at = L.dst[i].at
              /\ \/ L'.dst[i] = L.dst[i]
                 \/ side = "bef" /\ L'.dst[i].aft = L.dst[i].aft
                      /\ L'.dst[i].bef = <<Truth(L.dst[i], "bef")>>
                 \/ /\ side = "aft" /\ L'.dst[i].bef = L.dst[i].bef /\ ~ Known(L.dst[i].aft)
                    /\ L'.dst[i].aft = <<Truth(L.dst[i], "aft")>>
<1> DEFINE t == Truth(L.dst[d], side)
           node == [L.dst[d] EXCEPT ![side] = <<t>>]
           dst == [L.dst EXCEPT ![d] = node]
<1>1. L.dst \in Seq(Nodes) /\ L \in Lists /\ x \in Calls
  BY DEF CInv, Lists
<1>2. L.dst[d] \in Nodes
  BY <1>1
<1>3. t \in Int
  <2>1. L.dst[d].kind \in {"eax", "block", "byte"} /\ L.dst[d].kind # "block"
    BY <1>2 DEF LearnNode, Nodes
  <2>2. x.id \in Int /\ x.ret \in Int /\ x.old \in Int /\ x.new \in Int
    <3>1. \A c \in Calls : c.id \in Int /\ c.ret \in Int /\ c.old \in Int /\ c.new \in Int
      BY CallsAssumption
    <3> QED BY <1>1, <3>1
  <2>3. CASE L.dst[d].kind = "eax"
    BY <2>2, <2>3 DEF Truth
  <2>4. CASE L.dst[d].kind = "byte"
    BY <2>2, <2>4 DEF Truth
  <2> QED BY <2>1, <2>3, <2>4
<1> HIDE DEF t
<1>a. <<t>> \in Seq(Int)
  BY <1>3
<1>4. node \in Nodes /\ node.kind = L.dst[d].kind /\ node.at = L.dst[d].at
  <2>1. CASE side = "bef"
    <3>1. node = [L.dst[d] EXCEPT !.bef = <<t>>]
      BY <2>1
    <3> HIDE DEF node
    <3> QED BY <1>2, <1>a, <3>1 DEF Nodes
  <2>2. CASE side = "aft"
    <3>1. node = [L.dst[d] EXCEPT !.aft = <<t>>]
      BY <2>2
    <3> HIDE DEF node
    <3> QED BY <1>2, <1>a, <3>1 DEF Nodes
  <2> QED BY <2>1, <2>2
<1>5. \/ side = "bef" /\ node.aft = L.dst[d].aft /\ node.bef = <<t>>
      \/ side = "aft" /\ node.bef = L.dst[d].bef /\ node.aft = <<t>>
  BY <1>2 DEF Nodes
<1>6. L' = [L EXCEPT !.dst = dst]
  BY <1>1 DEF LearnNode, t, Lists
<1> HIDE DEF node
<1>7. /\ dst \in Seq(Nodes) /\ DOMAIN dst = DOMAIN L.dst /\ Len(dst) = Len(L.dst)
      /\ dst[d] = node /\ \A i \in DOMAIN L.dst : i # d => dst[i] = L.dst[i]
  BY <1>1, <1>4
<1> HIDE DEF dst
<1>8. L'.dst = dst /\ L'.umem = L.umem /\ L'.out = L.out /\ L' \in Lists /\ x' = x
  BY <1>1, <1>6, <1>7 DEF Lists, LearnNode
<1> QED BY <1>4, <1>5, <1>7, <1>8 DEF t, LearnNode

(* A value that arrives keeps a call resolved or unresolved.               *)
LEMMA LearnNodeCInv ==
  ASSUME CInv, NEW d \in DOMAIN L.dst, NEW side \in {"bef", "aft"}, LearnNode(d, side)
  PROVE  CInv'
<1> USE LearnNodeChange
<1>1. L.dst \in Seq(Nodes)
  BY DEF CInv, Lists
<1>2. CASE Open
  <2>1. 1 \in DOMAIN L.dst /\ 2 \in DOMAIN L.dst
    BY <1>1, <1>2 DEF Open
  <2>2. L'.dst[2] = L.dst[2]
    <3>1. d # 2
      BY <1>2 DEF Open, LearnNode
    <3> QED BY <1>1, <2>1, <3>1 DEF LearnNode, CInv, Lists
  <2>3. Holds(L'.dst[1], x.id, x.ret)
    BY <1>2, <2>1 DEF Open, Holds, Truth
  <2> QED BY <1>2, <2>1, <2>2, <2>3 DEF CInv, Open
<1>3. CASE Closed
  <2>1. Len(L.dst) = 2 => 1 \in DOMAIN L.dst
    BY <1>1
  <2> QED BY <1>3, <2>1 DEF CInv, Closed
<1> QED BY <1>2, <1>3 DEF CInv
-----------------------------------------------------------------------------
(* What a run of the resolver does to a call of either kind.               *)
LEMMA ResolveCases ==
  ASSUME CInv, Resolve
  PROVE  /\ x' = x /\ Len(L.dst) = 2 /\ L.out = "ok"
         /\ \/ L' = abort(L)
            \/ /\ Known(L.dst[1].bef) /\ L' = remove_block(L)
               /\ \E n \in NotAffecting : sys_index_tab[n] = L.dst[1].bef[1]
            \/ /\ Known(L.dst[1].bef) /\ Known(L.dst[1].aft)
               /\ \/ L.dst[1].bef[1] = sys_index_tab["read"]
                  \/ L.dst[1].bef[1] = sys_index_tab["socketcall"] /\ x.ebx = SYS_RECV
               /\ L' = received(L, x.buf, L.dst[1].aft[1])
<1>1. sysenter_resolver(L) # L /\ L' = sysenter_resolver(L) /\ x' = x /\ L.out = "ok"
  BY DEF Resolve
<1>2. Len(L.dst) = 2 /\ L' = dispatch(L) /\ L' # L
  BY <1>1 DEF sysenter_resolver
<1> QED BY <1>1, <1>2, DispatchCases

(* The number of bytes is an integer, and the block is where it is looked  *)
(* for.                                                                    *)
LEMMA Resolvable ==
  ASSUME CInv, Len(L.dst) = 2
  PROVE  /\ L \in Lists /\ x.buf \in Nat /\ L.dst[1] \in Nodes
         /\ L.umem => L.dst[2].kind = "block"
         /\ Known(L.dst[1].aft) => L.dst[1].aft[1] \in Int
<1>1. L.dst \in Seq(Nodes) /\ L \in Lists /\ x.buf \in Nat
  BY CallsAssumption DEF CInv, Lists
<1>2. L.dst[1] \in Nodes
  BY <1>1
<1>3. Known(L.dst[1].aft) => L.dst[1].aft[1] \in Int
  <2>1. L.dst[1].aft \in Seq(Int)
    BY <1>2 DEF Nodes
  <2> QED BY <2>1 DEF Known, Unknown
<1> QED BY <1>1, <1>2, <1>3 DEF CInv, Open, Closed

(* After a run of the resolver the block is gone, or the tool has ended.   *)
LEMMA ResolveCInv == CInv /\ Resolve => CInv'
<1> SUFFICES ASSUME CInv, Resolve PROVE CInv'
  OBVIOUS
<1> DEFINE K == L
           size == L.dst[1].aft[1]
<1>1. x' = x /\ x \in Calls /\ Len(L.dst) = 2
  BY ResolveCases DEF CInv
<1>2. L \in Lists /\ x.buf \in Nat /\ L.dst[1] \in Nodes /\ (L.umem => L.dst[2].kind = "block")
  BY <1>1, Resolvable
<1>3. L.dst[1].kind # "block"
  <2>1. 1 \in DOMAIN L.dst
    BY <1>1, <1>2 DEF Lists
  <2> QED BY <2>1 DEF CInv, Open, Closed
<1>4. CASE L' = abort(L)
  BY <1>1, <1>4 DEF CInv, abort, Lists, Open, Closed, Holds
<1>5. CASE L' = remove_block(L)
  <2>1. L' \in Lists /\ ~ L'.umem /\ Len(L'.dst) = 1 /\ L'.dst[1] = L.dst[1]
    BY <1>1, <1>2, <1>5, Removed
  <2>2. DOMAIN L'.dst = {1}
    BY <2>1 DEF Lists
  <2> QED BY <1>1, <1>3, <2>1, <2>2 DEF CInv, Closed
<1>6. CASE Known(L.dst[1].aft) /\ L' = received(L, x.buf, size)
  <2>1. size \in Int
    BY <1>1, <1>6, Resolvable
  <2> HIDE DEF size
  <2>2. /\ L' \in Lists /\ ~ L'.umem
        /\ size <= 0 => L'.out = "abort" /\ Len(L'.dst) = 1 /\ L'.dst[1] = L.dst[1]
        /\ size > 0 =>
             /\ L'.out = L.out /\ Len(L'.dst) = size + 1 /\ L'.dst[size + 1] = L.dst[1]
             /\ \A d \in 1 .. size : L'.dst[d] = generate_empty_defnode(x.buf + d - 1)
    BY <1>1, <1>2, <1>6, <2>1, Received
  <2>3. DOMAIN L'.dst = 1 .. Len(L'.dst)
    BY <2>2 DEF Lists
  <2>4. CASE size <= 0
    <3>1. /\ L' \in Lists /\ ~ L'.umem /\ Len(L'.dst) = 1 /\ L'.dst[1] = L.dst[1]
      BY <2>2, <2>4
    <3>2. DOMAIN L'.dst = {1}
      BY <2>3, <3>1
    <3> QED BY <1>1, <1>3, <3>1, <3>2 DEF CInv, Closed
  <2>5. CASE size > 0
    <3>1. \A d \in 1 .. size : L'.dst[d].kind = "byte" /\ L'.dst[d].at = x.buf + d - 1
      <4> TAKE d \in 1 .. size
      <4>1. L'.dst[d] = generate_empty_defnode(x.buf + d - 1)
        BY <2>2, <2>5
      <4> QED BY <4>1 DEF generate_empty_defnode, DefNode
    <3>2. \A d \in DOMAIN L'.dst : d = size + 1 \/ d \in 1 .. size
      BY <2>1, <2>2, <2>3, <2>5
    <3>3. Len(L'.dst) = 2 => L'.dst[1].kind = "byte" /\ L'.dst[1].at = x.buf
      BY <1>2, <2>1, <2>2, <2>5, <3>1
    <3> QED BY <1>1, <1>3, <2>2, <2>5, <3>1, <3>2, <3>3 DEF CInv, Closed
  <2> QED BY <2>1, <2>4, <2>5
<1> QED BY <1>4, <1>5, <1>6, ResolveCases

(* Every step keeps the invariant. *)
LEMMA NextCInv == CInv /\ [Next]_vars => CInv'
<1> SUFFICES ASSUME CInv, [Next]_vars PROVE CInv'
  OBVIOUS
<1>1. CASE \E a \in {"ebx", "ecx", "buf"} : LearnArgument(a)
  <2> PICK a \in {"ebx", "ecx", "buf"} : LearnArgument(a)
    BY <1>1
  <2>1. /\ x' = x /\ L'.dst = L.dst /\ L'.umem = L.umem /\ L' \in Lists
    BY DEF LearnArgument, CInv, Lists
  <2> QED BY <2>1 DEF CInv, Open, Closed, Holds
<1>2. CASE \E d \in DOMAIN L.dst, side \in {"bef", "aft"} : LearnNode(d, side)
  BY <1>2, LearnNodeCInv
<1>3. CASE Resolve
  BY <1>3, ResolveCInv
<1>4. CASE UNCHANGED vars
  BY <1>4 DEF vars, CInv, Open, Closed, Holds
<1> QED BY <1>1, <1>2, <1>3, <1>4 DEF Next

(* The block is in the core list exactly when it is in umemlist, for every *)
(* call, also one that is resolved twice.                                  *)
THEOREM BlockConsistent == Spec => []Consistent
<1>1. CInv => Consistent
  <2>1. ASSUME CInv, Open PROVE 2 \in DOMAIN L.dst
    BY <2>1 DEF CInv, Open, Lists
  <2> QED BY <2>1 DEF CInv, Open, Closed, Consistent
<1> QED BY <1>1, InitCInv, NextCInv, PTL DEF Spec

-----------------------------------------------------------------------------
(* The kind and the place of a node never change, but for a resolver.      *)
LEMMA LearnKeepsNodes ==
  ASSUME CInv, Next, ~ Resolve
  PROVE  /\ x' = x /\ L'.umem = L.umem /\ L'.out = L.out /\ L' \in Lists
         /\ DOMAIN L'.dst = DOMAIN L.dst /\ Len(L'.dst) = Len(L.dst)
         /\ \A i \in DOMAIN L.dst :
              /\ L'.dst[i].kind = L.dst[i].kind /\ L'.dst[i].at = L.dst[i].at
              /\ Known(L.dst[i].aft) => L'.dst[i].aft = L.dst[i].aft
<1>1. ASSUME NEW a \in {"ebx", "ecx", "buf"}, LearnArgument(a)
      PROVE  x' = x /\ L'.dst = L.dst /\ L'.umem = L.umem /\ L'.out = L.out /\ L' \in Lists
  BY <1>1 DEF LearnArgument, CInv, Lists
<1>2. CASE \E a \in {"ebx", "ecx", "buf"} : LearnArgument(a)
  BY <1>1, <1>2
<1>3. ASSUME NEW d \in DOMAIN L.dst, NEW side \in {"bef", "aft"}, LearnNode(d, side)
      PROVE  /\ x' = x /\ L'.umem = L.umem /\ L'.out = L.out /\ L' \in Lists
             /\ DOMAIN L'.dst = DOMAIN L.dst /\ Len(L'.dst) = Len(L.dst)
             /\ \A i \in DOMAIN L.dst :
                  /\ L'.dst[i].kind = L.dst[i].kind /\ L'.dst[i].at = L.dst[i].at
                  /\ Known(L.dst[i].aft) => L'.dst[i].aft = L.dst[i].aft
  BY <1>3, LearnNodeChange
<1> QED BY <1>2, <1>3 DEF Next

(* What a resolver finds in an unresolved call is the truth.               *)
LEMMA ResolveOpen ==
  ASSUME CInv, Open, Resolve
  PROVE  /\ x' = x /\ x \in Calls /\ x.ret \in Int /\ x.buf \in Nat
         /\ L' \in Lists
         /\ \/ L' = abort(L)
            \/ /\ \E n \in NotAffecting : x.id = sys_index_tab[n]
               /\ Len(L'.dst) = 1 /\ L'.dst[1] = L.dst[1]
            \/ Receives(x) /\ L'.out = "abort" /\ Len(L'.dst) = 1 /\ L'.dst[1] = L.dst[1]
            \/ /\ Receives(x) /\ x.ret > 0 /\ Len(L'.dst) = x.ret + 1
               /\ L'.dst[x.ret + 1] = L.dst[1]
               /\ \A d \in 1 .. x.ret : L'.dst[d].kind = "byte" /\ L'.dst[d].at = x.buf + d - 1
<1>1. /\ x \in Calls /\ x.ret \in Int /\ x.buf \in Nat /\ Len(L.dst) = 2
      /\ L \in Lists /\ (L.umem => L.dst[2].kind = "block")
  <2>1. \A c \in Calls : c.ret \in Int /\ c.buf \in Nat
    BY CallsAssumption
  <2> QED BY <2>1 DEF CInv, Open
<1>2. /\ Known(L.dst[1].bef) => L.dst[1].bef[1] = x.id
      /\ Known(L.dst[1].aft) => L.dst[1].aft[1] = x.ret
  BY DEF Open, Holds, Known
<1>3. x' = x /\ L' \in Lists
  BY ResolveCases, ResolveCInv DEF CInv
<1>4. CASE L' = abort(L)
  BY <1>1, <1>3, <1>4
<1>5. CASE /\ Known(L.dst[1].bef) /\ L' = remove_block(L)
           /\ \E n \in NotAffecting : sys_index_tab[n] = L.dst[1].bef[1]
  <2>1. Len(L'.dst) = 1 /\ L'.dst[1] = L.dst[1]
    BY <1>1, <1>5, Removed
  <2> QED BY <1>1, <1>2, <1>3, <1>5, <2>1
<1>6. CASE /\ Known(L.dst[1].bef) /\ Known(L.dst[1].aft)
           /\ \/ L.dst[1].bef[1] = sys_index_tab["read"]
              \/ L.dst[1].bef[1] = sys_index_tab["socketcall"] /\ x.ebx = SYS_RECV
           /\ L' = received(L, x.buf, L.dst[1].aft[1])
  <2>1. Receives(x) /\ L' = received(L, x.buf, x.ret)
    BY <1>2, <1>6 DEF Receives
  <2>2. /\ x.ret <= 0 => L'.out = "abort" /\ Len(L'.dst) = 1 /\ L'.dst[1] = L.dst[1]
        /\ x.ret > 0 =>
             /\ Len(L'.dst) = x.ret + 1 /\ L'.dst[x.ret + 1] = L.dst[1]
             /\ \A d \in 1 .. x.ret : L'.dst[d] = generate_empty_defnode(x.buf + d - 1)
    BY <1>1, <2>1, Received
  <2>3. \A a : generate_empty_defnode(a).kind = "byte" /\ generate_empty_defnode(a).at = a
    BY DEF generate_empty_defnode, DefNode
  <2>4. CASE x.ret <= 0
    BY <1>1, <1>3, <2>1, <2>2, <2>4
  <2>5. CASE x.ret > 0
    BY <1>1, <1>3, <2>1, <2>2, <2>3, <2>5
  <2> QED BY <1>1, <2>4, <2>5
<1> QED BY <1>4, <1>5, <1>6, ResolveCases

(* Covered survives a second resolution of a call that received one byte:  *)
(* whatever is put in front, a define of that byte stays first.            *)
WInv == CInv /\ WritesCovered /\ (~ L.umem /\ Len(L.dst) = 2 => x.writes \subseteq {x.buf})

(* Every step keeps it. *)
LEMMA NextWInv ==
  ASSUME KernelWrites
  PROVE  WInv /\ [Next]_vars => WInv'
<1> SUFFICES ASSUME WInv, [Next]_vars PROVE WInv'
  OBVIOUS
<1>1. CInv /\ CInv' /\ x \in Calls
  BY NextCInv DEF WInv, CInv
<1>2. CASE UNCHANGED vars
  BY <1>1, <1>2 DEF vars, WInv, WritesCovered
<1>3. CASE Next /\ ~ Resolve
  BY <1>1, <1>3, LearnKeepsNodes DEF WInv, WritesCovered
<1>4. CASE Resolve /\ Open
  <2>a. x' = x /\ x.ret \in Int /\ x.buf \in Nat /\ L' \in Lists
    BY <1>1, <1>4, ResolveOpen
  <2>1. CASE L' = abort(L)
    BY <1>1, <1>4, <2>a, <2>1 DEF abort, WInv, WritesCovered, CInv, Lists, Open
  <2>2. CASE \E n \in NotAffecting : x.id = sys_index_tab[n]
    <3>1. x.writes = {}
      BY <1>1, <2>2, KernelWrites DEF KernelWrites
    <3> QED BY <1>1, <2>a, <3>1 DEF WInv, WritesCovered
  <2>3. CASE L'.out = "abort" /\ Len(L'.dst) = 1
    BY <1>1, <2>a, <2>3 DEF WInv, WritesCovered
  <2>4. CASE /\ Receives(x) /\ x.ret > 0 /\ Len(L'.dst) = x.ret + 1
             /\ \A d \in 1 .. x.ret : L'.dst[d].kind = "byte" /\ L'.dst[d].at = x.buf + d - 1
    <3>1. x.writes \subseteq x.buf .. x.buf + x.ret - 1
      BY <1>1, <2>4, KernelWrites DEF KernelWrites
    <3>2. DOMAIN L'.dst = 1 .. x.ret + 1
      BY <2>a, <2>4 DEF Lists
    <3>3. ASSUME NEW a \in x.writes
          PROVE  \E d \in DOMAIN L'.dst : L'.dst[d].kind = "byte" /\ L'.dst[d].at = a
      <4>1. a - x.buf + 1 \in 1 .. x.ret /\ x.buf + (a - x.buf + 1) - 1 = a
        BY <2>a, <2>4, <3>1
      <4>2. a - x.buf + 1 \in DOMAIN L'.dst
        BY <2>a, <3>2, <4>1
      <4>3. L'.dst[a - x.buf + 1].kind = "byte" /\ L'.dst[a - x.buf + 1].at = a
        BY <2>4, <4>1
      <4> QED BY <4>2, <4>3
    <3>4. ASSUME Len(L'.dst) = 2 PROVE x.writes \subseteq {x.buf}
      <4>1. x.ret + 1 = 2 /\ x.ret \in Int
        BY <2>a, <2>4, <3>4
      <4>2. x.ret = 1
        BY <4>1
      <4> QED BY <2>a, <3>1, <4>2
    <3> QED BY <1>1, <2>a, <3>3, <3>4 DEF WInv, WritesCovered
  <2> QED BY <1>1, <1>4, <2>1, <2>2, <2>3, <2>4, ResolveOpen
<1>5. CASE Resolve /\ ~ Open
  <2> DEFINE size == L.dst[1].aft[1]
  <2>1. /\ x' = x /\ Len(L.dst) = 2 /\ L \in Lists /\ x.buf \in Nat /\ ~ L.umem
        /\ L.dst[1].kind = "byte" /\ L.dst[1].at = x.buf /\ x.writes \subseteq {x.buf}
    BY <1>1, <1>5, ResolveCases, Resolvable DEF WInv, CInv, Closed
  <2>2. ASSUME NEW n \in Nat \ {0}, Len(L'.dst) = n, L'.dst[1].kind = "byte", L'.dst[1].at = x.buf
        PROVE  WInv'
    <3>1. 1 \in DOMAIN L'.dst
      BY <1>1, <2>2 DEF CInv, Lists
    <3> QED BY <1>1, <2>1, <2>2, <3>1 DEF WInv, WritesCovered
  <2>3. CASE L' = abort(L)
    BY <1>1, <2>1, <2>3 DEF abort, WInv, WritesCovered, CInv, Lists
  <2>4. CASE L' = remove_block(L)
    <3>1. Len(L'.dst) = 1 /\ L'.dst[1] = L.dst[1]
      BY <2>1, <2>4, Removed
    <3> QED BY <2>1, <2>2, <3>1
  <2>5. CASE Known(L.dst[1].aft) /\ L' = received(L, x.buf, size)
    <3>1. size \in Int
      BY <1>1, <2>1, <2>5, Resolvable
    <3> HIDE DEF size
    <3>2. /\ size <= 0 => Len(L'.dst) = 1 /\ L'.dst[1] = L.dst[1]
          /\ size > 0 =>
               /\ Len(L'.dst) = size + 1
               /\ \A d \in 1 .. size : L'.dst[d] = generate_empty_defnode(x.buf + d - 1)
      BY <2>1, <2>5, <3>1, Received
    <3>3. CASE size <= 0
      <4>1. Len(L'.dst) = 1 /\ L'.dst[1] = L.dst[1]
        BY <3>2, <3>3
      <4> QED BY <2>1, <2>2, <4>1
    <3>4. CASE size > 0
      <4>1. L'.dst[1] = generate_empty_defnode(x.buf)
        BY <2>1, <3>1, <3>2, <3>4
      <4>2. L'.dst[1].kind = "byte" /\ L'.dst[1].at = x.buf
        BY <4>1 DEF generate_empty_defnode, DefNode
      <4> QED BY <2>2, <3>1, <3>2, <3>4, <4>2
    <3> QED BY <3>1, <3>3, <3>4
  <2> QED BY <1>5, <2>3, <2>4, <2>5, <1>1, ResolveCases
<1> QED BY <1>2, <1>3, <1>4, <1>5 DEF Next

(* If the kernel writes what the resolvers take it to write, then no       *)
(* search for the value of a cell it wrote gets past the call, also when   *)
(* the call is resolved a second time.                                     *)
THEOREM NothingPassed == ASSUME KernelWrites PROVE Spec => []WritesCovered
<1>1. Init => WInv
  BY InitCInv DEF Init, WInv, WritesCovered, sysenter_handler
<1>2. WInv => WritesCovered
  BY DEF WInv
<1>3. WInv /\ [Next]_vars => WInv'
  BY NextWInv, KernelWrites
<1> QED BY <1>1, <1>2, <1>3, PTL DEF Spec

-----------------------------------------------------------------------------
(* Without a call that receives one byte, no call is resolved twice: what  *)
(* has been resolved ends in its define of eax, after the bytes in order.  *)
TInv ==
  /\ CInv
  /\ Closed => /\ Len(L.dst) \in Nat \ {0, 2} /\ L.dst[Len(L.dst)].kind = "eax"
  /\ \A d \in DOMAIN L.dst : L.dst[d].kind = "byte" => L.dst[d].at = x.buf + d - 1

(* Every step keeps it. *)
LEMMA NextTInv ==
  ASSUME NoOneByte
  PROVE  TInv /\ [Next]_vars => TInv'
<1> SUFFICES ASSUME TInv, [Next]_vars PROVE TInv'
  OBVIOUS
<1>1. CInv /\ CInv' /\ x \in Calls /\ DOMAIN L.dst = 1 .. Len(L.dst)
  BY NextCInv DEF TInv, CInv, Lists
<1>2. CASE UNCHANGED vars
  BY <1>1, <1>2 DEF vars, TInv, Closed
<1>3. CASE Next /\ ~ Resolve
  <2>1. Closed' => Closed
    BY <1>1, <1>3, LearnKeepsNodes DEF Closed, CInv, Open
  <2>2. Closed /\ Len(L.dst) \in Nat \ {0, 2} => Len(L.dst) \in DOMAIN L.dst
    BY <1>1
  <2> QED BY <1>1, <1>3, <2>1, <2>2, LearnKeepsNodes DEF TInv
<1>4. CASE Resolve
  <2>1. Open
    <3>1. Len(L.dst) = 2
      BY <1>1, <1>4, ResolveCases
    <3> QED BY <3>1 DEF TInv, CInv
  <2>2. x' = x /\ x.ret \in Int /\ x.buf \in Nat /\ L' \in Lists
    BY <1>1, <1>4, <2>1, ResolveOpen
  <2>3. DOMAIN L'.dst = 1 .. Len(L'.dst)
    BY <2>2 DEF Lists
  <2>4. L.dst[1].kind = "eax"
    BY <2>1 DEF Open
  <2>5. CASE L' = abort(L)
    <3>1. L'.dst = L.dst /\ L'.umem
      BY <1>1, <2>1, <2>5 DEF abort, CInv, Lists, Open
    <3> QED BY <1>1, <2>2, <3>1 DEF TInv, Closed
  <2>6. CASE Len(L'.dst) = 1 /\ L'.dst[1] = L.dst[1]
    <3>1. DOMAIN L'.dst = {1}
      BY <2>3, <2>6
    <3> QED BY <1>1, <2>4, <2>6, <3>1 DEF TInv
  <2>7. CASE /\ Receives(x) /\ x.ret > 0 /\ Len(L'.dst) = x.ret + 1
             /\ L'.dst[x.ret + 1] = L.dst[1]
             /\ \A d \in 1 .. x.ret : L'.dst[d].kind = "byte" /\ L'.dst[d].at = x.buf + d - 1
    <3>1. x.ret # 1
      BY <1>1, <2>7, NoOneByte DEF NoOneByte
    <3>2. \A d \in DOMAIN L'.dst : d \in 1 .. x.ret \/ d = x.ret + 1
      BY <2>2, <2>3, <2>7
    <3>3. Len(L'.dst) \in Nat \ {0, 2}
      BY <2>2, <2>7, <3>1
    <3>4. L'.dst[Len(L'.dst)].kind = "eax"
      BY <2>4, <2>7
    <3>5. \A d \in DOMAIN L'.dst : L'.dst[d].kind = "byte" => L'.dst[d].at = x.buf + d - 1
      BY <2>4, <2>7, <3>2
    <3> QED BY <1>1, <2>2, <3>3, <3>4, <3>5 DEF TInv
  <2> QED BY <1>1, <1>4, <2>1, <2>5, <2>6, <2>7, ResolveOpen
<1> QED BY <1>2, <1>3, <1>4 DEF Next

(* It holds of the handler's nodes. *)
LEMMA InitTInv == Init => TInv
<1> SUFFICES ASSUME Init PROVE TInv
  OBVIOUS
<1>1. L.umem /\ CInv
  BY InitCInv DEF Init, sysenter_handler
<1>2. \A d \in DOMAIN L.dst : L.dst[d].kind # "byte"
  BY DEF Init, sysenter_handler, DefNode
<1> QED BY <1>1, <1>2 DEF TInv, Closed

(* The defines of a call are eax, a block or bytes in order, whatever the  *)
(* call returns, unless it receives a single byte.                         *)
THEOREM DefinesInOrder == ASSUME NoOneByte PROVE Spec => []TypeOK
<1>1. TInv => TypeOK
  <2> SUFFICES ASSUME TInv PROVE TypeOK
    OBVIOUS
  <2>1. L.dst \in Seq(Nodes) /\ L \in Lists /\ x \in Calls
    BY DEF TInv, CInv, Lists
  <2>2. \A d \in DOMAIN L.dst : L.dst[d].kind \in {"eax", "block", "byte"}
    <3> TAKE d \in DOMAIN L.dst
    <3>1. L.dst[d] \in Nodes
      BY <2>1
    <3> QED BY <3>1 DEF Nodes
  <2> QED BY <2>1, <2>2 DEF TypeOK, TInv, Lists
<1>2. TInv /\ [Next]_vars => TInv'
  BY NextTInv, NoOneByte
<1> QED BY <1>1, <1>2, InitTInv, PTL DEF Spec

(* Resolving a call drops no define whose value is known, and keeps eax,   *)
(* unless the call receives a single byte.                                 *)
THEOREM NothingKnownDropped == ASSUME NoOneByte PROVE Spec => NothingDropped
<1> DEFINE A == EaxDefines(L') # {} /\ KnownBytes(L) \subseteq KnownBytes(L')
<1>1. TInv /\ TInv' /\ [Next]_vars => [A]_vars
  <2> SUFFICES ASSUME TInv, TInv', Next PROVE A
    OBVIOUS
  <2>1. CInv /\ CInv' /\ x \in Calls
    BY DEF TInv, CInv
  <2>2. EaxDefines(L') # {}
    <3>1. DOMAIN L'.dst = 1 .. Len(L'.dst) /\ Len(L'.dst) \in Nat
      BY <2>1 DEF CInv, Lists
    <3>2. CASE Open'
      BY <3>1, <3>2 DEF EaxDefines, Open
    <3>3. CASE Closed'
      BY <3>1, <3>3 DEF EaxDefines, TInv
    <3> QED BY <2>1, <3>2, <3>3 DEF CInv
  <2>3. ASSUME NEW i \in DOMAIN L.dst, Known(L.dst[i].aft)
        PROVE  \E j \in DOMAIN L'.dst : L'.dst[j].at = L.dst[i].at /\ L'.dst[j].aft = L.dst[i].aft
    <3>1. CASE ~ Resolve
      BY <2>1, <2>3, <3>1, LearnKeepsNodes
    <3>2. CASE Resolve
      <4>1. Open
        <5>1. Len(L.dst) = 2
          BY <2>1, <3>2, ResolveCases
        <5> QED BY <5>1 DEF TInv, CInv
      <4>2. i = 1
        <5>1. i \in {1, 2}
          BY <2>1, <4>1 DEF Open, CInv, Lists
        <5> QED BY <2>3, <4>1, <5>1 DEF Open, Known, Unknown
      <4>3. x.ret \in Int /\ DOMAIN L'.dst = 1 .. Len(L'.dst)
        BY <2>1, <3>2, <4>1, ResolveOpen DEF Lists
      <4>4. CASE L' = abort(L)
        BY <2>1, <2>3, <4>4 DEF abort, CInv, Lists
      <4>5. CASE Len(L'.dst) = 1 /\ L'.dst[1] = L.dst[1]
        BY <4>2, <4>3, <4>5
      <4>6. CASE x.ret > 0 /\ Len(L'.dst) = x.ret + 1 /\ L'.dst[x.ret + 1] = L.dst[1]
        BY <4>2, <4>3, <4>6
      <4> QED BY <2>1, <3>2, <4>1, <4>4, <4>5, <4>6, ResolveOpen
    <3> QED BY <3>1, <3>2
  <2>4. KnownBytes(L) \subseteq KnownBytes(L')
    <3> SUFFICES ASSUME NEW i \in DOMAIN L.dst, Known(L.dst[i].aft)
                 PROVE  <<L.dst[i].at, L.dst[i].aft>> \in KnownBytes(L')
      BY DEF KnownBytes
    <3>1. PICK j \in DOMAIN L'.dst : L'.dst[j].at = L.dst[i].at /\ L'.dst[j].aft = L.dst[i].aft
      BY <2>3
    <3> QED BY <3>1 DEF KnownBytes
  <2> QED BY <2>2, <2>4
<1>2. TInv /\ [Next]_vars => TInv'
  BY NextTInv, NoOneByte
<1> QED BY <1>1, <1>2, InitTInv, PTL DEF Spec, NothingDropped
=============================================================================
