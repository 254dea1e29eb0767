----------------------------- MODULE SystemCalls -----------------------------
(***************************************************************************)
(* One sysenter of the trace (handler_system.c, handler_syscall.c).  What  *)
(* the kernel wrote is not in the trace, so the handler enlists a block: a *)
(* define of a memory cell of unknown address, that no search for an older *)
(* value may pass.  Once the number of the call is known, its resolver     *)
(* takes the block out of the core list, and for read and recv puts one    *)
(* define for every byte received in its place.                            *)
(*                                                                         *)
(* malloc is taken to return zeros: the nodes made for a system call are   *)
(* never initialised.                                                      *)
(***************************************************************************)
EXTENDS Integers, Sequences, FiniteSetsExt, SequencesExt

CONSTANT Calls
(* What happened: [id, ebx, ret, buf, writes, old, new].  writes are the   *)
(* cells the kernel wrote, old and new what a byte was before and after.   *)

ASSUME CallsAssumption ==
  \A c \in Calls : c.id \in Nat /\ c.ebx \in Nat /\ c.buf \in Nat /\ c.ret \in Int
                  /\ c.old \in 0 .. 255 /\ c.new \in 0 .. 255

VARIABLES
  x,   (* the call *)
  L    (* what the core list holds of it *)

vars == <<x, L>>

Unknown == <<>>
Known(v) == v # Unknown

-----------------------------------------------------------------------------
(* The defines, in the order in which a walk from the instruction meets    *)
(* them: a node that is put right before the instruction comes first.      *)
DefNode(kind, at) == [kind |-> kind, at |-> at, bef |-> Unknown, aft |-> Unknown]
generate_empty_defnode(at) == DefNode("byte", at)

sysenter_handler ==
  [dst |-> <<DefNode("eax", 0), DefNode("block", 0)>>, known |-> {}, umem |-> TRUE, out |-> "ok"]

remove_from_umemlist(K, d) == [K EXCEPT !.umem = @ /\ K.dst[d].kind # "block"]
list_del(K, d) == [K EXCEPT !.dst = RemoveAt(@, d)]
(* Bug: the block stays in umemlist. *)
remove_node(K)  == list_del(K, 2)
remove_block(K) == list_del(remove_from_umemlist(K, 2), 2)
abort(K)  == [K EXCEPT !.out = "abort"]

(* Bug: the last byte is forgotten. *)
extend_short(K, address, size) ==
  [K EXCEPT !.dst = [i \in 1 .. size - 1 |-> generate_empty_defnode(address + i - 1)] \o @]
(* Bug: the bytes are put in the wrong order. *)
extend_descending(K, address, size) ==
  [K EXCEPT !.dst = [i \in 1 .. size |-> generate_empty_defnode(address + size - i)] \o @]
extend_corelist_from_sysenter(K, address, size) ==
  [K EXCEPT !.dst = [i \in 1 .. size |-> generate_empty_defnode(address + i - 1)] \o @]
received(K, address, size) ==
  IF size <= 0 THEN abort(remove_block(K))   (* assert(recv_size > 0) *)
  ELSE extend_corelist_from_sysenter(remove_block(K), address, size)

(* The second argument of recv lies in memory, next to where ecx points.   *)
get_parameter_of_sysenter(K) == "buf" \in K.known

-----------------------------------------------------------------------------
SYS_SOCKET == 1
SYS_CONNECT == 3
SYS_SEND == 9
SYS_RECV == 10
SYS_SENDTO == 11

sys_socketcall_resolver(K) ==
  IF "ebx" \notin K.known \/ ~ Known(K.dst[1].aft) THEN K
  ELSE IF x.ebx = SYS_RECV THEN
    IF "ecx" \in K.known /\ get_parameter_of_sysenter(K)
    THEN received(K, x.buf, K.dst[1].aft[1]) ELSE K
  ELSE IF x.ebx \in {SYS_SENDTO, SYS_SOCKET, SYS_CONNECT, SYS_SEND} THEN K
  ELSE abort(K)
sys_read_resolver(K) ==
  IF "ecx" \notin K.known \/ ~ Known(K.dst[1].aft) THEN K
  ELSE received(K, x.buf, K.dst[1].aft[1])

(* "it does not affect the user space, remove syscall block" *)
(* Bug: the block of a call that writes nothing stays. *)
write_keeps_block(K) == K
sys_write_resolver(K)     == remove_block(K)
sys_close_resolver(K)     == remove_block(K)
sys_fcntl64_resolver(K)   == remove_block(K)
sys_nanosleep_resolver(K) == remove_block(K)
sys_mmap2_resolver(K)     == remove_block(K)
sys_mremap_resolver(K)    == remove_block(K)
sys_munmap_resolver(K)    == remove_block(K)
sys_dup_resolver(K)       == remove_block(K)
sys_lseek_resolver(K)     == remove_block(K)
sys__llseek_resolver(K)   == remove_block(K)
sys_open_resolver(K)      == remove_block(K)
sys_brk_resolver(K)       == remove_block(K)
sys_getrusage_resolver(K) == remove_block(K)
sys_stat64_resolver(K)       == K
sys_fstat64_resolver(K)      == K
sys_rt_sigaction_resolver(K) == K
sys_time_resolver(K)         == K

sys_index_tab ==
  [socketcall |-> 102, write |-> 4, close |-> 6, fcntl64 |-> 221, nanosleep |-> 162,
   mmap2 |-> 192, lseek |-> 19, llseek |-> 140, open |-> 5, brk |-> 45, stat64 |-> 195,
   fstat64 |-> 197, read |-> 3, mremap |-> 163, munmap |-> 91, dup |-> 41,
   getrusage |-> 77, rt_sigaction |-> 174, time |-> 13]
syscall_to_index(id) == {n \in DOMAIN sys_index_tab : sys_index_tab[n] = id}

syscall_resolver(name, K) ==
  CASE name = "socketcall" -> sys_socketcall_resolver(K)
    [] name = "write"      -> sys_write_resolver(K)
    [] name = "close"      -> sys_close_resolver(K)
    [] name = "fcntl64"    -> sys_fcntl64_resolver(K)
    [] name = "nanosleep"  -> sys_nanosleep_resolver(K)
    [] name = "mmap2"      -> sys_mmap2_resolver(K)
    [] name = "lseek"      -> sys_lseek_resolver(K)
    [] name = "llseek"     -> sys__llseek_resolver(K)
    [] name = "open"       -> sys_open_resolver(K)
    [] name = "brk"        -> sys_brk_resolver(K)
    [] name = "stat64"     -> sys_stat64_resolver(K)
    [] name = "fstat64"    -> sys_fstat64_resolver(K)
    [] name = "read"       -> sys_read_resolver(K)
    [] name = "mremap"     -> sys_mremap_resolver(K)
    [] name = "munmap"     -> sys_munmap_resolver(K)
    [] name = "dup"        -> sys_dup_resolver(K)
    [] name = "getrusage"  -> sys_getrusage_resolver(K)
    [] name = "rt_sigaction" -> sys_rt_sigaction_resolver(K)
    [] name = "time"       -> sys_time_resolver(K)

(* A call counts as resolved when it has not two defines.                  *)
dispatch(K) ==
  IF ~ Known(K.dst[1].bef) THEN K
  ELSE IF syscall_to_index(K.dst[1].bef[1]) = {} THEN abort(K)
  ELSE syscall_resolver(CHOOSE n \in syscall_to_index(K.dst[1].bef[1]) : TRUE, K)
(* Bug: nothing tells that the call has been resolved. *)
sysenter_again(K) == IF Len(K.dst) = 1 THEN K ELSE dispatch(K)
sysenter_resolver(K) == IF Len(K.dst) # 2 THEN K ELSE dispatch(K)

-----------------------------------------------------------------------------
Truth(d, side) ==
  CASE d.kind = "eax"  -> IF side = "bef" THEN x.id ELSE x.ret
    [] d.kind = "byte" -> IF side = "bef" THEN x.old ELSE x.new

Init ==
  /\ x \in Calls
  /\ L = sysenter_handler

(* A value arrives from the instructions before or after.                  *)
LearnArgument(a) ==
  /\ L.out = "ok" /\ a \notin L.known
  /\ L' = [L EXCEPT !.known = @ \cup {a}]
  /\ UNCHANGED x
LearnNode(d, side) ==
  /\ L.out = "ok" /\ L.dst[d].kind # "block" /\ ~ Known(L.dst[d][side])
  /\ L' = [L EXCEPT !.dst[d][side] = <<Truth(L.dst[d], side)>>]
  /\ UNCHANGED x

Resolve ==
  /\ L.out = "ok" /\ sysenter_resolver(L) # L
  /\ L' = sysenter_resolver(L)
  /\ UNCHANGED x

Next ==
  \/ \E a \in {"ebx", "ecx", "buf"} : LearnArgument(a)
  \/ \E d \in DOMAIN L.dst, side \in {"bef", "aft"} : LearnNode(d, side)
  \/ Resolve

(* re_resolve goes on until no instruction is left to look at.             *)
Spec == Init /\ [][Next]_vars /\ WF_vars(Resolve)

-----------------------------------------------------------------------------
(* What the resolvers take the kernel to do: a call they find harmless     *)
(* writes nothing, and one that receives writes no more than it returns.   *)
NotAffecting == {"write", "close", "fcntl64", "nanosleep", "mmap2", "lseek", "llseek",
                 "open", "brk", "mremap", "munmap", "dup", "getrusage"}
Receives(c) == \/ c.id = sys_index_tab["read"]
               \/ c.id = sys_index_tab["socketcall"] /\ c.ebx = SYS_RECV
KernelWrites ==
  \A c \in Calls :
    /\ (\E n \in NotAffecting : c.id = sys_index_tab[n]) => c.writes = {}
    /\ Receives(c) => c.writes \subseteq c.buf .. c.buf + c.ret - 1

(* A call that receives a single byte is left with two defines, as if it   *)
(* had not been resolved.                                                  *)
NoOneByte == \A c \in Calls : Receives(c) => c.ret # 1

(* The defines of the bytes received come first, from the lowest address.  *)
TypeOK ==
  /\ x \in Calls
  /\ L.known \subseteq {"ebx", "ecx", "buf"} /\ L.umem \in BOOLEAN /\ L.out \in {"ok", "abort"}
  /\ \A d \in DOMAIN L.dst :
       /\ L.dst[d].kind \in {"eax", "block", "byte"}
       /\ L.dst[d].kind = "byte" => L.dst[d].at = x.buf + d - 1

(* A search for the value of a cell that the kernel wrote does not get     *)
(* past the call: it meets the block, or a define of that very byte.       *)
WritesCovered ==
  L.out = "ok" =>
    \A a \in x.writes : L.umem \/ \E d \in DOMAIN L.dst : L.dst[d].kind = "byte" /\ L.dst[d].at = a

(* The block is in the core list exactly when it is in umemlist, so that   *)
(* a walk over either meets the same obstacles.                            *)
Consistent == L.umem <=> \E d \in DOMAIN L.dst : L.dst[d].kind = "block"

EaxDefines(K) == {d \in DOMAIN K.dst : K.dst[d].kind = "eax"}
KnownBytes(K) == {<<d.at, d.aft>> : d \in {e \in {K.dst[i] : i \in DOMAIN K.dst} : Known(e.aft)}}

(* Whatever a call is resolved to, it keeps one define of eax, and a known *)
(* value of a define is never dropped with its node.                       *)
NothingDropped == [][EaxDefines(L') # {} /\ KnownBytes(L) \subseteq KnownBytes(L')]_vars

Harmless == {"write", "close", "fcntl64", "mmap2", "open", "dup", "lseek", "brk"}
NumberKnown == L.out = "ok" /\ Len(L.dst) = 2 /\ Known(L.dst[1].bef)

(* A call whose resolver finds that the user space is not affected does    *)
(* not stay an obstacle for ever: once its number is known, the block is   *)
(* taken out.                                                              *)
Unblocked ==
  x.id \in {sys_index_tab[n] : n \in Harmless} /\ NumberKnown ~> ~ L.umem

(* "if you have resolved the system call 1. system call affects the user   *)
(* space memory - ndef > 2 2. system call does not affect the user space   *)
(* memory - ndef == 1" (handler_system.c, lines 209-211): a call whose     *)
(* block has been taken out is not resolved a second time.                 *)
ResolvedOnce == [][~ L.umem => DOMAIN L'.dst = DOMAIN L.dst /\ L'.out = L.out]_vars
=============================================================================
