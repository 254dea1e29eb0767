---------------------------- MODULE MCSystemCalls ----------------------------
(***************************************************************************)
(* Instances of SystemCalls: every call of the table and one that is not   *)
(* in it, receiving nothing, an error or some bytes; calls that write the  *)
(* user space although their resolver says they do not are left out.       *)
(***************************************************************************)
EXTENDS SystemCalls

Call(name, ebx, ret, writes) ==
  [id |-> sys_index_tab[name], ebx |-> ebx, ret |-> ret, buf |-> 4, writes |-> writes,
   old |-> sys_index_tab["close"], new |-> 7]
Received(ret) == 4 .. 3 + ret

Receiving(rets) ==
  {Call("read", 0, n, Received(n)) : n \in rets} \cup
  {Call("socketcall", SYS_RECV, n, Received(n)) : n \in rets}
Sockets == {Call("socketcall", n, 0, {}) : n \in {SYS_SEND, SYS_CONNECT, 5}}
Writing == {Call(name, 0, 0, {8, 9}) : name \in {"stat64", "fstat64", "rt_sigaction", "time"}}
Quiet   == {Call(name, 0, 0, {}) :
              name \in DOMAIN sys_index_tab \ {"socketcall", "read", "getrusage", "llseek"}}

MCCalls == Receiving({-1, 0, 2, 3}) \cup Sockets \cup Writing \cup Quiet
             \cup {[Call("write", 0, 0, {}) EXCEPT !.id = 1]}
OneByte == Receiving({1})

(* The premises of the theorems hold of these calls.                       *)
ASSUME KernelAssumption == KernelWrites
ASSUME ReturnAssumption == Calls = OneByte \/ NoOneByte
=============================================================================
