----------------------------- MODULE ControlInst -----------------------------
(***************************************************************************)
(* handler_stack.c, handler_controlflow.c, handler_comparison.c and        *)
(* handler_system.c: the stack, transfers of control, comparisons and      *)
(* system instructions.  The place "stk" is the cell that esp points to.   *)
(*                                                                         *)
(* x.next is the address of the instruction executed next; the crash       *)
(* instruction has none, and the code reads what lies before the array.    *)
(***************************************************************************)
EXTENDS MoveInst

Esp      == Dword("esp")
EspOnce  == Dword("esp, first")   (* leave writes esp twice *)
Ebp      == Dword("ebp")
Eip      == Dword("eip")
StackMem == Operand("mem", "stk", "dword")
ADDR_SIZE_IN_BYTE == DW

(* esp after define d is esp before it plus a step. *)
step_back(K, d, by) ==
  IF Known(K.aft[d]) THEN tell(K, "bef", d, SubVal(K.aft[d], by)) ELSE K
step_ahead(K, d, by) ==
  IF Known(K.bef[d]) THEN tell(K, "aft", d, AddVal(K.bef[d], by)) ELSE K
(* Bug: esp is only followed backwards. *)
steps_back_only(K, d, by) == step_back(K, d, by)
steps(K, d, by) == step_ahead(step_back(K, d, by), d, by)
Up   == ToBytes(ADDR_SIZE_IN_BYTE, DW)
Down == Mod(0 - ADDR_SIZE_IN_BYTE, Up)

push_handler(x) == DefineAt(StackMem) \o <<Define(Esp)>> \o UseAt(x.src)
push_resolver(x, K) ==
  steps(both_ways(K, 1, 1, sign_extend_valset(K.val[1], DW), K.aft[1]), 2, Down)

pop_handler(x) == <<Define(Esp)>> \o DefineAt(x.dst) \o UseAt(StackMem)
pop_resolver(x, K) == steps(copies(K, 1, 2), 1, Up)

(* esp := ebp, then pop ebp. *)
leave_handler(x) ==
  <<Define(Esp), Define(Ebp)>> \o UseAt(StackMem) \o <<Define(EspOnce), Use(Ebp)>>
leave_resolver(x, K) == steps(copies(copies(K, 1, 2), 2, 3), 1, Up)

(* pusha, popa, pushf, popf, enter, xlat, bts and btr end the tool.        *)
NotHandled == {"pusha", "popa", "pushf", "popf", "enter", "xlat", "bts", "btr", "std", "out"}

-----------------------------------------------------------------------------
Next_address(x) == IF x.next = <<>> THEN x.garbage ELSE x.next
Target(x) == IF x.src.t = "rel" THEN <<>> ELSE UseAt(x.src)
goes_to_next(x, K, u) == IF sees(K, {u}, {}) THEN K ELSE put(K, "val", u, Next_address(x))

jmp_handler(x) == Target(x)
jmp_resolver(x, K) == IF K.src = <<>> THEN K ELSE goes_to_next(x, K, 1)

call_handler(x) ==
  IF x.src.t = "rel" /\ Next_address(x) # Before(x, x.src) THEN Unsupported
  ELSE <<DefineAs(StackMem, x.return), Split(StackMem), Define(Esp)>> \o Target(x)
call_resolver(x, K) ==
  IF K.src = <<>> THEN steps(K, 2, Down) ELSE goes_to_next(x, steps(K, 2, Down), 1)

(* ret, or ret n: n bytes more. *)
return_handler(x) ==
  (IF x.src.t = "imm" THEN <<Use(x.src)>> ELSE <<>>) \o
  <<Define(Esp), DefineAs(Eip, x.next)>> \o UseAt(StackMem)
(* Bug: the bytes that ret n removes are forgotten. *)
return_short(x, K) == steps(IF sees(K, {}, {2}) THEN tell(K, "val", Len(K.src), K.aft[2]) ELSE K, 1, Up)
return_resolver(x, K) ==
  steps(IF sees(K, {}, {2}) THEN tell(K, "val", Len(K.src), K.aft[2]) ELSE K, 1,
        IF x.src.t = "imm" THEN AddVal(Up, K.val[1]) ELSE Up)

(* Conditional jumps have no nodes, and some have no case either.          *)
JccNames == {"ja", "jne", "jnz", "jle", "jz", "jnc", "jc", "jbe", "jg", "jge",
             "js", "jns", "jl", "jpe", "jcxz"}
jcc_handler(x) == IF x.op \in JccNames THEN <<>> ELSE Unsupported

(* Comparisons only read. *)
cmp_handler(x)  == Accept(x, {RR, RI, RM, MR, MI}, UseAt(x.dst) \o UseAt(x.src))
test_handler(x) == cmp_handler(x)

(* rdtsc, cpuid and int define registers of which nothing is concluded.    *)
rdtsc_handler(x) == <<Define(Edx), Define(Eax)>>
cpuid_handler(x) == <<Define(Eax), Define(Dword("ecx")), Define(Edx), Define(Dword("ebx")), Use(Eax)>>
int_handler(x)   == <<Define(Eax)>>
nothing_concluded(x, K) == K

-----------------------------------------------------------------------------
(* The processor.  rdtsc, cpuid and int leave x.garbage, which is anything. *)
Control(x) ==
  LET esp == x.before["esp"]
  IN  CASE x.op = "push"  -> ("stk" := sign_extend_valset(Before(x, x.src), DW)) ++
                             ("esp" := SubVal(esp, Up))
        [] x.op = "pop"   -> ("esp" := AddVal(esp, Up)) ++ (x.dst.place := x.before["stk"])
        [] x.op = "leave" -> ("esp, first" := x.before["ebp"]) ++ ("ebp" := x.before["stk"]) ++
                             ("esp" := AddVal(esp, Up))
        [] x.op = "call"  -> ("stk" := x.return) ++ ("esp" := SubVal(esp, Up))
        [] x.op = "ret"   -> ("esp" := AddVal(AddVal(esp, Up),
                                IF x.src.t = "imm" THEN Before(x, x.src) ELSE <<0>>)) ++
                             ("eip" := x.before["stk"])
        [] x.op = "rdtsc" -> ("edx" := x.garbage) ++ ("eax" := x.garbage)
        [] x.op = "cpuid" -> ("eax" := x.garbage) ++ ("ebx" := x.garbage) ++
                             ("ecx" := x.garbage) ++ ("edx" := x.garbage)
        [] x.op = "int"   -> "eax" := x.garbage
        [] OTHER          -> NoChange
=============================================================================
