--------------------------- MODULE MCInstructions ---------------------------
(***************************************************************************)
(* Instances of InstructionStep: every mnemonic with the operand forms its *)
(* handler takes, and a few values of each size, with zero, all ones, and  *)
(* a set and an unset sign among them.                                     *)
(***************************************************************************)
EXTENDS InstructionStep

NoOperand == Operand("none", "none", "byte")
Blank ==
  [op |-> "nop", dst |-> NoOperand, src |-> NoOperand, third |-> NoOperand,
   before |-> <<>>, flag |-> 0, garbage |-> <<2, 2, 2, 2>>, next |-> <<1, 2, 0, 1>>,
   return |-> <<3, 0, 1, 1>>, prefix |-> FALSE, earlier |-> <<>>, dt |-> "byte"]

Samples(dt) ==
  CASE dt = "byte"   -> {<<1>>, <<3>>}
    [] dt = "word"   -> {<<1, 0>>, <<2, 3>>}
    [] dt \in {"dword", "qword"} -> {<<1, 0, 0, 0>>, <<3, 1, 2, 3>>}
    [] dt = "dqword" -> {<<1, 0, 2, 0, 3, 1, 0, 2>>, <<3, 0, 2, 1, 3, 3, 0, 0>>}

One(op, dst) ==
  {[Blank EXCEPT !.op = op, !.dst = dst, !.before = dst.place :> a] : a \in Samples(dst.dt)}
Two(op, dst, src) ==
  {[Blank EXCEPT !.op = op, !.dst = dst, !.src = src,
                 !.before = (dst.place :> a) @@ (src.place :> b)] :
     a \in Samples(dst.dt), b \in Samples(src.dt)}
With(set, place, values) ==
  {[i EXCEPT !.before = (place :> v) @@ @] : i \in set, v \in values}
Third(set, dt) == {[i EXCEPT !.third = I(dt)] : i \in With(set, "imm", Samples(dt))}
Flags(set) == {[i EXCEPT !.flag = f] : i \in set, f \in {0, 1}}

A == "eax"
B == "ebx"
Dst(form, dt) == IF form[1] = "reg" THEN R(A, dt) ELSE M(dt)
Src(form, dt) ==
  CASE form[2] = "reg" -> R(B, dt) [] form[2] = "mem" -> M(dt) [] form[2] = "imm" -> I(dt)
Forms(op, forms, dts) == UNION {Two(op, Dst(f, dt), Src(f, dt)) : f \in forms, dt \in dts}
Narrow(op, forms, dts) == UNION {Two(op, Dst(f, dt), Src(f, "byte")) : f \in forms, dt \in dts}
Xmm(op, forms) == Forms(op, forms, {"dqword"})

Small3 == {"byte", "word", "dword"}
Integer ==
  UNION {Forms(op, {RR, RM, MI, MR, RI}, Small3) : op \in {"add", "sub", "mov"}}
  \cup UNION {Narrow(op, {RI, MI}, {"word", "dword"}) : op \in {"add", "sub", "and"}}
  \cup Flags(Forms("adc", {RR}, {"dword"}) \cup Forms("sbb", {RR}, {"dword"}))
  \cup Forms("and", {RI, MI, RR, RM}, Small3) \cup Forms("or", {RR, RM, RI, MR, MI}, Small3)
  \cup Forms("xor", {RR, RM, RI}, Small3) \cup {[i EXCEPT !.src = i.dst] : i \in One("xor", Dword(A))}
  \cup UNION {One(op, R(A, dt)) : op \in {"inc", "dec", "neg", "not"}, dt \in Small3}
  \cup One("not", M("word"))
  \cup UNION {Narrow(op, {RR, RI, MI}, Small3) : op \in {"shl", "shr"}}
  \cup Narrow("rol", {RI}, {"dword"}) \cup Narrow("ror", {RI}, {"dword"})

Moves ==
  UNION {Two(op, R(A, "dword"), s) : op \in {"movzx", "movsx"}, s \in {R(B, "byte"), M("word")}}
  \cup Flags(Forms("cmovcc", {RR, RM}, {"dword"}) \cup One("setcc", R(A, "byte")) \cup One("setcc", M("byte")))
  \cup One("bswap", Dword(A)) \cup Forms("xchg", {RR, MR}, {"byte", "dword"})
  \cup With(Forms("cmpxchg", {MR}, {"byte"}), "eax", Samples("byte"))
  \cup With(Two("cmpxchg", Dword("ecx"), Dword(B)), "eax", Samples("dword"))
  \cup Forms("bsr", {RR, RM}, {"dword"}) \cup Forms("bsf", {RR, RM}, {"dword"}) \cup Forms("bt", {RR}, {"dword"})
  \cup With(One("cdq", Dword(A)), "edx", {<<1, 0, 0, 0>>})

Vectors ==
  UNION {Xmm(op, {RR, RM}) : op \in {"pxor", "por", "pcmpeqb", "pcmpgtb", "pmaxub", "mov"}}
  \cup Xmm("pminub", {RR}) \cup Xmm("punpcklbw", {RR}) \cup Xmm("ptest", {RR})
  \cup Two("pmovmskb", Dword(A), R(B, "dqword"))
  \cup {[i EXCEPT !.third = I("byte")] : i \in With(Xmm("pshufd", {RR, RM, MR}), "imm", {<<0>>})}
  \cup Third(Xmm("palignr", {RR, RM}), "byte")
  \cup Two("movq", R(A, "dqword"), Dword(B)) \cup Two("movq", Dword(A), R(B, "dqword"))
  \cup UNION {Two(op, R(A, "dqword"), M("qword")) : op \in {"movlpd", "movhpd"}}
  \cup UNION {Two(op, M("qword"), R(B, "dqword")) : op \in {"movlpd", "movhpd"}}

Stacked(set) == With(With(set, "esp", {<<0, 2, 0, 0>>}), "stk", {<<3, 1, 0, 2>>})
SrcOnly(op, src, values) ==
  {[Blank EXCEPT !.op = op, !.src = src, !.before = src.place :> v] : v \in values}
NextAddress == Blank.next
ControlFlow ==
  Stacked(UNION {SrcOnly("push", s, Samples(s.dt)) : s \in {Dword(A), M("dword"), I("byte"), I("dword")}})
  \cup Stacked(One("pop", Dword(A)) \cup One("pop", M("dword")))
  \cup With(Stacked({[Blank EXCEPT !.op = "leave", !.before = "ebp" :> <<0, 2, 0, 0>>]}),
            "esp, first", {<<0, 1, 0, 0>>})
  \cup UNION {SrcOnly("jmp", s, {NextAddress}) : s \in {Dword(A), M("dword"), Operand("rel", "rel", "dword")}}
  \cup Stacked(UNION {SrcOnly("call", s, {NextAddress}) : s \in {Dword(A), M("dword"), Operand("rel", "rel", "dword")}})
  \cup With(With(With(SrcOnly("ret", NoOperand, {<<0>>}) \cup SrcOnly("ret", I("word"), {<<0, 2>>}),
                      "stk", {NextAddress}), "esp", {<<0, 2, 0, 0>>}), "eip", {<<2, 2, 0, 1>>})
  \cup Forms("cmp", {RR, RI, RM, MR, MI}, {"byte", "dword"}) \cup Forms("test", {RR}, {"dword"})
  \cup {[Blank EXCEPT !.op = o, !.before = [p \in {"eax", "ebx", "ecx", "edx"} |-> <<1, 0, 0, 0>>]] :
          o \in {"rdtsc", "cpuid", "int"}}
  \cup {[Blank EXCEPT !.op = o] : o \in {"jne", "cld", "nop"}}

Directions == {<<"std">>, <<"cld", "std">>}
Pointers(set) == With(With(set, "edi", {<<3, 1, 0, 0>>}), "esi", {<<0, 2, 1, 0>>})
Counts == {zero_valset(DW), <<2, 0, 0, 0>>}
Plain(op, dst, src, dt) ==
  {[i EXCEPT !.earlier = e, !.dt = dt] :
     i \in Pointers({CHOOSE i \in Two(op, dst, src) : TRUE}), e \in Directions}
Repeated(set) == {[i EXCEPT !.prefix = TRUE] : i \in With(set, "ecx", Counts)}
Forward(set) == {i \in set : i.earlier # <<"std">>}
Strings ==
  UNION {Plain("movs", AtEdi(dt), AtEsi(dt), dt) \cup Plain("stos", AtEdi(dt), R(A, dt), dt)
         \cup Plain("lods", R(A, dt), AtEsi(dt), dt) : dt \in {"byte", "dword"}}
  \cup Repeated(Plain("movs", AtEdi("byte"), AtEsi("byte"), "byte"))
  \cup Repeated(Forward(Plain("stos", AtEdi("byte"), R(A, "byte"), "byte")))
  \cup Repeated(Plain("scas", AtEdi("byte"), R(A, "byte"), "byte"))
  \cup Repeated(Plain("cmps", AtEdi("byte"), AtEsi("byte"), "byte"))

(* div ebx, with a quotient of one word. *)
Quotients == With(With(SrcOnly("div", Dword(B), {<<3, 0, 0, 0>>}), "eax", {<<1, 2, 1, 0>>}),
                  "edx", {<<1, 0, 0, 0>>})

MCInstances == Integer \cup Moves \cup Vectors \cup ControlFlow \cup Strings

ASSUME MCSupported == \A i \in MCInstances : Supported(i)
=============================================================================
