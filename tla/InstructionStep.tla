--------------------------- MODULE InstructionStep ---------------------------
(***************************************************************************)
(* Reverse execution seen from one instruction.  Its handler has created   *)
(* the nodes; from then on values arrive from the neighbours in any order, *)
(* and whenever one has arrived its resolver may run.  In a hypothesis     *)
(* test one of the values may be wrong, and then the resolver has to meet  *)
(* a contradiction or to say nothing: an assertion that fails there ends   *)
(* the tool instead of the hypothesis.                                     *)
(***************************************************************************)
EXTENDS StringInst

CONSTANT Instances   (* instructions, with the values they find *)

VARIABLES
  x,          (* the instruction *)
  K,          (* what is known of its nodes *)
  supposed,   (* a wrong value has been assumed *)
  fresh       (* the resolver has not seen the last value yet *)

vars == <<x, K, supposed, fresh>>

-----------------------------------------------------------------------------
(* Tables of handlers, resolvers and, for the processor, effects.          *)
(* What libdisasm does not know is told apart by its mnemonic.             *)
VectorNames == {"pxor", "por", "pand", "psubb", "pcmpeqb", "pcmpgtb", "pmaxub", "pminub",
                "punpcklbw", "pshufd", "palignr", "pmovmskb", "movq", "ptest", "badinst"}
unknown_handler(i) ==
  CASE i.op = "pxor" -> pxor_handler(i)
    [] i.op = "por" -> or_handler(i)
    [] i.op = "pand" -> and_handler(i)
    [] i.op = "psubb" -> sub_handler(i)
    [] i.op = "pcmpeqb" -> pcmpeqb_handler(i)
    [] i.op = "pcmpgtb" -> pcmpgtb_handler(i)
    [] i.op = "pmaxub" -> pmaxub_handler(i)
    [] i.op = "pminub" -> pminub_handler(i)
    [] i.op = "punpcklbw" -> punpcklbw_handler(i)
    [] i.op = "pshufd" -> pshufd_handler(i)
    [] i.op = "palignr" -> palignr_handler(i)
    [] i.op = "pmovmskb" -> pmovmskb_hanlder(i)
    [] i.op = "movq" -> mov_handler(i)
    [] i.op = "ptest" -> cmp_handler(i)
    [] OTHER -> Unsupported

unknown_resolver(i, L) ==
  CASE i.op = "pxor" -> pxor_resolver(i, L)
    [] i.op = "por" -> or_resolver(i, L)
    [] i.op = "pand" -> and_resolver(i, L)
    [] i.op = "psubb" -> sub_resolver(i, L)
    [] i.op = "pcmpeqb" -> pcmpeqb_resolver(i, L)
    [] i.op = "pcmpgtb" -> pcmpgtb_resolver(i, L)
    [] i.op = "pmaxub" -> pmaxub_resolver(i, L)
    [] i.op = "pminub" -> pminub_resolver(i, L)
    [] i.op = "punpcklbw" -> punpcklbw_resolver(i, L)
    [] i.op = "pshufd" -> pshufd_resolver(i, L)
    [] i.op = "palignr" -> palignr_resolver(i, L)
    [] i.op = "pmovmskb" -> pmovmskb_resolver(i, L)
    [] i.op = "movq" -> movq_resolver(i, L)
    [] i.op = "ptest" -> nothing_concluded(i, L)
    [] OTHER -> abort(L)

inst_handler(i) ==
  CASE i.op \in VectorNames             -> unknown_handler(i)
    [] i.op \in {"add", "adc"}          -> add_handler(i)
    [] i.op \in {"sub", "sbb"} -> sub_handler(i)
    [] i.op = "inc"  -> inc_handler(i)
    [] i.op = "dec"  -> dec_handler(i)
    [] i.op \in {"mul", "imul2", "imul3"} -> mul_handler(i)
    [] i.op = "div"  -> div_handler(i)
    [] i.op \in {"shl", "shld"} -> shl_handler(i)
    [] i.op = "shr"  -> shr_handler(i)
    [] i.op = "rol"  -> rol_handler(i)
    [] i.op = "ror"  -> ror_handler(i)
    [] i.op = "and"  -> and_handler(i)
    [] i.op = "or"   -> or_handler(i)
    [] i.op = "xor"  -> pxor_handler(i)
    [] i.op = "not"  -> not_handler(i)
    [] i.op = "neg"  -> neg_handler(i)
    [] i.op \in {"mov", "movzx", "movsx", "movlpd", "movhpd"} -> mov_handler(i)
    [] i.op \in {"cmovcc", "setcc"}   -> movcc_handler(i)
    [] i.op \in {"xchg", "bswap"} -> xchg_handler(i)
    [] i.op = "cmpxchg" -> xchgcc_handler(i)
    [] i.op \in {"bt", "bsr", "bsf"}  -> bittest_handler(i)
    [] i.op = "cdq"   -> szconv_handler(i)
    [] i.op = "push"  -> push_handler(i)
    [] i.op = "pop"   -> pop_handler(i)
    [] i.op = "leave" -> leave_handler(i)
    [] i.op = "jmp"   -> jmp_handler(i)
    [] i.op = "call"  -> call_handler(i)
    [] i.op = "ret"   -> return_handler(i)
    [] i.op = "cmp"   -> cmp_handler(i)
    [] i.op = "test"  -> test_handler(i)
    [] i.op = "rdtsc" -> rdtsc_handler(i)
    [] i.op = "cpuid" -> cpuid_handler(i)
    [] i.op = "int"   -> int_handler(i)
    [] i.op = "scas"  -> strsca_handler(i)
    [] i.op = "cmps"  -> strcmp_handler(i)
    [] i.op = "movs"  -> strmov_handler(i)
    [] i.op = "stos"  -> strstore_handler(i)
    [] i.op = "lods"  -> strload_handler(i)
    [] i.op \in {"cld", "nop", "fpu"} -> <<>>
    [] i.op \in JccNames \cup {"jo"}  -> jcc_handler(i)
    [] i.op \in NotHandled            -> Unsupported

inst_resolver(i, L) ==
  CASE i.op \in VectorNames             -> unknown_resolver(i, L)
    [] i.op \in {"add", "adc"}          -> add_resolver(i, L)
    [] i.op \in {"sub", "sbb"} -> sub_resolver(i, L)
    [] i.op = "inc"  -> inc_resolver(i, L)
    [] i.op = "dec"  -> dec_resolver(i, L)
    [] i.op \in {"mul", "imul2", "imul3"} -> mul_resolver(i, L)
    [] i.op = "div"  -> div_resolver(i, L)
    [] i.op \in {"shl", "shld"} -> shl_resolver(i, L)
    [] i.op = "shr"  -> shr_resolver(i, L)
    [] i.op = "rol"  -> rol_resolver(i, L)
    [] i.op = "ror"  -> ror_resolver(i, L)
    [] i.op = "and"  -> and_resolver(i, L)
    [] i.op = "or"   -> or_resolver(i, L)
    [] i.op = "xor"  -> pxor_resolver(i, L)
    [] i.op = "not"  -> not_resolver(i, L)
    [] i.op = "neg"  -> neg_resolver(i, L)
    [] i.op \in {"mov", "movzx", "movsx", "movlpd", "movhpd"} -> mov_resolver(i, L)
    [] i.op \in {"cmovcc", "setcc"}   -> movcc_resolver(i, L)
    [] i.op \in {"xchg", "bswap"} -> xchg_resolver(i, L)
    [] i.op = "cmpxchg" -> xchgcc_resolver(i, L)
    [] i.op \in {"bt", "bsr", "bsf"}  -> bittest_resolver(i, L)
    [] i.op = "cdq"   -> szconv_resolver(i, L)
    [] i.op = "push"  -> push_resolver(i, L)
    [] i.op = "pop"   -> pop_resolver(i, L)
    [] i.op = "leave" -> leave_resolver(i, L)
    [] i.op = "jmp"   -> jmp_resolver(i, L)
    [] i.op = "call"  -> call_resolver(i, L)
    [] i.op = "ret"   -> return_resolver(i, L)
    [] i.op = "scas"  -> strsca_resolver(i, L)
    [] i.op = "cmps"  -> strcmp_resolver(i, L)
    [] i.op = "movs"  -> strmov_resolver(i, L)
    [] i.op = "stos"  -> strstore_resolver(i, L)
    [] i.op = "lods"  -> strload_resolver(i, L)
    [] OTHER -> nothing_concluded(i, L)

ArithmeticNames == {"add", "adc", "sub", "sbb", "psubb", "inc", "dec", "mul", "imul2",
                    "imul3", "div", "shl", "shr", "shld", "rol", "ror"}
LogicNames == {"and", "pand", "or", "por", "xor", "pxor", "not", "neg", "pcmpeqb",
               "pcmpgtb", "pmaxub", "pminub", "pmovmskb", "punpcklbw", "pshufd",
               "palignr", "movq", "movlpd", "movhpd"}
MoveNames == {"mov", "movzx", "movsx", "cmovcc", "setcc", "bswap", "xchg", "cmpxchg",
              "bsr", "bsf", "bt", "cdq"}
StringNames == {"scas", "cmps", "movs", "stos", "lods"}
Effect(i) ==
  CASE i.op \in ArithmeticNames -> Arithmetic(i)
    [] i.op \in LogicNames      -> Logic(i)
    [] i.op \in MoveNames       -> Move(i)
    [] i.op \in StringNames     -> String(i)
    [] OTHER                    -> Control(i)

-----------------------------------------------------------------------------
(* The places an instruction touches hold values of their sizes.           *)
Accessed(i) ==
  LET nodes == inst_handler(i)
  IN  {nodes[n].o : n \in {m \in DOMAIN nodes : nodes[m].node \in {"def", "use"}}}
IsInstruction(i) ==
  /\ i.flag \in {0, 1} /\ i.prefix \in BOOLEAN /\ i.dt \in Range(Datatypes)
  /\ i.return \in Bytes(DW) /\ i.garbage \in Bytes(DW) /\ i.next \in Bytes(DW) \cup {<<>>}
  /\ \A o \in Accessed(i) :
       /\ o.dt \in Range(Datatypes)
       /\ o.place \in DOMAIN i.before /\ i.before[o.place] \in Bytes(Size(o))

ASSUME InstancesAssumption == \A i \in Instances : IsInstruction(i)

(* The instructions, with the sizes of their operands, that the tool means *)
(* to handle and does: the others abort, or are computed wrong.            *)
Handled(i) == \A n \in DOMAIN inst_handler(i) : inst_handler(i)[n].node # "assert"
SameSize(i) == i.dst.dt = i.src.dt
LeadsToNext(i) == i.src.t = "rel" \/ i.next = Before(i, i.src)
DirectionSeen(i) == i.earlier # <<>> \/ i.flag = 0
Supported(i) ==
  /\ Handled(i)
  /\ CASE i.op = "add" -> i.dst.dt \in Small /\ (SameSize(i) \/ i.src = I("byte"))
       [] i.op = "sub" -> i.dst.dt \in Small /\ (SameSize(i) \/ i.src = I("byte"))
       [] i.op \in {"adc", "sbb", "inc", "dec", "not", "neg", "bt", "cdq", "leave", "rdtsc",
                    "cpuid", "int", "cmp", "test", "ptest", "cld", "nop", "fpu"}
                   \cup JccNames -> TRUE
       [] i.op \in {"shl", "shr"} -> i.src.dt = "byte"
       [] i.op \in {"rol", "ror"} -> i.dst.dt = "dword" /\ i.src.dt = "byte"
       [] i.op = "and" -> i.src.dt \in Small
       [] i.op \in {"or", "por", "xor", "pxor", "mov", "xchg", "pcmpeqb", "pcmpgtb", "pmaxub",
                    "punpcklbw"} -> SameSize(i)
       [] i.op = "pminub" -> SameSize(i) /\ Form(i) = RR
       [] i.op = "pmovmskb" -> Size(i.dst) = DW
       [] i.op = "pshufd" ->
            i.dst.dt = "dqword" /\ SameSize(i) /\ i.third.t = "imm" /\ Before(i, i.third)[1] = 0
       [] i.op = "palignr" ->
            i.dst.dt = "dqword" /\ SameSize(i) /\ i.third.t = "imm" /\ Before(i, i.third)[1] <= 2 * DW
       [] i.op = "movq" -> i.src.dt \in Small \cup {"dqword"}
       [] i.op \in {"movlpd", "movhpd"} ->
            IF i.dst.t = "reg" THEN i.dst.dt = "dqword" /\ Size(i.src) = DW
            ELSE Size(i.dst) = DW /\ i.src.dt = "dqword"
       [] i.op \in {"movzx", "movsx"} -> Rank(i.dst.dt) > Rank(i.src.dt)
       [] i.op = "cmovcc" -> SameSize(i) /\ i.src.t # "none"
       [] i.op = "setcc" -> i.dst.dt = "byte"
       [] i.op = "bswap" -> i.dst.dt = "dword"
       [] i.op = "cmpxchg" -> SameSize(i) /\ i.dst.dt \in {"byte", "dword"} /\ i.dst.place # "eax"
       [] i.op \in {"bsr", "bsf"} -> Size(i.dst) = DW /\ SetBits(Before(i, i.src)) # {}
       [] i.op = "push" -> i.src.dt \in Small
       [] i.op = "pop"  -> i.dst.dt = "dword" /\ i.dst.place # "esp"
       [] i.op \in {"jmp", "call"} -> LeadsToNext(i)
       [] i.op = "ret"  -> i.next = i.before["stk"]
       [] i.op \in {"scas", "cmps"} -> DirectionSeen(i)
       [] i.op = "movs" -> DirectionSeen(i) /\ SameSize(i) /\ i.dst.place \notin {"edi", "esi", "ecx"}
       [] i.op = "stos" ->
            /\ DirectionSeen(i) /\ SameSize(i) /\ i.dst.place \notin {"edi", "ecx"}
            /\ i.src.t = "reg" /\ ~ (i.prefix /\ resolve_df(i))
       [] i.op = "lods" ->
            DirectionSeen(i) /\ SameSize(i) /\ i.dst.t = "reg" /\ i.dst.place # "esi" /\ ~ i.prefix
       [] OTHER -> FALSE

-----------------------------------------------------------------------------
Slots(L) ==
  {<<"val", i>> : i \in DOMAIN L.val} \cup {<<"aft", j>> : j \in DOMAIN L.aft} \cup
  {<<"bef", j>> : j \in {d \in DOMAIN L.bef : L.dst[d].place \in {"esp", "esp, first"}}}
KnownAt(L, s) == Known(L[s[1]][s[2]])
Truth(i, L, s) ==
  CASE s[1] = "val" -> i.before[L.src[s[2]].place]
    [] s[1] = "bef" -> i.before[L.dst[s[2]].place]
    [] s[1] = "aft" -> (Effect(i) ++ i.before)[L.dst[s[2]].place]

(* Another value of the same size: its first byte or its sign is off.     *)
Wrong(v) ==
  {[v EXCEPT ![1] = (@ + 1) % Radix], [v EXCEPT ![Len(v)] = (@ + Radix \div 2) % Radix]}

Init ==
  /\ x \in Instances
  /\ K = KnowledgeOf(x, inst_handler(x))
  /\ supposed = FALSE
  /\ fresh = TRUE

Learn(s) ==
  /\ K.out = "ok" /\ ~ KnownAt(K, s)
  /\ K' = put(K, s[1], s[2], Truth(x, K, s))
  /\ fresh' = TRUE
  /\ UNCHANGED <<x, supposed>>

Suppose(s, v) ==
  /\ K.out = "ok" /\ ~ KnownAt(K, s) /\ ~ supposed
  /\ K' = put(K, s[1], s[2], v)
  /\ supposed' = TRUE
  /\ fresh' = TRUE
  /\ UNCHANGED x

Resolve ==
  /\ K.out = "ok" /\ fresh
  /\ K' = inst_resolver(x, K)
  /\ fresh' = FALSE
  /\ UNCHANGED <<x, supposed>>

Next ==
  \/ \E s \in Slots(K) : Learn(s)
  \/ \E s \in Slots(K) : \E v \in Wrong(Truth(x, K, s)) : Suppose(s, v)
  \/ Resolve

Spec == Init /\ [][Next]_vars

-----------------------------------------------------------------------------
(* A value that is known has the size of its node.                         *)
TypeOK ==
  /\ x \in Instances
  /\ K.out \in {"ok", "contra", "abort", "crash"}
  /\ \A s \in Slots(K) : KnownAt(K, s) => K[s[1]][s[2]] \in Bytes(SizeAt(K, s[1], s[2]))

Right(s) == KnownAt(K, s) => K[s[1]][s[2]] = Truth(x, K, s)

(* Whatever subset of the values is known, and in whatever order they      *)
(* came, a resolver concludes only what the processor did: every value it  *)
(* fills in is the one of the execution, and it finds no contradiction.    *)
Sound == ~ supposed => K.out = "ok" /\ \A s \in Slots(K) : Right(s)

(* With one wrong value assumed, the resolver may find the contradiction   *)
(* but fails no assertion of its own, which would end the tool.  The       *)
(* assertion of xor and pxor is written without the parentheses it needs.  *)
NeverAborts == supposed /\ x.op \notin {"xor", "pxor"} => K.out \in {"ok", "contra"}

(* A resolver that has run has said all it can: run again on what it left, *)
(* it adds nothing and contradicts nothing, so that no instruction has to  *)
(* be looked at again before a new value arrives.  movq, which takes back  *)
(* a narrower source from a wrong define, would notice it one run later.   *)
Settled == K.out = "ok" /\ ~ fresh /\ ~ (supposed /\ x.op = "movq") => inst_resolver(x, K) = K

Changed(i) == {p \in DOMAIN Effect(i) : Effect(i)[p] # i.before[p]}

(* Every register and memory cell the instruction changes has a define in  *)
(* the core list; a change without one lets an older value be found.       *)
Covered == \A p \in Changed(x) : \E j \in DOMAIN K.dst : K.dst[j].place = p

Nodes == inst_handler(x)

(* A node of a memory operand is followed by the uses of the registers its *)
(* address is computed from; without them the address is never resolved.   *)
Addressed ==
  \A n \in DOMAIN Nodes :
    Nodes[n].node \in {"def", "use"} /\ Nodes[n].o.t = "mem" =>
      n < Len(Nodes) /\ Nodes[n + 1] = Split(Nodes[n].o)

Silent(i) ==
  \/ i.op \in {"adc", "sbb", "cmovcc", "setcc", "cmpxchg", "bt", "palignr",
               "rdtsc", "cpuid", "int"}
  \/ i.prefix /\ ToNum(i.before["ecx"]) = 0
  \/ i.op \in {"movlpd", "movhpd"} /\ i.dst.t = "reg"

(* When all an instruction reads is known, so is all it writes, except for *)
(* what the tool leaves to other instructions: carries and conditions, one *)
(* side of cmpxchg, half a vector register, palignr, what the system       *)
(* returns, and the end of a repetition.                                   *)
Computed ==
  /\ K.out = "ok" /\ ~ fresh /\ ~ supposed /\ ~ Silent(x)
  /\ \A s \in Slots(K) : s[1] \in {"val", "bef"} => KnownAt(K, s)
  => \A j \in DOMAIN K.aft : Known(K.aft[j])

(* A value, once known, is never replaced by another: the values that      *)
(* disagree are compared, also when one of them has only been assumed.     *)
Keeps ==
  [][\A s \in Slots(K) : KnownAt(K, s) => K'[s[1]][s[2]] = K[s[1]][s[2]]]_vars

-----------------------------------------------------------------------------
(***************************************************************************)
(* A comment of handler_arithmetic.c that the code does not keep.          *)
(***************************************************************************)
(* "EDX : EAX Divisor ... src2 src1 src0" (lines 985-989): the first use   *)
(* of div is the divisor and the second the low half of the dividend, also *)
(* when they are computed from the quotient and the remainder.             *)
DividendOrder ==
  ~ supposed /\ x.op = "div" => Right(<<"val", 1>>) /\ Right(<<"val", 2>>)
=============================================================================
