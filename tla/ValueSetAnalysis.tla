--------------------------- MODULE ValueSetAnalysis ---------------------------
(***************************************************************************)
(* The forward pass of value set analysis over a trace (one_round_of_vsa   *)
(* and the vs handlers), one instruction at a time and side by side with   *)
(* what the processor did.  Operands are dwords; the gs segment and the    *)
(* instructions that only fill in their operands are left out.             *)
(*                                                                         *)
(* A true value is a number or a place in a region, <<region, offset>>; a  *)
(* number that cannot be told from the bases of regions is Garbage.        *)
(***************************************************************************)
EXTENDS ValueSet

CONSTANTS
  Instructions,  (* [op, dst, src, preset] *)
  Unknowns,      (* what a register may hold before the trace *)
  MaxSteps,      (* bound on the length of the trace *)
  Disciplined    (* whether the trace keeps to what the analysis takes for granted *)

ASSUME MaxStepsAssumption == MaxSteps \in Nat

VARIABLES
  reg,     (* the registers *)
  aft,     (* aft_valset of the latest define of each, empty before the first *)
  defs,    (* the defines of memory so far: [addr, at, aft, val] *)
  access,  (* what the last instruction read or wrote of memory, and where from *)
  steps,
  out

vars == <<reg, aft, defs, access, steps, out>>

NoReg == "none"
Registers == {"eax", "ebx", "esp"}
ADDR_SIZE_IN_BYTE == 4
ByteBits == Bits - 2   (* a byte is shorter than a long *)

STACK_REGION == "stack"
HEAP_REGION  == "heap"

-----------------------------------------------------------------------------
(***************************************************************************)
(* The processor.                                                          *)
(***************************************************************************)
Garbage        == <<"garbage", 0>>
Value(base, n) == IF base = "garbage" THEN Garbage ELSE <<base, Long(n)>>
Num(n)         == Value(CONST_REGION, n)
IsNumber(v)    == v[1] = CONST_REGION

Plus(v, w) ==
  IF IsNumber(v) THEN Value(w[1], v[2] + w[2])
  ELSE IF IsNumber(w) THEN Value(v[1], v[2] + w[2]) ELSE Garbage
Minus(v, w) ==
  IF v[1] = w[1] /\ v # Garbage THEN Num(v[2] - w[2])
  ELSE IF IsNumber(w) THEN Value(v[1], v[2] - w[2]) ELSE Garbage
Times(v, k) == IF k = 1 THEN v ELSE IF IsNumber(v) THEN Num(v[2] * k) ELSE Garbage

(* A mask takes away some of the bits below the base of a region, or       *)
(* leaves some of them.                                                    *)
MaskedAddress(v, mask) ==
  IF v = Garbage THEN {Garbage}
  ELSE IF mask >= 0 THEN {Num(LongAnd(n, mask)) : n \in Longs}
  ELSE {Value(v[1], v[2] - LongAnd(n, (0 - mask) - 1)) : n \in Longs}
Masked(v, w) ==
  IF IsNumber(v) /\ IsNumber(w) THEN {Num(LongAnd(v[2], w[2]))}
  ELSE IF IsNumber(w) THEN MaskedAddress(v, w[2])
  ELSE IF IsNumber(v) THEN MaskedAddress(w, v[2])
  ELSE {Garbage}

(* What becomes of an address with bits set depends on where its region    *)
(* lies: it may be a place of the region still, or some number.            *)
Raised(v, w) ==
  IF IsNumber(v) /\ IsNumber(w) THEN {Num(LongOr(v[2], w[2]))}
  ELSE IF Garbage \in {v, w} THEN {Garbage}
  ELSE IF IsNumber(w) THEN {Num(5), Value(v[1], LongOr(v[2], w[2]))} ELSE {Num(5)}

Rotate(a, b) == ULong(a) * 2 ^ b + ULong(a) \div 2 ^ (Bits - b)
Count(b)     == ULong(b) % Bits
OnNumbers(v, w, Op(_, _)) == IF IsNumber(v) /\ IsNumber(w) THEN Num(Op(v[2], w[2])) ELSE Garbage

Register(r) == IF r = NoReg THEN Num(0) ELSE reg[r]
TrueAddress(m) == Plus(Plus(Register(m.base), Times(Register(m.index), m.scale)), Num(m.n))

Cells(at) == {<<at[1], at[2] + k>> : k \in 0 .. ADDR_SIZE_IN_BYTE - 1}
Disjoint(at1, at2) == Cells(at1) \cap Cells(at2) = {}
Writers(at) == {k \in DOMAIN defs : ~ Disjoint(defs[k].at, at)}
Content(at) ==
  IF Writers(at) # {} /\ defs[Max(Writers(at))].at = at THEN defs[Max(Writers(at))].val
  ELSE Garbage

True(o) ==
  CASE o.kind = "reg" -> reg[o.base] [] o.kind \in {"imm", "imm8"} -> Num(o.n)
    [] o.kind = "mem" -> Content(TrueAddress(o))

Effect(i) ==
  LET d == True(i.dst)
      s == True(i.src)
  IN  IF i.preset # <<>> THEN {Value(i.preset[1].region, 0)} ELSE
      CASE i.op = "mov" -> {s}
        [] i.op = "lea" -> {TrueAddress(i.src)}
        [] i.op = "movcc" -> {d, s}
        [] i.op = "add" -> {Plus(d, s)}
        [] i.op = "sub" -> {Minus(d, s)}
        [] i.op = "inc" -> {Plus(d, Num(1))}
        [] i.op = "dec" -> {Plus(d, Num(-1))}
        [] i.op = "and" -> Masked(d, s)
        [] i.op = "or"  -> Raised(d, s)
        [] i.op = "xor" -> {IF i.dst = i.src THEN Num(0) ELSE OnNumbers(d, s, LongXor)}
        [] i.op = "not" -> {Minus(Num(-1), d)}
        [] i.op = "neg" -> {Minus(Num(0), d)}
        [] i.op = "shl" -> {OnNumbers(d, s, LAMBDA a, b : a * 2 ^ Count(b))}
        [] i.op = "shr" -> {OnNumbers(d, s, LAMBDA a, b : ULong(a) \div 2 ^ Count(b))}
        [] i.op = "rol" -> {OnNumbers(d, s, LAMBDA a, b : Rotate(a, Count(b)))}
        [] i.op = "ror" -> {OnNumbers(d, s, LAMBDA a, b : Rotate(a, Bits - Count(b)))}
        [] i.op = "imul" -> {OnNumbers(d, s, LAMBDA a, b : a * b)}
        [] i.op = "bsf" -> {Num(n) : n \in 0 .. Bits - 1}

-----------------------------------------------------------------------------
(***************************************************************************)
(* What the operands of an instruction are found to hold.                  *)
(***************************************************************************)
NO_MATCH == "no_match"
Loads(type) == type \in {"exact", "super"}

vs_compare_two_targets(addr1, addr2) ==
  IF valset_is_empty(addr1) \/ valset_is_empty(addr2) THEN NO_MATCH
  ELSE IF mem_valset_exact(addr1, ADDR_SIZE_IN_BYTE, addr2, ADDR_SIZE_IN_BYTE) THEN "exact"
  ELSE IF mem_valset_subst(addr1, ADDR_SIZE_IN_BYTE, addr2, ADDR_SIZE_IN_BYTE) THEN "sub"
  ELSE IF mem_valset_super(addr1, ADDR_SIZE_IN_BYTE, addr2, ADDR_SIZE_IN_BYTE) THEN "super"
  ELSE IF mem_valset_overlap(addr1, ADDR_SIZE_IN_BYTE, addr2, ADDR_SIZE_IN_BYTE) THEN "overlap"
  ELSE NO_MATCH

(* Going back from an access, the search stops at the first define that    *)
(* the access touches, or 0 when there is none.                            *)
(* Bug: a define that only overlaps is passed by. *)
stops_at_load(type) == Loads(type)
Stops(type) == type # NO_MATCH
Touched(addr) == {k \in DOMAIN defs : Stops(vs_compare_two_targets(defs[k].addr, addr))}
vs_find_prev_def_of_use(addr) == IF Touched(addr) = {} THEN 0 ELSE Max(Touched(addr))

(* The define that a load takes its value set from, 0 when there is none.  *)
Load(addr, k) == IF k # 0 /\ Loads(vs_compare_two_targets(defs[k].addr, addr)) THEN k ELSE 0
Source(addr)  == Load(addr, vs_find_prev_def_of_use(addr))

vs_res_reg_in_exp(r) == aft[r]
Scaled(m) ==
  valset_add_offset(<<>>, valset_mul_offset(<<>>, vs_res_reg_in_exp(m.index), m.scale), m.n)

vs_res_expression(m) ==
  IF m.base = NoReg /\ m.index = NoReg THEN Single(GLOBAL_REGION, One(m.n))
  ELSE IF m.index = NoReg THEN valset_add_offset(<<>>, vs_res_reg_in_exp(m.base), m.n)
  ELSE IF m.base = NoReg
  THEN IF valset_is_empty(vs_res_reg_in_exp(m.index)) THEN Single(GLOBAL_REGION, FullInterval)
       ELSE valset_modify_region(Scaled(m), GLOBAL_REGION)
  ELSE IF ~ valset_is_empty(vs_res_reg_in_exp(m.base)) /\ valset_is_empty(vs_res_reg_in_exp(m.index))
  THEN Single(vs_res_reg_in_exp(m.base)[1].region, FullInterval)
  ELSE valset_add(<<>>, vs_res_reg_in_exp(m.base), Scaled(m))

(* An immediate of one byte has zeros above it.                            *)
vs_res_non_expression(o) ==
  CASE o.kind = "imm"  -> Number(o.n)
    [] o.kind = "imm8" -> Number(o.n % 2 ^ ByteBits)
    [] o.kind = "reg"  -> aft[o.base]
(* An operand with its value set, and of memory its address and the define *)
(* that the value set is from.                                             *)
Found(o, addr, from, vs) == [o |-> o, addr |-> addr, from |-> from, vs |-> vs]
Loaded(o, addr, from)    == Found(o, addr, from, IF from = 0 THEN <<>> ELSE defs[from].aft)
vs_traverse_inst_operand(o) ==
  IF o.kind # "mem" THEN Found(o, <<>>, 0, vs_res_non_expression(o))
  ELSE LET Resolve(addr) == Loaded(o, addr, Source(addr))
       IN  Resolve(vs_res_expression(o))

sign_extend_value_set(o, vs) == IF o.kind = "imm8" THEN Number(o.n) ELSE vs

-----------------------------------------------------------------------------
(***************************************************************************)
(* The handlers: dst is what a heuristic has put into the define already.  *)
(***************************************************************************)
AllKnown(dst, s0, s1) ==
  ~ valset_is_empty(dst) /\ ~ valset_is_empty(s0) /\ ~ valset_is_empty(s1)

mov_vs_handler(dst, s0) == assign_value_set(dst, s0)
(* Bug: what the heuristic knows is added to. *)
add_anyway(dst, s0, s1) == valset_add(dst, s0, s1)
add_vs_handler(dst, s0, s1) == IF AllKnown(dst, s0, s1) THEN dst ELSE valset_add(dst, s0, s1)
sub_vs_handler(dst, s0, s1) == IF AllKnown(dst, s0, s1) THEN dst ELSE valset_sub(dst, s0, s1)
inc_vs_handler(dst, s0) == valset_add_offset(dst, s0, 1)
dec_vs_handler(dst, s0) == valset_add_offset(dst, s0, -1)
and_vs_handler(dst, s0, o, s1) == valset_and(dst, s0, sign_extend_value_set(o, s1))
or_vs_handler(dst, s0, s1)  == valset_or(dst, s0, s1)
xor_vs_handler(i, dst, s0, s1) ==
  IF i.dst.kind = "reg" /\ i.dst = i.src THEN add_new_valset(dst, CONST_REGION, One(0))
  ELSE valset_xor(dst, s0, s1)
not_vs_handler(dst, s0) == valset_not(dst, s0)
neg_vs_handler(dst, s0) == valset_neg(assign_value_set(dst, s0))
shl_vs_handler(dst, s0, s1) == valset_shl(dst, s0, s1)
shr_vs_handler(dst, s0, s1) == valset_shr(dst, s0, s1)
rol_vs_handler(dst, s0, s1) == valset_rol(dst, s0, s1)
ror_vs_handler(dst, s0, s1) == valset_ror(dst, s0, s1)
mul_vs_handler(dst, s0, s1) == valset_mul_two_or_more(dst, s0, s1)
bsf_vs_handler(dst) == add_new_valset(dst, CONST_REGION, Interval(1, 0, Bits - 1))
movcc_vs_handler(dst) == dst

lea_vs_handler(dst, m) ==
  IF m.base = NoReg /\ m.index = NoReg THEN add_new_valset(dst, CONST_REGION, One(m.n))
  ELSE IF m.index = NoReg THEN valset_add_offset(dst, vs_res_reg_in_exp(m.base), m.n)
  ELSE IF m.base = NoReg THEN assign_value_set(dst, Scaled(m))
  ELSE valset_add(dst, vs_res_reg_in_exp(m.base), Scaled(m))

vs_handler(i, dst, s0, s1) ==
  CASE i.op = "mov" -> mov_vs_handler(dst, s1)
    [] i.op = "lea" -> lea_vs_handler(dst, i.src)
    [] i.op = "movcc" -> movcc_vs_handler(dst)
    [] i.op = "add" -> add_vs_handler(dst, s0, s1)
    [] i.op = "sub" -> sub_vs_handler(dst, s0, s1)
    [] i.op = "inc" -> inc_vs_handler(dst, s0)
    [] i.op = "dec" -> dec_vs_handler(dst, s0)
    [] i.op = "and" -> and_vs_handler(dst, s0, i.src, s1)
    [] i.op = "or"  -> or_vs_handler(dst, s0, s1)
    [] i.op = "xor" -> xor_vs_handler(i, dst, s0, s1)
    [] i.op = "not" -> not_vs_handler(dst, s0)
    [] i.op = "neg" -> neg_vs_handler(dst, s0)
    [] i.op = "shl" -> shl_vs_handler(dst, s0, s1)
    [] i.op = "shr" -> shr_vs_handler(dst, s0, s1)
    [] i.op = "rol" -> rol_vs_handler(dst, s0, s1)
    [] i.op = "ror" -> ror_vs_handler(dst, s0, s1)
    [] i.op = "imul" -> mul_vs_handler(dst, s0, s1)
    [] i.op = "bsf" -> bsf_vs_handler(dst)

-----------------------------------------------------------------------------
(* An access, the define that it takes its value set from, and the number of defines before it. *)
Access(addr, at, from) == [addr |-> addr, at |-> at, from |-> from, before |-> Len(defs)]
DefNode(addr, at, vs, v) == [addr |-> addr, at |-> at, aft |-> vs, val |-> v]

Base(region) == IF region = GLOBAL_REGION THEN CONST_REGION ELSE region
OneAddress(vs) == Len(vs) = 1 /\ OneValueEach(vs)

(* No cell of an access is past the largest long.                          *)
Reachable(vs) ==
  \A k \in DOMAIN vs : ~ si_is_full(vs[k].si) => vs[k].si.upper_bound + ADDR_SIZE_IN_BYTE <= MaxLong
(* Nor is a scaled index, before the base is added.                        *)
InRange(m) ==
  m.index # NoReg =>
    \A k \in DOMAIN aft[m.index] :
      LET si == aft[m.index][k].si
      IN  si_is_full(si) \/ {si.lower_bound * m.scale, si.upper_bound * m.scale} \subseteq Longs
(* An address of which only the region is known lies in that region.       *)
InItsRegion(vs, at) ==
  \A k \in DOMAIN vs : si_is_full(vs[k].si) => Base(vs[k].region) = at[1]

(* A sum whose ends leave the range of a long together, or stay in it.     *)
Unbroken(vs, ws) ==
  \A j \in DOMAIN vs, k \in DOMAIN ws :
    LET lower == vs[j].si.lower_bound + ws[k].si.lower_bound
        upper == vs[j].si.upper_bound + ws[k].si.upper_bound
    IN  \/ si_is_full(vs[j].si) \/ si_is_full(ws[k].si)
        \/ Long(upper) - Long(lower) = upper - lower
UnbrokenExp(m) ==
  /\ m.index # NoReg =>
       Unbroken(valset_mul_offset(<<>>, aft[m.index], m.scale), Number(m.n))
  /\ m.base # NoReg =>
       Unbroken(aft[m.base], IF m.index = NoReg THEN Number(m.n) ELSE Scaled(m))
UnbrokenSum(i, s0, s1) ==
  CASE i.op = "add" -> Unbroken(s0, s1)
    [] i.op = "sub" -> Unbroken(s0, valset_neg(s1))
    [] i.op = "inc" -> Unbroken(s0, Number(1))
    [] i.op = "dec" -> Unbroken(s0, Number(-1))
    [] OTHER -> TRUE

(* What the analysis takes for granted: a write goes through one known     *)
(* address, an index is a number, no sum leaves the range of a long at one *)
(* end only and no access runs past it, the immediates that are not        *)
(* sign-extended are not negative, and an address is not complemented.     *)
Ordinary(i, f0, f1, vs) ==
  /\ i.dst.kind = "mem" => OneAddress(f0.addr)
  /\ \A f \in {f0, f1} : f.o.kind = "mem" =>
       IsNumber(Register(f.o.index)) /\ InRange(f.o) /\ UnbrokenExp(f.o)
  /\ \A f \in {f0, f1} : f.o.kind = "mem" /\ i.op # "lea" =>
       Reachable(f.addr) /\ InItsRegion(f.addr, TrueAddress(f.o))
  /\ UnbrokenSum(i, f0.vs, f1.vs)
  /\ i.op = "and" => \A k \in DOMAIN vs : vs[k].si.lower_bound <= vs[k].si.upper_bound
  /\ i.op \in {"add", "sub", "or", "xor"} /\ i.src.kind = "imm8" => i.src.n \in 0 .. 2 ^ (ByteBits - 1) - 1
  /\ i.op \in {"not", "neg"} => IsNumber(True(i.dst))

Init ==
  /\ reg \in {[eax |-> a, ebx |-> b, esp |-> <<STACK_REGION, 0>>] : a \in Unknowns, b \in Unknowns}
  /\ aft = [eax |-> <<>>, ebx |-> <<>>, esp |-> Single(STACK_REGION, One(0))]
  /\ defs = <<>> /\ access = {} /\ steps = 0 /\ out = "ok"

Step == out = "ok" /\ steps < MaxSteps /\ steps' = steps + 1

(* An instruction that writes its first operand, of which f0 and f1 are    *)
(* found and to which the handler gives vs.                                *)
Memory(i, f0, f1) == {f \in {f0, f1} : i.op # "lea" /\ f.o.kind = "mem"}
Writes(i, f) == i.op = "mov" /\ f.o = i.dst
Write(i, f0, vs) ==
  \E v \in Effect(i) :
    IF i.dst.kind = "reg"
    THEN /\ reg' = [reg EXCEPT ![i.dst.base] = v]
         /\ aft' = [aft EXCEPT ![i.dst.base] = vs]
         /\ UNCHANGED defs
    ELSE /\ defs' = Append(defs, DefNode(f0.addr, TrueAddress(i.dst), vs, v))
         /\ UNCHANGED <<reg, aft>>

Handle(i, f0, f1, vs) ==
  /\ \A f \in Memory(i, f0, f1) : TrueAddress(f.o) # Garbage
  /\ Disciplined => Ordinary(i, f0, f1, vs)
  /\ access' = {Access(f.addr, TrueAddress(f.o), IF Writes(i, f) THEN 0 ELSE f.from) :
                  f \in Memory(i, f0, f1)}
  /\ Write(i, f0, vs)
  /\ UNCHANGED out

(* An operation on two addresses that the analysis has no answer for.      *)
GiveUp ==
  /\ out' = "abort"
  /\ UNCHANGED <<reg, aft, defs, access>>

Execute(i) ==
  /\ Step
  /\ \E f0 \in {vs_traverse_inst_operand(i.dst)}, f1 \in {vs_traverse_inst_operand(i.src)} :
     \E vs \in {vs_handler(i, i.preset, f0.vs, f1.vs)} :
       \/ Abort \notin {vs, f0.addr, f1.addr} /\ Handle(i, f0, f1, vs)
       \/ Abort \in {vs, f0.addr, f1.addr} /\ GiveUp

push_vs_handler(o) ==
  LET esp  == valset_add_offset(<<>>, aft["esp"], 0 - ADDR_SIZE_IN_BYTE)
      at   == Plus(reg["esp"], Num(0 - ADDR_SIZE_IN_BYTE))
      vs   == sign_extend_value_set(o, vs_res_non_expression(o))
  IN  /\ Step /\ o.kind # "mem" /\ (Disciplined => OneValueEach(esp) /\ esp # <<>> /\ Reachable(esp))
      /\ aft' = [aft EXCEPT !["esp"] = esp]
      /\ reg' = [reg EXCEPT !["esp"] = at]
      /\ defs' = Append(defs, DefNode(esp, at, vs, True(o)))
      /\ access' = {Access(esp, at, 0)}
      /\ UNCHANGED out

(* The return address is not given a value set.                            *)
call_vs_handler ==
  LET esp == valset_add_offset(<<>>, aft["esp"], 0 - ADDR_SIZE_IN_BYTE)
      at  == Plus(reg["esp"], Num(0 - ADDR_SIZE_IN_BYTE))
  IN  /\ Step /\ (Disciplined => OneValueEach(esp) /\ esp # <<>> /\ Reachable(esp))
      /\ aft' = [aft EXCEPT !["esp"] = esp]
      /\ reg' = [reg EXCEPT !["esp"] = at]
      /\ defs' = Append(defs, DefNode(esp, at, <<>>, Num(0)))
      /\ access' = {Access(esp, at, 0)}
      /\ UNCHANGED out

pop_vs_handler(r) ==
  LET addr == aft["esp"]
  IN  \E k \in {Source(addr)} :
      /\ Step /\ r # "esp"
      /\ Disciplined => Reachable(addr) /\ InItsRegion(addr, reg["esp"])
      /\ aft' = [aft EXCEPT !["esp"] = valset_add_offset(<<>>, addr, ADDR_SIZE_IN_BYTE),
                            ![r] = IF k = 0 THEN <<>> ELSE defs[k].aft]
      /\ reg' = [reg EXCEPT !["esp"] = Plus(@, Num(ADDR_SIZE_IN_BYTE)), ![r] = Content(reg["esp"])]
      /\ access' = {Access(addr, reg["esp"], k)}
      /\ UNCHANGED <<defs, out>>

return_vs_handler ==
  /\ Step /\ (Disciplined => Reachable(aft["esp"]) /\ InItsRegion(aft["esp"], reg["esp"]))
  /\ aft' = [aft EXCEPT !["esp"] = valset_add_offset(<<>>, @, ADDR_SIZE_IN_BYTE)]
  /\ reg' = [reg EXCEPT !["esp"] = Plus(@, Num(ADDR_SIZE_IN_BYTE))]
  /\ access' = {Access(aft["esp"], reg["esp"], Source(aft["esp"]))}
  /\ UNCHANGED <<defs, out>>

xchg_vs_handler(r, s) ==
  /\ Step /\ r # s
  /\ aft' = [aft EXCEPT ![r] = aft[s], ![s] = aft[r]]
  /\ reg' = [reg EXCEPT ![r] = reg[s], ![s] = reg[r]]
  /\ access' = {}
  /\ UNCHANGED <<defs, out>>

Next ==
  \/ \E i \in Instructions : Execute(i)
  \/ \E i \in Instructions : i.op = "mov" /\ push_vs_handler(i.src)
  \/ pop_vs_handler("eax")
  \/ call_vs_handler \/ return_vs_handler
  \/ xchg_vs_handler("eax", "ebx")

Spec == Init /\ [][Next]_vars

-----------------------------------------------------------------------------
(* What a value set promises of a value.  The empty one promises nothing.  *)
In(v, vs) ==
  \/ vs = <<>>
  \/ \E k \in DOMAIN vs : \/ si_is_full(vs[k].si)
                          \/ Base(vs[k].region) = v[1] /\ v[2] \in Elements(vs[k].si)

AllSets == {aft[r] : r \in Registers} \cup {defs[k].aft : k \in DOMAIN defs}
             \cup {defs[k].addr : k \in DOMAIN defs} \cup {a.addr : a \in access}
WellFormed(si) ==
  /\ si.stride \in Nat
  /\ si.lower_bound \in Longs /\ si.upper_bound \in Longs /\ si.lower_bound <= si.upper_bound
  /\ IF si.stride = 0 THEN si.lower_bound = si.upper_bound
     ELSE (si.upper_bound - si.lower_bound) % si.stride = 0

(* Every interval has its bounds in order and at a distance that its       *)
(* stride divides, and a comparison that walks over the interval of an     *)
(* address comes to an end.                                                *)
TypeOK ==
  /\ steps \in 0 .. MaxSteps /\ out \in {"ok", "abort"}
  /\ \A vs \in AllSets : \A k \in DOMAIN vs : WellFormed(vs[k].si)
  /\ \A k \in DOMAIN defs : \A e \in DOMAIN defs[k].addr :
       LET si == defs[k].addr[e].si IN si.stride = 0 \/ si_is_full(si) \/ Ends(si)

(* What value set analysis promises: no register, no cell that was written *)
(* and no address is outside of the set that was computed for it.          *)
Sound ==
  /\ \A r \in Registers : In(reg[r], aft[r])
  /\ \A k \in DOMAIN defs : In(defs[k].val, defs[k].aft) /\ In(defs[k].at, defs[k].addr)
  /\ \A a \in access : In(a.at, a.addr)

(* valset_verify_noalias: an access that is said to be disjoint from an    *)
(* earlier write is disjoint from it.                                      *)
NoAliasRight ==
  \A a \in access, k \in DOMAIN defs :
    ~ mem_valset_overlap(defs[k].addr, ADDR_SIZE_IN_BYTE, a.addr, ADDR_SIZE_IN_BYTE)
      => Disjoint(defs[k].at, a.at)

(* A load that is given the value set of a define reads what that define   *)
(* has written: no write in between has touched the cell.                 *)
LastWrite ==
  \A a \in access : a.from # 0 =>
    /\ defs[a.from].at = a.at
    /\ \A k \in a.from + 1 .. a.before : Disjoint(defs[k].at, a.at)

(* valset_correctness_check, which one_round_of_vsa ends with: "assert(    *)
(* IS_IN_SI(addr_entry - re_ds.esp_value, &vs_entry->si))" for an address  *)
(* that is found to be in the region of the stack (re_vsmanager.c, line    *)
(* 675), here one that really is there.                                    *)
CorrectnessCheck ==
  \A a \in access : \A k \in DOMAIN a.addr :
    a.addr[k].region = STACK_REGION /\ a.at[1] = STACK_REGION =>
      IS_IN_SI(a.at[2], a.addr[k].si)

-----------------------------------------------------------------------------
(***************************************************************************)
(* The instructions that do not look at the bits of a value: all but and,  *)
(* or and the xor of two operands.  A mov has no immediate of one byte,    *)
(* and a heuristic gives the base of a region.                             *)
(***************************************************************************)
Operands ==
  {o \in [kind : {"reg", "imm", "imm8", "mem"}, base : Registers \cup {NoReg},
          index : Registers \cup {NoReg}, scale : Nat \ {0}, n : Longs] :
     o.kind = "reg" => o.base # NoReg}
NamesRegion(region) == region \notin {GLOBAL_REGION, "none", "garbage"}
WithoutBits(insts) ==
  \A i \in insts :
    /\ i.dst \in Operands /\ i.src \in Operands /\ i.dst.kind \in {"reg", "mem"}
    /\ i.op \in {"mov", "lea", "movcc", "add", "sub", "inc", "dec", "xor", "not", "neg",
                 "shl", "shr", "rol", "ror", "imul", "bsf"}
    /\ i.op = "mov" => i.src.kind # "imm8"
    /\ i.op = "lea" => i.src.kind = "mem" /\ i.dst.kind = "reg"
    /\ i.op = "xor" => i.src = i.dst /\ i.dst.kind = "reg"
    /\ i.preset # <<>> =>
         /\ i.op \in {"mov", "add", "sub"} /\ NamesRegion(i.preset[1].region)
         /\ i.preset = Single(i.preset[1].region, One(0))
ArePlaces(values) ==
  \A v \in values : v = Garbage \/ (v = <<v[1], v[2]>> /\ NamesRegion(v[1]) /\ v[2] \in Longs)
=============================================================================
