----------------------------- MODULE ReverseExec -----------------------------
(***************************************************************************)
(* Reverse execution of a crash trace (reverse_instructions).  The first   *)
(* round reads the trace from the crash backwards and propagates values    *)
(* without alias analysis; then the registers recorded at the beginning of *)
(* the trace are used; the second round visits every instruction again and *)
(* asks the alias module about every unknown write in the way.             *)
(*                                                                         *)
(* One step of the machine is one entry of a work list, or one step of the *)
(* loops that fill them.                                                   *)
(***************************************************************************)
EXTENDS Resolve

IsOperand(o) == o.t \in {"reg", "imm", "mem"} /\ o.size \in Nat \ {0}

(* An instruction has one memory operand at most; lea computes an address  *)
(* into a register.                                                        *)
IsInstruction(x) ==
  /\ x.op \in {"mov", "add", "lea", "xchg", "push", "pop"}
  /\ x.op # "pop"  => IsOperand(x.src)
  /\ x.op # "push" => IsOperand(x.dst)
  /\ x.op = "lea"  => x.dst.t = "reg" /\ x.src.t = "mem"
  /\ x.op = "xchg" => x.dst.t # "mem" \/ x.src.t # "mem"

(* The log has a value for each register that it names.                    *)
ASSUME TracesAssumption ==
  \A tr \in Traces :
    /\ Len(tr.prog) \in Nat
    /\ \A i \in 1 .. Len(tr.prog) :
         /\ IsInstruction(tr.prog[i])
         /\ \A r \in DOMAIN tr.log[i] : /\ r.t = "reg"
                                       /\ tr.log[i][r] \in Seq(Byte)
                                       /\ Len(tr.log[i][r]) = r.size

-----------------------------------------------------------------------------
(***************************************************************************)
(* Handlers: the nodes of an instruction, in the order they are created.   *)
(***************************************************************************)
Define(o)    == [node |-> "def", o |-> o]
Use(o)       == [node |-> "use", o |-> o]
DefineOnly(o) == [node |-> "lone_def", o |-> o]
Elements(o)  == [node |-> "elements", o |-> o]
DefineEsp(by) == [node |-> "esp", o |-> Full("esp"), by |-> by]

EspMem(at) == Ea("esp", NoReg, 1, 0, DW, at)

mov_handler(x)  == <<Define(x.dst), Use(x.src)>>
add_handler(x)  == <<Define(x.dst), Use(x.dst), Use(x.src)>>
lea_handler(x)  == <<DefineOnly(x.dst), Elements(x.src)>>
xchg_handler(x) == <<Define(x.dst), Define(x.src), Use(x.dst), Use(x.src)>>
push_handler(x) == <<Define(EspMem("post")), DefineEsp(Minus(0, DW)), Use(x.src)>>
pop_handler(x)  == <<DefineEsp(DW), Define(x.dst), Use(EspMem("pre"))>>

inst_handler(x) ==
  CASE x.op = "mov"  -> mov_handler(x)
    [] x.op = "add"  -> add_handler(x)
    [] x.op = "lea"  -> lea_handler(x)
    [] x.op = "xchg" -> xchg_handler(x)
    [] x.op = "push" -> push_handler(x)
    [] x.op = "pop"  -> pop_handler(x)

(* The define of esp knows its value before as soon as the value after. *)
before_from_after(S, d, by) ==
  IF Known(S.core[d].aft)
  THEN assign_value(S, d, "bef", ToBytes(Minus(ToNum(S.core[d].aft), by), DW))
  ELSE S

add_new_node(S, x) ==
  CASE x.node = "def"      -> split_expression_to_use(add_new_define(S, x.o), x.o)
    [] x.node = "use"      -> split_expression_to_use(add_new_use(S, x.o, "Opd"), x.o)
    [] x.node = "lone_def" -> add_new_define(S, x.o)
    [] x.node = "elements" -> split_expression_to_use(S, x.o)
    [] x.node = "esp"      ->
         before_from_after(add_new_define(S, x.o), Len(S.core) + 1, x.by)

create_nodes(S, table) ==
  LET after[k \in 0 .. Len(table)] ==
        IF k = 0 THEN S ELSE add_new_node(after[k - 1], table[k])
  IN  after[Len(table)]

(* The value the log holds for a use that nothing earlier defines. *)
init_reg_use(S, n) ==
  LET place == PlaceOf(S.core[n])
      log   == LoggedRegs(S, find_inst_of_node(S, n))
  IN  IF \/ node_is_exp(S.core[n])
         \/ find_prev(S, n, place, "def") # 0
         \/ place \notin DOMAIN log
      THEN S
      ELSE add_to_uselist(assign_value(S, n, "val", log[place]), n)

-----------------------------------------------------------------------------
VARIABLES
  re_ds,   (* the structure the tool works on *)
  stage,   (* "first", "init", "second", "done" *)
  at       (* trace index in the first round, node id in the others *)

vars == <<re_ds, stage, at>>

Init == /\ \E tr \in Traces : re_ds = Fresh(tr)
        /\ stage = "first"
        /\ at = 1

Idle == re_ds.out = "ok" /\ Quiet(re_ds)
Busy(list) == re_ds.out = "ok" /\ ~ Quiet(re_ds) /\ Working(re_ds) = list

(* The next instruction towards the past gets its nodes. *)
HandleInst ==
  /\ stage = "first" /\ Idle /\ at <= Len(ProgramOf(re_ds))
  /\ LET S == add_new_inst(re_ds, at)
         n == Len(S.core)
     IN  re_ds' = [add_to_instlist(
                     create_nodes(S, inst_handler(ProgramOf(S)[at])), n) EXCEPT !.ph = "use"]
  /\ at' = at + 1
  /\ UNCHANGED stage

ResolveUse    == Busy("use")  /\ re_ds' = resolve_use(re_ds)    /\ UNCHANGED <<stage, at>>
ResolveDefine == Busy("def")  /\ re_ds' = resolve_define(re_ds) /\ UNCHANGED <<stage, at>>
ResolveInst   == Busy("inst") /\ re_ds' = resolve_inst(re_ds)   /\ UNCHANGED <<stage, at>>

EndFirstRound ==
  /\ stage = "first" /\ Idle /\ at > Len(ProgramOf(re_ds))
  /\ stage' = "init"
  /\ at' = Len(re_ds.core)
  /\ UNCHANGED re_ds

(* From the beginning of the execution on. *)
InitRegUse ==
  /\ stage = "init" /\ Idle /\ at > 0
  /\ re_ds' = IF IsUse(re_ds.core[at])
              THEN [init_reg_use(re_ds, at) EXCEPT !.ph = "use"]
              ELSE re_ds
  /\ at' = at - 1
  /\ UNCHANGED stage

(* Bug: the second round starts without the addresses of the first. *)
BeginAfresh ==
  /\ stage = "init" /\ Idle /\ at = 0
  /\ stage' = "second"
  /\ at' = 1
  /\ re_ds' = [re_ds EXCEPT !.resolving = TRUE,
       !.core = [n \in DOMAIN @ |-> IF IsInst(@[n]) THEN @[n]
                                    ELSE [@[n] EXCEPT !.addr = 0]]]

BeginSecondRound ==
  /\ stage = "init" /\ Idle /\ at = 0
  /\ stage' = "second"
  /\ at' = 1
  /\ re_ds' = [re_ds EXCEPT !.resolving = TRUE]

(* Bug: the loop stays at an instruction. *)
SameInst ==
  /\ stage = "second" /\ Idle /\ at <= Len(re_ds.core)
  /\ re_ds' = IF IsInst(re_ds.core[at])
              THEN [add_to_instlist(re_ds, at) EXCEPT !.cur = at, !.ph = "use"]
              ELSE re_ds
  /\ at' = IF IsInst(re_ds.core[at]) THEN at ELSE at + 1
  /\ UNCHANGED stage

(* From the crash backwards, one instruction at a time. *)
NextInst ==
  /\ stage = "second" /\ Idle /\ at <= Len(re_ds.core)
  /\ re_ds' = IF IsInst(re_ds.core[at])
              THEN [add_to_instlist(re_ds, at) EXCEPT !.cur = at, !.ph = "use"]
              ELSE re_ds
  /\ at' = at + 1
  /\ UNCHANGED stage

Finish ==
  /\ stage = "second" /\ Idle /\ at > Len(re_ds.core)
  /\ stage' = "done"
  /\ UNCHANGED <<re_ds, at>>

(* The program has ended, or has been ended by a failed assertion. *)
Stopped == stage = "done" \/ re_ds.out # "ok"
Ended   == Stopped /\ UNCHANGED vars

Next == \/ HandleInst \/ ResolveUse \/ ResolveDefine \/ ResolveInst
        \/ EndFirstRound \/ InitRegUse \/ BeginSecondRound
        \/ NextInst \/ Finish \/ Ended

Spec == Init /\ [][Next]_vars

(* The program runs on until it stops.  This is WF_vars(Next), spelled out *)
(* because Next always changes the state before it stops (Drains).         *)
FairSpec == Spec /\ ([]<>Stopped \/ []<><<Next>>_vars)

=============================================================================
