---------------------------- MODULE ReverseProps ----------------------------
(***************************************************************************)
(* What reverse execution promises, judged against the run that really     *)
(* happened.                                                               *)
(***************************************************************************)
EXTENDS ReverseExec, GroundTruth, Machine, Taint, FiniteSets

InstIndex(S, n) == S.core[find_inst_of_node(S, n)].i

(* The run's own value and address of a node. *)
PreOf(S, n)  == S.tr.pre[InstIndex(S, n)]
PostOf(S, n) == S.tr.post[InstIndex(S, n)]
PointOf(S, n) ==
  IF S.core[n].o.t = "mem" /\ S.core[n].o.at = "post"
  THEN PostOf(S, n) ELSE PreOf(S, n)
TrueAddr(S, n) == AddrOf(PointOf(S, n), S.core[n].o)

TrueValue(S, n, m) ==
  LET node == S.core[n]
  IN  IF node_is_exp(node) THEN Load(m, TrueAddr(S, n), node.o.size)
      ELSE IF IsUse(node) /\ node.ut # "Opd"
           THEN ReadReg(PointOf(S, n), PlaceOf(node))
      ELSE ReadOpd(m, node.o)

SoundNode(S, n) ==
  LET node == S.core[n]
      right(v, m) == Known(v) => v = TrueValue(S, n, m)
  IN  /\ node.addr # 0 => node.addr = TrueAddr(S, n)
      /\ IsUse(node) => right(node.val, PreOf(S, n))
      /\ IsDef(node) => right(node.bef, PreOf(S, n)) /\ right(node.aft, PostOf(S, n))

Ids(S) == 1 .. Len(S.core)
Nodes(S) == {n \in Ids(S) : ~ IsInst(S.core[n])}

CONSTANT MaxNodes   (* bound on the length of the main list *)

-----------------------------------------------------------------------------
IsValue(v) == Len(v) <= DW /\ \A i \in 1 .. Len(v) : v[i] \in Byte
Node(S, n) ==
  LET x == S.core[n]
  IN  CASE x.k = "inst" -> x.i \in 1 .. Len(ProgramOf(S))
        [] x.k = "def"  -> x.addr \in Addr /\ IsValue(x.bef) /\ IsValue(x.aft)
        [] x.k = "use"  -> /\ x.addr \in Addr /\ IsValue(x.val)
                           /\ x.ut \in {"Opd", "Base", "Index"}

(* The address of an operand, as far as its registers are known. *)
StatusOf(S, n) ==
  exp_addr_status(S, get_element_of_exp(S, n, "Base"), get_element_of_exp(S, n, "Index"))
AddrNow(S, n) ==
  EffectiveAddr(S, n, get_element_of_exp(S, n, "Base"), get_element_of_exp(S, n, "Index"))
AddrFound(S, n) == \/ StatusOf(S, n) = "KBaseKIndex"
                   \/ StatusOf(S, n) = "NBaseNIndex" /\ S.core[n].o.disp # 0

(* The address 0 stands for unknown: none is computed as 0. *)
NonZero(S) ==
  \A n \in Ids(S) :
    node_is_exp(S.core[n]) /\ StatusOf(S, n) \in {"NBaseNIndex", "KBaseKIndex"} =>
      AddrFound(S, n) /\ AddrNow(S, n) # 0
AddressesNonZero == NonZero(re_ds)

(* correctness_check accepts for the base of an address also the value     *)
(* that push leaves in esp; where init_reg_use takes the value of the log, *)
(* it replaces none of that kind.                                          *)
EspAsLogged(S, n) ==
  LET place == PlaceOf(S.core[n])
      log   == LoggedRegs(S, find_inst_of_node(S, n))
  IN  /\ IsUse(S.core[n]) /\ S.core[n].ut = "Base" /\ place = Full("esp")
      /\ Known(S.core[n].val)
      /\ find_prev(S, n, place, "def") = 0
      /\ place \in DOMAIN log
      => S.core[n].val = log[place]
BaseAsLogged ==
  stage = "init" /\ Idle => \A n \in Ids(re_ds) : EspAsLogged(re_ds, n)

(* The nodes and the variables of the rounds have the shape, and addresses *)
(* and esp the values, that the code takes for granted.                    *)
TypeOK ==
  /\ AddressesNonZero /\ BaseAsLogged
  /\ \A n \in 1 .. Len(re_ds.core) : Node(re_ds, n)
  /\ re_ds.rec = 0
  /\ re_ds.cur \in 0 .. Len(re_ds.core)
  /\ re_ds.resolving = (stage \in {"second", "done"})
  /\ re_ds.out \in {"ok", "abort", "wild"}
  /\ stage \in {"first", "init", "second", "done"}
  /\ at \in Nat

Once(S, list) ==
  /\ \A i \in DOMAIN list : list[i] \in 1 .. Len(S.core)
  /\ \A i, j \in DOMAIN list : list[i] = list[j] => i = j
HasValue(x) == IF IsUse(x) THEN Known(x.val) ELSE Known(x.bef) \/ Known(x.aft)

(* Work lists hold nodes of their kind, once, and with something known,    *)
(* which resolve_use and resolve_define assert of what they take from one, *)
(* however the three lists have fed each other.                            *)
ListsReady ==
  /\ Once(re_ds, re_ds.ul) /\ Once(re_ds, re_ds.dl) /\ Once(re_ds, re_ds.il)
  /\ \A i \in DOMAIN re_ds.ul : IsUse(re_ds.core[re_ds.ul[i]]) /\ HasValue(re_ds.core[re_ds.ul[i]])
  /\ \A i \in DOMAIN re_ds.dl : IsDef(re_ds.core[re_ds.dl[i]]) /\ HasValue(re_ds.core[re_ds.dl[i]])
  /\ \A i \in DOMAIN re_ds.il : IsInst(re_ds.core[re_ds.il[i]])

(* Everything the tool claims to have recovered, values and addresses      *)
(* alike, is what the run had there: propagation past an unknown write     *)
(* that does alias would break it many steps later.                        *)
Sound ==
  re_ds.out = "ok" => \A n \in Nodes(re_ds) : SoundNode(re_ds, n)

(* A contradiction between two derivations of one value is legal only      *)
(* inside a hypothesis: assert(re_ds.rec_count) in assert_val.             *)
NoContradiction == re_ds.out = "ok"

UmemDescending ==
  \A i, j \in DOMAIN re_ds.um : i < j => re_ds.um[i] > re_ds.um[j]
UmemExact ==
  re_ds.out = "ok" /\ Quiet(re_ds) =>
    {re_ds.um[i] : i \in DOMAIN re_ds.um}
      = {n \in 1 .. Len(re_ds.core) : UnknownWrite(re_ds.core[n])}

(* The early exit of resolve_alias needs umemlist in order of age, youngest *)
(* node first, and it needs it complete: every write of unknown address    *)
(* that has been visited is in it, and no other node.                      *)
UmemReady == UmemDescending /\ UmemExact

(* "No alias" is said only of pairs that did not alias in the run: the     *)
(* unknown write did not begin at the byte in question.  At no point of    *)
(* the second round, also while a test would be run on a structure that is *)
(* only partly recovered, with work on its lists.                          *)
VerdictsRight ==
  stage = "second" /\ re_ds.out = "ok" =>
    \A i \in DOMAIN re_ds.um : \A n \in Nodes(re_ds) :
      LET e == re_ds.um[i]
          x == re_ds.core[n]
      IN  node_is_exp(x) /\ x.addr # 0 /\ e < n =>
            \A off \in 0 .. x.o.size - 1 :
              ~ check_alias_pair(re_ds, e, n, off)
                => TrueAddr(re_ds, e) # Plus(TrueAddr(re_ds, n), off)

Keeps(old, new) ==
  IF IsInst(old) THEN new = old
  ELSE /\ new.k = old.k /\ new.o = old.o
       /\ old.addr # 0 => new.addr = old.addr
       /\ IsUse(old) /\ Known(old.val) => new.val = old.val
       /\ IsDef(old) /\ Known(old.bef) => new.bef = old.bef
       /\ IsDef(old) /\ Known(old.aft) => new.aft = old.aft

(* Nothing known is ever forgotten or replaced by another value, whichever *)
(* list is being drained; nodes never leave the main list.                 *)
NothingForgotten ==
  [][/\ re_ds'.tr = re_ds.tr
     /\ re_ds'.out = "ok" =>
          \A n \in 1 .. Len(re_ds.core) : Keeps(re_ds.core[n], re_ds'.core[n])]_vars

-----------------------------------------------------------------------------
(***************************************************************************)
(* The loops of re_resolve.                                                *)
(***************************************************************************)
Missing(S) ==
  Cardinality({n \in Nodes(S) : S.core[n].addr = 0})
  + Cardinality({n \in Nodes(S) : IsUse(S.core[n]) /\ ~ Known(S.core[n].val)})
  + Cardinality({n \in Nodes(S) : IsDef(S.core[n]) /\ ~ Known(S.core[n].bef)})
  + Cardinality({n \in Nodes(S) : IsDef(S.core[n]) /\ ~ Known(S.core[n].aft)})

Smaller(S, T) ==
  LET values(X) == Len(X.ul) + Len(X.dl)
  IN  \/ Missing(S) < Missing(T)
      \/ /\ Missing(S) = Missing(T)
         /\ \/ values(S) < values(T)
            \/ values(S) = values(T) /\ Len(S.il) < Len(T.il)

Advanced(S, T) == S.out # "ok" \/ Smaller(S, T)

(* Every entry that is worked off either tells something new or leaves     *)
(* less work: nothing is queued again for a value that was known before,   *)
(* so that the loops of re_resolve cannot feed each other for ever.        *)
Drains == Idle \/ Advanced(re_resolve_step(re_ds), re_ds)

AddressDue(S, n) ==
  /\ node_is_exp(S.core[n])
  /\ S.core[n].addr = 0
  /\ StatusOf(S, n) = "KBaseKIndex"
FlowsFrom(S, n, d) ==
  LET place == PlaceOf(S.core[n])
  IN  place.t = "reg" /\ d = find_prev(S, n, place, "def")
      /\ d # 0 /\ MatchType(S, d, place) = EXACT
KnownThere(node) == Known(IF IsUse(node) THEN node.val ELSE node.bef)

(* When the lists are empty no consequence was lost on the way: registers  *)
(* that are known give their address, a register's define and the nodes    *)
(* its value flows to agree on whether it is known, and at the end no      *)
(* resolver would add anything, although every node was queued at most     *)
(* once and the three lists are drained in turns.                          *)
Settled ==
  Idle /\ stage # "first" =>
    /\ \A n \in Nodes(re_ds) : ~ AddressDue(re_ds, n)
    /\ \A n, d \in Nodes(re_ds) :
         FlowsFrom(re_ds, n, d) =>
           (KnownThere(re_ds.core[n]) <=> Known(re_ds.core[d].aft))
    /\ stage = "done" =>
         \A n \in 1 .. Len(re_ds.core) \ Nodes(re_ds) :
           inst_resolver(re_ds, n).core = re_ds.core

(* The ground truth takes every address from the registers the tracer      *)
(* wrote down: also for push, whose write goes below the recorded esp.     *)
TruthRight ==
  \A n \in Nodes(re_ds) :
    node_is_exp(re_ds.core[n]) => truth_address(re_ds, n) = TrueAddr(re_ds, n)

CellsOf(S, r, u) ==
  LET place == TaintPlace(S, r, u)
  IN  IF place.t = "reg" THEN {<<place.fam, k>> : k \in place.lo .. place.lo + place.size - 1}
      ELSE {<<"mem", Plus(TrueAddr(S, u), k)>> : k \in 0 .. place.size - 1}
Touches(S, r, d, u) == CellsOf(S, r, d) \cap CellsOf(S, r, u) # {}
TracedRight(S, r, u) ==
  LET d == prevdef(S, r, u)
  IN  /\ d # 0 => Touches(S, r, d, u)
      /\ \A w \in u + 1 .. (IF d = 0 THEN Len(S.core) ELSE d - 1) :
           IsDef(S.core[w]) /\ Touches(S, r, w, u) => UnknownWrite(S.core[w])
Locatable(S, u) == node_is_exp(S.core[u]) => S.core[u].addr # 0

(* Taint follows what really happened: between a tainted use and the       *)
(* define it is traced to, and before the start of the trace when it is    *)
(* traced to none, nothing wrote to the place that is used, except writes  *)
(* whose address was never found, and the define did write to it.          *)
TaintReal ==
  stage = "done" /\ re_ds.out = "ok" =>
    \A r \in DOMAIN re_ds.tr.dump.reg :
      \A u \in {Crash} \cup taint_operand(re_ds, r) :
        u = Crash \/ Locatable(re_ds, u) => TracedRight(re_ds, r, u)

Unlisted ==
  {n \in 1 .. Len(re_ds.core) :
     UnknownWrite(re_ds.core[n]) /\ \A i \in DOMAIN re_ds.um : re_ds.um[i] # n}
UW == INSTANCE UnknownWrites WITH
        len <- Len(re_ds.core), pending <- MaxOrNull(Unlisted), um <- re_ds.um,
        MaxLen <- MaxNodes

(* umemlist behaves as the abstract machine UnknownWrites, for which the   *)
(* order and the early exit of resolve_alias are proved.                   *)
ImplementsUnknownWrites == UW!Spec

(* The analysis comes to an end.                                           *)
Terminates == <>Stopped
=============================================================================
