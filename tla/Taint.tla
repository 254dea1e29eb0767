-------------------------------- MODULE Taint --------------------------------
(***************************************************************************)
(* The backward taint of analyze_result.c, over the main list that reverse *)
(* execution leaves: from a register of the crashing operand to the define *)
(* it was last set by, to the uses of that instruction, and so on.  The    *)
(* counters that are only printed are left out.                            *)
(***************************************************************************)
EXTENDS CoreList

TAINT_END == 927   (* instructions further from the crash are not followed *)

Crash == 0   (* the use that stands at the end of the list while it is traced *)
TaintPlace(S, r, u) == IF u = Crash THEN Full(r) ELSE PlaceOf(S.core[u])
TooFar(S, u) == u # Crash /\ S.core[find_inst_of_node(S, u)].i - 1 > TAINT_END

(* Bug: a define of a part of the place is passed by. *)
prevdef_exact(S, r, u) ==
  MinOrNull({j \in u + 1 .. Len(S.core) :
               IsDef(S.core[j]) /\ MatchType(S, j, TaintPlace(S, r, u)) = EXACT})
prevdef(S, r, u) == find_prev(S, u, TaintPlace(S, r, u), "def")

elements(S, exp) ==
  {get_element_of_exp(S, exp, "Base"), get_element_of_exp(S, exp, "Index")} \ {0}

(* The uses that directly follow a define: when an instruction has two     *)
(* defines, all of them belong to the second.                              *)
IsLea(S, n) == inst_of(S, find_inst_of_node(S, n)).op = "lea"
get_src_of_def(S, d) ==
  LET stop == MinOrNull({j \in d + 1 .. Len(S.core) : ~ IsUse(S.core[j])})
  IN  {u \in d + 1 .. (IF stop = 0 THEN Len(S.core) ELSE stop - 1) :
         S.core[u].ut = "Opd" \/ IsLea(S, d)}

ElementsIfMemory(S, n) ==
  IF node_is_exp(S.core[n]) /\ ~ IsLea(S, n) THEN elements(S, n) ELSE {}
Sources(S, d) ==
  ElementsIfMemory(S, d)
    \cup UNION {{u} \cup ElementsIfMemory(S, u) :
                  u \in {s \in get_src_of_def(S, d) : S.core[s].o.t # "imm"}}

TaintedBy(S, r, u) ==
  IF TooFar(S, u) \/ prevdef(S, r, u) = 0 THEN {} ELSE Sources(S, prevdef(S, r, u))

(* Every hop leads to a larger id, so that the work list runs dry.         *)
taint_operand(S, r) ==
  FoldLeftDomain(LAMBDA tainted, u :
                   IF u \in tainted THEN tainted \cup TaintedBy(S, r, u) ELSE tainted,
                 TaintedBy(S, r, Crash), S.core)
=============================================================================
