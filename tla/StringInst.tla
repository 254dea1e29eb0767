----------------------------- MODULE StringInst -----------------------------
(***************************************************************************)
(* handler_string.c: string instructions.  The trace has one entry for     *)
(* every iteration of a repeated one; x.prefix tells that it is repeated.  *)
(* When the count is unknown or zero, a repeated instruction is left       *)
(* alone.                                                                  *)
(***************************************************************************)
EXTENDS ControlInst

Ecx    == Dword("ecx")
Esi    == Dword("esi")
Edi    == Dword("edi")
AtEdi(dt) == Operand("mem", "at edi", dt)
AtEsi(dt) == Operand("mem", "at esi", dt)
Both(o) == <<Define(o), Use(o)>>
Counter(x) == IF x.prefix THEN Both(Ecx) ELSE <<>>

(* The direction: the nearest std or cld before the instruction.           *)
resolve_df(x) == x.earlier # <<>> /\ Head(x.earlier) = "std"

strsca_handler(x) == IF x.prefix THEN Both(Ecx) \o Both(Edi) ELSE Unsupported
strcmp_handler(x) == IF x.prefix THEN Both(Ecx) \o Both(Edi) \o Both(Esi) ELSE Unsupported
movs_handler(x)   == Both(Edi) \o Both(Esi) \o DefineAt(x.dst) \o UseAt(x.src)
strmov_handler(x) == Counter(x) \o movs_handler(x)
stos_handler(x)   == Both(Edi) \o DefineAt(x.dst) \o <<Use(x.src)>>
strstore_handler(x) == Counter(x) \o stos_handler(x)
lods_handler(x)   == Both(Esi) \o <<Define(x.dst)>> \o UseAt(x.src)
strload_handler(x) ==
  IF x.prefix THEN <<DefineAs(Ecx, zero_valset(DW))>> \o Both(Esi) \o <<Use(Ecx), Define(x.dst)>>
                   \o UseAt(x.src)
  ELSE lods_handler(x)

-----------------------------------------------------------------------------
(* An index register moves by the size of the element, against the         *)
(* direction flag when it is undone.                                       *)
Amount(x) == ToBytes(translate_datatype_to_byte(x.dt), DW)
StepOf(x) == IF resolve_df(x) THEN Mod(0 - ToNum(Amount(x)), Amount(x)) ELSE Amount(x)
moves(x, K, i) ==
  both_ways(K, i, i, AddVal(K.val[i], StepOf(x)), SubVal(K.aft[i], StepOf(x)))
counts(K) == tell(K, "aft", 1, SubVal(K.val[1], <<1>>))

(* Bug: a count of zero is taken for a repetition. *)
counted_at_zero(K) == Known(K.val[1])
counted(K) == Known(K.val[1]) /\ ToNum(K.val[1]) # 0

strsca_resolver(x, K) == IF counted(K) THEN moves(x, counts(K), 2) ELSE K
strcmp_resolver(x, K) == IF counted(K) THEN moves(x, moves(x, counts(K), 2), 3) ELSE K
movs_resolver(x, K)   == copies(moves(x, moves(x, K, 1), 2), 3, 3)
strmov_resolver(x, K) ==
  IF ~ x.prefix THEN movs_resolver(x, K)
  ELSE IF counted(K) THEN copies(moves(x, moves(x, counts(K), 2), 3), 4, 4) ELSE K
stos_resolver(x, K)   == copies(moves(x, K, 1), 2, 2)
strstore_resolver(x, K) ==
  IF ~ x.prefix THEN stos_resolver(x, K)
  ELSE IF resolve_df(x) THEN abort(K)
  ELSE IF counted(K) THEN copies(moves(x, counts(K), 2), 3, 3) ELSE K
lods_resolver(x, K)   == copies(moves(x, K, 1), 2, 2)
strload_resolver(x, K) ==
  IF ~ x.prefix THEN lods_resolver(x, K) ELSE IF Known(K.bef[1]) THEN abort(K) ELSE K

-----------------------------------------------------------------------------
(* The processor: one iteration, or none when the count is zero.           *)
Direction(x) == IF x.earlier # <<>> THEN Head(x.earlier) = "std" ELSE x.flag = 1
MovesTo(x, v) == IF Direction(x) THEN SubVal(v, Amount(x)) ELSE AddVal(v, Amount(x))
Touched(x) ==
  CASE x.op = "scas" -> {"edi"} [] x.op = "cmps" -> {"edi", "esi"}
    [] x.op = "movs" -> {"edi", "esi"} [] x.op = "stos" -> {"edi"} [] x.op = "lods" -> {"esi"}
String(x) ==
  LET moved == [p \in Touched(x) |-> MovesTo(x, x.before[p])]
      count == IF x.prefix THEN "ecx" := SubVal(x.before["ecx"], <<1>>)
               ELSE NoChange
      data  == IF x.op \in {"movs", "stos", "lods"} THEN x.dst.place := Before(x, x.src)
               ELSE NoChange
  IN  IF x.prefix /\ ToNum(x.before["ecx"]) = 0 THEN NoChange
      ELSE moved ++ count ++ data
=============================================================================
