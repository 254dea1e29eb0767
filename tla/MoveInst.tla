------------------------------ MODULE MoveInst ------------------------------
(***************************************************************************)
(* handler_move.c and handler_bit_manip.c: copies, extensions, exchanges   *)
(* and bit scans.  An operand at a fixed offset has become an expression   *)
(* (convert_offset_to_exp).                                                *)
(***************************************************************************)
EXTENDS LogicInst

mov_handler(x) == Accept(x, {RR, RM, MR, MI, RI}, DefineAt(x.dst) \o UseAt(x.src))

(* movzx, movsx, movlpd and movhpd come through mov_handler too.           *)
widened(K, v) ==
  IF Rank(K.dst[1].dt) <= Rank(K.src[1].dt) THEN abort(K) ELSE both_ways(K, 1, 1, v, K.aft[1])
movzx_resolver(x, K) == widened(K, clean_valset(K.val[1], Size(K.dst[1]), FALSE))
movsx_resolver(x, K) == widened(K, sign_extend_valset(K.val[1], Size(K.dst[1])))
process_other_mov_inst(x, K) ==
  CASE x.op = "movzx"  -> movzx_resolver(x, K)
    [] x.op = "movsx"  -> movsx_resolver(x, K)
    [] x.op = "movlpd" -> movlpd_resolver(x, K)
    [] x.op = "movhpd" -> movhpd_resolver(x, K)
mov_resolver(x, K) == IF x.op = "mov" THEN copies(K, 1, 1) ELSE process_other_mov_inst(x, K)

(* cmovcc and setcc: whether the define is written is not decided.         *)
movcc_handler(x) == DefineAt(x.dst) \o (IF x.src.t = "none" THEN <<>> ELSE UseAt(x.src))
movcc_resolver(x, K) == K

REVERSE_UINT(v) == Reverse(v)
bswap_handler(x) == IF x.dst.t = "reg" THEN <<Define(x.dst), Use(x.dst)>> ELSE Unsupported
bswap_resolver(x, K) ==
  IF K.dst[1].dt # "dword" THEN abort(K)
  ELSE both_ways(K, 1, 1, REVERSE_UINT(K.val[1]), REVERSE_UINT(K.aft[1]))

(* Bug: the source of an exchange is only read. *)
xchg_defines_one(x) ==
  IF x.op = "bswap" THEN bswap_handler(x)
  ELSE Accept(x, {RR, MR}, DefineAt(x.dst) \o UseAt(x.dst) \o <<Use(x.src)>>)
xchg_handler(x) ==
  IF x.op = "bswap" THEN bswap_handler(x)
  ELSE Accept(x, {RR, MR},
         DefineAt(x.dst) \o <<Define(x.src)>> \o UseAt(x.dst) \o <<Use(x.src)>>)
process_other_xchg_inst(x, K) == bswap_resolver(x, K)
xchg_resolver(x, K) ==
  IF x.op = "xchg" THEN copies(copies(K, 1, 2), 2, 1) ELSE process_other_xchg_inst(x, K)

(* cmpxchg: the accumulator takes the old destination; the destination     *)
(* takes the source if it was equal to the accumulator.  Nothing is said   *)
(* before both of them are known.                                          *)
Acc(x) == R("eax", x.src.dt)
xchgcc_handler(x) ==
  Accept(x, {RR, MR}, <<Define(Acc(x))>> \o DefineAt(x.dst) \o UseAt(x.dst)
                      \o <<Use(Acc(x)), Use(x.src)>>)
xchgcc_resolver(x, K) ==
  IF K.src[2].dt \notin {"byte", "dword"} THEN abort(K)
  ELSE IF ~ sees(K, {1, 2}, {}) THEN K
  ELSE IF K.val[1] # K.val[2] THEN tell(K, "aft", 1, K.val[1])
  ELSE IF sees(K, {3}, {}) THEN tell(K, "aft", 2, K.val[3])
  ELSE IF sees(K, {}, {2}) THEN put(K, "val", 3, K.aft[2])
  ELSE K

-----------------------------------------------------------------------------
(* Bits: bt, bsr and bsf all get a define; only the scans are computed,    *)
(* and __builtin_clzl and __builtin_ctzl of zero are undefined.            *)
bittest_handler(x) == Accept(x, {RM, RR}, <<Define(x.dst)>> \o UseAt(x.src))
SetBits(v)   == {k \in 0 .. IntBits - 1 : Bits(ToNum(v), IntBits)[k + 1] = 1}
Scanned(v, pick, garbage) ==
  IF SetBits(v) = {} THEN garbage ELSE Mod(pick, zero_valset(DW))
bsr_resolver(x, K) ==
  forward_only(K, {1}, 1, Scanned(K.val[1], Max(SetBits(K.val[1])), x.garbage))
bsf_resolver(x, K) ==
  forward_only(K, {1}, 1, Scanned(K.val[1], Min(SetBits(K.val[1])), x.garbage))
bittest_resolver(x, K) ==
  CASE x.op = "bsr" -> bsr_resolver(x, K)
    [] x.op = "bsf" -> bsf_resolver(x, K)
    [] OTHER        -> K

(* cdq: edx is the sign of eax. *)
szconv_handler(x) == <<Define(Edx), Use(Eax)>>
szconv_resolver(x, K) ==
  forward_only(K, {1}, 1, IF sign_of_valset(K.val[1]) THEN one_valset(DW) ELSE zero_valset(DW))

-----------------------------------------------------------------------------
(* The processor.  A conditional move or set reads one flag.               *)
Move(x) ==
  LET v == Before(x, x.src)
  IN  CASE x.op = "mov"    -> x.dst.place := v
        [] x.op = "movzx"  -> x.dst.place := clean_valset(v, Size(x.dst), FALSE)
        [] x.op = "movsx"  -> x.dst.place := SourceValue(x)
        [] x.op = "cmovcc" -> x.dst.place := (IF x.flag = 1 THEN v ELSE Before(x, x.dst))
        [] x.op = "setcc"  -> x.dst.place := <<x.flag>>
        [] x.op = "bswap"  -> x.dst.place := Reverse(Before(x, x.dst))
        [] x.op = "xchg"   -> (x.dst.place := v) ++ (x.src.place := Before(x, x.dst))
        [] x.op = "cmpxchg" ->
             ("eax" := Before(x, x.dst)) ++
             (x.dst.place := (IF Before(x, x.dst) = x.before["eax"] THEN v ELSE Before(x, x.dst)))
        [] x.op = "bsr"    -> x.dst.place := Scanned(v, Max(SetBits(v)), Before(x, x.dst))
        [] x.op = "bsf"    -> x.dst.place := Scanned(v, Min(SetBits(v)), Before(x, x.dst))
        [] x.op = "cdq"    ->
             "edx" := (IF sign_of_valset(x.before["eax"]) THEN one_valset(DW) ELSE zero_valset(DW))
        [] x.op = "bt"     -> NoChange
=============================================================================
