--------------------------- MODULE VectorEngines ---------------------------
(***************************************************************************)
(* Floating-point and vector instructions under the three engines: the     *)
(* handlers, the bytecodes of the fast dispatch and the emitted code.  An  *)
(* instruction an engine has no code of its own for runs its handler.      *)
(***************************************************************************)
EXTENDS VectorHandlers

---------------------------------------------------------------------------
(* The bytecodes of the fast dispatch. *)

FastMemory == [VLD |-> Load(16, <<>>), VST |-> Store(16), VLDX |-> Load(16, <<>>), VSTX |-> Store(16),
               XVLD |-> Load(32, <<>>), XVST |-> Store(32), XVLDX |-> Load(32, <<>>), XVSTX |-> Store(32),
               FLDX_D |-> Load(8, <<>>), FSTX_D |-> Store(8)]
FastScalarMemory == [FLD_D |-> Load(8, <<<<"d", 8, 1>>>>), FST_D |-> Store(8)]
FastVector == [VFADD_D |-> ForEach([size |-> 16, w |-> 8, f |-> "+", roles |-> JK]),
               VFMADD_D |-> ForEach([size |-> 16, w |-> 8, f |-> "a+jk", roles |-> JKA]),
               VHADDW_D_W |-> <<SumPair(8, 0, "j", 0), SumPair(8, 1, "k", 0)>> \o ClearHigh,
               FMADD_D |-> ForEach([size |-> 8, w |-> 8, f |-> "a+jk", roles |-> JKA])]
FastScalar == [FADD_D |-> ForEach([size |-> 8, w |-> 8, f |-> "+", roles |-> JK]),
               FMUL_D |-> ForEach([size |-> 8, w |-> 8, f |-> "*", roles |-> JK])]

FastWrites == FastMemory ++ FastScalarMemory ++ FastVector ++ FastScalar
FastBuffered == {"VHADDW_D_W"}

\* The operand fields each bytecode's format keeps.
FormatR3 == {"VLDX", "VSTX", "XVLDX", "XVSTX", "FLDX_D", "FSTX_D", "VFADD_D", "VHADDW_D_W", "FADD_D", "FMUL_D"}
Format4R == {"VFMADD_D", "FMADD_D"}
Rewritten(i) == CASE i.op \in Format4R -> i
                  [] i.op \in FormatR3 -> [i EXCEPT !.a = V0]
                  [] OTHER             -> [i EXCEPT !.k = V0, !.a = V0]

Dispatch(m, i) ==
    CASE i.op \notin DOMAIN FastWrites -> Handle(m, i)
      [] i.op \in DOMAIN (FastMemory ++ FastScalarMemory) /\ Refused(i) -> Trap(m, "fault")
      [] OTHER -> IF i.op \in FastBuffered THEN Simultaneous(m, Rewritten(i), FastWrites[i.op])
                  ELSE InPlace(m, Rewritten(i), FastWrites[i.op])

---------------------------------------------------------------------------
(* The emitted code. *)

EmittedScalarMemory == [FLD_S |-> Load(4, <<>>), FST_S |-> Store(4), FLD_D |-> Load(8, <<>>),
                        FST_D |-> Store(8), FLDX_S |-> Load(4, <<>>), FSTX_S |-> Store(4),
                        FLDX_D |-> Load(8, <<>>), FSTX_D |-> Store(8)]

EmittedArithmetic ==
    Double("+", JK, {"FADD_D"}) ++ Double("-", JK, {"FSUB_D"}) ++ Double("*", JK, {"FMUL_D"}) ++ Double("/", JK, {"FDIV_D"})
    ++ Single("+", JK, {"FADD_S"}) ++ Single("-", JK, {"FSUB_S"}) ++ Single("*", JK, {"FMUL_S"}) ++ Single("/", JK, {"FDIV_S"})
    ++ Double("fmax", JK, {"FMAX_D"}) ++ Double("fmin", JK, {"FMIN_D"})
    ++ Single("fmax", JK, {"FMAX_S"}) ++ Single("fmin", JK, {"FMIN_S"})
\* FABS is emitted as x >= 0 ? x : -x, not a number and -0 included.
EmittedUnary ==
    Double("x>=0?x:-x", J, {"FABS_D"}) ++ Single("x>=0?x:-x", J, {"FABS_S"}) ++ Double("neg", J, {"FNEG_D"})
    ++ Double("copy", J, {"FMOV_D"}) ++ Single("copy", J, {"FMOV_S"})
EmittedFused ==
    Double("a+jk", JKA, {"FMADD_D"}) ++ Single("a+jk", JKA, {"FMADD_S"})
    ++ Double("jk-a", JKA, {"FMSUB_D"}) ++ Single("jk-a", JKA, {"FMSUB_S"})
    ++ Double("-(a+jk)", JKA, {"FNMADD_D"}) ++ Single("-(a+jk)", JKA, {"FNMADD_S"})
    ++ Double("a-jk", JKA, {"FNMSUB_D"}) ++ Single("a-jk", JKA, {"FNMSUB_S"})
EmittedScalar == EmittedArithmetic ++ EmittedUnary ++ EmittedFused

\* VLDI is a constant of the emitted code, except for an unknown mode.
EmittedImmediate(i) == Fill(16, LdiWidth(i.imm), "imm")

EmittedVectorMemory == [VLD |-> Load(16, <<>>), VST |-> Store(16), VLDX |-> Load(16, <<>>), VSTX |-> Store(16)]
EmittedVector == Row(16, 8, "+", JK, "VFADD_D") ++ Row(16, 8, "a+jk", JKA, "VFMADD_D")

\* The emitted checks: that of a store ends at arena_ptr + arena_size.
EmittedRefused_AnyEnd(i) == i.at \notin IF i.op \in Stores THEN {"data", "host"} ELSE {"rodata", "data", "host"}
EmittedRefused(i) == i.at \notin IF i.op \in Stores THEN {"data", "host"} ELSE {"rodata", "data"}

Emitted(m, i) ==
    CASE i.op \in DOMAIN (EmittedScalarMemory ++ EmittedVectorMemory) ->
           IF EmittedRefused(i) THEN Trap(m, "fault") ELSE InPlace(m, i, (EmittedScalarMemory ++ EmittedVectorMemory)[i.op])
      [] i.op \in DOMAIN EmittedScalar -> InPlace(m, i, ForEach(EmittedScalar[i.op]))
      [] i.op \in DOMAIN EmittedVector -> InPlace(m, i, ForEach(EmittedVector[i.op]))
      [] i.op = "VLDI" /\ ~Illegal(i)  -> InPlace(m, i, EmittedImmediate(i))
      [] OTHER                         -> Handle(m, i)
=============================================================================
