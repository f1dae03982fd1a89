------------------------------ MODULE FastPath ------------------------------
(***************************************************************************)
(* The fast dispatch of integer instructions: the decoder cache picks a    *)
(* bytecode (determine_bytecode), the rewriter packs the fields into the   *)
(* narrower Faster formats (optimize_bytecode), the bytecode runs on them  *)
(* (bytecode_impl.cpp).  A rewritten instruction is a record               *)
(* [bc, rd, rj, rk, imm] whose imm is the number the Faster format holds.  *)
(***************************************************************************)
EXTENDS Handlers

MoveBits(i) == i.op = "ORI" /\ i.rd = 0 /\ i.rj = 0 /\ i.imm % 4 = 0

\* determine_bytecode: the instructions without a bytecode run their handler.
NoBytecode == {"BREAK", "CPUCFG", "LD_W", "LDX_WU", "ADDU16I_D", "DIV_W", "MOD_W", "DIV_WU", "MOD_WU",
               "DIV_D", "MOD_D", "DIV_DU", "NOR", "SLL_W", "SRL_W", "SRA_W", "SRAI_W", "ROTRI_D",
               "SRA_D", "BSTRINS_W", "MULH_W", "MULH_WU", "MULH_D", "MULH_DU", "ROTR_W", "ROTR_D",
               "ROTRI_W", "PRELD", "DBAR", "IBAR"}
              \cup (Counting \ {"REVB_2H", "REVB_4H"})
              \cup DOMAIN Atomic \cup DOMAIN LoadLinked \cup DOMAIN StoreConditional
Bytecode(i) == IF (i.op = "OR" /\ i.rj = 0) \/ MoveBits(i) THEN "MOVE"
               ELSE IF i.op \in NoBytecode THEN "FUNCTION" ELSE i.op

---------------------------------------------------------------------------
(* The rewriter. *)

\* The bytecodes with NOP_IF_RD_ZERO: a result for the zero register is not computed.
NopIfZero == {"LD_D", "OR", "AND", "ALSL_D", "ADDI_W", "ADDI_D", "ANDI", "ADD_D", "SUB_D", "ORI",
              "SLLI_W", "SLLI_D", "SRLI_D", "LD_BU", "BSTRPICK_D", "LDPTR_D", "LDPTR_W", "LD_B",
              "LDX_D", "MASKEQZ", "MASKNEZ", "MUL_D", "SUB_W", "SLL_D", "BSTRPICK_W", "SLTU", "LDX_H",
              "LDX_W", "XOR", "LD_HU", "ADD_W", "SRAI_D", "EXT_W_B", "LDX_BU", "BSTRINS_D", "LU32I_D",
              "REVB_2H", "BYTEPICK_D", "SLTI", "SRLI_W", "SRL_D", "LU52I_D", "XORI", "SLTUI", "LD_H",
              "LDX_HU", "LD_WU", "ANDN", "STX_B", "EXT_W_H", "LDX_B", "SLT", "ORN", "MUL_W", "MOD_DU",
              "REVB_4H"}
SignedImm12_NotSlti == {"ADDI_W", "ADDI_D"} \cup DOMAIN LoadImm \cup DOMAIN StoreImm
SignedImm12 == {"ADDI_W", "ADDI_D", "SLTI"} \cup DOMAIN LoadImm \cup DOMAIN StoreImm
SignedImm14 == DOMAIN LoadPtr \cup DOMAIN StorePtr

Packed(i, bc, imm) == [bc |-> bc, rd |-> i.rd, rj |-> i.rj, rk |-> i.rk, imm |-> imm]

\* A branch keeps its byte offset if it stays in the segment; B and BL in 32
\* bits, the conditional ones in the int16_t of their format.
PackOffset(i, pc, offset, kept) ==
    IF IsWithin(Wrap(pc + offset)) THEN Packed(i, i.op, kept) ELSE Packed(i, "INVALID", i.imm)
PackMove(i) ==
    CASE MoveBits(i) /\ i.imm = 0           -> Packed(i, "STOP", 0)
      [] MoveBits(i) /\ i.imm # 0           -> Packed(i, "NOP", i.imm)
      [] i.op = "OR" /\ i.rd = 0 /\ i.rk = 0 -> Packed(i, "STOP", 0)
      [] i.op = "OR" /\ i.rd = 0 /\ i.rk # 0 -> Packed(i, "NOP", 0)
      [] OTHER                              -> Packed(i, "MOVE", 0)

Optimized(i, pc) ==
    LET bc == Bytecode(i)
        jump == Signed(i.imm, Offs26) * 4
        near == Signed(i.imm, Imm16) * 4
        far  == Signed(i.imm, Offs21) * 4
    IN  IF bc = "MOVE" THEN PackMove(i)
        ELSE IF bc \in NopIfZero /\ i.rd = 0 THEN Packed(i, "NOP", i.imm)
        ELSE CASE bc \in {"B", "BL"}  -> PackOffset(i, pc, jump, jump)
               [] bc \in Compare      -> PackOffset(i, pc, near, Signed(near, Half))
               [] bc \in ZeroTest \cup FlagTest -> PackOffset(i, pc, far, Signed(far, Half))
               [] bc = "JIRL"         -> Packed(i, bc, Signed(i.imm, Imm16))
               [] bc \in SignedImm12  -> Packed(i, bc, Signed(i.imm, Imm12))
               [] bc \in SignedImm14  -> Packed(i, bc, Signed(i.imm, Imm14))
               [] bc = "LU32I_D"      -> Packed(i, bc, Signed(i.imm, Imm20))
               [] bc = "SYSCALL" /\ i.imm # 0 -> Packed(i, "SYSCALLIMM", i.imm)
               [] OTHER               -> Packed(i, bc, i.imm)

---------------------------------------------------------------------------
(* The bytecodes, in the order of bytecode_impl.cpp: arithmetic first. *)

PopularResult(bc, j, k, imm) ==
  CASE bc = "MOVE"   -> k
    [] bc = "OR"     -> Or(j, k)
    [] bc = "ADDI_W" -> Sext(j + imm, Word)
    [] bc = "ADDI_D" -> Wrap(j + imm)
    [] bc = "ANDI"   -> And(j, imm)
    [] bc = "ADD_D"  -> Wrap(j + k)
    [] bc = "SUB_D"  -> Wrap(j - k)
    [] bc = "ORI"    -> Or(j, imm)
    [] bc = "SLLI_W" -> Sext(Shl(j, imm), Word)
    [] bc = "SLLI_D" -> Shl(j, imm)
Popular == {"MOVE", "OR", "ADDI_W", "ADDI_D", "ANDI", "ADD_D", "SUB_D", "ORI", "SLLI_W", "SLLI_D"}

\* LU12I_W and the PC-relative bytecodes read the original bits; si20 << 18 is an int64_t here.
UpperFast(bc, d, pc, imm) ==
  CASE bc = "PCADDI"    -> Wrap(pc + Signed(imm, Imm20) * 4)
    [] bc = "PCALAU12I" -> Wrap((pc - (pc % 2^By12)) + Signed(imm * 2^By12, Word))
    [] bc = "LU12I_W"   -> Sext(imm * 2^By12, Word)
    [] bc = "LU32I_D"   -> Or(Wrap(imm * 2^By32), Cast(d, Word))
    [] bc = "PCADDU12I" -> Wrap(pc + Signed(imm, Imm20) * 2^By12)
    [] bc = "PCADDU18I" -> Wrap(pc + Signed(imm, Imm20) * 2^By18)

MiddleResult(bc, j, k, imm) ==
  CASE bc = "AND"     -> And(j, k)
    [] bc = "ALSL_D"  -> Wrap(Shl(j, imm + 1) + k)
    [] bc = "SRLI_D"  -> Shr(j, imm)
    [] bc = "MASKEQZ" -> IF k = 0 THEN 0 ELSE j
    [] bc = "MASKNEZ" -> IF k # 0 THEN 0 ELSE j
    [] bc = "MUL_D"   -> MulLow(j, k)
    [] bc = "SUB_W"   -> Sext(j - k, Word)
    [] bc = "SLL_D"   -> Shl(j, k % Double)
    [] bc = "SLTU"    -> Truth(j < k)
    [] bc = "XOR"     -> Xor(j, k)
    [] bc = "ADD_W"   -> Sext(j + k, Word)
    [] bc = "SRAI_D"  -> Sar(j, Double, imm)
    [] bc = "EXT_W_B" -> Sext(j, Byte)
Middle == {"AND", "ALSL_D", "SRLI_D", "MASKEQZ", "MASKNEZ", "MUL_D", "SUB_W", "SLL_D", "SLTU", "XOR",
           "ADD_W", "SRAI_D", "EXT_W_B"}

\* SLTUI compares with the immediate the rewriter stored.
LateResult(bc, j, k, imm) ==
  CASE bc = "REVB_2H"    -> Sext(Reverse(Cast(j, Word), Byte, Half), Word)
    [] bc = "BYTEPICK_D" -> BytePick(j, k, imm)
    [] bc = "SLTI"    -> Truth(Signed(j, Double) < imm)
    [] bc = "SRLI_W"  -> Sext(Shr(Cast(j, Word), imm), Word)
    [] bc = "SRL_D"   -> Shr(j, k % Double)
    [] bc = "LU52I_D" -> Or(Shl(imm, By52), Cast(j, By52))
    [] bc = "XORI"    -> Xor(j, imm)
    [] bc = "SLTUI"   -> Truth(j < Wrap(imm))
    [] bc = "ANDN"    -> And(j, Not(k))
    [] bc = "EXT_W_H" -> Sext(j, Half)
    [] bc = "SLT"     -> Truth(Signed(j, Double) < Signed(k, Double))
    [] bc = "ORN"     -> Or(j, Not(k))
    [] bc = "MUL_W"   -> Sext(MulLow(j, k), Word)
    [] bc = "MOD_DU"  -> IF k = 0 THEN 0 ELSE j % k
    [] bc = "REVB_4H" -> Reverse(j, Byte, Half)
Late == {"REVB_2H", "BYTEPICK_D", "SLTI", "SRLI_W", "SRL_D", "LU52I_D", "XORI", "SLTUI", "ANDN",
         "EXT_W_H", "SLT", "ORN", "MUL_W", "MOD_DU", "REVB_4H"}

\* BSTRPICK_W zero-extends; the shift by the whole width is undefined here too.
BitStringFast(m, f, ub) ==
    LET j == m.reg[f.rj]   d == m.reg[f.rd]   lsb == Lsb(f.imm)
        mask == Shl(Ones(f.imm, Double, ub), lsb)
    IN  CASE f.bc = "BSTRPICK_D" -> Put(m, f.rd, And(Shr(j, lsb), Ones(f.imm, Double, ub)))
          [] f.bc = "BSTRPICK_W" -> Put(m, f.rd, And(Shr(Cast(j, Word), lsb), Ones(f.imm, Word, ub)))
          [] f.bc = "BSTRINS_D"  -> IF Msb(f.imm) >= lsb
                                    THEN Put(m, f.rd, Or(And(d, Not(mask)), And(Shl(j, lsb), mask)))
                                    ELSE m

\* The memory bytecodes: base plus the packed offset, or base plus index.
FastStores == DOMAIN StoreImm \cup DOMAIN StorePtr \cup DOMAIN StoreIdx
FastLoads  == DOMAIN LoadImm \cup DOMAIN LoadPtr \cup DOMAIN LoadIdx
SizeOf(bc) == CASE bc \in DOMAIN LoadImm -> LoadImm[bc] [] bc \in DOMAIN StoreImm -> StoreImm[bc]
                [] bc \in DOMAIN LoadPtr -> LoadPtr[bc] [] bc \in DOMAIN StorePtr -> StorePtr[bc]
                [] bc \in DOMAIN LoadIdx -> LoadIdx[bc] [] bc \in DOMAIN StoreIdx -> StoreIdx[bc]
FastAddress(m, f) ==
    CASE f.bc \in DOMAIN LoadImm \cup DOMAIN StoreImm -> Wrap(m.reg[f.rj] + f.imm)
      [] f.bc \in DOMAIN LoadPtr \cup DOMAIN StorePtr -> Wrap(m.reg[f.rj] + f.imm * 4)
      [] f.bc \in DOMAIN LoadIdx \cup DOMAIN StoreIdx -> Wrap(m.reg[f.rj] + m.reg[f.rk])
MemoryFast(m, f) ==
    LET a == FastAddress(m, f) n == SizeOf(f.bc)
    IN  IF f.bc \in FastStores THEN Store(m, f.rd, a, n) ELSE Load(m, f.bc, f.rd, a, n)

\* PERFORM_BRANCH and NEXT_BLOCK: a taken branch moves by the packed offset, another one by 4.
TakenFast(m, f) ==
    CASE f.bc \in ZeroTest -> (m.reg[f.rj] = 0) = (f.bc = "BEQZ")
      [] f.bc \in FlagTest -> (m.fcc[0] = 0) = (f.bc = "BCEQZ")
      [] f.bc \in Compare  -> Holds(f.bc, m.reg[f.rj], m.reg[f.rd])
      [] f.bc \in {"B", "BL"} -> TRUE
BranchFast(m, f) ==
    CASE f.bc = "BL"   -> IncrementPC(Put(m, REG_RA, Wrap(m.pc + 4)), f.imm)
      [] f.bc = "JIRL" -> [(IF f.rd # 0 THEN Put(m, f.rd, Wrap(m.pc + 4)) ELSE m)
                             EXCEPT !.pc = Wrap(m.reg[f.rj] + f.imm * 4)]
      [] f.bc \notin {"BL", "JIRL"} -> IncrementPC(m, IF TakenFast(m, f) THEN f.imm ELSE 4)

\* INVALID, NOP, STOP and the system calls.
ControlFast(m, f) ==
    CASE f.bc = "INVALID"    -> Trap(m, "invalid")
      [] f.bc = "NOP"        -> m
      [] f.bc = "STOP"       -> Trap(m, "stop")
      [] f.bc = "SYSCALL"    -> SystemCall(m, Cast(m.reg[REG_A7], Word))
      [] f.bc = "SYSCALLIMM" -> SystemCall(m, f.imm)

\* One instruction of the fast dispatch.
Dispatch(m, i, ub) ==
    LET f == Optimized(i, m.pc)
        j == m.reg[f.rj]  k == m.reg[f.rk]
        done == CASE f.bc = "FUNCTION"     -> Handle(m, i, ub)
                  [] f.bc \in Popular      -> Put(m, f.rd, PopularResult(f.bc, j, k, f.imm))
                  [] f.bc \in Middle       -> Put(m, f.rd, MiddleResult(f.bc, j, k, f.imm))
                  [] f.bc \in Late         -> Put(m, f.rd, LateResult(f.bc, j, k, f.imm))
                  [] f.bc \in Upper \ {"LU52I_D"} ->
                         Put(m, f.rd, UpperFast(f.bc, m.reg[f.rd], m.pc, f.imm))
                  [] f.bc \in BitString    -> BitStringFast(m, f, ub)
                  [] f.bc \in FastStores \cup FastLoads -> MemoryFast(m, f)
                  [] f.bc \in {"INVALID", "NOP", "STOP", "SYSCALL", "SYSCALLIMM"} -> ControlFast(m, f)
    IN  IF f.bc \in Branches THEN BranchFast(m, f)
        ELSE StepOver(done)
=============================================================================
