------------------------------ MODULE Emitted ------------------------------
(***************************************************************************)
(* The C code the binary translator emits for integer instructions         *)
(* (emit() in tr_emit.cpp): what it computes when it runs.  Nothing is     *)
(* emitted for a result in the zero register, which reads as the literal   *)
(* 0; an instruction emit() does not know calls its handler.  How register *)
(* copies are kept in the locals of a block is module TranslatedBlock.     *)
(***************************************************************************)
EXTENDS Handlers

Reg(m, r)    == IF r = 0 THEN 0 ELSE m.reg[r]
Assign(m, rd, v) == IF rd = 0 THEN m ELSE Put(m, rd, v)

NotEmitted == {"BREAK", "CPUCFG", "MULH_D", "MULH_DU"} \cup (Counting \ {"ALSL_W"})
              \cup DOMAIN Atomic \cup DOMAIN LoadLinked \cup DOMAIN StoreConditional

---------------------------------------------------------------------------
(* Memory.  The store check adds the host address of the arena to the end: *)
(* what is behind the arena is written like the arena.                     *)

EmittedStore(m, v, a, n) ==
    IF a < DataStart \/ a >= ArenaPtr + ArenaSize THEN Trap(m, "fault") ELSE Poke(m, a, n, v)
EmittedLoad(m, op, rd, a, n) == IF rd = 0 THEN m ELSE Load(m, op, rd, a, n)

EmittedMemory(m, i) ==
    LET j == Reg(m, i.rj)
        atImm == Wrap(j + Signed(i.imm, Imm12))
        atPtr == Wrap(j + Signed(i.imm, Imm14) * 4)
        atIdx == Wrap(j + Reg(m, i.rk))
    IN  CASE i.op \in DOMAIN LoadImm  -> EmittedLoad(m, i.op, i.rd, atImm, LoadImm[i.op])
          [] i.op \in DOMAIN LoadIdx  -> EmittedLoad(m, i.op, i.rd, atIdx, LoadIdx[i.op])
          [] i.op \in DOMAIN LoadPtr  -> EmittedLoad(m, i.op, i.rd, atPtr, LoadPtr[i.op])
          [] i.op \in DOMAIN StoreImm -> EmittedStore(m, Reg(m, i.rd), atImm, StoreImm[i.op])
          [] i.op \in DOMAIN StoreIdx -> EmittedStore(m, Reg(m, i.rd), atIdx, StoreIdx[i.op])
          [] i.op \in DOMAIN StorePtr -> EmittedStore(m, Reg(m, i.rd), atPtr, StorePtr[i.op])
Memory == DOMAIN LoadImm \cup DOMAIN LoadIdx \cup DOMAIN LoadPtr
          \cup DOMAIN StoreImm \cup DOMAIN StoreIdx \cup DOMAIN StorePtr

---------------------------------------------------------------------------
(* Branches and addresses; pc is known when the code is emitted. *)

EmittedTaken(m, i) ==
    CASE i.op \in ZeroTest -> (Reg(m, i.rj) = 0) = (i.op = "BEQZ")
      [] i.op \in FlagTest -> (m.fcc[0] = 0) = (i.op = "BCEQZ")
      [] i.op \in Compare  -> Holds(i.op, Reg(m, i.rj), Reg(m, i.rd))
      [] i.op \in {"B", "BL"} -> TRUE
EmittedBranch(m, i) ==
    LET width == IF i.op \in Compare THEN Imm16 ELSE IF i.op \in {"B", "BL"} THEN Offs26 ELSE Offs21
        linked == IF i.op = "BL" THEN Put(m, REG_RA, Wrap(m.pc + 4)) ELSE m
    IN  IF i.op = "JIRL"
          THEN [Assign(m, i.rd, Wrap(m.pc + 4)) EXCEPT !.pc = Wrap(Reg(m, i.rj) + Signed(i.imm, Imm16) * 4)]
          ELSE IncrementPC(linked, IF EmittedTaken(m, i) THEN Signed(i.imm, width) * 4 ELSE 4)

EmittedAddress(op, pc, imm) ==
  CASE op = "PCADDI"    -> Wrap(pc + Signed(imm, Imm20) * 4)
    [] op = "PCADDU12I" -> Wrap(pc + Signed(Signed(imm, Imm20) * 2^By12, Word))
    [] op = "PCALAU12I" -> Wrap((pc - (pc % 2^By12)) + Signed(imm * 2^By12, Word))
    [] op = "PCADDU18I" -> Wrap(pc + Signed(Signed(imm, Imm20) * 2^By18, Word))
PCRelative == {"PCADDI", "PCADDU12I", "PCALAU12I", "PCADDU18I"}

---------------------------------------------------------------------------
(* Arithmetic.  An ADDI_W onto its own register is a 64-bit addition. *)

EmittedAddImm_Wide(m, i) ==
    IF i.op = "LU12I_W" THEN Sext(i.imm * 2^By12, Word) ELSE Wrap(Reg(m, i.rj) + Signed(i.imm, Imm12))
EmittedAddImm(m, i) ==
    LET j == Reg(m, i.rj)  imm == Signed(i.imm, Imm12) IN
    CASE i.op = "LU12I_W"                          -> Sext(i.imm * 2^By12, Word)
      [] i.op = "ADDI_D"                           -> Wrap(j + imm)
      [] i.op = "ADDI_W" /\ i.rj = 0               -> Wrap(imm)
      [] i.op = "ADDI_W" /\ i.rj # 0 /\ i.rd = i.rj -> Wrap(j + imm)
      [] i.op = "ADDI_W" /\ i.rj # 0 /\ i.rd # i.rj -> Sext(j + imm, Word)
AddImm == {"LU12I_W", "ADDI_D", "ADDI_W"}

EmittedArith(op, j, k, imm) ==
  CASE op = "ADD_W" -> Sext(j + k, Word)
    [] op = "ADD_D" -> Wrap(j + k)
    [] op = "SUB_W" -> Sext(j - k, Word)
    [] op = "SUB_D" -> Wrap(j - k)
    [] op = "SLT"   -> Truth(Signed(j, Double) < Signed(k, Double))
    [] op = "SLTU"  -> Truth(j < k)
    [] op = "SLTI"  -> Truth(Signed(j, Double) < Signed(imm, Imm12))
    [] op = "SLTUI" -> Truth(j < Sext(imm, Imm12))
    [] op = "MUL_W" -> Sext(MulLow(j, k), Word)
    [] op = "MUL_D" -> MulLow(j, k)
    [] op = "MULH_W"  -> Sext((Signed(j, Word) * Signed(k, Word)) \div 2^Word, Word)
    [] op = "MULH_WU" -> Sext((Cast(j, Word) * Cast(k, Word)) \div 2^Word, Word)
Arith == {"ADD_W", "ADD_D", "SUB_W", "SUB_D", "SLT", "SLTU", "SLTI", "SLTUI", "MUL_W", "MUL_D",
          "MULH_W", "MULH_WU"}

\* Dividing the most negative number by -1 is emitted as 0, like dividing by 0.
EmittedDivision(op, j, k) == IF Overflows(op, j, k) THEN 0 ELSE DivisionResult(op, j, k)

EmittedLogic(op, j, k, imm) ==
  CASE op = "AND"  -> And(j, k)
    [] op = "OR"   -> Or(j, k)
    [] op = "ORI"  -> Or(j, imm)
    [] op = "XOR"  -> Xor(j, k)
    [] op = "XORI" -> Xor(j, imm)
    [] op = "ANDI" -> And(j, imm)
    [] op = "NOR"  -> Not(Or(j, k))
    [] op = "ANDN" -> And(j, Not(k))
    [] op = "ORN"  -> Or(j, Not(k))
    [] op = "MASKEQZ" -> IF k = 0 THEN 0 ELSE j
    [] op = "MASKNEZ" -> IF k # 0 THEN 0 ELSE j

EmittedShift(op, j, k, imm) ==
  CASE op = "SLL_W" -> Sext(Shl(j, k % Word), Word)
    [] op = "SRL_W" -> Sext(Shr(Cast(j, Word), k % Word), Word)
    [] op = "SRA_W" -> Sar(j, Word, k % Word)
    [] op = "SLL_D" -> Shl(j, k % Double)
    [] op = "SRL_D" -> Shr(j, k % Double)
    [] op = "SRA_D" -> Sar(j, Double, k % Double)
    [] op = "SLLI_W" -> Sext(Shl(j, imm), Word)
    [] op = "SRLI_W" -> Sext(Shr(Cast(j, Word), imm), Word)
    [] op = "SRAI_W" -> Sar(j, Word, imm)
    [] op = "SLLI_D" -> Shl(j, imm)
    [] op = "SRLI_D" -> Shr(j, imm)
    [] op = "SRAI_D" -> Sar(j, Double, imm)
    [] op = "ROTRI_W" -> Sext(Rotr(Cast(j, Word), Word, imm), Word)
    [] op = "ROTRI_D" -> Rotr(j, Double, imm)
    [] op = "ROTR_W"  -> Sext(Rotr(Cast(j, Word), Word, k % Word), Word)
    [] op = "ROTR_D"  -> Rotr(j, Double, k % Double)
EmittedShifts == (Shift \ {"BYTEPICK_D", "ALSL_D"}) \cup {"ROTRI_W", "ROTR_W", "ROTR_D"}

EmittedUpper(op, d, j, k, imm) ==
  CASE op = "LU32I_D" -> Or(Cast(d, Word), Wrap(Signed(imm, Imm20) * 2^By32))
    [] op = "LU52I_D" -> Or(Cast(j, By52), Wrap(Signed(imm, Imm12) * 2^By52))
    [] op = "ADDU16I_D" -> Wrap(j + Signed(Signed(imm, Imm16) * 2^By16, Word))
    [] op = "ALSL_W"  -> Sext(Shl(j, imm + 1) + k, Word)
    [] op = "ALSL_D"  -> Wrap(Shl(j, imm + 1) + k)
    [] op = "BYTEPICK_D" -> BytePick(j, k, imm)
    [] op = "EXT_W_B" -> Sext(j, Byte)
    [] op = "EXT_W_H" -> Sext(j, Half)
UpperAndByte == {"LU32I_D", "LU52I_D", "ADDU16I_D", "ALSL_W", "ALSL_D", "BYTEPICK_D", "EXT_W_B", "EXT_W_H"}

\* The mask of a bit string is computed when the code is emitted.
EmittedBitString(m, i, ub) ==
    LET j == Reg(m, i.rj)   d == Reg(m, i.rd)   lsb == Lsb(i.imm)
        n == IF i.op \in {"BSTRINS_D", "BSTRPICK_D"} THEN Double ELSE Word
        ones == Ones(i.imm, n, ub)
        mask == Shl(ones, lsb)
    IN  CASE i.op = "BSTRPICK_D" -> Assign(m, i.rd, And(Shr(j, lsb), ones))
          [] i.op = "BSTRPICK_W" -> Assign(m, i.rd, Sext(And(Shr(Cast(j, Word), lsb), ones), Word))
          [] i.op \in {"BSTRINS_W", "BSTRINS_D"} ->
               IF Msb(i.imm) < lsb THEN m
               ELSE Assign(m, i.rd, Sext(Or(And(Cast(d, n), Not(mask)), And(Shl(j, lsb), mask)), n))

\* OR zero, zero, zero stops the machine; SYSCALL leaves the block with its number.
EmittedControl(m, i) ==
    CASE i.op = "SYSCALL" -> SystemCall(m, IF i.imm # 0 THEN i.imm ELSE Cast(m.reg[REG_A7], Word))
      [] i.op = "OR"      -> Trap(m, "stop")
      [] i.op \in Hints   -> m

Emitted(m, i, ub) ==
    LET j == Reg(m, i.rj)  k == Reg(m, i.rk)
        stops == i.op = "OR" /\ i.rd = 0 /\ i.rj = 0 /\ i.rk = 0
        done == CASE i.op \in NotEmitted  -> Handle(m, i, ub)
                  [] i.op \in Memory      -> EmittedMemory(m, i)
                  [] i.op \in PCRelative  -> Assign(m, i.rd, EmittedAddress(i.op, m.pc, i.imm))
                  [] i.op \in AddImm      -> Assign(m, i.rd, EmittedAddImm(m, i))
                  [] i.op \in Arith       -> Assign(m, i.rd, EmittedArith(i.op, j, k, i.imm))
                  [] i.op \in Division    -> Assign(m, i.rd, EmittedDivision(i.op, j, k))
                  [] i.op \in {"SYSCALL"} \cup Hints \/ stops -> EmittedControl(m, i)
                  [] i.op \in Logic /\ ~stops -> Assign(m, i.rd, EmittedLogic(i.op, j, k, i.imm))
                  [] i.op \in EmittedShifts -> Assign(m, i.rd, EmittedShift(i.op, j, k, i.imm))
                  [] i.op \in UpperAndByte  -> Assign(m, i.rd, EmittedUpper(i.op, Reg(m, i.rd), j, k, i.imm))
                  [] i.op \in BitString   -> EmittedBitString(m, i, ub)
    IN  IF i.op \in Branches THEN EmittedBranch(m, i)
        ELSE StepOver(done)
=============================================================================
