------------------------------ MODULE Handlers ------------------------------
(***************************************************************************)
(* The integer instruction handlers (InstrImpl in la_instr_impl.hpp): the  *)
(* functions step_one and the precise loop call for every instruction, the *)
(* fast dispatch calls for every instruction without a bytecode and the    *)
(* translator calls for every instruction it does not emit.                *)
(*                                                                         *)
(* Every Result operator is the value one group of consecutive handlers    *)
(* stores in rd; j and k are the registers rj and rk, d the old rd.  `ub'  *)
(* chooses between the outcomes a build can give an undefined operation:   *)
(* a shift by the full width of the type keeps the value or clears it, and *)
(* the most negative number divided by -1 wraps or kills the process.      *)
(***************************************************************************)
EXTENDS GuestState

\* A handler stores through cpu.reg(rd) without looking at rd.
Put(m, rd, v) == [m EXCEPT !.reg[rd] = v]

---------------------------------------------------------------------------
(* Arithmetic and division. *)

AddSub == {"ADD_W", "ADD_D", "SUB_W", "SUB_D", "SLT", "SLTU", "ADDI_W", "ADDI_D", "ADDU16I_D"}
AddSubResult(op, j, k, imm) ==
  CASE op = "ADD_W"  -> Sext(j + k, Word)
    [] op = "ADD_D"  -> Wrap(j + k)
    [] op = "SUB_W"  -> Sext(j - k, Word)
    [] op = "SUB_D"  -> Wrap(j - k)
    [] op = "SLT"    -> Truth(Signed(j, Double) < Signed(k, Double))
    [] op = "SLTU"   -> Truth(j < k)
    [] op = "ADDI_W" -> Sext(j + Signed(imm, Imm12), Word)
    [] op = "ADDI_D" -> Wrap(j + Signed(imm, Imm12))
    [] op = "ADDU16I_D" -> Wrap(j + Signed(Signed(imm, Imm16) * 2^By16, Word))

Division == {"DIV_W", "MOD_W", "DIV_WU", "MOD_WU", "DIV_D", "MOD_D", "DIV_DU", "MOD_DU"}
DivisionResult(op, j, k) ==
  CASE op = "DIV_W"  -> IF Cast(k, Word) = 0 THEN 0 ELSE Sext(Quotient(Signed(j, Word), Signed(k, Word)), Word)
    [] op = "MOD_W"  -> IF Cast(k, Word) = 0 THEN 0 ELSE Sext(Remainder(Signed(j, Word), Signed(k, Word)), Word)
    [] op = "DIV_WU" -> IF Cast(k, Word) = 0 THEN 0 ELSE Sext(Cast(j, Word) \div Cast(k, Word), Word)
    [] op = "MOD_WU" -> IF Cast(k, Word) = 0 THEN 0 ELSE Sext(Cast(j, Word) % Cast(k, Word), Word)
    [] op = "DIV_D"  -> IF k = 0 THEN 0 ELSE Wrap(Quotient(Signed(j, Double), Signed(k, Double)))
    [] op = "MOD_D"  -> IF k = 0 THEN 0 ELSE Wrap(Remainder(Signed(j, Double), Signed(k, Double)))
    [] op = "DIV_DU" -> IF k = 0 THEN 0 ELSE j \div k
    [] op = "MOD_DU" -> IF k = 0 THEN 0 ELSE j % k

\* INT_MIN / -1 in the width of the operation.
Overflows(op, j, k) ==
    \/ /\ op \in {"DIV_W", "MOD_W"}
       /\ Cast(j, Word) = 2^(Word - 1) /\ Cast(k, Word) = 2^Word - 1
    \/ /\ op \in {"DIV_D", "MOD_D"}
       /\ j = 2^(Double - 1) /\ k = 2^Double - 1

---------------------------------------------------------------------------
(* Logic, shifts and bytes. *)

Logic == {"AND", "OR", "XOR", "NOR", "ORN", "ANDN", "MASKEQZ", "MASKNEZ", "ANDI", "ORI", "XORI"}
LogicResult(op, j, k, imm) ==
  CASE op = "AND"  -> And(j, k)
    [] op = "OR"   -> Or(j, k)
    [] op = "XOR"  -> Xor(j, k)
    [] op = "NOR"  -> Not(Or(j, k))
    [] op = "ORN"  -> Or(j, Not(k))
    [] op = "ANDN" -> And(j, Not(k))
    [] op = "MASKEQZ" -> IF k = 0 THEN 0 ELSE j
    [] op = "MASKNEZ" -> IF k # 0 THEN 0 ELSE j
    [] op = "ANDI" -> And(j, imm)
    [] op = "ORI"  -> Or(j, imm)
    [] op = "XORI" -> Xor(j, imm)

\* [k:j] shifted down by sa3 bytes.
BytePick(j, k, sa3) ==
    IF sa3 = 0 THEN j ELSE Or(Shl(k, Double - sa3 * Byte), Shr(j, sa3 * Byte))

Shift == {"BYTEPICK_D", "SLL_W", "SRL_W", "SRA_W", "SLL_D", "SLLI_W", "SLLI_D", "SRLI_W", "SRLI_D",
          "SRAI_W", "SRAI_D", "ROTRI_D", "SRL_D", "SRA_D", "ALSL_D"}
ShiftResult(op, j, k, imm) ==
  CASE op = "BYTEPICK_D" -> BytePick(j, k, imm)
    [] op = "SLL_W"  -> Sext(Shl(j, k % Word), Word)
    [] op = "SRL_W"  -> Sext(Shr(Cast(j, Word), k % Word), Word)
    [] op = "SRA_W"  -> Sar(j, Word, k % Word)
    [] op = "SLL_D"  -> Shl(j, k % Double)
    [] op = "SLLI_W" -> Sext(Shl(j, imm), Word)
    [] op = "SLLI_D" -> Shl(j, imm)
    [] op = "SRLI_W" -> Sext(Shr(Cast(j, Word), imm), Word)
    [] op = "SRLI_D" -> Shr(j, imm)
    [] op = "SRAI_W" -> Sar(j, Word, imm)
    [] op = "SRAI_D" -> Sar(j, Double, imm)
    [] op = "ROTRI_D" -> Rotr(j, Double, imm)
    [] op = "SRL_D"  -> Shr(j, k % Double)
    [] op = "SRA_D"  -> Sar(j, Double, k % Double)
    [] op = "ALSL_D" -> Wrap(Shl(j, imm + 1) + k)

---------------------------------------------------------------------------
(* Loads and stores: size of the access, extension, address. *)

LoadImm  == [LD_B |-> Byte, LD_H |-> Half, LD_W |-> Word, LD_D |-> Double,
             LD_BU |-> Byte, LD_HU |-> Half, LD_WU |-> Word]
StoreImm == [ST_B |-> Byte, ST_H |-> Half, ST_W |-> Word, ST_D |-> Double]
LoadPtr  == [LDPTR_W |-> Word, LDPTR_D |-> Double]
StorePtr == [STPTR_W |-> Word, STPTR_D |-> Double]
StoreIdx == [STX_B |-> Byte, STX_H |-> Half, STX_W |-> Word, STX_D |-> Double]
LoadIdx  == [LDX_B |-> Byte, LDX_H |-> Half, LDX_W |-> Word, LDX_D |-> Double,
             LDX_BU |-> Byte, LDX_HU |-> Half, LDX_WU |-> Word]
ZeroExtended == {"LD_BU", "LD_HU", "LD_WU", "LDX_BU", "LDX_HU", "LDX_WU"}

ImmAddress(j, imm) == Wrap(j + Signed(imm, Imm12))
PtrAddress(j, imm) == Wrap(j + Signed(imm, Imm14) * 4)

Extended_Signed(op, v, n) == IF op \in ZeroExtended THEN v ELSE Signed(v, n)
Extended(op, v, n) == IF op \in ZeroExtended THEN v ELSE Sext(v, n)
Load(m, op, rd, a, n) ==
    IF Readable(a) THEN Put(m, rd, Extended(op, Peek(m, a, n), n)) ELSE Trap(m, "fault")
Store_CheckedLate(m, rd, a, n) ==
    LET written == Poke(m, a, n, m.reg[rd]) IN IF Writable(a) THEN written ELSE Trap(written, "fault")
Store(m, rd, a, n) ==
    IF Writable(a) THEN Poke(m, a, n, m.reg[rd]) ELSE Trap(m, "fault")

\* Only the seven immediate loads look at rd; a load to register 0 reads nothing.
HandleLoadImm(m, i)  == IF i.rd = 0 THEN m
                        ELSE Load(m, i.op, i.rd, ImmAddress(m.reg[i.rj], i.imm), LoadImm[i.op])
HandleStoreImm(m, i) == Store(m, i.rd, ImmAddress(m.reg[i.rj], i.imm), StoreImm[i.op])
HandleLoadPtr(m, i)  == Load(m, i.op, i.rd, PtrAddress(m.reg[i.rj], i.imm), LoadPtr[i.op])
HandleStorePtr(m, i) == Store(m, i.rd, PtrAddress(m.reg[i.rj], i.imm), StorePtr[i.op])
HandleStoreIdx(m, i) == Store(m, i.rd, Wrap(m.reg[i.rj] + m.reg[i.rk]), StoreIdx[i.op])
HandleLoadIdx(m, i)  == Load(m, i.op, i.rd, Wrap(m.reg[i.rj] + m.reg[i.rk]), LoadIdx[i.op])

---------------------------------------------------------------------------
(* Branches.  increment_pc(offset - 4): the caller adds the 4 afterwards. *)

IncrementPC(m, n) == [m EXCEPT !.pc = Wrap(@ + n)]

Compare == {"BEQ", "BNE", "BLT", "BGE", "BLTU", "BGEU"}
Holds(op, j, d) ==
  CASE op = "BEQ"  -> j = d
    [] op = "BNE"  -> j # d
    [] op = "BLT"  -> Signed(j, Double) < Signed(d, Double)
    [] op = "BGE"  -> Signed(j, Double) >= Signed(d, Double)
    [] op = "BLTU" -> j < d
    [] op = "BGEU" -> j >= d

ZeroTest == {"BEQZ", "BNEZ"}
FlagTest == {"BCEQZ", "BCNEZ"}
Jumps    == {"B", "BL", "JIRL"}
Branches == Compare \cup ZeroTest \cup FlagTest \cup Jumps

HandleZeroTest(m, i) ==
    IF (m.reg[i.rj] = 0) = (i.op = "BEQZ") THEN IncrementPC(m, Signed(i.imm, Offs21) * 4 - 4) ELSE m
HandleCompare(m, i) ==
    IF Holds(i.op, m.reg[i.rj], m.reg[i.rd]) THEN IncrementPC(m, Signed(i.imm, Imm16) * 4 - 4) ELSE m
\* The flag branches take 16 of the 21 offset bits.
HandleFlagTest(m, i) ==
    IF (m.fcc[0] = 0) = (i.op = "BCEQZ") THEN IncrementPC(m, Signed(i.imm, Imm16) * 4 - 4) ELSE m
HandleJump(m, i) ==
    LET base == m.reg[i.rj]
        linked == CASE i.op = "B"  -> m
                    [] i.op = "BL" -> Put(m, REG_RA, Wrap(m.pc + 4))
                    [] i.op = "JIRL" -> IF i.rd # 0 THEN Put(m, i.rd, Wrap(m.pc + 4)) ELSE m
    IN  IF i.op = "JIRL" THEN [linked EXCEPT !.pc = Wrap(base + Signed(i.imm, Imm16) * 4 - 4)]
        ELSE IncrementPC(linked, Signed(i.imm, Offs26) * 4 - 4)

---------------------------------------------------------------------------
(* Upper immediates: si20 << 12 and si20 << 18 are formed in an int32_t. *)

Upper == {"LU12I_W", "LU32I_D", "PCADDI", "PCADDU12I", "PCALAU12I", "PCADDU18I", "LU52I_D"}
UpperResult(op, d, j, pc, imm) ==
  CASE op = "LU12I_W"   -> Sext(imm * 2^By12, Word)
    [] op = "LU32I_D"   -> Or(Wrap(Signed(imm, Imm20) * 2^By32), Cast(d, Word))
    [] op = "PCADDI"    -> Wrap(pc + Signed(imm, Imm20) * 4)
    [] op = "PCADDU12I" -> Wrap(pc + Signed(Signed(imm, Imm20) * 2^By12, Word))
    [] op = "PCALAU12I" -> Wrap((pc - (pc % 2^By12)) + Signed(imm * 2^By12, Word))
    [] op = "PCADDU18I" -> Wrap(pc + Signed(Signed(imm, Imm20) * 2^By18, Word))
    [] op = "LU52I_D"   -> Or(Cast(j, By52), Shl(imm, By52))

---------------------------------------------------------------------------
(* Bit strings; imm packs msb and lsb.  (1 << width) - 1 is undefined for  *)
(* a width of the whole type.                                              *)

Msb(imm) == imm \div Double
Lsb(imm) == imm % Double
Ones(imm, n, ub) == LET width == Msb(imm) - Lsb(imm) + 1
                    IN  IF width = n /\ ~ub THEN 0 ELSE 2^width - 1

BitString == {"BSTRINS_D", "BSTRPICK_D", "BSTRINS_W", "BSTRPICK_W"}
HandleBitString(m, i, ub) ==
    LET j == m.reg[i.rj]   d == m.reg[i.rd]   lsb == Lsb(i.imm)
        n == IF i.op \in {"BSTRINS_D", "BSTRPICK_D"} THEN Double ELSE Word
        ones == Ones(i.imm, n, ub)
        mask == Shl(ones, lsb)
        inserted == Or(And(Cast(d, n), Not(mask)), And(Shl(j, lsb), mask))
        picked == And(Shr(Cast(j, n), lsb), ones)
    IN  IF i.op \in {"BSTRPICK_D", "BSTRPICK_W"} THEN Put(m, i.rd, Sext(picked, n))
        ELSE IF Msb(i.imm) >= lsb THEN Put(m, i.rd, Sext(inserted, n)) ELSE m

---------------------------------------------------------------------------
(* System, multiplication, comparison, rotation, counting, reversal. *)

\* The prefetch and the barriers have no effect.
Hints  == {"NOP", "PRELD", "DBAR", "IBAR"}
System == {"SYSCALL", "BREAK", "CPUCFG"} \cup Hints
SystemCall(m, n) == [m EXCEPT !.trap = "syscall", !.call = n]
HandleSystem(m, i) ==
  CASE i.op = "SYSCALL" -> SystemCall(m, Cast(m.reg[REG_A7], Word))
    [] i.op = "BREAK"   -> SystemCall(m, 0)
    [] i.op \in Hints   -> m
    [] i.op = "CPUCFG"  -> Put(m, i.rd, 1)

Multiply == {"MUL_W", "MULH_W", "MULH_WU", "MUL_D", "MULH_D", "MULH_DU", "SLTI", "SLTUI",
             "ROTR_W", "ROTR_D", "ROTRI_W", "EXT_W_B", "EXT_W_H"}
MultiplyResult(op, j, k, imm) ==
  CASE op = "MUL_W"   -> Sext(MulLow(j, k), Word)
    [] op = "MULH_W"  -> Sext((Signed(j, Word) * Signed(k, Word)) \div 2^Word, Word)
    [] op = "MULH_WU" -> Sext((Cast(j, Word) * Cast(k, Word)) \div 2^Word, Word)
    [] op = "MUL_D"   -> MulLow(j, k)
    [] op = "MULH_D"  -> MulHighSigned(j, k)
    [] op = "MULH_DU" -> MulHigh(j, k)
    [] op = "SLTI"    -> Truth(Signed(j, Double) < Signed(imm, Imm12))
    [] op = "SLTUI"   -> Truth(j < Sext(imm, Imm12))
    [] op = "ROTR_W"  -> Sext(Rotr(Cast(j, Word), Word, k % Word), Word)
    [] op = "ROTR_D"  -> Rotr(j, Double, k % Double)
    [] op = "ROTRI_W" -> Sext(Rotr(Cast(j, Word), Word, imm), Word)
    [] op = "EXT_W_B" -> Sext(j, Byte)
    [] op = "EXT_W_H" -> Sext(j, Half)

Counting == {"CLO_W", "CLO_D", "CLZ_W", "CLZ_D", "CTO_W", "CTO_D", "CTZ_W", "CTZ_D",
             "REVB_2H", "REVB_4H", "REVB_2W", "REVB_D", "REVH_2W", "REVH_D",
             "BITREV_4B", "BITREV_8B", "BITREV_W", "BITREV_D", "ALSL_W"}
CountingResult(op, j, k, imm) ==
  LET low == Cast(j, Word)  flipped == 2^Word - 1 - low IN
  CASE op = "CLO_W" -> LeadingZeros(flipped, Word)
    [] op = "CLO_D" -> LeadingZeros(Not(j), Double)
    [] op = "CLZ_W" -> LeadingZeros(low, Word)
    [] op = "CLZ_D" -> LeadingZeros(j, Double)
    [] op = "CTO_W" -> TrailingZeros(flipped, Word)
    [] op = "CTO_D" -> TrailingZeros(Not(j), Double)
    [] op = "CTZ_W" -> TrailingZeros(low, Word)
    [] op = "CTZ_D" -> TrailingZeros(j, Double)
    [] op = "REVB_2H" -> Sext(Reverse(low, Byte, Half), Word)
    [] op = "REVB_4H" -> Reverse(j, Byte, Half)
    [] op = "REVB_2W" -> Reverse(j, Byte, Word)
    [] op = "REVB_D"  -> Reverse(j, Byte, Double)
    [] op = "REVH_2W" -> Reverse(j, Half, Word)
    [] op = "REVH_D"  -> Reverse(j, Half, Double)
    [] op = "BITREV_4B" -> Sext(Reverse(low, 1, Byte), Word)
    [] op = "BITREV_8B" -> Reverse(j, 1, Byte)
    [] op = "BITREV_W"  -> Sext(Reverse(low, 1, Word), Word)
    [] op = "BITREV_D"  -> Reverse(j, 1, Double)
    [] op = "ALSL_W"    -> Sext(Shl(j, imm + 1) + k, Word)

---------------------------------------------------------------------------
(* Atomic memory operations (AtomicImpl): the operation writes memory      *)
(* first, then hands the old value to rd, unless that is the zero          *)
(* register.  LL sets a bit that SC asks for and clears; nothing else in   *)
(* the machine looks at the bit, so any store in between goes unnoticed.   *)

Atomic == [AMSWAP_W |-> Word, AMSWAP_D |-> Double, AMADD_W |-> Word, AMADD_D |-> Double,
           AMAND_W |-> Word, AMAND_D |-> Double, AMOR_W |-> Word, AMOR_D |-> Double,
           AMXOR_W |-> Word, AMXOR_D |-> Double]
AtomicResult(op, old, k) ==
  CASE op \in {"AMSWAP_W", "AMSWAP_D"} -> k
    [] op \in {"AMADD_W", "AMADD_D"}   -> Wrap(old + k)
    [] op \in {"AMAND_W", "AMAND_D"}   -> And(old, k)
    [] op \in {"AMOR_W", "AMOR_D"}     -> Or(old, k)
    [] op \in {"AMXOR_W", "AMXOR_D"}   -> Xor(old, k)
HandleAtomic(m, i) ==
    LET a == m.reg[i.rj]  n == Atomic[i.op]  old == Peek(m, a, n)
        written == Poke(m, a, n, AtomicResult(i.op, old, m.reg[i.rk]))
    IN  IF ~Readable(a) \/ ~Writable(a) THEN Trap(m, "fault")
        ELSE IF i.rd = 0 THEN written ELSE Put(written, i.rd, Sext(old, n))

LoadLinked == [LL_W |-> Word, LL_D |-> Double]
HandleLoadLinked(m, i) ==
    LET loaded == Load(m, i.op, i.rd, PtrAddress(m.reg[i.rj], i.imm), LoadLinked[i.op])
    IN  IF loaded.trap = "none" THEN [loaded EXCEPT !.ll = TRUE] ELSE loaded

\* SC_D writes its verdict to register 0 too; a failing SC does not touch memory.
StoreConditional == [SC_W |-> Word, SC_D |-> Double]
HandleStoreConditional(m, i) ==
    LET stored == Store(m, i.rd, PtrAddress(m.reg[i.rj], i.imm), StoreConditional[i.op])
        tried  == IF m.ll THEN stored ELSE m
        told   == IF i.rd = 0 /\ i.op = "SC_W" THEN tried ELSE Put(tried, i.rd, Truth(m.ll))
    IN  IF tried.trap = "none" THEN [told EXCEPT !.ll = FALSE] ELSE tried

---------------------------------------------------------------------------
(* instr.handler(cpu, bits) *)

Handle(m, i, ub) ==
  LET j == m.reg[i.rj]  k == m.reg[i.rk] IN
  CASE i.op \in AddSub   -> Put(m, i.rd, AddSubResult(i.op, j, k, i.imm))
    [] i.op \in Division -> IF Overflows(i.op, j, k) /\ ~ub THEN Trap(m, "sigfpe")
                            ELSE Put(m, i.rd, DivisionResult(i.op, j, k))
    [] i.op \in Logic    -> Put(m, i.rd, LogicResult(i.op, j, k, i.imm))
    [] i.op \in Shift    -> Put(m, i.rd, ShiftResult(i.op, j, k, i.imm))
    [] i.op \in DOMAIN LoadImm  -> HandleLoadImm(m, i)
    [] i.op \in DOMAIN StoreImm -> HandleStoreImm(m, i)
    [] i.op \in DOMAIN LoadPtr  -> HandleLoadPtr(m, i)
    [] i.op \in DOMAIN StorePtr -> HandleStorePtr(m, i)
    [] i.op \in DOMAIN StoreIdx -> HandleStoreIdx(m, i)
    [] i.op \in DOMAIN LoadIdx  -> HandleLoadIdx(m, i)
    [] i.op \in ZeroTest  -> HandleZeroTest(m, i)
    [] i.op \in Compare   -> HandleCompare(m, i)
    [] i.op \in FlagTest  -> HandleFlagTest(m, i)
    [] i.op \in Jumps     -> HandleJump(m, i)
    [] i.op \in Upper     -> Put(m, i.rd, UpperResult(i.op, m.reg[i.rd], j, m.pc, i.imm))
    [] i.op \in BitString -> HandleBitString(m, i, ub)
    [] i.op \in System    -> HandleSystem(m, i)
    [] i.op \in Multiply  -> Put(m, i.rd, MultiplyResult(i.op, j, k, i.imm))
    [] i.op \in Counting  -> Put(m, i.rd, CountingResult(i.op, j, k, i.imm))
    [] i.op \in DOMAIN Atomic           -> HandleAtomic(m, i)
    [] i.op \in DOMAIN LoadLinked       -> HandleLoadLinked(m, i)
    [] i.op \in DOMAIN StoreConditional -> HandleStoreConditional(m, i)

\* The precise loop: call the handler, then step over the instruction.
StepOver(m) == IF m.trap = "none" THEN IncrementPC(m, 4) ELSE m
Interpret(m, i, ub) == StepOver(Handle(m, i, ub))
=============================================================================
