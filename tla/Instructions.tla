---------------------------- MODULE Instructions ----------------------------
(***************************************************************************)
(* One guest, three engines: the handlers (precise loop, step_one), the    *)
(* fast dispatch and the emitted code execute the same integer instruction *)
(* from the same state, side by side.  A program may run under any of them *)
(* and changes between them at run time, so what they have to agree on is  *)
(* every register, flag, byte of memory, the next pc and every trap.       *)
(***************************************************************************)
EXTENDS FastPath, Emitted

CONSTANTS Instrs,   \* the instructions, and
          Starts    \* the states to execute them from

VARIABLES engine,         \* the state of each engine
          before,         \* the state the last instruction started from
          last            \* the last instruction

vars == <<engine, before, last>>

Engines == {"handler", "fast", "emitted"}

---------------------------------------------------------------------------
(* The instructions. *)

Ops == AddSub \cup Division \cup Logic \cup Shift \cup DOMAIN LoadImm \cup DOMAIN StoreImm \cup DOMAIN LoadPtr
       \cup DOMAIN StorePtr \cup DOMAIN StoreIdx \cup DOMAIN LoadIdx \cup Branches \cup Upper \cup BitString
       \cup System \cup Multiply \cup Counting \cup DOMAIN Atomic \cup DOMAIN LoadLinked
       \cup DOMAIN StoreConditional

WithImm12 == {"ADDI_W", "ADDI_D", "ANDI", "ORI", "XORI", "SLTI", "SLTUI", "LU52I_D"}
             \cup DOMAIN LoadImm \cup DOMAIN StoreImm
ByWord    == {"SLLI_W", "SRLI_W", "SRAI_W", "ROTRI_W"}
ByDouble  == {"SLLI_D", "SRLI_D", "SRAI_D", "ROTRI_D"}

\* What the encoding lets a field hold; the manual reserves a bit string
\* whose last bit is below its first.
Encodable(i) ==
    /\ i.op \in WithImm12 => i.imm < 2^Imm12
    /\ i.op \in ByWord => i.imm < Word
    /\ i.op \in ByDouble => i.imm < Double
    /\ i.op = "BYTEPICK_D" => i.imm < 8
    /\ i.op \in {"BSTRINS_D", "BSTRPICK_D"} => Lsb(i.imm) <= Msb(i.imm) /\ Msb(i.imm) < Double
    /\ i.op \in {"BSTRINS_W", "BSTRPICK_W"} => Lsb(i.imm) <= Msb(i.imm) /\ Msb(i.imm) < Word

Encodings == {i \in [op : Ops, rd : Regs, rj : Regs, rk : Regs, imm : Doubles] : Encodable(i)}

\* Between two instructions the zero register is zero and nothing has trapped.
ASSUME InstructionAssumption ==
    /\ Instrs \subseteq Encodings
    /\ Starts \subseteq {m \in Machine : m.reg[0] = 0 /\ m.trap = "none"}

NoInstr == [op |-> "none", rd |-> 0, rj |-> 0, rk |-> 0, imm |-> 0]

Init == /\ before \in Starts
        /\ engine = [e \in Engines |-> before]
        /\ last = NoInstr

\* The engines are free to differ where C++ leaves the operation undefined.
Undefined(m, i) ==
    \/ i.op \in Division /\ Overflows(i.op, m.reg[i.rj], m.reg[i.rk])
    \/ i.op \in {"BSTRINS_D", "BSTRPICK_D"} /\ i.imm = (Double - 1) * Double
    \/ i.op \in {"BSTRINS_W", "BSTRPICK_W"} /\ i.imm = (Word - 1) * Double

Execute(i, ub) ==
    /\ last = NoInstr
    /\ UNCHANGED before
    /\ last' = i
    /\ engine' = [e \in Engines |-> CASE e = "handler" -> Interpret(engine[e], i, ub[e])
                                      [] e = "fast"    -> Dispatch(engine[e], i, ub[e])
                                      [] e = "emitted" -> Emitted(engine[e], i, ub[e])]

Outcomes(m, i) == IF Undefined(m, i) THEN [Engines -> BOOLEAN] ELSE {[e \in Engines |-> TRUE]}

Next == \E i \in Instrs : \E ub \in Outcomes(before, i) : Execute(i, ub)

Spec == Init /\ [][Next]_vars

---------------------------------------------------------------------------
(* Properties. *)

TypeOK == /\ engine \in [Engines -> Machine]
          /\ before \in Machine

Ran == last # NoInstr

\* What a later instruction, or the host, can tell apart.
Same(a, b) == /\ a.trap = b.trap /\ a.call = b.call
              /\ a.reg = b.reg /\ a.mem = b.mem /\ a.ll = b.ll
              /\ a.trap = "none" => a.pc = b.pc

Results == AddSub \cup Division \cup Logic \cup Shift \cup Upper \cup BitString
           \cup Multiply \cup Counting \cup {"CPUCFG"}
           \cup DOMAIN LoadImm \cup DOMAIN LoadPtr \cup DOMAIN LoadIdx

\* A result, or a load, for register 0.
ForZero(i) == i.rd = 0 /\ i.op \in Results

\* The distance in bytes a conditional branch encodes, and where it leads.
Offset(i) == Signed(i.imm, IF i.op \in Compare THEN Imm16
                           ELSE IF i.op \in {"B", "BL"} THEN Offs26 ELSE Offs21) * 4
FlagOffset(i) == i.op \in FlagTest /\ Signed(i.imm, Imm16) # Signed(i.imm, Offs21)

\* Where the fast dispatch is known to part from the handler.
FastDiffers(m, i) ==
    \/ ForZero(i) \/ (i.op = "STX_B" /\ i.rd = 0)
    \/ i.op = "SLTUI" /\ Signed(i.imm, Imm12) < 0
    \/ i.op = "PCADDU18I" /\ Signed(i.imm, Imm20) * 2^By18 \notin -(2^(Word - 1)) .. 2^(Word - 1) - 1
    \/ i.op \in Branches \ {"JIRL"} /\ ~IsWithin(Wrap(m.pc + Offset(i)))
    \/ i.op \in Compare \cup ZeroTest \cup FlagTest /\ Signed(Offset(i), Half) # Offset(i)
    \/ FlagOffset(i)
    \/ i.op = "SYSCALL" /\ i.imm # 0

\* A conditional branch of the fast dispatch moves the pc by the encoded
\* distance, every result is the handler's and every trap too, except for a
\* target register 0, an SLTUI with a negative immediate, a PCADDU18I or a
\* branch whose distance outgrows its field, and a system call in the code
\* field: the rewritten formats lose nothing else.
FastKeepsResult ==
    Ran /\ ~Undefined(before, last) /\ ~FastDiffers(before, last) => Same(engine["handler"], engine["fast"])

\* A store behind the arena that the bounds check of the emitted code admits.
StoreAddress(m, i) ==
    CASE i.op \in DOMAIN StoreImm -> ImmAddress(m.reg[i.rj], i.imm)
      [] i.op \in DOMAIN StorePtr -> PtrAddress(m.reg[i.rj], i.imm)
      [] i.op \in DOMAIN StoreIdx -> Wrap(m.reg[i.rj] + m.reg[i.rk])
Strays(m, i) ==
    /\ i.op \in DOMAIN StoreImm \cup DOMAIN StorePtr \cup DOMAIN StoreIdx
    /\ ArenaSize <= StoreAddress(m, i) /\ StoreAddress(m, i) < ArenaPtr + ArenaSize

\* Where the emitted code is known to part from the handler.
TranslatedDiffers(m, i) ==
    \/ ForZero(i)
    \/ i.op = "ADDI_W" /\ i.rd = i.rj /\ Wrap(m.reg[i.rj] + Signed(i.imm, Imm12))
                                           # Sext(m.reg[i.rj] + Signed(i.imm, Imm12), Word)
    \/ FlagOffset(i)
    \/ i.op = "SYSCALL" /\ i.imm # 0
    \/ Strays(m, i)

\* A translated program computes what an interpreted one does, and leaves at
\* the same place with the same trap, except for a target register 0, an
\* ADDI_W in place that overflows, a far flag branch, a system call in the
\* code field and a store the emitted bounds check lets stray.
TranslatedKeepsResult ==
    Ran /\ ~Undefined(before, last) /\ ~TranslatedDiffers(before, last)
      => Same(engine["handler"], engine["emitted"])

\* An instruction does all of its work or none, and none where it must not:
\* one that faults has changed no register and no memory, no engine writes the
\* program's code or read-only data, and none the host's memory behind the
\* arena, except the emitted code for a store that its check lets stray, which
\* does not fault (memory_inline.hpp:36, tr_emit.cpp:293).
FaultIsAtomic ==
    \A e \in Engines :
      /\ engine[e].trap \in {"fault", "sigfpe"} => engine[e] = Trap(before, engine[e].trap)
      /\ \A a \in 0 .. DataStart - 1 : engine[e].mem[a] = before.mem[a]
      /\ \/ \A a \in Behind : engine[e].mem[a] = before.mem[a]
         \/ e = "emitted" /\ Strays(before, last) /\ engine[e].trap = "none"
=============================================================================
