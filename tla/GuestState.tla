----------------------------- MODULE GuestState -----------------------------
(***************************************************************************)
(* What an integer instruction can read and change: the general registers, *)
(* the condition flags, the load-linked bit (ll), the program counter and  *)
(* the arena, with the host's memory behind it, and the ways an instruction*)
(* can end a run (trap).  An instruction is the record [op, rd, rj, rk,    *)
(* imm] of its decoded fields; imm is the raw, unsigned field of the       *)
(* encoding.                                                               *)
(***************************************************************************)
EXTENDS Words

CONSTANTS Regs,                    \* general registers, with 0 the zero register
          ArenaSize,               \* bytes of the arena an access may start in
          RODataStart, DataStart,  \* first readable and first writable byte
          ArenaPtr,                \* host address the arena begins at
          SegBegin, SegEnd,        \* the execute segment
          Imm12, Imm14, Imm16, Imm20, Offs21, Offs26,   \* bits of the immediate fields
          By12, By16, By18, By52                        \* and what they are shifted by

REG_RA == 1
REG_A7 == 11
By32 == Word

ASSUME RegisterAssumption == Regs \subseteq Nat /\ {0, REG_RA, REG_A7} \subseteq Regs

ASSUME ArenaAssumption ==
    /\ RODataStart \in Nat /\ DataStart \in Nat /\ ArenaSize \in Nat /\ ArenaPtr \in Nat
    /\ RODataStart <= DataStart /\ DataStart <= ArenaSize
    /\ SegBegin \in Nat /\ SegEnd \in Nat

\* The fields keep their names when the registers are scaled down; what the
\* code counts on is that si20 << 12 fills a word and si12 << 52 a register.
ASSUME FieldAssumption ==
    /\ {Imm12, Imm14, Imm16, Imm20, Offs21, Offs26, By12, By16, By18, By52} \subseteq Nat \ {0}
    /\ Imm20 + By12 = Word /\ Imm12 + By52 = Double /\ Imm12 <= Word

\* The arena, and the memory of the host behind it as far as a store can get.
\* The first bytes behind ArenaSize are allocated too, for an access that only
\* starts inside; what the others hold, or that there may be nothing there for
\* the host to write to, is not modelled.
Addresses == 0 .. ArenaPtr + ArenaSize + 7
Behind == ArenaSize + 7 .. ArenaPtr + ArenaSize + 7

Machine == [reg : [Regs -> Doubles], fcc : [{0} -> {0, 1}], ll : BOOLEAN, pc : Doubles,
            mem : [Addresses -> 0 .. 2^Byte - 1],
            trap : {"none", "fault", "sigfpe", "invalid", "stop", "syscall"},
            call : Doubles]                    \* the number of the system call

\* Memory::read and Memory::write.
Peek(m, a, n) == Total([b \in 0 .. n \div Byte - 1 |-> m.mem[a + b] * 2^(b * Byte)], n \div Byte)
Poke(m, a, n, v) ==
    [m EXCEPT !.mem = [x \in Addresses |-> IF x \in a .. a + n \div Byte - 1
                                             THEN (v \div 2^((x - a) * Byte)) % 2^Byte
                                             ELSE m.mem[x]]]

Readable(a) == RODataStart <= a /\ a < ArenaSize
Writable(a) == DataStart <= a /\ a < ArenaSize

Trap(m, t) == [m EXCEPT !.trap = t]

\* DecodedExecuteSegment::is_within for one instruction.
IsWithin(a) == SegBegin <= a /\ a + 4 <= SegEnd
=============================================================================
