-------------------------- MODULE MCInstructions --------------------------
(***************************************************************************)
(* Boundary values for Instructions: the registers, the fields and the     *)
(* states that tell the cases of every instruction apart.                  *)
(***************************************************************************)
EXTENDS Instructions

CONSTANTS Samples, Others,   \* values of the two source registers to start from
          StartPC            \* a pc inside the segment

Targets == {0, 1}
Sources == {0, 1, 11}
Encode(ops, rds, rks, imms) ==
    [op : ops, rd : rds, rj : Sources, rk : rks, imm : imms]

UsesRK == ((AddSub \cup Division \cup Logic)
             \ {"ADDI_W", "ADDI_D", "ADDU16I_D", "ANDI", "ORI", "XORI"})
          \cup {"SLL_W", "SRL_W", "SRA_W", "SLL_D", "SRL_D", "SRA_D", "MUL_W", "MULH_W", "MULH_WU",
                "MUL_D", "MULH_D", "MULH_DU", "ROTR_W", "ROTR_D"}
          \cup DOMAIN LoadIdx \cup DOMAIN StoreIdx \cup DOMAIN Atomic
OneSource == (Counting \ {"ALSL_W"}) \cup {"EXT_W_B", "EXT_W_H", "CPUCFG", "BREAK"} \cup Hints
Fields(n) == {msb * Double + lsb : <<msb, lsb>> \in {<<0, 0>>, <<n - 1, 0>>, <<n - 2, 1>>, <<n - 1, n - 2>>}}

MCInstrs ==
    Encode(UsesRK, Targets, Sources, {0})
    \cup Encode(OneSource, Targets, {0}, {0})
    \cup Encode(WithImm12, Targets, {0}, {0, 3, 4, 7})
    \cup Encode(DOMAIN LoadPtr \cup DOMAIN StorePtr \cup DOMAIN LoadLinked \cup DOMAIN StoreConditional
                \cup {"ADDU16I_D"}, Targets, {0}, {0, 1, 8, 15})
    \cup Encode(ByWord, Targets, {0}, {0, 1, Word - 1})
    \cup Encode(ByDouble, Targets, {0}, {0, 1, Double - 1})
    \cup Encode({"ALSL_W", "ALSL_D"}, Targets, Sources, {0, 3})
    \cup Encode({"BYTEPICK_D"}, Targets, Sources, {0, 1, 7})
    \cup Encode(Upper \ {"LU52I_D"}, Targets, {0}, {0, 1, 15, 16, 31})
    \cup Encode({"BSTRINS_D", "BSTRPICK_D"}, Targets, {0}, Fields(Double))
    \cup Encode({"BSTRINS_W", "BSTRPICK_W"}, Targets, {0}, Fields(Word))
    \cup Encode(Compare \cup {"JIRL"}, Targets, {0}, {0, 1, 7, 8, 15})
    \cup Encode(ZeroTest \cup FlagTest, {0}, {0}, {0, 1, 7, 15, 16, 31})
    \cup Encode({"B", "BL"}, {0}, {0}, {0, 15, 31, 32, 63})
    \cup Encode({"SYSCALL"}, {0}, {0}, {0, 3})

---------------------------------------------------------------------------

\* Any state between two instructions: the registers hold sample values.
Boot(ra, a7) ==
    [reg |-> [r \in Regs |-> CASE r = 0 -> 0 [] r = REG_RA -> ra [] r = REG_A7 -> a7 [] OTHER -> 2^(Double - 2) + 5],
     fcc |-> [c \in {0} |-> ra % 2], ll |-> (ra % 2 = 0), pc |-> StartPC, mem |-> [a \in Addresses |-> (a + 1) % 2^Byte],
     trap |-> "none", call |-> 0]

MCStarts == {Boot(ra, a7) : ra \in Samples, a7 \in Others}
=============================================================================
