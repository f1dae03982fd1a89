------------------------- MODULE VectorInstructions -------------------------
(***************************************************************************)
(* Every floating-point and vector instruction, with every way its         *)
(* registers can coincide, executed side by side by the three engines.     *)
(***************************************************************************)
EXTENDS VectorEngines

CONSTANTS Starts,    \* the machines an instruction may meet
          Operands   \* the registers it may name, [d, j, k, a]

ASSUME InstructionsAssumption ==
    /\ \A m \in Starts : Running(m)
    /\ Operands \subseteq [d : VRegs, j : VRegs, k : VRegs, a : VRegs]

VARIABLES start,     \* the machine the instruction met
          engine,    \* the state of each engine
          last       \* the instruction they executed

vars == <<start, engine, last>>

Engines == {"handler", "fast", "emitted"}

Run(e, m, i) == CASE e = "handler" -> Handle(m, i)
                  [] e = "fast"    -> Dispatch(m, i)
                  [] e = "emitted" -> Emitted(m, i)

---------------------------------------------------------------------------
(* The instructions. *)

LaneOps(op) == CASE op \in DOMAIN Picks -> 16 \div Picks[op][1]
                 [] op \in DOMAIN Inserts -> 16 \div Inserts[op]
                 [] op \in {"XVPICKVE2GR_W", "XVPICKVE_W"} -> 8
                 [] op = "VREPLVEI_D" -> 2
                 [] op = "XVREPLVE_D" -> 4
                 [] OTHER -> 1

\* The immediates of an instruction that has one, 0 of the others: the
\* amounts and constants an operation takes are left open with it.
Imms(op) ==
    CASE op \in DOMAIN FCmp \cup {"VFCMP_COND_D", "XVFCMP_COND_D", "VLDI", "XVLDI"} -> 0 .. 31
      [] op \in {"XVPERMI_Q", "XVPERMI_D"} -> 0 .. 255
      [] op = "VFRSTPI_B" -> 0 .. 31
      [] OTHER            -> 0 .. LaneOps(op) - 1

Ops == DOMAIN Table \cup DOMAIN Memory \cup Transfers \cup DOMAIN FCmp \cup {"FSEL"} \cup DOMAIN Conversions
       \cup {"VFCMP_COND_D", "XVFCMP_COND_D", "VLDI", "XVLDI", "VFRSTPI_B", "XVREPLGR2VR_B", "VREPLVEI_D", "VSHUF_B",
             "XVMSKNZ_B", "XVPICKVE_W", "XVSETANYEQZ_B", "XVSETEQZ_V", "XVPERMI_Q", "XVREPLVE_D", "XVPERMI_D",
             "XVPICKVE2GR_W"}
       \cup DOMAIN LsxTests \cup DOMAIN Picks \cup DOMAIN HorizontalAdds \cup DOMAIN WideHorizontal
       \cup DOMAIN Interleaves \cup DOMAIN Replicates \cup DOMAIN Inserts \cup DOMAIN WideShuffles \cup Raising

Instruction(op, o, imm, rd, at) ==
    [op |-> op, d |-> o.d, j |-> o.j, k |-> o.k, a |-> o.a, imm |-> imm, rd |-> rd, at |-> at]

\* The general register a result goes to is register 0 or another, and the
\* address of a load or store leads anywhere.
Variants(op) ==
    {Instruction(op, o, imm, rd, at) :
       o \in Operands, imm \in Imms(op),
       rd \in IF op \in Transfers \cup DOMAIN Picks \cup {"XVPICKVE2GR_W"} THEN {0, 1} ELSE {1},
       at \in IF op \in DOMAIN Memory THEN Regions ELSE {"data"}}

\* An operand the instruction does not have stays the target's register.
Roles(i) == IF i.op \in Raising \/ Illegal(i) THEN {} ELSE {e[1] : e \in UNION {ToSet(wr.from) : wr \in ToSet(Writes(i))}}
Canonical(i) == \A role \in {"j", "k", "a"} \ Roles(i) : i[role] = i.d

---------------------------------------------------------------------------

NoInstruction == Instruction("none", [d |-> V0, j |-> V0, k |-> V0, a |-> V0], 0, 0, "data")

Init == /\ start \in Starts
        /\ engine = [e \in Engines |-> start]
        /\ last = NoInstruction

Execute(i) ==
    /\ last = NoInstruction
    /\ Canonical(i)
    /\ last' = i
    /\ engine' = [e \in Engines |-> Run(e, engine[e], i)]
    /\ UNCHANGED start

Next == \E op \in Ops : \E i \in Variants(op) : Execute(i)

Spec == Init /\ [][Next]_vars

---------------------------------------------------------------------------
(* Properties. *)

Ran == last # NoInstruction

Bytes(e, p, range) == [n \in range |-> engine[e].bytes[p][n]]

\* The shuffles that write into a register they still have to read.
Torn(i) == \/ i.op = "VPICKEV_W" /\ i.d = i.j
           \/ i.op = "XVILVL_D" /\ i.d \in {i.j, i.k}
           \/ i.op \in {"XVPACKEV_D", "XVPICKEV_D", "XVPICKEV_W", "XVPICKOD_D"} /\ i.d = i.k

\* The target may be any of the sources: the result is computed from what
\* they held before the instruction.
SourcesReadFirst(i) ==
    engine["handler"].trap = "none" => engine["handler"] = Simultaneous(start, i, Writes(i))
AliasingHarmless == Ran /\ ~Torn(last) => SourcesReadFirst(last)

\* The emitted stores whose check admits the host's memory.
Strays(e, i) == e = "emitted" /\ i.op \in Stores \ {"XVST", "XVSTX"} /\ i.at = "host"

\* A program may change engines between any two instructions: they trap alike
\* and agree on every byte, except for an emitted store to the host's memory,
\* which is done where the others fault (tr_emit.cpp:293), the upper half of
\* what a 128-bit load, add or multiply-add leaves there, the bytes behind a
\* scalar load and the absolute value, which emitted code computes in another
\* way.
KeepsUpper == {"VLD", "VLDX", "VFADD_D", "VFMADD_D"}
EnginesAgree ==
    Ran => \A e \in {"fast", "emitted"} :
      /\ ~Strays(e, last) => engine[e].trap = engine["handler"].trap
      /\ \A p \in Places \ {last.d} :
           ~(Strays(e, last) /\ p = "mem") => engine[e].bytes[p] = engine["handler"].bytes[p]
      /\ ~(e = "emitted" /\ last.op \in {"FABS_S", "FABS_D"})
           => Bytes(e, last.d, 0 .. 3) = Bytes("handler", last.d, 0 .. 3)
      /\ ~(e = "emitted" /\ last.op \in {"FABS_S", "FABS_D", "FLD_S", "FLDX_S", "FLD_D"})
           => Bytes(e, last.d, 0 .. 15) = Bytes("handler", last.d, 0 .. 15)
      /\ ~(last.op \in KeepsUpper)
           => Bytes(e, last.d, 16 .. 31) = Bytes("handler", last.d, 16 .. 31)

\* The 128-bit and scalar instructions.
Wide(op) == op \in DOMAIN Lasx \cup DOMAIN WideHorizontal \cup DOMAIN WideShuffles \cup DOMAIN WideIndexed
                   \cup {"XVLD", "XVST", "XVHADDW_D_W", "XVFCMP_COND_D", "XVLDI", "XVREPLGR2VR_B", "XVMSKNZ_B",
                         "XVPICKVE_W", "XVSETANYEQZ_B", "XVSETEQZ_V", "XVPERMI_Q", "XVREPLVE_D", "XVPERMI_D",
                         "XVPICKVE2GR_W"}

\* Two machines a program without 256-bit instructions cannot tell apart.
SameVisible(m, g) ==
    /\ m.trap = g.trap
    /\ \A p \in Others : m.bytes[p] = g.bytes[p]
    /\ \A p \in VRegs : \A n \in 0 .. 15 : m.bytes[p][n] = g.bytes[p][n]

\* What some handlers, and all of the fast and emitted code, leave in the upper
\* half of a 128-bit register is out of sight of a program without 256-bit
\* instructions: whatever is there, the instruction has the same results, flags,
\* registers, stores and traps.
UpperHalfUnseen ==
    Ran /\ ~Wide(last.op) => \A e \in Engines : \A g \in Starts :
      SameVisible(start, g) => SameVisible(engine[e], Run(e, g, last))

---------------------------------------------------------------------------
(* The same operation exists for one element, 128 and 256 bits. *)

Narrower ==
    [XVADD_D |-> "VADD_D", XVBITSEL_V |-> "VBITSEL_V", XVFCMP_COND_D |-> "VFCMP_COND_D", XVXOR_V |-> "VXOR_V",
     XVSUB_W |-> "VSUB_W", XVMIN_BU |-> "VMIN_BU", XVMAX_BU |-> "VMAX_BU", XVSEQ_B |-> "VSEQ_B",
     XVFADD_D |-> "VFADD_D", XVFMUL_D |-> "VFMUL_D", XVFDIV_D |-> "VFDIV_D", XVFSUB_D |-> "FSUB_D",
     XVBITREVI_D |-> "VBITREVI_D", XVFMADD_D |-> "VFMADD_D", XVFMADD_S |-> "FMADD_S", XVFMSUB_S |-> "FMSUB_S",
     XVFMSUB_D |-> "FMSUB_D", XVFNMSUB_S |-> "FNMSUB_S", XVFNMSUB_D |-> "FNMSUB_D", XVFNMADD_S |-> "FNMADD_S",
     XVFNMADD_D |-> "VFNMADD_D", XVORI_B |-> "VORI_B", XVLD |-> "VLD", XVLDX |-> "VLDX", XVLDI |-> "VLDI",
     XVREPLGR2VR_B |-> "VREPLGR2VR_B", XVILVL_D |-> "VILVL_D", XVILVH_D |-> "VILVH_D",
     XVHADDW_D_W |-> "VHADDW_D_W", XVPICKEV_W |-> "VPICKEV_W", XVPICKVE2GR_W |-> "VPICKVE2GR_W",
     VFADD_D |-> "FADD_D", VFDIV_D |-> "FDIV_D", VFMUL_S |-> "FMUL_S", VFMUL_D |-> "FMUL_D",
     VFMADD_D |-> "FMADD_D", VFNMADD_D |-> "FNMADD_D", VFTINTRZ_W_S |-> "FTINTRZ_W_S",
     VFTINTRZ_L_D |-> "FTINTRZ_L_D"]

\* Pairs whose two handlers compute something else.
Diverging == {"XVFMSUB_S", "XVFMSUB_D", "XVFNMSUB_S", "XVFNMSUB_D", "XVFNMADD_S", "VFNMADD_D",
              "XVHADDW_D_W", "XVPICKEV_W", "XVILVH_D"}

Shared(op) == IF op \in DOMAIN Scalar THEN Scalar[op].size
              ELSE IF op \in DOMAIN Conversions THEN Conversions[op][1].to[2] ELSE 16

\* An instruction and its narrower counterpart agree where both have a result:
\* compilers pick either for the same source, and the scalar one for the rest
\* of a loop.  Outside the pairs named above, an illegal compare and aliases
\* that tear a shuffle.
WidthsAgree ==
    Ran /\ last.op \in DOMAIN Narrower \ Diverging /\ ~Torn(last)
      => LET narrow == Handle(start, [last EXCEPT !.op = Narrower[last.op]])
         IN  \/ last.op = "XVFCMP_COND_D" /\ narrow.trap = "illegal"
             \/ /\ narrow.trap = engine["handler"].trap
                /\ narrow.bytes["gr"] = engine["handler"].bytes["gr"]
                /\ narrow.trap = "none" => \A n \in 0 .. Shared(Narrower[last.op]) - 1 :
                     narrow.bytes[last.d][n] = engine["handler"].bytes[last.d][n]
=============================================================================
