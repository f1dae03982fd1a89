--------------------------- MODULE VectorHandlers ---------------------------
(***************************************************************************)
(* The handlers of the floating-point, 128-bit (LSX) and 256-bit (LASX)    *)
(* instructions, as the writes each of them performs in order.             *)
(***************************************************************************)
EXTENDS Vectors

JK  == <<"j", "k">>
J   == <<"j">>
DJK == <<"d", "j", "k">>
JKA == <<"j", "k", "a">>

\* A row of a table: op computes f of the same element of its sources, for
\* every element of width w of the first size bytes of the target.
Rows(size, w, f, roles, ops) == [op \in ops |-> [size |-> size, w |-> w, f |-> f, roles |-> roles]]
Row(size, w, f, roles, op)   == Rows(size, w, f, roles, {op})
\* The same for bytes, halfwords, words and doublewords.
BHWD(f, roles, ops) == Row(16, 1, f, roles, ops[1]) ++ Row(16, 2, f, roles, ops[2])
                       ++ Row(16, 4, f, roles, ops[3]) ++ Row(16, 8, f, roles, ops[4])

---------------------------------------------------------------------------
(* 128-bit instructions that work element by element. *)

SubMul == BHWD("sub", JK, <<"VSUB_B", "VSUB_H", "VSUB_W", "VSUB_D">>)
          ++ BHWD("mul", JK, <<"VMUL_B", "VMUL_H", "VMUL_W", "VMUL_D">>)

MaddAddi == BHWD("d+jk", DJK, <<"VMADD_B", "VMADD_H", "VMADD_W", "VMADD_D">>)
            ++ Row(16, 2, "addi", J, "VADDI_HU") ++ Row(16, 4, "addi", J, "VADDI_WU") ++ Row(16, 8, "addi", J, "VADDI_DU")

Compare == Row(16, 1, "seq", JK, "VSEQ_B") ++ BHWD("slt", JK, <<"VSLT_B", "VSLT_H", "VSLT_W", "VSLT_D">>)

Bitwise == Row(16, 8, "nor", JK, "VNOR_V") ++ Row(16, 8, "orn", JK, "VORN_V") ++ Row(16, 8, "and", JK, "VAND_V")
           ++ Row(16, 8, "bitrevi", J, "VBITREVI_D")

ShiftCount == BHWD("slli", J, <<"VSLLI_B", "VSLLI_H", "VSLLI_W", "VSLLI_D">>)
              ++ BHWD("pcnt", J, <<"VPCNT_B", "VPCNT_H", "VPCNT_W", "VPCNT_D">>)

Floats == Row(16, 8, "+", JK, "VFADD_D") ++ Row(16, 8, "/", JK, "VFDIV_D")
          ++ Row(16, 4, "*", JK, "VFMUL_S") ++ Row(16, 8, "*", JK, "VFMUL_D")
          ++ Row(16, 4, "truncate", J, "VFTINTRZ_W_S") ++ Row(16, 8, "truncate", J, "VFTINTRZ_L_D")
          ++ Row(16, 8, "a+jk", JKA, "VFMADD_D") ++ Row(16, 8, "a-jk", JKA, "VFNMADD_D")
          ++ Row(16, 8, "or", JK, "VOR_V") ++ Row(16, 8, "xor", JK, "VXOR_V") ++ Row(16, 1, "ori", J, "VORI_B")

EqualImm == BHWD("seqi", J, <<"VSEQI_B", "VSEQI_H", "VSEQI_W", "VSEQI_D">>)

Add == BHWD("add", JK, <<"VADD_B", "VADD_H", "VADD_W", "VADD_D">>) ++ Row(16, 1, "addi", J, "VADDI_BU")

Select == Row(16, 8, "bitsel", JKA, "VBITSEL_V")

Maximum == BHWD("max", JK, <<"VMAX_B", "VMAX_H", "VMAX_W", "VMAX_D">>)
           ++ BHWD("maxu", JK, <<"VMAX_BU", "VMAX_HU", "VMAX_WU", "VMAX_DU">>)
Minimum == BHWD("min", JK, <<"VMIN_B", "VMIN_H", "VMIN_W", "VMIN_D">>)
           ++ BHWD("minu", JK, <<"VMIN_BU", "VMIN_HU", "VMIN_WU", "VMIN_DU">>)

(* 256-bit instructions that work element by element. *)

WideSelect == Row(32, 8, "add", JK, "XVADD_D") ++ Row(32, 8, "bitsel", JKA, "XVBITSEL_V")

WideByteOps == Row(32, 8, "xor", JK, "XVXOR_V") ++ Row(32, 4, "sub", JK, "XVSUB_W")
               ++ Row(32, 1, "minu", JK, "XVMIN_BU") ++ Row(32, 1, "maxu", JK, "XVMAX_BU")
               ++ Row(32, 1, "seq", JK, "XVSEQ_B")

WideFloats_Swapped ==
    Row(32, 8, "+", JK, "XVFADD_D") ++ Row(32, 8, "*", JK, "XVFMUL_D") ++ Row(32, 8, "/", JK, "XVFDIV_D")
    ++ Row(32, 8, "-", <<"k", "j">>, "XVFSUB_D") ++ Row(32, 8, "bitrevi", J, "XVBITREVI_D")
WideFloats == Row(32, 8, "+", JK, "XVFADD_D") ++ Row(32, 8, "*", JK, "XVFMUL_D") ++ Row(32, 8, "/", JK, "XVFDIV_D")
              ++ Row(32, 8, "-", JK, "XVFSUB_D") ++ Row(32, 8, "bitrevi", J, "XVBITREVI_D")

WideFused == Row(32, 4, "a+jk", JKA, "XVFMADD_S") ++ Row(32, 8, "a+jk", JKA, "XVFMADD_D")
             ++ Rows(32, 4, "a-jk", JKA, {"XVFMSUB_S", "XVFNMADD_S"})
             ++ Rows(32, 8, "a-jk", JKA, {"XVFMSUB_D", "XVFNMADD_D"})
             ++ Row(32, 4, "-(a+jk)", JKA, "XVFNMSUB_S") ++ Row(32, 8, "-(a+jk)", JKA, "XVFNMSUB_D")

WideImm == Row(32, 1, "ori", J, "XVORI_B") ++ Row(32, 1, "xori", J, "XVXORI_B")

(* Scalar instructions: element 0 of the target. *)

Single(f, roles, ops) == Rows(4, 4, f, roles, ops)
Double(f, roles, ops) == Rows(8, 8, f, roles, ops)

Unary == Double("abs", J, {"FABS_D"}) ++ Double("neg", J, {"FNEG_D"}) ++ Double("copy", J, {"FMOV_D"})
         ++ Single("class", J, {"FCLASS_S"}) ++ Double("class", J, {"FCLASS_D"})

Arithmetic == Double("+", JK, {"FADD_D"}) ++ Double("*", JK, {"FMUL_D"}) ++ Single("*", JK, {"FMUL_S"})
              ++ Single("copy", J, {"FMOV_S"}) ++ Single("+", JK, {"FADD_S"}) ++ Single("-", JK, {"FSUB_S"})
              ++ Single("/", JK, {"FDIV_S"}) ++ Single("fmax", JK, {"FMAX_S"}) ++ Single("fmin", JK, {"FMIN_S"})
              ++ Double("fmax", JK, {"FMAX_D"}) ++ Double("fmin", JK, {"FMIN_D"}) ++ Single("abs", J, {"FABS_S"})

Fused == Double("-", JK, {"FSUB_D"}) ++ Double("/", JK, {"FDIV_D"})
         ++ Single("a+jk", JKA, {"FMADD_S"}) ++ Double("a+jk", JKA, {"FMADD_D"})
         ++ Single("jk-a", JKA, {"FMSUB_S"}) ++ Double("jk-a", JKA, {"FMSUB_D"})
         ++ Single("-(a+jk)", JKA, {"FNMADD_S"}) ++ Double("-(a+jk)", JKA, {"FNMADD_D"})
         ++ Single("a-jk", JKA, {"FNMSUB_S"}) ++ Double("a-jk", JKA, {"FNMSUB_D"})

Lsx    == SubMul ++ MaddAddi ++ Compare ++ Bitwise ++ ShiftCount ++ Floats ++ EqualImm ++ Add ++ Select
          ++ Maximum ++ Minimum
Lasx   == WideSelect ++ WideByteOps ++ WideFloats ++ WideFused ++ WideImm
Scalar == Unary ++ Arithmetic ++ Fused
Table  == Lsx ++ Lasx ++ Scalar

ForEach(row) ==
    [n \in 1 .. row.size \div row.w |->
       [to |-> <<"d", row.w, n - 1>>, f |-> row.f,
        from |-> [x \in DOMAIN row.roles |-> <<row.roles[x], row.w, n - 1>>]]]
\* A result that depends on the constant alone.
Fill(size, w, f) == ForEach([size |-> size, w |-> w, f |-> f, roles |-> <<>>])

ClearHigh == <<ZeroAt(<<"d", 8, 2>>), ZeroAt(<<"d", 8, 3>>)>>
Moves(w, froms) == [n \in DOMAIN froms |-> Copy(<<"d", w, n - 1>>, <<froms[n][1], w, froms[n][2]>>)]
All(role, w, size) == [n \in 1 .. size \div w |-> <<role, w, n - 1>>]
ToGeneral(i, f, from) == IF i.rd = 0 THEN <<>> ELSE <<[to |-> <<"gr", 8, 0>>, f |-> f, from |-> <<from>>]>>
ToFlag(f, froms) == <<[to |-> <<"cf", 1, 0>>, f |-> f, from |-> froms]>>

---------------------------------------------------------------------------
(* Loads and stores.  A refused address faults before anything is written. *)

Stores == {"FST_S", "FST_D", "FSTX_S", "FSTX_D", "VST", "VSTX", "XVST", "XVSTX"}

\* The checks of Memory::read and Memory::write.
Refused(i) == i.at \notin IF i.op \in Stores THEN {"data"} ELSE {"rodata", "data"}

Load(n, zeroed) == <<Copy(<<"d", n, 0>>, <<"mem", n, 0>>)>> \o [x \in DOMAIN zeroed |-> ZeroAt(zeroed[x])]
Store(n) == <<Copy(<<"mem", n, 0>>, <<"d", n, 0>>)>>

FloatMemory == [FLD_S |-> Load(4, <<<<"d", 4, 1>>, <<"d", 8, 1>>>>), FST_S |-> Store(4),
                FLD_D |-> Load(8, <<<<"d", 8, 1>>>>), FST_D |-> Store(8)]
IndexedMemory == [FLDX_D |-> Load(8, <<>>), FSTX_D |-> Store(8), VLDX |-> Load(16, <<>>) \o ClearHigh,
                  VSTX |-> Store(16)]
IndexedSingle == [FLDX_S |-> Load(4, <<<<"d", 4, 1>>>>), FSTX_S |-> Store(4)]
VectorMemory == [VLD |-> Load(16, <<>>) \o ClearHigh, VST |-> Store(16), XVLD |-> Load(32, <<>>),
                 XVST |-> Store(32)]
WideIndexed == [XVLDX |-> Load(32, <<>>), XVSTX |-> Store(32)]
Memory == FloatMemory ++ IndexedMemory ++ IndexedSingle ++ VectorMemory ++ WideIndexed

---------------------------------------------------------------------------
(* Scalar instructions that are not the same operation on element 0. *)

Transfers == {"MOVFR2GR_S", "MOVFR2GR_D", "MOVGR2FR_W", "MOVGR2FR_D", "MOVFCSR2GR",
              "MOVFR2CF", "MOVCF2FR", "MOVGR2CF", "MOVCF2GR"}
Transfer(i) ==
    CASE i.op = "MOVFR2GR_S" -> ToGeneral(i, "sext", <<"j", 4, 0>>)
      [] i.op = "MOVFR2GR_D" -> ToGeneral(i, "copy", <<"j", 8, 0>>)
      [] i.op = "MOVGR2FR_W" -> <<Copy(<<"d", 4, 0>>, <<"gr", 4, 0>>), ZeroAt(<<"d", 4, 1>>)>>
      [] i.op = "MOVGR2FR_D" -> <<Copy(<<"d", 8, 0>>, <<"gr", 8, 0>>)>>
      [] i.op = "MOVFCSR2GR" -> ToGeneral(i, "zext", <<"fcsr", 4, 0>>)
      [] i.op = "MOVFR2CF"   -> ToFlag("bit", <<<<"j", 8, 0>>>>)
      [] i.op = "MOVCF2FR"   -> <<[to |-> <<"d", 8, 0>>, f |-> "zext", from |-> <<<<"cf", 1, 0>>>>]>>
      [] i.op = "MOVGR2CF"   -> ToFlag("bit", <<<<"gr", 8, 0>>>>)
      [] i.op = "MOVCF2GR"   -> ToGeneral(i, "zext", <<"cf", 1, 0>>)

\* The conditions a floating-point compare knows, signalling or not.
ScalarConditions == {2, 3, 4, 5, 6, 7, 8, 9, 10, 11, 14, 15, 20, 24, 25}
VectorConditions == ScalarConditions \ {8, 9, 10, 11}
Predicate(cond) == CASE cond \in {2, 3} -> "lt" [] cond \in {4, 5} -> "eq" [] cond \in {6, 7} -> "le"
                     [] cond \in {8, 9} -> "un" [] cond \in {10, 11} -> "ult" [] cond \in {14, 15} -> "ule"
                     [] cond = 20 -> "or" [] cond \in {24, 25} -> "une"

FCmp == [FCMP_COND_S |-> 4, FCMP_COND_D |-> 8]
ScalarCompare(i) == ToFlag(Predicate(i.imm), <<<<"j", FCmp[i.op], 0>>, <<"k", FCmp[i.op], 0>>>>)

FSel == <<[to |-> <<"d", 8, 0>>, f |-> "select", from |-> <<<<"cf", 1, 0>>, <<"k", 8, 0>>, <<"j", 8, 0>>>>]>>

Convert(wTo, f, wFrom) == <<[to |-> <<"d", wTo, 0>>, f |-> f, from |-> <<<<"j", wFrom, 0>>>>]>>
Conversions == [FFINT_D_L |-> Convert(8, "float", 8), FFINT_D_W |-> Convert(8, "float", 4),
                FFINT_S_W |-> Convert(4, "float", 4), FFINT_S_L |-> Convert(4, "float", 8),
                FCVT_S_D |-> Convert(4, "round", 8), FCVT_D_S |-> Convert(8, "round", 4),
                FTINTRZ_W_S |-> Convert(4, "truncate", 4), FTINTRZ_W_D |-> Convert(4, "truncate", 8),
                FTINTRZ_L_S |-> Convert(8, "truncate", 4), FTINTRZ_L_D |-> Convert(8, "truncate", 8)]

---------------------------------------------------------------------------
(* Vector instructions that move elements across the lanes. *)

LsxCompare(i) == ForEach([size |-> 16, w |-> 8, f |-> Predicate(i.imm), roles |-> JK]) \o ClearHigh
LasxCompare(i) == IF i.imm \in VectorConditions
                  THEN ForEach([size |-> 32, w |-> 8, f |-> Predicate(i.imm), roles |-> JK])
                  ELSE Fill(32, 8, "zero")

LsxTests == [VSETANYEQZ_B |-> ToFlag("anyzero", All("j", 1, 16)),
             VSETALLNEZ_B |-> ToFlag("nonezero", All("j", 1, 16)),
             VMSKNZ_B |-> <<[to |-> <<"d", 8, 0>>, f |-> "mask", from |-> All("j", 1, 16)], ZeroAt(<<"d", 8, 1>>)>>]

Picks == [op \in {"VPICKVE2GR_D", "VPICKVE2GR_DU"} |-> <<8, "copy">>]
         ++ [VPICKVE2GR_W |-> <<4, "sext">>, VPICKVE2GR_WU |-> <<4, "zext">>, VPICKVE2GR_H |-> <<2, "sext">>,
             VPICKVE2GR_HU |-> <<2, "zext">>, VPICKVE2GR_B |-> <<1, "sext">>, VPICKVE2GR_BU |-> <<1, "zext">>]
Pick(i, row) == ToGeneral(i, row[2], <<"j", row[1], i.imm>>)

SumPair(w, n, role, m) == [to |-> <<"d", w, n>>, f |-> "addw",
                           from |-> <<<<role, w \div 2, 2 * m>>, <<role, w \div 2, 2 * m + 1>>>>]
HorizontalAdds == [VHADDW_D_W |-> <<SumPair(8, 0, "j", 0), SumPair(8, 1, "k", 0)>> \o ClearHigh,
                   XVHADDW_D_W |-> [n \in 1 .. 4 |-> SumPair(8, n - 1, "j", n - 1)]]
WideHorizontal == [XVHADDW_Q_D |-> [n \in 1 .. 2 |-> SumPair(16, n - 1, "j", n - 1)]]

InterleaveLow(w) == Moves(w, [n \in 1 .. 16 \div w |-> <<IF n % 2 = 1 THEN "k" ELSE "j", (n - 1) \div 2>>]) \o ClearHigh
Interleaves_UpperHalf ==
    [VILVL_B |-> InterleaveLow(1), VILVL_H |-> InterleaveLow(2), VILVL_W |-> InterleaveLow(4),
     VILVL_D |-> InterleaveLow(8), VILVH_D |-> Moves(8, <<<<"k", 2>>, <<"j", 2>>>>) \o ClearHigh,
     VPICKEV_W |-> Moves(4, <<<<"k", 0>>, <<"k", 2>>, <<"j", 0>>, <<"j", 2>>>>) \o ClearHigh]
Interleaves == [VILVL_B |-> InterleaveLow(1), VILVL_H |-> InterleaveLow(2), VILVL_W |-> InterleaveLow(4),
                VILVL_D |-> InterleaveLow(8), VILVH_D |-> Moves(8, <<<<"k", 1>>, <<"j", 1>>>>) \o ClearHigh,
                VPICKEV_W |-> Moves(4, <<<<"k", 0>>, <<"k", 2>>, <<"j", 0>>, <<"j", 2>>>>) \o ClearHigh]

\* VLDI: the upper five bits of the immediate choose the element width.
LdiWidth(mode) == CASE mode \in 0 .. 3 \cup {24} -> 1 [] mode \in 4 .. 7 \cup {20, 21} -> 2
                    [] mode \in 8 .. 11 \cup 16 .. 19 \cup {22, 23, 26} -> 4
                    [] mode \in 12 .. 15 \cup {25, 27, 28} -> 8
LsxImmediate(i)  == Fill(16, LdiWidth(i.imm), "imm")
LasxImmediate(i) == Fill(32, LdiWidth(i.imm), "imm")

FirstNonZero(i) == <<[to |-> <<"d", 8, 0>>, f |-> "first", from |-> SubSeq(All("j", 1, 16), i.imm + 1, 16)],
                     ZeroAt(<<"d", 8, 1>>)>>

Replicates == [VREPLGR2VR_B |-> 1, VREPLGR2VR_H |-> 2, VREPLGR2VR_W |-> 4, VREPLGR2VR_D |-> 8]
Inserts    == [VINSGR2VR_B |-> 1, VINSGR2VR_H |-> 2, VINSGR2VR_W |-> 4, VINSGR2VR_D |-> 8]
FromGeneral(w, size) == [n \in 1 .. size \div w |-> Copy(<<"d", w, n - 1>>, <<"gr", w, 0>>)]
Insert(i, w) == <<Copy(<<"d", w, i.imm>>, <<"gr", w, 0>>)>>
ReplicateElement(i) == Moves(8, <<<<"j", i.imm>>, <<"j", i.imm>>>>) \o ClearHigh

\* Each byte of a chooses one of the 32 bytes of k and j.
Shuffle == [n \in 1 .. 16 |-> [to |-> <<"d", 1, n - 1>>, f |-> "shuf",
                               from |-> <<<<"a", 1, n - 1>>>> \o All("k", 1, 16) \o All("j", 1, 16)]]

WideTests(i) ==
    CASE i.op = "XVMSKNZ_B" -> <<[to |-> <<"d", 8, 0>>, f |-> "mask", from |-> All("j", 1, 32)],
                                 ZeroAt(<<"d", 8, 1>>), ZeroAt(<<"d", 8, 2>>), ZeroAt(<<"d", 8, 3>>)>>
      [] i.op = "XVPICKVE_W" -> <<[to |-> <<"d", 8, 0>>, f |-> "zext", from |-> <<<<"j", 4, i.imm>>>>],
                                  ZeroAt(<<"d", 8, 1>>), ZeroAt(<<"d", 8, 2>>), ZeroAt(<<"d", 8, 3>>)>>
      [] i.op = "XVSETANYEQZ_B" -> ToFlag("anyzero", All("j", 1, 32))
      [] i.op = "XVSETEQZ_V" -> ToFlag("allzero", All("j", 8, 32))

\* The halves of XVPERMI.Q: bits 0 and 1, and 4 and 5, of the immediate.
Half(sel) == LET r == IF sel % 4 > 1 THEN "d" ELSE "j"
             IN  <<<<r, 2 * (sel % 2)>>, <<r, 2 * (sel % 2) + 1>>>>
PermuteQuads(i) == Moves(8, Half(i.imm) \o Half(i.imm \div 16))

\* The index of XVREPLVE.D is the general register's, here the immediate.
ReplicateIndexed(i) == [n \in 1 .. 4 |-> Copy(<<"d", 8, n - 1>>, <<"k", 8, i.imm % 4>>)]

WideShuffles ==
    [XVILVL_D |-> Moves(8, <<<<"k", 0>>, <<"j", 0>>, <<"k", 1>>, <<"j", 1>>>>),
     XVILVH_D |-> Moves(8, <<<<"k", 2>>, <<"j", 2>>, <<"k", 3>>, <<"j", 3>>>>),
     XVPACKEV_D |-> Moves(8, <<<<"j", 0>>, <<"k", 0>>, <<"j", 2>>, <<"k", 2>>>>),
     XVPACKOD_D |-> Moves(8, <<<<"j", 1>>, <<"k", 1>>, <<"j", 3>>, <<"k", 3>>>>),
     XVPICKEV_D |-> Moves(8, <<<<"j", 0>>, <<"j", 2>>, <<"k", 0>>, <<"k", 2>>>>),
     XVPICKEV_W |-> Moves(4, <<<<"j", 0>>, <<"j", 2>>, <<"j", 4>>, <<"j", 6>>, <<"k", 0>>, <<"k", 2>>, <<"k", 4>>, <<"k", 6>>>>),
     XVPICKOD_D |-> Moves(8, <<<<"j", 1>>, <<"j", 3>>, <<"k", 1>>, <<"k", 3>>>>)]
PermuteDoubles(i) == Moves(8, [n \in 1 .. 4 |-> <<"j", (i.imm \div 4^(n - 1)) % 4>>])

---------------------------------------------------------------------------
(* One handler. *)

\* The 128-bit element-wise handlers that zero the upper half.
Clearing == (DOMAIN Lsx) \ (DOMAIN (EqualImm ++ Maximum ++ Minimum) \cup {"VXOR_V", "VORI_B", "VADDI_BU"})

\* The handlers that read all their sources before they write.
Buffered_NoTemp == {"XVADD_D", "XVBITSEL_V", "VHADDW_D_W", "XVHADDW_D_W", "XVHADDW_Q_D", "VILVL_B", "VILVL_H", "VILVL_W",
                    "VILVL_D", "VSHUF_B", "XVPICKVE_W", "XVPERMI_Q", "XVREPLVE_D"}
Buffered == {"XVADD_D", "XVBITSEL_V", "VHADDW_D_W", "XVHADDW_D_W", "XVHADDW_Q_D", "VILVL_B", "VILVL_H", "VILVL_W",
             "VILVL_D", "VSHUF_B", "XVPICKVE_W", "XVPERMI_Q", "XVREPLVE_D", "XVPERMI_D"}

\* Conditions and immediates that raise, before the target changes.
Illegal(i) ==
    \/ i.op \in DOMAIN FCmp /\ i.imm \notin ScalarConditions
    \/ i.op = "VFCMP_COND_D" /\ i.imm \notin VectorConditions
    \/ i.op \in {"VLDI", "XVLDI"} /\ i.imm \in 29 .. 31

Raising == {"INVALID", "UNIMPLEMENTED"}

Writes(i) ==
    CASE i.op \in DOMAIN Table -> ForEach(Table[i.op]) \o (IF i.op \in Clearing THEN ClearHigh ELSE <<>>)
      [] i.op \in DOMAIN Memory -> Memory[i.op]
      [] i.op \in Transfers -> Transfer(i)
      [] i.op \in DOMAIN FCmp -> ScalarCompare(i)
      [] i.op = "FSEL" -> FSel
      [] i.op \in DOMAIN Conversions -> Conversions[i.op]
      [] i.op = "VFCMP_COND_D" -> LsxCompare(i)
      [] i.op = "XVFCMP_COND_D" -> LasxCompare(i)
      [] i.op \in DOMAIN LsxTests -> LsxTests[i.op]
      [] i.op \in DOMAIN Picks -> Pick(i, Picks[i.op])
      [] i.op = "XVPICKVE2GR_W" -> Pick(i, <<4, "sext">>)
      [] i.op \in DOMAIN HorizontalAdds -> HorizontalAdds[i.op]
      [] i.op \in DOMAIN WideHorizontal -> WideHorizontal[i.op]
      [] i.op \in DOMAIN Interleaves -> Interleaves[i.op]
      [] i.op = "VLDI" -> LsxImmediate(i)
      [] i.op = "XVLDI" -> LasxImmediate(i)
      [] i.op = "VFRSTPI_B" -> FirstNonZero(i)
      [] i.op \in DOMAIN Replicates -> FromGeneral(Replicates[i.op], 16)
      [] i.op = "XVREPLGR2VR_B" -> FromGeneral(1, 32)
      [] i.op \in DOMAIN Inserts -> Insert(i, Inserts[i.op])
      [] i.op = "VREPLVEI_D" -> ReplicateElement(i)
      [] i.op = "VSHUF_B" -> Shuffle
      [] i.op \in {"XVMSKNZ_B", "XVPICKVE_W", "XVSETANYEQZ_B", "XVSETEQZ_V"} -> WideTests(i)
      [] i.op = "XVPERMI_Q" -> PermuteQuads(i)
      [] i.op = "XVREPLVE_D" -> ReplicateIndexed(i)
      [] i.op \in DOMAIN WideShuffles -> WideShuffles[i.op]
      [] i.op = "XVPERMI_D" -> PermuteDoubles(i)

Handle(m, i) ==
    CASE i.op \in Raising \/ Illegal(i) -> Trap(m, "illegal")
      [] i.op \in DOMAIN Memory /\ Refused(i) -> Trap(m, "fault")
      [] OTHER -> IF i.op \in Buffered THEN Simultaneous(m, i, Writes(i)) ELSE InPlace(m, i, Writes(i))
=============================================================================
