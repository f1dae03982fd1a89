---------------------------- MODULE DispatchProofs ----------------------------
(***************************************************************************)
(* Proofs about the interpreter loop, for every set of programs, segments, *)
(* targets and limits: it never leaves the decoder cache of its segment,   *)
(* and as long as the fields of an entry are wide enough its two program   *)
(* counters agree and it does what the guest's instructions do.            *)
(***************************************************************************)
EXTENDS Dispatch, TLAPS, WellFoundedInduction

(* What PcAgrees needs of the programs: every distance to the end of a     *)
(* block fits in block_bytes, and nobody uses BREAK, which ends a block    *)
(* for the decoder (decoder_cache.cpp:36) and not for the loop.            *)
Fits ==
  \A p \in Programs :
    /\ \A s \in Segments : \A a \in s.begin..(s.end - 1) : BlockEnd(p, s, a) - a < BlockMod
    /\ \A a \in Addresses : p.code[a].op # "break"

(* The decoder cache is the one populate_decoder_cache made.               *)
CacheRight == prog \in Programs /\ cache = [s \in Segments |-> Populate(prog, s)]

IInv == TypeOK /\ CacheRight /\ DecoderInSegment
------------------------------------------------------------------------------
(* Every non-empty set of naturals has a least element.                    *)
Less == {p \in Nat \X Nat : p[1] < p[2]}

LEMMA LeastNumber ==
  ASSUME NEW S \in SUBSET Nat, S # {}
  PROVE  \E x \in S : \A y \in S : x <= y
<1>1. IsWellFoundedOn(Less, Nat)
  BY NatLessThanWellFounded DEF OpToRel, Less
<1>2. PICK x \in S : \A y \in S : ~ (<<y, x>> \in Less)
  BY <1>1, WFMin, Zenon
<1>3. \A y \in S : ~ (y < x)
  BY <1>2 DEF Less
<1> QED
  BY <1>3

(* The block of an address ends at the first diverging instruction, or at  *)
(* the end of the segment.                                                 *)
LEMMA BlockEndFacts ==
  ASSUME NEW p \in Programs, NEW s \in Segments, NEW a \in s.begin..(s.end - 1)
  PROVE  LET e == BlockEnd(p, s, a) IN
         /\ e \in a..s.end
         /\ e = s.end \/ p.code[e].op \in Diverging
         /\ \A c \in a..(e - 1) : p.code[c].op \notin Diverging
<1> DEFINE Ends(b) == b = s.end \/ p.code[b].op \in Diverging
           S == {n \in Nat : a + n \in a..s.end /\ Ends(a + n)}
<1>1. s.begin \in Int /\ s.end \in Int /\ a \in Int /\ a < s.end
  BY DispatchAssumption
<1>2. s.end - a \in S
  BY <1>1
<1>3. PICK x \in S : \A y \in S : x <= y
  BY <1>2, LeastNumber
<1>4. a + x \in a..s.end /\ Ends(a + x)
  BY <1>3
<1>5. ASSUME NEW c \in a..(a + x - 1)
      PROVE  p.code[c].op \notin Diverging
  <2>1. c - a \in Nat /\ c - a < x /\ c \in a..s.end /\ a + (c - a) = c
    BY <1>1, <1>4
  <2>2. c - a \notin S
    BY <2>1, <1>3
  <2>3. ~ Ends(c)
    BY <2>1, <2>2
  <2> QED
    BY <2>3
<1>6. \E b \in a..s.end :
        /\ b = s.end \/ p.code[b].op \in Diverging
        /\ \A c \in a..(b - 1) : p.code[c].op \notin Diverging
  BY <1>4, <1>5
<1> QED
  BY <1>6 DEF BlockEnd

(* A diverging instruction is a block of its own.                          *)
LEMMA DivergingEnds ==
  ASSUME NEW p \in Programs, NEW s \in Segments, NEW a \in s.begin..(s.end - 1),
         p.code[a].op \in Diverging
  PROVE  BlockEnd(p, s, a) = a
<1>1. s.begin \in Int /\ s.end \in Int /\ a \in Int
  BY DispatchAssumption
<1> QED
  BY <1>1, BlockEndFacts

(* The instructions of a block agree on where it ends.                     *)
LEMMA NextEnds ==
  ASSUME NEW p \in Programs, NEW s \in Segments, NEW a \in s.begin..(s.end - 1),
         p.code[a].op \notin Diverging
  PROVE  /\ BlockEnd(p, s, a) > a
         /\ a + 1 = s.end => BlockEnd(p, s, a) = s.end
         /\ a + 1 < s.end => BlockEnd(p, s, a + 1) = BlockEnd(p, s, a)
<1> DEFINE e == BlockEnd(p, s, a)
           f == BlockEnd(p, s, a + 1)
<1>1. s.begin \in Int /\ s.end \in Int /\ a \in Int /\ a < s.end
  BY DispatchAssumption
<1>2. /\ e \in a..s.end
      /\ e = s.end \/ p.code[e].op \in Diverging
      /\ \A c \in a..(e - 1) : p.code[c].op \notin Diverging
  BY BlockEndFacts
<1>3. e > a
  BY <1>1, <1>2
<1>4. a + 1 = s.end => e = s.end
  BY <1>1, <1>2, <1>3
<1>5. ASSUME a + 1 < s.end
      PROVE  f = e
  <2>1. a + 1 \in s.begin..(s.end - 1)
    BY <1>1, <1>5
  <2>2. /\ f \in (a + 1)..s.end
        /\ f = s.end \/ p.code[f].op \in Diverging
        /\ \A c \in (a + 1)..(f - 1) : p.code[c].op \notin Diverging
    BY <2>1, BlockEndFacts
  <2>3. ~ (f < e)
    BY <1>1, <1>2, <1>3, <2>2
  <2>4. ~ (e < f)
    BY <1>1, <1>2, <1>3, <2>2
  <2> QED
    BY <1>1, <1>2, <2>2, <2>3, <2>4
<1> QED
  BY <1>3, <1>4, <1>5

(* The entry that ends a cache is not in a segment.                        *)
LEMMA EndOutside ==
  ASSUME NEW s \in Segments
  PROVE  s.end \notin Addresses
<1> SUFFICES ASSUME NEW t \in Segments, s.end \in t.begin..(t.end - 1)
             PROVE  FALSE
  BY DEF Addresses
<1>1. /\ s.begin \in Int /\ s.end \in Int /\ s.begin < s.end
      /\ t.begin \in Int /\ t.end \in Int /\ t.begin < t.end
      /\ s = t \/ s.end < t.begin \/ t.end < s.begin
  BY DispatchAssumption
<1> QED
  BY <1>1

(* What the loop finds at an address of its cache.                         *)
LEMMA EntryFacts ==
  ASSUME CacheRight, NEW s \in Segments, NEW a \in s.begin..s.end
  PROVE  /\ Entry(s, a) = cache[s][a]
         /\ Entry(s, a).bytecode \in Bytecodes /\ Entry(s, a).block \in 0..(BlockMod - 1)
         /\ a = s.end => Entry(s, a) = Sentinel
         /\ a < s.end =>
              /\ a \in Addresses
              /\ a \in prog.patched => Entry(s, a) = [bytecode |-> "syscallimm", block |-> 0]
              /\ a \notin prog.patched =>
                   /\ Entry(s, a).bytecode = Bytecode(prog.code[a], s)
                   /\ Entry(s, a).block = (BlockEnd(prog, s, a) - a) % BlockMod
<1>1. s.begin \in Int /\ s.end \in Int /\ a \in Int /\ BlockMod \in Nat \ {0}
  BY DispatchAssumption
<1>2. Entry(s, a) = Populate(prog, s)[a]
  BY DEF CacheRight, Entry
<1>3. Entry(s, a) = cache[s][a]
  BY DEF Entry
<1>4. CASE a = s.end
  <2>1. Entry(s, a) = Sentinel
    BY <1>1, <1>2, <1>4 DEF Populate
  <2> QED
    BY <1>1, <1>3, <1>4, <2>1 DEF Sentinel, Bytecodes
<1>5. CASE a < s.end
  <2>1. a \in s.begin..(s.end - 1) /\ a # s.end
    BY <1>1, <1>5
  <2>2. a \in Addresses
    BY <2>1 DEF Addresses
  <2>3. CASE a \in prog.patched
    <3>1. Entry(s, a) = [bytecode |-> "syscallimm", block |-> 0]
      BY <1>2, <2>1, <2>3 DEF Populate
    <3> QED
      BY <1>1, <1>3, <2>1, <2>2, <2>3, <3>1 DEF Bytecodes, Ops
  <2>4. CASE a \notin prog.patched
    <3>1. /\ Entry(s, a).bytecode = Bytecode(prog.code[a], s)
          /\ Entry(s, a).block = (BlockEnd(prog, s, a) - a) % BlockMod
      BY <1>2, <2>1, <2>4 DEF Populate
    <3>2. BlockEnd(prog, s, a) \in a..s.end
      BY <2>1, BlockEndFacts DEF CacheRight
    <3>3. (BlockEnd(prog, s, a) - a) % BlockMod \in 0..(BlockMod - 1)
      BY <1>1, <3>2
    <3>4. prog.code[a].op \in Ops
      BY <2>2, DispatchAssumption DEF CacheRight
    <3>5. Bytecode(prog.code[a], s) \in Bytecodes
      BY <3>4 DEF Bytecode, Bytecodes, Ops
    <3> QED
      BY <1>1, <1>3, <2>1, <2>2, <2>4, <3>1, <3>3, <3>5
  <2> QED
    BY <2>3, <2>4
<1> QED
  BY <1>1, <1>4, <1>5

(* What the bytecode of an instruction says about it.                      *)
LEMMA BytecodeFacts ==
  ASSUME CacheRight, NEW s \in Segments, NEW a \in s.begin..s.end
  PROVE  /\ Entry(s, a).bytecode \in {"cond", "b", "bl", "jump", "call", "ret", "syscall"} =>
              /\ a < s.end /\ a \notin prog.patched
              /\ prog.code[a].op = Entry(s, a).bytecode
              /\ Entry(s, a).block = 0
         /\ Entry(s, a).bytecode \in {"cond", "b", "bl"} => Within(s, prog.code[a].to)
         /\ Entry(s, a).bytecode = "function" =>
              a < s.end /\ a \notin prog.patched /\ prog.code[a].op \in {"function", "break"}
         /\ Entry(s, a).bytecode = "stop" =>
              a < s.end /\ a \notin prog.patched /\ prog.code[a].op = "stop"
         /\ Entry(s, a).bytecode = "syscallimm" =>
              a < s.end /\ (a \in prog.patched \/ prog.code[a].op = "syscallimm")
         /\ Entry(s, a).bytecode = "INVALID" =>
              a = s.end \/ /\ a \notin prog.patched /\ prog.code[a].op \in Branches
                           /\ ~ Within(s, prog.code[a].to)
<1>1. s.begin \in Int /\ s.end \in Int /\ a \in Int /\ BlockMod \in Nat \ {0}
  BY DispatchAssumption
<1>2. CASE a = s.end
  BY <1>2, EntryFacts DEF Sentinel
<1>3. CASE a < s.end /\ a \in prog.patched
  BY <1>3, EntryFacts
<1>4. CASE a < s.end /\ a \notin prog.patched
  <2>1. /\ Entry(s, a).bytecode = Bytecode(prog.code[a], s)
        /\ Entry(s, a).block = (BlockEnd(prog, s, a) - a) % BlockMod
    BY <1>4, EntryFacts
  <2>2. prog.code[a].op \in Ops
    BY <1>4, EntryFacts, DispatchAssumption DEF CacheRight
  <2>3. prog.code[a].op \in Diverging => Entry(s, a).block = 0
    <3>1. a \in s.begin..(s.end - 1)
      BY <1>1, <1>4
    <3>2. prog.code[a].op \in Diverging => BlockEnd(prog, s, a) = a
      BY <3>1, DivergingEnds DEF CacheRight
    <3> QED
      BY <1>1, <2>1, <3>2
  <2> QED
    BY <1>4, <2>1, <2>2, <2>3 DEF Bytecode, Branches, Diverging, Ops
<1> QED
  BY <1>1, <1>2, <1>3, <1>4
------------------------------------------------------------------------------
(* The part of the invariant that a step of the loop puts at risk.         *)
Located ==
  /\ exec \in Segments
  /\ regs_pc \in Int /\ pc \in Int /\ decoder \in Int
  /\ mcounter \in Nat /\ counter \in Nat
  /\ mode \in {"run", "host"}
  /\ result \in {"none", "exception", "stopped", "limit"}
  /\ DecoderInSegment

(* The rest of it.                                                         *)
Settled ==
  /\ CacheRight
  /\ \A s \in Segments : \A a \in s.begin..s.end :
       /\ cache[s][a].bytecode \in Bytecodes
       /\ cache[s][a].block \in 0..(BlockMod - 1)
  /\ ra \in Int /\ steps \in Nat
  /\ mmax \in Limits \cup {0, Unlimited} /\ max \in Limits \cup {0, Unlimited}
  /\ counted \in BOOLEAN

LEMMA Parts == IInv <=> Located /\ Settled
  BY DEF IInv, TypeOK, Located, Settled, CacheRight

(* Counting a block keeps the counter a number.                            *)
LEMMA PlusNat ==
  ASSUME CacheRight, NEW s \in Segments, NEW a \in s.begin..s.end, NEW c \in Nat
  PROVE  Plus(c, Entry(s, a)) \in Nat
<1>1. Entry(s, a).block \in Nat /\ CountMod \in Nat \ {0}
  BY EntryFacts, DispatchAssumption
<1>2. (Entry(s, a).block + 1) % CountMod \in Nat
  BY <1>1
<1> QED
  BY <1>2 DEF Plus, Count

(* Entering a block within a segment.                                      *)
LEMMA EnterBlockLocates ==
  ASSUME IInv, UNCHANGED cache, NEW s \in Segments, NEW p \in Int, Within(s, p),
         NEW c \in Nat, NEW r \in Int, EnterBlock(s, p, c, r)
  PROVE  Located' /\ PcAgrees'
<1>1. s.begin \in Int /\ s.end \in Int
  BY DispatchAssumption
<1>2. p \in s.begin..s.end
  BY <1>1 DEF Within
<1>3. Entry(s, p).block \in Nat /\ Plus(c, Entry(s, p)) \in Nat
  BY <1>2, EntryFacts, PlusNat DEF IInv
<1>4. Located'
  BY <1>2, <1>3 DEF EnterBlock, Located, IInv, TypeOK, DecoderInSegment
<1>5. PcAgrees'
  BY DEF EnterBlock, PcAgrees, Entry
<1> QED
  BY <1>4, <1>5

(* Leaving the loop.                                                       *)
LEMMA StopExecutionLocates ==
  ASSUME IInv, NEW s \in Segments, NEW p \in Int, NEW c \in Nat, NEW m,
         StopExecution(s, p, c, m)
  PROVE  Located' /\ PcAgrees'
  BY DEF StopExecution, Leave, Located, IInv, TypeOK, DecoderInSegment, PcAgrees

LEMMA ThrowLocates ==
  ASSUME IInv, NEW p \in Int, Throw(p)
  PROVE  Located' /\ PcAgrees'
  BY DEF Throw, Leave, Located, IInv, TypeOK, DecoderInSegment, PcAgrees

(* Looking for the segment of an address.                                  *)
LEMMA NewExecuteSegmentLocates ==
  ASSUME IInv, UNCHANGED cache, NEW p \in Int, NEW c \in Nat, NEW m, NewExecuteSegment(p, c, m)
  PROVE  Located' /\ PcAgrees'
<1>1. ASSUME NEW s \in Segments, Within(s, p),
             IF Spent(c, m) THEN StopExecution(s, p, c, m) ELSE EnterBlock(s, p, c, p)
      PROVE  Located' /\ PcAgrees'
  BY <1>1, StopExecutionLocates, EnterBlockLocates
<1> QED
  BY <1>1, ThrowLocates DEF NewExecuteSegment

(* A jump anywhere.                                                        *)
LEMMA CheckJumpLocates ==
  ASSUME IInv, UNCHANGED cache, NEW p \in Int, NEW c \in Nat, NEW m, NEW r \in Int,
         CheckJump(p, c, m, r)
  PROVE  Located' /\ PcAgrees'
<1>1. exec \in Segments
  BY DEF IInv, TypeOK
<1> QED
  BY <1>1, StopExecutionLocates, EnterBlockLocates, NewExecuteSegmentLocates DEF CheckJump

(* A move by a distance within the segment; from an instruction where both *)
(* program counters are the same they stay in agreement.                   *)
LEMMA NextBlockLocates ==
  ASSUME IInv, UNCHANGED cache, mode = "run", NEW len \in Int, NEW r \in Int,
         decoder + len \in exec.begin..exec.end, NextBlockUnchecked(len, r)
  PROVE  Located' /\ (pc = decoder => PcAgrees')
<1>1. exec \in Segments /\ pc \in Int /\ decoder \in Int /\ counter \in Nat
  BY DEF IInv, TypeOK
<1>2. Entry(exec, decoder + len).block \in Nat /\ Plus(counter, Entry(exec, decoder + len)) \in Nat
  BY <1>1, EntryFacts, PlusNat DEF IInv
<1>3. Located'
  BY <1>1, <1>2 DEF NextBlockUnchecked, Located, IInv, TypeOK, DecoderInSegment
<1>4. pc = decoder => PcAgrees'
  BY <1>1, <1>2 DEF NextBlockUnchecked, PcAgrees, Entry
<1> QED
  BY <1>3, <1>4

LEMMA PerformBranchLocates ==
  ASSUME IInv, UNCHANGED cache, mode = "run", NEW len \in Int,
         decoder + len \in exec.begin..exec.end, PerformBranch(len)
  PROVE  Located' /\ (pc = decoder => PcAgrees')
<1>1. pc + len \in Int /\ counter \in Nat /\ regs_pc \in Int
  BY DEF IInv, TypeOK
<1> QED
  BY <1>1, NextBlockLocates, CheckJumpLocates DEF PerformBranch
------------------------------------------------------------------------------
(* What every step of the loop has to show.                                *)
Keeps == IInv' /\ (Fits /\ PcAgrees => PcAgrees')

(* An instruction executes: where, and what it leaves alone.               *)
LEMMA ExecuteFacts ==
  ASSUME IInv, NEW b, Execute(b)
  PROVE  /\ mode = "run" /\ exec \in Segments /\ decoder \in exec.begin..exec.end
         /\ Entry(exec, decoder).bytecode = b
         /\ exec.begin \in Int /\ exec.end \in Int /\ decoder \in Int /\ pc \in Int
         /\ regs_pc \in Int /\ ra \in Int /\ counter \in Nat
         /\ UNCHANGED <<prog, cache, counted>> /\ CacheRight'
         /\ steps' \in Nat
  BY DispatchAssumption DEF IInv, TypeOK, DecoderInSegment, Execute, CacheRight

(* A step that leaves the limits alone keeps what is not located.          *)
LEMMA SettledKept ==
  ASSUME IInv, NEW b, Execute(b), ra' \in Int,
         mmax' \in Limits \cup {0, Unlimited}, max' \in Limits \cup {0, Unlimited}
  PROVE  Settled'
<1>1. UNCHANGED <<prog, cache, counted>> /\ CacheRight' /\ steps' \in Nat
  BY ExecuteFacts
<1> QED
  BY <1>1 DEF IInv, TypeOK, Settled

(* Where an instruction is a block of its own the program counters agree.  *)
LEMMA BothCounters ==
  ASSUME IInv, PcAgrees,
         NEW b \in {"cond", "b", "bl", "jump", "call", "ret", "syscall"}, Execute(b)
  PROVE  pc = decoder
<1>1. decoder \notin prog.patched /\ Entry(exec, decoder).block = 0
  BY ExecuteFacts, BytecodeFacts DEF IInv
<1>2. pc = decoder + Entry(exec, decoder).block
  BY <1>1, ExecuteFacts DEF PcAgrees
<1> QED
  BY <1>1, <1>2, ExecuteFacts

(* The target of a branch that is in the cache is in its segment.          *)
LEMMA BranchTarget ==
  ASSUME IInv, NEW b \in {"cond", "b", "bl"}, Execute(b)
  PROVE  /\ Offset \in Int /\ decoder + Offset = prog.code[decoder].to
         /\ decoder + Offset \in exec.begin..exec.end
<1>1. decoder < exec.end /\ Within(exec, prog.code[decoder].to)
  BY ExecuteFacts, BytecodeFacts DEF IInv
<1>2. decoder \in Addresses
  BY <1>1, ExecuteFacts, EntryFacts DEF IInv
<1>3. prog.code[decoder].to \in Int
  BY <1>2, DispatchAssumption DEF IInv, TypeOK
<1> QED
  BY <1>1, <1>3, ExecuteFacts DEF Offset, Within

(* A plain instruction: the rest of the block gets shorter by one.         *)
LEMMA NextInstrLocates ==
  ASSUME IInv, Execute("function"), NextInstr
  PROVE  Located' /\ (Fits /\ PcAgrees => PcAgrees')
<1>1. /\ mode = "run" /\ exec \in Segments /\ decoder \in exec.begin..(exec.end - 1)
      /\ decoder \notin prog.patched /\ prog.code[decoder].op \in {"function", "break"}
  BY ExecuteFacts, BytecodeFacts DEF IInv
<1>2. Located'
  BY <1>1, ExecuteFacts DEF NextInstr, Located, IInv, TypeOK, DecoderInSegment
<1>3. ASSUME Fits, PcAgrees
      PROVE  PcAgrees'
  <2> DEFINE e == BlockEnd(prog, exec, decoder)
  <2>1. prog \in Programs /\ decoder \in Addresses /\ BlockMod \in Nat \ {0}
    BY <1>1, ExecuteFacts, EntryFacts, DispatchAssumption DEF IInv, TypeOK
  <2>2. prog.code[decoder].op \notin Diverging
    BY <1>1, <1>3, <2>1 DEF Fits, Diverging, Branches
  <2>3. /\ e \in decoder..exec.end /\ e > decoder /\ e - decoder < BlockMod
        /\ decoder + 1 = exec.end => e = exec.end
        /\ decoder + 1 < exec.end => BlockEnd(prog, exec, decoder + 1) = e
    BY <1>1, <1>3, <2>1, <2>2, BlockEndFacts, NextEnds DEF Fits
  <2>4. pc = e
    <3>1. Entry(exec, decoder).block = (e - decoder) % BlockMod
      BY <1>1, <2>1, ExecuteFacts, EntryFacts DEF IInv
    <3>2. (e - decoder) % BlockMod = e - decoder
      BY <2>1, <2>3, ExecuteFacts
    <3> QED
      BY <1>1, <1>3, <2>3, <3>1, <3>2, ExecuteFacts DEF PcAgrees
  <2>5. pc' = pc /\ decoder' = decoder + 1 /\ exec' = exec /\ cache' = cache /\ prog' = prog
    BY ExecuteFacts DEF NextInstr
  <2>6. pc = decoder + 1 + (e - (decoder + 1))
    BY <2>3, <2>4, ExecuteFacts
  <2>7. decoder + 1 \in exec.begin..exec.end
    BY <1>1, ExecuteFacts
  <2>8. CASE decoder + 1 = exec.end
    <3>1. Entry(exec, decoder + 1) = Sentinel
      BY <1>1, <2>7, <2>8, EntryFacts DEF IInv
    <3>2. Entry(exec, decoder + 1).block = e - (decoder + 1)
      BY <2>3, <2>8, <3>1, ExecuteFacts DEF Sentinel
    <3> QED
      BY <2>5, <2>6, <3>2 DEF PcAgrees, Entry
  <2>9. CASE decoder + 1 < exec.end /\ decoder + 1 \notin prog.patched
    <3>1. Entry(exec, decoder + 1).block = (e - (decoder + 1)) % BlockMod
      BY <1>1, <2>3, <2>7, <2>9, EntryFacts DEF IInv
    <3>2. (e - (decoder + 1)) % BlockMod = e - (decoder + 1)
      BY <2>1, <2>3, ExecuteFacts
    <3> QED
      BY <2>5, <2>6, <3>1, <3>2 DEF PcAgrees, Entry
  <2>10. CASE decoder + 1 < exec.end /\ decoder + 1 \in prog.patched
    BY <2>3, <2>4, <2>5, <2>10 DEF PcAgrees
  <2> QED
    BY <2>7, <2>8, <2>9, <2>10, ExecuteFacts
<1> QED
  BY <1>2, <1>3
------------------------------------------------------------------------------
(* The steps of the loop.                                                  *)
LEMMA FunctionKeeps == ASSUME IInv, Function PROVE Keeps
<1>1. Execute("function") /\ ra' = ra /\ max' = max /\ mmax' = mmax
  BY DEF Function, NoLink, NoCall
<1>2. Settled'
  BY <1>1, SettledKept DEF IInv, TypeOK
<1>3. Located' /\ (Fits /\ PcAgrees => PcAgrees')
  BY <1>1, ExecuteFacts, NextInstrLocates, ThrowLocates DEF Function
<1> QED
  BY <1>2, <1>3, Parts, PTL DEF Keeps

(* Branches: their targets and the next instruction are in the segment.    *)
LEMMA BranchKeeps == ASSUME IInv, CondBranch \/ B \/ BL PROVE Keeps
<1>1. PICK b \in {"cond", "b", "bl"} :
        /\ Execute(b) /\ ra' \in {ra, pc + 1} /\ max' = max /\ mmax' = mmax
        /\ PerformBranch(Offset) \/ (b = "cond" /\ NextBlockUnchecked(1, regs_pc))
  BY DEF CondBranch, B, BL, NoLink, NoCall
<1>2. Settled'
  BY <1>1, ExecuteFacts, SettledKept DEF IInv, TypeOK
<1>3. decoder + 1 \in exec.begin..exec.end
  BY <1>1, ExecuteFacts, BytecodeFacts DEF IInv
<1>4. Located' /\ (pc = decoder => PcAgrees')
  BY <1>1, <1>3, ExecuteFacts, BranchTarget, PerformBranchLocates, NextBlockLocates
<1>5. PcAgrees => pc = decoder
  BY <1>1, BothCounters
<1> QED
  BY <1>2, <1>4, <1>5, Parts, PTL DEF Keeps

(* Computed jumps are looked at before they are taken.                     *)
LEMMA JumpKeeps == ASSUME IInv, Jirl \/ JirlLink \/ JirlReturn PROVE Keeps
<1>1. PICK b \in {"jump", "call", "ret"}, t \in Targets \cup {ra} :
        /\ Execute(b) /\ ra' \in {ra, pc + 1} /\ max' = max /\ mmax' = mmax
        /\ CheckJump(t, counter, max, regs_pc)
  BY DEF Jirl, JirlLink, JirlReturn, NoLink, NoCall
<1>2. t \in Int
  BY <1>1, ExecuteFacts, DispatchAssumption
<1>3. Settled'
  BY <1>1, ExecuteFacts, SettledKept DEF IInv, TypeOK
<1>4. Located' /\ PcAgrees'
  BY <1>1, <1>2, ExecuteFacts, CheckJumpLocates
<1> QED
  BY <1>3, <1>4, Parts, PTL DEF Keeps

(* A system call goes on behind itself or is a jump.                       *)
LEMMA SyscallKeeps == ASSUME IInv, Syscall PROVE Keeps
<1>1. Execute("syscall") /\ ra' = ra
  BY DEF Syscall, NoLink
<1>2. max \in Limits \cup {0, Unlimited} /\ mmax \in Limits \cup {0, Unlimited}
  BY DEF IInv, TypeOK
<1>3. decoder + 1 \in exec.begin..exec.end
  BY <1>1, ExecuteFacts, BytecodeFacts DEF IInv
<1>4. CASE HandlerThrows
  <2>1. Settled'
    BY <1>1, <1>2, <1>4, ExecuteFacts, SettledKept DEF HandlerThrows
  <2>2. Located' /\ PcAgrees'
    BY <1>1, <1>4, ExecuteFacts, ThrowLocates DEF HandlerThrows
  <2> QED
    BY <2>1, <2>2, Parts, PTL DEF Keeps
<1>5. ASSUME NEW m \in {max, 0}, NEW r \in {pc} \cup {t - 1 : t \in Targets},
             Handled(m, r), AfterCall(m, r)
      PROVE  Keeps
  <2>1. r \in Int /\ r + 1 \in Int
    BY <1>1, <1>5, ExecuteFacts, DispatchAssumption
  <2>2. Settled'
    BY <1>1, <1>2, <1>5, ExecuteFacts, SettledKept DEF Handled
  <2>3. Located' /\ (pc = decoder => PcAgrees')
    BY <1>1, <1>3, <1>5, <2>1, ExecuteFacts, CheckJumpLocates, NextBlockLocates DEF AfterCall
  <2>4. PcAgrees => pc = decoder
    BY <1>1, BothCounters
  <2> QED
    BY <2>2, <2>3, <2>4, Parts, PTL DEF Keeps
<1> QED
  BY <1>4, <1>5 DEF Syscall

(* A native function returns by a jump.                                    *)
LEMMA SyscallImmKeeps == ASSUME IInv, SyscallImm PROVE Keeps
<1>1. Execute("syscallimm") /\ ra' = ra
  BY DEF SyscallImm, NoLink
<1>2. max \in Limits \cup {0, Unlimited} /\ mmax \in Limits \cup {0, Unlimited}
  BY DEF IInv, TypeOK
<1>3. CASE HandlerThrows
  <2>1. Settled'
    BY <1>1, <1>2, <1>3, ExecuteFacts, SettledKept DEF HandlerThrows
  <2>2. Located' /\ PcAgrees'
    BY <1>1, <1>3, ExecuteFacts, ThrowLocates DEF HandlerThrows
  <2> QED
    BY <2>1, <2>2, Parts, PTL DEF Keeps
<1>4. ASSUME NEW m \in {max, 0}, Handled(m, pc), CheckJump(ra, counter, m, pc)
      PROVE  Keeps
  <2>1. Settled'
    BY <1>1, <1>2, <1>4, ExecuteFacts, SettledKept DEF Handled
  <2>2. Located' /\ PcAgrees'
    BY <1>1, <1>4, ExecuteFacts, CheckJumpLocates
  <2> QED
    BY <2>1, <2>2, Parts, PTL DEF Keeps
<1> QED
  BY <1>3, <1>4 DEF SyscallImm

(* The instructions that end a run.                                        *)
LEMMA EndKeeps == ASSUME IInv, Stop \/ Invalid PROVE Keeps
<1>1. PICK b : Execute(b) /\ ra' = ra /\ max' = max /\ mmax' = mmax
  BY DEF Stop, Invalid, NoLink, NoCall
<1>2. Settled'
  BY <1>1, ExecuteFacts, SettledKept DEF IInv, TypeOK
<1>3. CASE Stop
  <2>1. Located' /\ PcAgrees'
    BY <1>1, <1>3, ExecuteFacts
    DEF Stop, Leave, Located, IInv, TypeOK, DecoderInSegment, PcAgrees
  <2> QED
    BY <1>2, <2>1, Parts, PTL DEF Keeps
<1>4. CASE Invalid
  <2>1. Entry(exec, decoder).block \in Nat
    BY <1>1, ExecuteFacts, EntryFacts DEF IInv
  <2>2. Located' /\ PcAgrees'
    BY <1>1, <1>4, <2>1, ExecuteFacts, ThrowLocates DEF Invalid
  <2> QED
    BY <1>2, <2>2, Parts, PTL DEF Keeps
<1> QED
  BY <1>3, <1>4

(* Entering the loop from the host, with or without a limit.               *)
LEMMA SimulateKeeps == ASSUME IInv, Simulate \/ SimulateInaccurate PROVE Keeps
<1>1. PICK m \in Limits \cup {Unlimited} : Begin(m) /\ mmax' \in {mmax, Unlimited} /\ counted' \in BOOLEAN
  BY DEF Simulate, SimulateInaccurate
<1>2. Settled'
  BY <1>1 DEF Begin, Settled, IInv, TypeOK, CacheRight
<1>3. Located' /\ PcAgrees'
  BY <1>1, EnterBlockLocates, NewExecuteSegmentLocates DEF Begin, IInv, TypeOK
<1> QED
  BY <1>2, <1>3, Parts, PTL DEF Keeps

LEMMA HostJumpKeeps == ASSUME IInv, HostJump PROVE Keeps
  BY DispatchAssumption
  DEF HostJump, Keeps, IInv, TypeOK, CacheRight, DecoderInSegment, PcAgrees, Entry

(* Every step keeps the invariant, and the agreement of the counters.      *)
LEMMA NextKeeps == ASSUME IInv, [Next]_vars PROVE Keeps
<1>1. CASE UNCHANGED vars
  BY <1>1 DEF vars, Keeps, IInv, TypeOK, CacheRight, DecoderInSegment, PcAgrees, Entry
<1>2. CASE Loop
  BY <1>2, FunctionKeeps, BranchKeeps, JumpKeeps, SyscallKeeps, SyscallImmKeeps, EndKeeps DEF Loop
<1>3. CASE Simulate \/ SimulateInaccurate \/ HostJump
  BY <1>3, SimulateKeeps, HostJumpKeeps
<1> QED
  BY <1>1, <1>2, <1>3 DEF Next

LEMMA InitIInv == Init => IInv /\ PcAgrees
<1> SUFFICES ASSUME Init PROVE IInv /\ PcAgrees
  OBVIOUS
<1>1. CacheRight
  BY DEF Init, CacheRight
<1>2. \A s \in Segments : \A a \in s.begin..s.end :
        /\ cache[s][a].bytecode \in Bytecodes
        /\ cache[s][a].block \in 0..(BlockMod - 1)
  BY <1>1, EntryFacts
<1>3. /\ prog \in Programs /\ exec \in Segments /\ counted \in BOOLEAN
      /\ {regs_pc, ra, pc, decoder} \subseteq Int /\ {mcounter, counter, steps} \subseteq Nat
      /\ mmax = 0 /\ max = 0 /\ mode = "host" /\ result = "none"
  <2>1. regs_pc \in Int
    BY DispatchAssumption DEF Init
  <2>2. counted \in BOOLEAN
    BY Zenon DEF Init
  <2> QED
    BY <2>1, <2>2 DEF Init
<1>4. TypeOK
  BY <1>2, <1>3 DEF TypeOK
<1> QED
  BY <1>1, <1>3, <1>4 DEF IInv, DecoderInSegment, PcAgrees

(* The inductive invariant holds in every reachable state.                 *)
THEOREM Invariant == Spec => []IInv
<1>1. IInv /\ [Next]_vars => IInv'
  BY NextKeeps DEF Keeps
<1> QED
  BY InitIInv, <1>1, PTL DEF Spec
------------------------------------------------------------------------------
(* The variables and every entry of every decoder cache have their types   *)
(* (decoder_cache.hpp:19).                                                 *)
THEOREM TypeCorrect == Spec => []TypeOK
<1>1. IInv => TypeOK
  BY DEF IInv
<1> QED
  BY Invariant, <1>1, PTL

(* The loop executes entries of the decoder cache of its segment and its   *)
(* sentinel, whatever the guest is (threaded_rewriter.cpp:37,              *)
(* decoder_cache.cpp:254).                                                 *)
THEOREM DecoderStaysInside == Spec => []DecoderInSegment
<1>1. IInv => DecoderInSegment
  BY DEF IInv
<1> QED
  BY Invariant, <1>1, PTL

(* RECONSTRUCT_PC() is the address of the instruction that executes        *)
(* (threaded_dispatch.cpp:10), if the programs fit.                        *)
THEOREM ProgramCountersAgree == ASSUME Fits PROVE Spec => []PcAgrees
<1>1. Init => IInv /\ PcAgrees
  BY InitIInv
<1>2. (IInv /\ PcAgrees) /\ [Next]_vars => (IInv /\ PcAgrees)'
  BY NextKeeps DEF Keeps
<1> QED
  BY <1>1, <1>2, PTL DEF Spec
------------------------------------------------------------------------------
(* The loop implements Guest.  A jump of the loop is a jump of the guest.  *)
LEMMA JumpMaps ==
  ASSUME NEW p, NEW c, NEW m, NEW r, IInv, CheckJump(p, c, m, r)
  PROVE  G!JumpTo(p)
<1>1. ASSUME NEW s \in Segments, Within(s, p), EnterBlock(s, p, c, r) \/ EnterBlock(s, p, c, p)
      PROVE  G!JumpTo(p)
  BY <1>1 DEF EnterBlock, G!JumpTo, G!Within, Within
<1>2. CASE StopExecution(exec, p, c, m)
  BY <1>2 DEF StopExecution, Leave, G!JumpTo
<1>3. CASE Throw(p)
  BY <1>3 DEF Throw, Leave, G!JumpTo
<1>4. exec \in Segments
  BY DEF IInv, TypeOK
<1> QED
  BY <1>1, <1>2, <1>3, <1>4 DEF CheckJump, NewExecuteSegment

(* The instruction the loop executes is the one the guest is at.           *)
LEMMA AtMaps ==
  ASSUME IInv, NEW b, Execute(b), decoder < exec.end, decoder \notin prog.patched,
         NEW ops, prog.code[decoder].op \in ops
  PROVE  G!At(ops)
<1>1. Within(exec, decoder)
  BY ExecuteFacts DEF Within
<1> QED
  BY <1>1, ExecuteFacts DEF G!At, G!Within, Within

(* Moving on by one entry.                                                 *)
LEMMA FallThroughMaps ==
  ASSUME mode = "run", NextInstr \/ (\E r : NextBlockUnchecked(1, r))
  PROVE  G!FallThrough
  BY DEF NextInstr, NextBlockUnchecked, G!FallThrough

(* A branch within the segment.                                            *)
LEMMA BranchMaps ==
  ASSUME IInv, PcAgrees, NEW b \in {"cond", "b", "bl"}, Execute(b), PerformBranch(Offset)
  PROVE  G!Branch
<1>1. mode = "run" /\ exec \in Segments /\ Within(exec, prog.code[decoder].to)
  BY ExecuteFacts, BytecodeFacts DEF IInv
<1>2. decoder + Offset = prog.code[decoder].to
  BY BranchTarget
<1>3. CASE NextBlockUnchecked(Offset, regs_pc)
  BY <1>1, <1>2, <1>3 DEF NextBlockUnchecked, G!Branch, G!JumpTo, G!Within, Within
<1>4. CASE CheckJump(pc + Offset, counter, max, regs_pc)
  <2>1. pc + Offset = prog.code[decoder].to
    BY <1>2, BothCounters
  <2>2. G!JumpTo(prog.code[decoder].to)
    BY <1>4, <2>1, JumpMaps
  <2> QED
    BY <1>1, <2>2 DEF G!Branch, G!Within, Within
<1> QED
  BY <1>3, <1>4 DEF PerformBranch

LEMMA FunctionMaps == ASSUME IInv, Function PROVE G!Regular
<1>1. Execute("function") /\ ra' = ra
  BY DEF Function, NoLink
<1>2. G!At({"function", "break"})
  BY <1>1, ExecuteFacts, BytecodeFacts, AtMaps DEF IInv
<1>3. CASE NextInstr
  BY <1>1, <1>2, <1>3, ExecuteFacts, FallThroughMaps DEF G!Regular
<1>4. CASE Throw(regs_pc)
  BY <1>1, <1>2, <1>4 DEF Throw, Leave, G!Regular
<1> QED
  BY <1>3, <1>4 DEF Function

LEMMA BranchesMap ==
  ASSUME IInv, PcAgrees, CondBranch \/ B \/ BL
  PROVE  G!ConditionalBranch \/ G!UnconditionalBranch \/ G!BranchAndLink
<1>1. ASSUME NEW b \in {"cond", "b", "bl"}, Execute(b)
      PROVE  G!At({b}) /\ pc = decoder
  BY <1>1, ExecuteFacts, BytecodeFacts, AtMaps, BothCounters DEF IInv
<1>2. CASE CondBranch
  <2>1. Execute("cond") /\ ra' = ra
    BY <1>2 DEF CondBranch, NoLink
  <2>2. G!Branch \/ G!FallThrough
    BY <1>2, <2>1, ExecuteFacts, BranchMaps, FallThroughMaps DEF CondBranch
  <2> QED
    BY <1>1, <2>1, <2>2 DEF G!ConditionalBranch
<1>3. CASE B
  BY <1>1, <1>3, BranchMaps DEF B, NoLink, G!UnconditionalBranch
<1>4. CASE BL
  <2>1. Execute("bl") /\ ra' = decoder + 1 /\ mode = "run" /\ G!Branch
    BY <1>1, <1>4, ExecuteFacts, BranchMaps DEF BL
  <2> QED
    BY <1>1, <2>1 DEF G!BranchAndLink
<1> QED
  BY <1>2, <1>3, <1>4

LEMMA JumpsMap ==
  ASSUME IInv, PcAgrees, Jirl \/ JirlLink \/ JirlReturn
  PROVE  G!Jump \/ G!Call \/ G!Return
<1>1. ASSUME NEW b \in {"jump", "call", "ret"}, Execute(b)
      PROVE  G!At({b}) /\ pc = decoder /\ mode = "run"
  BY <1>1, ExecuteFacts, BytecodeFacts, AtMaps, BothCounters DEF IInv
<1>2. CASE Jirl
  BY <1>1, <1>2, JumpMaps DEF Jirl, NoLink, G!Jump
<1>3. CASE JirlLink
  BY <1>1, <1>3, JumpMaps DEF JirlLink, G!Call
<1>4. CASE JirlReturn
  BY <1>1, <1>4, JumpMaps DEF JirlReturn, NoLink, G!Return
<1> QED
  BY <1>2, <1>3, <1>4

(* A handler that stops the machine leaves the guest behind the call.      *)
LEMMA SyscallMaps == ASSUME IInv, PcAgrees, Syscall PROVE G!SystemCall
<1>1. Execute("syscall") /\ ra' = ra
  BY DEF Syscall, NoLink
<1>2. G!At({"syscall"}) /\ pc = decoder /\ mode = "run"
  BY <1>1, ExecuteFacts, BytecodeFacts, AtMaps, BothCounters DEF IInv
<1>3. CASE HandlerThrows
  BY <1>1, <1>2, <1>3 DEF HandlerThrows, Throw, Leave, G!SystemCall, G!Raise
<1>4. ASSUME NEW m, NEW r \in {pc} \cup {t - 1 : t \in Targets},
             AfterCall(m, r)
      PROVE  G!SystemCall
  <2>1. CASE m # 0 /\ r = pc
    BY <1>1, <1>2, <1>4, <2>1, FallThroughMaps DEF AfterCall, G!SystemCall
  <2>2. CASE r # pc
    <3>1. PICK t \in Targets : r = t - 1
      BY <1>4, <2>2
    <3>2. r + 1 = t
      BY <3>1, DispatchAssumption
    <3>3. G!JumpTo(t)
      BY <1>4, <2>2, <3>2, JumpMaps DEF AfterCall
    <3> QED
      BY <1>1, <1>2, <3>3 DEF G!SystemCall
  <2>3. CASE m = 0 /\ r = pc
    <3>1. Spent(counter, m)
      BY <1>1, <2>3, ExecuteFacts DEF Spent
    <3>2. StopExecution(exec, pc + 1, counter, m)
      BY <1>4, <2>3, <3>1 DEF AfterCall, CheckJump
    <3> QED
      BY <1>1, <1>2, <3>2 DEF StopExecution, Leave, G!SystemCall
  <2> QED
    BY <2>1, <2>2, <2>3
<1> QED
  BY <1>3, <1>4 DEF Syscall

LEMMA SyscallImmMaps == ASSUME IInv, SyscallImm PROVE G!Native
<1>1. Execute("syscallimm") /\ ra' = ra
  BY DEF SyscallImm, NoLink
<1>2. decoder < exec.end /\ (decoder \in prog.patched \/ prog.code[decoder].op = "syscallimm")
  BY <1>1, ExecuteFacts, BytecodeFacts DEF IInv
<1>3. mode = "run" /\ Within(exec, decoder)
  BY <1>1, <1>2, ExecuteFacts DEF Within
<1>4. G!At({"syscallimm"}) \/ (mode = "run" /\ G!Within(exec, decoder) /\ decoder \in prog.patched)
  BY <1>1, <1>2, <1>3, AtMaps DEF G!Within, Within
<1>5. CASE HandlerThrows
  BY <1>1, <1>3, <1>4, <1>5 DEF HandlerThrows, Throw, Leave, G!Native
<1>6. ASSUME NEW m, CheckJump(ra, counter, m, pc)
      PROVE  G!Native
  BY <1>1, <1>3, <1>4, <1>6, JumpMaps DEF G!Native
<1> QED
  BY <1>5, <1>6 DEF SyscallImm

LEMMA StopMaps == ASSUME IInv, Stop PROVE G!Stop
<1>1. Execute("stop") /\ ra' = ra
  BY DEF Stop, NoLink
<1>2. G!At({"stop"})
  BY <1>1, ExecuteFacts, BytecodeFacts, AtMaps DEF IInv
<1> QED
  BY <1>1, <1>2 DEF Stop, Leave, G!Stop

(* An invalid entry is the end of the segment or a branch out of it; the   *)
(* exception reports its address.                                          *)
LEMMA InvalidMaps == ASSUME IInv, PcAgrees, Invalid PROVE G!Illegal
<1>1. Execute("INVALID") /\ ra' = ra
  BY DEF Invalid, NoLink
<1>2. \/ decoder = exec.end
      \/ /\ decoder < exec.end /\ decoder \notin prog.patched
         /\ prog.code[decoder].op \in {"cond", "b", "bl"} /\ ~ Within(exec, prog.code[decoder].to)
  BY <1>1, ExecuteFacts, BytecodeFacts DEF IInv, Branches
<1>3. mode = "run" /\ pc - Entry(exec, decoder).block = decoder
  <2>1. Entry(exec, decoder).block \in Nat
    BY <1>1, ExecuteFacts, EntryFacts DEF IInv
  <2>2. decoder \notin prog.patched
    <3>1. decoder \in Addresses => decoder < exec.end
      BY <1>1, ExecuteFacts, EndOutside
    <3>2. prog.patched \subseteq Addresses
      BY DispatchAssumption DEF IInv, TypeOK
    <3> QED
      BY <1>1, <1>2, <3>1, <3>2, ExecuteFacts
  <2> QED
    BY <1>1, <2>1, <2>2, ExecuteFacts DEF PcAgrees
<1>4. G!Raise
  BY <1>3 DEF Invalid, Throw, Leave, G!Raise
<1> QED
  BY <1>1, <1>2, <1>3, <1>4, AtMaps DEF G!Illegal, G!Within, Within

(* Entering the loop: the guest starts, or a segment is found for an       *)
(* address where nothing runs yet.                                         *)
LEMMA SimulateMaps ==
  ASSUME IInv, Simulate \/ SimulateInaccurate
  PROVE  G!Enter \/ G!HostJump
<1>1. PICK m : Begin(m)
  BY DEF Simulate, SimulateInaccurate
<1>2. mode = "host" /\ ra' = ra /\ exec \in Segments
  BY <1>1 DEF Begin, IInv, TypeOK
<1>3. ASSUME NEW s \in Segments, Within(s, regs_pc), EnterBlock(s, regs_pc, 0, regs_pc)
      PROVE  G!Enter
  BY <1>2, <1>3 DEF EnterBlock, G!Enter, G!Within, Within
<1>4. ASSUME NEW s \in Segments, StopExecution(s, regs_pc, 0, m)
      PROVE  G!HostJump
  BY <1>2, <1>4 DEF StopExecution, Leave, G!HostJump
<1>5. CASE Throw(regs_pc)
  BY <1>2, <1>5 DEF Throw, Leave, G!HostJump
<1> QED
  BY <1>1, <1>2, <1>3, <1>4, <1>5 DEF Begin, NewExecuteSegment

LEMMA HostJumpMaps == ASSUME IInv, HostJump PROVE G!HostJump
  BY DEF HostJump, G!HostJump, IInv, TypeOK

(* Every step of the loop is a step of the guest or none.                  *)
LEMMA NextMaps == ASSUME IInv, PcAgrees, [Next]_vars PROVE [G!Next]_(G!guest)
<1>1. CASE UNCHANGED vars
  BY <1>1 DEF vars, G!guest
<1>2. ASSUME Next
      PROVE  UNCHANGED prog
  BY <1>2 DEF Next, Loop, Function, CondBranch, B, BL, Jirl, JirlLink, JirlReturn, Syscall,
              SyscallImm, Stop, Invalid, Execute, Simulate, SimulateInaccurate, Begin, HostJump
<1>3. CASE Loop
  BY <1>2, <1>3, FunctionMaps, BranchesMap, JumpsMap, SyscallMaps, SyscallImmMaps, StopMaps,
     InvalidMaps DEF Next, Loop, G!Next
<1>4. CASE Simulate \/ SimulateInaccurate \/ HostJump
  BY <1>2, <1>4, SimulateMaps, HostJumpMaps DEF Next, G!Next
<1> QED
  BY <1>1, <1>3, <1>4 DEF Next

LEMMA InitMaps == Init => G!Init
  BY DEF Init, G!Init

(* Running whole blocks with a program counter that is ahead does what the *)
(* instructions do one at a time, if the programs fit.                     *)
THEOREM LoopImplementsGuest == ASSUME Fits PROVE Spec => ImplementsGuest
<1>1. Spec => [](IInv /\ PcAgrees)
  BY Invariant, ProgramCountersAgree, PTL
<1>2. IInv /\ PcAgrees /\ [Next]_vars => [G!Next]_(G!guest)
  BY NextMaps
<1> QED
  BY <1>1, <1>2, InitMaps, PTL DEF Spec, ImplementsGuest, G!Spec

-----------------------------------------------------------------------------
(***************************************************************************)
(* Proofs about the instruction counter: although the loop counts a block  *)
(* when it enters it and looks at the limit at taken branches only, what   *)
(* it counts is what it executes, and the limit is overrun by no more than *)
(* one pass over a segment.                                                *)
(***************************************************************************)

(* What counting needs beside Fits: no block has as many instructions as   *)
(* instruction_count(), an 8-bit number, can say (decoder_cache.hpp:19).   *)
Countable ==
  /\ CountMod > 1
  /\ \A p \in Programs : \A s \in Segments : \A a \in s.begin..(s.end - 1) :
       BlockEnd(p, s, a) - a + 1 < CountMod

(* The executing loop.  The counter was below the limit at the last jump,  *)
(* and since then decoder only moved forwards, by all that was executed.   *)
Running ==
  counted /\ mode = "run" =>
    /\ Seen >= steps
    /\ Plain /\ steps < MaxSteps => Seen = steps
    /\ max # 0 => steps < max + (decoder - exec.begin)

(* The loop that has been left.                                            *)
Left ==
  counted /\ mode = "host" =>
    /\ max # 0 => steps <= max + (exec.end - exec.begin)
    /\ result \in {"stopped", "limit"} =>
         mcounter >= steps /\ (Plain /\ steps < MaxSteps => mcounter = steps)
    /\ max # 0 /\ result = "limit" /\ Plain /\ steps < MaxSteps => steps >= max

Ledger == Running /\ Left

(* What a step of the loop has executed, with the count c.                 *)
Tally(c) == c >= steps' /\ (Plain' /\ steps' < MaxSteps => c = steps')
------------------------------------------------------------------------------
(* An entry counts the instruction it is at and the rest of its block.     *)
LEMMA CountFacts ==
  ASSUME CacheRight, Countable, NEW s \in Segments, NEW a \in s.begin..s.end
  PROVE  /\ Entry(s, a).block \in Nat
         /\ Count(Entry(s, a)) = Entry(s, a).block + 1
<1>1. s.begin \in Int /\ s.end \in Int /\ a \in Int /\ BlockMod \in Nat \ {0} /\ CountMod \in Nat
  BY DispatchAssumption
<1>2. Entry(s, a).block \in Nat /\ Entry(s, a).block + 1 < CountMod
  <2>1. CASE a = s.end
    <3>1. Entry(s, a).block = 0
      BY <2>1, EntryFacts DEF Sentinel
    <3> QED
      BY <3>1 DEF Countable
  <2>2. CASE a < s.end /\ a \in prog.patched
    <3>1. Entry(s, a).block = 0
      BY <2>2, EntryFacts
    <3> QED
      BY <3>1 DEF Countable
  <2>3. CASE a < s.end /\ a \notin prog.patched
    <3> DEFINE d == BlockEnd(prog, s, a) - a
    <3>1. a \in s.begin..(s.end - 1) /\ prog \in Programs
      BY <1>1, <2>3 DEF CacheRight
    <3>2. d \in Nat /\ d + 1 < CountMod
      BY <1>1, <3>1, BlockEndFacts DEF Countable
    <3>3. Entry(s, a).block = d % BlockMod
      BY <2>3, EntryFacts
    <3>4. d % BlockMod \in Nat /\ d % BlockMod <= d
      <4> HIDE DEF d
      <4> QED
        BY <1>1, <3>2
    <3> QED
      BY <1>1, <3>2, <3>3, <3>4
  <2> QED
    BY <1>1, <2>1, <2>2, <2>3
<1> QED
  BY <1>1, <1>2 DEF Count

(* A step of the loop executes one instruction more, and the counter has   *)
(* it; in a plain program every instruction that is not in the middle of a *)
(* block brings the counter level with what was executed.                  *)
LEMMA StepFacts ==
  ASSUME IInv, Countable, Ledger, NEW b, Execute(b), counted
  PROVE  /\ counted' /\ steps' \in Nat /\ steps \in Nat /\ steps' <= steps + 1
         /\ steps' < MaxSteps => steps < MaxSteps /\ steps' = steps + 1
         /\ Entry(exec, decoder).block \in Nat
         /\ counter = Seen + Entry(exec, decoder).block + 1
         /\ Seen \in Int /\ counter >= steps'
         /\ b \notin {"function", "INVALID"} => Tally(counter)
         /\ max # 0 => steps' <= max + (exec.end - exec.begin)
<1>1. /\ mode = "run" /\ exec \in Segments /\ decoder \in exec.begin..exec.end
      /\ Entry(exec, decoder).bytecode = b /\ prog' = prog /\ counted' = counted
      /\ exec.begin \in Int /\ exec.end \in Int /\ decoder \in Int /\ counter \in Nat
      /\ steps' \in Nat
  BY ExecuteFacts
<1>2. steps \in Nat /\ MaxSteps \in Nat /\ max \in Nat
  <2>1. MaxSteps \in Nat /\ Unlimited \in Nat /\ Limits \subseteq 0..(Unlimited - 1)
    BY DispatchAssumption
  <2> QED
    BY <2>1 DEF IInv, TypeOK
<1>3. /\ steps' <= steps + 1
      /\ steps' < MaxSteps => steps < MaxSteps /\ steps' = steps + 1
  BY <1>2 DEF Execute
<1>4. /\ Entry(exec, decoder).block \in Nat
      /\ Count(Entry(exec, decoder)) = Entry(exec, decoder).block + 1
  BY <1>1, CountFacts DEF IInv
<1>5. counter = Seen + Entry(exec, decoder).block + 1 /\ Seen \in Int
  BY <1>1, <1>4 DEF Seen
<1>6. /\ Seen >= steps
      /\ Plain /\ steps < MaxSteps => Seen = steps
      /\ max # 0 => steps < max + (decoder - exec.begin)
  BY <1>1 DEF Ledger, Running
<1>7. counter >= steps'
  BY <1>1, <1>2, <1>3, <1>4, <1>5, <1>6
<1>8. max # 0 => steps' <= max + (exec.end - exec.begin)
  BY <1>1, <1>2, <1>3, <1>5, <1>6
<1>9. ASSUME b \notin {"function", "INVALID"}, Plain
      PROVE  Entry(exec, decoder).block = 0
  <2>1. b \in Bytecodes
    BY <1>1, EntryFacts DEF IInv
  <2>2. CASE b \in {"cond", "b", "bl", "jump", "call", "ret", "syscall"}
    BY <1>1, <2>2, BytecodeFacts DEF IInv
  <2>3. CASE b \in {"stop", "syscallimm"}
    <3>1. decoder < exec.end /\ (decoder \in prog.patched \/ prog.code[decoder].op = b)
      BY <1>1, <2>3, BytecodeFacts DEF IInv
    <3>2. decoder \in Addresses
      BY <1>1, <3>1, EntryFacts DEF IInv
    <3> QED
      BY <1>9, <2>3, <3>1, <3>2 DEF Plain
  <2> QED
    BY <1>9, <2>1, <2>2, <2>3 DEF Bytecodes, Ops, Diverging, Branches
<1>10. b \notin {"function", "INVALID"} => Tally(counter)
  <2>1. Plain' = Plain
    BY <1>1 DEF Plain
  <2> QED
    BY <1>2, <1>3, <1>5, <1>6, <1>7, <1>9, <2>1 DEF Tally
<1> QED
  BY <1>1, <1>2, <1>3, <1>4, <1>5, <1>7, <1>8, <1>10
------------------------------------------------------------------------------
(* Entering a block with the limit not yet used.                           *)
LEMMA EnterBlockCounts ==
  ASSUME IInv, Countable, UNCHANGED cache, counted', NEW s \in Segments, NEW p \in Int,
         Within(s, p), NEW c \in Nat, NEW r, EnterBlock(s, p, c, r), Tally(c),
         max' \in Nat, steps' \in Nat, max' # 0 => c < max'
  PROVE  Ledger'
<1>1. s.begin \in Int /\ s.end \in Int /\ p \in s.begin..s.end /\ s.begin <= p
  BY DispatchAssumption DEF Within
<1>2. Count(Entry(s, p)) \in Nat
  BY <1>1, CountFacts DEF IInv
<1>3. mode' = "run" /\ exec' = s /\ decoder' = p /\ counter' = c + Count(Entry(s, p))
  BY DEF EnterBlock, Plus
<1>4. Count(Entry(exec, decoder))' = Count(Entry(s, p))
  BY <1>3 DEF Entry, Count
<1>5. Seen' = c
  BY <1>2, <1>3, <1>4 DEF Seen
<1> QED
  BY <1>1, <1>3, <1>5 DEF Ledger, Running, Left, Tally

(* Leaving the loop for the host, when the limit is used or the machine    *)
(* was stopped.                                                            *)
LEMMA StopExecutionCounts ==
  ASSUME counted', NEW s, NEW p, NEW c, StopExecution(s, p, c, max'), Tally(c),
         max' # 0 => steps' <= max' + (s.end - s.begin),
         max' \in Nat, c \in Nat, steps' \in Nat, c >= max'
  PROVE  Ledger'
<1>1. mode' = "host" /\ exec' = s /\ mcounter' = c
  BY DEF StopExecution, Leave
<1> QED
  BY <1>1 DEF Ledger, Running, Left, Tally

(* An exception: nothing is reported, but the limit still holds.           *)
LEMMA ThrowCounts ==
  ASSUME NEW p, Throw(p), max' # 0 => steps' <= max' + (exec.end - exec.begin)
  PROVE  Ledger'
  BY DEF Throw, Leave, Ledger, Running, Left

(* A jump anywhere.                                                        *)
LEMMA CheckJumpCounts ==
  ASSUME IInv, Countable, UNCHANGED cache, counted', NEW p \in Int, NEW r,
         CheckJump(p, counter, max', r), Tally(counter), max' \in Nat, steps' \in Nat,
         max' # 0 => steps' <= max' + (exec.end - exec.begin)
  PROVE  Ledger'
<1>1. exec \in Segments /\ counter \in Nat
  BY DEF IInv, TypeOK
<1>2. CASE counter >= max'
  <2>1. StopExecution(exec, p, counter, max')
    BY <1>2 DEF CheckJump, Spent
  <2> QED
    BY <1>1, <1>2, <2>1, StopExecutionCounts
<1>3. CASE ~ (counter >= max')
  <2>1. counter < max'
    BY <1>1, <1>3
  <2>2. CASE Within(exec, p) /\ EnterBlock(exec, p, counter, r)
    BY <1>1, <2>1, <2>2, EnterBlockCounts
  <2>3. CASE NewExecuteSegment(p, counter, max')
    <3>1. ASSUME NEW s \in Segments, Within(s, p), EnterBlock(s, p, counter, p)
          PROVE  Ledger'
      BY <1>1, <2>1, <3>1, EnterBlockCounts
    <3>2. CASE Throw(p)
      BY <3>2, ThrowCounts
    <3> QED
      BY <1>3, <2>3, <3>1, <3>2 DEF NewExecuteSegment, Spent
  <2> QED
    BY <1>3, <2>2, <2>3 DEF CheckJump, Spent
<1> QED
  BY <1>2, <1>3

(* A move within the segment: forwards by one, or anywhere while the limit *)
(* is not used.                                                            *)
LEMMA NextBlockCounts ==
  ASSUME IInv, Countable, UNCHANGED cache, counted', mode = "run", NEW len \in Int, NEW r,
         decoder + len \in exec.begin..exec.end, NextBlockUnchecked(len, r),
         Tally(counter), max' \in Nat,
         max' # 0 => steps' < max' + (decoder + len - exec.begin)
  PROVE  Ledger'
<1>1. exec \in Segments /\ decoder \in Int /\ counter \in Nat
  BY DEF IInv, TypeOK
<1>2. Count(Entry(exec, decoder + len)) \in Nat
  BY <1>1, CountFacts DEF IInv
<1>3. /\ mode' = "run" /\ exec' = exec /\ decoder' = decoder + len
      /\ counter' = counter + Count(Entry(exec, decoder + len))
  BY DEF NextBlockUnchecked, Plus
<1>4. Count(Entry(exec, decoder))' = Count(Entry(exec, decoder + len))
  BY <1>3 DEF Entry, Count
<1>5. Seen' = counter
  BY <1>1, <1>2, <1>3, <1>4 DEF Seen
<1>6. (max # 0 => steps < max + (decoder - exec.begin))'
  <2>1. exec.begin \in Int
    BY <1>1, DispatchAssumption
  <2>2. decoder' - exec'.begin = decoder + len - exec.begin
    BY <1>1, <1>3, <2>1
  <2> QED
    BY <2>2
<1>7. Running'
  BY <1>5, <1>6 DEF Running, Tally
<1> QED
  BY <1>3, <1>7 DEF Ledger, Left
------------------------------------------------------------------------------
(* The steps of the loop, while it counts.                                 *)
Accounted == IInv /\ PcAgrees /\ Ledger

(* Behind an instruction that goes on there is another entry, and one that *)
(* diverges is a block of its own.                                         *)
LEMMA Behind ==
  ASSUME IInv, NEW b \in {"function", "cond", "b", "bl", "jump", "call", "ret", "syscall"},
         Execute(b)
  PROVE  /\ decoder + 1 \in exec.begin..exec.end
         /\ b # "function" => Entry(exec, decoder).block = 0
<1>1. CacheRight
  BY DEF IInv
<1>2. /\ exec \in Segments /\ decoder \in exec.begin..exec.end
      /\ Entry(exec, decoder).bytecode = b
      /\ exec.begin \in Int /\ exec.end \in Int /\ decoder \in Int
  BY ExecuteFacts
<1>3. decoder < exec.end /\ (b # "function" => Entry(exec, decoder).block = 0)
  BY <1>1, <1>2, BytecodeFacts
<1> QED
  BY <1>2, <1>3

LEMMA MaxNat == ASSUME IInv PROVE max \in Nat
  BY DispatchAssumption DEF IInv, TypeOK

(* In the middle of a block the rest of the block gets shorter by what is  *)
(* executed.                                                               *)
LEMMA FunctionCounts ==
  ASSUME Fits, Countable, Accounted, counted, Function
  PROVE  Ledger'
<1>1. Execute("function") /\ max' = max
  BY DEF Function, NoCall
<1>2. CASE Throw(regs_pc)
  BY <1>1, <1>2, StepFacts, ThrowCounts DEF Accounted
<1>3. CASE NextInstr
  <2> DEFINE here == Entry(exec, decoder).block
             next == Entry(exec, decoder + 1).block
  <2>1. /\ mode = "run" /\ exec \in Segments /\ decoder \in Int /\ pc \in Int
        /\ UNCHANGED <<prog, cache, counted>> /\ exec.begin \in Int
    BY <1>1, ExecuteFacts DEF Accounted
  <2>2. exec' = exec /\ decoder' = decoder + 1 /\ mode' = "run" /\ counter' = counter /\ pc' = pc
    BY <1>3, <2>1 DEF NextInstr
  <2>3. decoder + 1 \in exec.begin..exec.end
    BY <1>1, Behind DEF Accounted
  <2>4. Entry(exec, decoder)' = Entry(exec, decoder + 1)
    BY <2>1, <2>2 DEF Entry
  <2>5. next \in Nat /\ Count(Entry(exec, decoder + 1)) = next + 1
    BY <2>1, <2>3, CountFacts DEF Accounted, IInv
  <2>6. here \in Nat /\ here >= next + 1 /\ (Plain => here = next + 1)
    <3>1. decoder \notin prog.patched
      BY <1>1, ExecuteFacts, BytecodeFacts DEF Accounted, IInv
    <3>2. pc = decoder + here
      BY <2>1, <3>1 DEF Accounted, PcAgrees
    <3>3. PcAgrees'
      BY <1>1, <1>3, NextInstrLocates DEF Accounted
    <3>4. here \in Nat
      BY <1>1, StepFacts DEF Accounted
    <3>5. CASE pc = decoder + 1 + next
      BY <2>1, <2>5, <3>2, <3>4, <3>5
    <3>6. CASE decoder + 1 \in prog.patched /\ pc = BlockEnd(prog, exec, decoder + 1)
      <4>1. decoder + 1 \in exec.begin..(exec.end - 1) /\ prog \in Programs
        <5>1. prog.patched \subseteq Addresses /\ prog \in Programs
              /\ exec.begin \in Int /\ exec.end \in Int
          BY <2>1, DispatchAssumption DEF Accounted, IInv, TypeOK
        <5>2. decoder + 1 \in Addresses => decoder + 1 < exec.end
          BY <2>1, <2>3, <5>1, EndOutside
        <5> QED
          BY <2>1, <2>3, <3>6, <5>1, <5>2
      <4>2. pc >= decoder + 1
        BY <2>1, <3>6, <4>1, BlockEndFacts
      <4>3. next = 0
        <5>1. CacheRight /\ decoder + 1 < exec.end
          BY <2>1, <4>1, DispatchAssumption DEF Accounted, IInv
        <5>2. Entry(exec, decoder + 1) = [bytecode |-> "syscallimm", block |-> 0]
          BY <2>1, <2>3, <3>6, <5>1, EntryFacts
        <5> QED
          BY <5>2
      <4> QED
        BY <2>1, <3>2, <3>4, <3>6, <4>2, <4>3 DEF Plain
    <3> QED
      BY <2>1, <2>2, <2>4, <3>3, <3>4, <3>5, <3>6 DEF PcAgrees
  <2>7. Count(Entry(exec, decoder))' = next + 1
    BY <2>4, <2>5 DEF Count
  <2>8. Seen \in Int /\ Seen' \in Int /\ Seen' >= Seen + 1 /\ (Plain => Seen' = Seen + 1)
    <3>1. counter = Seen + here + 1 /\ Seen \in Int
      BY <1>1, StepFacts DEF Accounted
    <3>2. Seen' = counter - (next + 1)
      BY <2>2, <2>7 DEF Seen
    <3> QED
      BY <2>5, <2>6, <3>1, <3>2
  <2>9. /\ Seen >= steps
        /\ Plain /\ steps < MaxSteps => Seen = steps
        /\ max # 0 => steps < max + (decoder - exec.begin)
    BY <2>1 DEF Accounted, Ledger, Running
  <2>10. /\ steps' \in Nat /\ steps \in Nat /\ steps' <= steps + 1
         /\ steps' < MaxSteps => steps < MaxSteps /\ steps' = steps + 1
    BY <1>1, StepFacts DEF Accounted
  <2>11. Plain' = Plain
    BY <2>1 DEF Plain
  <2>12. max \in Nat
    BY MaxNat DEF Accounted
  <2>13. Running'
    BY <1>1, <2>1, <2>2, <2>8, <2>9, <2>10, <2>11, <2>12 DEF Running
  <2> QED
    BY <2>2, <2>13 DEF Ledger, Left
<1> QED
  BY <1>1, <1>2, <1>3 DEF Function

(* A branch that is taken looks at the limit, one that is not moves on.    *)
LEMMA BranchCounts ==
  ASSUME Countable, Accounted, counted, CondBranch \/ B \/ BL
  PROVE  Ledger'
<1>1. PICK b \in {"cond", "b", "bl"} :
        /\ Execute(b) /\ max' = max
        /\ PerformBranch(Offset) \/ (b = "cond" /\ NextBlockUnchecked(1, regs_pc))
  BY DEF CondBranch, B, BL, NoCall
<1>2. /\ IInv /\ counted' /\ cache' = cache /\ mode = "run" /\ exec.begin \in Int
      /\ decoder \in Int /\ pc \in Int /\ counter \in Nat /\ max' \in Nat
  BY <1>1, ExecuteFacts, StepFacts, MaxNat DEF Accounted
<1>3. /\ Tally(counter) /\ steps' \in Nat
      /\ max' # 0 => steps' <= max' + (exec.end - exec.begin)
  BY <1>1, StepFacts DEF Accounted
<1>4. CASE b = "cond" /\ NextBlockUnchecked(1, regs_pc)
  <2>1. decoder + 1 \in exec.begin..exec.end
    BY <1>1, <1>4, Behind DEF Accounted
  <2>2. steps \in Nat /\ steps' <= steps + 1
    BY <1>1, StepFacts DEF Accounted
  <2>3. max' # 0 => steps' < max' + (decoder + 1 - exec.begin)
    BY <1>1, <1>2, <1>3, <2>2 DEF Accounted, Ledger, Running
  <2> QED
    BY <1>2, <1>3, <1>4, <2>1, <2>3, NextBlockCounts
<1>5. CASE PerformBranch(Offset)
  <2>1. Offset \in Int /\ decoder + Offset \in exec.begin..exec.end
    BY <1>1, BranchTarget DEF Accounted
  <2>2. CASE counter < max /\ NextBlockUnchecked(Offset, regs_pc)
    <3>1. steps' < max' + (decoder + Offset - exec.begin)
      BY <1>1, <1>2, <1>3, <2>1, <2>2 DEF Tally
    <3> QED
      BY <1>2, <1>3, <2>1, <2>2, <3>1, NextBlockCounts
  <2>3. CASE CheckJump(pc + Offset, counter, max, regs_pc)
    <3>1. pc + Offset \in Int /\ CheckJump(pc + Offset, counter, max', regs_pc)
      BY <1>1, <1>2, <2>1, <2>3
    <3> QED
      BY <1>2, <1>3, <3>1, CheckJumpCounts
  <2> QED
    BY <1>5, <2>2, <2>3 DEF PerformBranch
<1> QED
  BY <1>1, <1>4, <1>5

LEMMA JumpCounts ==
  ASSUME Countable, Accounted, counted, Jirl \/ JirlLink \/ JirlReturn
  PROVE  Ledger'
<1>1. PICK b \in {"jump", "call", "ret"}, t \in Targets \cup {ra} :
        Execute(b) /\ max' = max /\ CheckJump(t, counter, max, regs_pc)
  BY DEF Jirl, JirlLink, JirlReturn, NoCall
<1>2. t \in Int /\ IInv /\ cache' = cache /\ max' \in Nat
  BY <1>1, ExecuteFacts, DispatchAssumption, MaxNat DEF Accounted
<1>3. /\ Tally(counter) /\ steps' \in Nat /\ counted'
      /\ max' # 0 => steps' <= max' + (exec.end - exec.begin)
  BY <1>1, StepFacts DEF Accounted
<1> QED
  BY <1>1, <1>2, <1>3, CheckJumpCounts

(* A handler may stop the machine, which sets the limit to 0.              *)
LEMMA CallCounts ==
  ASSUME Countable, Accounted, counted, Syscall \/ SyscallImm
  PROVE  Ledger'
<1>1. PICK b \in {"syscall", "syscallimm"} :
        /\ Execute(b)
        /\ \/ HandlerThrows
           \/ \E m \in {max, 0} : \E r \in {pc} \cup {t - 1 : t \in Targets} :
                /\ Handled(m, r)
                /\ \/ b = "syscall" /\ AfterCall(m, r)
                   \/ CheckJump(ra, counter, m, pc)
  BY DEF Syscall, SyscallImm
<1>2. /\ IInv /\ cache' = cache /\ mode = "run" /\ exec.begin \in Int /\ decoder \in Int
      /\ pc \in Int /\ ra \in Int /\ counter \in Nat /\ max \in Nat
  BY <1>1, ExecuteFacts, MaxNat DEF Accounted
<1>3. /\ Tally(counter) /\ steps' \in Nat /\ counted'
      /\ max # 0 => steps' <= max + (exec.end - exec.begin)
  BY <1>1, StepFacts DEF Accounted
<1>4. CASE HandlerThrows
  BY <1>3, <1>4, ThrowCounts DEF HandlerThrows
<1>5. ASSUME NEW m \in {max, 0}, NEW r \in {pc} \cup {t - 1 : t \in Targets}, Handled(m, r)
      PROVE  /\ max' = m /\ max' \in Nat /\ r \in Int /\ r + 1 \in Int
             /\ max' # 0 => steps' <= max' + (exec.end - exec.begin)
  BY <1>2, <1>3, <1>5, DispatchAssumption DEF Handled
<1>6. ASSUME NEW m \in {max, 0}, NEW r \in {pc} \cup {t - 1 : t \in Targets}, Handled(m, r),
             CheckJump(ra, counter, m, pc)
      PROVE  Ledger'
  BY <1>2, <1>3, <1>5, <1>6, CheckJumpCounts
<1>7. ASSUME NEW m \in {max, 0}, NEW r \in {pc} \cup {t - 1 : t \in Targets}, Handled(m, r),
             b = "syscall", AfterCall(m, r)
      PROVE  Ledger'
  <2>1. CASE CheckJump(r + 1, counter, m, r)
    BY <1>2, <1>3, <1>5, <1>7, <2>1, CheckJumpCounts
  <2>2. CASE m # 0 /\ NextBlockUnchecked(1, r)
    <3>1. decoder + 1 \in exec.begin..exec.end
      BY <1>1, <1>7, Behind DEF Accounted
    <3>2. steps \in Nat /\ steps' <= steps + 1
      BY <1>1, StepFacts DEF Accounted
    <3>3. max' # 0 => steps' < max' + (decoder + 1 - exec.begin)
      BY <1>2, <1>3, <1>5, <1>7, <2>2, <3>2 DEF Accounted, Ledger, Running
    <3>4. NextBlockUnchecked(1, r) /\ max' \in Nat /\ 1 \in Int
      BY <1>5, <1>7, <2>2
    <3> QED
      BY <1>2, <1>3, <3>1, <3>3, <3>4, NextBlockCounts
  <2> QED
    BY <1>7, <2>1, <2>2 DEF AfterCall
<1> QED
  BY <1>1, <1>4, <1>6, <1>7

LEMMA EndCounts ==
  ASSUME Countable, Accounted, counted, Stop \/ Invalid
  PROVE  Ledger'
<1>1. CASE Stop
  <2>1. Execute("stop") /\ max' = max /\ mode' = "host" /\ result' = "stopped"
        /\ mcounter' = counter /\ exec' = exec
    BY <1>1 DEF Stop, NoCall, Leave
  <2>2. /\ Tally(counter)
        /\ max' # 0 => steps' <= max' + (exec.end - exec.begin)
    BY <2>1, StepFacts DEF Accounted
  <2> QED
    BY <2>1, <2>2 DEF Ledger, Running, Left, Tally
<1>2. CASE Invalid
  BY <1>2, StepFacts, ThrowCounts DEF Invalid, NoCall, Accounted
<1> QED
  BY <1>1, <1>2

(* A run starts with nothing counted, even if its limit is 0.              *)
LEMMA SimulateCounts ==
  ASSUME Countable, Accounted, Simulate
  PROVE  Ledger'
<1>1. PICK m \in Limits : Begin(m) /\ counted'
  BY DEF Simulate
<1>2. /\ IInv /\ cache' = cache /\ max' = m /\ steps' = 0 /\ m \in Nat
      /\ exec \in Segments /\ regs_pc \in Int
  BY <1>1, DispatchAssumption DEF Begin, Accounted, IInv, TypeOK
<1>3. Tally(0) /\ (max' # 0 => 0 < max')
  BY <1>2 DEF Tally
<1>4. ASSUME NEW s \in Segments, Within(s, regs_pc), EnterBlock(s, regs_pc, 0, regs_pc)
      PROVE  Ledger'
  BY <1>1, <1>2, <1>3, <1>4, EnterBlockCounts
<1>5. ASSUME NEW s \in Segments
      PROVE  s.end - s.begin \in Nat
  BY <1>5, DispatchAssumption
<1>6. ASSUME NEW s \in Segments, StopExecution(s, regs_pc, 0, m), Spent(0, m)
      PROVE  Ledger'
  BY <1>1, <1>2, <1>3, <1>5, <1>6, StopExecutionCounts DEF Spent
<1>7. CASE Throw(regs_pc)
  BY <1>2, <1>5, <1>7, ThrowCounts
<1> QED
  BY <1>1, <1>2, <1>4, <1>6, <1>7 DEF Begin, NewExecuteSegment

LEMMA NextCounts ==
  ASSUME Fits, Countable, Accounted, [Next]_vars
  PROVE  Ledger'
<1>1. CASE UNCHANGED vars \/ HostJump
  <2>1. UNCHANGED <<prog, cache, exec, mcounter, mode, result, decoder, counter, max, counted, steps>>
    BY <1>1 DEF vars, HostJump
  <2> QED
    BY <2>1 DEF Accounted, Ledger, Running, Left, Seen, Entry, Count, Plain
<1>2. CASE Loop /\ counted
  BY <1>2, FunctionCounts, BranchCounts, JumpCounts, CallCounts, EndCounts DEF Loop
<1>3. CASE Loop /\ ~ counted
  <2>1. counted' = counted
    BY <1>3 DEF Loop, Function, CondBranch, B, BL, Jirl, JirlLink, JirlReturn, Syscall,
                SyscallImm, Stop, Invalid, Execute
  <2> QED
    BY <1>3, <2>1 DEF Ledger, Running, Left
<1>4. CASE Simulate
  BY <1>4, SimulateCounts
<1>5. CASE SimulateInaccurate
  BY <1>5 DEF SimulateInaccurate, Ledger, Running, Left
<1> QED
  BY <1>1, <1>2, <1>3, <1>4, <1>5 DEF Next

(* The account is kept in every reachable state.                           *)
THEOREM AccountKept == ASSUME Fits, Countable PROVE Spec => []Accounted
<1>1. Init => Accounted
  <2>1. Init => Ledger
    BY DEF Init, Ledger, Running, Left
  <2> QED
    BY <2>1, InitIInv DEF Accounted
<1>2. Accounted /\ [Next]_vars => Accounted'
  BY NextKeeps, NextCounts DEF Keeps, Accounted
<1> QED
  BY <1>1, <1>2, PTL DEF Spec

(* The count is right while the loop runs and when simulate() returns      *)
(* (threaded_dispatch.cpp:25, :63), if every block can be counted.         *)
THEOREM CounterCorrect == ASSUME Fits, Countable PROVE Spec => []CounterExact
<1>1. Accounted => CounterExact
  <2> SUFFICES ASSUME Accounted PROVE CounterExact
    OBVIOUS
  <2>1. mode \in {"run", "host"}
    BY DEF Accounted, IInv, TypeOK
  <2> QED
    BY <2>1 DEF Accounted, Ledger, Running, Left, CounterExact, Seen
<1> QED
  BY AccountKept, <1>1, PTL

(* The limit is overrun by at most the length of a segment, and a run that *)
(* was cut off had used it (threaded_dispatch.cpp:28, :184).               *)
THEOREM LimitCorrect == ASSUME Fits, Countable PROVE Spec => []LimitKept
<1>1. Accounted => LimitKept
  <2> SUFFICES ASSUME Accounted PROVE LimitKept
    OBVIOUS
  <2>1. mode \in {"run", "host"} /\ exec \in Segments /\ steps \in Nat /\ decoder \in Int
    BY DEF Accounted, IInv, TypeOK
  <2>2. exec.begin \in Int /\ exec.end \in Int /\ max \in Nat
    BY <2>1, DispatchAssumption, MaxNat DEF Accounted
  <2>3. mode = "run" => decoder \in exec.begin..exec.end
    BY DEF Accounted, IInv, DecoderInSegment
  <2>4. mode = "run" => Seen \in Int
    <3>1. ASSUME mode = "run"
          PROVE  Seen \in Int
      <4>1. counter \in Nat /\ Count(Entry(exec, decoder)) \in Int
        BY <2>1, <2>3, <3>1, CountFacts DEF Accounted, IInv, TypeOK
      <4> QED
        BY <3>1, <4>1 DEF Seen
    <3> QED
      BY <3>1
  <2> QED
    BY <2>1, <2>2, <2>3, <2>4 DEF Accounted, Ledger, Running, Left, LimitKept
<1> QED
  BY AccountKept, <1>1, PTL
=============================================================================
