------------------------------- MODULE Dispatch -------------------------------
(***************************************************************************)
(* The interpreter loop: decoder_cache.cpp, which decodes a segment into a *)
(* cache of entries, and threaded_dispatch.cpp and                         *)
(* threaded_inaccurate_dispatch.cpp, which run it.                         *)
(*                                                                         *)
(* A block is a run of instructions up to the first one that diverges.     *)
(* The loop counts the whole block when it enters it, and moves pc to the  *)
(* diverging instruction, so that pc is ahead of the entry `decoder` that  *)
(* is executing; registers().pc is only written at system calls and exits. *)
(* The limit on the number of instructions is looked at only when a jump   *)
(* or a branch is taken.                                                   *)
(*                                                                         *)
(* One address is one instruction of 4 bytes.                              *)
(***************************************************************************)
EXTENDS Integers

CONSTANTS
  Programs,   (* records: code, from addresses to instructions with an op  *)
              (* and, for direct branches, the target `to`; and patched,   *)
              (* the functions a native implementation replaces            *)
  Segments,   (* the execute segments, records with begin and end          *)
  Targets,    (* the addresses computed jumps, handlers and the host use   *)
  BlockMod,   (* 2^14: block_bytes is a uint16_t                           *)
  CountMod,   (* 2^8: instruction_count() is a uint8_t                     *)
  Limits,     (* the limits given to simulate()                            *)
  Unlimited,  (* UINT64_MAX                                                *)
  MaxSteps    (* bound on the history variable steps                       *)

Addresses == UNION {s.begin..(s.end - 1) : s \in Segments}

Branches == {"cond", "b", "bl"}
Diverging == Branches \cup {"jump", "call", "ret", "syscall", "break"}
Ops == Diverging \cup {"function", "stop", "syscallimm"}
Bytecodes == (Ops \ {"break"}) \cup {"INVALID"}

ASSUME DispatchAssumption ==
  /\ \A s \in Segments : s.begin \in Int /\ s.end \in Int /\ s.begin < s.end
  /\ \A s, t \in Segments : s = t \/ s.end < t.begin \/ t.end < s.begin
  /\ \A p \in Programs :
       /\ p.code \in [Addresses -> [op : Ops, to : Int]]
       /\ p.patched \subseteq Addresses
  /\ Targets \subseteq Int
  /\ BlockMod \in Nat \ {0} /\ CountMod \in Nat \ {0}
  /\ Unlimited \in Nat /\ MaxSteps \in Nat /\ Limits \subseteq 0..(Unlimited - 1)

VARIABLES
  prog,      (* the program: the bytes of the segments                     *)
  cache,     (* the decoder cache of each segment                          *)
  exec,      (* m_exec, and the local exec                                 *)
  regs_pc,   (* registers().pc                                             *)
  ra,        (* register RA                                                *)
  mcounter,  (* m_counter                                                  *)
  mmax,      (* m_max_instructions                                         *)
  mode,      (* "run" in the loop, else "host"                             *)
  result,    (* how the last run ended                                     *)
  pc, decoder, counter, max,  (* the locals of the loop                    *)
  counted,   (* simulate(); otherwise simulate_inaccurate()                *)
  steps      (* history: instructions executed since simulate() began, up  *)
             (* to MaxSteps                                                *)

vars == <<prog, cache, exec, regs_pc, ra, mcounter, mmax, mode, result,
          pc, decoder, counter, max, counted, steps>>
------------------------------------------------------------------------------
Within(s, a) == s.begin <= a /\ a < s.end

(* The first diverging instruction from a on, or the end of the segment.   *)
BlockEnd(p, s, a) ==
  CHOOSE b \in a..s.end :
    /\ b = s.end \/ p.code[b].op \in Diverging
    /\ \A c \in a..(b - 1) : p.code[c].op \notin Diverging

(* determine_bytecode and optimize_bytecode.  BREAK is a plain function    *)
(* for the loop although it ends a block.                                  *)
Bytecode_AnyTarget(i, s) == IF i.op = "break" THEN "function" ELSE i.op
Bytecode(i, s) ==
  IF i.op \in Branches /\ ~Within(s, i.to) THEN "INVALID"
  ELSE IF i.op = "break" THEN "function" ELSE i.op

Sentinel_Missing == [bytecode |-> "undefined", block |-> 0]
Sentinel == [bytecode |-> "INVALID", block |-> 0]

(* populate_decoder_cache, and the entries patch() then overwrites.        *)
Populate(p, s) ==
  [a \in s.begin..s.end |->
     IF a = s.end THEN Sentinel
     ELSE IF a \in p.patched THEN [bytecode |-> "syscallimm", block |-> 0]
     ELSE [bytecode |-> Bytecode(p.code[a], s),
           block    |-> (BlockEnd(p, s, a) - a) % BlockMod]]

(* What the loop finds at an address; outside the cache it is not defined. *)
Entry(s, a) ==
  IF a \in s.begin..s.end THEN cache[s][a] ELSE [bytecode |-> "undefined", block |-> 0]

Count_NoDiverging(e) == e.block % CountMod
Count(e) == (e.block + 1) % CountMod

Init ==
  /\ prog \in Programs
  /\ cache = [s \in Segments |-> Populate(prog, s)]
  /\ exec \in Segments
  /\ regs_pc \in Targets /\ ra = 0
  /\ mcounter = 0 /\ mmax = 0
  /\ mode = "host" /\ result = "none"
  /\ pc = 0 /\ decoder = 0 /\ counter = 0 /\ max = 0
  /\ counted = FALSE /\ steps = 0
------------------------------------------------------------------------------
(* The ways to go on from an instruction.  c is the counter so far, m the  *)
(* limit, and r what registers().pc holds if the loop goes on.             *)

Spent(c, m) == IF counted' THEN c >= m ELSE m = 0
Plus(c, e) == IF counted' THEN c + Count(e) ELSE c

(* continue_segment: enter the block at p of segment s.                    *)
EnterBlock(s, p, c, r) ==
  /\ decoder' = p
  /\ pc' = p + Entry(s, p).block
  /\ counter' = Plus(c, Entry(s, p))
  /\ exec' = s /\ regs_pc' = r
  /\ mode' = "run"
  /\ UNCHANGED <<mcounter, result>>

(* The loop is left with the program counter p, and its locals are gone.   *)
Leave(how, p) ==
  /\ mode' = "host" /\ result' = how /\ regs_pc' = p
  /\ pc' = 0 /\ decoder' = 0 /\ counter' = 0

(* An exception: the counter is not stored.                                *)
Throw(p) == Leave("exception", p) /\ UNCHANGED <<exec, mcounter>>

(* stop_execution; simulate() returns max_counter == 0.                    *)
StopExecution(s, p, c, m) ==
  /\ Leave(IF m = 0 THEN "stopped" ELSE "limit", p)
  /\ mcounter' = IF counted' THEN c ELSE mcounter
  /\ exec' = s

(* new_execute_segment.                                                    *)
NewExecuteSegment(p, c, m) ==
  \/ \E s \in Segments :
       /\ Within(s, p)
       /\ IF Spent(c, m) THEN StopExecution(s, p, c, m) ELSE EnterBlock(s, p, c, p)
  \/ (\A s \in Segments : ~Within(s, p)) /\ Throw(p)

CheckJump(p, c, m, r) ==
  IF Spent(c, m) THEN StopExecution(exec, p, c, m)
  ELSE IF Within(exec, p) THEN EnterBlock(exec, p, c, r)
  ELSE NewExecuteSegment(p, c, m)

(* NEXT_BLOCK_UNCHECKED: pc and decoder move by the same distance.         *)
NextBlockUnchecked_ForgetsBlock(len, r) ==
  /\ decoder' = decoder + len
  /\ pc' = pc + len
  /\ counter' = Plus(counter, Entry(exec, decoder + len))
  /\ regs_pc' = r
  /\ UNCHANGED <<exec, mcounter, mode, result>>
NextBlockUnchecked(len, r) ==
  /\ decoder' = decoder + len
  /\ pc' = pc + len + Entry(exec, decoder + len).block
  /\ counter' = Plus(counter, Entry(exec, decoder + len))
  /\ regs_pc' = r
  /\ UNCHANGED <<exec, mcounter, mode, result>>

PerformBranch_Unchecked(len) == NextBlockUnchecked(len, regs_pc)
PerformBranch(len) ==
  IF ~counted \/ counter < max THEN NextBlockUnchecked(len, regs_pc)
  ELSE CheckJump(pc + len, counter, max, regs_pc)

(* NEXT_INSTR: the next instruction of the same block.                     *)
NextInstr ==
  /\ decoder' = decoder + 1
  /\ UNCHANGED <<exec, regs_pc, mcounter, mode, result, pc, counter>>
------------------------------------------------------------------------------
(* The loop executes an entry with this bytecode.                          *)
Execute(bytecode) ==
  /\ mode = "run"
  /\ Entry(exec, decoder).bytecode = bytecode
  /\ steps' = IF counted /\ steps < MaxSteps THEN steps + 1 ELSE steps
  /\ UNCHANGED <<prog, cache, counted>>

NoCall == UNCHANGED <<max, mmax>>
NoLink == UNCHANGED ra

(* The distance to the target of the branch that is executing.             *)
Offset == prog.code[decoder].to - decoder

(* Every instruction without a part of its own in this model: it may fault.*)
Function ==
  /\ Execute("function") /\ NoLink /\ NoCall
  /\ NextInstr \/ Throw(regs_pc)

CondBranch ==
  /\ Execute("cond") /\ NoLink /\ NoCall
  /\ PerformBranch(Offset) \/ NextBlockUnchecked(1, regs_pc)

B == Execute("b") /\ NoLink /\ NoCall /\ PerformBranch(Offset)

BL == Execute("bl") /\ ra' = pc + 1 /\ NoCall /\ PerformBranch(Offset)

(* JIRL with rd = 0, with rd = RA, and the return through RA.              *)
Jirl ==
  /\ Execute("jump") /\ NoLink /\ NoCall
  /\ \E t \in Targets : CheckJump(t, counter, max, regs_pc)
JirlLink ==
  /\ Execute("call") /\ ra' = pc + 1 /\ NoCall
  /\ \E t \in Targets : CheckJump(t, counter, max, regs_pc)
JirlReturn ==
  Execute("ret") /\ NoLink /\ NoCall /\ CheckJump(ra, counter, max, regs_pc)

(* What a system call handler may do: return, send the guest to t, as      *)
(* signal delivery and thread switches do by storing t - 1, or call stop().*)
(* m is m_max_instructions and r registers().pc after it.                  *)
Handled(m, r) == max' = m /\ mmax' = m /\ r \in {pc} \cup {t - 1 : t \in Targets}
HandlerThrows == max' = max /\ mmax' = max /\ Throw(pc)

AfterCall_ForgetsStep(m, r) ==
  IF m = 0 \/ r # pc THEN CheckJump(r, counter, m, r) ELSE NextBlockUnchecked(1, r)
AfterCall(m, r) ==
  IF m = 0 \/ r # pc THEN CheckJump(r + 1, counter, m, r) ELSE NextBlockUnchecked(1, r)

Syscall ==
  /\ Execute("syscall") /\ NoLink
  /\ \/ \E r \in {pc} \cup {t - 1 : t \in Targets} : Handled(max, r) /\ AfterCall(max, r)
     \/ Handled(0, pc) /\ AfterCall(0, pc)
     \/ HandlerThrows

(* SYSCALL with an immediate: a native function, which returns to RA.      *)
SyscallImm ==
  /\ Execute("syscallimm") /\ NoLink
  /\ \/ \E m \in {max, 0} : Handled(m, pc) /\ CheckJump(ra, counter, m, pc)
     \/ HandlerThrows

Stop ==
  /\ Execute("stop") /\ NoLink /\ NoCall
  /\ Leave("stopped", pc + 1)
  /\ mcounter' = IF counted THEN counter ELSE mcounter
  /\ UNCHANGED exec

Invalid ==
  /\ Execute("INVALID") /\ NoLink /\ NoCall
  /\ Throw(pc - Entry(exec, decoder).block)

(* The dispatch thread.                                                    *)
Loop == Function \/ CondBranch \/ B \/ BL \/ Jirl \/ JirlLink \/ JirlReturn
          \/ Syscall \/ SyscallImm \/ Stop \/ Invalid
------------------------------------------------------------------------------
(* Entering the loop from the host at registers().pc.                      *)
Begin(m) ==
  /\ mode = "host"
  /\ max' = m /\ steps' = 0
  /\ IF Within(exec, regs_pc) THEN EnterBlock(exec, regs_pc, 0, regs_pc)
     ELSE NewExecuteSegment(regs_pc, 0, m)
  /\ UNCHANGED <<prog, cache, ra>>

Simulate == counted' = TRUE /\ mmax' = Unlimited /\ \E m \in Limits : Begin(m)
SimulateInaccurate == counted' = FALSE /\ UNCHANGED mmax /\ Begin(Unlimited)

(* The host sets registers().pc: CPU::jump, vmcall.                        *)
HostJump ==
  /\ mode = "host"
  /\ regs_pc' \in Targets
  /\ UNCHANGED <<prog, cache, exec, ra, mcounter, mmax, mode, result,
                 pc, decoder, counter, max, counted, steps>>

Next == Loop \/ Simulate \/ SimulateInaccurate \/ HostJump

Spec == Init /\ [][Next]_vars

(* The loop is one thread: it is not suspended for ever.                   *)
FairSpec == Spec /\ WF_vars(Loop)
------------------------------------------------------------------------------
TypeOK ==
  /\ prog \in Programs
  /\ \A s \in Segments : \A a \in s.begin..s.end :
       /\ cache[s][a].bytecode \in Bytecodes
       /\ cache[s][a].block \in 0..(BlockMod - 1)
  /\ exec \in Segments
  /\ {regs_pc, ra, pc, decoder} \subseteq Int
  /\ {mcounter, counter, steps} \subseteq Nat
  /\ mmax \in Limits \cup {0, Unlimited} /\ max \in Limits \cup {0, Unlimited}
  /\ mode \in {"run", "host"}
  /\ result \in {"none", "exception", "stopped", "limit"}
  /\ counted \in BOOLEAN

(* The loop never leaves the decoder cache of its segment: neither a branch*)
(* with a target elsewhere nor the end of the code gets it out, because    *)
(* optimize_bytecode rejects the one (threaded_rewriter.cpp:37) and the    *)
(* sentinel ends the other (decoder_cache.cpp:254).                        *)
DecoderInSegment == mode = "run" => decoder \in exec.begin..exec.end

(* pc, which is only moved at blocks, and decoder, which is moved at every *)
(* instruction, mean the same place: RECONSTRUCT_PC() is the address of the*)
(* instruction that executes (threaded_dispatch.cpp:10).  The exception is *)
(* a patched function that the guest falls into, over the padding before   *)
(* it for one: patch() says that it is a block of its own, but pc is at the*)
(* end of the block it was cut out of (machine_accelerate.cpp:42).         *)
PcAgrees ==
  mode = "run" =>
    \/ pc = decoder + Entry(exec, decoder).block
    \/ decoder \in prog.patched /\ pc = BlockEnd(prog, exec, decoder)

(* Every instruction counts itself and nothing else.                       *)
Plain ==
  /\ prog.patched = {}
  /\ \A a \in Addresses : prog.code[a].op \notin {"break", "stop", "syscallimm"}

(* The counter is ahead of the instructions executed by exactly the rest of*)
(* the block, and what simulate() reports is what was executed.  A stop or *)
(* a native call in the middle of a block counts the rest of the block     *)
(* too, never less than was executed (threaded_dispatch.cpp:25, :63).      *)
Seen == IF mode = "run" THEN counter - Count(Entry(exec, decoder)) ELSE mcounter

CounterExact ==
  counted /\ (mode = "run" \/ result \in {"stopped", "limit"}) =>
    /\ Seen >= steps
    /\ Plain /\ steps < MaxSteps => Seen = steps

(* The limit: it is overrun by no more than the instructions of a segment, *)
(* however the guest branches, and a run that was cut off had used it      *)
(* (threaded_dispatch.cpp:28, :184).                                       *)
LimitKept ==
  counted /\ max # 0 =>
    /\ steps <= max + (exec.end - exec.begin)
    /\ mode = "host" /\ result = "limit" /\ Plain /\ steps < MaxSteps => steps >= max

(* Every simulate() with a limit returns (threaded_dispatch.cpp:184).      *)
Terminates == (mode = "run" /\ counted) ~> (mode = "host")

(* The loop is an implementation of the instruction at a time machine.     *)
G == INSTANCE Guest WITH
       home <- exec,
       at <- IF mode = "run" THEN decoder ELSE regs_pc
ImplementsGuest == G!Spec
==============================================================================
