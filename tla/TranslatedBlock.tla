--------------------------- MODULE TranslatedBlock ---------------------------
(***************************************************************************)
(* The control of the binary translator: how tr_translate.cpp cuts a       *)
(* segment into blocks and finds the places jumps lead to, how emit() of   *)
(* tr_emit.cpp makes a C function of a block, and how the interpreter loop *)
(* enters and leaves the functions.                                        *)
(*                                                                         *)
(* A function keeps the registers it names in local variables.  They are   *)
(* loaded when it is called, stored when it is left, and stored and loaded *)
(* around what the interpreter's handlers do for it; of two handlers in a  *)
(* row nothing is loaded and stored in between.  The instruction counter   *)
(* is brought up to date at labels and jumps only.                         *)
(*                                                                         *)
(* What an emitted instruction computes is in Emitted and VectorEngines.   *)
(* Not modelled: handlers that throw through compiled code, tracing, and   *)
(* the variants without bounds checks.  The limit on instructions shows as *)
(* the host's being able to stop the loop where it is looked at.           *)
(***************************************************************************)
EXTENDS Integers

CONSTANTS
  Size, Programs, Others,  (* see Program                                  *)
  Options,    (* split: ITS_TIME_TO_SPLIT, the size from which a block may *)
              (* end; max: translate_instr_max                             *)
  Cached,     (* the registers a function may have in local variables      *)
  Start       (* memory.start_address(), the entry of the program          *)

Addresses == 0..(Size - 1)
Regs == {"ra", "a0", "t0"}
SysRegs == {"a0"}   (* A0..A7; A0 and A1 return results                    *)

Branches == {"branch", "jump", "call"}
Stopping == {"indirect", "ret", "syscall", "native", "stop"}
Flushing == Branches \cup Stopping
Emits == {"emitted", "access", "branch", "call", "indirect", "ret"}

ASSUME TranslatedAssumption ==
  /\ Size \in Nat \ {0} /\ Options \subseteq [split : Nat, max : Nat]

VARIABLES
  prog,      (* the program                                                *)
  emitted,   (* the C code, by address: see Emit                           *)
  where,     (* the machine is in the "loop", in a "block" of C code, in   *)
             (* the "host", or an exception has been "raised"              *)
  fn,        (* the base of the block whose function was called last       *)
  at,        (* registers().pc, or the place in the function               *)
  cpu,       (* registers()                                                *)
  local,     (* the local variables of the function                        *)
  other,     (* the registers and the pc of the thread that waits          *)
  uncounted  (* history: instructions the last function called has         *)
             (* executed but not added to the counter                      *)

vars == <<prog, emitted, where, fn, at, cpu, local, other, uncounted>>
------------------------------------------------------------------------------
(* binary_translate.                                                       *)

(* A block ends behind the first instruction that does not go on, from     *)
(* split instructions on.                                                  *)
Base(p, split) ==
  LET base[a \in Addresses] ==
        IF a = 0 THEN 0
        ELSE LET b == base[a - 1]
             IN  IF a - b >= split /\ p[a - 1].op \in Stopping THEN a ELSE b
  IN  base

Block(base, a) == {b \in Addresses : base[b] = base[a]}
End(base, a) == CHOOSE e \in 1..Size : base[e - 1] = base[a] /\ (e = Size \/ base[e] # base[a])

Scanned(base, a, max) == base[a] < max
IsTranslated(base, a, max) == End(base, a) < max

(* What is behind padding or a return may be the start of a function.      *)
Seen(p, base) ==
  LET seen[a \in Addresses] ==
        LET before == IF base[a] = a THEN "none" ELSE seen[a - 1]
        IN  CASE p[a].op \in Branches -> "none"
              [] p[a].op = "ret" -> IF before = "nop" THEN "none" ELSE "ret"
              [] p[a].op = "nop" -> "nop"
              [] p[a].op \notin Branches \cup {"ret", "nop"} -> "none"
  IN  seen
Speculated(p, base, seen, a) ==
  /\ base[a] # a
  /\ p[a].op \notin Branches \cup {"nop"}
  /\ seen[a - 1] = "nop" \/ (seen[a - 1] = "ret" /\ p[a].op # "ret")

LocalJumps(p, base, seen, a) ==
  {p[b].to : b \in {c \in Block(base, a) : p[c].op \in Branches /\ p[c].to \in Block(base, a)}}
  \cup {b \in Block(base, a) : Speculated(p, base, seen, b)}

GlobalJumps(p, base, max) ==
  LET scanned == {a \in Addresses : Scanned(base, a, max) /\ p[a].op \in Branches}
  IN  {Start, 0}
      \cup {p[a].to : a \in {b \in scanned : p[b].to \notin Block(base, b)}}
      \cup {a + 1 : a \in {b \in scanned : p[b].op = "call"}}
------------------------------------------------------------------------------
(* emit(), for every address:                                              *)
(*   base, end  the block it is in, and its end                            *)
(*   label      it has a label, and a case of the jump table               *)
(*   mapped     the loop calls the function here                           *)
(*   store, load   a handler is called between STORE_REGS and LOAD_REGS    *)
(*   flush      what is added to ic behind its label                       *)
(*   pending    what is not added to ic when control gets behind it        *)
(*   used       the registers the function has in local variables          *)

(* last_fallback_pc is the instruction before, and no label is in between. *)
Elided_AtLabel(p, block, labels, a) ==
  a \in block /\ a - 1 \in block /\ p[a].op = "fallback" /\ p[a - 1].op = "fallback"
Elided(p, block, labels, a) ==
  /\ a \in block /\ a - 1 \in block /\ a \notin labels
  /\ p[a].op = "fallback" /\ p[a - 1].op = "fallback"

(* A label sets the count of the instructions before it to 0.              *)
Resets_NotAtLabels(p, base, labels, a) == a = base \/ p[a - 1].op \in Flushing
Resets(p, base, labels, a) == a = base \/ a \in labels \/ p[a - 1].op \in Flushing

(* m_instr_counter, including the instruction.                             *)
Counter(p, base, labels) ==
  LET counter[a \in Addresses] ==
        IF Resets(p, base[a], labels, a) THEN 1 ELSE counter[a - 1] + 1
  IN  counter

Names(i) ==
  CASE i.op \in {"emitted", "access"} -> {i.rd, i.rj}
    [] i.op = "branch" -> {i.rj}
    [] i.op \in {"call", "indirect", "ret"} -> {"ra"}
    [] i.op \notin Emits -> {}

Emit(p, options) ==
  LET max == options.max
      base == [a \in Addresses |-> Base(p, options.split)[a]]
      seen == [a \in Addresses |-> Seen(p, base)[a]]
      jumps == [a \in Addresses |-> LocalJumps(p, base, seen, a)]
      labels == GlobalJumps(p, base, max) \cup UNION {jumps[a] : a \in Addresses}
      counter == Counter(p, base, labels)
  IN  [a \in Addresses |->
        LET block == Block(base, a)
        IN  [base    |-> base[a],
             end     |-> End(base, a),
             label   |-> a \in labels,
             mapped  |-> a \in labels /\ IsTranslated(base, a, max) /\ jumps[a] # {},
             store   |-> p[a].op = "fallback" /\ ~Elided(p, block, labels, a),
             load    |-> p[a].op = "fallback" /\ ~Elided(p, block, labels, a + 1),
             flush   |-> IF p[a].op \in Flushing THEN counter[a] ELSE 0,
             pending |-> IF p[a].op \in Flushing THEN 0 ELSE counter[a],
             used    |-> Cached \cap UNION {Names(p[b]) : b \in block}]]
------------------------------------------------------------------------------
Nothing == [r \in Regs |-> 0]

Init ==
  /\ prog \in Programs
  /\ \E options \in Options : emitted = Emit(prog, options)
  /\ where = "loop" /\ fn = 0 /\ at = Start
  /\ cpu = Nothing /\ local = Nothing
  /\ other \in [reg : {[r \in Regs |-> IF r = "ra" THEN 0 ELSE 1]}, at : Others]
  /\ uncounted = 0

P == INSTANCE Program WITH reg <- cpu, mode <- where

ASSUME ProgramsAssumption ==
  /\ Programs \subseteq [Addresses -> P!Instructions]
  /\ Start \in Addresses /\ Others \subseteq Addresses

Here == prog[at]
Code == emitted[at]
Used == emitted[fn].used
InLoop == where = "loop" /\ at \in Addresses /\ ~Code.mapped
InCode == where = "block" /\ at < emitted[fn].end

(* The loop stops where the limit is looked at.                            *)
Continue(a) == where' \in {"loop", "host"} /\ at' = a
Static == UNCHANGED <<prog, emitted>>
------------------------------------------------------------------------------
(* The loop runs what is not translated with the handlers.                 *)
Interpret ==
  /\ InLoop /\ Static /\ UNCHANGED <<fn, local, uncounted>>
  /\ \/ /\ Here.op \in {"emitted", "fallback", "access"} /\ ~(Here.op = "access" /\ P!Faults(Here, cpu))
        /\ cpu' = P!Result(Here, cpu) /\ at' = at + 1 /\ UNCHANGED <<where, other>>
     \/ /\ Here.op \in {"vector", "nop"} \/ (Here.op = "branch" /\ cpu[Here.rj] = 0)
        /\ at' = at + 1 /\ UNCHANGED <<where, cpu, other>>
     \/ /\ Here.op = "jump" \/ (Here.op = "branch" /\ cpu[Here.rj] # 0)
        /\ Continue(Here.to) /\ UNCHANGED <<cpu, other>>
     \/ Here.op = "call" /\ Continue(Here.to) /\ cpu' = P!Link(cpu, at) /\ UNCHANGED other
     \/ Here.op = "indirect" /\ Continue(cpu["ra"]) /\ cpu' = P!Link(cpu, at) /\ UNCHANGED other
     \/ Here.op = "ret" /\ Continue(cpu["ra"]) /\ UNCHANGED <<cpu, other>>
     \/ Here.op = "stop" /\ where' = "host" /\ at' = at + 1 /\ UNCHANGED <<cpu, other>>

InterpretCall ==
  /\ InLoop /\ Static /\ UNCHANGED <<fn, local, uncounted>>
  /\ \/ \E v \in {0, 1} :
          /\ cpu' = [cpu EXCEPT !["a0"] = v] /\ UNCHANGED other
          /\ \/ Here.op = "syscall" /\ Continue(at + 1)
             \/ Here.op = "native" /\ Continue(cpu["ra"])
     \/ /\ Here.op = "syscall"
        /\ cpu' = other.reg /\ other' = [reg |-> cpu, at |-> at] /\ Continue(other.at + 1)

Raise ==
  /\ where = "loop"
  /\ \/ at \notin Addresses
     \/ InLoop /\ (Here.op \in {"syscall", "native"} \/ (Here.op = "access" /\ P!Faults(Here, cpu)))
  /\ where' = "raised"
  /\ Static /\ UNCHANGED <<fn, at, cpu, local, other, uncounted>>

Resume ==
  /\ where = "host" /\ where' = "loop"
  /\ Static /\ UNCHANGED <<fn, at, cpu, local, other, uncounted>>

(* TRANSLATOR: the function is called, with the pc of the entry.           *)
Enter ==
  /\ where = "loop" /\ at \in Addresses /\ Code.mapped
  /\ where' = "block" /\ fn' = Code.base
  /\ local' = [r \in Regs |-> IF r \in Code.used THEN cpu[r] ELSE 0]
  /\ uncounted' = 0
  /\ Static /\ UNCHANGED <<at, cpu, other>>
------------------------------------------------------------------------------
(* The code of a function.  It works on View, the registers it has in local*)
(* variables and those it has not.                                         *)
View == [r \in Regs |-> IF r \in Used THEN local[r] ELSE cpu[r]]
StoreRegs == View
LoadRegs(c) == [r \in Regs |-> IF r \in Used THEN c[r] ELSE local[r]]

StoreSysRegs == [r \in Regs |-> IF r \in Used \cap SysRegs THEN local[r] ELSE cpu[r]]
LoadSysRegs(c) == [r \in Regs |-> IF r \in Used \cap SysRegs THEN c[r] ELSE local[r]]

Compute(v) ==
  /\ local' = [r \in Regs |-> IF r \in Used THEN v[r] ELSE local[r]]
  /\ cpu' = [r \in Regs |-> IF r \in Used THEN cpu[r] ELSE v[r]]

(* Control goes on with the next instruction, through its label.           *)
Following ==
  /\ at' = at + 1 /\ UNCHANGED <<where, fn>>
  /\ uncounted' = uncounted + 1 - Code.flush
       - IF at + 1 < Code.end /\ emitted[at + 1].label THEN Code.pending ELSE 0

Flushed == uncounted' = uncounted + 1 - Code.flush

(* The function returns, and the loop goes on at a.                        *)
Return(c, a) ==
  /\ cpu' = c /\ local' = Nothing /\ Continue(a)
  /\ UNCHANGED fn

(* jump_to, with the registers v.                                          *)
JumpTo(v, a) ==
  IF a \in Addresses /\ emitted[a].base = fn THEN Compute(v) /\ at' = a /\ UNCHANGED <<where, fn>>
  ELSE Return(v, a)

(* The switch at the start of a function.                                  *)
JumpTable(v, a) ==
  IF a \in Addresses /\ emitted[a].base = fn /\ emitted[a].label
  THEN Compute(v) /\ at' = a /\ UNCHANGED <<where, fn>>
  ELSE Return(v, a)

Straight ==
  /\ InCode /\ Static /\ Following /\ UNCHANGED other
  /\ \/ Here.op = "emitted" /\ Compute(P!Result(Here, View))
     \/ Here.op = "access" /\ ~P!Faults(Here, View) /\ Compute(P!Result(Here, View))
     \/ Here.op \in {"vector", "nop"} /\ UNCHANGED <<cpu, local>>
     \/ Here.op = "branch" /\ View[Here.rj] = 0 /\ UNCHANGED <<cpu, local>>

(* emit_fallback.                                                          *)
Fallback ==
  /\ InCode /\ Here.op = "fallback" /\ Static /\ Following /\ UNCHANGED other
  /\ cpu' = P!Result(Here, IF Code.store THEN StoreRegs ELSE cpu)
  /\ local' = IF Code.load THEN LoadRegs(cpu') ELSE local

(* The bounds check fails: registers are not stored.                       *)
Exception ==
  /\ InCode /\ Here.op = "access" /\ P!Faults(Here, View)
  /\ where' = "raised" /\ local' = Nothing
  /\ Static /\ UNCHANGED <<fn, at, cpu, other, uncounted>>

Jumps ==
  /\ InCode /\ Static /\ Flushed /\ UNCHANGED other
  /\ \/ Here.op = "branch" /\ View[Here.rj] # 0 /\ JumpTo(View, Here.to)
     \/ Here.op = "jump" /\ JumpTo(View, Here.to)
     \/ Here.op = "call" /\ JumpTo(P!Link(View, at), Here.to)
     \/ Here.op = "indirect" /\ JumpTable(P!Link(View, at), View["ra"])
     \/ Here.op = "ret" /\ JumpTable(View, View["ra"])

(* api.syscall with registers c in the CPU.  The machine goes on in line   *)
(* unless it is stopped or the pc is another one.                          *)
SystemCall ==
  /\ InCode /\ Here.op \in {"syscall", "native"} /\ Static
  /\ LET c == IF Here.op = "syscall" THEN StoreRegs ELSE StoreSysRegs
     IN  \/ \E v \in {0, 1} :
              /\ cpu' = [c EXCEPT !["a0"] = v] /\ UNCHANGED other
              /\ \/ local' = LoadSysRegs(cpu') /\ Following
                 \/ where' = "host" /\ at' = at + 1 /\ local' = Nothing /\ Flushed /\ UNCHANGED fn
         \/ /\ Here.op = "syscall" /\ other' = [reg |-> c, at |-> at]
            /\ \/ other.at # at /\ Return(other.reg, other.at + 1) /\ Flushed
               \/ /\ other.at = at
                  /\ cpu' = other.reg /\ local' = LoadSysRegs(cpu') /\ Following
         \/ /\ where' = "raised" /\ cpu' = c /\ local' = Nothing /\ at' = at + 1
            /\ Flushed /\ UNCHANGED <<fn, other>>

Stop ==
  /\ InCode /\ Here.op = "stop" /\ Static
  /\ cpu' = StoreRegs /\ local' = Nothing /\ where' = "host" /\ at' = at + 1
  /\ Flushed /\ UNCHANGED <<fn, other>>

(* The end of the block: the function returns to the loop.                 *)
EndOfBlock ==
  /\ where = "block" /\ at = emitted[fn].end
  /\ Return(StoreRegs, at)
  /\ Static /\ UNCHANGED <<other, uncounted>>

Next ==
  \/ Interpret \/ InterpretCall \/ Raise \/ Resume \/ Enter
  \/ Straight \/ Fallback \/ Exception \/ Jumps \/ SystemCall \/ Stop \/ EndOfBlock

Spec == Init /\ [][Next]_vars
------------------------------------------------------------------------------
(* The registers of the guest: between two handlers in a row, those of the *)
(* CPU; else what the function sees.                                       *)
BetweenHandlers ==
  where = "block" /\ at > fn /\ prog[at - 1].op = "fallback" /\ ~emitted[at - 1].load
GuestRegisters == IF where = "block" /\ ~BetweenHandlers THEN View ELSE cpu

Guest == INSTANCE Program WITH
  reg <- GuestRegisters,
  mode <- IF where = "block" THEN "run" ELSE IF where = "loop" THEN "run" ELSE where

(* A program whose blocks are compiled does what it does one instruction at*)
(* a time: no register a function keeps, and no store or load it leaves    *)
(* out, is ever stale for an instruction, a handler, a system call, the    *)
(* other thread, another block or the host (tr_emit.cpp:408-431).          *)
ImplementsProgram == Guest!Spec

(* Whoever sees the counter of a compiled function sees every instruction  *)
(* it has executed: at each of its labels, however control got there, and  *)
(* when it is left by a jump or a call (tr_emit.cpp:622-633).  Running into*)
(* the next block, and exceptions, lose count (tr_emit.cpp:1940, :285).    *)
CounterFlushed ==
  /\ [](InCode /\ Code.label => uncounted = 0)
  /\ [][where = "block" /\ where' \in {"loop", "host"} /\ at # emitted[fn].end => uncounted' = 0]_vars

(* tr_emit.cpp:1996: "We allow returning integers in A0-A1 from system     *)
(* calls unless PC changed (in which case we reload all registers anyway)".*)
NothingStale ==
  where = "block" /\ at > fn /\ prog[at - 1].op = "syscall"
  /\ (at < emitted[fn].end => ~Code.label) => \A r \in Used : local[r] = cpu[r]
==============================================================================
