------------------------------- MODULE Program -------------------------------
(***************************************************************************)
(* What two cooperative threads of a guest do, one instruction at a time:  *)
(* registers, the flow of control, and what system calls may do to both.   *)
(* TranslatedBlock, which keeps registers in local variables of compiled   *)
(* functions, implements it.                                               *)
(*                                                                         *)
(* An address counts instructions.  What an instruction computes is the    *)
(* complement of a bit: enough to tell a stale register from a current one.*)
(***************************************************************************)
EXTENDS Integers

CONSTANTS
  Size,       (* instructions in the execute segment                       *)
  Programs,   (* the programs: functions from addresses to instructions    *)
  Others      (* where the second thread may wait                          *)

Addresses == 0..(Size - 1)
Regs == {"ra", "a0", "t0"}
Values == 0..Size
Registers == [Regs -> Values]

(* A computation with emitted code or by a handler, one of vector          *)
(* registers only, a load, direct and indirect branches, and system calls. *)
Ops == {"emitted", "fallback", "vector", "access", "branch", "jump", "call",
        "indirect", "ret", "syscall", "native", "stop", "nop"}
Instructions == [op : Ops, rd : Regs, rj : Regs, to : Int]

VARIABLES
  prog,   (* the program                                                   *)
  at,     (* the address of the next instruction                           *)
  reg,    (* the registers of the running thread                           *)
  other,  (* the registers and the pc of the thread that waits             *)
  mode    (* "run", "host" when the machine is stopped, or "raised"        *)

guest == <<prog, at, reg, other, mode>>

Result(i, r) == [r EXCEPT ![i.rd] = IF r[i.rj] = 0 THEN 1 ELSE 0]
Link(r, a) == [r EXCEPT !["ra"] = a + 1]
Faults(i, r) == r[i.rj] # 0

Init ==
  /\ prog \in Programs
  /\ at \in Addresses
  /\ reg = [r \in Regs |-> 0]
  /\ other \in [reg : {[r \in Regs |-> IF r = "ra" THEN 0 ELSE 1]}, at : Others]
  /\ mode = "run"
------------------------------------------------------------------------------
At(ops) == mode = "run" /\ at \in Addresses /\ prog[at].op \in ops

Here == prog[at]

GoTo(a) == at' = a /\ UNCHANGED <<prog, other>>

(* The host may take over at any jump.                                     *)
JumpTo(a) == GoTo(a) /\ mode' \in {"run", "host"}

Compute ==
  /\ At({"emitted", "fallback"})
  /\ reg' = Result(Here, reg)
  /\ GoTo(at + 1) /\ UNCHANGED mode

Elsewhere ==
  /\ At({"vector", "nop"})
  /\ GoTo(at + 1) /\ UNCHANGED <<mode, reg>>

(* What the registers are after an exception is not specified; the pc is   *)
(* that of the instruction or of the one behind it.                        *)
Raise ==
  /\ \/ At({"access"}) /\ Faults(Here, reg)
     \/ At({"syscall", "native"})
     \/ mode = "run" /\ at \notin Addresses
  /\ mode' = "raised" /\ reg' \in Registers
  /\ at' \in {at, at + 1} /\ UNCHANGED <<prog, other>>

Access ==
  /\ At({"access"}) /\ ~Faults(Here, reg)
  /\ reg' = Result(Here, reg)
  /\ GoTo(at + 1) /\ UNCHANGED mode

Branch ==
  /\ At({"branch"}) /\ UNCHANGED reg
  /\ IF reg[Here.rj] # 0 THEN JumpTo(Here.to) ELSE GoTo(at + 1) /\ UNCHANGED mode

Jump == At({"jump"}) /\ JumpTo(Here.to) /\ UNCHANGED reg
Call == At({"call"}) /\ JumpTo(Here.to) /\ reg' = Link(reg, at)
Indirect == At({"indirect"}) /\ JumpTo(reg["ra"]) /\ reg' = Link(reg, at)
Return == At({"ret"}) /\ JumpTo(reg["ra"]) /\ UNCHANGED reg

(* A system call gives its result in A0; or switches to the other thread,  *)
(* which goes on behind the call it waits at; or stops the machine.  A     *)
(* thread that waits at this very call may find registers of the other.    *)
SystemCall ==
  /\ At({"syscall"})
  /\ \/ \E v \in {0, 1} : reg' = [reg EXCEPT !["a0"] = v]
                           /\ GoTo(at + 1) /\ mode' \in {"run", "host"}
     \/ /\ other' = [reg |-> reg, at |-> at]
        /\ \/ reg' = other.reg
           \/ other.at = at /\ \E kept \in SUBSET Regs :
                reg' = [r \in Regs |-> IF r \in kept THEN reg[r] ELSE other.reg[r]]
        /\ at' = other.at + 1 /\ mode' \in {"run", "host"} /\ UNCHANGED prog

(* A call with an immediate returns in line or to the caller: the engines  *)
(* differ.  If it stops the machine, only the argument registers are sure. *)
Native ==
  /\ At({"native"})
  /\ \/ \E v \in {0, 1} : reg' = [reg EXCEPT !["a0"] = v] /\ (JumpTo(at + 1) \/ JumpTo(reg["ra"]))
     \/ reg' \in Registers /\ GoTo(at + 1) /\ mode' = "host"

Stop == At({"stop"}) /\ GoTo(at + 1) /\ mode' = "host" /\ UNCHANGED reg

(* The host takes over, or runs the machine again.                         *)
Pause == mode = "run" /\ mode' = "host" /\ UNCHANGED <<prog, at, reg, other>>
Resume == mode = "host" /\ mode' = "run" /\ UNCHANGED <<prog, at, reg, other>>

Next ==
  \/ Compute \/ Elsewhere \/ Raise \/ Access \/ Branch \/ Jump \/ Call \/ Indirect
  \/ Return \/ SystemCall \/ Native \/ Stop \/ Pause \/ Resume

Spec == Init /\ [][Next]_guest
==============================================================================
