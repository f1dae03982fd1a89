-------------------------------- MODULE Guest --------------------------------
(***************************************************************************)
(* What a guest program does, one instruction at a time: the meaning of    *)
(* the instructions that change the flow of control, and of entering and   *)
(* leaving the program from the host.  The interpreter of Dispatch, which  *)
(* runs whole blocks with a program counter that is ahead of the           *)
(* instruction it executes, implements it.                                 *)
(*                                                                         *)
(* An address counts instructions: 4 bytes.                                *)
(***************************************************************************)
EXTENDS Integers

CONSTANTS
  Programs,   (* the programs: code, a function from addresses to          *)
              (* instructions, and patched, see Dispatch                   *)
  Segments,   (* the execute segments, records with begin and end          *)
  Targets     (* the addresses computed jumps, handlers and the host use   *)

VARIABLES
  prog,    (* the program                                                  *)
  home,    (* the segment the guest runs in                                *)
  at,      (* the address of the next instruction                          *)
  ra,      (* the return address register                                  *)
  mode     (* "run", or "host" when the guest is not running               *)

guest == <<prog, home, at, ra, mode>>

Within(s, a) == s.begin <= a /\ a < s.end

TypeOK ==
  /\ prog \in Programs /\ home \in Segments
  /\ at \in Int /\ ra \in Int /\ mode \in {"run", "host"}

Init ==
  /\ prog \in Programs /\ home \in Segments
  /\ at \in Targets /\ ra = 0
  /\ mode = "host"
------------------------------------------------------------------------------
(* The guest is about to execute an instruction with one of these ops.     *)
At(ops) ==
  /\ mode = "run"
  /\ Within(home, at)
  /\ prog.code[at].op \in ops
  /\ at \notin prog.patched

(* The guest goes on with the next instruction of its segment.             *)
FallThrough == at' = at + 1 /\ mode' = "run" /\ UNCHANGED home

(* The guest jumps to t.  The host may get control at any jump; a jump out *)
(* of every execute segment ends the run with an exception.                *)
JumpTo(t) ==
  /\ at' = t
  /\ \/ mode' = "run" /\ home' \in Segments /\ Within(home', t)
     \/ mode' = "host" /\ UNCHANGED home

(* The run ends with an exception at this instruction.                     *)
Raise == mode' = "host" /\ UNCHANGED <<at, home>>

(* A direct branch must stay in its segment.                               *)
Branch ==
  /\ Within(home, prog.code[at].to)
  /\ JumpTo(prog.code[at].to)

Regular ==
  /\ At({"function", "break"})
  /\ UNCHANGED ra
  /\ \/ FallThrough
     \/ mode' = "host" /\ UNCHANGED home   (* a fault; registers.pc is stale *)

ConditionalBranch == At({"cond"}) /\ UNCHANGED ra /\ (Branch \/ FallThrough)
UnconditionalBranch == At({"b"}) /\ Branch /\ UNCHANGED ra
BranchAndLink == At({"bl"}) /\ Branch /\ ra' = at + 1
Jump == At({"jump"}) /\ UNCHANGED ra /\ \E t \in Targets : JumpTo(t)
Call == At({"call"}) /\ ra' = at + 1 /\ \E t \in Targets : JumpTo(t)
Return == At({"ret"}) /\ UNCHANGED ra /\ JumpTo(ra)

(* A system call returns, sends the guest elsewhere, or stops it after the *)
(* instruction.                                                            *)
SystemCall ==
  /\ At({"syscall"})
  /\ UNCHANGED ra
  /\ \/ FallThrough
     \/ \E t \in Targets : JumpTo(t)
     \/ at' = at + 1 /\ mode' = "host" /\ UNCHANGED home
     \/ Raise

(* A native function, reached at a patched address or by a system call     *)
(* with an immediate: does its work and returns to its caller.             *)
Native ==
  /\ \/ At({"syscallimm"})
     \/ mode = "run" /\ Within(home, at) /\ at \in prog.patched
  /\ UNCHANGED ra
  /\ \/ JumpTo(ra)
     \/ mode' = "host" /\ UNCHANGED home

Stop == At({"stop"}) /\ mode' = "host" /\ UNCHANGED <<home, ra>>

(* A branch out of the segment, or the end of the segment.                 *)
Illegal ==
  /\ \/ At({"cond", "b", "bl"}) /\ ~Within(home, prog.code[at].to)
     \/ mode = "run" /\ at = home.end
  /\ Raise
  /\ UNCHANGED ra

Enter ==
  /\ mode = "host"
  /\ mode' = "run" /\ home' \in Segments /\ Within(home', at)
  /\ UNCHANGED <<at, ra>>

(* The host sets the program counter, or looks up its segment.             *)
HostJump ==
  /\ mode = "host"
  /\ at' \in Targets \cup {at} /\ home' \in Segments
  /\ UNCHANGED <<ra, mode>>

Next ==
  /\ UNCHANGED prog
  /\ \/ Regular \/ ConditionalBranch \/ UnconditionalBranch \/ BranchAndLink
     \/ Jump \/ Call \/ Return \/ SystemCall \/ Native \/ Stop \/ Illegal
     \/ Enter \/ HostJump

Spec == Init /\ [][Next]_guest
==============================================================================
