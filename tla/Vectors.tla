------------------------------- MODULE Vectors -------------------------------
(***************************************************************************)
(* What a vector or floating-point instruction can read and change: the    *)
(* 256-bit vector registers, whose low bytes are the floating-point        *)
(* registers, one general register, a flag, the control register and the   *)
(* memory an address leads to, each as bytes.  What an operation computes  *)
(* is left open: byte n of the result of f is <<f, n, elements>>, so that  *)
(* two results are equal only if they come from the same bytes in the same *)
(* way.                                                                    *)
(***************************************************************************)
EXTENDS Integers, Sequences, SequencesExt

CONSTANTS VRegs,   \* the vector registers
          V0       \* the one of number 0

Others == {"gr", "cf", "fcsr", "mem"}

ASSUME RegistersAssumption == /\ V0 \in VRegs
                              /\ VRegs \cap Others = {}

Places == VRegs \cup Others

\* A machine between two instructions, whatever its bytes are.
Running(m) == m = [bytes |-> [p \in Places |-> [n \in 0 .. 31 |-> m.bytes[p][n]]], trap |-> "none"]

Zero == <<"zero", 0>>

\* f, and g where f is not defined.
Overlay(f, g) == [x \in DOMAIN f \cup DOMAIN g |-> IF x \in DOMAIN f THEN f[x] ELSE g[x]]
f ++ g == Overlay(f, g)

(***************************************************************************)
(* An instruction is [op, d, j, k, a, imm, rd, at]: its vector registers,  *)
(* its immediate or lane number, the number of its general target register *)
(* and where its address leads: nowhere the guest has, its read-only data, *)
(* its data, or the host's memory from the end of the arena to the end plus*)
(* the address the arena has in the host.  <<role, w, n>> is element n, w  *)
(* bytes wide, of the register in that role (du[n], wu[n], hu[n], bu[n]).  *)
(***************************************************************************)
Regions == {"nowhere", "rodata", "data", "host"}

Place(i, role) == IF role \in {"d", "j", "k", "a"} THEN i[role] ELSE role

Element(m, i, e) == [n \in 1 .. e[2] |-> m.bytes[Place(i, e[1])][e[2] * e[3] + n - 1]]

\* A write [to, f, from]: the element to becomes f of the elements from.
Copy(to, from) == [to |-> to, f |-> "copy", from |-> <<from>>]
ZeroAt(to)     == [to |-> to, f |-> "zero", from |-> <<>>]

Result(m, i, wr) ==
    LET w    == wr.to[2]
        args == [x \in DOMAIN wr.from |-> Element(m, i, wr.from[x])]
    IN  CASE wr.f = "copy" -> args[1]
          [] wr.f = "zero" -> [n \in 1 .. w |-> Zero]
          [] wr.f = "zext" -> [n \in 1 .. w |-> IF n <= wr.from[1][2] THEN args[1][n] ELSE Zero]
          [] OTHER         -> [n \in 1 .. w |-> <<wr.f, n, args>>]

Put(m, i, to, value) ==
    LET p     == Place(i, to[1])
        first == to[2] * to[3]
    IN  [m EXCEPT !.bytes[p] = [n \in 0 .. 31 |-> IF n \in first .. first + to[2] - 1 THEN value[n - first + 1]
                                                  ELSE m.bytes[p][n]]]

\* The writes, one after the other; their sources are what the machine m had
\* (read into locals first) or what the writes before left.
Steps(m, i, writes, locals) ==
    LET after[n \in 0 .. Len(writes)] ==
          IF n = 0 THEN m
          ELSE Put(after[n - 1], i, writes[n].to, Result(IF locals THEN m ELSE after[n - 1], i, writes[n]))
    IN  after[Len(writes)]

InPlace(m, i, writes)      == Steps(m, i, writes, FALSE)
Simultaneous(m, i, writes) == Steps(m, i, writes, TRUE)

Trap(m, t) == [m EXCEPT !.trap = t]
=============================================================================
