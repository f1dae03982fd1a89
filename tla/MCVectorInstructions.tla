------------------------ MODULE MCVectorInstructions ------------------------
(***************************************************************************)
(* Symbolic bytes: byte n of a place starts as <<place, n>>, so that what  *)
(* the instructions do to these they do to any.  In the second start the   *)
(* upper halves of the vector registers are others.  The target is v0; the *)
(* sources are it, each other or neither.                                  *)
(***************************************************************************)
EXTENDS VectorInstructions

Symbolic(upper) ==
    [bytes |-> [p \in Places |-> [n \in 0 .. 31 |-> <<p, IF p \in VRegs /\ n > 15 THEN n + upper ELSE n>>]],
     trap |-> "none"]

MCStarts   == {Symbolic(0), Symbolic(16)}
MCOperands == {[d |-> "v0", j |-> j, k |-> k, a |-> a] : j \in {"v0", "v1"}, k \in {"v0", "v1", "v2"}, a \in VRegs}
=============================================================================
