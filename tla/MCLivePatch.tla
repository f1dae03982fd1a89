---------------------------- MODULE MCLivePatch ----------------------------
(* Four instructions: a function of the guest with a native counterpart, an*)
(* extended function and an unconditional branch, each of which starts a   *)
(* translated function, and a plain bytecode at the end of the code.       *)
EXTENDS LivePatch

MCCode == [a \in 0..3 |-> CASE a = 0 -> "function" [] a = 1 -> "extended"
                            [] a = 2 -> "branch" [] a = 3 -> "inline"]
MCMapped == {0, 1, 2}
MCNative == {0}
=============================================================================
