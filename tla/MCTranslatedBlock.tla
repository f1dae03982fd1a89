-------------------------- MODULE MCTranslatedBlock --------------------------
(* Every program of three instructions, one that goes back, and a stop,   *)
(* with a function behind it that has a loop: cut into two blocks of which *)
(* both or the first are translated, or in one block.                      *)
EXTENDS TranslatedBlock, Sequences

I(op, rd, rj, to) == [op |-> op, rd |-> rd, rj |-> rj, to |-> to]

Body == {I("emitted", "a0", "t0", 0), I("fallback", "t0", "a0", 0), I("vector", "a0", "a0", 0),
         I("access", "t0", "a0", 0), I("call", "ra", "ra", 5), I("branch", "t0", "t0", 1),
         I("syscall", "a0", "a0", 0), I("native", "a0", "a0", 0)}
Back == {I("branch", "a0", "a0", 1), I("jump", "ra", "ra", 0), I("indirect", "ra", "ra", 0)}
Function == <<I("emitted", "t0", "t0", 0), I("branch", "t0", "t0", 5), I("ret", "ra", "ra", 0)>>

MCPrograms ==
  {[a \in 0..7 |-> CASE a < 3 -> body[a + 1] [] a = 3 -> back [] a = 4 -> I("stop", "ra", "ra", 0)
                     [] a > 4 -> Function[a - 4]] :
     body \in [1..3 -> Body], back \in Back}
MCOptions == {[split |-> 3, max |-> 4], [split |-> 3, max |-> 20], [split |-> 6, max |-> 20]}
SwitchOptions == {[split |-> 6, max |-> 20]}
==============================================================================
