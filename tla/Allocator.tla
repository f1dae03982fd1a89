------------------------------ MODULE Allocator ------------------------------
(***************************************************************************)
(* What the native heap promises its callers (the doc comments of          *)
(* native/heap.hpp lines 50-73), with no chunk list, no first fit and no   *)
(* bookkeeping: a set of allocated blocks of an address range, and what    *)
(* malloc, realloc and free may answer.  Arena.tla is shown to implement   *)
(* it.                                                                     *)
(***************************************************************************)
EXTENDS Integers

CONSTANTS Lo,        (* first address of the managed range                 *)
          End,       (* one past its last address                          *)
          Requests,  (* the sizes callers ask for                          *)
          Pointers   (* the pointers callers hand back                     *)

VARIABLES blocks,    (* the allocated blocks: a set of [addr, len]         *)
          reply      (* what the last call answered                        *)

vars == <<blocks, reply>>

Addresses == {a \in Lo..(End - 1) : a % 16 = 0}
Lengths   == 1..(End - Lo)
RoundUp(n) == IF n = 0 THEN 16 ELSE ((n + 15) \div 16) * 16

(* The n bytes at a lie in the range and meet no block of B.               *)
Gap(B, a, n) ==
  /\ Lo <= a /\ a + n <= End
  /\ \A b \in B : b.addr + b.len <= a \/ a + n <= b.addr

HasGap(B, n) == \E a \in Lo..(End - n) : Gap(B, a, n)

Answer(call, n, ret, copy, threw) ==
  reply' = [call |-> call, want |-> n, ret |-> ret, copy |-> copy, threw |-> threw]

Init == blocks = {} /\ reply = [call |-> "none", want |-> 0, ret |-> 0, copy |-> 0, threw |-> FALSE]

(* A call that runs out of chunk records throws and leaves every block     *)
(* as it was; the promise does not say when that happens.                  *)
Throw(call) ==
  \E n \in Requests : Answer(call, n, 0, 0, TRUE) /\ UNCHANGED blocks

(* malloc: a new aligned block in free space, or 0 exactly when no free    *)
(* space is long enough (so fragmentation bookkeeping never hides space).  *)
Allocate(call) ==
  \E n \in Requests :
     \/ \E a \in Addresses :
           /\ Answer(call, n, a, 0, FALSE)
           /\ \E len \in Lengths :
                 /\ n <= len /\ Gap(blocks, a, len)
                 /\ blocks' = blocks \cup {[addr |-> a, len |-> len]}
     \/ /\ Answer(call, n, 0, 0, FALSE)
        /\ UNCHANGED blocks
        /\ ~ HasGap(blocks, RoundUp(n))

(* realloc of a block keeps its address, or moves it to a block that is    *)
(* disjoint from every block there was, the old one included (the caller   *)
(* copies the old length it is told), or fails and keeps the block.        *)
Resize ==
  \E b \in blocks, n \in Requests :
     \/ /\ Answer("realloc", n, b.addr, 0, FALSE)
        /\ \E len \in Lengths :
              /\ n <= len /\ b.len <= len
              /\ Gap(blocks \ {b}, b.addr, len)
              /\ blocks' = (blocks \ {b}) \cup {[addr |-> b.addr, len |-> len]}
     \/ \E a \in Addresses :
           /\ Answer("realloc", n, a, b.len, FALSE)
           /\ \E len \in Lengths :
                 /\ n <= len /\ b.len < len /\ Gap(blocks, a, len)
                 /\ blocks' = (blocks \ {b}) \cup {[addr |-> a, len |-> len]}
     \/ /\ Answer("realloc", n, 0, 0, FALSE)
        /\ UNCHANGED blocks
        /\ ~ HasGap(blocks, RoundUp(n))

(* realloc and free of a pointer that is no block change nothing.          *)
Unknown ==
  \E p \in Pointers :
     /\ \/ \E n \in Requests : p # 0 /\ Answer("realloc", n, 0, 0, FALSE)
        \/ Answer("free", p, -1, 0, FALSE)
     /\ \A b \in blocks : b.addr # p
     /\ UNCHANGED blocks

Release ==
  \E b \in blocks :
     /\ Answer("free", b.addr, 0, 0, FALSE)
     /\ blocks' = blocks \ {b}

Next ==
  \/ \E call \in {"malloc", "realloc"} : Allocate(call) \/ Throw(call)
  \/ Resize
  \/ Unknown
  \/ Release

Spec == Init /\ [][Next]_vars
------------------------------------------------------------------------------
(* Two allocated blocks never share a byte.                                *)
BlocksDisjoint ==
  \A b, c \in blocks :
     b # c => b.addr + b.len <= c.addr \/ c.addr + c.len <= b.addr
==============================================================================
