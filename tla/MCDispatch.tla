----------------------------- MODULE MCDispatch ------------------------------
(***************************************************************************)
(* An instance of Dispatch: three-instruction programs beside a segment    *)
(* with a function.                                                        *)
(***************************************************************************)
EXTENDS Dispatch, TLC

I(op) == [op |-> op, to |-> 0]
To(op, t) == [op |-> op, to |-> t]

(* Two segments: three instructions, and two.                              *)
SmallA == [begin |-> 0, end |-> 3]
SmallB == [begin |-> 4, end |-> 6]
SmallSegments == {SmallA, SmallB}

(* The first instruction is of any kind; branches go backwards, forwards,  *)
(* to the end of the segment and to the other segment.  A patched function *)
(* starts a segment, or lies in the middle of a block.                     *)
First ==
  {I("function"), I("jump"), I("ret"), I("call"), I("syscall"), I("stop"), I("syscallimm"),
   To("cond", 2), To("cond", 3), To("b", 0), To("b", 4), To("bl", 2)}
Middle == {I("function"), To("cond", 0), I("syscall")}
Last == {I("function"), To("cond", 1), To("b", 0), To("bl", 1), I("call")}

Program(i, j, k, h) ==
  [code    |-> (0 :> i @@ 1 :> j @@ 2 :> k @@ 4 :> I("function") @@ 5 :> I("ret")),
   patched |-> h]

SmallPrograms ==
  {Program(i, j, k, {}) : i \in First, j \in Middle, k \in Last}
  \cup {Program(i, To("bl", 2), I("call"), {4}) : i \in First}
  \cup {Program(i, I("function"), k, {1}) : i \in First, k \in {I("function"), To("cond", 1)}}
SmallTargets == {0, 2, 4, 7}
SmallLimits == {0, 3}
==============================================================================
