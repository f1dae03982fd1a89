-------------------------- MODULE MCSharedSegments ---------------------------
(***************************************************************************)
(* An instance of SharedSegments in which two programs use two handlers.   *)
(***************************************************************************)
EXTENDS SharedSegments, TLC

CONSTANTS k1, k2, f, g

SmallHandlersOf == (k1 :> {f}) @@ (k2 :> {g})
==============================================================================
