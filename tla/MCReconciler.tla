---------------------------- MODULE MCReconciler ----------------------------
(***************************************************************************)
(* Reconciler for TLC.  Specs s1 and s2 map to different fields; the spec  *)
(* odd, where a configuration uses it, passes Validate and maps to none.   *)
(***************************************************************************)
EXTENDS Reconciler, TLC

CONSTANTS s1, s2, odd

MCFieldsOf == [s \in Specs |-> IF s = odd THEN Unmappable ELSE s]

\* The workers of the pool are interchangeable.
Symmetry == Permutations(Workers)
=============================================================================
