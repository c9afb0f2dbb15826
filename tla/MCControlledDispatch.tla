------------------------ MODULE MCControlledDispatch ------------------------
(* Two dispatches, two permits to write with overlapping targets and one to *)
(* read, and a path that is nobody's target.                                *)
EXTENDS ControlledDispatch, TLC

CONSTANTS k1, k2, k3, f1, f2, f3

MCTargetsOf == k1 :> {f1, f2} @@ k2 :> {f2} @@ k3 :> {}

Symmetry == Permutations(Calls)
=============================================================================
