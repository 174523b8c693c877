--------------------------- MODULE MCTargetLease ---------------------------
(* Small instances of TargetLease.  Workers and targets are                *)
(* interchangeable: Init, Next and every invariant quantify over them.     *)
EXTENDS TargetLease, TLC

Symmetry == Permutations(Workers) \cup Permutations(Targets)
=============================================================================
