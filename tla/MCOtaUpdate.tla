----------------------------- MODULE MCOtaUpdate -----------------------------
(* Instances of OtaUpdate for TLC: images and tasks are model values.       *)
EXTENDS OtaUpdate, TLC

Symmetry == Permutations(Tasks)
=============================================================================
