----------------------------- MODULE MCPublisher -----------------------------
(* Instances of Publisher for TLC: model values for the entities and the    *)
(* serials come from the .cfg files; entities are interchangeable.          *)
EXTENDS Publisher, TLC

Symmetry == Permutations(Entities)
=============================================================================
