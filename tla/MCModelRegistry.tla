-------------------------- MODULE MCModelRegistry --------------------------
(***************************************************************************)
(* Instances of ModelRegistry for TLC.                                     *)
(***************************************************************************)
EXTENDS ModelRegistry, TLC

Symmetry == Permutations(Models) \union Permutations(Requests)
=============================================================================
