------------------------- MODULE MCPgRunTransitions -------------------------
(***************************************************************************)
(* Instances of PgRunTransitions for TLC.                                  *)
(***************************************************************************)
EXTENDS PgRunTransitions, TLC

Symmetry == Permutations(Workers) \union Permutations(Supervisors)
=============================================================================
