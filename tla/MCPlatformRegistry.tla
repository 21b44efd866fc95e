------------------------- MODULE MCPlatformRegistry -------------------------
(***************************************************************************)
(* Instances of PlatformRegistry for TLC.                                  *)
(***************************************************************************)
EXTENDS PlatformRegistry, TLC

Symmetry == Permutations(Threads) \union Permutations(Versions)
=============================================================================
