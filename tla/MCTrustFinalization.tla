------------------------ MODULE MCTrustFinalization ------------------------
(* TrustFinalization instantiated for TLC.  Its properties include one of  *)
(* liveness, so no symmetry is declared.                                   *)
EXTENDS TrustFinalization

CONSTANTS w1, w2
=============================================================================
