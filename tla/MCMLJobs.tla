------------------------------ MODULE MCMLJobs ------------------------------
(* MLJobs instantiated for TLC.  Its properties include liveness, so no    *)
(* symmetry is declared.                                                   *)
EXTENDS MLJobs

CONSTANTS v1, t1, w1, w2
=============================================================================
