----------------------- MODULE MCSubmissionVersions -----------------------
(* SubmissionVersions instantiated for TLC: two categories, a repeated     *)
(* key, and a repeated category with other bytes.                          *)
EXTENDS SubmissionVersions, TLC

CONSTANTS alerts, cases, k1, k2, a, b, p1, p2, p3

MCUploads ==
    { [category |-> alerts, key |-> k1, bytes |-> a],
      [category |-> alerts, key |-> k1, bytes |-> b],
      [category |-> alerts, key |-> k2, bytes |-> a],
      [category |-> cases,  key |-> k2, bytes |-> a] }

ClientSymmetry == Permutations(Clients)
=============================================================================
