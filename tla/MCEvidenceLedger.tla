-------------------------- MODULE MCEvidenceLedger --------------------------
(* EvidenceLedger instantiated for TLC: two writers in processes of their  *)
(* own (hosted API and worker, or CLI beside the platform API) or in one   *)
(* process (platform threads).                                             *)
EXTENDS EvidenceLedger, TLC

CONSTANTS w1, w2, p1, p2

Hosted   == [procOf |-> w1 :> p1 @@ w2 :> p2, kinds |-> {"record", "once"}]
Platform == [procOf |-> w1 :> p1 @@ w2 :> p1, kinds |-> {"record", "packet"}]
Cli      == [procOf |-> w1 :> p1 @@ w2 :> p2, kinds |-> {"record", "packet"}]

All          == {Hosted, Platform, Cli}
PlatformOnly == {Platform}
CliBesideApi == {Cli}
=============================================================================
