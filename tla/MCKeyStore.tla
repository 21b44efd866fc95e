----------------------------- MODULE MCKeyStore -----------------------------
(***************************************************************************)
(* Instances of KeyStore for TLC.                                          *)
(***************************************************************************)
EXTENDS KeyStore
=============================================================================
