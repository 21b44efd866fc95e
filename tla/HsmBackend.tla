----------------------------- MODULE HsmBackend -----------------------------
(***************************************************************************)
(* The PKCS#11 backend (qsmlops/crypto/hsm.py): a registry of keys in the  *)
(* memory of one process beside the objects of a token that outlives it,   *)
(* or, in mock mode, beside private bytes in the same memory.              *)
(*                                                                         *)
(* This module has the state and the operations; KeyStore.tla has the      *)
(* processes that call them.  An operation of the backend is one step: a   *)
(* process has one backend and the token calls are not interleaved.        *)
(***************************************************************************)
EXTENDS Naturals, FiniteSets

CONSTANTS
    MaxKeys,      \* bound: key ids drawn
    TokenFaults   \* failures of the token the instance looks at

Keys == 1 .. MaxKeys   \* key ids, in the order in which they are drawn

ASSUME KeysAssumption   == MaxKeys \in Nat
ASSUME FaultsAssumption == TokenFaults \subseteq {"extract", "import", "destroy"}

VARIABLES
    up,       \* initialized, with library, token and session
    mirror,   \* _keys: status of each key id, "absent" if it has no entry
    public,   \* _public_keys
    private,  \* _private_keys, filled in mock mode only
    token,    \* objects of each id on the token: public and private ones
    condemned \* history: ids revoked, with no private key made under them since

hsmVars == <<up, mirror, public, private, token, condemned>>

MaxObjects == 2  \* bound: objects of one class with the same id
Fails(f)   == IF f \in TokenFaults THEN {TRUE, FALSE} ELSE {FALSE}

HsmInit ==
    /\ up = FALSE
    /\ mirror = [k \in Keys |-> "absent"]
    /\ public = {} /\ private = {}
    /\ token = [k \in Keys |-> [pub |-> 0, priv |-> 0]]
    /\ condemned = {}

----------------------------------------------------------------------------
(* Lifecycle.                                                              *)

\* Nothing is reached when the library, the token or the PIN is refused.
Initialize ==
    /\ ~up
    /\ up' = TRUE
    /\ UNCHANGED <<mirror, public, private, token, condemned>>

\* close() drops session and library and keeps the registry.
CloseHsm ==
    /\ up
    /\ up' = FALSE
    /\ UNCHANGED <<mirror, public, private, token, condemned>>

\* The process ends: all that is left is what the token stores.
HsmLost ==
    /\ up' = FALSE
    /\ mirror' = [k \in Keys |-> "absent"]
    /\ public' = {} /\ private' = {}
    /\ UNCHANGED <<token, condemned>>

----------------------------------------------------------------------------
(* Keys.                                                                   *)

Enter(k, status) == mirror' = [mirror EXCEPT ![k] = status] /\ public' = public \union {k}

\* generate_signature_keypair(): the objects are stored before the public key
\* is read back, so a failed extraction leaves them on the token.
GenerateHsm(mock, k, extracted) ==
    /\ up
    /\ mirror[k] \in {"absent", "revoked"}
    /\ ~extracted => ~mock
    /\ IF mock THEN private' = private \union {k} /\ UNCHANGED token
       ELSE /\ token[k].priv < MaxObjects /\ token[k].pub < MaxObjects
            /\ token' = [token EXCEPT ![k].priv = @ + 1, ![k].pub = @ + 1]
            /\ UNCHANGED private
    /\ IF extracted THEN Enter(k, "active") ELSE UNCHANGED <<mirror, public>>
    /\ condemned' = condemned \ {k}
    /\ UNCHANGED up

\* import_signature_key(): public object first; an id in use is not refused.
ImportHsm(mock, k, imported) ==
    /\ up
    /\ ~imported => ~mock
    /\ IF mock THEN private' = private \union {k} /\ UNCHANGED token
       ELSE /\ token[k].priv < MaxObjects /\ token[k].pub < MaxObjects
            /\ token' = [token EXCEPT ![k].pub = @ + 1,
                                      ![k].priv = IF imported THEN @ + 1 ELSE @]
            /\ UNCHANGED private
    /\ IF imported THEN Enter(k, "active") ELSE UNCHANGED <<mirror, public>>
    /\ condemned' = IF imported THEN condemned \ {k} ELSE condemned
    /\ UNCHANGED up

\* rotate_signature_key(): the old key is marked before the new one is made,
\* whatever its status was and whether or not the new one succeeds.
RotateHsm(mock, old, new, extracted) ==
    /\ up
    /\ mirror[old] # "absent"
    /\ old # new
    /\ ~extracted => ~mock
    /\ LET made == extracted /\ mirror[new] \in {"absent", "revoked"}
           tried == mirror[new] \in {"absent", "revoked"} IN
       /\ mirror' = IF made THEN [mirror EXCEPT ![old] = "rotated", ![new] = "active"]
                    ELSE [mirror EXCEPT ![old] = "rotated"]
       /\ public' = IF made THEN public \union {new} ELSE public
       /\ private' = IF made /\ mock THEN private \union {new} ELSE private
       /\ IF tried /\ ~mock
          THEN /\ token[new].priv < MaxObjects /\ token[new].pub < MaxObjects
               /\ token' = [token EXCEPT ![new].priv = @ + 1, ![new].pub = @ + 1]
          ELSE UNCHANGED token
       /\ condemned' = IF tried THEN condemned \ {new} ELSE condemned
    /\ UNCHANGED up

\* Deliberate defect (paired in PROJECT.json with what it must break): revoke_key
\* marks the key and leaves its private part.
RevokeHsmMarksOnly(mock, k, spared) ==
    /\ up
    /\ mirror[k] # "absent"
    /\ mirror' = [mirror EXCEPT ![k] = "revoked"]
    /\ condemned' = condemned \union {k}
    /\ spared \in BOOLEAN
    /\ UNCHANGED <<up, public, private, token>>

\* revoke_key(): an object that cannot be destroyed is passed over in silence.
RevokeHsm(mock, k, spared) ==
    /\ up
    /\ mirror[k] # "absent"
    /\ mirror' = [mirror EXCEPT ![k] = "revoked"]
    /\ token' = IF mock THEN token
                ELSE [token EXCEPT ![k] = IF spared THEN @ ELSE [pub |-> 0, priv |-> 0]]
    /\ private' = private \ {k}
    /\ condemned' = condemned \union {k}
    /\ UNCHANGED <<up, public>>

----------------------------------------------------------------------------
(* Use.                                                                    *)

\* _find_object(): exactly one object of the class, else "not found".
FoundOne(k, class) == token[k][class] = 1

\* sign() returns a signature, else it raises.
Signs(mock, k) ==
    /\ up
    /\ mirror[k] \notin {"absent", "revoked"}
    /\ IF mock THEN k \in private ELSE FoundOne(k, "priv")

\* verify() has a public key to check against: the token's, else the cached one.
Verifies(mock, k) ==
    /\ up
    /\ mirror[k] # "absent"
    /\ IF mock THEN k \in public ELSE FoundOne(k, "pub") \/ k \in public
=============================================================================
