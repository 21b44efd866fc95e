------------------------------ MODULE KeyStore ------------------------------
(***************************************************************************)
(* The signing keys of one owner: qsmlops/crypto/keys.py over JSON files,  *)
(* qsmlops/crypto/secure_keystore.py over an encrypted vault, and both over*)
(* the backend of HsmBackend.tla.                                          *)
(*                                                                         *)
(* trust_anchors.json and the file of secrets are read whole, changed in   *)
(* memory and written whole, without a lock: by every process that opened  *)
(* the directory (API, CLI).  Path.write_text empties the file before it   *)
(* fills it, and between the two others read no JSON.  A step below is one *)
(* read, one emptying or one filling.                                      *)
(***************************************************************************)
EXTENDS HsmBackend, Sequences

CONSTANTS
    Procs,      \* processes with the directory open
    Primary,    \* the one that has the vault or the HSM open
    Modes,      \* kinds of store the instance looks at
    MaxCalls,   \* bound: operations begun
    MaxCrashes, \* bound: processes lost
    None        \* no operation

ASSUME ProcsAssumption  == Primary \in Procs
ASSUME ModesAssumption  == Modes \subseteq {"plain", "vault", "mock", "pkcs11"}
ASSUME CallsAssumption  == MaxCalls \in Nat /\ MaxCrashes \in Nat

VARIABLES
    mode,       \* kind of store
    anchors,    \* trust_anchors.json: status and version of each key
    secrets,    \* durable secrets: secret_keys.json or the vault
    torn,       \* files emptied and not filled yet
    cache,      \* the vault's secrets in the memory of Primary
    locked,     \* the vault is locked: that memory is empty
    staged,     \* secret_keys.tmp.json is on disk
    dead,       \* keys whose expires_at has passed
    op,         \* the operation of each process
    calls, crashes,
    revoked,    \* history: keys ever revoked
    lost,       \* history: keys whose process was lost between their record and their secret
    overlapped  \* history: two operations have been under way at once

disk      == <<anchors, secrets, torn, staged>>
storeVars == <<mode, disk, cache, locked, dead, op, calls, crashes, revoked, lost, overlapped>>
keyVars == <<hsmVars, storeVars>>

Mock    == mode = "mock"
Hsm     == mode \in {"mock", "pkcs11"}
Absent  == [status |-> "absent", version |-> 0]
Files   == {"anchors", "secrets"}
NoCall    == [call |-> None, pc |-> "idle", snap |-> [k \in Keys |-> Absent], key |-> 0,
            todo |-> <<>>, left |-> 0, held |-> {}]

StoreInit ==
    /\ HsmInit
    /\ mode \in Modes
    /\ anchors = [k \in Keys |-> Absent]
    /\ secrets = {} /\ torn = {} /\ cache = {} /\ dead = {}
    /\ staged = FALSE /\ locked = FALSE
    /\ op = [p \in Procs |-> NoCall]
    /\ calls = 0 /\ crashes = 0
    /\ revoked = {} /\ lost = {}
    /\ overlapped = FALSE

----------------------------------------------------------------------------
(* Reads.                                                                  *)

At(p, pc)     == op[p].pc = pc
Proceed(p, pc)   == op' = [op EXCEPT ![p].pc = pc]
Finish(p)     == op' = [op EXCEPT ![p] = NoCall]
\* The call of p returns from generate_keypair: rotate_due_keys may have more to do.
Return(p) ==
    op' = [op EXCEPT ![p] = IF op[p].left = 0 THEN NoCall
                            ELSE [NoCall EXCEPT !.call = op[p].call, !.pc = "list", !.left = op[p].left - 1]]

Recorded(a)   == {k \in Keys : a[k].status # "absent"}
Active(a)     == {k \in Keys : a[k].status = "active"}

\* list_records(): by version, newest first (one owner).
Newer(a, i, j)  == a[i].version > a[j].version \/ (a[i].version = a[j].version /\ i < j)
ByVersion(a, S) == CHOOSE list \in [1 .. Cardinality(S) -> S] :
                      \A m, n \in DOMAIN list : m < n => Newer(a, list[m], list[n])

\* 1 + the largest version of a record that is not revoked.
NextVersion(a) ==
    LET live == {a[k].version : k \in {j \in Recorded(a) : a[j].status # "revoked"}}
    IN IF live = {} THEN 1 ELSE 1 + (CHOOSE v \in live : \A w \in live : w <= v)

\* Key ids are drawn at random: the next one nobody has drawn.
Drawn == Recorded(anchors) \union secrets \union cache \union public
         \union {k \in Keys : token[k].pub + token[k].priv > 0}
         \union {op[p].key : p \in Procs}
Fresh == IF Keys \subseteq Drawn THEN 0 ELSE CHOOSE k \in Keys \ Drawn : \A j \in Keys \ Drawn : k <= j

\* active_signing_key(): the plain store passes over a key past its expiry, the
\* vault takes the newest active one.  An emptied file of anchors names none.
SigningKey ==
    LET usable == IF mode = "vault" THEN Active(anchors) ELSE Active(anchors) \ dead
    IN IF usable = {} \/ "anchors" \in torn THEN 0 ELSE Head(ByVersion(anchors, usable))

----------------------------------------------------------------------------
(* Deliberate defects, paired in PROJECT.json with what they must break.   *)

\* rotate_signer issues the new key and leaves the old one active.
RetiredKept(version) == [status |-> "active", version |-> version]

\* The encrypted store leaves the new secret to the next save.
VaultUnsaved(p) ==
    /\ At(p, "vault")
    /\ cache' = op[p].held
    /\ staged' = FALSE
    /\ Return(p)
    /\ UNCHANGED <<hsmVars, mode, anchors, secrets, torn, locked, dead, revoked>>

----------------------------------------------------------------------------
(* The two-phase write of a file.                                          *)

Snapshot(p, pc) ==
    IF "anchors" \in torn THEN Finish(p)                       \* JSONDecodeError
    ELSE op' = [op EXCEPT ![p].pc = pc, ![p].snap = anchors]

Empty(p, file, pc) ==
    /\ torn' = torn \union {file}
    /\ Proceed(p, pc)

----------------------------------------------------------------------------
(* generate_keypair()                                                      *)

FirstStep == IF Hsm THEN "hsm" ELSE "draw"

AfterDraw == "record"

\* A locked vault refuses; an open one stages its secrets in a plaintext file.
Draw(p) ==
    /\ At(p, "draw")
    /\ IF locked THEN Finish(p) /\ UNCHANGED staged
       ELSE /\ Fresh # 0
            /\ op' = [op EXCEPT ![p].pc = AfterDraw, ![p].key = Fresh,
                                ![p].held = IF mode = "vault" THEN cache ELSE {}]
            /\ staged' = (staged \/ mode = "vault")
    /\ UNCHANGED <<hsmVars, mode, anchors, secrets, torn, cache, locked, dead, revoked>>

\* The HSM makes the key first; its failure ends the call.
DrawHsm(p) ==
    /\ At(p, "hsm")
    /\ IF ~up THEN Finish(p) /\ UNCHANGED hsmVars
       ELSE /\ Fresh # 0
            /\ \E extracted \in {~f : f \in Fails("extract")} :
                  /\ GenerateHsm(Mock, Fresh, extracted)
                  /\ IF extracted THEN op' = [op EXCEPT ![p].pc = "record", ![p].key = Fresh]
                     ELSE Finish(p)
    /\ UNCHANGED <<mode, disk, cache, locked, dead, revoked>>

Record(p) ==
    /\ At(p, "record")
    /\ Snapshot(p, "recordEmpty")
    /\ staged' = (staged /\ "anchors" \notin torn)             \* finally: unlink
    /\ UNCHANGED <<hsmVars, mode, anchors, secrets, torn, cache, locked, dead, revoked>>

EmptyAnchors(p) ==
    /\ op[p].pc \in {"recordEmpty", "retireEmpty", "revokeEmpty", "expireEmpty"}
    /\ Empty(p, "anchors", CASE At(p, "recordEmpty") -> "recordFill"
                             [] At(p, "retireEmpty") -> "retireFill"
                             [] At(p, "revokeEmpty") -> "revokeFill"
                             [] At(p, "expireEmpty") -> "expireFill")
    /\ UNCHANGED <<hsmVars, mode, anchors, secrets, cache, staged, locked, dead, revoked>>

FillRecord(p) ==
    /\ At(p, "recordFill")
    /\ anchors' = [op[p].snap EXCEPT ![op[p].key] =
                      [status |-> "active", version |-> NextVersion(op[p].snap)]]
    /\ torn' = torn \ {"anchors"}
    /\ IF Hsm THEN Return(p) ELSE Proceed(p, "secret")
    /\ UNCHANGED <<hsmVars, mode, secrets, cache, staged, locked, dead, revoked>>

\* The file of secrets is read; the vault's staged copy is private to the call.
Secret(p) ==
    /\ At(p, "secret")
    /\ \/ /\ mode = "vault"
          /\ op' = [op EXCEPT ![p].pc = "vault", ![p].held = @ \union {op[p].key}]
       \/ mode = "plain" /\ "secrets" \in torn /\ Finish(p)
       \/ /\ mode = "plain" /\ "secrets" \notin torn
          /\ op' = [op EXCEPT ![p].pc = "secretEmpty", ![p].held = secrets \union {op[p].key}]
    /\ UNCHANGED <<hsmVars, mode, disk, cache, locked, dead, revoked>>

EmptySecrets(p) ==
    /\ At(p, "secretEmpty")
    /\ Empty(p, "secrets", "secretFill")
    /\ UNCHANGED <<hsmVars, mode, anchors, secrets, cache, staged, locked, dead, revoked>>

FillSecrets(p) ==
    /\ At(p, "secretFill")
    /\ secrets' = op[p].held
    /\ torn' = torn \ {"secrets"}
    /\ Return(p)
    /\ UNCHANGED <<hsmVars, mode, anchors, cache, staged, locked, dead, revoked>>

\* EncryptedKeyStore: reload the cache, delete the staged file, then save the vault.
Vault(p) ==
    /\ At(p, "vault")
    /\ cache' = op[p].held
    /\ staged' = FALSE
    /\ Proceed(p, "secretEmpty")
    /\ UNCHANGED <<hsmVars, mode, anchors, secrets, torn, locked, dead, revoked>>

\* change_passphrase() unlocks with the old passphrase, an open vault too, and saves.
Rekey(p) ==
    /\ At(p, "rekey")
    /\ IF "secrets" \in torn THEN Finish(p) /\ UNCHANGED <<cache, locked>>
       ELSE /\ cache' = secrets /\ locked' = FALSE
            /\ op' = [op EXCEPT ![p].pc = "secretEmpty", ![p].held = secrets]
    /\ UNCHANGED <<hsmVars, mode, disk, dead, revoked>>

----------------------------------------------------------------------------
(* rotate_signer(), revoke(), expire_due_keys(), rotate_due_keys()         *)

RotationList(a) == ByVersion(a, Active(a))

List(p) ==
    /\ At(p, "list")
    /\ IF "anchors" \in torn THEN Finish(p)
       ELSE LET old == RotationList(anchors) IN
            op' = [op EXCEPT ![p].pc = IF old = <<>> THEN FirstStep ELSE "retire",
                             ![p].todo = [i \in DOMAIN old |-> [key |-> old[i],
                                                                version |-> anchors[old[i]].version]]]
    /\ UNCHANGED <<hsmVars, mode, disk, cache, locked, dead, revoked>>

\* One record after the other: the file is read again, the record is the listed one.
Retire(p) ==
    /\ At(p, "retire")
    /\ Snapshot(p, "retireEmpty")
    /\ UNCHANGED <<hsmVars, mode, disk, cache, locked, dead, revoked>>

Retired(version) == [status |-> "rotated", version |-> version]

FillRetired(p) ==
    /\ At(p, "retireFill")
    /\ LET rec == Head(op[p].todo) IN
       anchors' = [op[p].snap EXCEPT ![rec.key] = Retired(rec.version)]
    /\ torn' = torn \ {"anchors"}
    /\ op' = [op EXCEPT ![p].todo = Tail(@),
                        ![p].pc = IF Len(op[p].todo) = 1 THEN FirstStep ELSE "retire"]
    /\ UNCHANGED <<hsmVars, mode, secrets, cache, staged, locked, dead, revoked>>

Revoke(p) ==
    /\ At(p, "revoke")
    /\ IF op[p].key \notin Recorded(anchors) THEN Finish(p) ELSE Snapshot(p, "revokeEmpty")
    /\ UNCHANGED <<hsmVars, mode, disk, cache, locked, dead, revoked>>

FillRevoked(p) ==
    /\ At(p, "revokeFill")
    /\ anchors' = [op[p].snap EXCEPT ![op[p].key].status = "revoked"]
    /\ torn' = torn \ {"anchors"}
    /\ revoked' = revoked \union {op[p].key}
    /\ Finish(p)
    /\ UNCHANGED <<hsmVars, mode, secrets, cache, staged, locked, dead>>

ExpiredIn(a) == Active(a) \intersect dead

Expire(p) ==
    /\ At(p, "expire")
    /\ IF ExpiredIn(anchors) = {} /\ "anchors" \notin torn THEN Proceed(p, "due")
       ELSE Snapshot(p, "expireEmpty")
    /\ UNCHANGED <<hsmVars, mode, disk, cache, locked, dead, revoked>>

FillExpired(p) ==
    /\ At(p, "expireFill")
    /\ anchors' = [k \in Keys |-> IF k \in ExpiredIn(op[p].snap)
                                  THEN [op[p].snap[k] EXCEPT !.status = "expired"]
                                  ELSE op[p].snap[k]]
    /\ torn' = torn \ {"anchors"}
    /\ Proceed(p, "due")
    /\ UNCHANGED <<hsmVars, mode, secrets, cache, staged, locked, dead, revoked>>

\* rotate_due_keys(): one rotate_signer for every expired record it lists.
Due(p) ==
    /\ At(p, "due")
    /\ LET expired == {k \in Keys : anchors[k].status = "expired"} IN
       IF "anchors" \in torn \/ expired = {} THEN Finish(p)
       ELSE op' = [op EXCEPT ![p].pc = "list", ![p].left = Cardinality(expired) - 1]
    /\ UNCHANGED <<hsmVars, mode, disk, cache, locked, dead, revoked>>

----------------------------------------------------------------------------

Begin(p) ==
    /\ At(p, "idle")
    /\ mode = "plain" \/ p = Primary
    /\ calls < MaxCalls
    /\ \/ Recorded(anchors) = {} /\ op' = [op EXCEPT ![p].call = "generate", ![p].pc = FirstStep]
       \/ op' = [op EXCEPT ![p].call = "rotate", ![p].pc = "list"]
       \/ op' = [op EXCEPT ![p].call = "sweep", ![p].pc = "expire"]
       \/ \E k \in Recorded(anchors) :
             op' = [op EXCEPT ![p].call = "revoke", ![p].pc = "revoke", ![p].key = k]
       \/ /\ mode = "vault"
          /\ op' = [op EXCEPT ![p].call = "rekey", ![p].pc = "rekey"]
    /\ calls' = calls + 1
    /\ overlapped' = (overlapped \/ \E q \in Procs \ {p} : ~At(q, "idle"))
    /\ UNCHANGED <<hsmVars, mode, disk, cache, locked, dead, crashes, revoked, lost>>

Step(p) ==
    /\ \/ Draw(p) \/ DrawHsm(p) \/ Record(p) \/ EmptyAnchors(p) \/ FillRecord(p)
       \/ Secret(p) \/ EmptySecrets(p) \/ FillSecrets(p) \/ Vault(p)
       \/ List(p) \/ Retire(p) \/ FillRetired(p) \/ Revoke(p) \/ FillRevoked(p)
       \/ Expire(p) \/ FillExpired(p) \/ Due(p) \/ Rekey(p)
    /\ UNCHANGED <<calls, crashes, lost, overlapped>>

Lock ==
    /\ mode = "vault" /\ ~locked
    /\ At(Primary, "idle")
    /\ locked' = TRUE /\ cache' = {}
    /\ UNCHANGED <<hsmVars, mode, disk, dead, op, calls, crashes, revoked, lost, overlapped>>

Unlock ==
    /\ mode = "vault" /\ locked
    /\ At(Primary, "idle")
    /\ "secrets" \notin torn
    /\ locked' = FALSE /\ cache' = secrets
    /\ UNCHANGED <<hsmVars, mode, disk, dead, op, calls, crashes, revoked, lost, overlapped>>

\* Operations on the backend itself, by its own ids.
Backend ==
    /\ Hsm
    /\ \/ Initialize \/ CloseHsm
       \/ /\ calls < MaxCalls
          /\ \E k \in Keys, failed \in BOOLEAN :
                \/ failed \in Fails("import") /\ ImportHsm(Mock, k, ~failed)
                \/ failed \in Fails("destroy") /\ RevokeHsm(Mock, k, failed)
                \/ /\ failed \in Fails("extract")
                   /\ \E new \in Keys : RotateHsm(Mock, k, new, ~failed)
    /\ calls' = IF up /\ up' THEN calls + 1 ELSE calls
    /\ UNCHANGED <<mode, disk, cache, locked, dead, op, crashes, revoked, lost, overlapped>>

PassExpiry(k) ==
    /\ k \in Active(anchors) \ dead
    /\ dead' = dead \union {k}
    /\ UNCHANGED <<hsmVars, mode, disk, cache, locked, op, calls, crashes, revoked, lost, overlapped>>

\* The record of the key is written, its secret is not.
Storing == {"secret", "vault", "secretEmpty", "secretFill"}

\* A process is lost and started again; its vault is not unlocked yet.
Crash(p) ==
    /\ ~At(p, "idle")
    /\ crashes < MaxCrashes
    /\ crashes' = crashes + 1
    /\ lost' = lost \union {k \in Keys : k = op[p].key /\ op[p].pc \in Storing}
    /\ Finish(p)
    /\ locked' = (mode = "vault") /\ cache' = {}
    /\ IF Hsm THEN HsmLost ELSE UNCHANGED hsmVars
    /\ UNCHANGED <<mode, disk, dead, calls, revoked, overlapped>>

StoreNext ==
    \/ \E p \in Procs : Begin(p) \/ Step(p) \/ Crash(p)
    \/ \E k \in Keys : PassExpiry(k)
    \/ Lock \/ Unlock \/ Backend

StoreSpec == StoreInit /\ [][StoreNext]_keyVars

----------------------------------------------------------------------------
(* Properties.                                                             *)

Quiet == \A p \in Procs : At(p, "idle")

\* Calls one after the other, interrupted anywhere, leave one signer at most,
\* rotate_signer retires before it issues (keys.py:244), and never trust a
\* revoked key again: rotation writes back only records it listed as active.
OneSigner ==
    ~overlapped =>
        /\ Cardinality(Active(anchors)) <= 1
        /\ \A k \in revoked : anchors[k].status = "revoked"

\* Calls one after the other, lost anywhere: the key active_signing_key picks has
\* its secret in the file, or in the vault and in its open cache (keys.py:234).
\* A process lost inside a call costs no key its secret but the one it was issuing,
\* between keys.py:187 and keys.py:193, or leaves the file of secrets empty.
SignerHasSecret ==
    (~overlapped /\ Quiet /\ ~Hsm /\ SigningKey # 0 /\ "secrets" \notin torn) =>
        \/ SigningKey \in lost
        \/ /\ SigningKey \in secrets
           /\ (mode = "vault" /\ ~locked) => SigningKey \in cache

\* "Returns (key_id, secret_key_bytes) for the newest active signer" (keys.py:225),
\* lost processes included.
SignerCanSign ==
    (~overlapped /\ Quiet /\ ~Hsm /\ SigningKey # 0) => SigningKey \in secrets /\ "secrets" \notin torn

\* A key revoked in the HSM never signs again, rotations, imports and restarts
\* included (docs/HSM_IMPLEMENTATION.md:120), as long as the token destroys what
\* it is told to.
RevokedNeverSigns == Hsm => \A k \in condemned : ~Signs(Mock, k)

\* rotate_due_keys rotates expired and over-age signers (keys.py:292,
\* docs/KEY_MANAGEMENT.md:53): it retires no key that is in its lifetime.
SweepKeepsHealthy ==
    \A p \in Procs : (op[p].call = "sweep" /\ At(p, "retireFill") /\ ~overlapped) =>
        Head(op[p].todo).key \in dead
=============================================================================
