------------------------- MODULE TrustFinalization -------------------------
(***************************************************************************)
(* TRUST-SAT finalization of one supervised run (TrustService.finalize,    *)
(* satsa/analysis/trust.py): the reviewed state is canonicalized, prepared *)
(* as a row, signed, recorded with its receipt, appended to the ledger,    *)
(* verified and sealed.  A worker may die, or lose its lease and be        *)
(* replaced, between any two statements; the replacement runs the same     *)
(* procedure again from the top over whatever the first one left.          *)
(*                                                                         *)
(* One action is one transaction or one autocommitted statement, but the   *)
(* transaction after signing is two: it looks at the live state, then      *)
(* inserts.  In between PostgreSQL has locked the finalization row only,   *)
(* SQLite keeps every other writer out.  The ledger is the sequence that   *)
(* EvidenceLedger maintains, its append lock held for a whole record_once. *)
(* A claim's number stands for what is fresh in it: its signature and its  *)
(* readings of the clock.                                                  *)
(***************************************************************************)
EXTENDS Naturals, Sequences, FiniteSets

CONSTANTS
    Workers,       \* worker processes
    MaxClaims,     \* bound: claims of the run's job (its max_attempts)
    MaxChanges,    \* bound: edits of the run's live canonical state
    None           \* no owner

ASSUME WorkersAssumption == None \notin Workers
ASSUME BoundsAssumption  == MaxClaims \in Nat /\ MaxChanges \in Nat

VARIABLES
    dialect,   \* the database engine of this behaviour
    bound,     \* the decision row carries a review_context_digest
    live,      \* version of the run's live canonical state; 0 was reviewed
    row,       \* satsa_trust_finalizations, state "none" when absent
    receipts,  \* satsa_trust_receipts rows of this finalization
    ledger,    \* entries about this finalization, in chain order
    owner,     \* worker whose lease of the run's job is current
    claims,    \* claims of the job so far
    fz,        \* local state of each worker inside finalize
    failed     \* the lease holder's finalize raised: the run is failed

vars == <<dialect, bound, live, row, receipts, ledger, owner, claims, fz, failed>>

Claims   == 1..MaxClaims
Versions == 0..MaxChanges
Reviewed == 0
Unset    == 0   \* SQL NULL in a column that holds a claim's fresh value

Events   == {"started", "final", "completed"}
RowState == {"none", "prepared", "recorded", "verified"}
PC == {"idle", "canonicalize", "prepare", "compare", "start", "record", "insert",
       "reread", "append", "bind", "verify", "stamp", "settle", "complete", "seal"}

\* The statements that a call of boundary() precedes.
Fenced == {"prepare", "start", "record", "append", "bind", "stamp"}

NoRow == [state |-> "none", digest |-> Reviewed, created |-> Unset, receipt |-> Unset,
          entry |-> Unset, verifiedAt |-> Unset]

Idle == [pc |-> "idle", checked |-> FALSE, claim |-> Unset, digest |-> Reviewed,
         read |-> Unset, entry |-> Unset]

Init ==
    /\ dialect \in {"sqlite", "postgresql"}
    /\ bound \in BOOLEAN
    /\ live = Reviewed
    /\ row = NoRow
    /\ receipts = {}
    /\ ledger = <<>>
    /\ owner = None
    /\ claims = 0
    /\ fz = [w \in Workers |-> Idle]
    /\ failed = FALSE

At(w, pc) == fz[w].pc = pc /\ (pc \in Fenced => fz[w].checked)

Goto(w, pc) == fz' = [fz EXCEPT ![w].pc = pc, ![w].checked = FALSE]

\* finalize raises: the lease holder fails the run, fail() of a fenced worker
\* changes nothing.
Refuse(w) ==
    /\ fz' = [fz EXCEPT ![w] = Idle]
    /\ failed' = (failed \/ owner = w)

\* supervisory_document raises when the reviewed context is bound and changed.
Readable == bound => live = Reviewed

\* Some worker is inside the transaction after signing: a statement that
\* updates the row waits for it, and on SQLite every writing transaction does.
Signing    == \E w \in Workers : fz[w].pc = "insert"
RowIsFree  == ~ Signing
MayWrite   == dialect = "sqlite" => ~ Signing

Entries(event) == {i \in 1..Len(ledger) : ledger[i].event = event}

\* record_once finds an entry of this event whose body differs.
Conflicts(event, body) == \E i \in Entries(event) : ledger[i].body # body

\* record_once appends the event unless the chain has it.
RecordOnce(event, body) ==
    ledger' = IF Entries(event) # {} THEN ledger
              ELSE Append(ledger, [event |-> event, body |-> body])

\* The entry hash record_once returned.
HashOf(event, entries) ==
    CHOOSE i \in 1..Len(entries) : entries[i].event = event

----------------------------------------------------------------------------
(* Deliberate defects, paired in PROJECT.json with what they must break.   *)

\* The INSERT has no ON CONFLICT clause.
PrepareStrict(w) ==
    /\ At(w, "prepare") /\ MayWrite
    /\ IF row.state = "none"
       THEN /\ row' = [NoRow EXCEPT !.state = "prepared", !.digest = fz[w].digest,
                                    !.created = fz[w].claim]
            /\ Goto(w, "compare")
            /\ UNCHANGED failed
       ELSE Refuse(w) /\ UNCHANGED row
    /\ UNCHANGED <<dialect, bound, live, receipts, ledger, owner, claims>>

\* verify_finalization compares the receipt with the row, not the live state.
VerifiesStored ==
    \E r \in receipts :
      /\ r.sig = row.receipt
      /\ r.digest = row.digest
      /\ \E i \in Entries("final") : Entries("final") = {i} /\ ledger[i].body = r.sig
                                     /\ row.entry = i

\* The row is sealed before its completion event is in the ledger.
SettleSealing(w) ==
    /\ At(w, "settle") /\ RowIsFree
    /\ fz' = [fz EXCEPT ![w].pc = "complete", ![w].read = row.verifiedAt]
    /\ row' = [row EXCEPT !.state = "verified"]
    /\ UNCHANGED <<dialect, bound, live, receipts, ledger, owner, claims, failed>>

\* Every verification stamps its own time.
StampAgain(w) ==
    /\ At(w, "stamp") /\ RowIsFree
    /\ row' = [row EXCEPT !.verifiedAt = fz[w].claim]
    /\ Goto(w, "settle")
    /\ UNCHANGED <<dialect, bound, live, receipts, ledger, owner, claims, failed>>

----------------------------------------------------------------------------
(* The lease of the run's job, and the boundaries that look at it.         *)

\* A worker claims the job and reaches finalize.  The previous owner may be
\* dead, or alive with a lease that ran out; a run whose finalize returned is
\* claimed again when its worker died before complete().
Claim(w) ==
    /\ ~failed
    /\ claims < MaxClaims
    /\ fz[w].pc = "idle"
    /\ claims' = claims + 1
    /\ owner' = w
    /\ fz' = [fz EXCEPT ![w] = [Idle EXCEPT !.pc = "canonicalize", !.claim = claims']]
    /\ UNCHANGED <<dialect, bound, live, row, receipts, ledger, failed>>

\* The process dies.  Bound: the worker of the last claim is not killed.
Crash(w) ==
    /\ fz[w].pc # "idle"
    /\ claims < MaxClaims
    /\ fz' = [fz EXCEPT ![w] = Idle]
    /\ UNCHANGED <<dialect, bound, live, row, receipts, ledger, owner, claims, failed>>

\* boundary(): a worker whose lease was taken over stops here.
Boundary(w) ==
    /\ fz[w].pc \in Fenced
    /\ ~fz[w].checked
    /\ fz' = IF owner = w THEN [fz EXCEPT ![w].checked = TRUE]
                          ELSE [fz EXCEPT ![w] = Idle]
    /\ UNCHANGED <<dialect, bound, live, row, receipts, ledger, owner, claims, failed>>

\* Something rewrites what the document is computed from (a resumed stage adds
\* findings, an inference or a briefing is stored).
Change ==
    /\ MayWrite
    /\ live < MaxChanges
    /\ live' = live + 1
    /\ UNCHANGED <<dialect, bound, row, receipts, ledger, owner, claims, fz, failed>>

----------------------------------------------------------------------------
(* finalize, statement by statement.                                       *)

Canonicalize(w) ==
    /\ At(w, "canonicalize")
    /\ IF Readable
       THEN /\ fz' = [fz EXCEPT ![w].pc = "prepare", ![w].digest = live]
            /\ UNCHANGED failed
       ELSE Refuse(w)
    /\ UNCHANGED <<dialect, bound, live, row, receipts, ledger, owner, claims>>

\* INSERT ... ON CONFLICT DO NOTHING
Prepare(w) ==
    /\ At(w, "prepare") /\ MayWrite
    /\ row' = IF row.state = "none"
              THEN [NoRow EXCEPT !.state = "prepared", !.digest = fz[w].digest,
                                 !.created = fz[w].claim]
              ELSE row
    /\ Goto(w, "compare")
    /\ UNCHANGED <<dialect, bound, live, receipts, ledger, owner, claims, failed>>

\* The row is read back; it must be the one this document makes.
Compare(w) ==
    /\ At(w, "compare")
    /\ IF row.digest = fz[w].digest
       THEN /\ fz' = [fz EXCEPT ![w].pc = "start", ![w].read = row.receipt]
            /\ UNCHANGED failed
       ELSE Refuse(w)
    /\ UNCHANGED <<dialect, bound, live, row, receipts, ledger, owner, claims>>

\* finalization_started; then the row as read before decides about signing.
Start(w) ==
    /\ At(w, "start") /\ MayWrite
    /\ IF Conflicts("started", row.created)
       THEN Refuse(w) /\ UNCHANGED ledger
       ELSE /\ RecordOnce("started", row.created)
            /\ Goto(w, IF fz[w].read = Unset THEN "record" ELSE "reread")
            /\ UNCHANGED failed
    /\ UNCHANGED <<dialect, bound, live, row, receipts, owner, claims>>

\* The transaction after signing: the row is read again under a lock, and if
\* it has no receipt yet the live state must still be what was signed.
Record(w) ==
    /\ At(w, "record") /\ RowIsFree
    /\ \/ /\ row.receipt # Unset
          /\ Goto(w, "reread")
          /\ UNCHANGED failed
       \/ /\ row.receipt = Unset
          /\ Readable /\ live = fz[w].digest
          /\ Goto(w, "insert")
          /\ UNCHANGED failed
       \/ /\ row.receipt = Unset
          /\ ~(Readable /\ live = fz[w].digest)
          /\ Refuse(w)
    /\ UNCHANGED <<dialect, bound, live, row, receipts, ledger, owner, claims>>

\* The receipt and the row's link to it, committed together.  A receipt's `at`
\* is history: the version of the live state when it was inserted.
Insert(w) ==
    /\ At(w, "insert")
    /\ IF receipts = {}
       THEN /\ receipts' = {[sig |-> fz[w].claim, digest |-> fz[w].digest, at |-> live]}
            /\ row' = [row EXCEPT !.receipt = fz[w].claim, !.state = "recorded"]
            /\ Goto(w, "reread")
            /\ UNCHANGED failed
       ELSE Refuse(w) /\ UNCHANGED <<row, receipts>>
    /\ UNCHANGED <<dialect, bound, live, ledger, owner, claims>>

Reread(w) ==
    /\ At(w, "reread")
    /\ fz' = [fz EXCEPT ![w].pc = "append", ![w].read = row.receipt, ![w].checked = FALSE]
    /\ UNCHANGED <<dialect, bound, live, row, receipts, ledger, owner, claims, failed>>

\* supervisory_finalized: the event carries the receipt's signature digest.
AppendFinal(w) ==
    /\ At(w, "append") /\ MayWrite
    /\ IF (\A r \in receipts : r.sig # fz[w].read) \/ Conflicts("final", fz[w].read)
       THEN Refuse(w) /\ UNCHANGED ledger
       ELSE /\ RecordOnce("final", fz[w].read)
            /\ fz' = [fz EXCEPT ![w].pc = "bind", ![w].checked = FALSE,
                                ![w].entry = HashOf("final", ledger')]
            /\ UNCHANGED failed
    /\ UNCHANGED <<dialect, bound, live, row, receipts, owner, claims>>

Bind(w) ==
    /\ At(w, "bind") /\ RowIsFree
    /\ row' = [row EXCEPT !.entry = fz[w].entry]
    /\ Goto(w, "verify")
    /\ UNCHANGED <<dialect, bound, live, receipts, ledger, owner, claims, failed>>

\* verify_finalization: live state, receipt and ledger agree with the row.
Verifies ==
    /\ Readable /\ live = row.digest
    /\ \E r \in receipts :
         /\ r.sig = row.receipt
         /\ r.digest = row.digest
         /\ \E i \in Entries("final") : Entries("final") = {i} /\ ledger[i].body = r.sig
                                        /\ row.entry = i

Verify(w) ==
    /\ At(w, "verify") /\ MayWrite
    /\ IF Verifies THEN Goto(w, "stamp") /\ UNCHANGED failed ELSE Refuse(w)
    /\ UNCHANGED <<dialect, bound, live, row, receipts, ledger, owner, claims>>

\* verified_at = COALESCE(verified_at, now)
Stamp(w) ==
    /\ At(w, "stamp") /\ RowIsFree
    /\ row' = [row EXCEPT !.verifiedAt = IF @ = Unset THEN fz[w].claim ELSE @]
    /\ Goto(w, "settle")
    /\ UNCHANGED <<dialect, bound, live, receipts, ledger, owner, claims, failed>>

\* The row is read back for the time the completion event carries.
Settle(w) ==
    /\ At(w, "settle")
    /\ fz' = [fz EXCEPT ![w].pc = "complete", ![w].read = row.verifiedAt]
    /\ UNCHANGED <<dialect, bound, live, row, receipts, ledger, owner, claims, failed>>

\* trust.verification_completed
Complete(w) ==
    /\ At(w, "complete") /\ MayWrite
    /\ IF Conflicts("completed", fz[w].read)
       THEN Refuse(w) /\ UNCHANGED ledger
       ELSE /\ RecordOnce("completed", fz[w].read)
            /\ Goto(w, "seal")
            /\ UNCHANGED failed
    /\ UNCHANGED <<dialect, bound, live, row, receipts, owner, claims>>

\* finalize returns; the worker goes on to complete() or dies before it.
Seal(w) ==
    /\ At(w, "seal") /\ RowIsFree
    /\ row' = [row EXCEPT !.state = "verified"]
    /\ fz' = [fz EXCEPT ![w] = Idle]
    /\ UNCHANGED <<dialect, bound, live, receipts, ledger, owner, claims, failed>>

Step(w) ==
    \/ Boundary(w)
    \/ Canonicalize(w)
    \/ Prepare(w)
    \/ Compare(w)
    \/ Start(w)
    \/ Record(w)
    \/ Insert(w)
    \/ Reread(w)
    \/ AppendFinal(w)
    \/ Bind(w)
    \/ Verify(w)
    \/ Stamp(w)
    \/ Settle(w)
    \/ Complete(w)
    \/ Seal(w)

Next ==
    \/ Change
    \/ \E w \in Workers : Claim(w) \/ Crash(w) \/ Step(w)

Spec == Init /\ [][Next]_vars

\* worker_main polls, and the lease of a worker that died runs out: a job whose
\* owner no longer works on it is claimed.  A live process executes.
Abandoned == owner = None \/ fz[owner].pc = "idle"

Fairness ==
    /\ WF_vars(Abandoned /\ \E w \in Workers : Claim(w))
    /\ \A w \in Workers : WF_vars(Step(w))

FairSpec == Spec /\ Fairness

----------------------------------------------------------------------------
(* Properties.                                                             *)

Claimed == Claims \union {Unset}

\* Every variable keeps its type.
TypeOK ==
    /\ dialect \in {"sqlite", "postgresql"}
    /\ bound \in BOOLEAN
    /\ live \in Versions
    /\ row \in [state : RowState, digest : Versions, created : Claimed,
                receipt : Claimed, entry : Nat, verifiedAt : Claimed]
    /\ receipts \subseteq [sig : Claims, digest : Versions, at : Versions]
    /\ ledger \in Seq([event : Events, body : Claimed])
    /\ owner \in Workers \union {None}
    /\ claims \in 0..MaxClaims
    /\ fz \in [Workers -> [pc : PC, checked : BOOLEAN, claim : Claimed,
                           digest : Versions, read : Claimed, entry : Nat]]
    /\ failed \in BOOLEAN

\* While nobody edits what the supervisor reviewed, no interleaving of crashed,
\* overtaken and resumed workers makes finalize raise in the lease holder's
\* hands (a conflicting idempotent event, a second receipt, a mismatching row),
\* which would fail a run that was reviewed and is correct.
OnlyEditsRefuse == failed => live # Reviewed

\* A finalization in state verified is whole: its one receipt signs its digest,
\* the ledger holds the three events once each, in order, with the bodies the
\* row still gives them, and the row is bound to the final event's entry.
VerifiedIsComplete ==
    row.state = "verified" =>
        /\ \E r \in receipts : receipts = {r} /\ r.sig = row.receipt /\ r.digest = row.digest
        /\ row.entry = 2
        /\ ledger = << [event |-> "started", body |-> row.created],
                       [event |-> "final", body |-> row.receipt],
                       [event |-> "completed", body |-> row.verifiedAt] >>

\* A finalization is not reported verified over a state that was edited before
\* its receipt was in the database, by whatever worker signed and whatever
\* worker verified: on PostgreSQL the edit may commit between the second look at
\* the live state and the INSERT, and only verify_finalization notices it.
VerifiedSignedLiveState == row.verifiedAt # Unset => \A r \in receipts : r.at = r.digest

\* If nobody edits the reviewed state, the run ends with a verified
\* finalization, however its workers died and took over from each other.
FinalizationCompletes == [](live = Reviewed) => <>(row.state = "verified")

\* Refuted on PostgreSQL: what the comment in finalize says of the look after
\* signing ("never silently bind changed data").  The look locks the finalization
\* row, not the rows the document is computed from.
SignsOnlyLiveState == \A r \in receipts : r.at = r.digest
=============================================================================
