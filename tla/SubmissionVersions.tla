------------------------ MODULE SubmissionVersions ------------------------
(***************************************************************************)
(* One version of a submission (satsa/submissions/service.py): concurrent  *)
(* requests upload evidence artifacts, complete the uploads and validate,  *)
(* each in several statements and transactions with object storage between *)
(* them, and the process of a request may be lost at any point.            *)
(*                                                                         *)
(* One action is one statement outside a transaction, one transaction, or  *)
(* one call of the storage.  A version has at most one artifact row per    *)
(* category, so the category stands for the row's id; the storage key is   *)
(* the category and the digest of the bytes.                               *)
(***************************************************************************)
EXTENDS Naturals, FiniteSets

CONSTANTS
    Categories,  \* evidence categories of an artifact
    Alerts,      \* the category every version needs
    Keys,        \* idempotency keys of upload requests
    Contents,    \* what an uploaded file may contain
    Uploads,     \* the upload requests there are
    Clients,     \* concurrent requests, one process each
    None         \* no artifact, no request, no report

ASSUME CategoriesAssumption == Alerts \in Categories /\ None \notin Keys
ASSUME UploadsAssumption ==
    Uploads \subseteq [category : Categories, key : Keys, bytes : Contents]

VARIABLES
    status,  \* satsa_submission_versions.status
    row,     \* satsa_artifacts by category: key, bytes, storage_status
    blob,    \* the contents held by object storage, by category
    report,  \* satsa_validation_reports: outcome and the artifacts it covers
    cl       \* local state of the requests

vars == <<status, row, blob, report, cl>>

NoRow == [key |-> None, bytes |-> None, state |-> "none"]
Outcomes == {"valid", "invalid", "failed"}
Idle == [pc |-> "idle", up |-> None, seen |-> "none", read |-> None]

Init ==
    /\ status = "created"
    /\ row = [c \in Categories |-> NoRow]
    /\ blob = [c \in Categories |-> {}]
    /\ report = None
    /\ cl = [p \in Clients |-> Idle]

At(p, pc)   == cl[p].pc = pc
Goto(p, pc) == cl' = [cl EXCEPT ![p].pc = pc]
Return(p)   == cl' = [cl EXCEPT ![p] = Idle]

Open    == {"created", "uploading"}
Present == {c \in Categories : row[c] # NoRow}
AllStored(rows) == \A c \in Categories : rows[c].state \in {"none", "stored"}

----------------------------------------------------------------------------
(* upload().                                                               *)

\* The row found for an upload's key, in the category it was made for.
KeyUsed(u)  == \E c \in Present : row[c].key = u.key
Matches(u)  == row[u.category].key = u.key /\ row[u.category].bytes = u.bytes

\* _version(): the status is read here and used later.
Upload(p, u) ==
    /\ At(p, "idle")
    /\ cl' = [cl EXCEPT ![p] = [Idle EXCEPT !.pc = "find", !.up = u, !.seen = status]]
    /\ UNCHANGED <<status, row, blob, report>>

\* An upload that meets its own row returns it when stored and else resumes it.
Resume(p) ==
    LET u == cl[p].up
    IN  IF Matches(u) /\ row[u.category].state # "stored" THEN Goto(p, "put") ELSE Return(p)

Find(p) ==
    /\ At(p, "find")
    /\ IF cl[p].seen \notin Open THEN Return(p)
       ELSE IF KeyUsed(cl[p].up) THEN Resume(p)
       ELSE Goto(p, "category")
    /\ UNCHANGED <<status, row, blob, report>>

CheckCategory(p) ==
    /\ At(p, "category")
    /\ Goto(p, IF cl[p].up.category \in Present THEN "replay" ELSE "intent")
    /\ UNCHANGED <<status, row, blob, report>>

\* The lookup by key, again, once the category turned out to be taken.
Replay(p) ==
    /\ At(p, "replay")
    /\ Resume(p)
    /\ UNCHANGED <<status, row, blob, report>>

\* Defect: the status read before the transaction is trusted.
IntentUnchecked(p) ==
    LET u == cl[p].up
    IN  /\ At(p, "intent")
        /\ IF u.category \in Present \/ KeyUsed(u)
           THEN Goto(p, "replay") /\ UNCHANGED <<status, row>>
           ELSE /\ status' = IF status \in Open THEN "uploading" ELSE status
                /\ row' = [row EXCEPT ![u.category] =
                             [key |-> u.key, bytes |-> u.bytes, state |-> "uploading"]]
                /\ Goto(p, "put")
        /\ UNCHANGED <<blob, report>>

\* The intent transaction; a duplicate category or key rolls it back.
Intent(p) ==
    LET u == cl[p].up
    IN  /\ At(p, "intent")
        /\ IF status \notin Open
           THEN Return(p) /\ UNCHANGED <<status, row>>
           ELSE IF u.category \in Present \/ KeyUsed(u)
           THEN Goto(p, "replay") /\ UNCHANGED <<status, row>>
           ELSE /\ status' = "uploading"
                /\ row' = [row EXCEPT ![u.category] =
                             [key |-> u.key, bytes |-> u.bytes, state |-> "uploading"]]
                /\ Goto(p, "put")
        /\ UNCHANGED <<blob, report>>

\* storage.put_file, which may raise.
Put(p) ==
    LET u == cl[p].up
    IN  /\ At(p, "put")
        /\ \/ /\ blob' = [blob EXCEPT ![u.category] = @ \union {u.bytes}]
              /\ Goto(p, "mark")
           \/ Goto(p, "fail") /\ UNCHANGED blob
        /\ UNCHANGED <<status, row, report>>

Mark(p) ==
    /\ At(p, "mark")
    /\ row' = [row EXCEPT ![cl[p].up.category].state =
                 IF @ \in {"uploading", "failed"} THEN "stored" ELSE @]
    /\ Return(p)
    /\ UNCHANGED <<status, blob, report>>

Fail(p) ==
    /\ At(p, "fail")
    /\ row' = [row EXCEPT ![cl[p].up.category].state =
                 IF @ = "uploading" THEN "failed" ELSE @]
    /\ Return(p)
    /\ UNCHANGED <<status, blob, report>>

----------------------------------------------------------------------------
(* complete_uploads().                                                     *)

Complete(p) ==
    /\ At(p, "idle")
    /\ status = "uploading"
    /\ Goto(p, "artifacts")
    /\ UNCHANGED <<status, row, blob, report>>

CheckStored(p) ==
    /\ At(p, "artifacts")
    /\ IF AllStored(row) /\ Alerts \in Present THEN Goto(p, "close") ELSE Return(p)
    /\ UNCHANGED <<status, row, blob, report>>

\* UPDATE ... SET status='uploaded' WHERE status='uploading'
Close(p) ==
    /\ At(p, "close")
    /\ status' = IF status = "uploading" THEN "uploaded" ELSE status
    /\ Return(p)
    /\ UNCHANGED <<row, blob, report>>

----------------------------------------------------------------------------
(* validate().                                                             *)

Validate(p) ==
    /\ At(p, "idle")
    /\ status = "uploaded"
    /\ Goto(p, "report")
    /\ UNCHANGED <<status, row, blob, report>>

CheckReport(p) ==
    /\ At(p, "report")
    /\ IF report = None THEN Goto(p, "rows") ELSE Return(p)
    /\ UNCHANGED <<status, row, blob, report>>

ReadArtifacts(p) ==
    /\ At(p, "rows")
    /\ IF AllStored(row)
       THEN cl' = [cl EXCEPT ![p].pc = "claim", ![p].read = row]
       ELSE Return(p)
    /\ UNCHANGED <<status, row, blob, report>>

\* UPDATE ... SET status='validating' WHERE status='uploaded' RETURNING id
Claim(p) ==
    /\ At(p, "claim")
    /\ IF status = "uploaded"
       THEN status' = "validating" /\ Goto(p, "check")
       ELSE Return(p) /\ UNCHANGED status
    /\ UNCHANGED <<row, blob, report>>

\* The transaction that ends _validate_claimed: records, report, both statuses.
\* The outcome is what parsing made of the files, or "failed" for storage errors.
Commit(p) ==
    /\ At(p, "check")
    /\ report = None
    /\ \E outcome \in Outcomes :
          /\ status' = outcome
          /\ report' = [outcome |-> outcome, rows |-> cl[p].read]
    /\ Goto(p, "audit")
    /\ UNCHANGED <<row, blob>>

\* Parsing, the commit or the audit append raises; else validate() returns.
Interrupt(p) ==
    /\ cl[p].pc \in {"check", "audit"}
    /\ Goto(p, "reset")
    /\ UNCHANGED <<status, row, blob, report>>

Done(p) ==
    /\ At(p, "audit")
    /\ Return(p)
    /\ UNCHANGED <<status, row, blob, report>>

\* Defect: the reset does not look at the status.
ResetUnguarded(p) ==
    /\ At(p, "reset")
    /\ status' = "uploaded"
    /\ Return(p)
    /\ UNCHANGED <<row, blob, report>>

\* UPDATE ... SET status='uploaded' WHERE status='validating'
Reset(p) ==
    /\ At(p, "reset")
    /\ status' = IF status = "validating" THEN "uploaded" ELSE status
    /\ Return(p)
    /\ UNCHANGED <<row, blob, report>>

----------------------------------------------------------------------------
\* The process of a request is lost.
Crash(p) ==
    /\ ~At(p, "idle")
    /\ Return(p)
    /\ UNCHANGED <<status, row, blob, report>>

Next ==
    \E p \in Clients :
        \/ \E u \in Uploads : Upload(p, u)
        \/ Find(p) \/ CheckCategory(p) \/ Replay(p) \/ Intent(p) \/ Put(p) \/ Mark(p) \/ Fail(p)
        \/ Complete(p) \/ CheckStored(p) \/ Close(p)
        \/ Validate(p) \/ CheckReport(p) \/ ReadArtifacts(p) \/ Claim(p) \/ Commit(p)
        \/ Interrupt(p) \/ Done(p) \/ Reset(p) \/ Crash(p)

Spec == Init /\ [][Next]_vars

----------------------------------------------------------------------------
(* Properties.                                                             *)

Rows == [key : Keys \union {None}, bytes : Contents \union {None},
         state : {"none", "uploading", "stored", "failed"}]
PC == {"idle", "find", "category", "replay", "intent", "put", "mark", "fail", "artifacts",
       "close", "report", "rows", "claim", "check", "audit", "reset"}

\* Every variable keeps its type, and a version is created until it has an artifact.
TypeOK ==
    /\ status = "created" <=> Present = {}
    /\ status \in Open \union Outcomes \union {"uploaded", "validating"}
    /\ row \in [Categories -> Rows]
    /\ blob \in [Categories -> SUBSET Contents]
    /\ report = None \/ report \in [outcome : Outcomes, rows : [Categories -> Rows]]
    /\ DOMAIN cl = Clients
    /\ \A p \in Clients : cl[p].pc \in PC /\ cl[p].up \in Uploads \union {None}

\* A validation report speaks of every artifact of the version, the alerts among
\* them, and each is marked stored with its bytes in storage, although uploads
\* that began while the version was open run on beside the completion and the
\* validation, and a retried upload resumes the intent of another.
ReportCoversAll ==
    report # None =>
        /\ report.rows = row /\ AllStored(row) /\ Alerts \in Present
        /\ \A c \in Present : row[c].bytes \in blob[c]

\* Once a version has its outcome, no request changes anything of it.
OutcomeIsFrozen ==
    [][(status \in Outcomes) => UNCHANGED <<status, row, report>> ]_vars
=============================================================================
