-------------------------- MODULE PlatformRegistry --------------------------
(***************************************************************************)
(* The platform's model registry and governed deployment of one model      *)
(* (qsmlops/registry/registry.py, qsmlops/serving/deployment.py, and the   *)
(* request_approval and approve_and_deploy of qsmlops/pipeline/selfheal.py).*)
(*                                                                         *)
(* Requests run on threads of the API (and in the CLI's process) against   *)
(* one SQLite file.  An operation is a sequence of statements, each read   *)
(* or write committed on its own: a transition reads the state, checks     *)
(* TRANSITIONS, then updates without a condition.  A step below is one such*)
(* statement; a restart loses the operations that were under way.          *)
(*                                                                         *)
(* What the gates look at is abstracted to evidence[v]: "sound" passes     *)
(* every gate; "unfit" passes verification and approval but not            *)
(* DeploymentService.validate (rotated signer key, mismatched environment);*)
(* "broken" (revoked key, corrupted artifact) passes none.                 *)
(***************************************************************************)
EXTENDS Naturals, Sequences, FiniteSets

CONSTANTS
    Versions,   \* registered versions of the model
    Threads,    \* requests served at the same time
    Ops,        \* operations the instance lets them call
    MaxRows,    \* bound: rows of the deployments table
    MaxCalls,   \* bound: operations begun
    MaxFaults,  \* bound: restarts and changes of evidence
    None        \* no version, no operation

AllOps == {"verify", "approve", "promote", "request", "rollback", "quarantine", "revoke"}

ASSUME OpsAssumption    == Ops \subseteq AllOps
ASSUME NoneAssumption   == None \notin Versions \union AllOps
ASSUME BoundsAssumption == MaxRows \in Nat /\ MaxCalls \in Nat /\ MaxFaults \in Nat

VARIABLES
    state,      \* model_versions.state
    recent,     \* the versions by updated_at: 1 is the latest
    rows,       \* deployments, in the order of deployed_at
    evidence,   \* what the gates find when they look at a version
    th,         \* the operation of each thread and where it is
    calls,      \* operations begun so far
    faults,     \* restarts and changes of evidence so far
    past,       \* history: versions ever verified and approved
    seen,       \* history: versions eligible at some moment of a thread's operation
    overlapped  \* history: two operations have been under way at once

vars == <<state, recent, rows, evidence, th, calls, faults, past, seen, overlapped>>

Transitions ==
    [REGISTERED  |-> {"VERIFIED", "QUARANTINED", "REVOKED"},
     VERIFIED    |-> {"APPROVED", "QUARANTINED", "REVOKED"},
     APPROVED    |-> {"DEPLOYED", "QUARANTINED", "REVOKED"},
     DEPLOYED    |-> {"ROLLED_BACK", "QUARANTINED", "REVOKED", "DEPLOYED"},
     QUARANTINED |-> {"VERIFIED", "REVOKED"},
     ROLLED_BACK |-> {"VERIFIED", "QUARANTINED", "REVOKED"},
     REVOKED     |-> {}]

States       == DOMAIN Transitions
ActiveStates == {"VERIFIED", "APPROVED", "DEPLOYED"}
Statements   == {"idle", "checks", "verdict", "read", "write", "approval", "trust", "gate",
                 "validate", "deactivate", "insert", "post", "active", "previous", "retire",
                 "retired", "revocable"}

Idle == [op |-> None, pc |-> "idle", v |-> None, to |-> "REGISTERED", cur |-> "REGISTERED",
         prev |-> None, row |-> 0]

Orders == {f \in [Versions -> 1 .. Cardinality(Versions)] : \A v, w \in Versions : f[v] = f[w] => v = w}

Init ==
    /\ state = [v \in Versions |-> "REGISTERED"]
    /\ recent \in Orders
    /\ rows = <<>>
    /\ evidence = [v \in Versions |-> "sound"]
    /\ th = [t \in Threads |-> Idle]
    /\ calls = 0 /\ faults = 0
    /\ past = [verified |-> {}, approved |-> {}]
    /\ seen = [t \in Threads |-> {}]
    /\ overlapped = FALSE

----------------------------------------------------------------------------
(* Reads and the steps of an operation.                                    *)

At(t, pc)     == th[t].pc = pc
Goto(t, pc)   == th' = [th EXCEPT ![t].pc = pc]
Finish(t)     == th' = [th EXCEPT ![t] = Idle]

ActiveRows == {i \in DOMAIN rows : rows[i].active}

\* active_deployment: the latest active row, 0 when there is none.
ActiveRow == IF ActiveRows = {} THEN 0 ELSE CHOOSE i \in ActiveRows : \A j \in ActiveRows : j <= i

\* What rollback may restore, and its choice: the version updated last.
Restorable(active) == {v \in Versions \ {active} : state[v] \in {"DEPLOYED", "APPROVED"}}
Latest(vs)         == CHOOSE v \in vs : \A w \in vs : recent[v] <= recent[w]

Eligible(v) == state[v] \in {"APPROVED", "DEPLOYED"} /\ evidence[v] = "sound"

\* Thread t calls transition(v, to).
Transit(t, v, to) == th' = [th EXCEPT ![t].pc = "read", ![t].v = v, ![t].to = to]

\* Deliberate defect: approve_and_deploy deploys what it has verified, past
\* approve_deployment and the state gate.
ContinueWithoutApproval(t) ==
    LET o == th[t].op IN
    CASE o = "approve" /\ th[t].to = "VERIFIED"               -> Goto(t, "approval")
      [] o = "promote" /\ th[t].to = "VERIFIED"               -> Goto(t, "deactivate")
      [] o = "request"                                         -> Goto(t, "post")
      [] o = "rollback" /\ th[t].to = "DEPLOYED"               -> Goto(t, "insert")
      [] o = "rollback" /\ th[t].to = "ROLLED_BACK" /\ th[t].prev # None
                                                               -> Transit(t, th[t].prev, "DEPLOYED")
      [] OTHER                                                 -> Finish(t)

\* Where the operation of t goes on after its transition returned.
Continue(t) ==
    LET o == th[t].op IN
    CASE o \in {"approve", "promote"} /\ th[t].to = "VERIFIED" -> Goto(t, "approval")
      [] o = "promote" /\ th[t].to = "APPROVED"                -> Goto(t, "gate")
      [] o = "request"                                         -> Goto(t, "post")
      [] o = "rollback" /\ th[t].to = "DEPLOYED"               -> Goto(t, "insert")
      [] o = "rollback" /\ th[t].to = "ROLLED_BACK" /\ th[t].prev # None
                                                               -> Transit(t, th[t].prev, "DEPLOYED")
      [] OTHER                                                 -> Finish(t)

----------------------------------------------------------------------------
(* Deliberate defects, paired in PROJECT.json with what they must break.   *)

\* rollback and request go on after a failed validation, as deploy does.
ValidateIgnored(t) ==
    /\ At(t, "validate")
    /\ IF th[t].op = "rollback" THEN Goto(t, "retire")
       ELSE Goto(t, IF th[t].cur = "APPROVED" THEN "deactivate" ELSE "gate")
    /\ UNCHANGED <<state, recent, rows, evidence, past>>

\* deploy() inserts its row without deactivating the others.
DeactivateNothing(t) ==
    /\ At(t, "deactivate")
    /\ Goto(t, "insert")
    /\ UNCHANGED <<state, recent, rows, evidence, past>>

----------------------------------------------------------------------------
(* transition()                                                            *)

Read(t) ==
    /\ At(t, "read")
    /\ LET cur == state[th[t].v] IN
       CASE th[t].to = cur -> Continue(t)
         [] th[t].to # cur /\ th[t].to \in Transitions[cur] ->
               th' = [th EXCEPT ![t].pc = "write", ![t].cur = cur]
         [] OTHER -> Finish(t)                                  \* RegistryError
    /\ UNCHANGED <<state, recent, rows, evidence, past>>

HistoryOf(to) == IF to = "VERIFIED" THEN "verified" ELSE "approved"

Write(t) ==
    /\ At(t, "write")
    /\ LET v == th[t].v IN
       /\ state' = [state EXCEPT ![v] = th[t].to]
       /\ recent' = [w \in Versions |-> CASE w = v                -> 1
                                         [] recent[w] < recent[v] -> recent[w] + 1
                                         [] OTHER                 -> recent[w]]
       /\ past' = IF th[t].to \in {"VERIFIED", "APPROVED"}
                  THEN [past EXCEPT ![HistoryOf(th[t].to)] = @ \union {v}] ELSE past
    /\ Continue(t)
    /\ UNCHANGED <<rows, evidence>>

----------------------------------------------------------------------------
(* verify_version() and approve_deployment()                               *)

\* The agents' checks may fail as well as the registry's own.
Checks(t) ==
    /\ At(t, "checks")
    /\ \E ok \in {evidence[th[t].v] # "broken", FALSE} :
          th' = [th EXCEPT ![t].pc = "verdict", ![t].to = IF ok THEN "VERIFIED" ELSE "QUARANTINED"]
    /\ UNCHANGED <<state, recent, rows, evidence, past>>

Verdict(t) ==
    /\ At(t, "verdict")
    /\ LET moves == state[th[t].v] \in (IF th[t].to = "VERIFIED" THEN {"REGISTERED", "QUARANTINED"}
                                                                 ELSE ActiveStates)
       IN IF moves THEN Goto(t, "read") ELSE Continue(t)
    /\ UNCHANGED <<state, recent, rows, evidence, past>>

Approval(t) ==
    /\ At(t, "approval")
    /\ IF state[th[t].v] = "VERIFIED" THEN Goto(t, "trust") ELSE Finish(t)
    /\ UNCHANGED <<state, recent, rows, evidence, past>>

Trust(t) ==
    /\ At(t, "trust")
    /\ IF evidence[th[t].v] # "broken" /\ state[th[t].v] # "QUARANTINED"
       THEN Transit(t, th[t].v, "APPROVED")
       ELSE Finish(t)
    /\ UNCHANGED <<state, recent, rows, evidence, past>>

----------------------------------------------------------------------------
(* DeploymentService.validate(), deploy() and request()                    *)

\* deploy() calls validate() and drops its report; request() and rollback()
\* go on only when it says eligible.
Validate(t) ==
    /\ At(t, "validate")
    /\ LET v == th[t].v
           deploying == th[t].cur = "APPROVED" /\ th[t].op # "rollback" IN
       CASE deploying                                         -> Goto(t, "deactivate")
         [] ~deploying /\ Eligible(v) /\ th[t].op = "request" -> Goto(t, "gate")
         [] ~deploying /\ Eligible(v) /\ th[t].op # "request" -> Goto(t, "retire")
         [] OTHER                                             -> Finish(t)
    /\ UNCHANGED <<state, recent, rows, evidence, past>>

Gate(t) ==
    /\ At(t, "gate")
    /\ IF state[th[t].v] = "APPROVED"
       THEN th' = [th EXCEPT ![t].pc = "validate", ![t].cur = "APPROVED"]
       ELSE Finish(t)
    /\ UNCHANGED <<state, recent, rows, evidence, past>>

Deactivate(t) ==
    /\ At(t, "deactivate")
    /\ rows' = [i \in DOMAIN rows |-> [rows[i] EXCEPT !.active = FALSE]]
    /\ Goto(t, "insert")
    /\ UNCHANGED <<state, recent, evidence, past>>

\* A row's `fit` is history: the version was eligible during this operation.
Insert(t) ==
    /\ At(t, "insert")
    /\ Len(rows) < MaxRows
    /\ rows' = Append(rows, [v |-> th[t].v, active |-> TRUE, by |-> th[t].op,
                             fit |-> th[t].v \in seen[t]])
    /\ IF th[t].op = "rollback" THEN Finish(t) ELSE Transit(t, th[t].v, "DEPLOYED")
    /\ UNCHANGED <<state, recent, evidence, past>>

\* request() loads the model it promoted; a failure only changes the answer.
Post(t) ==
    /\ At(t, "post")
    /\ Finish(t)
    /\ UNCHANGED <<state, recent, rows, evidence, past>>

----------------------------------------------------------------------------
(* rollback()                                                              *)

Active(t) ==
    /\ At(t, "active")
    /\ IF ActiveRow = 0 THEN Finish(t)
       ELSE th' = [th EXCEPT ![t].pc = "previous", ![t].row = ActiveRow]
    /\ UNCHANGED <<state, recent, rows, evidence, past>>

Previous(t) ==
    /\ At(t, "previous")
    /\ LET found == Restorable(rows[th[t].row].v) IN
       th' = IF found = {} THEN [th EXCEPT ![t].pc = "retire"]
             ELSE [th EXCEPT ![t].pc = "validate", ![t].v = Latest(found), ![t].prev = Latest(found)]
    /\ UNCHANGED <<state, recent, rows, evidence, past>>

Retire(t) ==
    /\ At(t, "retire")
    /\ rows' = [rows EXCEPT ![th[t].row].active = FALSE]
    /\ Goto(t, "retired")
    /\ UNCHANGED <<state, recent, evidence, past>>

Retired(t) ==
    /\ At(t, "retired")
    /\ LET v == rows[th[t].row].v IN
       CASE state[v] = "DEPLOYED"                       -> Transit(t, v, "ROLLED_BACK")
         [] state[v] # "DEPLOYED" /\ th[t].prev # None  -> Transit(t, th[t].prev, "DEPLOYED")
         [] OTHER                                       -> Finish(t)
    /\ UNCHANGED <<state, recent, rows, evidence, past>>

Revocable(t) ==
    /\ At(t, "revocable")
    /\ IF state[th[t].v] \in {"REVOKED", "ROLLED_BACK"} THEN Finish(t) ELSE Transit(t, th[t].v, "REVOKED")
    /\ UNCHANGED <<state, recent, rows, evidence, past>>

----------------------------------------------------------------------------

\* History: what the gates would have said, whether or not anybody asked, while
\* the operation of a thread was under way.
Observe ==
    seen' = [t \in Threads |-> IF th'[t].op = None THEN {}
                               ELSE seen[t] \union {v \in Versions : Eligible(v)'}]

FirstOf(op) ==
    CASE op \in {"verify", "approve", "promote"} -> "checks"
      [] op = "request"    -> "validate"
      [] op = "rollback"   -> "active"
      [] op = "quarantine" -> "read"
      [] op = "revoke"     -> "revocable"

Begin(t) ==
    /\ At(t, "idle")
    /\ calls < MaxCalls
    /\ \E op \in Ops, v \in Versions :
          th' = [th EXCEPT ![t] = [Idle EXCEPT !.op = op, !.pc = FirstOf(op),
                                               !.v = IF op = "rollback" THEN None ELSE v,
                                               !.to = IF op = "quarantine" THEN "QUARANTINED" ELSE @]]
    /\ calls' = calls + 1
    /\ overlapped' = (overlapped \/ \E u \in Threads \ {t} : ~At(u, "idle"))
    /\ UNCHANGED <<state, recent, rows, evidence, faults, past>>
    /\ Observe

Statement(t) ==
    /\ \/ Read(t) \/ Write(t) \/ Checks(t) \/ Verdict(t) \/ Approval(t) \/ Trust(t)
       \/ Validate(t) \/ Gate(t) \/ Deactivate(t) \/ Insert(t) \/ Post(t)
       \/ Active(t) \/ Previous(t) \/ Retire(t) \/ Retired(t) \/ Revocable(t)
    /\ UNCHANGED <<calls, faults, overlapped>>
    /\ Observe

\* The signer's key is rotated or revoked, or the artifact is corrupted.
Decay(v) ==
    /\ faults < MaxFaults
    /\ evidence[v] # "broken"
    /\ \E e \in {"unfit", "broken"} \ {evidence[v]} : evidence' = [evidence EXCEPT ![v] = e]
    /\ faults' = faults + 1
    /\ UNCHANGED <<state, recent, rows, th, calls, past, overlapped>>
    /\ Observe

\* The process is lost; what was committed stays, what was under way does not.
Restart ==
    /\ faults < MaxFaults
    /\ \E t \in Threads : ~At(t, "idle")
    /\ th' = [t \in Threads |-> Idle]
    /\ faults' = faults + 1
    /\ UNCHANGED <<state, recent, rows, evidence, calls, past, overlapped>>
    /\ Observe

Next ==
    \/ \E t \in Threads : Begin(t) \/ Statement(t)
    \/ \E v \in Versions : Decay(v)
    \/ Restart

Spec == Init /\ [][Next]_vars

----------------------------------------------------------------------------
(* Properties.                                                             *)

\* Types of the tables and of the operations under way.
TypeOK ==
    /\ state \in [Versions -> States]
    /\ recent \in Orders
    /\ rows \in Seq([v : Versions, active : BOOLEAN, by : AllOps, fit : BOOLEAN])
    /\ evidence \in [Versions -> {"sound", "unfit", "broken"}]
    /\ th \in [Threads -> [op : AllOps \union {None}, pc : Statements,
                           v : Versions \union {None}, to : States, cur : States,
                           prev : Versions \union {None}, row : 0 .. MaxRows]]
    /\ calls \in 0 .. MaxCalls /\ faults \in 0 .. MaxFaults
    /\ past \in [{"verified", "approved"} -> SUBSET Versions]
    /\ seen \in [Threads -> SUBSET Versions]
    /\ overlapped \in BOOLEAN

\* Whatever overlaps and wherever the process is lost, no version is put into
\* production that was not verified and approved before (the lifecycle of
\* registry.py:1-13), rollback included.
OnlyApprovedDeployed ==
    \A i \in DOMAIN rows : rows[i].v \in past.approved /\ rows[i].v \in past.verified

\* A deployment made through DeploymentService.request or restored by rollback is
\* of a version that passed the gates of validate() during that very operation:
\* one that was eligible once and has decayed since is not promoted again
\* (registry.py:583-590).
GovernedDeploymentsVetted ==
    \A i \in DOMAIN rows : rows[i].by \in {"request", "rollback"} => rows[i].fit

\* Operations one after the other, interrupted anywhere, leave at most one
\* active deployment ("so the active flag stays exclusive", registry.py:488).
ActiveIsExclusive == ~overlapped => \A i, j \in ActiveRows : i = j

\* Refuted: what registry.py:473-479 says of deploy(), that every caller passes
\* the gates of validate() before it promotes.
EveryDeploymentVetted == \A i \in DOMAIN rows : rows[i].fit
=============================================================================
