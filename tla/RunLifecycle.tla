---------------------------- MODULE RunLifecycle ----------------------------
(***************************************************************************)
(* What the run API promises of its analysis runs: RUN_TRANSITIONS of      *)
(* satsa/analysis/execution.py together with the supervision rules of      *)
(* docs/ANALYSIS_EXECUTION.md.  It knows nothing of jobs, leases, stages   *)
(* or workers.  One step may move several runs, each by one transition: a  *)
(* claim also fails the runs whose last attempt died.                      *)
(***************************************************************************)

CONSTANT Runs

VARIABLES
    status,      \* satsa_runs.status
    supervised,  \* the request asked for human review
    decided,     \* a supervisor's decision is recorded
    trusted      \* a verified finalization exists

lifeVars == <<status, supervised, decided, trusted>>

Init ==
    /\ status = [r \in Runs |-> "none"]
    /\ supervised = [r \in Runs |-> FALSE]
    /\ decided = [r \in Runs |-> FALSE]
    /\ trusted = [r \in Runs |-> FALSE]

Move(r, from, to) == status[r] \in from /\ status'[r] \in to

KeepReview(r) == decided'[r] = decided[r] /\ trusted'[r] = trusted[r]
Keep(r)       == supervised'[r] = supervised[r] /\ KeepReview(r)

Request(r) == Move(r, {"none"}, {"queued"}) /\ KeepReview(r)

Begin(r) == Move(r, {"queued"}, {"running"}) /\ Keep(r)

\* A transient failure with attempts left.
Requeue(r) == Move(r, {"running"}, {"queued"}) /\ Keep(r)

\* Only a supervised run pauses, and only until it has been decided.
Pause(r) ==
    /\ supervised[r] /\ ~decided[r]
    /\ Move(r, {"running"}, {"awaiting_review"}) /\ Keep(r)

Decide(r) ==
    /\ Move(r, {"awaiting_review"}, {"queued"})
    /\ ~decided[r] /\ decided'[r]
    /\ supervised'[r] = supervised[r] /\ trusted'[r] = trusted[r]

\* A finalization never precedes the decision it commits to.
Trust(r) ==
    /\ supervised[r] /\ decided[r] /\ trusted'[r]
    /\ status'[r] = status[r]
    /\ supervised'[r] = supervised[r] /\ decided'[r] = decided[r]

\* A supervised run completes only after review and verified finalization.
Complete(r) ==
    /\ supervised[r] => decided[r] /\ trusted[r]
    /\ Move(r, {"running"}, {"completed", "partial"}) /\ Keep(r)

Fail(r) == Move(r, {"running"}, {"failed"}) /\ Keep(r)

RequestCancel(r) ==
    Move(r, {"queued", "running", "awaiting_review"}, {"cancel_requested"}) /\ Keep(r)

\* A requested cancel is answered by nothing but a cancellation.
Cancelled(r) == Move(r, {"cancel_requested"}, {"cancelled"}) /\ Keep(r)

Rest(r) == status'[r] = status[r] /\ Keep(r)

Next ==
    \A r \in Runs :
        \/ Rest(r) \/ Request(r) \/ Begin(r) \/ Requeue(r) \/ Pause(r) \/ Decide(r)
        \/ Trust(r) \/ Complete(r) \/ Fail(r) \/ RequestCancel(r) \/ Cancelled(r)

Spec == Init /\ [][Next]_lifeVars
=============================================================================
