-------------------------- MODULE PgRunTransitions --------------------------
(***************************************************************************)
(* The transactions that move a run and its queue row                      *)
(* (satsa/analysis/execution.py), statement by statement as PostgreSQL     *)
(* runs them (qsmlops/database/postgres.py): one connection per            *)
(* transaction, READ COMMITTED.  A plain SELECT reads what is committed; an*)
(* UPDATE locks its row until the transaction ends, waits for the lock of  *)
(* another transaction and then evaluates its WHERE on the row that one    *)
(* committed; a cycle of waits is broken by aborting a member.             *)
(*                                                                         *)
(* One supervised run.  What a worker computes between claim and the end   *)
(* of its attempt is in AnalysisExecution; here it only decides how to end.*)
(* Transactions that touch one row once (heartbeat, _persist_stage) are    *)
(* left out.                                                               *)
(***************************************************************************)
EXTENDS Naturals, FiniteSets

CONSTANTS
    Workers,      \* worker processes
    Supervisors,  \* API requests' threads
    Ops,          \* operations the instance lets them call
    MaxAttempts,  \* satsa_execution_jobs.max_attempts
    MaxClaims,    \* bound: claims committed in one behaviour
    MaxCalls,     \* bound: cancel and decide requests in one behaviour
    Paused,       \* the run starts at its review checkpoint, else just queued
    None          \* no transaction, no owner

Sessions == Workers \union Supervisors
EndOps   == {"complete", "pause", "fail"}

ASSUME SessionsAssumption == None \notin Sessions /\ Workers \intersect Supervisors = {}
ASSUME OpsAssumption      == Ops \subseteq EndOps \union {"claim", "cancel", "decide"}
ASSUME BoundsAssumption   == /\ MaxAttempts \in Nat \ {0}
                             /\ MaxClaims \in Nat /\ MaxCalls \in Nat
                             /\ Paused \in BOOLEAN

VARIABLES
    run,       \* committed satsa_runs.status
    job,       \* committed satsa_execution_jobs row
    decided,   \* a committed satsa_run_review_decisions row exists
    runLock,   \* session whose transaction holds the run row
    jobLock,   \* session whose transaction holds the queue row
    newRun,    \* uncommitted version of the run row, its holder's
    newJob,    \* uncommitted version of the queue row
    tx,        \* each session's open transaction
    lease,     \* each worker's Lease and how its attempt must end
    cancelled, \* a cancel request was answered with success
    calls      \* requests made so far

vars == <<run, job, decided, runLock, jobLock, newRun, newJob, tx, lease, cancelled, calls>>
rows == <<run, job, decided>>

Terminal   == {"completed", "failed", "cancelled"}
RunStatus  == Terminal \union {"queued", "running", "awaiting_review", "cancel_requested"}
JobStatus  == {"queued", "running", "retry_wait", "completed", "failed", "cancelled",
               "cancel_requested"}
Statements == {"none", "sweep", "sweepJob", "sweepRun", "sweepDigest", "pick", "lease", "status", "job",
               "run", "commit"}

NoTx    == [op |-> "none", at |-> "none", to |-> "none", retry |-> FALSE]
NoLease == [gen |-> 0, attempt |-> 0, must |-> "any"]

Init ==
    /\ run = IF Paused THEN "awaiting_review" ELSE "queued"
    /\ job = [status |-> IF Paused THEN "completed" ELSE "queued", owner |-> None,
              gen |-> IF Paused THEN 1 ELSE 0, attempts |-> IF Paused THEN 1 ELSE 0,
              live |-> FALSE]
    /\ decided = FALSE
    /\ runLock = None /\ jobLock = None
    /\ newRun = run /\ newJob = job
    /\ tx = [s \in Sessions |-> NoTx]
    /\ lease = [w \in Workers |-> NoLease]
    /\ cancelled = FALSE
    /\ calls = 0

----------------------------------------------------------------------------
(* Statements.                                                             *)

At(s, op, statement) == tx[s].op = op /\ tx[s].at = statement
Goto(s, statement)   == tx' = [tx EXCEPT ![s].at = statement]

\* The row version a statement of session s sees: its own or the committed one.
SeenRun(s) == IF runLock = s THEN newRun ELSE run
SeenJob(s) == IF jobLock = s THEN newJob ELSE job

\* UPDATE of the run row (of the queue row) by session s: it proceeds when no
\* other transaction holds the row.
UpdateRun(s, new) ==
    /\ runLock \in {None, s}
    /\ runLock' = s
    /\ newRun' = new

UpdateJob(s, new) ==
    /\ jobLock \in {None, s}
    /\ jobLock' = s
    /\ newJob' = new

\* A row whose version does not match the WHERE is neither locked nor waited for.
UpdateRunWhere(s, matches, new) ==
    IF matches THEN UpdateRun(s, new) ELSE UNCHANGED <<runLock, newRun>>

UpdateJobWhere(s, matches, new) ==
    IF matches THEN UpdateJob(s, new) ELSE UNCHANGED <<jobLock, newJob>>

Release(s) ==
    /\ runLock' = IF runLock = s THEN None ELSE runLock
    /\ newRun'  = IF runLock = s THEN run' ELSE newRun
    /\ jobLock' = IF jobLock = s THEN None ELSE jobLock
    /\ newJob'  = IF jobLock = s THEN job' ELSE newJob
    /\ tx' = [tx EXCEPT ![s] = NoTx]

\* A deliberate defect: the connection of a failed transaction is kept open.
RollbackKeepsLocks(s) ==
    /\ tx' = [tx EXCEPT ![s] = NoTx]
    /\ UNCHANGED <<rows, runLock, jobLock, newRun, newJob>>

\* The transaction ends without effect on the rows.
Rollback(s) == UNCHANGED rows /\ Release(s)

\* An exception in a worker's ending transaction: fail() follows, unless it was
\* fail() or the cancelled ending itself, whose exception leaves run_once.
AfterError(w) ==
    [lease EXCEPT ![w] = IF tx[w].op = "fail" \/ lease[w].must = "cancelled" THEN NoLease
                         ELSE [@ EXCEPT !.must = "fail"]]

Begin(s, op, statement, to, retry) ==
    /\ op \in Ops
    /\ tx[s] = NoTx
    /\ tx' = [tx EXCEPT ![s] = [op |-> op, at |-> statement, to |-> to, retry |-> retry]]
    /\ UNCHANGED <<rows, runLock, jobLock, newRun, newJob, cancelled>>

----------------------------------------------------------------------------
(* Deliberate defects, paired in PROJECT.json with what they must break.   *)

\* decide() trusts the status it read before its transaction.
DecideRunUnlocked(s) ==
    /\ At(s, "decide", "run")
    /\ IF tx[s].to = "none"
       THEN /\ run = "awaiting_review"
            /\ tx' = [tx EXCEPT ![s].to = "queued"]
            /\ UNCHANGED <<runLock, newRun>>
       ELSE /\ UpdateRun(s, "queued")
            /\ Goto(s, "job")
    /\ UNCHANGED <<rows, jobLock, newJob, lease, cancelled, calls>>

\* cancel() updates the queue row first.
CancelRunLast(s) ==
    /\ At(s, "cancel", "run")
    /\ IF tx[s].to = "none"
       THEN /\ run \notin Terminal \union {"cancel_requested"}
            /\ UpdateJob(s, [SeenJob(s) EXCEPT !.status = "cancel_requested"])
            /\ tx' = [tx EXCEPT ![s].to = "cancel_requested"]
            /\ UNCHANGED <<runLock, newRun>>
       ELSE /\ UpdateRun(s, "cancel_requested")
            /\ Goto(s, "commit")
            /\ UNCHANGED <<jobLock, newJob>>
    /\ UNCHANGED <<rows, lease, cancelled, calls>>

----------------------------------------------------------------------------
(* cancel() and decide()                                                   *)

BeginCancel(s) ==
    /\ calls < MaxCalls
    /\ calls' = calls + 1
    /\ Begin(s, "cancel", "run", "none", FALSE)
    /\ UNCHANGED lease

\* decide() reads run and decision before its transaction and refuses early.
BeginDecide(s) ==
    /\ calls < MaxCalls
    /\ run = "awaiting_review" /\ ~decided
    /\ calls' = calls + 1
    /\ Begin(s, "decide", "run", "none", FALSE)
    /\ UNCHANGED lease

\* _lock_run, then the run's update: a run that ended is returned as it is, one
\* already being cancelled is refused by _transition.
CancelRun(s) ==
    /\ At(s, "cancel", "run")
    /\ runLock = None
    /\ IF run \in Terminal \union {"cancel_requested"}
       THEN Rollback(s)
       ELSE /\ UpdateRun(s, "cancel_requested")
            /\ Goto(s, "job")
            /\ UNCHANGED <<rows, jobLock, newJob>>
    /\ UNCHANGED <<lease, cancelled, calls>>

CancelJob(s) ==
    /\ At(s, "cancel", "job")
    /\ UpdateJobWhere(s, SeenJob(s).status \in {"queued", "running", "retry_wait", "completed"},
                         [SeenJob(s) EXCEPT !.status = "cancel_requested"])
    /\ Goto(s, "commit")
    /\ UNCHANGED <<rows, runLock, newRun, lease, cancelled, calls>>

\* _lock_run, the checks again, the decision row and the run's update.
DecideRun(s) ==
    /\ At(s, "decide", "run")
    /\ runLock = None
    /\ IF decided \/ run # "awaiting_review"
       THEN Rollback(s)
       ELSE /\ UpdateRun(s, "queued")
            /\ Goto(s, "job")
            /\ UNCHANGED <<rows, jobLock, newJob>>
    /\ UNCHANGED <<lease, cancelled, calls>>

DecideJob(s) ==
    /\ At(s, "decide", "job")
    /\ UpdateJobWhere(s, SeenJob(s).status = "completed",
                         [SeenJob(s) EXCEPT !.status = "queued", !.attempts = 0])
    /\ Goto(s, "commit")
    /\ UNCHANGED <<rows, runLock, newRun, lease, cancelled, calls>>

----------------------------------------------------------------------------
(* claim()                                                                 *)

Exhausted(j) == j.status = "running" /\ ~j.live /\ j.attempts >= MaxAttempts

Claimable(j) ==
    \/ j.status \in {"queued", "retry_wait"} /\ j.attempts < MaxAttempts
    \/ j.status = "cancel_requested" /\ ~j.live
    \/ j.status = "running" /\ ~j.live /\ j.attempts < MaxAttempts

BeginClaim(w) ==
    /\ lease[w] = NoLease
    /\ job.gen < MaxClaims
    /\ Begin(w, "claim", "sweep", "none", FALSE)
    /\ UNCHANGED <<lease, calls>>

Sweep(w) ==
    /\ At(w, "claim", "sweep")
    /\ Goto(w, IF Exhausted(job) THEN "sweepJob" ELSE "pick")
    /\ UNCHANGED <<rows, runLock, jobLock, newRun, newJob, lease, cancelled, calls>>

SweepJob(w) ==
    /\ At(w, "claim", "sweepJob")
    /\ UpdateJobWhere(w, Exhausted(SeenJob(w)),
                         [SeenJob(w) EXCEPT !.status = "failed", !.owner = None])
    /\ Goto(w, "sweepRun")
    /\ UNCHANGED <<rows, runLock, newRun, lease, cancelled, calls>>

SweepRun(w) ==
    /\ At(w, "claim", "sweepRun")
    /\ UpdateRunWhere(w, SeenRun(w) = "running", "failed")
    /\ Goto(w, "sweepDigest")
    /\ UNCHANGED <<rows, jobLock, newJob, lease, cancelled, calls>>

\* The content digest of the run is written whatever its status: this locks the row.
SweepDigest(w) ==
    /\ At(w, "claim", "sweepDigest")
    /\ UpdateRun(w, SeenRun(w))
    /\ Goto(w, "pick")
    /\ UNCHANGED <<rows, jobLock, newJob, lease, cancelled, calls>>

\* FOR UPDATE SKIP LOCKED, then the update of the row it locked.
Pick(w) ==
    /\ At(w, "claim", "pick")
    /\ IF jobLock \in {None, w} /\ Claimable(SeenJob(w))
       THEN /\ UpdateJob(w, [SeenJob(w) EXCEPT
                   !.status = IF @ = "cancel_requested" THEN @ ELSE "running",
                   !.owner = w, !.gen = @ + 1, !.attempts = @ + 1, !.live = TRUE])
            /\ Goto(w, "run")
       ELSE /\ Goto(w, "commit")
            /\ UNCHANGED <<jobLock, newJob>>
    /\ UNCHANGED <<rows, runLock, newRun, lease, cancelled, calls>>

ClaimRun(w) ==
    /\ At(w, "claim", "run")
    /\ UpdateRunWhere(w, SeenRun(w) \in {"queued", "running", "failed"}, "running")
    /\ Goto(w, "commit")
    /\ UNCHANGED <<rows, jobLock, newJob, lease, cancelled, calls>>

----------------------------------------------------------------------------
(* complete(), pause_for_review() and fail()                               *)

\* run_once ends its attempt: with the results of a decided run, at the review
\* checkpoint of an undecided one, by an error, or because a cancel was seen.
BeginEnd(w) ==
    /\ lease[w].gen # 0
    /\ \/ /\ lease[w].must = "any" /\ decided
          /\ Begin(w, "complete", "lease", "completed", FALSE)
          /\ UNCHANGED lease
       \/ /\ lease[w].must = "any" /\ ~decided
          /\ Begin(w, "pause", "lease", "awaiting_review", FALSE)
          /\ UNCHANGED lease
       \/ /\ lease[w].must \in {"any", "fail"}
          /\ \E retry \in BOOLEAN :
                /\ retry => lease[w].must = "any"
                /\ Begin(w, "fail", "lease", "failed", retry)
          /\ UNCHANGED lease
       \/ /\ lease[w].must = "cancelled" \/ job.status = "cancel_requested"
          /\ Begin(w, "complete", "lease", "cancelled", FALSE)
          /\ lease' = [lease EXCEPT ![w].must = "cancelled"]
    /\ UNCHANGED calls

Holds(w) == job.owner = w /\ job.gen = lease[w].gen /\ job.live
            /\ job.status \in {"running", "cancel_requested"}

\* _lease_row: a plain SELECT.  What fail() will write is settled here.
ReadLease(w) ==
    /\ tx[w].op \in EndOps /\ tx[w].at = "lease"
    /\ IF ~Holds(w)
       THEN Rollback(w) /\ lease' = [lease EXCEPT ![w] = NoLease]
       ELSE /\ tx' = [tx EXCEPT ![w].at = IF tx[w].op = "fail" THEN "job" ELSE "status",
                                ![w].to = IF tx[w].op = "fail" /\ job.status = "cancel_requested"
                                          THEN "cancelled" ELSE @,
                                ![w].retry = @ /\ job.status # "cancel_requested"
                                               /\ lease[w].attempt < MaxAttempts]
            /\ UNCHANGED <<rows, runLock, jobLock, newRun, newJob, lease>>
    /\ UNCHANGED <<cancelled, calls>>

\* The run's status, another plain SELECT: complete() raises CancelAtBoundary,
\* _transition refuses what RUN_TRANSITIONS does not have.
ReadStatus(w) ==
    /\ tx[w].op \in {"complete", "pause"} /\ tx[w].at = "status"
    /\ \/ /\ run = "running" \/ (run = "cancel_requested" /\ tx[w].to = "cancelled")
          /\ Goto(w, IF tx[w].op = "pause" THEN "run" ELSE "job")
          /\ UNCHANGED <<rows, runLock, jobLock, newRun, newJob, lease>>
       \/ /\ run = "cancel_requested" /\ tx[w].to = "completed"
          /\ Rollback(w)
          /\ lease' = [lease EXCEPT ![w].must = "cancelled"]
       \/ /\ run # "running" /\ (run = "cancel_requested" => tx[w].to = "awaiting_review")
          /\ Rollback(w)
          /\ lease' = AfterError(w)
    /\ UNCHANGED <<cancelled, calls>>

\* UPDATE satsa_execution_jobs ... WHERE run_id=?
EndJob(w) ==
    /\ tx[w].op \in EndOps /\ tx[w].at = "job"
    /\ UpdateJob(w, [SeenJob(w) EXCEPT
           !.status = IF tx[w].retry THEN "retry_wait"
                      ELSE IF tx[w].to = "awaiting_review" THEN "completed" ELSE tx[w].to,
           !.owner = None, !.live = FALSE])
    /\ Goto(w, IF tx[w].op = "pause" THEN "commit" ELSE "run")
    /\ UNCHANGED <<rows, runLock, newRun, lease, cancelled, calls>>

\* UPDATE satsa_runs ... WHERE organization_id=? AND id=?
EndRun(w) ==
    /\ tx[w].op \in EndOps /\ tx[w].at = "run"
    /\ UpdateRun(w, IF tx[w].retry THEN "queued" ELSE tx[w].to)
    /\ Goto(w, IF tx[w].op = "pause" THEN "job" ELSE "commit")
    /\ UNCHANGED <<rows, jobLock, newJob, lease, cancelled, calls>>

----------------------------------------------------------------------------
(* The end of a transaction, and what happens around transactions.         *)

Commit(s) ==
    /\ tx[s].at = "commit"
    /\ run' = SeenRun(s)
    /\ job' = SeenJob(s)
    /\ decided' = (decided \/ tx[s].op = "decide")
    /\ cancelled' = (cancelled \/ tx[s].op = "cancel")
    /\ Release(s)
    /\ lease' = IF s \in Supervisors THEN lease
                ELSE [lease EXCEPT ![s] =
                        IF tx[s].op = "claim" /\ job'.owner = s /\ jobLock = s
                        THEN [gen |-> job'.gen, attempt |-> job'.attempts, must |-> "any"]
                        ELSE NoLease]
    /\ UNCHANGED calls

\* s waits for a row that o's transaction holds.
WaitsFor(s, o) ==
    /\ s # o
    /\ \/ runLock = o /\ tx[s].at = "run"
          /\ (tx[s].op = "claim" => run \in {"queued", "running", "failed"})
       \/ runLock = o /\ tx[s].at = "sweepRun" /\ run = "running"
       \/ runLock = o /\ tx[s].at = "sweepDigest"
       \/ jobLock = o /\ tx[s].at = "sweepJob" /\ Exhausted(job)
       \/ jobLock = o /\ tx[s].at = "job"
          /\ (tx[s].op = "cancel" => job.status \in {"queued", "running", "retry_wait", "completed"})
          /\ (tx[s].op = "decide" => job.status = "completed")

\* The deadlock detector aborts one of the two.
Deadlock(s) ==
    /\ \E o \in Sessions : WaitsFor(s, o) /\ WaitsFor(o, s)
    /\ Rollback(s)
    /\ lease' = IF s \in Workers /\ tx[s].op \in EndOps THEN AfterError(s) ELSE lease
    /\ UNCHANGED <<cancelled, calls>>

\* No heartbeat came in time.
Expire ==
    /\ job.live
    /\ job' = [job EXCEPT !.live = FALSE]
    /\ newJob' = [newJob EXCEPT !.live = @ /\ newJob.gen # job.gen]
    /\ UNCHANGED <<run, decided, runLock, jobLock, newRun, tx, lease, cancelled, calls>>

\* A worker process dies with its connection.
Crash(w) ==
    /\ lease[w] # NoLease
    /\ Rollback(w)
    /\ lease' = [lease EXCEPT ![w] = NoLease]
    /\ UNCHANGED <<cancelled, calls>>

Supervise(s) ==
    \/ CancelRun(s) \/ CancelJob(s)
    \/ DecideRun(s) \/ DecideJob(s)

Work(w) ==
    \/ Sweep(w) \/ SweepJob(w) \/ SweepRun(w) \/ SweepDigest(w) \/ Pick(w) \/ ClaimRun(w)
    \/ ReadLease(w) \/ ReadStatus(w) \/ EndJob(w) \/ EndRun(w)

Statement(s) ==
    \/ s \in Supervisors /\ Supervise(s)
    \/ s \in Workers /\ Work(s)
    \/ Commit(s)
    \/ Deadlock(s)

Next ==
    \/ \E s \in Supervisors : BeginCancel(s) \/ BeginDecide(s)
    \/ \E w \in Workers : BeginClaim(w) \/ BeginEnd(w) \/ Crash(w)
    \/ \E s \in Sessions : Statement(s)
    \/ Expire

Spec == Init /\ [][Next]_vars

\* A session executes its open transaction's next statement when it can.
FairSpec == Spec /\ \A s \in Sessions : SF_vars(Statement(s))

----------------------------------------------------------------------------
(* Properties.                                                             *)

\* Every variable keeps its type.
TypeOK ==
    /\ run \in RunStatus /\ newRun \in RunStatus
    /\ {job, newJob} \subseteq [status : JobStatus, owner : Workers \union {None}, gen : Nat,
                               attempts : Nat, live : BOOLEAN]
    /\ decided \in BOOLEAN /\ cancelled \in BOOLEAN
    /\ runLock \in Sessions \union {None} /\ jobLock \in Sessions \union {None}
    /\ tx \in [Sessions -> [op : EndOps \union {"none", "claim", "cancel", "decide"},
                            at : Statements,
                            to : RunStatus \union {"none"}, retry : BOOLEAN]]
    /\ lease \in [Workers -> [gen : Nat, attempt : Nat, must : {"any", "fail", "cancelled"}]]
    /\ calls \in Nat

\* What is committed never disagrees: a run waiting for a supervisor has an
\* inert queue row, one that ended has none that a claim would take, one that is
\* queued, running or being cancelled has a row that says so.  One exception is the
\* code's: a sweep fails the run by its status alone, when another worker may have
\* reclaimed it since the SELECT.
RunJobCoherent ==
    CASE job.status \in {"queued", "retry_wait"} -> run = "queued"
      [] job.status = "completed"                -> run \in {"awaiting_review", "completed"}
      [] job.status = "running"                  -> run \in {"running", "failed"}
      [] job.status \in {"failed", "cancelled", "cancel_requested"} -> run = job.status

\* Requests of supervisors take their rows in one order: only a worker's
\* transaction can be deadlocked with a request.
RequestsNeverDeadlock ==
    \A s, o \in Supervisors : ~(WaitsFor(s, o) /\ WaitsFor(o, s))

\* A decision commits on the run the supervisor saw: still awaiting review, not
\* being cancelled, not decided by somebody else meanwhile.
DecisionIsCurrent ==
    [][\A s \in Supervisors :
          At(s, "decide", "commit") /\ tx'[s] = NoTx
          => run = "awaiting_review" /\ ~decided]_vars

\* Whatever rows the others hold, a transaction that was begun ends.
TransactionsEnd == \A s \in Sessions : tx[s] # NoTx ~> tx[s] = NoTx

----------------------------------------------------------------------------
(* A claim of the documentation that the code does not keep.               *)

\* docs/security/FAILURE_MODEL.md: a run is never finalized after a cancel.  A
\* cancel that was answered with success is not undone by what runs beside it.
CancelIsNotLost == cancelled => run \in {"cancel_requested", "cancelled", "failed"}
=============================================================================
