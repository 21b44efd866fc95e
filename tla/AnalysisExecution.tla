------------------------- MODULE AnalysisExecution -------------------------
(***************************************************************************)
(* The hosted analysis queue and its workers (satsa/analysis/execution.py) *)
(* : a run is created, claimed under a fenced lease, executed stage by     *)
(* stage, paused for a supervisor's decision, finalized and completed,     *)
(* while supervisors cancel, leases run out and worker processes die.      *)
(*                                                                         *)
(* One action is one committed transaction or one autocommitted statement  *)
(* of the code, in the database mode where transactions are serialized     *)
(* (SQLite, BEGIN IMMEDIATE).  Module PgRunTransitions splits the same     *)
(* transactions into the statements PostgreSQL interleaves.                *)
(*                                                                         *)
(* Time is abstracted to the one fact the code reads from it: live[r] says *)
(* that the run's job has an owner and lease_expires_at > now.  Whether a  *)
(* heartbeat came in time is the choice of taking Expire / Overrun or not. *)
(***************************************************************************)
EXTENDS Naturals, FiniteSets

CONSTANTS
    Runs,         \* identifiers of the runs that may be requested
    Workers,      \* worker processes
    NumStages,    \* number of analytical stages (16 in the code)
    MaxAttempts,  \* satsa_execution_jobs.max_attempts
    MaxFaults,    \* bound: crashes and overrun leases of one behaviour
    NoRun         \* the run of an idle worker

ASSUME RunsAssumption     == NoRun \notin Runs
ASSUME StagesAssumption   == NumStages \in Nat \ {0}
ASSUME AttemptsAssumption == MaxAttempts \in Nat \ {0}
ASSUME FaultsAssumption   == MaxFaults \in Nat

\* The stages in the order the Orchestrator runs them.
Stages == 1..NumStages

RunTerminal == {"completed", "partial", "failed", "cancelled"}
RunStatus   == RunTerminal \union
                 {"none", "queued", "running", "cancel_requested", "awaiting_review"}
JobStatus   == {"none", "queued", "running", "retry_wait", "completed", "failed",
                "cancelled", "cancel_requested"}
StageStatus == {"pending", "running", "completed", "failed", "cancelled"}
FinState    == {"none", "prepared", "recorded", "bound", "verified"}

\* Where a worker stands in run_once; "node", "body" and "leave" are in the nodes
\* of AnalysisGraph.
PC == {"idle", "load", "before", "start", "evaluate", "executed", "pause",
       "settle", "boundary", "durable", "complete", "mark", "cancel", "fail",
       "audit", "node", "body", "leave"}
FinStep == {"canonicalize", "prepare", "record", "append", "verify", "seal"}
Event   == {"completed", "partial", "failed", "cancelled", "awaiting_review",
            "retry_scheduled"}

VARIABLES
    run,         \* satsa_runs.status
    supervised,  \* satsa_run_context.review_required
    job,         \* satsa_execution_jobs.status
    attempts,    \* satsa_execution_jobs.attempt_count
    gen,         \* satsa_execution_jobs.lease_generation
    live,        \* the job is owned and its lease has not run out
    stage,       \* satsa_jobs.status; a completed stage has its findings stored
    risk,        \* satsa_run_risk: no row, or the stages its profile covers
    recs,        \* satsa_run_recommendations: stages whose findings have theirs
    decision,    \* satsa_run_review_decisions: no row, or the reviewed context
    fin,         \* satsa_trust_finalizations: how far it has been recorded
    trail,       \* audit events recorded for the run by workers
    wk,          \* local state of each worker process
    faults       \* crashes and overrun leases so far

vars == <<run, job, attempts, gen, live, stage, risk, recs, decision, supervised,
          fin, trail, wk, faults>>

----------------------------------------------------------------------------
(* Reading the tables.                                                     *)

Done(r) == {s \in Stages : stage[r][s] = "completed"}

\* _finish: the verdict the stage rows give.
Finish(r) ==
    IF \E s \in Stages : stage[r][s] = "failed"
    THEN IF Done(r) # {} THEN "partial" ELSE "failed"
    ELSE "completed"

\* _lease_row / _assert_lease: the worker's lease is the run's current one.
Holds(w) ==
    LET r == wk[w].run
    IN  /\ job[r] \in {"running", "cancel_requested"}
        /\ gen[r] = wk[w].gen
        /\ live[r]

\* supervisory_document raises unless risk and recommendations are complete...
Documented(r) == risk[r] # {} /\ recs[r] = Done(r)

\* Deliberate defect (see below): the document no longer compares itself with
\* the reviewed context.
AnyContext(r) == Documented(r) /\ decision[r] # {}

\* ...and, once a decision exists, unless the results are those reviewed.
ReviewedContext(r) == Documented(r) /\ decision[r] = {Done(r)}

\* _persist_risk inserts the profile of the findings stored so far, ON CONFLICT
\* DO NOTHING.
RiskRow(r) == IF risk[r] = {} THEN {Done(r)} ELSE risk[r]

\* complete() accepts a supervised run only with a verified finalization.
FinalizationVerified(r) == decision[r] # {} /\ fin[r] = "verified"

----------------------------------------------------------------------------
(* Worker control.                                                         *)

IdleWorker == [pc |-> "idle", run |-> NoRun, gen |-> 0, todo |-> {},
               retry |-> FALSE, step |-> "canonicalize", event |-> "failed"]

Goto(w, pc)  == wk' = [wk EXCEPT ![w].pc = pc]
GoIdle(w)    == wk' = [wk EXCEPT ![w] = IdleWorker]

\* An exception leaves the try body of run_once for queue.fail; its locals, dead
\* from here on, are cleared.
GoFail(w, retryable) ==
    wk' = [wk EXCEPT ![w].pc = "fail", ![w].retry = retryable, ![w].todo = {},
                     ![w].step = "canonicalize", ![w].event = "failed"]

\* The audit call that follows a committed outcome.
GoAudit(w, event) ==
    wk' = [wk EXCEPT ![w].pc = "audit", ![w].event = event, ![w].todo = {},
                     ![w].retry = FALSE, ![w].step = "canonicalize"]

\* The tables a step of a worker leaves alone unless it says otherwise.
UnchangedTables ==
    UNCHANGED <<run, job, attempts, gen, live, stage, risk, recs, decision,
                supervised, fin, trail, faults>>

Init ==
    /\ run = [r \in Runs |-> "none"]
    /\ supervised = [r \in Runs |-> FALSE]
    /\ job = [r \in Runs |-> "none"]
    /\ attempts = [r \in Runs |-> 0]
    /\ gen = [r \in Runs |-> 0]
    /\ live = [r \in Runs |-> FALSE]
    /\ stage = [r \in Runs |-> [s \in Stages |-> "pending"]]
    /\ risk = [r \in Runs |-> {}]
    /\ recs = [r \in Runs |-> {}]
    /\ decision = [r \in Runs |-> {}]
    /\ fin = [r \in Runs |-> "none"]
    /\ trail = [r \in Runs |-> {}]
    /\ wk = [w \in Workers |-> IdleWorker]
    /\ faults = 0

----------------------------------------------------------------------------
(* Deliberate defects.  Each is a definition below with one plausible bug; *)
(* no action uses them.  PROJECT.json pairs each with the property that    *)
(* must fail once the defect replaces the original.                        *)

\* cancel() forgets the job of a run paused for review.
CancelForgetsPausedJob(r) ==
    /\ run[r] \in {"queued", "running", "awaiting_review"}
    /\ run' = [run EXCEPT ![r] = "cancel_requested"]
    /\ job' = IF job[r] \in {"queued", "running", "retry_wait"}
              THEN [job EXCEPT ![r] = "cancel_requested"] ELSE job
    /\ UNCHANGED <<attempts, gen, live, stage, risk, recs, decision, supervised,
                   fin, trail, wk, faults>>

\* claim() leaves cancelled jobs to the worker that had them.
CandidatesNotCancelled ==
    {r \in Runs : \/ job[r] \in {"queued", "retry_wait"} /\ attempts[r] < MaxAttempts
                  \/ job[r] = "running" /\ ~live[r] /\ attempts[r] < MaxAttempts}

\* A resumed attempt runs only the stages nobody has started.
LoadPendingOnly(w) ==
    /\ wk[w].pc = "load"
    /\ wk' = [wk EXCEPT ![w].pc = "before",
                        ![w].todo = {s \in Stages : stage[wk[w].run][s] = "pending"}]
    /\ UnchangedTables

\* _persist_stage without its lease check.
PersistStageUnfenced(w, result) ==
    /\ wk[w].pc = "evaluate"
    /\ \E s \in wk[w].todo :
         /\ \A t \in wk[w].todo : s <= t
         /\ stage' = [stage EXCEPT ![wk[w].run][s] =
                         IF result = "ok" THEN "completed" ELSE "failed"]
         /\ wk' = [wk EXCEPT ![w].pc = "before",
                             ![w].todo = wk[w].todo \ {s},
                             ![w].retry = wk[w].retry \/ result = "transient"]
    /\ UNCHANGED <<run, job, attempts, gen, live, risk, recs, decision, supervised,
                   fin, trail, faults>>

\* Recommendations are inserted once per run, not once per finding.
AdviseOnce(w) ==
    LET r == wk[w].run
    IN  /\ wk[w].pc = "executed"
        /\ \/ /\ ~(supervised[r] /\ Finish(r) # "failed")
              /\ Goto(w, "settle")
              /\ UNCHANGED recs
           \/ /\ supervised[r] /\ Finish(r) # "failed" /\ Holds(w)
              /\ recs' = IF recs[r] = {} THEN [recs EXCEPT ![r] = Done(r)] ELSE recs
              /\ Goto(w, "pause")
           \/ /\ supervised[r] /\ Finish(r) # "failed" /\ ~Holds(w)
              /\ GoIdle(w)
              /\ UNCHANGED recs
        /\ UNCHANGED <<run, job, attempts, gen, live, stage, risk, decision,
                       supervised, fin, trail, faults>>

\* complete() without the check for a cancel that arrived meanwhile.
CompleteOverCancel(w) ==
    LET r == wk[w].run
    IN  /\ wk[w].pc = "complete"
        /\ \/ /\ ~Holds(w)
              /\ GoIdle(w)
              /\ UNCHANGED <<run, job, live>>
           \/ /\ Holds(w) /\ (supervised[r] => FinalizationVerified(r))
              /\ run' = [run EXCEPT ![r] = wk[w].event]
              /\ job' = [job EXCEPT ![r] = "completed"]
              /\ live' = [live EXCEPT ![r] = FALSE]
              /\ GoAudit(w, wk[w].event)
        /\ UNCHANGED <<attempts, gen, stage, risk, recs, decision, supervised, fin,
                       trail, faults>>

\* run_once ignores that complete(lease, cancelled) returned False.
CancelledRegardless(w) ==
    LET r == wk[w].run
    IN  /\ wk[w].pc = "cancel"
        /\ IF Holds(w)
           THEN /\ run' = [run EXCEPT ![r] = "cancelled"]
                /\ job' = [job EXCEPT ![r] = "cancelled"]
                /\ live' = [live EXCEPT ![r] = FALSE]
           ELSE UNCHANGED <<run, job, live>>
        /\ GoAudit(w, "cancelled")
        /\ UNCHANGED <<attempts, gen, stage, risk, recs, decision, supervised, fin,
                       trail, faults>>

\* claim() keeps the generation of the lease it replaces.
SameGeneration(r) == gen[r]

----------------------------------------------------------------------------
(* Callers: analysts and supervisors.                                      *)

\* create_run: the run, its pending stages and its job, in one transaction.
\* A repeated idempotency key returns the existing run, which is a stutter.
CreateRun(r, sup) ==
    /\ run[r] = "none"
    /\ run' = [run EXCEPT ![r] = "queued"]
    /\ job' = [job EXCEPT ![r] = "queued"]
    /\ supervised' = [supervised EXCEPT ![r] = sup]
    /\ UNCHANGED <<attempts, gen, live, stage, risk, recs, decision, fin, trail,
                   wk, faults>>

\* cancel: refused for a terminal run and for one already being cancelled.
Cancel(r) ==
    /\ run[r] \in {"queued", "running", "awaiting_review"}
    /\ run' = [run EXCEPT ![r] = "cancel_requested"]
    /\ job' = IF job[r] \in {"queued", "running", "retry_wait", "completed"}
              THEN [job EXCEPT ![r] = "cancel_requested"] ELSE job
    /\ UNCHANGED <<attempts, gen, live, stage, risk, recs, decision, supervised,
                   fin, trail, wk, faults>>

\* decide: record the decision with the context reviewed, and requeue.
Decide(r) ==
    /\ supervised[r] /\ decision[r] = {} /\ run[r] = "awaiting_review"
    /\ Documented(r)
    /\ decision' = [decision EXCEPT ![r] = {Done(r)}]
    /\ run' = [run EXCEPT ![r] = "queued"]
    /\ IF job[r] = "completed"
       THEN /\ job' = [job EXCEPT ![r] = "queued"]
            /\ attempts' = [attempts EXCEPT ![r] = 0]
       ELSE UNCHANGED <<job, attempts>>
    /\ UNCHANGED <<gen, live, stage, risk, recs, supervised, fin, trail, wk, faults>>

----------------------------------------------------------------------------
(* The queue.                                                              *)

\* Jobs whose last permitted attempt stopped renewing its lease.
Exhausted == {r \in Runs : /\ job[r] = "running"
                           /\ ~live[r]
                           /\ attempts[r] >= MaxAttempts}

Candidates ==
    {r \in Runs : \/ job[r] \in {"queued", "retry_wait"} /\ attempts[r] < MaxAttempts
                  \/ job[r] = "cancel_requested" /\ ~live[r]
                  \/ job[r] = "running" /\ ~live[r] /\ attempts[r] < MaxAttempts}

SweptJob == [r \in Runs |-> IF r \in Exhausted THEN "failed" ELSE job[r]]
SweptRun == [r \in Runs |-> IF r \in Exhausted /\ run[r] = "running"
                            THEN "failed" ELSE run[r]]

NextGeneration(r) == gen[r] + 1

\* claim: fail the exhausted jobs, then take one candidate under a new
\* generation.  The oldest-first order is abstracted to a choice.
Claim(w, r) ==
    /\ wk[w].pc = "idle"
    /\ r \in Candidates
    /\ gen' = [gen EXCEPT ![r] = NextGeneration(r)]
    /\ attempts' = [attempts EXCEPT ![r] = attempts[r] + 1]
    /\ live' = [live EXCEPT ![r] = TRUE]
    /\ job' = [SweptJob EXCEPT ![r] = IF job[r] = "cancel_requested"
                                      THEN "cancel_requested" ELSE "running"]
    /\ run' = [SweptRun EXCEPT ![r] = IF run[r] \in {"queued", "running", "failed"}
                                      THEN "running" ELSE run[r]]
    /\ wk' = [wk EXCEPT ![w] = [IdleWorker EXCEPT !.pc = "load", !.run = r,
                                                  !.gen = NextGeneration(r)]]
    /\ UNCHANGED <<stage, risk, recs, decision, supervised, fin, trail, faults>>

\* claim that finds nothing to take (a retry may still be waiting its delay).
Sweep(w) ==
    /\ wk[w].pc = "idle"
    /\ Exhausted # {}
    /\ \A r \in Candidates : job[r] = "retry_wait"
    /\ job' = SweptJob
    /\ run' = SweptRun
    /\ UNCHANGED <<attempts, gen, live, stage, risk, recs, decision, supervised, fin,
                   trail, wk, faults>>

----------------------------------------------------------------------------
(* A worker's attempt: run_once after the claim.                           *)

\* _resolve_context, _load_dataset and the set of stages still to run.
Load(w) ==
    /\ wk[w].pc = "load"
    /\ wk' = [wk EXCEPT ![w].pc = "before", ![w].todo = Stages \ Done(wk[w].run)]
    /\ UnchangedTables

\* before(): stop at the stage boundary when a cancel is pending.  _execute
\* swallows that CancelAtBoundary and returns.
BeforeStage(w) ==
    /\ wk[w].pc = "before" /\ wk[w].todo # {}
    /\ Goto(w, IF job[wk[w].run] = "cancel_requested" THEN "executed" ELSE "start")
    /\ UnchangedTables

\* _assert_lease raised LeaseLost: the attempt is dropped.  A check that
\* passed just before the lease was lost is the choice not to take this.
LoseLease(w) ==
    /\ wk[w].pc \in {"before", "boundary"}
    /\ ~Holds(w)
    /\ GoIdle(w)
    /\ UnchangedTables

\* _step_start, in one transaction with its lease check.
StartStage(w) ==
    /\ wk[w].pc = "start"
    /\ \E s \in wk[w].todo :
         /\ \A t \in wk[w].todo : s <= t
         /\ IF Holds(w)
            THEN /\ stage' = [stage EXCEPT ![wk[w].run][s] = "running"]
                 /\ Goto(w, "evaluate")
            ELSE GoIdle(w) /\ UNCHANGED stage
    /\ UNCHANGED <<run, job, attempts, gen, live, risk, recs, decision, supervised,
                   fin, trail, faults>>

\* The detector ran and _persist_stage commits its result, its observation
\* and findings with it, if the lease still holds.
PersistStage(w, result) ==
    /\ wk[w].pc = "evaluate"
    /\ \E s \in wk[w].todo :
         /\ \A t \in wk[w].todo : s <= t
         /\ IF Holds(w)
            THEN /\ stage' = [stage EXCEPT ![wk[w].run][s] =
                                IF result = "ok" THEN "completed" ELSE "failed"]
                 /\ wk' = [wk EXCEPT ![w].pc = "before",
                                     ![w].todo = wk[w].todo \ {s},
                                     ![w].retry = wk[w].retry \/ result = "transient"]
            ELSE GoIdle(w) /\ UNCHANGED stage
    /\ UNCHANGED <<run, job, attempts, gen, live, risk, recs, decision, supervised,
                   fin, trail, faults>>

\* The end of _execute: a pending cancel returns, a transient stage failure
\* raises RetryableAnalysisError, otherwise _persist_risk runs, with no lease
\* check.
AfterStages(w) ==
    LET r == wk[w].run
    IN  /\ wk[w].pc = "before" /\ wk[w].todo = {}
        /\ \/ /\ job[r] = "cancel_requested"
              /\ Goto(w, "executed")
              /\ UNCHANGED risk
           \/ /\ job[r] # "cancel_requested" /\ wk[w].retry
              /\ GoFail(w, TRUE)
              /\ UNCHANGED risk
           \/ /\ job[r] # "cancel_requested" /\ ~wk[w].retry
              /\ risk' = [risk EXCEPT ![r] = RiskRow(r)]
              /\ Goto(w, "executed")
        /\ UNCHANGED <<run, job, attempts, gen, live, stage, recs, decision,
                       supervised, fin, trail, faults>>

\* A supervised run with results gets its recommendations, model inference and
\* briefing, each after a lease check; other runs go straight to the outcome.
Advise(w) ==
    LET r == wk[w].run
    IN  /\ wk[w].pc = "executed"
        /\ \/ /\ ~(supervised[r] /\ Finish(r) # "failed")
              /\ Goto(w, "settle")
              /\ UNCHANGED recs
           \/ /\ supervised[r] /\ Finish(r) # "failed" /\ Holds(w)
              /\ recs' = [recs EXCEPT ![r] = Done(r)]
              /\ Goto(w, "pause")
           \/ /\ supervised[r] /\ Finish(r) # "failed" /\ ~Holds(w)
              /\ GoIdle(w)
              /\ UNCHANGED recs
        /\ UNCHANGED <<run, job, attempts, gen, live, stage, risk, decision,
                       supervised, fin, trail, faults>>

\* pause_for_review, unless a decision is already recorded.  The lifecycle
\* check refuses to pause a run being cancelled with a DomainValidationError.
PauseForReview(w) ==
    LET r == wk[w].run
    IN  /\ wk[w].pc = "pause"
        /\ \/ /\ decision[r] # {}
              /\ Goto(w, "settle")
              /\ UNCHANGED <<run, job, live>>
           \/ /\ decision[r] = {} /\ ~Holds(w)
              /\ GoIdle(w)
              /\ UNCHANGED <<run, job, live>>
           \/ /\ decision[r] = {} /\ Holds(w) /\ run[r] # "running"
              /\ GoFail(w, FALSE)
              /\ UNCHANGED <<run, job, live>>
           \/ /\ decision[r] = {} /\ Holds(w) /\ run[r] = "running"
              /\ run' = [run EXCEPT ![r] = "awaiting_review"]
              /\ job' = [job EXCEPT ![r] = "completed"]
              /\ live' = [live EXCEPT ![r] = FALSE]
              /\ GoAudit(w, "awaiting_review")
        /\ UNCHANGED <<attempts, gen, stage, risk, recs, decision, supervised, fin,
                       trail, faults>>

\* run_once chooses how to end the attempt from the run and stage rows.
Settle(w) ==
    LET r == wk[w].run
    IN  /\ wk[w].pc = "settle"
        /\ \/ run[r] = "cancel_requested" /\ Goto(w, "mark")
           \/ /\ run[r] # "cancel_requested" /\ Finish(r) = "failed"
              /\ GoFail(w, FALSE)
           \/ /\ run[r] # "cancel_requested" /\ Finish(r) # "failed"
              /\ wk' = [wk EXCEPT ![w].pc = IF supervised[r] THEN "boundary" ELSE "complete",
                                  ![w].step = "canonicalize",
                                  ![w].event = Finish(r)]
        /\ UnchangedTables

----------------------------------------------------------------------------
(* Trust finalization as the worker drives it; module TrustFinalization    *)
(* has the receipt and the ledger behind these steps.                      *)

\* boundary(): lease (see LoseLease) and cancel are checked before each step.
FinBoundary(w) ==
    /\ wk[w].pc = "boundary"
    /\ Goto(w, IF job[wk[w].run] = "cancel_requested" THEN "mark" ELSE "durable")
    /\ UnchangedTables

AfterStep == [canonicalize |-> "prepare", prepare |-> "record", record |-> "append",
              append |-> "verify", verify |-> "seal", seal |-> "seal"]

\* What a step commits to the finalization row.  Steps are idempotent: a
\* resumed finalization passes again over what is already recorded.
FinAdvance(r, step) ==
    CASE step = "prepare" /\ fin[r] = "none"     -> "prepared"
      [] step = "record"  /\ fin[r] = "prepared" -> "recorded"
      [] step = "verify"  /\ fin[r] = "recorded" -> "bound"
      [] step = "seal"                           -> "verified"
      [] OTHER                                   -> fin[r]

\* The steps that rebuild the canonical document from the live tables: record
\* does it in the transaction of the receipt, verify after binding the ledger.
ChecksDocument(r, step) ==
    \/ step \in {"canonicalize", "verify"}
    \/ step = "record" /\ fin[r] = "prepared"

FinDurable(w) ==
    LET r == wk[w].run
        step == wk[w].step
        differs == ChecksDocument(r, step) /\ ~ReviewedContext(r)
    IN  /\ wk[w].pc = "durable"
        /\ fin' = IF differs /\ step # "verify" THEN fin
                  ELSE [fin EXCEPT ![r] = FinAdvance(r, step)]
        /\ IF differs
           THEN GoFail(w, FALSE)
           ELSE wk' = [wk EXCEPT ![w].pc = IF step = "seal" THEN "complete" ELSE "boundary",
                                 ![w].step = AfterStep[step]]
        /\ UNCHANGED <<run, job, attempts, gen, live, stage, risk, recs, decision,
                       supervised, trail, faults>>

\* An OSError of the trust storage is a RetryableAnalysisError.
FinStorageError(w) ==
    /\ wk[w].pc = "durable"
    /\ GoFail(w, TRUE)
    /\ UnchangedTables

----------------------------------------------------------------------------
(* Ending an attempt.                                                      *)

\* complete(lease, completed | partial).  Its lifecycle check never fails here:
\* RunJobCoherent leaves only running and cancel_requested under a lease.
Complete(w) ==
    LET r == wk[w].run
    IN  /\ wk[w].pc = "complete"
        /\ \/ /\ ~Holds(w)
              /\ GoIdle(w)
              /\ UNCHANGED <<run, job, live>>
           \/ /\ Holds(w) /\ supervised[r] /\ ~FinalizationVerified(r)
              /\ GoFail(w, FALSE)
              /\ UNCHANGED <<run, job, live>>
           \/ /\ Holds(w) /\ (supervised[r] => FinalizationVerified(r))
              /\ run[r] = "cancel_requested"
              /\ Goto(w, "mark")
              /\ UNCHANGED <<run, job, live>>
           \/ /\ Holds(w) /\ (supervised[r] => FinalizationVerified(r))
              /\ run[r] # "cancel_requested"
              /\ run' = [run EXCEPT ![r] = wk[w].event]
              /\ job' = [job EXCEPT ![r] = "completed"]
              /\ live' = [live EXCEPT ![r] = FALSE]
              /\ GoAudit(w, wk[w].event)
        /\ UNCHANGED <<attempts, gen, stage, risk, recs, decision, supervised, fin,
                       trail, faults>>

\* _mark_pending_cancelled, which checks no lease.
MarkPendingCancelled(w) ==
    /\ wk[w].pc = "mark"
    /\ stage' = [stage EXCEPT ![wk[w].run] =
                   [s \in Stages |-> IF stage[wk[w].run][s] = "pending"
                                     THEN "cancelled" ELSE stage[wk[w].run][s]]]
    /\ Goto(w, "cancel")
    /\ UNCHANGED <<run, job, attempts, gen, live, risk, recs, decision, supervised,
                   fin, trail, faults>>

\* complete(lease, cancelled)
CompleteCancelled(w) ==
    LET r == wk[w].run
    IN  /\ wk[w].pc = "cancel"
        /\ IF Holds(w)
           THEN /\ run' = [run EXCEPT ![r] = "cancelled"]
                /\ job' = [job EXCEPT ![r] = "cancelled"]
                /\ live' = [live EXCEPT ![r] = FALSE]
                /\ GoAudit(w, "cancelled")
           ELSE GoIdle(w) /\ UNCHANGED <<run, job, live>>
        /\ UNCHANGED <<attempts, gen, stage, risk, recs, decision, supervised, fin,
                       trail, faults>>

\* fail(): cancelled if a cancel is pending, else retried while attempts are
\* left, else failed.  lease.attempt is the row's count while the lease holds.
\* run_once records analysis.failed for both final outcomes.
Fail(w) ==
    LET r == wk[w].run
        retry == wk[w].retry /\ attempts[r] < MaxAttempts
    IN  /\ wk[w].pc = "fail"
        /\ IF ~Holds(w)
           THEN GoIdle(w) /\ UNCHANGED <<run, job, live>>
           ELSE /\ live' = [live EXCEPT ![r] = FALSE]
                /\ \/ /\ job[r] = "cancel_requested"
                      /\ job' = [job EXCEPT ![r] = "cancelled"]
                      /\ run' = [run EXCEPT ![r] = "cancelled"]
                      /\ GoAudit(w, "failed")
                   \/ /\ job[r] # "cancel_requested" /\ retry
                      /\ job' = [job EXCEPT ![r] = "retry_wait"]
                      /\ run' = [run EXCEPT ![r] = "queued"]
                      /\ GoAudit(w, "retry_scheduled")
                   \/ /\ job[r] # "cancel_requested" /\ ~retry
                      /\ job' = [job EXCEPT ![r] = "failed"]
                      /\ run' = [run EXCEPT ![r] = "failed"]
                      /\ GoAudit(w, "failed")
        /\ UNCHANGED <<attempts, gen, stage, risk, recs, decision, supervised, fin,
                       trail, faults>>

\* _audit_run_safely: appended after the commit; a failed append is logged.
Audit(w, appended) ==
    /\ wk[w].pc = "audit"
    /\ trail' = IF appended
                THEN [trail EXCEPT ![wk[w].run] = @ \union {wk[w].event}] ELSE trail
    /\ GoIdle(w)
    /\ UNCHANGED <<run, job, attempts, gen, live, stage, risk, recs, decision,
                   supervised, fin, faults>>

----------------------------------------------------------------------------
(* Faults.                                                                 *)

\* Any statement of run_once's try body may raise (database, missing key, an
\* inconsistent scope): the handler calls fail() with retryable false.
Raise(w) ==
    /\ wk[w].pc \in {"load", "before", "start", "evaluate", "executed", "pause",
                     "settle", "boundary", "durable", "complete"}
    /\ faults < MaxFaults
    /\ faults' = faults + 1
    /\ GoFail(w, FALSE)
    /\ UNCHANGED <<run, job, attempts, gen, live, stage, risk, recs, decision,
                   supervised, fin, trail>>

\* The process dies between two steps and comes back with no lease.
Crash(w) ==
    /\ wk[w].pc # "idle"
    /\ faults < MaxFaults
    /\ faults' = faults + 1
    /\ GoIdle(w)
    /\ UNCHANGED <<run, job, attempts, gen, live, stage, risk, recs, decision,
                   supervised, fin, trail>>

Held(r) == \E w \in Workers : wk[w].pc # "idle" /\ wk[w].run = r /\ wk[w].gen = gen[r]

\* The lease of a dead or departed worker runs out.
Expire(r) ==
    /\ live[r] /\ ~Held(r)
    /\ live' = [live EXCEPT ![r] = FALSE]
    /\ UNCHANGED <<run, job, attempts, gen, stage, risk, recs, decision, supervised,
                   fin, trail, wk, faults>>

\* The lease of a worker that is only slow runs out: its heartbeats were late.
Overrun(r) ==
    /\ live[r] /\ Held(r)
    /\ faults < MaxFaults
    /\ faults' = faults + 1
    /\ live' = [live EXCEPT ![r] = FALSE]
    /\ UNCHANGED <<run, job, attempts, gen, stage, risk, recs, decision, supervised,
                   fin, trail, wk>>

----------------------------------------------------------------------------
Take(w) == Sweep(w) \/ \E r \in Runs : Claim(w, r)

\* Everything a worker does once it has claimed a run.
Step(w) ==
    \/ Load(w) \/ BeforeStage(w) \/ LoseLease(w) \/ StartStage(w)
    \/ \E result \in {"ok", "transient", "fatal"} : PersistStage(w, result)
    \/ AfterStages(w) \/ Advise(w) \/ PauseForReview(w) \/ Settle(w)
    \/ FinBoundary(w) \/ FinDurable(w) \/ FinStorageError(w)
    \/ Complete(w) \/ MarkPendingCancelled(w) \/ CompleteCancelled(w) \/ Fail(w)
    \/ \E appended \in BOOLEAN : Audit(w, appended)

Next ==
    \/ \E r \in Runs : \/ \E sup \in BOOLEAN : CreateRun(r, sup)
                       \/ Cancel(r) \/ Decide(r) \/ Expire(r) \/ Overrun(r)
    \/ \E w \in Workers : Take(w) \/ Step(w) \/ Raise(w) \/ Crash(w)

Spec == Init /\ [][Next]_vars

\* worker_main polls for ever, a worker that has claimed keeps executing, and
\* a lease nobody renews runs out.  Callers and faults are under no obligation.
Fairness ==
    /\ WF_vars(\E w \in Workers : Take(w))
    /\ \A w \in Workers : WF_vars(Step(w))
    /\ \A r \in Runs : WF_vars(Expire(r))

FairSpec == Spec /\ Fairness
----------------------------------------------------------------------------
(* Properties.                                                             *)

\* The local states a worker may be in: one that has claimed names its run.
WorkerState ==
    {x \in [pc : PC, run : Runs \union {NoRun}, gen : Nat, todo : SUBSET Stages,
            retry : BOOLEAN, step : FinStep, event : Event] :
        x.pc # "idle" => x.run \in Runs}

TypeOK ==
    /\ run \in [Runs -> RunStatus]
    /\ supervised \in [Runs -> BOOLEAN]
    /\ job \in [Runs -> JobStatus]
    /\ attempts \in [Runs -> Nat]
    /\ gen \in [Runs -> Nat]
    /\ live \in [Runs -> BOOLEAN]
    /\ stage \in [Runs -> [Stages -> StageStatus]]
    /\ risk \in [Runs -> SUBSET SUBSET Stages]
    /\ recs \in [Runs -> SUBSET Stages]
    /\ decision \in [Runs -> SUBSET SUBSET Stages]
    /\ fin \in [Runs -> FinState]
    /\ trail \in [Runs -> SUBSET Event]
    /\ wk \in [Workers -> WorkerState]
    /\ faults \in 0..MaxFaults

JobsOf == [none             |-> {"none"},
           queued           |-> {"queued", "retry_wait"},
           running          |-> {"running"},
           cancel_requested |-> {"cancel_requested"},
           awaiting_review  |-> {"completed"},
           completed        |-> {"completed"},
           partial          |-> {"completed"},
           failed           |-> {"failed"},
           cancelled        |-> {"cancelled"}]

\* The run and its queue item, updated by eight transactions in three classes,
\* never disagree: no run waits in a state whose job nobody will claim, and no
\* lease outlives the execution of its job.
RunJobCoherent ==
    \A r \in Runs : /\ job[r] \in JobsOf[run[r]]
                    /\ live[r] => job[r] \in {"running", "cancel_requested"}

\* Lease generations fence: two workers that both believe they execute a run
\* never share a generation, however their claims, crashes and expiries fell.
LeaseExclusive ==
    \A v, w \in Workers :
        (v # w /\ wk[v].pc # "idle" /\ wk[v].run = wk[w].run) => wk[v].gen # wk[w].gen

\* A run reported completed has the results of every stage, and a partial one
\* a definite result for each: no stage that a dead worker left pending or
\* half executed is passed over when the run is resumed.
AccountsForStages(r) ==
    /\ run[r] = "completed" => Done(r) = Stages
    /\ run[r] = "partial" => \A s \in Stages : stage[r][s] \in {"completed", "failed"}

EveryStageAccountedFor == \A r \in Runs : AccountsForStages(r)

\* Human review binds: a supervised run completes only with exactly the results
\* its supervisor decided on, whatever stages were re-executed after a resume.
OnlyReviewedResultsComplete ==
    \A r \in Runs :
        supervised[r] /\ run[r] \in {"completed", "partial"}
            => decision[r] = {Done(r)} /\ fin[r] = "verified"

\* A run shown to supervisors as awaiting review can be decided: decide() will
\* find the risk row and a recommendation for every finding.
PausedRunIsDecidable ==
    \A r \in Runs : run[r] = "awaiting_review" => Documented(r) /\ decision[r] = {}

\* A recorded completion or cancellation is the truth about the run, even
\* though the event is appended after the commit by a worker without a lease.
AuditTellsTruth ==
    \A r \in Runs :
        \A e \in trail[r] \intersect {"completed", "partial", "cancelled"} : run[r] = e

\* A stage's committed results are never reopened or overwritten, though stale
\* and resumed workers keep executing (a stale owner cannot persist output).
CompletedStageStable ==
    [][\A r \in Runs : Done(r) \subseteq Done(r)']_vars

\* Seen from the API a run follows RunLifecycle: terminal states are final, a
\* requested cancel ends in cancelled, review and trust precede completion.
Life == INSTANCE RunLifecycle WITH
    status  <- run,
    decided <- [r \in Runs |-> decision[r] # {}],
    trusted <- [r \in Runs |-> fin[r] = "verified"]

RunsFollowLifecycle == Life!Spec

\* A requested cancel is carried out, whoever crashed holding the lease.
CancelIsCarriedOut ==
    \A r \in Runs : run[r] = "cancel_requested" ~> run[r] = "cancelled"

----------------------------------------------------------------------------
(* A claim of the documentation that the code does not keep.               *)

\* docs/ANALYSIS_EXECUTION.md: the risk profile persisted for a run is that of
\* the run's findings.
RiskCoversFindings ==
    \A r \in Runs : run[r] \in {"completed", "partial"} => risk[r] = {Done(r)}
=============================================================================
