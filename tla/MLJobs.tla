------------------------------- MODULE MLJobs -------------------------------
(***************************************************************************)
(* The background jobs of the ML subsystem (satsa/mlops/jobs.py): jobs that*)
(* validate one dataset and train models on it are claimed under a lease   *)
(* with a generation, executed by workers that may be overtaken or die,    *)
(* retried, cancelled and swept, while each handler keeps rows of its own. *)
(*                                                                         *)
(* One action is one transaction or one autocommitted statement, in the    *)
(* database mode that serializes them (SQLite).  Nothing renews a lease:   *)
(* live[j] says it has not run out, and it may run out at any moment.      *)
(* Drift reports, one idempotent INSERT per job, are left out.             *)
(***************************************************************************)
EXTENDS Naturals, FiniteSets

CONSTANTS
    Validations,  \* jobs of kind validate_dataset for the dataset
    Trainings,    \* jobs of kind train on the dataset
    Workers,      \* worker processes
    MaxAttempts,  \* satsa_ml_jobs.max_attempts (3 in the code)
    Nobody        \* no owner, the job of an idle worker

Jobs == Validations \union Trainings

ASSUME JobsAssumption     == /\ Nobody \notin Jobs \union Workers
                             /\ Validations \intersect Trainings = {}
ASSUME AttemptsAssumption == MaxAttempts \in Nat \ {0}

VARIABLES
    status,    \* satsa_ml_jobs.status
    attempts,  \* satsa_ml_jobs.attempt_count
    gen,       \* satsa_ml_jobs.lease_generation
    owner,     \* satsa_ml_jobs.lease_owner
    live,      \* lease_expires_at > now
    data,      \* satsa_ml_datasets.status
    train,     \* satsa_ml_training_runs.status of each training job
    model,     \* the training run's satsa_ml_models row exists
    wk         \* local state of each worker process

queue   == <<status, attempts, gen, owner, live>>
jobVars == <<queue, data, train, model, wk>>

Final      == {"completed", "failed", "cancelled"}
Held       == {"running", "cancel_requested"}
Unfinished == Held \union {"queued", "retry_wait"}
RunStatus  == {"none", "running", "completed", "failed", "cancelled"}
PC == {"idle", "begin", "read", "start", "compute", "commit", "store", "lookup",
       "register", "settle", "end", "finish", "retry", "clean", "failed",
       "uncancel", "cancelled", "exhausted"}

IdleWorker == [pc |-> "idle", job |-> Nobody, gen |-> 0, attempt |-> 0]

JobInit ==
    /\ status = [j \in Jobs |-> "none"]
    /\ attempts = [j \in Jobs |-> 0]
    /\ gen = [j \in Jobs |-> 0]
    /\ owner = [j \in Jobs |-> Nobody]
    /\ live = [j \in Jobs |-> FALSE]
    /\ data = "created"
    /\ train = [j \in Trainings |-> "none"]
    /\ model = [j \in Trainings |-> FALSE]
    /\ wk = [w \in Workers |-> IdleWorker]

WorkerAt(w, pc) == wk[w].pc = pc
WorkerTo(w, pc) == wk' = [wk EXCEPT ![w].pc = pc]
GoIdle(w)       == wk' = [wk EXCEPT ![w] = IdleWorker]

\* Defect: only the generation is compared, not the status.
OwnedByGeneration(w) == gen[wk[w].job] = wk[w].gen

\* _owned: the row still has this worker's lease.  Its expiry is not looked at.
Owned(w) ==
    LET j == wk[w].job
    IN  status[j] \in Held /\ owner[j] = w /\ gen[j] = wk[w].gen

----------------------------------------------------------------------------
(* Requests.                                                               *)

\* enqueue, behind the service's check of the dataset.
Enqueue(j) ==
    /\ status[j] = "none"
    /\ j \in Trainings => data = "valid"
    /\ status' = [status EXCEPT ![j] = "queued"]
    /\ UNCHANGED <<attempts, gen, owner, live, data, train, model, wk>>

Cancel(j) ==
    /\ status[j] \in {"queued", "retry_wait", "running"}
    /\ status' = [status EXCEPT ![j] =
                    IF @ = "running" THEN "cancel_requested" ELSE "cancelled"]
    /\ UNCHANGED <<attempts, gen, owner, live, data, train, model, wk>>

----------------------------------------------------------------------------
(* claim(): sweep, clean up after failed jobs, take a candidate.           *)

\* Defect: a job whose cancellation is pending is not swept.
ExhaustedRunning == {j \in Jobs : status[j] = "running" /\ ~live[j] /\ attempts[j] >= MaxAttempts}

Exhausted == {j \in Jobs : status[j] \in Held /\ ~live[j] /\ attempts[j] >= MaxAttempts}

Candidates ==
    {j \in Jobs : /\ attempts[j] < MaxAttempts
                  /\ \/ status[j] \in {"queued", "retry_wait"}
                     \/ status[j] \in Held /\ ~live[j]}

SweptStatus == [j \in Jobs |-> IF j \in Exhausted THEN "failed" ELSE status[j]]
SweptOwner  == [j \in Jobs |-> IF j \in Exhausted THEN Nobody ELSE owner[j]]

\* Defect: only the queue is swept.
TrainLeft == train

\* Nothing a dead worker started may stay running or validating.
CleanedTrain ==
    [j \in Trainings |-> IF train[j] = "running" /\ SweptStatus[j] = "failed"
                         THEN "failed" ELSE train[j]]
CleanedData ==
    IF /\ data = "validating"
       /\ \E j \in Validations : SweptStatus[j] = "failed"
       /\ \A j \in Validations : SweptStatus[j] \notin Unfinished
    THEN "created" ELSE data

Claim(w, j) ==
    /\ WorkerAt(w, "idle")
    /\ j \in Candidates
    /\ status' = [SweptStatus EXCEPT ![j] =
                    IF @ = "cancel_requested" THEN "cancel_requested" ELSE "running"]
    /\ attempts' = [attempts EXCEPT ![j] = @ + 1]
    /\ gen' = [gen EXCEPT ![j] = @ + 1]
    /\ owner' = [SweptOwner EXCEPT ![j] = w]
    /\ live' = [live EXCEPT ![j] = TRUE]
    /\ train' = CleanedTrain
    /\ data' = CleanedData
    /\ wk' = [wk EXCEPT ![w] = [pc |-> "begin", job |-> j, gen |-> gen[j] + 1,
                                attempt |-> attempts[j] + 1]]
    /\ UNCHANGED model

\* A claim that finds nothing available (a retry may still wait its delay).
Sweep(w) ==
    /\ WorkerAt(w, "idle")
    /\ \A j \in Candidates : status[j] = "retry_wait"
    /\ status' = SweptStatus
    /\ owner' = SweptOwner
    /\ train' = CleanedTrain
    /\ data' = CleanedData
    /\ UNCHANGED <<attempts, gen, live, model, wk>>

----------------------------------------------------------------------------
(* run_once: boundaries, the handler, the end.                             *)

\* What follows the boundary each of these stands for.
AfterBoundary(w) ==
    CASE WorkerAt(w, "begin")  -> "read"
      [] WorkerAt(w, "commit") -> IF wk[w].job \in Validations THEN "store" ELSE "lookup"
      [] WorkerAt(w, "end")    -> "finish"

\* boundary(): LeaseLost ends run_once, JobCancelled goes to its handler.
Boundary(w) ==
    /\ wk[w].pc \in {"begin", "commit", "end"}
    /\ IF ~Owned(w) THEN GoIdle(w)
       ELSE WorkerTo(w, IF status[wk[w].job] = "cancel_requested" THEN "uncancel"
                        ELSE AfterBoundary(w))
    /\ UNCHANGED <<queue, data, train, model>>

\* _validate and _train read what an earlier attempt left.
Read(w) ==
    LET j == wk[w].job
        decided == IF j \in Validations THEN data \in {"valid", "invalid"}
                                        ELSE train[j] = "completed"
        started == j \in Trainings /\ train[j] # "none"
    IN  /\ WorkerAt(w, "read")
        /\ WorkerTo(w, IF decided THEN "end" ELSE IF started THEN "compute" ELSE "start")
        /\ UNCHANGED <<queue, data, train, model>>

\* The dataset becomes validating; the training run is inserted, unless another
\* worker did so since: then the INSERT raises and the attempt is retried.
Start(w) ==
    LET j == wk[w].job
    IN  /\ WorkerAt(w, "start")
        /\ \/ /\ j \in Validations
              /\ data' = IF data = "created" THEN "validating" ELSE data
              /\ WorkerTo(w, "compute")
              /\ UNCHANGED train
           \/ /\ j \in Trainings /\ train[j] = "none"
              /\ train' = [train EXCEPT ![j] = "running"]
              /\ WorkerTo(w, "compute")
              /\ UNCHANGED data
           \/ /\ j \in Trainings /\ train[j] # "none"
              /\ WorkerTo(w, "retry")
              /\ UNCHANGED <<data, train>>
        /\ UNCHANGED <<queue, model>>

\* Snapshot, validation or training; training may refuse its input.
Compute(w, refused) ==
    /\ WorkerAt(w, "compute")
    /\ refused => wk[w].job \in Trainings
    /\ WorkerTo(w, IF refused THEN "clean" ELSE "commit")
    /\ UNCHANGED <<queue, data, train, model>>

\* UPDATE satsa_ml_datasets ... AND status='validating'
StoreVerdict(w, verdict) ==
    /\ WorkerAt(w, "store")
    /\ data' = IF data = "validating" THEN verdict ELSE data
    /\ WorkerTo(w, "end")
    /\ UNCHANGED <<queue, train, model>>

\* registry.register: an existing model is returned...
Lookup(w) ==
    /\ WorkerAt(w, "lookup")
    /\ WorkerTo(w, IF model[wk[w].job] THEN "settle" ELSE "register")
    /\ UNCHANGED <<queue, data, train, model>>

\* ...else one is inserted; a second row for the training run raises.
Register(w) ==
    LET j == wk[w].job
    IN  /\ WorkerAt(w, "register")
        /\ model' = [model EXCEPT ![j] = TRUE]
        /\ WorkerTo(w, IF model[j] THEN "retry" ELSE "settle")
        /\ UNCHANGED <<queue, data, train>>

\* Defect: the run is settled only while it is running, as the cleanup does it.
SettleRunning(w) ==
    LET j == wk[w].job
    IN  /\ WorkerAt(w, "settle")
        /\ train' = IF train[j] = "running" THEN [train EXCEPT ![j] = "completed"] ELSE train
        /\ WorkerTo(w, "end")
        /\ UNCHANGED <<queue, data, model>>

Settle(w) ==
    /\ WorkerAt(w, "settle")
    /\ train' = [train EXCEPT ![wk[w].job] = "completed"]
    /\ WorkerTo(w, "end")
    /\ UNCHANGED <<queue, data, model>>

\* finish(): refused (LeaseLost) when the lease is another's.
Finish(w) ==
    LET j == wk[w].job
    IN  /\ wk[w].pc \in {"finish", "failed", "cancelled"}
        /\ IF Owned(w)
           THEN /\ status' = [status EXCEPT ![j] = IF WorkerAt(w, "finish") THEN "completed"
                                                   ELSE wk[w].pc]
                /\ owner' = [owner EXCEPT ![j] = Nobody]
                /\ live' = [live EXCEPT ![j] = FALSE]
           ELSE UNCHANGED <<status, owner, live>>
        /\ GoIdle(w)
        /\ UNCHANGED <<attempts, gen, data, train, model>>

----------------------------------------------------------------------------
(* Errors and cancellation.                                                *)

\* A transient error anywhere in the try body.
Trouble(w) ==
    /\ wk[w].pc \in {"begin", "read", "start", "compute", "commit", "store", "lookup",
                     "register", "settle", "end", "finish"}
    /\ WorkerTo(w, "retry")
    /\ UNCHANGED <<queue, data, train, model>>

\* retry(): UPDATE ... WHERE id=? AND lease_generation=?
Retry(w) ==
    LET j == wk[w].job
        exhausted == wk[w].attempt >= MaxAttempts
    IN  /\ WorkerAt(w, "retry")
        /\ IF gen[j] = wk[w].gen
           THEN /\ status' = [status EXCEPT ![j] = IF exhausted THEN "failed" ELSE "retry_wait"]
                /\ owner' = [owner EXCEPT ![j] = Nobody]
                /\ live' = [live EXCEPT ![j] = FALSE]
           ELSE UNCHANGED <<status, owner, live>>
        /\ IF exhausted THEN WorkerTo(w, "exhausted") ELSE GoIdle(w)
        /\ UNCHANGED <<attempts, gen, data, train, model>>

\* _on_failure (clean, exhausted) and _on_cancel (uncancel), without a fence.
CleanUp(w) ==
    LET j == wk[w].job
        outcome == IF WorkerAt(w, "uncancel") THEN "cancelled" ELSE "failed"
    IN  /\ wk[w].pc \in {"clean", "exhausted", "uncancel"}
        /\ train' = IF j \in Trainings /\ train[j] = "running"
                    THEN [train EXCEPT ![j] = outcome] ELSE train
        /\ data' = IF j \in Validations /\ data = "validating" THEN "created" ELSE data
        /\ IF WorkerAt(w, "exhausted") THEN GoIdle(w) ELSE WorkerTo(w, outcome)
        /\ UNCHANGED <<queue, model>>

WorkerCrash(w) ==
    /\ ~WorkerAt(w, "idle")
    /\ GoIdle(w)
    /\ UNCHANGED <<queue, data, train, model>>

Expire(j) ==
    /\ live[j]
    /\ live' = [live EXCEPT ![j] = FALSE]
    /\ UNCHANGED <<status, attempts, gen, owner, data, train, model, wk>>

----------------------------------------------------------------------------
Take(w) == Sweep(w) \/ \E j \in Jobs : Claim(w, j)

WorkerStep(w) ==
    \/ Boundary(w) \/ Read(w) \/ Start(w)
    \/ \E refused \in BOOLEAN : Compute(w, refused)
    \/ \E verdict \in {"valid", "invalid"} : StoreVerdict(w, verdict)
    \/ Lookup(w) \/ Register(w) \/ Settle(w) \/ Finish(w) \/ Retry(w) \/ CleanUp(w)

JobNext ==
    \/ \E j \in Jobs : Enqueue(j) \/ Cancel(j) \/ Expire(j)
    \/ \E w \in Workers : Take(w) \/ WorkerStep(w) \/ Trouble(w) \/ WorkerCrash(w)

JobSpec == JobInit /\ [][JobNext]_jobVars

\* worker_main gives the queue a turn every iteration, a worker that claimed
\* keeps executing, and time passes.
Fairness ==
    /\ WF_jobVars(\E w \in Workers : Take(w))
    /\ \A w \in Workers : WF_jobVars(WorkerStep(w))
    /\ \A j \in Jobs : WF_jobVars(Expire(j))

FairSpec == JobSpec /\ Fairness

----------------------------------------------------------------------------
(* Properties.                                                             *)

\* Every variable keeps its type, and no job exceeds its attempts.
JobTypeOK ==
    /\ status \in [Jobs -> Final \union Unfinished \union {"none"}]
    /\ attempts \in [Jobs -> 0..MaxAttempts]
    /\ gen \in [Jobs -> Nat]
    /\ owner \in [Jobs -> Workers \union {Nobody}]
    /\ live \in [Jobs -> BOOLEAN]
    /\ data \in {"created", "validating", "valid", "invalid"}
    /\ train \in [Trainings -> RunStatus]
    /\ model \in [Trainings -> BOOLEAN]
    /\ wk \in [Workers -> [pc : PC, job : Jobs \union {Nobody}, gen : Nat,
                           attempt : 0..MaxAttempts]]

\* Whatever overtaken workers still do, a job that ended keeps its outcome.
OutcomeIsFinal ==
    [][\A j \in Jobs : status[j] \in Final => status'[j] = status[j]]_jobVars

\* A completed job has its result: the training run is completed and has its
\* model, and the dataset is decided, although attempts before and beside the
\* successful one clean up without looking at the lease.  The second part needs
\* the dataset to have one validation job (a second one may reset it in between)
\* and that job to have needed two attempts at most: see ValidationDecides.
CompletedHasResult ==
    /\ \A j \in Trainings : status[j] = "completed" => train[j] = "completed" /\ model[j]
    /\ \A j \in Validations :
          status[j] = "completed" /\ attempts[j] <= 2 /\ Validations = {j}
             => data \in {"valid", "invalid"}

\* Every requested job ends, however often its workers die.
EveryJobEnds == \A j \in Jobs : status[j] \in Unfinished ~> status[j] \in Final

\* A failed job leaves no training run running and no dataset validating.
FailureLeavesNothing ==
    /\ \A j \in Trainings : status[j] = "failed" ~> train[j] # "running"
    /\ \A j \in Validations :
          status[j] = "failed" ~> \/ data # "validating"
                                  \/ \E i \in Validations : status[i] \in Unfinished

----------------------------------------------------------------------------
(* Claims that the code does not keep.                                     *)

\* The docstring of satsa/mlops/jobs.py: the cancellation of a running job is
\* honoured at the next boundary; it is not forgotten.
CancelIsNotForgotten ==
    [][\A j \in Jobs : status[j] = "cancel_requested"
                          => status'[j] \notin {"queued", "retry_wait", "running"}]_jobVars

\* A completed validation has decided its dataset.  With three attempts, which the
\* code permits, the cleanup of an attempt that saw a cancellation, which a retry
\* forgot, resets the dataset under a later attempt, and _validate does not look at
\* what its guarded UPDATE changed.
ValidationDecides ==
    \A j \in Validations : status[j] = "completed" => data \in {"valid", "invalid"}
=============================================================================
