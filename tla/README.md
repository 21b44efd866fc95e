# TLA+ verification of SAT-SA with PQC

This directory holds TLA+ models of the parts of SAT-SA where several
processes, threads or database transactions meet: the analysis queue and its
workers with the graph that supervises them, TRUST-SAT finalization, the
evidence ledger, the ML job queue and model registry, the submission workflow,
and of the platform the model registry, the keystores with their HSM and the
supervisor. TLC checks the models on small instances, TLAPS proves the central
invariants of eight of them for every instance.

Contents: [inventory](#1-inventory), [plan](#2-plan), [modules](#3-modules),
[runs](#4-runs), [fairness](#5-fairness), [proofs](#6-proofs),
[what the checks found](#7-where-code-and-documentation-disagree),
[limits](#8-what-is-not-modelled).

    tlc -workers 2 -config AnalysisExecution_resume.cfg MCAnalysisExecution
    tlapm AnalysisExecutionProofs.tla        (and each other ...Proofs.tla)

`PROJECT.json` maps every modelling definition to the lines it stands for and
lists the runs, the hazards of the code with the properties that watch them,
and a mutant for every property. The operators commented as defects (for
instance `PersistStageUnfenced` beside `PersistStage`) are these mutants:
plausible bugs, used by no specification, each of which makes its property fail.

## 1. Inventory

The repository holds two programs on one base. `src/qsmlops` is a platform for
models with post-quantum signatures (registry, serving, evidence ledger,
keystores, database). `src/satsa` is a hosted application on it that analyses
the security operations of supervised entities.

    API process(es)                       worker process(es)
    SubmissionService  create_run         worker_main: both queues, each turn
    cancel  decide                          AnalysisExecutionWorker.run_once
    enqueue  cancel (ML)                      stages -> pause -> finalize -> complete
         |        |                         MLJobWorker.run_once
         |        |                            validate / train / drift
         +--------+---- database -------------+   (SQLite or PostgreSQL)
         +------------- evidence ledger ------+   (one file, hash chained)
         +------------- object storage -------+

| Component | State it keeps | Operations | What is hard | What makes it correct |
| --- | --- | --- | --- | --- |
| Graph supervision (`satsa/analysis/graph.py`), the API's default mode | a checkpoint per run in a store of its own | open, the seven nodes, interrupt, resume | nodes commit and checkpoint separately, no lease fences the checkpoint, the decision arrives between two attempts | the checkpoint never runs ahead of the tables; what is paused can be decided; what is decided ends |
| Analysis queue and workers (`satsa/analysis/execution.py`) | run, queue row with lease and generation, 16 stage rows, risk, recommendations, decision | create_run, cancel, decide; claim, heartbeat, stages, pause, complete, fail | leases run out under slow workers, crashes between commits, resumption, cancel at any time | run and queue row agree; a stale owner changes nothing; what was reviewed is what completes; every run ends |
| The same transactions on PostgreSQL (`qsmlops/database/postgres.py`) | row locks, uncommitted versions | the statements of those transactions | READ COMMITTED, reads before locks, lock order | no lost update, no deadlock among requests, every transaction ends |
| TRUST-SAT finalization (`trust.py`, `canonical.py`) | finalization row, receipts, ledger entries | `finalize` (15 steps, re-entrant), `verify_finalization` | death and takeover between any two steps, edits of the live state while signing | what is recorded is never rewritten, nothing stale is signed, verified means whole |
| Evidence ledger and audit service (`evidence/ledger.py`, `security/audit/service.py`) | lines of one file, packet bodies, mirror rows, two kinds of lock | append, append_packet, record, record_once | processes share a file, append and commit are two steps, full disks | one chain, idempotent events once, acknowledged entries on it |
| ML job queue (`satsa/mlops/jobs.py`) | jobs, dataset status, training runs | enqueue, cancel, claim with sweep, handlers, finish, retry, cleanup | unfenced handler commits and cleanups, retries, pending cancellation | outcomes are final, completed jobs have results, failed ones leave nothing |
| Submissions (`satsa/submissions/service.py`, `storage.py`) | version status, artifact rows, stored objects, report | create, upload, complete_uploads, validate | intent row, external write, completion and validation run concurrently | the report covers exactly the stored artifacts, outcomes are frozen |
| ML model registry (`satsa/mlops/registry.py`) | model states, the chain of deployments | register, approve, deploy, rollback, retire | checks outside the transaction, concurrent swaps of the active row | one chain of deployments, deployed is approved, what is in service stays approved |
| Platform registry and serving (`qsmlops/registry`, `qsmlops/serving`) | version states, deployments, evidence | transition, verify, approve, validate, request, deploy, rollback, quarantine, revoke | one operation is many commits, restarts between them, evidence that decays | one active deployment, nothing unapproved and (where a gate governs) unvetted deployed |
| Keystores and HSM (`qsmlops/crypto/keys.py`, `secure_keystore.py`, `hsm.py`) | key records and secrets in JSON files or a vault, a registry in memory beside a token | generate, rotate, revoke, expire, sweep, lock, unlock; initialize, import, sign | read-modify-write of whole files by several processes, lost processes, token failures | one signer that has its secret, revoked keys never sign |
| Platform supervisor, policy, learning (`qsmlops/supervisor`, `pipeline/selfheal.py`) | streak of failures, the cycle under way | observe, decide, act, verify, learn | lost or malformed evidence, a registry that changes between action and verification, restarts | fails closed, a recorded recovery is real |
| HTTP APIs, CLI, UI | none | routing, schemas, limits | - | - |
| Identity, sessions, tenancy | users, memberships, sessions | permission checks and edits of single rows | whole-row read-modify-write of platform identities | a revoked identity stays revoked |
| Ingestion, detectors, risk, correlation, reports | none (functions of records) | - | large data domains | - |
| Training, inference, drift statistics | snapshots, artifacts | deterministic computations | floating point | - |
| Offline path (`analysis/run.py`, `review.py`) | files of one process | the same stages without a queue | - | - |
| LLM briefing, supervisory agents | stored texts | advisory output | - | - |
| Passport, supply chain, monitoring, evaluation, demo | documents, metrics | - | - | - |

## 2. Plan

Done, in this order, the most important behaviour first:

1. `AnalysisExecution` with the abstract `RunLifecycle` it implements, and
   `AnalysisExecutionProofs`.
2. `EvidenceLedger`, `TrustFinalization` (which uses the ledger as a sequence).
3. `PgRunTransitions`: the same run transactions at statement level.
4. `MLJobs`, `SubmissionVersions`.
5. `ModelRegistry`: the registry `MLJobs` registers into, statement by statement.
6. `PlatformRegistry`: its operations commit by commit, with restarts.
7. `HsmBackend` and `KeyStore`, which composes it with the files and the processes.
8. `Supervision`, over the registry of `PlatformRegistry` with atomic operations.
9. `AnalysisGraph`: graph-supervised runs, composed with the actions of
   `AnalysisExecution`; its liveness covers both modes.

Next:

10. The retraining requests of `mlops/service.py` (their accept and dismiss race)
    in `ModelRegistry`; the platform identities (`security/identity/service.py`).
11. Liveness of a validation (see section 7) and of packet appends.

Proofs: every invariant and every action property that a run checks is a theorem
(section 6). Worth proving next: `ActiveIsExclusive` from a weaker assumption than
operations that never overlap, and what `KeyStore` keeps when two processes call at once.

## 3. Modules

In every module one action is one transaction, one autocommitted statement, or
one call of storage or ledger; what lies between is where other processes step
in and where a process may die. A process' local variables are a record per
process with a `pc`. Time is not a number: a lease is live or not, and may run
out at any moment.

**`AnalysisExecution`** - `execution.py` in the database mode that serializes
transactions (SQLite, `BEGIN IMMEDIATE`). `run`, `job`, `attempts`, `gen`,
`live`, `stage`, `risk`, `recs`, `decision` and `fin` are the columns of the
tables; `trail` is the audit events; `wk` the workers. `CreateRun`, `Cancel`
and `Decide` are the API's calls. `Claim` and `Sweep` are the whole of
`claim()`: the sweep of exhausted runs, the choice and the new lease are one
transaction. `Load` to `Audit` follow `run_once` and `_execute`: every step that
checks the lease checks it again here, and `Raise`, `Crash`, `Overrun` and
`Expire` cut it short anywhere. The stages are numbers, a stage's findings are
the fact that it completed, and the risk profile is the set of stages it was
computed from, which is what stale profiles are told apart by. Finalization is
its sequence of durable steps, detailed in `TrustFinalization`.

**`RunLifecycle`** - the abstract specification: `RUN_TRANSITIONS` and the
review rules, without queue or workers. `AnalysisExecution` implements it under
the mapping `status <- run`, `decided <- decision # {}`, `trusted <- fin =
"verified"`.

**`...Proofs`** - `AnalysisExecutionProofs`, `PgRunTransitionsProofs`,
`TrustFinalizationProofs`, `EvidenceLedgerProofs`, `SubmissionVersionsProofs`,
`ModelRegistryProofs`, `PlatformRegistryProofs` and `SupervisionKeysProofs` each
extend the module they are named after with its inductive invariant and the theorems
of section 6. `ModelRegistryProofs` has the proofs about `MLJobs` too, and
`SupervisionKeysProofs` those about `Supervision` and `KeyStore`; `JobSpec` and
`StoreSpec` are the specifications of `MLJobs` and `KeyStore`, whose names differ from
those of the module beside them for that reason.

**`AnalysisGraph`** - `graph.py`: extends `AnalysisExecution` with `graph` (which
runs are graph-supervised), `ckpt` (the node a resumed graph runs next, or
"interrupted" or "end") and `node` (where each worker is inside `invoke`).
`OpenGraph` is `run()`: what the checkpoint, the decision and a pending cancel
make of this attempt. `EnterNode` is `_check`, `LeaveNode` the checkpoint after a
node, which no lease fences: `unfenced` records that a worker without the lease
has written one. `SharedStep` says which actions of `AnalysisExecution` a graph run
takes in which node, `StandardStep` leaves the other runs to that module. The
nodes `model_inference` and `reviewer_briefing` write advisory rows nobody here
reads, and are only entered and left. LangGraph itself is external: it
checkpoints after every node and keeps an interrupt until it is resumed.

**`PgRunTransitions`** - one supervised run on PostgreSQL. An UPDATE takes its
row's lock and keeps it until commit; the WHERE is evaluated on the version
found then; a plain SELECT reads what is committed. `tx` is each session's open
transaction and the statement it is at, `newRun` and `newJob` the versions of
the lock holders; `Deadlock` aborts a member of a cycle of waits. Each of
`claim`, `complete`, `pause_for_review`, `fail`, `cancel` and `decide` is its
sequence of statements in the code's order. `SweepDigest` is the update of the
content digest, which has no condition on the status and so locks the run row of a
sweep that changes nothing else.

**`TrustFinalization`** - `finalize()` as fifteen steps with the fence
(`Boundary`) that precedes the six it guards, in the hands of workers that die
and overtake each other. The canonical document is the version of the live
state it was computed from; a claim's number stands for everything fresh in it,
its signature and its clock readings, so that a retry that should have reused a
stored value shows. `Change` is an edit of the live
state, by whatever part of the program. The transaction after signing is two
steps, `Record` (the look) and `Insert`: `dialect` says whether others write in
between. On PostgreSQL only updates of the finalization row wait, on SQLite every
writing transaction does. A receipt's `at` is history: the live version when it
was inserted.

**`EvidenceLedger`** - threads of processes appending to one file: `record` and
`record_once` inside a database transaction that holds the append lock
(hosted and platform), `append_packet` under the lock of one process (platform); the
variable `dep` says whose ledger a behaviour is about: that of the hosted API and
worker, of the threads of one platform process, or of a platform API with a CLI beside
it. `raced` records that a packet was appended while another process was between
reading the head and writing behind it (`Beside`). A crash drops the
transaction and the locks but not the line; a full disk may leave a torn line,
which the next append joins. The hash of an entry is the tick at which it was
computed, because its timestamp makes it unique; the chain's `prev` is as in
the code.

**`MLJobs`** - `mlops/jobs.py`: claim with its sweep and its cleanup of the rows
dead workers left, the handlers of validation and training statement by
statement, `finish` behind `_owned`, `retry` behind the generation alone, and the
unfenced `_on_cancel` and `_on_failure`. `Lookup` and `Register` are
`registry.register`.

**`SubmissionVersions`** - `submissions/service.py` for one version. `Upload` to
`Fail` are `upload()`: the status it read first and trusts later, the lookup by
key, the intent transaction, the storage write, the mark. `Complete` to `Close`
are `complete_uploads`, `Validate` to `Reset` are `validate`. The category is the
identity of an artifact row because a unique index allows one per category.

**`ModelRegistry`** - `mlops/registry.py` for one model name on PostgreSQL.
`Exists` to `Store` are `register`, `Check` to `Swap` are `deploy` (the check of
the state before the transaction, the row lock, the active row read again, the
swap), `RollbackActive` and `RollbackTarget` choose what `rollback` deploys,
`RetireCheck` and `Retire` are `retire`. `lock` is the row lock of each model;
`deps` the deployments in order of creation, of which a unique index allows one
active row; `raced` records those that committed while a retirement of their model had
found it inactive and not written yet (`Retiring`). `Crash` loses a request and rolls its transaction back.

**`PlatformRegistry`** - `qsmlops/registry/registry.py` with
`DeploymentService.validate` and `request` and the self-healing pipeline's
`approve_and_deploy`. Every read and write is committed on its own, so `th` holds
for each thread the statement it is at and what it has read. `evidence` abstracts
what the gates look at to three verdicts; it may decay at any moment. `seen` records
for each operation under way the versions that were eligible at some moment since it
began, and a deployment row keeps in `fit` whether its own was. `overlapped` is set when two operations are under way at once, because then the unconditional
updates lose transitions (section 7); `ActiveIsExclusive` is about the others.

**`HsmBackend`** - `PKCS11Backend`: `mirror`, `public` and `private` are its memory,
`token` the objects that outlive it, `TokenFaults` the token calls that may fail.
An operation is one step, because a process has one backend.

**`KeyStore`** - extends `HsmBackend` with the files: `anchors` and `secrets` are read
whole (`Snapshot`), and written by emptying (`torn`) and filling. The plain store,
the vault (`cache`, `locked`, `staged`), mock HSM and PKCS#11 token are four initial
states of one specification. `Draw` to `FillSecrets` are `generate_keypair`, `List`
to `FillRetired` are `rotate_signer`, `Due` the sweep, `Rekey` is `change_passphrase`,
which unlocks with the old passphrase first and so leaves the vault open. Secrets are the
keys they belong to; an age is a member of `dead` or not. `lost` records the keys whose
process was lost when their record was written and their secret was not.

**`Supervision`** - `run_cycle` of the supervisor as `Observe`, `Act...`, `Verify` and
`Learn`, with operators' registry operations and restarts between them. `Policy` is
the default document in order of priority, over the facts `Collect` and `Facts`
derive from observations. An observation has what can be wrong with it: the agent
crashed, a finding is malformed (both leave a marker), the findings are not in a list,
or a critical one repeats the name and detail of a lesser one (neither leaves any). A
retraining is its registry operations one by one, `Train`, `Evaluate` (twice), `Approve`
and `Promote`, and operators act between them; `made` is the version it registered.
`streak` is the learning store's counter, which survives restarts.

**`MC...`** - each extends its module for TLC and adds the model values, the
symmetry and the small sets of the instance, nothing else.

## 4. Runs

| Run | Instance | Shows |
| --- | --- | --- |
| `execution_resume` | 1 run, 2 workers, 2 stages, 2 attempts, 2 faults | `RunJobCoherent`, `LeaseExclusive`, `EveryStageAccountedFor`, `OnlyReviewedResultsComplete`, `PausedRunIsDecidable`, `AuditTellsTruth`, `CompletedStageStable`, and that the run follows `RunLifecycle` |
| `graph` | 1 run of either mode, 2 workers, 1 stage, 2 attempts, 1 fault | `CheckpointIsBacked`, `PauseIsDecidable`; a cancel is carried out, a queued run ends or reaches a supervisor |
| `ledger` | 2 threads, 2 processes, 4 appends, 2 faults, the three deployments of `dep` | `ChainIntact`, `OnceIsOnce`, `AckedIsOnChain` |
| `trust` | 2 workers, 4 claims, 1 edit | `OnlyEditsRefuse`, `VerifiedIsComplete`, `VerifiedSignedLiveState`, `FinalizationCompletes` |
| `pg` | 2 workers, 2 supervisors, 2 requests, 2 claims, 1 attempt, from the queue on | `RunJobCoherent`, `RequestsNeverDeadlock`, `DecisionIsCurrent`, `TransactionsEnd` |
| `pg_lost_cancel` | 2 workers, 1 supervisor | violated: `CancelIsNotLost` |
| `ml_jobs` | 1 validation, 1 training, 2 workers, 2 attempts | `CompletedHasResult`, `OutcomeIsFinal`, `EveryJobEnds`, `FailureLeavesNothing` |
| `submissions` | 3 requests at a time, 2 categories, 2 keys, 2 contents | `ReportCoversAll`, `OutcomeIsFrozen` |
| `models` | 2 models, 3 requests at a time, 3 deployments, 8 operations | `HistoryIsChain`, `DeploysApprovedOnly`, `OnlyRacesRetireActive` |
| `platform` | 2 versions, 2 threads, 4 operations, 1 restart or decay | `OnlyApprovedDeployed`, `GovernedDeploymentsVetted`, `ActiveIsExclusive` |
| `keys` | 4 kinds of store, 2 processes, 3 keys, 4 operations, 1 lost process | `OneSigner`, `SignerHasSecret`, `RevokedNeverSigns` |
| `supervision` | 2 agents, 8 recommendations, 4 health checks, 2 operator actions | `FailsClosed`, `RecoveryIsReal` |

Further configurations are kept to reproduce what section 7 reports:
`AnalysisExecution_risk`, `AnalysisGraph_rewind`, `AnalysisGraph_lost_stage`,
`EvidenceLedger_fork`, `EvidenceLedger_packet_id`, `KeyStore_lost_secret`,
`KeyStore_sweep`, `MLJobs_forgotten`, `MLJobs_undecided`, `ModelRegistry_retire`,
`PlatformRegistry_vetted`, `Supervision_claims` (three claims, to be tried one at a
time) and `TrustFinalization_signing`, each of which ends in a counterexample. `AnalysisGraph_stages` checks the safety properties of
`AnalysisExecution` in both modes with two stages and two faults
(`FencedRunsAccountForStages` for `EveryStageAccountedFor`, see section 7).

Deadlock is not checked anywhere: runs end, jobs end, versions are decided, and
then nothing remains to be done; what must not get stuck is stated as liveness.

*Why the bounds are enough.* Every protocol here is between an owner and the one
that overtakes it, so two workers show each interleaving of an old and a new
owner; a third claim (attempts and faults of 2 or more, four claims in `trust`)
lets the first owner return after its successor has been replaced as well. Two
stages are the fewest that can be partly done; one run suffices because no
transaction but the sweep of `claim` touches two, and the theorems
`RunsAndJobsAgree` and `ImplementsLifecycle` cover any number of runs. In
`ledger`, two appends in flight, one that failed before them and one after are
what a fork, a duplicate or a lost line needs. In `submissions` three requests are
an uploader, one that completes and one that validates; the upload requests
include a key used twice with different bytes, a category used twice with
different keys and a key used for two categories. In `graph` one fault is enough
for each hazard of a node (a crash, an exception or an overrun lease before, in or
after it); stages that end differently are the business of `execution_resume`,
and `AnalysisGraph_stages` repeats the safety properties with two of both. A stage is
lost to a late checkpoint only with three attempts, the code's default: the owner that
writes it, the successor it overtakes and the one that reports the run; those are the
bounds of `AnalysisGraph_lost_stage`, whose action constraint keeps to that scenario.
`ml_jobs` checks liveness with two attempts; what a third adds to its safety properties
is proved for any number (section 6) or shown by `MLJobs_undecided` (section 7). In
`models` three requests are two that swap the active row and one that
retires; in `platform` four operations are verify, approve and deploy of one version
and one more that meets them; three keys in `keys` are a signer, its successor
and one more after a revocation; `supervision` needs `MaxFailures` + 1 health
checks, 3, for an escalation and one more for what follows it. `MaxFaults`, `MaxClaims`,
`MaxCalls`, `MaxLines`, `MaxChanges`, `MaxRows`, `MaxDeploys`, `MaxKeys`, `MaxCrashes`,
`MaxVersions`, `MaxCycles` and `MaxOps` exist only to make the state space
finite; `MaxAttempts` is the code's `max_attempts`, `MaxFailures` the supervisor's
`max_consecutive_failures`; `MaxObjects` of `HsmBackend` bounds the objects a token
collects under one id.

## 5. Fairness

* `AnalysisGraph` (both modes), `MLJobs`: weak fairness of some worker taking work
  (`worker_main` gives both queues a turn in every iteration and never stops),
  of each worker's next step (a live process executes) and of leases running
  out (time passes). Requests, crashes, transient errors and slow workers are
  under no obligation. A crashed worker is idle again, as its process is
  restarted; faults are bounded in `AnalysisGraph`, attempts in `MLJobs`.
* `TrustFinalization`: the same, and `FinalizationCompletes` assumes that
  nobody edits the reviewed state.
* `PgRunTransitions`: strong fairness of the statements of an open transaction,
  because PostgreSQL queues the waiters of a row lock: a statement that is able
  to proceed again and again does. Begin actions have no fairness.
* `EvidenceLedger`, `SubmissionVersions`, `ModelRegistry`, `PlatformRegistry`,
  `KeyStore`, `Supervision`: safety only. Their operations are requests, which a
  caller may give up, or a health check somebody has to start.

## 6. Proofs

All theorems are about `Spec` (`JobSpec` for `MLJobs`, `StoreSpec` for `KeyStore`, and
in the second part of `AnalysisExecutionProofs` the `GraphSpec` of both modes), for any
sets of workers, threads, requests, runs, models or versions and any value of the
bounds, from the named assumptions of the modules: null values are not members of the
sets, bounds are natural numbers, and where the code says so an attempt is allowed at
least once. `EvidenceLedger` adds that no ledger gets packets and events recorded once:
`record_once` is called by the hosted application on its ledger, `append_packet` by the
platform on its own. Each module proves one inductive
invariant (`Inv`; in `AnalysisExecutionProofs` several that build on each other), which
TLC checked on the runs' instances first, and takes the theorems from it. Most have the
same form: one conjunct per process saying what it may rely on at each of its statements
(`Fits`), a lemma that this survives the steps of the others, and one lemma per action.

**`AnalysisExecutionProofs`**

| Theorem | Argument |
| --- | --- |
| `TypeCorrect` | `TypeOK` restricts the local states of workers (`WorkerState`: a worker that has claimed names its run) and is inductive with `Heading`: one on the way to completion carries the verdict it will write |
| `RunsAndJobsAgree` | `RunJobCoherent` is inductive relative to `TypeOK`: a worker's transaction re-reads its lease, and a live lease excludes the statuses in which the run is somebody else's |
| `LeasesFence` | strengthened by `Fenced`: every worker's generation is at most the run's, and equals it for one worker only; a claim hands out a larger one |
| `ResultsAreStable` | strengthened by `NothingDoneAgain`: the stages a lease holder still has to do are not completed, so it never stores over a result, and one without the lease stores nothing |
| `ImplementsLifecycle` | strengthened by `ReviewOrder`: where a worker stands in `run_once` tells what has been decided and verified before; with the previous invariants each action is one transition of `RunLifecycle` or a stutter |

`LeaseExclusive` alone is not inductive: it says nothing of a future claim, for
which the upper bound by the run's generation is needed. `CompletedStageStable` is
an action property, which needs to know what a worker remembers of stages it
read long ago: nothing can have completed them since, or its lease is gone.

`StagesAccountedFor` (`EveryStageAccountedFor`), `ReviewBinds`
(`OnlyReviewedResultsComplete`), `PausesAreDecidable` (`PausedRunIsDecidable`) and
`TrailIsTrue` (`AuditTellsTruth`) come from one more invariant, `Attempts`, on top
of these. It says of each point of `run_once` what a worker knows for good
(`Knows`: the outcome it is about to report is the run's, the risk row exists) and
what only the worker under the current generation may rely on (`Owns`: a stage is
still to do or has ended, the recommendations are those of the findings, the
verdict is that of the stage rows, the decision is about these results). A worker
whose lease was taken over is wrong about the second, which is harmless because
`Holds` fails in every transaction it would use it in. The step of another worker
leaves the run of a lease holder `Quiet`: `_mark_pending_cancelled`, which checks no
lease, turns only pending stages into cancelled ones.

The second part of the module proves the same of `AnalysisGraph`, where a run may also
be driven by its graph:

| Theorem | Property | Argument |
| --- | --- | --- |
| `CheckpointsAreBacked` | `CheckpointIsBacked` | `Covered` for each run; a node about to be checkpointed under a lease has stored its results (`Steers`), and nobody executes stages behind a checkpoint past the analysis (`PastQuiet`) |
| `GraphPausesAreDecidable` | `PauseIsDecidable` | `Stationed`: a decision finds and keeps the graph at its interrupt or behind it, so whoever pauses a run under its lease has found it undecided |
| `GraphStagesAccountedFor` | `FencedRunsAccountForStages` | `Informed`: a worker takes from the checkpoint what `Attempts` would have had it see itself |
| `GraphReviewBinds`, `GraphTrailIsTrue`, `GraphRunsAndJobsAgree`, `GraphLeasesFence`, `GraphResultsAreStable` | those of the standard runs | the same arguments; the graph's own steps change one worker and, in a pause, one run |
| `GraphRunsFollowLifecycle` | | each step is a transition of `RunLifecycle` for each run, or pauses a run once more whose checkpoint was written without the lease (`ReviewedAgain`): that one disagreement is `DecidedRunLeavesReview` of section 7 |

The invariant is `GraphInv`. `CheckpointIsBacked` alone is not inductive: the checkpoint
is written a step after the tables, by a worker that may have lost its lease in
between. So `Position` says in which node a worker can be at each point of `run_once`,
and `Steering` that a worker which still holds the lease of a run is in the node its
checkpoint names. Once a worker without the lease has written the checkpoint
(`unfenced`), both are void for that run; `Knows`, `Owns` and `Rightful` therefore carry
a flag `backed`, and only what does not depend on the checkpoint survives without it:
the reviewed results and the audit trail, but not the count of stages. A step is either
common to both modes (`Common`), for which the lemmas of the first part are cited, or
the graph's own (`Own`).

**`PgRunTransitionsProofs`**

| Theorem | Property | Argument |
| --- | --- | --- |
| `RowsAgree` | `RunJobCoherent` | the committed rows say nothing of what a transaction is about to commit; `Fits` says for each operation and statement which rows it holds and what it has written to them. Then a commit writes two rows that agree, or the run alone and no more than a failure of a running one, or a queue row whose status stays (`CommitsCoherently`) |
| `RequestsAreOrdered` | `RequestsNeverDeadlock` | from the same: a request that waits for the run row holds nothing |
| `DecisionsAreCurrent` | `DecisionIsCurrent` | from the same: `decide` holds the run row since it looked, and the row of a holder changes under no other commit |

The proof is also where `RunJobCoherent` got its exception for the stale sweep (section
7): without it the commit of a claim that only swept could not be proved.

**`TrustFinalizationProofs`**

| Theorem | Property | Argument |
| --- | --- | --- |
| `VerifiedIsWhole` | `VerifiedIsComplete` | the ledger is a prefix of the three events that the row tells (`Chain`), the receipts are the one the row names (`RowIsBacked`); each worker knows how far both were when it passed (`Fits`), and neither is ever taken back (`Grows`) |
| `OnlyEditsFailTheRun` | `OnlyEditsRefuse` | with `Chain` an event that is recorded again has the body it had (`NothingConflicts`), so what a worker compares differs only after an edit |
| `NothingEditedIsVerified` | `VerifiedSignedLiveState` | one worker at a time is between the look and the INSERT, and the row has no receipt until then (`OneSigns`), so a receipt is never replaced; a worker at `stamp` knows that the receipt it verified was inserted over its digest, because versions of the live state do not come back |

**`EvidenceLedgerProofs`**

| Theorem | Property | Argument |
| --- | --- | --- |
| `ChainHolds` | `ChainIntact` | whoever reads the head does so while nobody is about to write (`ReadsAlone`): a thread of its process is kept out by the ledger's lock, another process by the transaction (`Locked`), and where neither does a packet races. So one writer at a time is between its read and its write (`OneWrites`), and what it computed its entry from is still the head (`HeadIsCurrent`) |
| `EventsAreRecordedOnce` | `OnceIsOnce` | from its check to its write a call of `record_once` finds the chain verified and without its event (`OnceIsFresh`), because the database transaction keeps other appends out; the model has the ids of events and packets apart |
| `AcknowledgedIsKept` | `AckedIsOnChain` | what a call is about to return is on the chain (`ReturnsOnChain`), and the chain is only appended to |

A torn line breaks the chain for those behind it: `Whole` says where no line was torn,
and `TornIsLast` that the writer of a torn line is the last to have written without a
newline.

**`SubmissionVersionsProofs`**

| Theorem | Property | Argument |
| --- | --- | --- |
| `ReportIsComplete` | `ReportCoversAll` | a validation's read of the rows is still what is there (`ReadIsCurrent`), because stored rows do not change (`WorksOnItsRow`: who stores bytes works on a row made for them) and nothing is inserted into a closed version that is complete |
| `OutcomeStays` | `OutcomeIsFrozen` | the same, and `OneValidator`: whoever is behind a claim that another won writes nothing |

**`ModelRegistryProofs`**

| Theorem | Property | Argument |
| --- | --- | --- |
| `OneHistory` | `HistoryIsChain` | strengthened by `LastIsActive`: the active row is the last one, so a swap that still finds its row active appends behind it, and the unique index refuses any other |
| `DeploysTheApproved` | `DeploysApprovedOnly` | `HoldsApproved`: from the second look at the state to the commit the deployment holds the model's row |
| `OnlyRacesRetire` | `OnlyRacesRetireActive` | a retirement past its look knows that every active deployment of its model has committed since (`Knows`), and those are `raced`; a deployment commits on an approved model (`HoldsApproved`), and only a retirement takes approval away |
| `JobsCompleteWithResults` | `CompletedHasResult` of `MLJobs` | a completed run and a model are never taken back, so `Trained` survives every cleanup beside it; a dataset may be reset, but not while its job is in the hands of an attempt that has something to lose: up to the second attempt whoever saw a cancellation leaves the newest attempt none but the same way out (`Harmless`, `Validated`) |
| `JobOutcomesAreFinal` | `OutcomeIsFinal` of `MLJobs` | the retry compares the generation alone; but while the newest attempt is under way a job ends by the sweep only, at its last attempt, and then with the outcome that the retry would write (`Pending`) |

The second half of the module is about the queue, `JobSpec`. A generation is claimed once
(`Apart`) and counts the attempts (`Counted`). The proof of `Validated` is where the
third attempt of section 7 was found: with it `Harmless` is not inductive.

**`PlatformRegistryProofs`**

| Theorem | Property | Argument |
| --- | --- | --- |
| `ProductionIsApproved` | `OnlyApprovedDeployed` | statements interleave freely here, and a state read may be stale when it is used; but what a thread writes was earned by the version at some time (`WriteIsEarned`, `DeployIsEarned`), and having been verified or approved is not taken back |
| `ProductionIsVetted` | `GovernedDeploymentsVetted` | a `request` past its validation and a `rollback` past its own have seen their version eligible since they began (`GatesPassed`), and what an operation has seen is not taken from it (`SeenGrows`) |
| `OneIsActive` | `ActiveIsExclusive` | `OneAtATime`: while no two operations have overlapped, the one under way knows what it has made of the active flag |

**`SupervisionKeysProofs`**

| Theorem | Property | Argument |
| --- | --- | --- |
| `SupervisorFailsClosed` | `FailsClosed` | the streak is what the recorded outcomes say (`StreakCounts`); a loss that is noticed hands on an escalation, which every rule that could promote or rotate ranks below |
| `RecordedRecoveryIsReal` | `RecoveryIsReal` | versions are numbered in the order of their registration (`Numbered`) and stay registered, so what `_verify_outcome` finds promoted above the version it judged is the retraining's own or a later one (`Known`, `RetrainVerified`) |
| `RevokedKeysStaySilent` | `RevokedNeverSigns` of `KeyStore` | `Disarmed`: a key id that was revoked has no private key, neither in the mock's memory nor on the token, until a new one is made under it. Assumes that a token destroys what it is told to (`Destroys`); section 7 has what happens otherwise |
| `OneSignerOnly` | `OneSigner` of `KeyStore` | `SignerInv`: while calls do not overlap, one process at most is inside a call (`Alone`), and what it read still describes the files as far as its own writes go (`Trust`, `Stage`) |
| `SignersKeepSecrets` | `SignerHasSecret` of `KeyStore` | `CustodyInv`: unless its process was lost the secrets hold the signer's, an open vault's cache equals them, and inside a call that makes a signer the secret is on its way (`Kept`); a file that a lost process emptied stays empty, and no call gets past reading it (`NoAnchors`, `NoSecrets`) |

`OneSigner` says nothing of a call in progress, so it is not inductive: a rotation
writes the list it read several statements ago, and only `Trust` tells that the list
with its first entry retired is still what the file holds. `CustodyInv` is inductive
relative to `SignerInv`.

What is not proved: liveness under fairness (`TransactionsEnd`,
`FinalizationCompletes`, `EveryJobEnds`, `FailureLeavesNothing`, and
`CancelIsCarriedOut` and `QueuedRunEnds` of `AnalysisGraph`), ENABLED and induction over
data are beyond the installed provers and stay with TLC.

## 7. Where code and documentation disagree

Checked by the run `pg_lost_cancel`, which TLC ends with a counterexample:

* `CancelIsNotLost` (PostgreSQL): `complete`, `pause_for_review` and `fail` read
  without locks and update without conditions; a cancel that was answered with
  success in between is overwritten.

Reproducible with a configuration of their own, which TLC ends with a
counterexample too:

* `DecidedRunLeavesReview` (`AnalysisGraph_rewind`): a worker that lost its lease
  in a node writes its checkpoint after its successor's interrupt. The supervisor
  decides, the next attempt finds no interrupt to resume, runs `human_review` again
  without the decision and pauses; `decide` answers the repeated decision without
  requeueing, so the run waits in review for ever. `docs/LANGGRAPH_ORCHESTRATION.md`
  says that lease generations fence a stale worker's output and that a decided run
  resumes from its interrupt; what is fenced are the tables. The same step takes the
  run back to `awaiting_review`, which `RunLifecycle` forbids after a decision.
* `EveryStageAccountedFor` in graph mode (`AnalysisGraph_lost_stage`): the late
  checkpoint may also take the graph forward. A worker ends the analysis with a failed
  stage and overruns its lease; its successor sets that stage running again; the late
  checkpoint moves the graph past the analysis and the successor dies. The third attempt
  resumes behind the analysis and reports the run `completed`, because `_finish` counts
  completed and failed rows only (`execution.py:1688`) and does not see the one left
  running. `FencedRunsAccountForStages` holds of the runs without such a write.
* `RiskCoversFindings` (`AnalysisExecution_risk`): `_persist_risk` inserts with
  `ON CONFLICT DO NOTHING`; an attempt that persisted the profile with a failed
  stage and lost its lease leaves a profile that the next attempt, which succeeds,
  does not replace.
* `SignsOnlyLiveState` (`TrustFinalization_signing`): on PostgreSQL an edit may commit
  between the look after signing and the INSERT of the receipt, since `FOR UPDATE`
  locks the finalization row only; the comment at `trust.py:394` says "never silently
  bind changed data". The row is then `recorded` with a receipt of a state that was
  already edited, and is refused by `verify_finalization` for good
  (`VerifiedSignedLiveState`).
* `PacketIdsUnique` (`EvidenceLedger_packet_id`): `append_packet` looks for the
  packet id and appends in two critical sections; two concurrent calls both append.
* `LockProtects` (`EvidenceLedger_fork`): a packet appended by one platform process while
  another appends (the CLI beside the API) extends a head that is no longer the head;
  once both have written the chain never verifies. Line 111 of
  `docs/EVIDENCE_PACKET_PERSISTENCE.md` counts
  concurrent appends as handled by the ledger's lock, which is an object of one process;
  `security/audit/service.py:43` knows better and takes a database transaction.
* `CancelIsNotForgotten` (`MLJobs_forgotten`): `MLJobQueue.retry` writes
  `retry_wait` over `cancel_requested`.
* `ValidationDecides` (`MLJobs_undecided`): three attempts, which the code permits, can
  complete a validation whose dataset is `created`. The first attempt sees a
  cancellation and overruns its lease before it cleans up; the retry of the second
  forgets the cancellation; while the third validates, the first resets the dataset
  (`jobs.py:332` checks no lease), and the guarded UPDATE of `_validate`
  (`jobs.py:259`) changes nothing and is not looked at. The comment at `jobs.py:9-15`
  has workers without a lease commit no results; their cleanup is not fenced.
  `CompletedHasResult` therefore speaks of two attempts at most.
* `ActiveIsApproved` (`ModelRegistry_retire`): `retire` reads the active deployment
  before its transaction (`mlops/registry.py:297`); a deployment that commits in
  between leaves the active model retired, against the comments at lines 243 and 300.
* `EveryDeploymentVetted` (`PlatformRegistry_vetted`): `deploy` runs `validate()` and
  drops its report (`qsmlops/registry/registry.py:482`), so `approve_and_deploy`
  promotes a version the gates refuse, against the comment at lines 473-479.
* `SweepKeepsHealthy` (`KeyStore_sweep`): `rotate_due_keys` rotates an owner once per
  expired record, and each rotation retires the healthy signer the one before
  issued, against `docs/KEY_MANAGEMENT.md` line 53.
* `SignerCanSign` (`KeyStore_lost_secret`): a process lost between the record of a new
  key (`keys.py:187`) and its secret (`keys.py:193`) leaves an active signer without a
  secret, and one lost while it writes the file of secrets leaves that file empty, for
  every key, although `keys.py:225` returns "(key_id, secret_key_bytes) for the newest
  active signer".
* `LossIsNotAccepted` (`Supervision_claims`): findings that are not in a list are
  all discarded and counted nowhere (`validation.py:81`), and a failed critical finding
  that repeats the name and detail of a lesser one is taken for its duplicate
  (`validation.py:105`); the supervisor reacts to neither and may accept, against
  `validation.py:3-6`. `FailsClosed` speaks of losses that are noticed.
* `RetrainedIsPromoted` (`Supervision_claims`): `_verify_outcome` takes any
  promoted version newer than the one it judged, so an operator's deployment counts as
  the recovery of a retraining whose own version was withdrawn, against
  `supervisor.py:483-485`.
* `RetriesEnd` (`Supervision_claims`): an escalation counts as a success and resets
  the streak, so after one escalation a failing recovery is retried again, against
  the comment at `supervisor/learning.py:3-5`.

Observed while modelling, reachable in the models or plain in the code, without
a run of their own:

* A validation whose process is lost, or whose `submission.validation_started`
  audit append raises (it precedes the `try`), leaves its version in `validating`
  for ever, although `FAILURE_MODEL.md` line 21 says it returns to `uploaded`.
  `Crash` of `SubmissionVersions` after `Claim` is that state.
* `complete_uploads` reads the artifacts and then closes the version. An upload
  whose intent commits in between leaves an `uploaded` version with an
  unfinished artifact; if that upload fails, its retry is refused because the
  version is closed, and the version can never be validated.
* Two validation jobs for one dataset: the cleanup of one resets the dataset to
  `created`, the guarded result update of the other then changes nothing, and it
  completes all the same. `CompletedHasResult` is checked with one validation job
  and fails with two.
* Cancelling an ML job in `retry_wait` ends it without its handler: its training
  run stays `running`, its dataset `validating`; the sweep only repairs what failed
  jobs left.
* After the last boundary of `_train` a worker registers its model without looking
  at the job again, so a cancelled or swept job may leave a model.
* `fail()` of a run whose cancellation was requested audits `analysis.failed`
  although the run becomes cancelled; a cancel between the last fence of
  `finalize` and `complete()` leaves a cancelled run with a verified finalization.
* On PostgreSQL the lease is checked before the statements that end a run, so an
  owner that was overtaken in between still ends it. The sweep of `claim` fails the
  run by its status alone (`execution.py:718`), and may fail one that was paused,
  decided and reclaimed since its SELECT: its queue row then runs on under the new
  owner. The run `pg` reaches this; `RunJobCoherent` of `PgRunTransitions` admits it,
  and `RowsAgree` shows that it is the only disagreement.
* After a torn line an ordinary `record` joins it, and its mirror row names an entry
  the ledger cannot read; `record_once` verifies the chain first and refuses.

* Standard mode tries a failed reviewer briefing again after the decision
  (`execution.py:1053`, `:1588`). One that succeeds then changes the reviewed
  document, and the run fails for good.
* Offline, `review.record` inserts its row and then appends to the ledger; after a
  crash between the two `verify_ledger_integrity` reports the row as forged.
* Platform registry: between the validation of a version and its promotion by the same
  `request` or `rollback` nothing looks again, so evidence that decays in between is
  deployed all the same; `GovernedDeploymentsVetted` speaks of the operation, not of
  the moment of the INSERT. Two overlapping deployments leave two active rows, and a
  transition that read before a revocation committed writes over it;
  `ActiveIsExclusive` therefore speaks of operations that do not overlap.
  A restart inside `rollback` after the retirement leaves no active deployment,
  quarantine and revocation leave the row of the version active, `request()` finds a
  deployed version eligible that `deploy` then refuses, and `serving/service.py`
  keeps serving the model it loaded first.
* Keystores: two processes lose each other's updates of the anchors file and of the
  vault, so a revoked key may be active again (`OneSigner` and `SignerHasSecret` speak
  of calls one after the other). Rotation retires before it issues: a process lost
  between leaves no signer. `KeyStore.revoke` (`keys.py:262`) marks the record and leaves
  the private key in the HSM, whose own `revoke` has to be called for it. The vault stages its secrets in plaintext
  (`secret_keys.tmp.json`), which a lost process leaves behind, against
  `docs/KEY_MANAGEMENT.md` line 34. A token that fails to destroy an object keeps the
  private key of a revoked id, which signs again once somebody rotates that id:
  rotation marks it rotated, not revoked (`TokenFaults` of the run leaves that
  failure out, and so does the theorem).
* Supervisor: the rule for conflicting advice (`supervisor.py:350`) is never reached,
  and a rollback that restored nothing is recorded as a success.
* `accept_retraining` and `dismiss_retraining` of `mlops/service.py` check that a
  request is open and write it later: an accepted one may end dismissed with its
  training queued.
* `security/identity/service.py` writes identities back whole: a grant that races a
  revocation undoes it, although `docs/CRYPTOGRAPHIC_IDENTITY.md` line 42 calls
  revocation irreversible.

## 8. What is not modelled

* Cryptography (signatures verify or do not), hashes beyond the equality of what
  was hashed, field contents of findings, reports and briefings.
* Editing of committed ledger lines: the models are about what the program's own
  processes do.
* The audit service without a database, connection pool limits, and statement
  interleavings of `_persist_stage`, heartbeat, the ML queue and, but for the transaction
  after signing, finalization on PostgreSQL; these touch one row under a lock of its own or are left to later work.
* LangGraph beyond its contract (a checkpoint after every node, an interrupt kept
  until it is resumed), and what the advisory nodes write.
* Drift jobs, dataset construction, retraining requests, creation of submissions and
  version numbers, registration of platform versions and its training.
* KEM keys, several owners of one keystore, export and import of public keys,
  mechanism negotiation and health checks of the HSM.
* Identity, sessions and tenancy: access checks and edits of single rows, without a
  protocol between them except the race of section 7.
* The components of section 1 without a module. Ingestion, detectors, risk,
  correlation, drift, insights and reports are functions of stored data whose domains
  (floating point scores, texts, dates) a model checker cannot enumerate and whose
  abstraction to a few values would leave nothing of them; migrations are a list of
  schema statements; APIs, CLI and UI route, validate and present; the offline path,
  agents, LLM briefing, monitoring, passports and supply chain run in one process
  without shared state. `src/evaluation`, benchmarks, demo and deployment scripts are
  not part of the running system, although they are a large share of its lines.
