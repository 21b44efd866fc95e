----------------------- MODULE PgRunTransitionsProofs -----------------------
(***************************************************************************)
(* Theorems about PgRunTransitions for any sessions, any subset of the     *)
(* operations and any number of attempts, claims and requests.             *)
(***************************************************************************)
EXTENDS PgRunTransitions, TLAPS

USE SessionsAssumption, OpsAssumption, BoundsAssumption

(***************************************************************************)
(* The inductive invariant: for each operation, what its transaction holds *)
(* at each of its statements and what it is going to commit.               *)
(***************************************************************************)
Row == [status : JobStatus, owner : Workers \union {None}, gen : Nat, attempts : Nat,
        live : BOOLEAN]
Tx  == [op : EndOps \union {"none", "claim", "cancel", "decide"}, at : Statements,
        to : RunStatus \union {"none"}, retry : BOOLEAN]

Types ==
    /\ run \in RunStatus /\ newRun \in RunStatus
    /\ job \in Row /\ newJob \in Row
    /\ decided \in BOOLEAN
    /\ runLock \in Sessions \union {None} /\ jobLock \in Sessions \union {None}
    /\ tx \in [Sessions -> Tx]

HoldsNone(s) == runLock # s /\ jobLock # s
HoldsBoth(s) == runLock = s /\ jobLock = s

\* A claim rewrites the run as it is, or fails it where it runs.
RunKept(s) == runLock = s => newRun = run \/ (run = "running" /\ newRun = "failed")

\* The queue row as SweepJob wrote it.
Swept == newJob.status = "failed" /\ job.status = "running"

NoneFits(s) == tx[s].op = "none" => tx[s].at = "none" /\ HoldsNone(s)

CancelFits(s) == tx[s].op = "cancel" =>
    \/ tx[s].at = "run" /\ HoldsNone(s)
    \/ /\ tx[s].at = "job" /\ runLock = s /\ jobLock # s
       /\ newRun = "cancel_requested" /\ run \in {"queued", "running", "awaiting_review"}
    \/ /\ tx[s].at = "commit" /\ HoldsBoth(s)
       /\ newRun = "cancel_requested" /\ newJob.status = "cancel_requested"

DecideFits(s) == tx[s].op = "decide" =>
    \/ tx[s].at = "run" /\ HoldsNone(s)
    \/ /\ tx[s].at = "job" /\ runLock = s /\ jobLock # s
       /\ newRun = "queued" /\ run = "awaiting_review" /\ ~decided
    \/ /\ tx[s].at = "commit" /\ HoldsBoth(s)
       /\ newRun = "queued" /\ newJob.status = "queued"
       /\ run = "awaiting_review" /\ ~decided

\* A claim that found nothing, or only swept: the swept run and row go together.
SweepFits(s) ==
    /\ RunKept(s)
    /\ jobLock = s => Swept /\ runLock = s /\ newRun = "failed"

\* A claim that took the row.
PickFits(s) ==
    /\ RunKept(s) /\ jobLock = s
    /\ \/ newJob.status = "running" /\ job.status \in {"queued", "retry_wait", "running"}
       \/ newJob.status = "cancel_requested" /\ job.status = "cancel_requested"

ClaimFits(s) == tx[s].op = "claim" =>
    \/ tx[s].at \in {"sweep", "sweepJob"} /\ HoldsNone(s)
    \/ tx[s].at = "sweepRun" /\ runLock # s /\ (jobLock = s => Swept)
    \/ /\ tx[s].at = "sweepDigest" /\ (jobLock = s => Swept)
       /\ runLock = s => run = "running" /\ newRun = "failed"
       /\ jobLock = s /\ runLock # s => run = "failed"
    \/ tx[s].at = "pick" /\ SweepFits(s)
    \/ tx[s].at = "run" /\ PickFits(s)
    \/ /\ tx[s].at = "commit"
       /\ \/ SweepFits(s)
          \/ HoldsBoth(s) /\ newJob.status = "running" /\ newRun = "running"
          \/ /\ jobLock = s /\ newJob.status = "cancel_requested" /\ run = "cancel_requested"
             /\ job.status = "cancel_requested" /\ (runLock = s => newRun = run)

\* What complete and fail write to the two rows.
EndRunStatus(s) == IF tx[s].retry THEN "queued" ELSE tx[s].to
EndJobStatus(s) == IF tx[s].retry THEN "retry_wait" ELSE tx[s].to

FinishFits(s) == tx[s].op \in {"complete", "fail"} =>
    /\ tx[s].to \in Terminal
    /\ \/ tx[s].at \in {"lease", "status", "job"} /\ HoldsNone(s)
       \/ tx[s].at = "run" /\ runLock # s /\ jobLock = s /\ newJob.status = EndJobStatus(s)
       \/ /\ tx[s].at = "commit" /\ HoldsBoth(s)
          /\ newJob.status = EndJobStatus(s) /\ newRun = EndRunStatus(s)

PauseFits(s) == tx[s].op = "pause" =>
    /\ tx[s].to = "awaiting_review" /\ ~tx[s].retry
    /\ \/ tx[s].at \in {"lease", "status", "run"} /\ HoldsNone(s)
       \/ tx[s].at = "job" /\ runLock = s /\ jobLock # s /\ newRun = "awaiting_review"
       \/ /\ tx[s].at = "commit" /\ HoldsBoth(s)
          /\ newRun = "awaiting_review" /\ newJob.status = "completed"

Fits(s) ==
    /\ s \in Supervisors => tx[s].op \in {"none", "cancel", "decide"}
    /\ NoneFits(s) /\ CancelFits(s) /\ DecideFits(s) /\ ClaimFits(s)
    /\ FinishFits(s) /\ PauseFits(s)

Inv == Types /\ RunJobCoherent /\ \A s \in Sessions : Fits(s)

(***************************************************************************)
(* What a step does to the transactions and the rows.                      *)
(***************************************************************************)
OthersStay(s) == \A u \in Sessions : u # s => tx'[u] = tx[u]

Went(s, at) ==
    /\ tx' \in [Sessions -> Tx] /\ OthersStay(s)
    /\ tx'[s].op = tx[s].op /\ tx'[s].at = at /\ tx'[s].to = tx[s].to
    /\ tx'[s].retry = tx[s].retry

Ended(s) == tx' \in [Sessions -> Tx] /\ OthersStay(s) /\ tx'[s] = NoTx

\* Session s may take or give back a row that no other session holds.
Takes(s) ==
    /\ \/ runLock' = runLock /\ newRun' = newRun
       \/ runLock \in {None, s} /\ runLock' \in {None, s}
    /\ \/ jobLock' = jobLock /\ newJob' = newJob
       \/ jobLock \in {None, s} /\ jobLock' \in {None, s}

\* What session u relies on when another session moves.
Steady(u) ==
    /\ tx'[u] = tx[u]
    /\ (runLock' = u) = (runLock = u) /\ (jobLock' = u) = (jobLock = u)
    /\ runLock = u => newRun' = newRun /\ run' = run /\ decided' = decided
    /\ jobLock = u => /\ newJob'.status = newJob.status /\ job'.status = job.status
                      /\ run' = run \/ (run = "running" /\ run' = "failed")

LEMMA NoTxIs ==
  NoTx \in Tx /\ NoTx.op = "none" /\ NoTx.at = "none"
  BY DEF NoTx, Tx, Statements

LEMMA TxMoves ==
  ASSUME Types, NEW s \in Sessions, NEW y \in Tx, tx' = [tx EXCEPT ![s] = y]
  PROVE  tx' \in [Sessions -> Tx] /\ tx'[s] = y /\ OthersStay(s)
  BY DEF Types, OthersStay

LEMMA GotoMoves ==
  ASSUME Types, NEW s \in Sessions, NEW at \in Statements, Goto(s, at)
  PROVE  Went(s, at)
<1> DEFINE y == [tx[s] EXCEPT !.at = at]
<1>1. tx' = [tx EXCEPT ![s] = y]
  BY DEF Goto
<1>2. y \in Tx /\ y.op = tx[s].op /\ y.at = at /\ y.to = tx[s].to /\ y.retry = tx[s].retry
  BY DEF Types, Tx
<1> HIDE DEF y
<1> QED BY <1>1, <1>2, TxMoves DEF Went

LEMMA SessionIsNotNone ==
  ASSUME NEW s \in Sessions PROVE s # None
  BY DEF Sessions

LEMMA SeenIs ==
  ASSUME Types, NEW s \in Sessions
  PROVE  SeenRun(s) \in RunStatus /\ SeenJob(s) \in Row
  BY DEF Types, SeenRun, SeenJob

LEMMA ReleaseMoves ==
  ASSUME Types, NEW s \in Sessions, Release(s)
  PROVE  /\ Ended(s) /\ Takes(s) /\ runLock' # s /\ jobLock' # s
         /\ runLock' \in Sessions \union {None} /\ jobLock' \in Sessions \union {None}
         /\ newRun' = IF runLock = s THEN run' ELSE newRun
         /\ newJob' = IF jobLock = s THEN job' ELSE newJob
<1>1. Ended(s)
  BY NoTxIs, TxMoves DEF Release, Ended
<1> QED BY <1>1, SessionIsNotNone DEF Release, Takes, Types

(***************************************************************************)
(* What a session relies on survives the steps of the others.              *)
(***************************************************************************)
LEMMA OthersFit ==
  ASSUME NEW u \in Sessions, Fits(u), Steady(u)
  PROVE  Fits(u)'
<1>1. NoneFits(u)' /\ CancelFits(u)' /\ DecideFits(u)'
  BY DEF Fits, Steady, NoneFits, CancelFits, DecideFits, HoldsNone, HoldsBoth
<1>2. ClaimFits(u)'
  BY DEF Fits, Steady, ClaimFits, SweepFits, PickFits, RunKept, Swept, HoldsNone, HoldsBoth
<1>3. FinishFits(u)' /\ PauseFits(u)'
  BY DEF Fits, Steady, FinishFits, PauseFits, EndRunStatus, EndJobStatus, HoldsNone, HoldsBoth
<1> QED BY <1>1, <1>2, <1>3 DEF Fits, Steady

LEMMA EndedFits ==
  ASSUME NEW s \in Sessions, tx'[s] = NoTx, runLock' # s, jobLock' # s
  PROVE  Fits(s)'
  BY NoTxIs DEF Fits, NoneFits, CancelFits, DecideFits, ClaimFits, FinishFits, PauseFits,
                HoldsNone, EndOps

LEMMA StatementKeeps ==
  ASSUME Inv, NEW s \in Sessions, UNCHANGED rows, Types', OthersStay(s), Takes(s), Fits(s)'
  PROVE  Inv'
<1>1. ASSUME NEW u \in Sessions, u # s PROVE Fits(u)'
  <2>1. Steady(u)
    BY <1>1, SessionIsNotNone DEF OthersStay, Takes, Steady, rows
  <2> QED BY <2>1, OthersFit DEF Inv
<1>2. RunJobCoherent'
  BY DEF Inv, RunJobCoherent, rows
<1> QED BY <1>1, <1>2 DEF Inv

LEMMA RollbackKeeps ==
  ASSUME Inv, NEW s \in Sessions, Rollback(s)
  PROVE  Inv'
<1>1. UNCHANGED rows /\ Release(s)
  BY DEF Rollback
<1>2. Types'
  BY <1>1, ReleaseMoves DEF Inv, Types, Ended, rows
<1> QED BY <1>1, <1>2, ReleaseMoves, EndedFits, StatementKeeps DEF Inv, Ended

\* The statements that change the run's version, the queue row's, or neither.
LEMMA RunStatementKeeps ==
  ASSUME Inv, NEW s \in Sessions, NEW at, NEW new \in RunStatus, UpdateRun(s, new),
         UNCHANGED <<rows, jobLock, newJob>>, Went(s, at), Fits(s)'
  PROVE  Inv'
<1>1. Types' /\ Takes(s)
  BY DEF Inv, Types, UpdateRun, Went, Takes, rows
<1> QED BY <1>1, StatementKeeps DEF Went

LEMMA JobStatementKeeps ==
  ASSUME Inv, NEW s \in Sessions, NEW at, NEW new \in Row, UpdateJob(s, new),
         UNCHANGED <<rows, runLock, newRun>>, Went(s, at), Fits(s)'
  PROVE  Inv'
<1>1. Types' /\ Takes(s)
  BY DEF Inv, Types, UpdateJob, Went, Takes, rows
<1> QED BY <1>1, StatementKeeps DEF Went

LEMMA ReadKeeps ==
  ASSUME Inv, NEW s \in Sessions, UNCHANGED <<rows, runLock, jobLock, newRun, newJob>>,
         tx' \in [Sessions -> Tx], OthersStay(s), Fits(s)'
  PROVE  Inv'
<1>1. Types' /\ Takes(s)
  BY DEF Inv, Types, Takes, rows
<1> QED BY <1>1, StatementKeeps

LEMMA BeginKeeps ==
  ASSUME Inv, NEW s \in Sessions, NEW op, NEW at \in Statements,
         NEW to \in RunStatus \union {"none"}, NEW retry \in BOOLEAN,
         Begin(s, op, at, to, retry), s \in Supervisors => op \in {"cancel", "decide"},
         \/ op \in {"cancel", "decide"} /\ at = "run"
         \/ op = "claim" /\ at = "sweep"
         \/ op \in {"complete", "fail"} /\ at = "lease" /\ to \in Terminal
         \/ op = "pause" /\ at = "lease" /\ to = "awaiting_review" /\ ~retry
  PROVE  Inv'
<1> DEFINE y == [op |-> op, at |-> at, to |-> to, retry |-> retry]
<1>1. tx' = [tx EXCEPT ![s] = y] /\ tx[s] = NoTx
  BY DEF Begin
<1>2. y \in Tx /\ y.op = op /\ y.at = at /\ y.to = to /\ y.retry = retry
  BY DEF Tx, EndOps
<1> HIDE DEF y
<1>3. tx' \in [Sessions -> Tx] /\ tx'[s] = y /\ OthersStay(s)
  BY <1>1, <1>2, TxMoves DEF Inv
<1>4. HoldsNone(s)
  BY <1>1, NoTxIs DEF Inv, Fits, NoneFits
<1>5. UNCHANGED <<rows, runLock, jobLock, newRun, newJob>>
  BY DEF Begin
<1>6. Fits(s)'
  BY <1>2, <1>3, <1>4, <1>5 DEF Fits, NoneFits, CancelFits, DecideFits, ClaimFits, FinishFits,
                               PauseFits, HoldsNone
<1> QED BY <1>3, <1>5, <1>6, ReadKeeps

(***************************************************************************)
(* cancel() and decide()                                                   *)
(***************************************************************************)
LEMMA CancelRunKeeps ==
  ASSUME Inv, NEW s \in Sessions, CancelRun(s)
  PROVE  Inv'
<1>1. CASE run \in Terminal \union {"cancel_requested"}
  BY <1>1, RollbackKeeps DEF CancelRun
<1>2. CASE run \notin Terminal \union {"cancel_requested"}
  <2>1. UpdateRun(s, "cancel_requested") /\ UNCHANGED <<rows, jobLock, newJob>>
    BY <1>2 DEF CancelRun
  <2>2. Went(s, "job") /\ tx[s].op = "cancel" /\ tx[s].at = "run"
    BY <1>2, GotoMoves DEF CancelRun, Inv, At, Statements
  <2>3. HoldsNone(s) /\ run' \in {"queued", "running", "awaiting_review"}
    BY <1>2, <2>1, <2>2 DEF Inv, Fits, CancelFits, Types, RunStatus, rows
  <2>4. Fits(s)'
    BY <2>1, <2>2, <2>3 DEF Inv, Fits, Went, UpdateRun, HoldsNone, NoneFits, CancelFits,
                            DecideFits, ClaimFits, FinishFits, PauseFits
  <2> QED BY <2>1, <2>2, <2>4, RunStatementKeeps DEF RunStatus
<1> QED BY <1>1, <1>2

LEMMA CancelJobKeeps ==
  ASSUME Inv, NEW s \in Sessions, CancelJob(s)
  PROVE  Inv'
<1> DEFINE new == [SeenJob(s) EXCEPT !.status = "cancel_requested"]
<1>1. /\ tx[s].op = "cancel" /\ tx[s].at = "job" /\ runLock = s /\ jobLock # s
      /\ newRun = "cancel_requested" /\ run \in {"queued", "running", "awaiting_review"}
  BY DEF CancelJob, At, Inv, Fits, CancelFits
<1>2. SeenJob(s) = job /\ job.status \in {"queued", "running", "retry_wait", "completed"}
  BY <1>1 DEF SeenJob, Inv, RunJobCoherent, Types, Row, JobStatus
<1>3. UpdateJob(s, new) /\ UNCHANGED <<rows, runLock, newRun>>
  BY <1>2 DEF CancelJob, UpdateJobWhere
<1>4. new \in Row /\ new.status = "cancel_requested"
  BY <1>2 DEF Inv, Types, Row, JobStatus
<1> HIDE DEF new
<1>5. Went(s, "commit")
  BY GotoMoves DEF CancelJob, Inv, Statements
<1>6. Fits(s)'
  BY <1>1, <1>3, <1>4, <1>5 DEF Inv, Fits, Went, UpdateJob, HoldsBoth, NoneFits, CancelFits,
                                DecideFits, ClaimFits, FinishFits, PauseFits
<1> QED BY <1>3, <1>4, <1>5, <1>6, JobStatementKeeps

LEMMA DecideRunKeeps ==
  ASSUME Inv, NEW s \in Sessions, DecideRun(s)
  PROVE  Inv'
<1>1. CASE decided \/ run # "awaiting_review"
  BY <1>1, RollbackKeeps DEF DecideRun
<1>2. CASE ~(decided \/ run # "awaiting_review")
  <2>1. UpdateRun(s, "queued") /\ UNCHANGED <<rows, jobLock, newJob>>
    BY <1>2 DEF DecideRun
  <2>2. Went(s, "job") /\ tx[s].op = "decide" /\ tx[s].at = "run"
    BY <1>2, GotoMoves DEF DecideRun, Inv, At, Statements
  <2>3. HoldsNone(s) /\ run' = "awaiting_review" /\ ~decided'
    BY <1>2, <2>1, <2>2 DEF Inv, Fits, DecideFits, rows
  <2>4. Fits(s)'
    BY <2>1, <2>2, <2>3 DEF Inv, Fits, Went, UpdateRun, HoldsNone, NoneFits, CancelFits,
                            DecideFits, ClaimFits, FinishFits, PauseFits
  <2> QED BY <2>1, <2>2, <2>4, RunStatementKeeps DEF RunStatus
<1> QED BY <1>1, <1>2

LEMMA DecideJobKeeps ==
  ASSUME Inv, NEW s \in Sessions, DecideJob(s)
  PROVE  Inv'
<1> DEFINE new == [SeenJob(s) EXCEPT !.status = "queued", !.attempts = 0]
<1>1. /\ tx[s].op = "decide" /\ tx[s].at = "job" /\ runLock = s /\ jobLock # s
      /\ newRun = "queued" /\ run = "awaiting_review" /\ ~decided
  BY DEF DecideJob, At, Inv, Fits, DecideFits
<1>2. SeenJob(s) = job /\ job.status = "completed"
  BY <1>1 DEF SeenJob, Inv, RunJobCoherent, Types, Row, JobStatus
<1>3. UpdateJob(s, new) /\ UNCHANGED <<rows, runLock, newRun>>
  BY <1>2 DEF DecideJob, UpdateJobWhere
<1>4. new \in Row /\ new.status = "queued"
  BY <1>2 DEF Inv, Types, Row, JobStatus
<1> HIDE DEF new
<1>5. Went(s, "commit")
  BY GotoMoves DEF DecideJob, Inv, Statements
<1>6. Fits(s)'
  BY <1>1, <1>3, <1>4, <1>5 DEF Inv, Fits, Went, UpdateJob, HoldsBoth, NoneFits, CancelFits,
                                DecideFits, ClaimFits, FinishFits, PauseFits, rows
<1> QED BY <1>3, <1>4, <1>5, <1>6, JobStatementKeeps

(***************************************************************************)
(* claim()                                                                 *)
(***************************************************************************)
LEMMA SweepKeeps ==
  ASSUME Inv, NEW w \in Workers, Sweep(w)
  PROVE  Inv'
<1> DEFINE at == IF Exhausted(job) THEN "sweepJob" ELSE "pick"
<1>1. at \in {"sweepJob", "pick"} /\ Goto(w, at)
  BY DEF Sweep
<1> HIDE DEF at
<1>2. w \in Sessions /\ UNCHANGED <<rows, runLock, jobLock, newRun, newJob>>
  BY DEF Sweep, Sessions
<1>3. Went(w, at)
  BY <1>1, <1>2, GotoMoves DEF Inv, Statements
<1>4. tx[w].op = "claim" /\ HoldsNone(w)
  BY <1>2 DEF Sweep, At, Inv, Fits, ClaimFits
<1>5. Fits(w)'
  BY <1>1, <1>2, <1>3, <1>4 DEF Inv, Fits, Went, HoldsNone, NoneFits, CancelFits, DecideFits,
                                ClaimFits, SweepFits, RunKept, FinishFits, PauseFits
<1> QED BY <1>2, <1>3, <1>5, ReadKeeps DEF Went

LEMMA SweepJobKeeps ==
  ASSUME Inv, NEW w \in Workers, SweepJob(w)
  PROVE  Inv'
<1> DEFINE new == [SeenJob(w) EXCEPT !.status = "failed", !.owner = None]
<1>1. w \in Sessions /\ UNCHANGED <<rows, runLock, newRun>>
  BY DEF SweepJob, Sessions
<1>2. Went(w, "sweepRun") /\ tx[w].op = "claim" /\ HoldsNone(w)
  BY <1>1, GotoMoves DEF SweepJob, At, Inv, Fits, ClaimFits, Statements
<1>3. SeenJob(w) = job
  BY <1>2 DEF SeenJob, HoldsNone
<1>4. CASE Exhausted(job)
  <2>1. UpdateJob(w, new)
    BY <1>3, <1>4 DEF SweepJob, UpdateJobWhere
  <2>2. new \in Row /\ new.status = "failed" /\ job.status = "running"
    BY <1>3, <1>4 DEF Inv, Types, Row, JobStatus, Exhausted
  <2> HIDE DEF new
  <2>3. Fits(w)'
    BY <1>1, <1>2, <2>1, <2>2 DEF Inv, Fits, Went, UpdateJob, HoldsNone, NoneFits, CancelFits,
                                  DecideFits, ClaimFits, Swept, FinishFits, PauseFits, rows
  <2> QED BY <1>1, <1>2, <2>1, <2>2, <2>3, JobStatementKeeps
<1>5. CASE ~Exhausted(job)
  <2>1. UNCHANGED <<jobLock, newJob>>
    BY <1>3, <1>5 DEF SweepJob, UpdateJobWhere
  <2>2. Fits(w)'
    BY <1>1, <1>2, <2>1 DEF Inv, Fits, Went, HoldsNone, NoneFits, CancelFits, DecideFits,
                            ClaimFits, FinishFits, PauseFits
  <2> QED BY <1>1, <1>2, <2>1, <2>2, ReadKeeps DEF Went
<1> QED BY <1>4, <1>5

LEMMA SweepRunKeeps ==
  ASSUME Inv, NEW w \in Workers, SweepRun(w)
  PROVE  Inv'
<1>1. w \in Sessions /\ UNCHANGED <<rows, jobLock, newJob>>
  BY DEF SweepRun, Sessions
<1>2. Went(w, "sweepDigest") /\ tx[w].op = "claim"
  BY <1>1, GotoMoves DEF SweepRun, At, Inv, Statements
<1>3. runLock # w /\ (jobLock = w => Swept)
  BY <1>1 DEF SweepRun, At, Inv, Fits, ClaimFits, HoldsNone
<1>4. SeenRun(w) = run
  BY <1>3 DEF SeenRun
<1>5. CASE run = "running"
  <2>1. UpdateRun(w, "failed")
    BY <1>4, <1>5 DEF SweepRun, UpdateRunWhere
  <2>2. Fits(w)'
    BY <1>1, <1>2, <1>3, <1>5, <2>1 DEF Inv, Fits, Went, UpdateRun, NoneFits, CancelFits,
       DecideFits, ClaimFits, Swept, FinishFits, PauseFits, rows
  <2> QED BY <1>1, <1>2, <2>1, <2>2, RunStatementKeeps DEF RunStatus, Terminal
<1>6. CASE run # "running"
  <2>1. UNCHANGED <<runLock, newRun>>
    BY <1>4, <1>6 DEF SweepRun, UpdateRunWhere
  <2>2. jobLock = w => run = "failed"
    BY <1>3, <1>6 DEF Inv, RunJobCoherent, Swept
  <2>3. Fits(w)'
    BY <1>1, <1>2, <1>3, <2>1, <2>2 DEF Inv, Fits, Went, NoneFits, CancelFits, DecideFits,
       ClaimFits, Swept, FinishFits, PauseFits, rows
  <2> QED BY <1>1, <1>2, <2>1, <2>3, ReadKeeps DEF Went
<1> QED BY <1>5, <1>6

LEMMA SweepDigestKeeps ==
  ASSUME Inv, NEW w \in Workers, SweepDigest(w)
  PROVE  Inv'
<1>1. w \in Sessions /\ UNCHANGED <<rows, jobLock, newJob>>
  BY DEF SweepDigest, Sessions
<1>2. Went(w, "pick") /\ tx[w].op = "claim"
  BY <1>1, GotoMoves DEF SweepDigest, At, Inv, Statements
<1>3. /\ jobLock = w => Swept
      /\ runLock = w => run = "running" /\ newRun = "failed"
      /\ jobLock = w /\ runLock # w => run = "failed"
  BY <1>1 DEF SweepDigest, At, Inv, Fits, ClaimFits
<1>4. UpdateRun(w, SeenRun(w)) /\ SeenRun(w) \in RunStatus
  BY <1>1, SeenIs DEF SweepDigest, Inv
<1>5. newRun' = IF runLock = w THEN newRun ELSE run
  BY <1>4 DEF UpdateRun, SeenRun
<1>6. SweepFits(w)'
  BY <1>1, <1>3, <1>4, <1>5 DEF SweepFits, RunKept, Swept, UpdateRun, rows
<1>7. Fits(w)'
  BY <1>1, <1>2, <1>6 DEF Inv, Fits, Went, NoneFits, CancelFits, DecideFits, ClaimFits,
                          FinishFits, PauseFits
<1> QED BY <1>1, <1>2, <1>4, <1>7, RunStatementKeeps

LEMMA PickKeeps ==
  ASSUME Inv, NEW w \in Workers, Pick(w)
  PROVE  Inv'
<1> DEFINE new == [SeenJob(w) EXCEPT
                     !.status = IF @ = "cancel_requested" THEN @ ELSE "running",
                     !.owner = w, !.gen = @ + 1, !.attempts = @ + 1, !.live = TRUE]
<1>1. w \in Sessions /\ UNCHANGED <<rows, runLock, newRun>>
  BY DEF Pick, Sessions
<1>2. tx[w].op = "claim" /\ SweepFits(w)
  BY <1>1 DEF Pick, At, Inv, Fits, ClaimFits
<1>3. CASE jobLock \in {None, w} /\ Claimable(SeenJob(w))
  <2>1. UpdateJob(w, new) /\ Went(w, "run")
    BY <1>1, <1>3, GotoMoves DEF Pick, Inv, Statements
  <2>2. jobLock # w /\ SeenJob(w) = job
    BY <1>2, <1>3 DEF SweepFits, Swept, Claimable, SeenJob
  <2>3. Claimable(job) /\ job \in Row
    BY <1>3, <2>2 DEF Inv, Types
  <2>4. /\ new \in Row
        /\ new.status = IF job.status = "cancel_requested" THEN job.status ELSE "running"
    <3> DEFINE st == IF job.status = "cancel_requested" THEN job.status ELSE "running"
    <3>1. new = [job EXCEPT !.status = st, !.owner = w, !.gen = job.gen + 1,
                            !.attempts = job.attempts + 1, !.live = TRUE]
      BY <2>2
    <3>2. st \in JobStatus
      BY DEF JobStatus
    <3>3. job.gen + 1 \in Nat /\ job.attempts + 1 \in Nat
      BY <2>3 DEF Row
    <3> HIDE DEF st, new
    <3>4. new \in Row /\ new.status = st
      BY <2>3, <3>1, <3>2, <3>3 DEF Row
    <3> QED BY <3>4 DEF st
  <2> HIDE DEF new
  <2>5. \/ job.status \in {"queued", "retry_wait", "running"} /\ new.status = "running"
        \/ job.status = "cancel_requested" /\ new.status = "cancel_requested"
    BY <2>3, <2>4 DEF Claimable
  <2>6. PickFits(w)'
    BY <1>1, <1>2, <2>1, <2>5 DEF PickFits, SweepFits, RunKept, UpdateJob, rows
  <2>7. Fits(w)'
    BY <1>1, <1>2, <2>1, <2>6 DEF Inv, Fits, Went, NoneFits, CancelFits, DecideFits, ClaimFits,
                                  FinishFits, PauseFits
  <2> QED BY <1>1, <2>1, <2>4, <2>7, JobStatementKeeps
<1>4. CASE ~(jobLock \in {None, w} /\ Claimable(SeenJob(w)))
  <2>1. UNCHANGED <<jobLock, newJob>> /\ Went(w, "commit")
    BY <1>1, <1>4, GotoMoves DEF Pick, Inv, Statements
  <2>2. SweepFits(w)'
    BY <1>1, <1>2, <2>1 DEF SweepFits, RunKept, Swept, rows
  <2>3. Fits(w)'
    BY <1>1, <1>2, <2>1, <2>2 DEF Inv, Fits, Went, NoneFits, CancelFits, DecideFits, ClaimFits,
                                  FinishFits, PauseFits
  <2> QED BY <1>1, <2>1, <2>3, ReadKeeps DEF Went
<1> QED BY <1>3, <1>4

LEMMA ClaimRunKeeps ==
  ASSUME Inv, NEW w \in Workers, ClaimRun(w)
  PROVE  Inv'
<1>1. w \in Sessions /\ UNCHANGED <<rows, jobLock, newJob>>
  BY DEF ClaimRun, Sessions
<1>2. Went(w, "commit") /\ tx[w].op = "claim" /\ PickFits(w)
  BY <1>1, GotoMoves DEF ClaimRun, At, Inv, Fits, ClaimFits, Statements
<1>3. CASE newJob.status = "running" /\ job.status \in {"queued", "retry_wait", "running"}
  <2>1. SeenRun(w) \in {"queued", "running", "failed"}
    BY <1>2, <1>3 DEF Inv, RunJobCoherent, PickFits, RunKept, SeenRun
  <2>2. UpdateRun(w, "running")
    BY <2>1 DEF ClaimRun, UpdateRunWhere
  <2>3. Fits(w)'
    BY <1>1, <1>2, <1>3, <2>2 DEF Inv, Fits, Went, UpdateRun, HoldsBoth, PickFits, NoneFits,
       CancelFits, DecideFits, ClaimFits, FinishFits, PauseFits
  <2> QED BY <1>1, <1>2, <2>2, <2>3, RunStatementKeeps DEF RunStatus
<1>4. CASE newJob.status = "cancel_requested" /\ job.status = "cancel_requested"
  <2>1. run = "cancel_requested"
    BY <1>4 DEF Inv, RunJobCoherent
  <2>2. SeenRun(w) = "cancel_requested"
    BY <1>2, <2>1 DEF PickFits, RunKept, SeenRun
  <2>3. UNCHANGED <<runLock, newRun>>
    BY <2>2 DEF ClaimRun, UpdateRunWhere
  <2>4. Fits(w)'
    BY <1>1, <1>2, <1>4, <2>1, <2>3 DEF Inv, Fits, Went, PickFits, RunKept, NoneFits,
       CancelFits, DecideFits, ClaimFits, FinishFits, PauseFits, rows
  <2> QED BY <1>1, <1>2, <2>3, <2>4, ReadKeeps DEF Went
<1> QED BY <1>2, <1>3, <1>4 DEF PickFits

(***************************************************************************)
(* complete(), pause_for_review() and fail()                               *)
(***************************************************************************)
LEMMA BeginEndKeeps ==
  ASSUME Inv, NEW w \in Workers, BeginEnd(w)
  PROVE  Inv'
<1>1. w \in Sessions /\ w \notin Supervisors
  BY DEF Sessions
<1>2. CASE Begin(w, "complete", "lease", "completed", FALSE)
  BY <1>1, <1>2, BeginKeeps DEF RunStatus, Terminal, Statements
<1>3. CASE Begin(w, "pause", "lease", "awaiting_review", FALSE)
  BY <1>1, <1>3, BeginKeeps DEF RunStatus, Statements
<1>4. CASE \E retry \in BOOLEAN : Begin(w, "fail", "lease", "failed", retry)
  BY <1>1, <1>4, BeginKeeps DEF RunStatus, Terminal, Statements
<1>5. CASE Begin(w, "complete", "lease", "cancelled", FALSE)
  BY <1>1, <1>5, BeginKeeps DEF RunStatus, Terminal, Statements
<1> QED BY <1>2, <1>3, <1>4, <1>5 DEF BeginEnd

LEMMA ReadLeaseKeeps ==
  ASSUME Inv, NEW w \in Workers, ReadLease(w)
  PROVE  Inv'
<1>1. w \in Sessions /\ tx[w].op \in EndOps /\ tx[w].at = "lease"
  BY DEF ReadLease, Sessions
<1>2. CASE ~Holds(w)
  BY <1>1, <1>2, RollbackKeeps DEF ReadLease
<1>3. CASE Holds(w)
  <2> DEFINE at    == IF tx[w].op = "fail" THEN "job" ELSE "status"
             to    == IF tx[w].op = "fail" /\ job.status = "cancel_requested"
                      THEN "cancelled" ELSE tx[w].to
             retry == tx[w].retry /\ job.status # "cancel_requested"
                                  /\ lease[w].attempt < MaxAttempts
             y     == [tx[w] EXCEPT !.at = at, !.to = to, !.retry = retry]
  <2>1. /\ tx' = [tx EXCEPT ![w] = y]
        /\ UNCHANGED <<rows, runLock, jobLock, newRun, newJob>>
    BY <1>3 DEF ReadLease
  <2>2. at \in Statements /\ at \in {"job", "status"} /\ (at = "job" => tx[w].op = "fail")
    BY DEF Statements
  <2>3. to \in RunStatus \union {"none"} /\ (to = tx[w].to \/ (tx[w].op = "fail" /\ to \in Terminal))
    <3>1. tx[w].to \in RunStatus \union {"none"}
      BY <1>1 DEF Inv, Types, Tx
    <3>2. CASE tx[w].op = "fail" /\ job.status = "cancel_requested"
      BY <3>2 DEF RunStatus, Terminal
    <3>3. CASE ~(tx[w].op = "fail" /\ job.status = "cancel_requested")
      BY <3>1, <3>3
    <3> QED BY <3>2, <3>3
  <2>4. retry \in BOOLEAN /\ (retry => tx[w].retry)
    OBVIOUS
  <2> HIDE DEF at, to, retry
  <2>5. y \in Tx /\ y.op = tx[w].op /\ y.at = at /\ y.to = to /\ y.retry = retry
    BY <1>1, <2>2, <2>3, <2>4 DEF Inv, Types, Tx
  <2> HIDE DEF y
  <2>6. tx' \in [Sessions -> Tx] /\ tx'[w] = y /\ OthersStay(w)
    BY <1>1, <2>1, <2>5, TxMoves DEF Inv
  <2>7. FinishFits(w)'
    BY <1>1, <2>1, <2>2, <2>3, <2>5, <2>6 DEF Inv, Fits, FinishFits, HoldsNone
  <2>8. PauseFits(w)'
    BY <1>1, <2>1, <2>2, <2>3, <2>4, <2>5, <2>6 DEF Inv, Fits, PauseFits, HoldsNone
  <2>9. Fits(w)'
    BY <1>1, <2>5, <2>6, <2>7, <2>8 DEF Inv, Fits, NoneFits, CancelFits, DecideFits, ClaimFits,
                                         EndOps
  <2> QED BY <1>1, <2>1, <2>6, <2>9, ReadKeeps
<1> QED BY <1>2, <1>3

LEMMA ReadStatusKeeps ==
  ASSUME Inv, NEW w \in Workers, ReadStatus(w)
  PROVE  Inv'
<1>1. w \in Sessions /\ tx[w].op \in {"complete", "pause"} /\ tx[w].at = "status"
  BY DEF ReadStatus, Sessions
<1>2. CASE Rollback(w)
  BY <1>1, <1>2, RollbackKeeps
<1>3. CASE /\ Goto(w, IF tx[w].op = "pause" THEN "run" ELSE "job")
           /\ UNCHANGED <<rows, runLock, jobLock, newRun, newJob>>
  <2>1. Went(w, IF tx[w].op = "pause" THEN "run" ELSE "job")
    BY <1>1, <1>3, GotoMoves DEF Inv, Statements
  <2>2. FinishFits(w)' /\ PauseFits(w)'
    BY <1>1, <1>3, <2>1 DEF Inv, Fits, Went, FinishFits, PauseFits, HoldsNone
  <2>3. Fits(w)'
    BY <1>1, <2>1, <2>2 DEF Inv, Fits, Went, NoneFits, CancelFits, DecideFits, ClaimFits
  <2> QED BY <1>1, <1>3, <2>1, <2>3, ReadKeeps DEF Went
<1> QED BY <1>2, <1>3 DEF ReadStatus

LEMMA EndJobKeeps ==
  ASSUME Inv, NEW w \in Workers, EndJob(w)
  PROVE  Inv'
<1> DEFINE st  == IF tx[w].retry THEN "retry_wait"
                  ELSE IF tx[w].to = "awaiting_review" THEN "completed" ELSE tx[w].to
           at  == IF tx[w].op = "pause" THEN "commit" ELSE "run"
           new == [SeenJob(w) EXCEPT !.status = st, !.owner = None, !.live = FALSE]
<1>1. /\ w \in Sessions /\ tx[w].op \in EndOps /\ tx[w].at = "job"
      /\ UNCHANGED <<rows, runLock, newRun>> /\ UpdateJob(w, new) /\ Goto(w, at)
  BY DEF EndJob, Sessions
<1>2. Went(w, at)
  BY <1>1, GotoMoves DEF Inv, Statements
<1>3. /\ tx[w].op \in {"complete", "fail"} => st = EndJobStatus(w) /\ tx[w].to \in Terminal
      /\ tx[w].op = "pause" => st = "completed"
  BY <1>1 DEF Inv, Fits, FinishFits, PauseFits, EndJobStatus, Terminal
<1>4. st \in JobStatus
  BY <1>1, <1>3 DEF EndOps, EndJobStatus, JobStatus, Terminal
<1> HIDE DEF st
<1>5. new \in Row /\ new.status = st
  BY <1>1, <1>4, SeenIs DEF Inv, Row
<1> HIDE DEF new
<1>6. EndJobStatus(w)' = EndJobStatus(w)
  BY <1>2 DEF EndJobStatus, Went
<1>7. FinishFits(w)' /\ PauseFits(w)'
  BY <1>1, <1>2, <1>3, <1>5, <1>6 DEF Inv, Fits, Went, UpdateJob, FinishFits, PauseFits,
                                       HoldsNone, HoldsBoth
<1>8. Fits(w)'
  BY <1>1, <1>2, <1>7 DEF Inv, Fits, Went, NoneFits, CancelFits, DecideFits, ClaimFits, EndOps
<1> QED BY <1>1, <1>2, <1>5, <1>8, JobStatementKeeps

LEMMA EndRunKeeps ==
  ASSUME Inv, NEW w \in Workers, EndRun(w)
  PROVE  Inv'
<1> DEFINE at == IF tx[w].op = "pause" THEN "job" ELSE "commit"
<1>1. /\ w \in Sessions /\ tx[w].op \in EndOps /\ tx[w].at = "run"
      /\ UNCHANGED <<rows, jobLock, newJob>> /\ UpdateRun(w, EndRunStatus(w)) /\ Goto(w, at)
  BY DEF EndRun, EndRunStatus, Sessions
<1>2. Went(w, at)
  BY <1>1, GotoMoves DEF Inv, Statements
<1>3. /\ tx[w].op \in {"complete", "fail"} => tx[w].to \in Terminal
      /\ tx[w].op = "pause" => EndRunStatus(w) = "awaiting_review"
  BY <1>1 DEF Inv, Fits, FinishFits, PauseFits, EndRunStatus
<1>4. EndRunStatus(w) \in RunStatus
  BY <1>1, <1>3 DEF EndOps, EndRunStatus, RunStatus
<1>5. EndRunStatus(w)' = EndRunStatus(w) /\ EndJobStatus(w)' = EndJobStatus(w)
  BY <1>2 DEF EndRunStatus, EndJobStatus, Went
<1>6. FinishFits(w)' /\ PauseFits(w)'
  BY <1>1, <1>2, <1>3, <1>5 DEF Inv, Fits, Went, UpdateRun, FinishFits, PauseFits,
                                 HoldsNone, HoldsBoth
<1>7. Fits(w)'
  BY <1>1, <1>2, <1>6 DEF Inv, Fits, Went, NoneFits, CancelFits, DecideFits, ClaimFits, EndOps
<1> QED BY <1>1, <1>2, <1>4, <1>7, RunStatementKeeps

(***************************************************************************)
(* The end of a transaction, and what happens around transactions.         *)
(***************************************************************************)
\* What a transaction that commits leaves: two rows that agree, the run alone
\* (unchanged or failed by a sweep), or a queue row whose status stays.
CommitsRun(s) == runLock = s /\ jobLock # s
                 /\ (newRun = run \/ (run = "running" /\ newRun = "failed"))

CommitsJob(s) == runLock # s /\ jobLock = s /\ newJob.status = job.status

Agree(r, j) ==
    CASE j \in {"queued", "retry_wait"} -> r = "queued"
      [] j = "completed"                -> r \in {"awaiting_review", "completed"}
      [] j = "running"                  -> r \in {"running", "failed"}
      [] j \in {"failed", "cancelled", "cancel_requested"} -> r = j

LEMMA CommitsCoherently ==
  ASSUME Inv, NEW s \in Sessions, tx[s].at = "commit"
  PROVE  \/ HoldsNone(s) \/ CommitsRun(s) \/ CommitsJob(s)
         \/ HoldsBoth(s) /\ Agree(newRun, newJob.status)
<1>1. tx[s].op \in EndOps \union {"none", "claim", "cancel", "decide"}
  BY DEF Inv, Types, Tx
<1>2. tx[s].op # "none"
  BY DEF Inv, Fits, NoneFits
<1>3. CASE tx[s].op \in {"cancel", "decide"}
  BY <1>3 DEF Inv, Fits, CancelFits, DecideFits, Agree
<1>4. CASE tx[s].op = "claim"
  BY <1>4 DEF Inv, Fits, ClaimFits, SweepFits, RunKept, Swept, HoldsNone, HoldsBoth, CommitsRun,
              CommitsJob, Agree
<1>5. CASE tx[s].op \in {"complete", "fail"}
  <2>1. tx[s].to \in Terminal /\ HoldsBoth(s)
    BY <1>5 DEF Inv, Fits, FinishFits
  <2>2. Agree(EndRunStatus(s), EndJobStatus(s))
    BY <2>1 DEF EndRunStatus, EndJobStatus, Terminal, Agree
  <2> QED BY <1>5, <2>1, <2>2 DEF Inv, Fits, FinishFits
<1>6. CASE tx[s].op = "pause"
  BY <1>6 DEF Inv, Fits, PauseFits, Agree
<1> QED BY <1>1, <1>2, <1>3, <1>4, <1>5, <1>6 DEF EndOps

LEMMA CommitKeeps ==
  ASSUME Inv, NEW s \in Sessions, Commit(s)
  PROVE  Inv'
<1>1. /\ tx[s].at = "commit" /\ Release(s)
      /\ run' = IF runLock = s THEN newRun ELSE run
      /\ job' = IF jobLock = s THEN newJob ELSE job
      /\ decided' = (decided \/ tx[s].op = "decide")
  BY DEF Commit, SeenRun, SeenJob
<1>2. /\ Ended(s) /\ Takes(s) /\ runLock' # s /\ jobLock' # s
      /\ newRun' = IF runLock = s THEN run' ELSE newRun
      /\ newJob' = IF jobLock = s THEN job' ELSE newJob
  BY <1>1, ReleaseMoves DEF Inv
<1>3. Types'
  BY <1>1, <1>2, ReleaseMoves DEF Inv, Types, Ended
<1>4. \/ HoldsNone(s) \/ CommitsRun(s) \/ CommitsJob(s)
      \/ HoldsBoth(s) /\ Agree(newRun, newJob.status)
  BY <1>1, CommitsCoherently
<1>5. RunJobCoherent'
  <2>1. Agree(run, job.status) = RunJobCoherent /\ Agree(run', job'.status) = RunJobCoherent'
    BY DEF Agree, RunJobCoherent
  <2>2. CASE HoldsNone(s)
    BY <1>1, <2>1, <2>2 DEF Inv, HoldsNone
  <2>3. CASE CommitsRun(s)
    BY <1>1, <2>3 DEF Inv, CommitsRun, RunJobCoherent, Types, Row, JobStatus
  <2>4. CASE CommitsJob(s)
    BY <1>1, <2>1, <2>4 DEF Inv, CommitsJob
  <2>5. CASE HoldsBoth(s) /\ Agree(newRun, newJob.status)
    BY <1>1, <2>1, <2>5 DEF HoldsBoth
  <2> QED BY <1>4, <2>2, <2>3, <2>4, <2>5
<1>6. ASSUME NEW u \in Sessions PROVE Fits(u)'
  <2>1. CASE u = s
    BY <1>2, <2>1, EndedFits DEF Ended
  <2>2. CASE u # s
    <3>1. runLock = u => run' = run /\ decided' = decided
      <4>1. runLock = u => tx[s].op # "decide"
        BY <1>1, <2>2 DEF Inv, Fits, DecideFits, HoldsBoth
      <4> QED BY <1>1, <2>2, <4>1 DEF Inv, Types
    <3>2. jobLock = u => /\ job'.status = job.status
                         /\ run' = run \/ (run = "running" /\ run' = "failed")
      BY <1>1, <1>4, <2>2 DEF HoldsNone, CommitsRun, CommitsJob, HoldsBoth
    <3>3. Steady(u)
      BY <1>2, <2>2, <3>1, <3>2, SessionIsNotNone DEF Ended, OthersStay, Takes, Steady
    <3> QED BY <3>3, OthersFit DEF Inv
  <2> QED BY <2>1, <2>2
<1> QED BY <1>3, <1>5, <1>6 DEF Inv

LEMMA ExpireKeeps ==
  ASSUME Inv, Expire
  PROVE  Inv'
<1> DEFINE live == newJob.live /\ newJob.gen # job.gen
<1>1. /\ job' = [job EXCEPT !.live = FALSE] /\ newJob' = [newJob EXCEPT !.live = live]
      /\ UNCHANGED <<run, decided, runLock, jobLock, newRun, tx>>
  BY DEF Expire
<1>2. live \in BOOLEAN
  OBVIOUS
<1> HIDE DEF live
<1>3. /\ job' \in Row /\ job'.status = job.status
      /\ newJob' \in Row /\ newJob'.status = newJob.status
  BY <1>1, <1>2 DEF Inv, Types, Row
<1>4. ASSUME NEW u \in Sessions PROVE Fits(u)'
  BY <1>1, <1>3, OthersFit DEF Inv, Steady
<1> QED BY <1>1, <1>3, <1>4 DEF Inv, Types, RunJobCoherent

(***************************************************************************)
(* The theorems.                                                           *)
(***************************************************************************)
LEMMA InitHolds ==
  ASSUME Init
  PROVE  Inv
<1>1. Types
  BY NoTxIs DEF Init, Types, Row, JobStatus, RunStatus
<1>2. RunJobCoherent
  BY DEF Init, RunJobCoherent
<1>3. ASSUME NEW s \in Sessions PROVE Fits(s)
  BY NoTxIs, SessionIsNotNone DEF Init, Fits, NoneFits, CancelFits, DecideFits, ClaimFits,
     FinishFits, PauseFits, HoldsNone
<1> QED BY <1>1, <1>2, <1>3 DEF Inv

LEMMA NextKeeps ==
  ASSUME Inv, [Next]_vars
  PROVE  Inv'
<1>1. ASSUME NEW s \in Supervisors, BeginCancel(s) \/ BeginDecide(s)
      PROVE  Inv'
  BY <1>1, BeginKeeps DEF BeginCancel, BeginDecide, Sessions, Statements
<1>2. ASSUME NEW w \in Workers, BeginClaim(w)
      PROVE  Inv'
  BY <1>2, BeginKeeps DEF BeginClaim, Sessions, Statements
<1>3. ASSUME NEW w \in Workers, BeginEnd(w) \/ Crash(w)
      PROVE  Inv'
  BY <1>3, BeginEndKeeps, RollbackKeeps DEF Crash, Sessions
<1>4. ASSUME NEW s \in Supervisors, Supervise(s)
      PROVE  Inv'
  BY <1>4, CancelRunKeeps, CancelJobKeeps, DecideRunKeeps, DecideJobKeeps
     DEF Supervise, Sessions
<1>5. ASSUME NEW w \in Workers, Work(w)
      PROVE  Inv'
  BY <1>5, SweepKeeps, SweepJobKeeps, SweepRunKeeps, SweepDigestKeeps, PickKeeps, ClaimRunKeeps,
     ReadLeaseKeeps, ReadStatusKeeps, EndJobKeeps, EndRunKeeps DEF Work
<1>6. ASSUME NEW s \in Sessions, Commit(s) \/ Deadlock(s)
      PROVE  Inv'
  BY <1>6, CommitKeeps, RollbackKeeps DEF Deadlock
<1>7. CASE Expire
  BY <1>7, ExpireKeeps
<1>8. CASE UNCHANGED vars
  <2>1. ASSUME NEW u \in Sessions PROVE Fits(u)'
    BY <1>8, OthersFit DEF Inv, Steady, vars
  <2> QED BY <1>8, <2>1 DEF Inv, Types, RunJobCoherent, vars
<1> QED BY <1>1, <1>2, <1>3, <1>4, <1>5, <1>6, <1>7, <1>8 DEF Next, Statement

LEMMA InvHolds == Spec => []Inv
  BY InitHolds, NextKeeps, PTL DEF Spec

\* The committed run and queue row never disagree, but for a run that a stale sweep
\* failed: whatever statements of the others run in between, whoever is aborted,
\* crashes or loses its lease.
THEOREM RowsAgree == Spec => []RunJobCoherent
<1>1. Inv => RunJobCoherent
  BY DEF Inv
<1> QED BY <1>1, InvHolds, PTL

\* cancel and decide take the run row before the queue row: none of them ever waits
\* in a circle with another.
THEOREM RequestsAreOrdered == Spec => []RequestsNeverDeadlock
<1>1. ASSUME Inv, NEW s \in Supervisors, NEW o \in Supervisors, WaitsFor(s, o), WaitsFor(o, s)
      PROVE  FALSE
  <2>1. s \in Sessions /\ o \in Sessions /\ s # o /\ Fits(s) /\ Fits(o)
    BY <1>1 DEF Inv, Sessions, WaitsFor
  <2>2. /\ (runLock = o /\ tx[s].at = "run") \/ (jobLock = o /\ tx[s].at = "job")
        /\ (runLock = s /\ tx[o].at = "run") \/ (jobLock = s /\ tx[o].at = "job")
    <3>1. \A u \in Supervisors : Fits(u) => tx[u].at \in {"none", "run", "job", "commit"}
      BY DEF Fits, NoneFits, CancelFits, DecideFits
    <3> QED BY <1>1, <2>1, <3>1 DEF WaitsFor
  <2> QED BY <2>1, <2>2 DEF Fits, NoneFits, CancelFits, DecideFits, HoldsNone
<1>2. Inv => RequestsNeverDeadlock
  BY <1>1 DEF RequestsNeverDeadlock
<1> QED BY <1>2, InvHolds, PTL

\* A decision commits on the run its supervisor saw, not on one that was cancelled
\* or decided by somebody else meanwhile.
THEOREM DecisionsAreCurrent == Spec => DecisionIsCurrent
<1>1. Inv => \A s \in Supervisors :
               At(s, "decide", "commit") /\ tx'[s] = NoTx => run = "awaiting_review" /\ ~decided
  BY DEF Inv, Fits, DecideFits, At, Sessions
<1> QED BY <1>1, InvHolds, PTL DEF DecisionIsCurrent
=============================================================================
