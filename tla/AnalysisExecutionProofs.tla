---------------------- MODULE AnalysisExecutionProofs ----------------------
(***************************************************************************)
(* Theorems about AnalysisExecution, and about AnalysisGraph on top of it, *)
(* for any sets of runs and workers, any number of stages, attempts and    *)
(* faults.  The first part is about standard runs under Spec; the second,  *)
(* from "Graph-supervised runs" on, about both modes under GraphSpec.      *)
(***************************************************************************)
EXTENDS AnalysisGraph, TLAPS

USE RunsAssumption, StagesAssumption, AttemptsAssumption, FaultsAssumption

LEMMA IdleWorkerType == IdleWorker \in WorkerState /\ IdleWorker.pc = "idle"
  BY DEF IdleWorker, WorkerState, PC, FinStep, Event

\* The number of faults stays within its bound.
LEMMA FaultCount ==
  faults \in 0..MaxFaults /\ faults < MaxFaults => faults + 1 \in 0..MaxFaults
  OBVIOUS

LEMMA FinishType ==
  ASSUME NEW r \in Runs
  PROVE  Finish(r) \in {"completed", "partial", "failed"}
  BY DEF Finish

\* The initial state is well typed.
LEMMA InitType == Init => TypeOK
  BY IdleWorkerType
  DEF Init, TypeOK, RunStatus, RunTerminal, JobStatus, StageStatus, FinState, WorkerState

(***************************************************************************)
(* Moving one worker keeps every worker's state legal.                     *)
(***************************************************************************)
WorkersTyped == wk \in [Workers -> WorkerState]

\* A worker on its way to completion carries the verdict it will write, which
\* TypeOK needs to hold after complete().
Trusting == {"boundary", "durable", "complete"}
Heads(w) == wk[w].pc \in Trusting => wk[w].event \in {"completed", "partial"}
Heading  == \A w \in Workers : Heads(w)

\* What complete() itself relies on.
Concludes(w) == wk[w].pc = "complete" => wk[w].event \in {"completed", "partial"}

\* What happens outside of an attempt, or ends it from outside.
Elsewhere ==
    \/ \E r \in Runs : \/ \E sup \in BOOLEAN : CreateRun(r, sup)
                       \/ Cancel(r) \/ Decide(r) \/ Expire(r) \/ Overrun(r)
    \/ \E w \in Workers : Take(w) \/ Raise(w) \/ Crash(w)

LEMMA GotoType ==
  ASSUME WorkersTyped, NEW w \in Workers, wk[w].pc # "idle", NEW p \in PC, Goto(w, p)
  PROVE  WorkersTyped'
<1>1. [wk[w] EXCEPT !.pc = p] \in WorkerState
  BY DEF WorkersTyped, WorkerState
<1> QED BY <1>1 DEF Goto, WorkersTyped

LEMMA GoIdleType ==
  ASSUME WorkersTyped, NEW w \in Workers, GoIdle(w)
  PROVE  WorkersTyped'
  BY IdleWorkerType DEF GoIdle, WorkersTyped

LEMMA GoFailType ==
  ASSUME WorkersTyped, NEW w \in Workers, wk[w].pc # "idle", NEW b \in BOOLEAN, GoFail(w, b)
  PROVE  WorkersTyped'
<1> DEFINE y == [wk[w] EXCEPT !.pc = "fail", !.retry = b, !.todo = {},
                              !.step = "canonicalize", !.event = "failed"]
<1>0. "fail" \in PC /\ "canonicalize" \in FinStep /\ "failed" \in Event
  BY DEF PC, FinStep, Event
<1>1. y.run \in Runs /\ y.pc = "fail"
  BY DEF WorkersTyped, WorkerState
<1>2. y \in [pc : PC, run : Runs \union {NoRun}, gen : Nat, todo : SUBSET Stages,
             retry : BOOLEAN, step : FinStep, event : Event]
  BY <1>0 DEF WorkersTyped, WorkerState
<1>3. y \in WorkerState
  BY <1>1, <1>2 DEF WorkerState
<1> QED BY <1>3 DEF GoFail, WorkersTyped

LEMMA GoAuditType ==
  ASSUME WorkersTyped, NEW w \in Workers, wk[w].pc # "idle", NEW e \in Event, GoAudit(w, e)
  PROVE  WorkersTyped'
<1> DEFINE y == [wk[w] EXCEPT !.pc = "audit", !.event = e, !.todo = {},
                              !.retry = FALSE, !.step = "canonicalize"]
<1>0. "audit" \in PC /\ "canonicalize" \in FinStep
  BY DEF PC, FinStep
<1>1. y.run \in Runs /\ y.pc = "audit"
  BY DEF WorkersTyped, WorkerState
<1>2. y \in [pc : PC, run : Runs \union {NoRun}, gen : Nat, todo : SUBSET Stages,
             retry : BOOLEAN, step : FinStep, event : Event]
  BY <1>0 DEF WorkersTyped, WorkerState
<1>3. y \in WorkerState
  BY <1>1, <1>2 DEF WorkerState
<1> QED BY <1>3 DEF GoAudit, WorkersTyped

\* What the local state of a worker that has claimed looks like.
LEMMA ActiveWorker ==
  ASSUME WorkersTyped, NEW w \in Workers, wk[w].pc # "idle"
  PROVE  /\ wk[w].run \in Runs /\ wk[w].gen \in Nat /\ wk[w].todo \in SUBSET Stages
         /\ wk[w].retry \in BOOLEAN /\ wk[w].step \in FinStep /\ wk[w].event \in Event
  BY DEF WorkersTyped, WorkerState

\* What _persist_stage leaves behind in a worker that has claimed.
LEMMA AfterPersist ==
  ASSUME NEW x \in WorkerState, x.pc # "idle",
         NEW b \in BOOLEAN, NEW todo \in SUBSET Stages
  PROVE  [x EXCEPT !.pc = "before", !.todo = todo, !.retry = b] \in WorkerState
<1>1. x \in [pc : PC, run : Runs \union {NoRun}, gen : Nat, todo : SUBSET Stages,
             retry : BOOLEAN, step : FinStep, event : Event]
  BY DEF WorkerState
<1>2. [x EXCEPT !.todo = todo] \in
            [pc : PC, run : Runs \union {NoRun}, gen : Nat, todo : SUBSET Stages,
             retry : BOOLEAN, step : FinStep, event : Event]
  BY <1>1
<1> DEFINE y == [x EXCEPT !.todo = todo, !.retry = b]
<1>3. y \in [pc : PC, run : Runs \union {NoRun}, gen : Nat, todo : SUBSET Stages,
             retry : BOOLEAN, step : FinStep, event : Event]
  BY <1>1
<1>4. y.run \in Runs
  BY <1>1 DEF WorkerState
<1> QED BY <1>1, <1>3, <1>4 DEF WorkerState, PC

\* An attempt under way stays a typed attempt when its place, the stages it has left, or
\* the step and the verdict it carries are replaced by others of their types.
LEMMA AfterMove ==
  ASSUME NEW x \in WorkerState, x.pc # "idle", NEW p \in PC, NEW todo \in SUBSET Stages,
         NEW t \in FinStep, NEW e \in Event
  PROVE  /\ [x EXCEPT !.pc = p, !.todo = todo] \in WorkerState
         /\ [x EXCEPT !.pc = p, !.step = t] \in WorkerState
         /\ [x EXCEPT !.pc = p, !.step = t, !.event = e] \in WorkerState
<1> DEFINE All == [pc : PC, run : Runs \union {NoRun}, gen : Nat, todo : SUBSET Stages,
                   retry : BOOLEAN, step : FinStep, event : Event]
           a == [x EXCEPT !.pc = p, !.todo = todo]
           b == [x EXCEPT !.pc = p, !.step = t]
           c == [x EXCEPT !.pc = p, !.step = t, !.event = e]
<1>1. x \in All /\ x.run \in Runs
  BY DEF WorkerState
<1>2. a \in All /\ b \in All /\ c \in All
  BY <1>1
<1>3. a.run \in Runs /\ b.run \in Runs /\ c.run \in Runs
  BY <1>1
<1>4. \A y \in All : y.run \in Runs => y \in WorkerState
  BY DEF WorkerState
<1> HIDE DEF All, a, b, c
<1>5. a \in WorkerState /\ b \in WorkerState /\ c \in WorkerState
  BY <1>2, <1>3, <1>4
<1> QED BY <1>5 DEF a, b, c

\* Every step of a worker's attempt preserves the types of the variables.
LEMMA StepWorkersType ==
  ASSUME WorkersTyped, NEW w \in Workers, Step(w)
  PROVE  WorkersTyped'
<1>0. wk[w].pc # "idle"
  BY DEF Step, Load, BeforeStage, LoseLease, StartStage, PersistStage, AfterStages,
         Advise, PauseForReview, Settle, FinBoundary, FinDurable, FinStorageError,
         Complete, MarkPendingCancelled, CompleteCancelled, Fail, Audit
<1>a. /\ wk[w].run \in Runs /\ wk[w].gen \in Nat /\ wk[w].todo \in SUBSET Stages
      /\ wk[w].retry \in BOOLEAN /\ wk[w].step \in FinStep /\ wk[w].event \in Event
  BY <1>0, ActiveWorker
<1>b. wk[w] \in WorkerState
  BY DEF WorkersTyped
<1>1. CASE Load(w)
  <2>1. [wk[w] EXCEPT !.pc = "before", !.todo = Stages \ Done(wk[w].run)] \in WorkerState
    <3>1. "before" \in PC /\ Stages \ Done(wk[w].run) \in SUBSET Stages
      BY DEF PC
    <3> QED BY <1>0, <1>a, <1>b, <3>1, AfterMove
  <2> QED BY <1>1, <2>1 DEF Load, WorkersTyped
<1>2. CASE BeforeStage(w)
  BY <1>0, <1>2, GotoType DEF BeforeStage, PC
<1>3. CASE LoseLease(w)
  BY <1>3, GoIdleType DEF LoseLease
<1>4. CASE StartStage(w)
  BY <1>0, <1>4, GotoType, GoIdleType DEF StartStage, PC
<1>5. ASSUME NEW result \in {"ok", "transient", "fatal"}, PersistStage(w, result)
      PROVE  WorkersTyped'
  <2>1. PICK s \in wk[w].todo :
            IF Holds(w)
            THEN wk' = [wk EXCEPT ![w].pc = "before", ![w].todo = wk[w].todo \ {s},
                                  ![w].retry = wk[w].retry \/ result = "transient"]
            ELSE GoIdle(w)
    BY <1>5 DEF PersistStage
  <2>a. (wk[w].retry \/ result = "transient") \in BOOLEAN
    OBVIOUS
  <2>b. ASSUME NEW b \in BOOLEAN, NEW todo \in SUBSET Stages
        PROVE  [wk[w] EXCEPT !.pc = "before", !.todo = todo, !.retry = b] \in WorkerState
    <3>1. wk[w] \in WorkerState
      BY DEF WorkersTyped
    <3> QED BY <1>0, <3>1, AfterPersist
  <2>c. wk[w].todo \ {s} \in SUBSET Stages
    BY <1>a
  <2>2. [wk[w] EXCEPT !.pc = "before", !.todo = wk[w].todo \ {s},
                      !.retry = wk[w].retry \/ result = "transient"] \in WorkerState
    BY <2>a, <2>b, <2>c, Zenon
  <2> QED BY <2>1, <2>2, GoIdleType DEF WorkersTyped
<1>6. CASE AfterStages(w)
  BY <1>0, <1>6, GotoType, GoFailType DEF AfterStages, PC
<1>7. CASE Advise(w)
  BY <1>0, <1>7, GotoType, GoIdleType DEF Advise, PC
<1>8. CASE PauseForReview(w)
  BY <1>0, <1>8, GotoType, GoIdleType, GoFailType, GoAuditType
  DEF PauseForReview, PC, Event
<1>9. CASE Settle(w)
  <2>1. CASE run[wk[w].run] # "cancel_requested" /\ Finish(wk[w].run) # "failed"
    <3>1. Finish(wk[w].run) \in Event
      BY <1>a, FinishType DEF Event
    <3>2. ASSUME NEW p \in {"boundary", "complete"}
          PROVE  [wk[w] EXCEPT !.pc = p, !.step = "canonicalize",
                               !.event = Finish(wk[w].run)] \in WorkerState
      <4>1. p \in PC /\ "canonicalize" \in FinStep
        BY DEF PC, FinStep
      <4> QED BY <1>0, <1>a, <1>b, <3>1, <4>1, AfterMove
    <3> QED BY <1>9, <2>1, <3>2 DEF Settle, WorkersTyped
  <2> QED BY <1>0, <1>9, <2>1, GotoType, GoFailType DEF Settle, PC
<1>10. CASE FinBoundary(w)
  BY <1>0, <1>a, <1>10, GotoType DEF FinBoundary, PC
<1>11. CASE FinDurable(w)
  <2>1. AfterStep[wk[w].step] \in FinStep
    BY <1>a DEF AfterStep, FinStep
  <2>2. ASSUME NEW p \in {"boundary", "complete"}, NEW t \in FinStep
        PROVE  [wk[w] EXCEPT !.pc = p, !.step = t] \in WorkerState
    <3>1. p \in PC
      BY DEF PC
    <3> QED BY <1>0, <1>a, <1>b, <3>1, AfterMove
  <2> QED BY <1>0, <1>11, <2>1, <2>2, GoFailType DEF FinDurable, WorkersTyped
<1>12. CASE FinStorageError(w)
  BY <1>0, <1>12, GoFailType DEF FinStorageError
<1>13. CASE Complete(w)
  BY <1>0, <1>a, <1>13, GotoType, GoIdleType, GoFailType, GoAuditType
  DEF Complete, PC
<1>14. CASE MarkPendingCancelled(w)
  BY <1>0, <1>14, GotoType DEF MarkPendingCancelled, PC
<1>15. CASE CompleteCancelled(w)
  BY <1>0, <1>15, GoIdleType, GoAuditType DEF CompleteCancelled, Event
<1>16. CASE Fail(w)
  BY <1>0, <1>16, GoIdleType, GoAuditType DEF Fail, Event
<1>17. ASSUME NEW appended \in BOOLEAN, Audit(w, appended) PROVE WorkersTyped'
  BY <1>17, GoIdleType DEF Audit
<1> QED BY <1>1, <1>2, <1>3, <1>4, <1>5, <1>6, <1>7, <1>8, <1>9, <1>10, <1>11, <1>12,
          <1>13, <1>14, <1>15, <1>16, <1>17 DEF Step

\* Each table keeps its type across a step of a worker's attempt.
LEMMA StepTablesType ==
  ASSUME TypeOK, NEW w \in Workers, Step(w), Concludes(w)
  PROVE  TypeOK'
<1>0. wk[w].pc # "idle"
  BY DEF Step, Load, BeforeStage, LoseLease, StartStage, PersistStage, AfterStages,
         Advise, PauseForReview, Settle, FinBoundary, FinDurable, FinStorageError,
         Complete, MarkPendingCancelled, CompleteCancelled, Fail, Audit
<1>1. WorkersTyped'
  BY StepWorkersType DEF TypeOK, WorkersTyped
<1>2. /\ wk[w].run \in Runs /\ wk[w].todo \in SUBSET Stages
      /\ wk[w].pc = "complete" => wk[w].event \in {"completed", "partial"}
      /\ wk[w].event \in Event
  BY <1>0, ActiveWorker DEF TypeOK, WorkersTyped, Concludes
<1>3. UNCHANGED <<attempts, gen, decision, supervised, faults>>
  BY DEF Step, Load, BeforeStage, LoseLease, StartStage, PersistStage, AfterStages,
         Advise, PauseForReview, Settle, FinBoundary, FinDurable, FinStorageError,
         Complete, MarkPendingCancelled, CompleteCancelled, Fail, Audit, UnchangedTables
<1>4. /\ run' \in [Runs -> RunStatus] /\ job' \in [Runs -> JobStatus]
      /\ live' \in [Runs -> BOOLEAN]
  <2>1. CASE UNCHANGED <<run, job, live>>
    BY <2>1 DEF TypeOK
  <2>2. CASE PauseForReview(w) \/ CompleteCancelled(w) \/ Fail(w)
    BY <2>2 DEF TypeOK, PauseForReview, CompleteCancelled, Fail, RunStatus, RunTerminal,
                JobStatus
  <2>3. CASE Complete(w)
    <3>1. /\ wk[w].event \in RunStatus /\ "completed" \in JobStatus
          /\ run \in [Runs -> RunStatus] /\ job \in [Runs -> JobStatus]
          /\ live \in [Runs -> BOOLEAN]
      BY <1>2, <2>3 DEF TypeOK, Complete, RunStatus, RunTerminal, JobStatus
    <3>2. /\ run' = run \/ run' = [run EXCEPT ![wk[w].run] = wk[w].event]
          /\ job' = job \/ job' = [job EXCEPT ![wk[w].run] = "completed"]
          /\ live' = live \/ live' = [live EXCEPT ![wk[w].run] = FALSE]
      BY <2>3 DEF Complete
    <3>3. run' \in [Runs -> RunStatus]
      BY <3>1, <3>2
    <3>4. job' \in [Runs -> JobStatus]
      BY <3>1, <3>2
    <3> QED BY <3>1, <3>2, <3>3, <3>4
  <2> QED BY <2>1, <2>2, <2>3
    DEF Step, Load, BeforeStage, LoseLease, StartStage, PersistStage, AfterStages, Advise,
        Settle, FinBoundary, FinDurable, FinStorageError, MarkPendingCancelled, Audit,
        UnchangedTables
<1>5. stage' \in [Runs -> [Stages -> StageStatus]]
  <2>1. CASE UNCHANGED stage
    BY <2>1 DEF TypeOK
  <2>0. ASSUME NEW s \in wk[w].todo, NEW v \in StageStatus,
               stage' = [stage EXCEPT ![wk[w].run][s] = v]
        PROVE  stage' \in [Runs -> [Stages -> StageStatus]]
    BY <1>2, <2>0 DEF TypeOK
  <2>2. CASE StartStage(w)
    BY <2>0, <2>1, <2>2 DEF StartStage, StageStatus
  <2>3. ASSUME NEW result \in {"ok", "transient", "fatal"}, PersistStage(w, result)
        PROVE  stage' \in [Runs -> [Stages -> StageStatus]]
    BY <2>0, <2>1, <2>3 DEF PersistStage, StageStatus
  <2>4. CASE MarkPendingCancelled(w)
    BY <1>2, <2>4 DEF TypeOK, MarkPendingCancelled, StageStatus
  <2> QED BY <2>1, <2>2, <2>3, <2>4
    DEF Step, Load, BeforeStage, LoseLease, AfterStages, Advise, PauseForReview, Settle,
        FinBoundary, FinDurable, FinStorageError, Complete, CompleteCancelled, Fail, Audit,
        UnchangedTables
<1>6. risk' \in [Runs -> SUBSET SUBSET Stages]
  <2>1. CASE UNCHANGED risk
    BY <2>1 DEF TypeOK
  <2>2. CASE AfterStages(w)
    <3>1. RiskRow(wk[w].run) \in SUBSET SUBSET Stages
      BY <1>2 DEF TypeOK, RiskRow, Done
    <3>2. risk' = [risk EXCEPT ![wk[w].run] = RiskRow(wk[w].run)]
          \/ UNCHANGED risk
      BY <2>2 DEF AfterStages
    <3>3. risk \in [Runs -> SUBSET SUBSET Stages]
      BY DEF TypeOK
    <3> QED BY <3>1, <3>2, <3>3
  <2> QED BY <2>1, <2>2
    DEF Step, Load, BeforeStage, LoseLease, StartStage, PersistStage, Advise,
        PauseForReview, Settle, FinBoundary, FinDurable, FinStorageError, Complete,
        MarkPendingCancelled, CompleteCancelled, Fail, Audit, UnchangedTables
<1>7. recs' \in [Runs -> SUBSET Stages]
  <2>1. CASE UNCHANGED recs
    BY <2>1 DEF TypeOK
  <2>2. CASE Advise(w)
    BY <2>2 DEF TypeOK, Advise, Done
  <2> QED BY <2>1, <2>2
    DEF Step, Load, BeforeStage, LoseLease, StartStage, PersistStage, AfterStages,
        PauseForReview, Settle, FinBoundary, FinDurable, FinStorageError, Complete,
        MarkPendingCancelled, CompleteCancelled, Fail, Audit, UnchangedTables
<1>8. fin' \in [Runs -> FinState]
  <2>1. CASE UNCHANGED fin
    BY <2>1 DEF TypeOK
  <2>2. CASE FinDurable(w)
    <3>1. FinAdvance(wk[w].run, wk[w].step) \in FinState
      BY <1>2 DEF TypeOK, FinAdvance, FinState
    <3> QED BY <2>2, <3>1 DEF TypeOK, FinDurable
  <2> QED BY <2>1, <2>2
    DEF Step, Load, BeforeStage, LoseLease, StartStage, PersistStage, AfterStages, Advise,
        PauseForReview, Settle, FinBoundary, FinStorageError, Complete,
        MarkPendingCancelled, CompleteCancelled, Fail, Audit, UnchangedTables
<1>9. trail' \in [Runs -> SUBSET Event]
  <2>1. CASE UNCHANGED trail
    BY <2>1 DEF TypeOK
  <2>2. ASSUME NEW appended \in BOOLEAN, Audit(w, appended)
        PROVE  trail' \in [Runs -> SUBSET Event]
    BY <1>2, <2>2 DEF TypeOK, Audit
  <2> QED BY <2>1, <2>2
    DEF Step, Load, BeforeStage, LoseLease, StartStage, PersistStage, AfterStages, Advise,
        PauseForReview, Settle, FinBoundary, FinDurable, FinStorageError, Complete,
        MarkPendingCancelled, CompleteCancelled, Fail, UnchangedTables
<1> QED BY <1>1, <1>3, <1>4, <1>5, <1>6, <1>7, <1>8, <1>9 DEF TypeOK, WorkersTyped

\* Everything else preserves the types of the variables.
LEMMA ElsewhereType == TypeOK /\ (Elsewhere \/ UNCHANGED vars) => TypeOK'
<1> SUFFICES ASSUME TypeOK, Elsewhere \/ UNCHANGED vars PROVE TypeOK'
  OBVIOUS
<1> USE DEF TypeOK
<1>1. ASSUME NEW r \in Runs, NEW sup \in BOOLEAN, CreateRun(r, sup) PROVE TypeOK'
  BY <1>1 DEF CreateRun, RunStatus, RunTerminal, JobStatus
<1>2. ASSUME NEW r \in Runs, Cancel(r) PROVE TypeOK'
  BY <1>2 DEF Cancel, RunStatus, RunTerminal, JobStatus
<1>3. ASSUME NEW r \in Runs, Decide(r) PROVE TypeOK'
  <2>1. run' \in [Runs -> RunStatus] /\ job' \in [Runs -> JobStatus]
    BY <1>3 DEF Decide, RunStatus, JobStatus
  <2>2. attempts' \in [Runs -> Nat]
    BY <1>3 DEF Decide
  <2>3. decision' \in [Runs -> SUBSET SUBSET Stages]
    <3>1. {Done(r)} \in SUBSET SUBSET Stages
      BY DEF Done
    <3> QED BY <1>3, <3>1 DEF Decide
  <2> QED BY <1>3, <2>1, <2>2, <2>3 DEF Decide
<1>4. ASSUME NEW r \in Runs, Expire(r) PROVE TypeOK'
  BY <1>4 DEF Expire
<1>10. ASSUME NEW r \in Runs, Overrun(r) PROVE TypeOK'
  BY <1>10, FaultCount DEF Overrun
<1>5. ASSUME NEW w \in Workers, NEW r \in Runs, Claim(w, r) PROVE TypeOK'
  <2>1. /\ run' \in [Runs -> RunStatus] /\ job' \in [Runs -> JobStatus]
    BY <1>5 DEF Claim, SweptRun, SweptJob, RunStatus, RunTerminal, JobStatus
  <2>2. /\ gen' \in [Runs -> Nat] /\ attempts' \in [Runs -> Nat]
        /\ live' \in [Runs -> BOOLEAN] /\ NextGeneration(r) \in Nat
    BY <1>5 DEF Claim, NextGeneration
  <2>3. wk' = [wk EXCEPT ![w] = [IdleWorker EXCEPT !.pc = "load", !.run = r,
                                                   !.gen = NextGeneration(r)]]
    BY <1>5 DEF Claim
  <2>4. [IdleWorker EXCEPT !.pc = "load", !.run = r, !.gen = NextGeneration(r)]
          \in WorkerState
    BY <2>2, IdleWorkerType DEF WorkerState, PC
  <2> QED BY <1>5, <2>1, <2>2, <2>3, <2>4 DEF Claim
<1>6. ASSUME NEW w \in Workers, Sweep(w) PROVE TypeOK'
  BY <1>6 DEF Sweep, SweptRun, SweptJob, RunStatus, RunTerminal, JobStatus
<1>8. ASSUME NEW w \in Workers, Raise(w) PROVE TypeOK'
  <2>1. WorkersTyped'
    BY <1>8, GoFailType DEF Raise, WorkersTyped
  <2> QED BY <1>8, <2>1, FaultCount DEF Raise, WorkersTyped
<1>11. ASSUME NEW w \in Workers, Crash(w) PROVE TypeOK'
  BY <1>11, FaultCount, IdleWorkerType DEF Crash, GoIdle
<1>9. CASE UNCHANGED vars
  BY <1>9 DEF vars
<1> QED BY <1>1, <1>2, <1>3, <1>4, <1>5, <1>6, <1>8, <1>9, <1>10, <1>11
     DEF Elsewhere, Take

\* Every step is one of an attempt or one of these.
LEMMA NextCases == Next <=> Elsewhere \/ \E w \in Workers : Step(w)
  BY DEF Next, Elsewhere

\* The steps that the following lemmas are about; a step of a graph-supervised run
\* that a standard one takes too is of this form as well.
Legal == Elsewhere \/ UNCHANGED vars \/ \E w \in Workers : Step(w) /\ Concludes(w)

LEMMA NextLegal == Heading /\ [Next]_vars => Legal
  BY NextCases DEF Legal, Heading, Heads, Concludes, Trusting

LEMMA LegalNext == Legal => [Next]_vars
  BY NextCases DEF Legal

LEMMA LegalType == TypeOK /\ Legal => TypeOK'
  BY ElsewhereType, StepTablesType DEF Legal

\* Only claim() writes an identity into a worker: all other steps of its own
\* keep its run and generation or make it idle, and leave other workers alone.
LEMMA KeepsIdentity ==
  ASSUME WorkersTyped, NEW w \in Workers, Step(w) \/ Raise(w) \/ Crash(w)
  PROVE  /\ gen' = gen
         /\ \A v \in Workers : v # w => wk'[v] = wk[v]
         /\ \/ wk'[w].pc = "idle" /\ wk'[w].run = NoRun
            \/ /\ wk'[w].pc # "idle"
               /\ wk'[w].run = wk[w].run /\ wk'[w].gen = wk[w].gen
               /\ wk[w].pc # "idle"
<1>1. gen' = gen
  BY DEF Step, Load, BeforeStage, LoseLease, StartStage, PersistStage, AfterStages,
         Advise, PauseForReview, Settle, FinBoundary, FinDurable, FinStorageError,
         Complete, MarkPendingCancelled, CompleteCancelled, Fail, Audit, UnchangedTables,
         Raise, Crash
<1>2. wk[w].pc # "idle"
  BY DEF Step, Load, BeforeStage, LoseLease, StartStage, PersistStage, AfterStages,
         Advise, PauseForReview, Settle, FinBoundary, FinDurable, FinStorageError,
         Complete, MarkPendingCancelled, CompleteCancelled, Fail, Audit, Raise, Crash
<1> DEFINE Same == /\ \A v \in Workers : v # w => wk'[v] = wk[v]
                   /\ \/ wk'[w].pc = "idle" /\ wk'[w].run = NoRun
                      \/ wk'[w].pc # "idle" /\ wk'[w].run = wk[w].run /\ wk'[w].gen = wk[w].gen
<1>s. SUFFICES Same
  BY <1>1, <1>2
<1>3. ASSUME NEW p \in PC \ {"idle"}, Goto(w, p) PROVE Same
  BY <1>3 DEF Goto, WorkersTyped, WorkerState
<1>4. ASSUME GoIdle(w) PROVE Same
  BY <1>4 DEF GoIdle, IdleWorker, WorkersTyped
<1>5. ASSUME NEW b, GoFail(w, b) PROVE Same
  BY <1>5 DEF GoFail, WorkersTyped, WorkerState
<1>6. ASSUME NEW e, GoAudit(w, e) PROVE Same
  BY <1>6 DEF GoAudit, WorkersTyped, WorkerState
<1> HIDE DEF Same
<1>7. CASE Load(w) \/ (\E result \in {"ok", "transient", "fatal"} : PersistStage(w, result))
  <2>1. ASSUME NEW p \in PC \ {"idle"}, NEW t,
               wk' = [wk EXCEPT ![w].pc = p, ![w].todo = t]
        PROVE  Same
    BY <2>1 DEF WorkersTyped, WorkerState, Same
  <2>2. ASSUME NEW p \in PC \ {"idle"}, NEW t, NEW b,
               wk' = [wk EXCEPT ![w].pc = p, ![w].todo = t, ![w].retry = b]
        PROVE  Same
    BY <2>2 DEF WorkersTyped, WorkerState, Same
  <2>3. CASE Load(w)
    BY <2>1, <2>3 DEF Load, PC
  <2>4. ASSUME NEW result \in {"ok", "transient", "fatal"}, PersistStage(w, result)
        PROVE  Same
    BY <1>4, <2>2, <2>4 DEF PersistStage, PC
  <2> QED BY <1>7, <2>3, <2>4
<1>8. CASE Settle(w)
  <2>1. ASSUME NEW p \in PC \ {"idle"}, NEW t, NEW e,
               wk' = [wk EXCEPT ![w].pc = p, ![w].step = t, ![w].event = e]
        PROVE  Same
    BY <2>1 DEF WorkersTyped, WorkerState, Same
  <2> QED BY <1>3, <1>5, <1>8, <2>1 DEF Settle, PC
<1>9. CASE FinDurable(w)
  <2>1. ASSUME NEW p \in PC \ {"idle"}, NEW t, wk' = [wk EXCEPT ![w].pc = p, ![w].step = t]
        PROVE  Same
    BY <2>1 DEF WorkersTyped, WorkerState, Same
  <2>2. PICK p \in {"complete", "boundary"} :
           GoFail(w, FALSE) \/ wk' = [wk EXCEPT ![w].pc = p, ![w].step = AfterStep[wk[w].step]]
    BY <1>9 DEF FinDurable
  <2> QED BY <1>5, <2>1, <2>2 DEF PC
<1>10. CASE \/ BeforeStage(w) \/ LoseLease(w) \/ StartStage(w) \/ AfterStages(w)
            \/ Advise(w) \/ FinBoundary(w) \/ FinStorageError(w) \/ MarkPendingCancelled(w)
  BY <1>3, <1>4, <1>5, <1>10
  DEF BeforeStage, LoseLease, StartStage, AfterStages, Advise, FinBoundary,
      FinStorageError, MarkPendingCancelled, PC
<1>11. CASE PauseForReview(w) \/ Complete(w) \/ CompleteCancelled(w) \/ Fail(w)
  BY <1>3, <1>4, <1>5, <1>6, <1>11 DEF PauseForReview, Complete, CompleteCancelled, Fail, PC
<1>12. CASE Raise(w) \/ Crash(w) \/ \E appended \in BOOLEAN : Audit(w, appended)
  BY <1>4, <1>5, <1>12 DEF Raise, Crash, Audit
<1> QED BY <1>7, <1>8, <1>9, <1>10, <1>11, <1>12 DEF Step

\* The verdict is chosen by Settle and carried to the end of the attempt.
LEMMA StepHeads ==
  ASSUME TypeOK, NEW w \in Workers, Step(w), Heads(w)
  PROVE  Heads(w)'
<1>0. WorkersTyped /\ wk \in [Workers -> WorkerState]
  BY DEF TypeOK, WorkersTyped
<1>1. ASSUME NEW p, Goto(w, p), p \notin Trusting \/ wk[w].pc \in Trusting PROVE Heads(w)'
  BY <1>0, <1>1 DEF Goto, WorkerState, Heads, Trusting
<1>2. ASSUME GoIdle(w) PROVE Heads(w)'
  BY <1>0, <1>2 DEF GoIdle, IdleWorker, Heads, Trusting
<1>3. ASSUME NEW b, GoFail(w, b) PROVE Heads(w)'
  BY <1>0, <1>3 DEF GoFail, WorkerState, Heads, Trusting
<1>4. ASSUME NEW e, GoAudit(w, e) PROVE Heads(w)'
  BY <1>0, <1>4 DEF GoAudit, WorkerState, Heads, Trusting
<1>5. CASE Load(w) \/ \E result \in {"ok", "transient", "fatal"} : PersistStage(w, result)
  <2>1. CASE Load(w)
    <3>1. wk'[w].pc = "before"
      BY <1>0, <2>1 DEF Load, WorkerState
    <3> QED BY <3>1 DEF Heads, Trusting
  <2>2. ASSUME NEW result \in {"ok", "transient", "fatal"}, PersistStage(w, result)
        PROVE  Heads(w)'
    <3>1. CASE Holds(w)
      <4>1. PICK t, b : wk' = [wk EXCEPT ![w].pc = "before", ![w].todo = t, ![w].retry = b]
        BY <2>2, <3>1 DEF PersistStage
      <4>2. wk'[w].pc = "before"
        BY <1>0, <4>1 DEF WorkerState
      <4> QED BY <4>2 DEF Heads, Trusting
    <3> QED BY <1>2, <2>2, <3>1 DEF PersistStage
  <2> QED BY <1>5, <2>1, <2>2
<1>6. CASE Settle(w)
  <2>1. CASE run[wk[w].run] # "cancel_requested" /\ Finish(wk[w].run) # "failed"
    <3>1. wk[w].run \in Runs
      BY <1>0, <1>6, ActiveWorker DEF Settle
    <3>2. Finish(wk[w].run) \in {"completed", "partial"}
      BY <2>1, <3>1, FinishType
    <3>3. PICK p : wk' = [wk EXCEPT ![w].pc = p, ![w].step = "canonicalize",
                                    ![w].event = Finish(wk[w].run)]
      BY <1>6, <2>1 DEF Settle
    <3>4. wk'[w].event = Finish(wk[w].run)
      BY <1>0, <3>3 DEF WorkerState
    <3> QED BY <3>2, <3>4 DEF Heads, Trusting
  <2> QED BY <1>1, <1>3, <1>6, <2>1 DEF Settle, Trusting
<1>7. CASE FinDurable(w)
  <2>1. CASE ~GoFail(w, FALSE)
    <3>1. wk[w].pc \in Trusting
      BY <1>7 DEF FinDurable, Trusting
    <3>2. PICK p, t : wk' = [wk EXCEPT ![w].pc = p, ![w].step = t]
      BY <1>7, <2>1 DEF FinDurable
    <3>3. wk'[w].event = wk[w].event
      BY <1>0, <3>2 DEF WorkerState
    <3> QED BY <3>1, <3>3 DEF Heads, Trusting
  <2> QED BY <1>3, <2>1
<1>8. CASE \/ BeforeStage(w) \/ LoseLease(w) \/ StartStage(w) \/ AfterStages(w)
           \/ Advise(w) \/ FinBoundary(w) \/ FinStorageError(w) \/ MarkPendingCancelled(w)
  BY <1>1, <1>2, <1>3, <1>8
  DEF BeforeStage, LoseLease, StartStage, AfterStages, Advise, FinBoundary,
      FinStorageError, MarkPendingCancelled, Trusting
<1>9. CASE \/ PauseForReview(w) \/ Complete(w) \/ CompleteCancelled(w) \/ Fail(w)
           \/ \E appended \in BOOLEAN : Audit(w, appended)
  BY <1>1, <1>2, <1>3, <1>4, <1>9
  DEF PauseForReview, Complete, CompleteCancelled, Fail, Audit, Trusting
<1> QED BY <1>5, <1>6, <1>7, <1>8, <1>9 DEF Step

LEMMA NextTyped == TypeOK /\ Heading /\ [Next]_vars => TypeOK' /\ Heading'
<1> SUFFICES ASSUME TypeOK, Heading, [Next]_vars PROVE TypeOK' /\ Heading'
  OBVIOUS
<1>1. TypeOK'
  BY NextLegal, LegalType
<1>2. ASSUME NEW u \in Workers, wk'[u] = wk[u] PROVE Heads(u)'
  BY <1>2 DEF Heading, Heads
<1>3. ASSUME NEW w \in Workers, Step(w) PROVE Heading'
  <2>1. \A u \in Workers : u # w => wk'[u] = wk[u]
    BY <1>3, KeepsIdentity DEF TypeOK, WorkersTyped
  <2> QED BY <1>2, <1>3, <2>1, StepHeads DEF Heading
<1>4. ASSUME NEW w \in Workers, Take(w) \/ Raise(w) \/ Crash(w) PROVE Heading'
  <2>1. \/ wk' = wk
        \/ /\ \A u \in Workers : u # w => wk'[u] = wk[u]
           /\ wk'[w].pc \in {"load", "fail", "idle"}
    <3>1. CASE Take(w)
      <4>1. ASSUME NEW r \in Runs, Claim(w, r)
            PROVE  /\ \A u \in Workers : u # w => wk'[u] = wk[u]
                   /\ wk'[w].pc = "load"
        BY <4>1 DEF Claim, IdleWorker, TypeOK
      <4>2. Sweep(w) => wk' = wk
        BY DEF Sweep
      <4> QED BY <3>1, <4>1, <4>2 DEF Take
    <3>2. CASE Raise(w)
      BY <3>2 DEF Raise, GoFail, TypeOK, WorkerState
    <3>3. CASE Crash(w)
      BY <3>3 DEF Crash, GoIdle, IdleWorker, TypeOK
    <3> QED BY <1>4, <3>1, <3>2, <3>3
  <2>2. ASSUME wk'[w].pc \in {"load", "fail", "idle"} PROVE Heads(w)'
    BY <2>2 DEF Heads, Trusting
  <2> QED BY <1>2, <2>1, <2>2 DEF Heading
<1>5. ASSUME wk' = wk PROVE Heading'
  BY <1>2, <1>5 DEF Heading
<1> QED BY <1>1, <1>3, <1>4, <1>5
  DEF Next, CreateRun, Cancel, Decide, Expire, Overrun, vars

LEMMA TypedHolds == Spec => [](TypeOK /\ Heading)
<1>1. Init => Heading
  BY DEF Init, IdleWorker, Heading, Heads, Trusting
<1> QED BY <1>1, InitType, NextTyped, PTL DEF Spec

\* The variables have their types.
THEOREM TypeCorrect == Spec => []TypeOK
  BY TypedHolds, PTL

(***************************************************************************)
(* The run and its queue item agree.  RunJobCoherent is inductive relative *)
(* to TypeOK: every transaction of a worker re-reads its lease, and a live *)
(* lease excludes the job states in which the run belongs to somebody else.*)
(***************************************************************************)
LEMMA JobsOfStatus ==
  /\ JobsOf["none"] = {"none"}
  /\ JobsOf["queued"] = {"queued", "retry_wait"}
  /\ JobsOf["running"] = {"running"}
  /\ JobsOf["cancel_requested"] = {"cancel_requested"}
  /\ JobsOf["awaiting_review"] = {"completed"}
  /\ JobsOf["completed"] = {"completed"}
  /\ JobsOf["partial"] = {"completed"}
  /\ JobsOf["failed"] = {"failed"}
  /\ JobsOf["cancelled"] = {"cancelled"}
  BY DEF JobsOf

\* RunJobCoherent for one run.
Coherent(r) == /\ job[r] \in JobsOf[run[r]]
               /\ live[r] => job[r] \in {"running", "cancel_requested"}

\* A run is in the state its job says, read from the job.
LEMMA RunOfJob ==
  ASSUME TypeOK, NEW r \in Runs, Coherent(r)
  PROVE  /\ job[r] = "running" <=> run[r] = "running"
         /\ job[r] = "cancel_requested" <=> run[r] = "cancel_requested"
         /\ job[r] \in {"queued", "retry_wait"} <=> run[r] = "queued"
         /\ job[r] = "none" <=> run[r] = "none"
         /\ run[r] = "awaiting_review" => job[r] = "completed"
         /\ live[r] => run[r] \in {"running", "cancel_requested"}
<1>1. run[r] \in {"none", "queued", "running", "cancel_requested", "awaiting_review",
                  "completed", "partial", "failed", "cancelled"}
  BY DEF TypeOK, RunStatus, RunTerminal
<1> QED BY <1>1, JobsOfStatus DEF Coherent

LEMMA CoherentSwept ==
  ASSUME TypeOK, NEW r \in Runs, Coherent(r)
  PROVE  /\ SweptJob[r] \in JobsOf[SweptRun[r]]
         /\ live[r] => SweptJob[r] \in {"running", "cancel_requested"}
  BY RunOfJob, JobsOfStatus DEF Coherent, SweptJob, SweptRun, Exhausted

\* Claiming a run and failing the exhausted ones keeps every run coherent.
LEMMA ClaimCoherent ==
  ASSUME TypeOK, RunJobCoherent, NEW w \in Workers, NEW r \in Runs, Claim(w, r)
  PROVE  RunJobCoherent'
<1> SUFFICES ASSUME NEW q \in Runs PROVE Coherent(q)'
  BY DEF RunJobCoherent, Coherent
<1>1. Coherent(q) /\ Coherent(r)
  BY DEF RunJobCoherent, Coherent
<1>2. CASE q # r
  <2>1. job'[q] = SweptJob[q] /\ run'[q] = SweptRun[q] /\ live'[q] = live[q]
    BY <1>2 DEF Claim, TypeOK, SweptJob, SweptRun
  <2> QED BY <1>1, <2>1, CoherentSwept DEF Coherent
<1>3. CASE q = r
  <2>1. /\ job'[q] = IF job[q] = "cancel_requested" THEN "cancel_requested" ELSE "running"
        /\ run'[q] = IF run[q] \in {"queued", "running", "failed"} THEN "running" ELSE run[q]
    BY <1>3 DEF Claim, TypeOK, SweptJob, SweptRun
  <2>2. job[q] \in {"queued", "retry_wait", "cancel_requested", "running"}
    BY <1>3 DEF Claim, Candidates
  <2> QED BY <1>1, <1>3, <2>1, <2>2, RunOfJob, JobsOfStatus DEF Coherent
<1> QED BY <1>2, <1>3

\* A worker that ends an attempt does it to both rows or to none.
LEMMA StepCoherent ==
  ASSUME TypeOK, RunJobCoherent, NEW w \in Workers, Step(w), Concludes(w)
  PROVE  RunJobCoherent'
<1>0. wk[w].pc # "idle" => wk[w].run \in Runs /\ wk[w].event \in Event
                           /\ (wk[w].pc = "complete" => wk[w].event \in {"completed", "partial"})
  BY ActiveWorker DEF TypeOK, WorkersTyped, Concludes
<1> DEFINE r == wk[w].run
<1>1. CASE UNCHANGED <<run, job, live>>
  BY <1>1 DEF RunJobCoherent
<1>2. ASSUME r \in Runs, NEW s \in RunStatus, NEW j \in JobStatus, j \in JobsOf[s],
             run' = [run EXCEPT ![r] = s], job' = [job EXCEPT ![r] = j],
             live' = [live EXCEPT ![r] = FALSE]
      PROVE  RunJobCoherent'
  BY <1>2 DEF RunJobCoherent, TypeOK
<1>3. CASE PauseForReview(w)
  BY <1>0, <1>1, <1>2, <1>3, JobsOfStatus
  DEF PauseForReview, RunStatus, RunTerminal, JobStatus
<1>4. CASE Complete(w)
  BY <1>0, <1>1, <1>2, <1>4, JobsOfStatus
  DEF Complete, RunStatus, RunTerminal, JobStatus
<1>5. CASE CompleteCancelled(w)
  BY <1>0, <1>1, <1>2, <1>5, JobsOfStatus
  DEF CompleteCancelled, RunStatus, RunTerminal, JobStatus
<1>6. CASE Fail(w)
  BY <1>0, <1>1, <1>2, <1>6, JobsOfStatus
  DEF Fail, RunStatus, RunTerminal, JobStatus
<1> QED BY <1>1, <1>3, <1>4, <1>5, <1>6
  DEF Step, Load, BeforeStage, LoseLease, StartStage, PersistStage, AfterStages, Advise,
      Settle, FinBoundary, FinDurable, FinStorageError, MarkPendingCancelled, Audit,
      UnchangedTables

LEMMA ElsewhereCoherent ==
  TypeOK /\ RunJobCoherent /\ (Elsewhere \/ UNCHANGED vars) => RunJobCoherent'
<1> SUFFICES ASSUME TypeOK, RunJobCoherent, Elsewhere \/ UNCHANGED vars
             PROVE  RunJobCoherent'
  OBVIOUS
<1>0. \A r \in Runs : Coherent(r)
  BY DEF RunJobCoherent, Coherent
<1>1. ASSUME NEW r \in Runs, NEW sup \in BOOLEAN, CreateRun(r, sup) PROVE RunJobCoherent'
  BY <1>0, <1>1, RunOfJob, JobsOfStatus DEF CreateRun, RunJobCoherent, TypeOK
<1>2. ASSUME NEW r \in Runs, Cancel(r) PROVE RunJobCoherent'
  BY <1>0, <1>2, RunOfJob, JobsOfStatus DEF Cancel, RunJobCoherent, TypeOK
<1>3. ASSUME NEW r \in Runs, Decide(r) PROVE RunJobCoherent'
  BY <1>0, <1>3, RunOfJob, JobsOfStatus DEF Decide, RunJobCoherent, TypeOK
<1>4. ASSUME NEW r \in Runs, Expire(r) \/ Overrun(r) PROVE RunJobCoherent'
  BY <1>4 DEF Expire, Overrun, RunJobCoherent, TypeOK
<1>5. ASSUME NEW w \in Workers, NEW r \in Runs, Claim(w, r) PROVE RunJobCoherent'
  BY <1>5, ClaimCoherent
<1>6. ASSUME NEW w \in Workers, Sweep(w) PROVE RunJobCoherent'
  BY <1>0, <1>6, CoherentSwept DEF Sweep, RunJobCoherent
<1>8. ASSUME NEW w \in Workers, Raise(w) \/ Crash(w) PROVE RunJobCoherent'
  BY <1>8 DEF Raise, Crash, RunJobCoherent
<1>9. CASE UNCHANGED vars
  BY <1>9 DEF vars, RunJobCoherent
<1> QED BY <1>1, <1>2, <1>3, <1>4, <1>5, <1>6, <1>8, <1>9 DEF Elsewhere, Take

LEMMA LegalCoherent == TypeOK /\ RunJobCoherent /\ Legal => RunJobCoherent'
  BY ElsewhereCoherent, StepCoherent DEF Legal

\* The run and its job never disagree, and no lease outlives its execution.
THEOREM RunsAndJobsAgree == Spec => []RunJobCoherent
<1>1. Init => RunJobCoherent
  BY JobsOfStatus DEF Init, RunJobCoherent
<1> QED BY <1>1, TypedHolds, NextLegal, LegalCoherent, PTL DEF Spec

(***************************************************************************)
(* Fencing.  A worker's generation never exceeds its run's, so the next    *)
(* claim of the run is given a generation nobody has: generations identify *)
(* attempts.                                                               *)
(***************************************************************************)
Fenced ==
    /\ \A w \in Workers : wk[w].pc = "idle" => wk[w].run = NoRun
    /\ \A w \in Workers : wk[w].pc # "idle" => wk[w].gen <= gen[wk[w].run]
    /\ LeaseExclusive

\* A worker that keeps its identity or becomes idle keeps the leases fenced.
LEMMA FencedKept ==
  ASSUME TypeOK, Fenced, NEW w \in Workers, gen' = gen,
         \A v \in Workers : v # w => wk'[v] = wk[v],
         \/ wk'[w].pc = "idle" /\ wk'[w].run = NoRun
         \/ /\ wk'[w].pc # "idle" /\ wk[w].pc # "idle"
            /\ wk'[w].run = wk[w].run /\ wk'[w].gen = wk[w].gen
  PROVE  Fenced'
<1>1. \A v \in Workers : wk'[v].pc = "idle" => wk'[v].run = NoRun
  BY DEF Fenced
<1>2. \A v \in Workers : wk'[v].pc # "idle" => wk'[v].gen <= gen'[wk'[v].run]
  BY DEF Fenced
<1>3. \A v \in Workers : wk'[v].pc # "idle" =>
          wk'[v].run \in Runs /\ wk[v].pc # "idle"
          /\ wk'[v].run = wk[v].run /\ wk'[v].gen = wk[v].gen
  BY DEF TypeOK, WorkerState
<1>4. ASSUME NEW u \in Workers, NEW v \in Workers,
             u # v, wk'[u].pc # "idle", wk'[u].run = wk'[v].run
      PROVE  wk'[u].gen # wk'[v].gen
  <2>1. wk'[v].pc # "idle"
    <3>1. wk'[u].run \in Runs
      BY <1>3, <1>4
    <3> QED BY <1>1, <1>4, <3>1, RunsAssumption
  <2> QED BY <1>3, <1>4, <2>1 DEF Fenced, LeaseExclusive
<1> QED BY <1>1, <1>2, <1>4 DEF Fenced, LeaseExclusive

LEMMA NextFenced == TypeOK /\ Fenced /\ [Next]_vars => Fenced'
<1> SUFFICES ASSUME TypeOK, Fenced, [Next]_vars PROVE Fenced'
  OBVIOUS
<1>1. ASSUME UNCHANGED <<gen, wk>> PROVE Fenced'
  BY <1>1 DEF Fenced, LeaseExclusive
<1>2. ASSUME NEW w \in Workers, NEW r \in Runs, Claim(w, r) PROVE Fenced'
  <2>1. /\ gen' = [gen EXCEPT ![r] = gen[r] + 1]
        /\ \A v \in Workers : v # w => wk'[v] = wk[v]
        /\ wk'[w].run = r /\ wk'[w].gen = gen[r] + 1 /\ wk'[w].pc # "idle"
    BY <1>2 DEF Claim, NextGeneration, TypeOK, IdleWorker
  <2>2. gen \in [Runs -> Nat] /\ \A v \in Workers : wk[v].gen \in Nat
    BY DEF TypeOK, WorkerState
  <2>3. \A v \in Workers : wk'[v].pc # "idle" => wk'[v].gen <= gen'[wk'[v].run]
    <3> SUFFICES ASSUME NEW v \in Workers, wk'[v].pc # "idle"
                 PROVE  wk'[v].gen <= gen'[wk'[v].run]
      OBVIOUS
    <3>1. CASE v = w
      BY <2>1, <2>2, <3>1
    <3>2. CASE v # w
      <4>1. wk[v].run \in Runs
        BY <2>1, <3>2 DEF TypeOK, WorkerState
      <4>2. wk[v].gen <= gen[wk[v].run]
        BY <2>1, <3>2 DEF Fenced
      <4> QED BY <2>1, <2>2, <3>2, <4>1, <4>2
    <3> QED BY <3>1, <3>2
  <2>4. ASSUME NEW u \in Workers, NEW v \in Workers,
               u # v, wk'[u].pc # "idle", wk'[u].run = wk'[v].run
        PROVE  wk'[u].gen # wk'[v].gen
    <3>1. CASE u # w /\ v # w
      BY <2>1, <2>4, <3>1 DEF Fenced, LeaseExclusive
    <3>2. CASE u # w /\ v = w
      <4>1. wk[u].gen <= gen[r]
        BY <2>1, <2>4, <3>2 DEF Fenced
      <4> QED BY <2>1, <2>2, <3>2, <4>1
    <3>3. CASE u = w /\ v # w
      <4>1. wk[v].run = r
        BY <2>1, <2>4, <3>3
      <4>2. wk[v].pc # "idle"
        BY <4>1 DEF Fenced
      <4>3. wk[v].gen <= gen[r]
        BY <4>1, <4>2 DEF Fenced
      <4> QED BY <2>1, <2>2, <3>3, <4>3
    <3> QED BY <2>4, <3>1, <3>2, <3>3
  <2>5. \A v \in Workers : wk'[v].pc = "idle" => wk'[v].run = NoRun
    BY <2>1 DEF Fenced
  <2> QED BY <2>3, <2>4, <2>5 DEF Fenced, LeaseExclusive
<1>3. ASSUME NEW w \in Workers, Step(w) \/ Raise(w) \/ Crash(w) PROVE Fenced'
  <2>1. /\ gen' = gen
        /\ \A v \in Workers : v # w => wk'[v] = wk[v]
        /\ \/ wk'[w].pc = "idle" /\ wk'[w].run = NoRun
           \/ /\ wk'[w].pc # "idle" /\ wk[w].pc # "idle"
              /\ wk'[w].run = wk[w].run /\ wk'[w].gen = wk[w].gen
    BY <1>3, KeepsIdentity DEF TypeOK, WorkersTyped
  <2> QED BY <2>1, FencedKept
<1> QED BY <1>1, <1>2, <1>3
  DEF Next, Take, Sweep, CreateRun, Cancel, Decide, Expire, Overrun, vars

\* Two workers that both believe they execute a run never share a generation.
THEOREM LeasesFence == Spec => []LeaseExclusive
<1>1. Init => Fenced
  BY DEF Init, Fenced, LeaseExclusive, IdleWorker
<1>2. Fenced => LeaseExclusive
  BY DEF Fenced
<1> QED BY <1>1, <1>2, TypeCorrect, NextFenced, PTL DEF Spec

(***************************************************************************)
(* Committed stage results are never reopened.  A worker under the current *)
(* generation has only unfinished stages left to do: it read them after    *)
(* its claim, and since then nobody else can have written.                 *)
(***************************************************************************)
Executing == {"before", "start", "evaluate"}

NothingDoneAgain ==
    \A w \in Workers :
        wk[w].pc \in Executing /\ wk[w].gen = gen[wk[w].run]
            => \A s \in wk[w].todo : stage[wk[w].run][s] # "completed"

\* A worker's step leaves the stages alone, or writes one it has left to do
\* under a lease that holds, or cancels pending ones.
LEMMA StageEffect ==
  ASSUME TypeOK, NEW w \in Workers, Step(w) \/ Raise(w) \/ Crash(w)
  PROVE  \/ /\ stage' = stage
            /\ wk'[w].pc \in Executing =>
                 \/ wk'[w].todo = Stages \ Done(wk[w].run)
                 \/ wk[w].pc \in Executing /\ wk'[w].todo = wk[w].todo
         \/ /\ Holds(w) /\ wk[w].pc \in Executing
            /\ \E s \in wk[w].todo, v \in StageStatus :
                 /\ stage' = [stage EXCEPT ![wk[w].run][s] = v]
                 /\ wk'[w].todo \subseteq wk[w].todo
                 /\ v = "completed" => s \notin wk'[w].todo
         \/ /\ wk'[w].pc \notin Executing
            /\ stage' = [stage EXCEPT ![wk[w].run] =
                            [s \in Stages |-> IF stage[wk[w].run][s] = "pending"
                                              THEN "cancelled" ELSE stage[wk[w].run][s]]]
<1> DEFINE Quiet == /\ stage' = stage
                    /\ wk'[w].pc \in Executing =>
                         \/ wk'[w].todo = Stages \ Done(wk[w].run)
                         \/ wk[w].pc \in Executing /\ wk'[w].todo = wk[w].todo
           Write == /\ Holds(w) /\ wk[w].pc \in Executing
                    /\ \E s \in wk[w].todo, v \in StageStatus :
                         /\ stage' = [stage EXCEPT ![wk[w].run][s] = v]
                         /\ wk'[w].todo \subseteq wk[w].todo
                         /\ v = "completed" => s \notin wk'[w].todo
           Mark  == /\ wk'[w].pc \notin Executing
                    /\ stage' = [stage EXCEPT ![wk[w].run] =
                            [s \in Stages |-> IF stage[wk[w].run][s] = "pending"
                                              THEN "cancelled" ELSE stage[wk[w].run][s]]]
<1>0. wk \in [Workers -> WorkerState]
  BY DEF TypeOK
<1>1. ASSUME stage' = stage, NEW p \in PC \ Executing, Goto(w, p) PROVE Quiet
  BY <1>0, <1>1 DEF Goto, WorkerState
<1>2. ASSUME stage' = stage, NEW p \in PC, Goto(w, p), wk[w].pc \in Executing PROVE Quiet
  BY <1>0, <1>2 DEF Goto, WorkerState
<1>3. ASSUME stage' = stage, GoIdle(w) PROVE Quiet
  BY <1>0, <1>3 DEF GoIdle, IdleWorker, Executing
<1>4. ASSUME stage' = stage, NEW b, GoFail(w, b) PROVE Quiet
  BY <1>0, <1>4 DEF GoFail, WorkerState, Executing
<1>5. ASSUME stage' = stage, NEW e, GoAudit(w, e) PROVE Quiet
  BY <1>0, <1>5 DEF GoAudit, WorkerState, Executing
<1> HIDE DEF Quiet, Write, Mark
<1>s. SUFFICES Quiet \/ Write \/ Mark
  BY DEF Quiet, Write, Mark
<1>6. CASE Load(w)
  <2>1. stage' = stage /\ wk'[w].todo = Stages \ Done(wk[w].run)
    BY <1>0, <1>6 DEF Load, UnchangedTables, WorkerState
  <2> QED BY <2>1 DEF Quiet
<1>7. CASE StartStage(w)
  <2>1. CASE ~Holds(w)
    BY <1>3, <1>7, <2>1 DEF StartStage
  <2>2. CASE Holds(w)
    <3>1. PICK s \in wk[w].todo : stage' = [stage EXCEPT ![wk[w].run][s] = "running"]
      BY <1>7, <2>2 DEF StartStage
    <3>2. wk'[w].todo = wk[w].todo /\ wk[w].pc \in Executing
      BY <1>0, <1>7, <2>2 DEF StartStage, Goto, WorkerState, Executing
    <3> QED BY <2>2, <3>1, <3>2 DEF Write, StageStatus
  <2> QED BY <2>1, <2>2
<1>8. ASSUME NEW result \in {"ok", "transient", "fatal"}, PersistStage(w, result)
      PROVE  Quiet \/ Write \/ Mark
  <2>1. CASE ~Holds(w)
    BY <1>3, <1>8, <2>1 DEF PersistStage
  <2>2. CASE Holds(w)
    <3>1. PICK s \in wk[w].todo :
            /\ stage' = [stage EXCEPT ![wk[w].run][s] =
                            IF result = "ok" THEN "completed" ELSE "failed"]
            /\ wk' = [wk EXCEPT ![w].pc = "before", ![w].todo = wk[w].todo \ {s},
                                ![w].retry = wk[w].retry \/ result = "transient"]
      BY <1>8, <2>2 DEF PersistStage
    <3>2. wk'[w].todo = wk[w].todo \ {s}
      BY <1>0, <3>1 DEF WorkerState
    <3>3. wk[w].pc \in Executing
      BY <1>8 DEF PersistStage, Executing
    <3> QED BY <2>2, <3>1, <3>2, <3>3 DEF Write, StageStatus
  <2> QED BY <2>1, <2>2
<1>9. CASE MarkPendingCancelled(w)
  <2>1. wk'[w].pc \notin Executing
    BY <1>0, <1>9 DEF MarkPendingCancelled, Goto, WorkerState, Executing
  <2> QED BY <1>9, <2>1 DEF MarkPendingCancelled, Mark
<1>10. CASE Settle(w)
  <2>1. CASE run[wk[w].run] # "cancel_requested" /\ Finish(wk[w].run) # "failed"
    <3>1. ASSUME NEW p \in PC \ Executing, NEW t, NEW e,
                 wk' = [wk EXCEPT ![w].pc = p, ![w].step = t, ![w].event = e]
          PROVE  wk'[w].pc \notin Executing
      BY <1>0, <3>1 DEF WorkerState
    <3>2. wk'[w].pc \notin Executing /\ stage' = stage
      <4>1. stage' = stage
        BY <1>10 DEF Settle, UnchangedTables
      <4>2. (IF supervised[wk[w].run] THEN "boundary" ELSE "complete") \in PC \ Executing
        BY DEF PC, Executing
      <4> QED BY <1>10, <2>1, <3>1, <4>1, <4>2 DEF Settle
    <3> QED BY <3>2 DEF Quiet
  <2> QED BY <1>1, <1>4, <1>10, <2>1 DEF Settle, UnchangedTables, PC, Executing
<1>11. CASE FinDurable(w)
  <2>1. CASE GoFail(w, FALSE)
    BY <1>4, <1>11, <2>1 DEF FinDurable
  <2>2. CASE ~GoFail(w, FALSE)
    <3>1. ASSUME NEW p \in PC \ Executing, NEW t,
                 wk' = [wk EXCEPT ![w].pc = p, ![w].step = t]
          PROVE  wk'[w].pc \notin Executing
      BY <1>0, <3>1 DEF WorkerState
    <3>2. wk'[w].pc \notin Executing /\ stage' = stage
      BY <1>11, <2>2, <3>1 DEF FinDurable, PC, Executing
    <3> QED BY <3>2 DEF Quiet
  <2> QED BY <2>1, <2>2
<1>12. CASE BeforeStage(w) \/ AfterStages(w)
  BY <1>2, <1>4, <1>12
  DEF BeforeStage, AfterStages, UnchangedTables, PC, Executing
<1>13. CASE LoseLease(w) \/ Advise(w) \/ FinBoundary(w) \/ FinStorageError(w)
  BY <1>1, <1>3, <1>4, <1>13
  DEF LoseLease, Advise, FinBoundary, FinStorageError, UnchangedTables, PC, Executing
<1>14. CASE PauseForReview(w) \/ Complete(w) \/ CompleteCancelled(w) \/ Fail(w)
  BY <1>1, <1>3, <1>4, <1>5, <1>14
  DEF PauseForReview, Complete, CompleteCancelled, Fail, PC, Executing
<1>15. CASE Raise(w) \/ Crash(w) \/ \E appended \in BOOLEAN : Audit(w, appended)
  BY <1>3, <1>4, <1>15 DEF Raise, Crash, Audit
<1> QED BY <1>6, <1>7, <1>8, <1>9, <1>10, <1>11, <1>12, <1>13, <1>14, <1>15 DEF Step

\* No step reopens a completed stage.
LEMMA DoneKept ==
  TypeOK /\ NothingDoneAgain /\ [Next]_vars => \A r \in Runs : Done(r) \subseteq Done(r)'
<1> SUFFICES ASSUME TypeOK, NothingDoneAgain, [Next]_vars, NEW r \in Runs
             PROVE  Done(r) \subseteq Done(r)'
  OBVIOUS
<1>1. CASE stage' = stage
  BY <1>1 DEF Done
<1>2. ASSUME NEW w \in Workers, Step(w) \/ Raise(w) \/ Crash(w)
      PROVE  Done(r) \subseteq Done(r)'
  <2>1. CASE \E s \in wk[w].todo, v \in StageStatus :
               /\ Holds(w) /\ wk[w].pc \in Executing
               /\ stage' = [stage EXCEPT ![wk[w].run][s] = v]
    <3>1. PICK s \in wk[w].todo, v \in StageStatus :
               stage' = [stage EXCEPT ![wk[w].run][s] = v]
      BY <2>1
    <3>2. stage[wk[w].run][s] # "completed"
      BY <2>1 DEF NothingDoneAgain, Holds
    <3> QED BY <3>1, <3>2 DEF Done, TypeOK
  <2>2. CASE stage' = [stage EXCEPT ![wk[w].run] =
                         [s \in Stages |-> IF stage[wk[w].run][s] = "pending"
                                           THEN "cancelled" ELSE stage[wk[w].run][s]]]
    BY <2>2 DEF Done, TypeOK
  <2> QED BY <1>1, <1>2, <2>1, <2>2, StageEffect
<1> QED BY <1>1, <1>2
  DEF Next, Take, Sweep, Claim, CreateRun, Cancel, Decide, Expire, Overrun, vars

LEMMA NextNothingDoneAgain ==
  TypeOK /\ Fenced /\ NothingDoneAgain /\ [Next]_vars => NothingDoneAgain'
<1> SUFFICES ASSUME TypeOK, Fenced, NothingDoneAgain, [Next]_vars,
                    NEW v \in Workers,
                    wk'[v].pc \in Executing, wk'[v].gen = gen'[wk'[v].run],
                    NEW s \in wk'[v].todo
             PROVE  stage'[wk'[v].run][s] # "completed"
  BY DEF NothingDoneAgain
<1>1. CASE UNCHANGED <<stage, gen, wk>>
  BY <1>1 DEF NothingDoneAgain
<1>2. ASSUME NEW w \in Workers, NEW r \in Runs, Claim(w, r)
      PROVE  stage'[wk'[v].run][s] # "completed"
  <2>1. v # w
    BY <1>2 DEF Claim, TypeOK, IdleWorker, Executing
  <2>2. wk'[v] = wk[v] /\ stage' = stage /\ gen' = [gen EXCEPT ![r] = gen[r] + 1]
    BY <1>2, <2>1 DEF Claim, NextGeneration, TypeOK
  <2>3. wk[v].run \in Runs /\ wk[v].gen <= gen[wk[v].run] /\ wk[v].gen \in Nat
    BY <2>2 DEF Fenced, TypeOK, WorkerState, Executing
  <2>4. wk[v].gen = gen[wk[v].run]
    BY <2>2, <2>3 DEF TypeOK
  <2> QED BY <2>2, <2>4 DEF NothingDoneAgain
<1>3. ASSUME NEW w \in Workers, Step(w) \/ Raise(w) \/ Crash(w)
      PROVE  stage'[wk'[v].run][s] # "completed"
  <2>1. /\ gen' = gen
        /\ \A u \in Workers : u # w => wk'[u] = wk[u]
        /\ \/ wk'[w].pc = "idle" /\ wk'[w].run = NoRun
           \/ /\ wk'[w].pc # "idle" /\ wk[w].pc # "idle"
              /\ wk'[w].run = wk[w].run /\ wk'[w].gen = wk[w].gen
    BY <1>3, KeepsIdentity DEF TypeOK, WorkersTyped
  <2>a. wk[v].run \in Runs /\ wk[v].pc # "idle" /\ wk'[v].run = wk[v].run
        /\ wk'[v].gen = wk[v].gen /\ wk[v].gen = gen[wk[v].run]
    BY <2>1 DEF TypeOK, WorkerState, Executing
  <2>2. CASE /\ stage' = stage
             /\ wk'[w].pc \in Executing =>
                 \/ wk'[w].todo = Stages \ Done(wk[w].run)
                 \/ wk[w].pc \in Executing /\ wk'[w].todo = wk[w].todo
    BY <2>1, <2>a, <2>2 DEF NothingDoneAgain, Done
  <2>3. CASE /\ Holds(w) /\ wk[w].pc \in Executing
             /\ \E t \in wk[w].todo, x \in StageStatus :
                 /\ stage' = [stage EXCEPT ![wk[w].run][t] = x]
                 /\ wk'[w].todo \subseteq wk[w].todo
                 /\ x = "completed" => t \notin wk'[w].todo
    <3>1. PICK t \in wk[w].todo, x \in StageStatus :
                 /\ stage' = [stage EXCEPT ![wk[w].run][t] = x]
                 /\ wk'[w].todo \subseteq wk[w].todo
                 /\ x = "completed" => t \notin wk'[w].todo
      BY <2>3
    <3>2. gen[wk[w].run] = wk[w].gen
      BY <2>3 DEF Holds
    <3>3. CASE v = w
      <4>1. stage[wk[v].run][s] # "completed"
        BY <2>3, <2>a, <3>1, <3>3 DEF NothingDoneAgain
      <4> QED BY <2>a, <3>1, <3>3, <4>1 DEF TypeOK
    <3>4. CASE v # w
      <4>1. wk[v].run # wk[w].run
        BY <2>a, <3>2, <3>4 DEF Fenced, LeaseExclusive
      <4>2. stage'[wk[v].run] = stage[wk[v].run]
        BY <2>a, <3>1, <4>1 DEF TypeOK
      <4> QED BY <2>1, <2>a, <3>4, <4>2 DEF NothingDoneAgain
    <3> QED BY <3>3, <3>4
  <2>4. CASE /\ wk'[w].pc \notin Executing
             /\ stage' = [stage EXCEPT ![wk[w].run] =
                            [t \in Stages |-> IF stage[wk[w].run][t] = "pending"
                                              THEN "cancelled" ELSE stage[wk[w].run][t]]]
    <3>1. v # w /\ wk'[v] = wk[v]
      BY <2>1, <2>4
    <3>2. stage[wk[v].run][s] # "completed" /\ s \in Stages
      BY <2>a, <3>1 DEF NothingDoneAgain, TypeOK, WorkerState
    <3> QED BY <2>a, <2>4, <3>2 DEF TypeOK
  <2> QED BY <1>3, <2>2, <2>3, <2>4, StageEffect
<1> QED BY <1>1, <1>2, <1>3
  DEF Next, Take, Sweep, CreateRun, Cancel, Decide, Expire, Overrun, vars

\* A stage's committed results are never reopened or overwritten.
THEOREM ResultsAreStable == Spec => CompletedStageStable
<1> DEFINE Inv == TypeOK /\ Fenced /\ NothingDoneAgain
<1>1. Init => NothingDoneAgain /\ Fenced
  BY DEF Init, NothingDoneAgain, Fenced, LeaseExclusive, IdleWorker, Executing
<1>2. NothingDoneAgain /\ TypeOK /\ [Next]_vars
        => [\A r \in Runs : Done(r) \subseteq Done(r)']_vars
  BY DoneKept
<1> QED BY <1>1, <1>2, TypeCorrect, NextFenced, NextNothingDoneAgain, PTL
     DEF Spec, CompletedStageStable

(***************************************************************************)
(* Every step of the queue and its workers is, for each run, a transition  *)
(* of RunLifecycle or leaves it where it is.  Needed on top of             *)
(* RunJobCoherent: a worker that pauses or finalizes has a supervised run, *)
(* and the finalization has met a decision before it records anything.     *)
(***************************************************************************)
ReviewOrder ==
    \A w \in Workers :
        /\ wk[w].pc # "idle" => run[wk[w].run] # "none"
        /\ wk[w].pc \in {"pause", "boundary", "durable"} => supervised[wk[w].run]
        /\ wk[w].pc \in {"mark", "cancel"} =>
              run[wk[w].run] \in {"cancel_requested", "cancelled"}
        /\ wk[w].pc \in {"boundary", "durable"} /\ wk[w].step # "canonicalize"
              => decision[wk[w].run] # {}

\* The abstract transitions, read in the variables of the implementation.
KeepsReview(r) == decision'[r] = decision[r] /\ fin'[r] = fin[r]
KeepsAll(r)    == supervised'[r] = supervised[r] /\ KeepsReview(r)

LEMMA LifeTransitions ==
  ASSUME NEW r \in Runs
  PROVE  /\ KeepsAll(r) /\ run'[r] = run[r] => Life!Rest(r)
         /\ KeepsReview(r) /\ run[r] = "none" /\ run'[r] = "queued" => Life!Request(r)
         /\ KeepsAll(r) /\ run[r] = "queued" /\ run'[r] = "running" => Life!Begin(r)
         /\ KeepsAll(r) /\ run[r] = "running" /\ run'[r] = "queued" => Life!Requeue(r)
         /\ KeepsAll(r) /\ run[r] = "running" /\ run'[r] = "failed" => Life!Fail(r)
         /\ KeepsAll(r) /\ run[r] = "cancel_requested" /\ run'[r] = "cancelled"
              => Life!Cancelled(r)
         /\ KeepsAll(r) /\ run[r] \in {"queued", "running", "awaiting_review"}
              /\ run'[r] = "cancel_requested" => Life!RequestCancel(r)
         /\ KeepsAll(r) /\ supervised[r] /\ decision[r] = {}
              /\ run[r] = "running" /\ run'[r] = "awaiting_review" => Life!Pause(r)
         /\ KeepsAll(r) /\ (supervised[r] => decision[r] # {} /\ fin[r] = "verified")
              /\ run[r] = "running" /\ run'[r] \in {"completed", "partial"}
              => Life!Complete(r)
<1> USE DEF KeepsAll, KeepsReview, Life!Move, Life!Keep, Life!KeepReview
<1>1. KeepsAll(r) /\ run'[r] = run[r] => Life!Rest(r)
  BY DEF Life!Rest
<1>2. KeepsReview(r) /\ run[r] = "none" /\ run'[r] = "queued" => Life!Request(r)
  BY DEF Life!Request
<1>3. /\ KeepsAll(r) /\ run[r] = "queued" /\ run'[r] = "running" => Life!Begin(r)
      /\ KeepsAll(r) /\ run[r] = "running" /\ run'[r] = "queued" => Life!Requeue(r)
      /\ KeepsAll(r) /\ run[r] = "running" /\ run'[r] = "failed" => Life!Fail(r)
  BY DEF Life!Begin, Life!Requeue, Life!Fail
<1>4. /\ KeepsAll(r) /\ run[r] = "cancel_requested" /\ run'[r] = "cancelled"
           => Life!Cancelled(r)
      /\ KeepsAll(r) /\ run[r] \in {"queued", "running", "awaiting_review"}
           /\ run'[r] = "cancel_requested" => Life!RequestCancel(r)
  BY DEF Life!Cancelled, Life!RequestCancel
<1>5. KeepsAll(r) /\ supervised[r] /\ decision[r] = {}
        /\ run[r] = "running" /\ run'[r] = "awaiting_review" => Life!Pause(r)
  BY DEF Life!Pause
<1>6. KeepsAll(r) /\ (supervised[r] => decision[r] # {} /\ fin[r] = "verified")
        /\ run[r] = "running" /\ run'[r] \in {"completed", "partial"} => Life!Complete(r)
  BY DEF Life!Complete
<1> QED BY <1>1, <1>2, <1>3, <1>4, <1>5, <1>6

LEMMA LifeDecide ==
  ASSUME NEW r \in Runs, run[r] = "awaiting_review", run'[r] = "queued",
         decision[r] = {}, decision'[r] # {}, fin'[r] = fin[r],
         supervised'[r] = supervised[r]
  PROVE  Life!Decide(r)
  BY DEF Life!Decide, Life!Move

LEMMA LifeTrust ==
  ASSUME NEW r \in Runs, run'[r] = run[r], supervised[r], supervised'[r] = supervised[r],
         decision[r] # {}, decision'[r] = decision[r], fin'[r] = "verified"
  PROVE  Life!Trust(r)
  BY DEF Life!Trust

\* The finalization alone distinguishes verified from the earlier states.
LEMMA LifeRestFin ==
  ASSUME NEW r \in Runs, run'[r] = run[r], supervised'[r] = supervised[r],
         decision'[r] = decision[r], fin[r] = "verified" <=> fin'[r] = "verified"
  PROVE  Life!Rest(r)
  BY DEF Life!Rest, Life!Keep, Life!KeepReview

Reviewing == {"pause", "boundary", "durable"}

\* A worker reaches review or finalization only with a supervised run, and the
\* later steps of finalization only with a decided one.
LEMMA StepOrdered ==
  ASSUME TypeOK, ReviewOrder, NEW w \in Workers, Step(w) \/ Raise(w) \/ Crash(w),
         wk'[w].pc \in Reviewing
  PROVE  /\ supervised[wk[w].run]
         /\ wk'[w].pc \in {"boundary", "durable"} /\ wk'[w].step # "canonicalize"
              => decision[wk[w].run] # {}
<1> DEFINE Ordered == wk'[w].pc \in Reviewing =>
      /\ supervised[wk[w].run]
      /\ wk'[w].pc \in {"boundary", "durable"} /\ wk'[w].step # "canonicalize"
           => decision[wk[w].run] # {}
<1>0. wk \in [Workers -> WorkerState]
  BY DEF TypeOK
<1>1. ASSUME NEW p \in PC \ Reviewing, Goto(w, p) PROVE Ordered
  BY <1>0, <1>1 DEF Goto, WorkerState
<1>2. ASSUME GoIdle(w) PROVE Ordered
  BY <1>0, <1>2 DEF GoIdle, IdleWorker, Reviewing
<1>3. ASSUME NEW b, GoFail(w, b) PROVE Ordered
  BY <1>0, <1>3 DEF GoFail, WorkerState, Reviewing
<1>4. ASSUME NEW e, GoAudit(w, e) PROVE Ordered
  BY <1>0, <1>4 DEF GoAudit, WorkerState, Reviewing
<1>5. ASSUME supervised[wk[w].run], Goto(w, "pause") PROVE Ordered
  BY <1>0, <1>5 DEF Goto, WorkerState
<1>6. ASSUME wk[w].pc = "boundary", Goto(w, "durable") PROVE Ordered
  BY <1>0, <1>6 DEF Goto, WorkerState, ReviewOrder
<1>7. ASSUME NEW p \in PC \ Reviewing, NEW t, NEW e,
             wk' = [wk EXCEPT ![w].pc = p, ![w].step = t, ![w].event = e]
      PROVE  Ordered
  BY <1>0, <1>7 DEF WorkerState
<1>8. ASSUME NEW e, supervised[wk[w].run],
             wk' = [wk EXCEPT ![w].pc = "boundary", ![w].step = "canonicalize",
                              ![w].event = e]
      PROVE  Ordered
  BY <1>0, <1>8 DEF WorkerState
<1>9. ASSUME NEW p, NEW t, supervised[wk[w].run], decision[wk[w].run] # {},
             wk' = [wk EXCEPT ![w].pc = p, ![w].step = t]
      PROVE  Ordered
  BY <1>9
<1> HIDE DEF Ordered
<1>s. SUFFICES Ordered
  BY DEF Ordered
<1>10. CASE Load(w)
  <2>1. wk'[w].pc \notin Reviewing
    BY <1>0, <1>10 DEF Load, WorkerState, Reviewing
  <2> QED BY <2>1 DEF Ordered
<1>11. ASSUME NEW result \in {"ok", "transient", "fatal"}, PersistStage(w, result)
       PROVE  Ordered
  <2>1. CASE ~Holds(w)
    BY <1>2, <1>11, <2>1 DEF PersistStage
  <2>2. CASE Holds(w)
    <3>1. PICK t, b : wk' = [wk EXCEPT ![w].pc = "before", ![w].todo = t, ![w].retry = b]
      BY <1>11, <2>2 DEF PersistStage
    <3>2. wk'[w].pc \notin Reviewing
      BY <1>0, <3>1 DEF WorkerState, Reviewing
    <3> QED BY <3>2 DEF Ordered
  <2> QED BY <2>1, <2>2
<1>12. CASE Settle(w)
  <2>1. CASE supervised[wk[w].run]
    BY <1>1, <1>3, <1>8, <1>12, <2>1 DEF Settle, PC, Reviewing
  <2>2. CASE ~supervised[wk[w].run]
    <3>1. CASE run[wk[w].run] # "cancel_requested" /\ Finish(wk[w].run) # "failed"
      <4>1. wk' = [wk EXCEPT ![w].pc = "complete", ![w].step = "canonicalize",
                             ![w].event = Finish(wk[w].run)]
        BY <1>12, <2>2, <3>1 DEF Settle
      <4> QED BY <1>7, <4>1 DEF PC, Reviewing
    <3> QED BY <1>1, <1>3, <1>12, <3>1 DEF Settle, PC, Reviewing
  <2> QED BY <2>1, <2>2
<1>13. CASE FinDurable(w)
  <2>1. supervised[wk[w].run]
    BY <1>13 DEF FinDurable, ReviewOrder
  <2>2. CASE GoFail(w, FALSE)
    BY <1>3, <2>2
  <2>3. CASE ~GoFail(w, FALSE)
    <3>1. ~(ChecksDocument(wk[w].run, wk[w].step) /\ ~ReviewedContext(wk[w].run))
      BY <1>13, <2>3 DEF FinDurable
    <3>2. decision[wk[w].run] # {}
      BY <1>13, <3>1 DEF FinDurable, ReviewOrder, ChecksDocument, ReviewedContext
    <3>3. PICK p, t : wk' = [wk EXCEPT ![w].pc = p, ![w].step = t]
      BY <1>13, <2>3 DEF FinDurable
    <3> QED BY <1>9, <2>1, <3>2, <3>3
  <2> QED BY <2>2, <2>3
<1>14. CASE FinBoundary(w)
  BY <1>1, <1>6, <1>14 DEF FinBoundary, PC, Reviewing
<1>15. CASE Advise(w)
  BY <1>1, <1>2, <1>5, <1>15 DEF Advise, PC, Reviewing
<1>16. CASE \/ BeforeStage(w) \/ LoseLease(w) \/ StartStage(w) \/ AfterStages(w)
            \/ FinStorageError(w) \/ MarkPendingCancelled(w)
  BY <1>1, <1>2, <1>3, <1>16
  DEF BeforeStage, LoseLease, StartStage, AfterStages, FinStorageError,
      MarkPendingCancelled, PC, Reviewing
<1>17. CASE PauseForReview(w) \/ Complete(w) \/ CompleteCancelled(w) \/ Fail(w)
  BY <1>1, <1>2, <1>3, <1>4, <1>17
  DEF PauseForReview, Complete, CompleteCancelled, Fail, PC, Reviewing
<1>18. CASE Raise(w) \/ Crash(w) \/ \E appended \in BOOLEAN : Audit(w, appended)
  BY <1>2, <1>3, <1>18 DEF Raise, Crash, Audit
<1> QED BY <1>10, <1>11, <1>12, <1>13, <1>14, <1>15, <1>16, <1>17, <1>18 DEF Step

\* What a worker's step does to the run it executes, as a transition of the
\* lifecycle; other runs stay where they are.
LEMMA StepLife ==
  ASSUME TypeOK, RunJobCoherent, ReviewOrder, NEW w \in Workers, Step(w), Concludes(w),
         NEW r \in Runs
  PROVE  \/ Life!Rest(r) \/ Life!Requeue(r) \/ Life!Pause(r) \/ Life!Trust(r)
         \/ Life!Complete(r) \/ Life!Fail(r) \/ Life!Cancelled(r)
<1> DEFINE Goal == \/ Life!Rest(r) \/ Life!Requeue(r) \/ Life!Pause(r) \/ Life!Trust(r)
                   \/ Life!Complete(r) \/ Life!Fail(r) \/ Life!Cancelled(r)
<1>0. /\ wk[w].pc # "idle" => wk[w].run \in Runs
      /\ wk[w].pc = "complete" => wk[w].event \in {"completed", "partial"}
  BY ActiveWorker DEF TypeOK, WorkersTyped, Concludes
<1>a. supervised' = supervised /\ decision' = decision
  BY DEF Step, Load, BeforeStage, LoseLease, StartStage, PersistStage, AfterStages,
         Advise, PauseForReview, Settle, FinBoundary, FinDurable, FinStorageError,
         Complete, MarkPendingCancelled, CompleteCancelled, Fail, Audit, UnchangedTables
<1>1. ASSUME run' = run, fin' = fin PROVE Goal
  BY <1>a, <1>1, LifeTransitions DEF KeepsAll, KeepsReview
<1>2. ASSUME NEW s, run' = [run EXCEPT ![wk[w].run] = s], r # wk[w].run, fin' = fin
      PROVE  Goal
  BY <1>a, <1>2, LifeTransitions DEF KeepsAll, KeepsReview, TypeOK
<1>3. Holds(w) /\ r = wk[w].run =>
         (run[r] = "running" /\ job[r] = "running")
         \/ (run[r] = "cancel_requested" /\ job[r] = "cancel_requested")
  BY RunOfJob DEF Holds, RunJobCoherent, Coherent
<1> HIDE DEF Goal
<1>s. SUFFICES Goal
  BY DEF Goal
<1>4. CASE PauseForReview(w)
  <2>1. CASE run' = run
    BY <1>1, <1>4, <2>1 DEF PauseForReview
  <2>2. CASE run' # run
    <3>1. /\ run[wk[w].run] = "running" /\ decision[wk[w].run] = {}
          /\ run' = [run EXCEPT ![wk[w].run] = "awaiting_review"]
          /\ fin' = fin /\ wk[w].pc = "pause"
      BY <1>4, <2>2 DEF PauseForReview
    <3>2. CASE r = wk[w].run
      BY <1>a, <3>1, <3>2, LifeTransitions
      DEF KeepsAll, KeepsReview, TypeOK, ReviewOrder, Goal
    <3> QED BY <1>2, <3>1, <3>2
  <2> QED BY <2>1, <2>2
<1>5. CASE Complete(w)
  <2>1. CASE run' = run
    BY <1>1, <1>5, <2>1 DEF Complete
  <2>2. CASE run' # run
    <3>1. /\ Holds(w) /\ (supervised[wk[w].run] => FinalizationVerified(wk[w].run))
          /\ run[wk[w].run] # "cancel_requested"
          /\ run' = [run EXCEPT ![wk[w].run] = wk[w].event]
          /\ fin' = fin /\ wk[w].pc = "complete"
      BY <1>5, <2>2 DEF Complete
    <3>2. CASE r = wk[w].run
      BY <1>0, <1>a, <1>3, <3>1, <3>2, LifeTransitions
      DEF KeepsAll, KeepsReview, TypeOK, FinalizationVerified, Goal
    <3> QED BY <1>2, <3>1, <3>2
  <2> QED BY <2>1, <2>2
<1>6. CASE CompleteCancelled(w)
  <2>1. CASE ~Holds(w)
    BY <1>1, <1>6, <2>1 DEF CompleteCancelled
  <2>2. CASE Holds(w)
    <3>1. run' = [run EXCEPT ![wk[w].run] = "cancelled"] /\ fin' = fin
          /\ wk[w].pc = "cancel"
      BY <1>6, <2>2 DEF CompleteCancelled
    <3>2. run[wk[w].run] = "cancel_requested"
      <4>1. run[wk[w].run] \in {"running", "cancel_requested"}
        BY <1>0, <2>2, <3>1, RunOfJob DEF Holds, RunJobCoherent, Coherent
      <4> QED BY <3>1, <4>1 DEF ReviewOrder
    <3>3. CASE r = wk[w].run
      BY <1>a, <3>1, <3>2, <3>3, LifeTransitions DEF KeepsAll, KeepsReview, TypeOK, Goal
    <3> QED BY <1>2, <3>1, <3>3
  <2> QED BY <2>1, <2>2
<1>7. CASE Fail(w)
  <2>1. CASE ~Holds(w)
    BY <1>1, <1>7, <2>1 DEF Fail
  <2>2. CASE Holds(w)
    <3>1. /\ fin' = fin
          /\ \/ /\ job[wk[w].run] = "cancel_requested"
                /\ run' = [run EXCEPT ![wk[w].run] = "cancelled"]
             \/ /\ job[wk[w].run] # "cancel_requested"
                /\ \/ run' = [run EXCEPT ![wk[w].run] = "queued"]
                   \/ run' = [run EXCEPT ![wk[w].run] = "failed"]
      BY <1>7, <2>2 DEF Fail
    <3>2. CASE r = wk[w].run
      BY <1>a, <1>3, <2>2, <3>1, <3>2, LifeTransitions
      DEF KeepsAll, KeepsReview, TypeOK, Goal
    <3> QED BY <1>2, <3>1, <3>2
  <2> QED BY <2>1, <2>2
<1>8. CASE FinDurable(w)
  <2>1. run' = run /\ wk[w].pc = "durable"
    BY <1>8 DEF FinDurable
  <2>2. \/ fin' = fin
        \/ fin' = [fin EXCEPT ![wk[w].run] = FinAdvance(wk[w].run, wk[w].step)]
    BY <1>8 DEF FinDurable
  <2>3. CASE fin' = fin
    BY <1>1, <2>1, <2>3
  <2>4. CASE r # wk[w].run
    BY <1>a, <2>1, <2>2, <2>4, LifeTransitions DEF KeepsAll, KeepsReview, TypeOK, Goal
  <2>5. CASE r = wk[w].run /\ fin' # fin
    <3>1. fin'[r] = FinAdvance(r, wk[w].step) /\ wk[w].step # "canonicalize"
      <4>1. FinAdvance(r, "canonicalize") = fin[r]
        BY DEF FinAdvance
      <4>2. [fin EXCEPT ![r] = fin[r]] = fin
        BY DEF TypeOK
      <4> QED BY <2>2, <2>5, <4>1, <4>2 DEF TypeOK
    <3>2. supervised[r] /\ decision[r] # {}
      BY <2>1, <2>5, <3>1 DEF ReviewOrder
    <3>3. CASE fin'[r] = "verified"
      BY <1>a, <2>1, <3>2, <3>3, LifeTrust DEF Goal
    <3>4. CASE fin'[r] # "verified"
      <4>1. fin[r] # "verified"
        BY <3>1, <3>4 DEF FinAdvance
      <4> QED BY <1>a, <2>1, <3>4, <4>1, LifeRestFin DEF Goal
    <3> QED BY <3>3, <3>4
  <2> QED BY <2>3, <2>4, <2>5
<1> QED BY <1>1, <1>4, <1>5, <1>6, <1>7, <1>8
  DEF Step, Load, BeforeStage, LoseLease, StartStage, PersistStage, AfterStages, Advise,
      Settle, FinBoundary, FinStorageError, MarkPendingCancelled, Audit, UnchangedTables

\* A worker that cleans up after a cancel has seen the cancel.
LEMMA StepMarking ==
  ASSUME TypeOK, RunJobCoherent, ReviewOrder, NEW w \in Workers,
         Step(w) \/ Raise(w) \/ Crash(w), wk'[w].pc \in {"mark", "cancel"}
  PROVE  run' = run /\ run[wk[w].run] \in {"cancel_requested", "cancelled"}
<1> DEFINE Marked == wk'[w].pc \in {"mark", "cancel"} =>
                       run' = run /\ run[wk[w].run] \in {"cancel_requested", "cancelled"}
<1>0. wk \in [Workers -> WorkerState]
  BY DEF TypeOK
<1>1. ASSUME NEW p \in PC \ {"mark", "cancel"}, Goto(w, p) PROVE Marked
  BY <1>0, <1>1 DEF Goto, WorkerState
<1>2. ASSUME GoIdle(w) PROVE Marked
  BY <1>0, <1>2 DEF GoIdle, IdleWorker
<1>3. ASSUME NEW b, GoFail(w, b) PROVE Marked
  BY <1>0, <1>3 DEF GoFail, WorkerState
<1>4. ASSUME NEW e, GoAudit(w, e) PROVE Marked
  BY <1>0, <1>4 DEF GoAudit, WorkerState
<1>5. ASSUME run' = run, run[wk[w].run] \in {"cancel_requested", "cancelled"} PROVE Marked
  BY <1>5
<1>6. ASSUME NEW p \in PC \ {"mark", "cancel"}, NEW t, NEW e,
             wk' = [wk EXCEPT ![w].pc = p, ![w].step = t, ![w].event = e]
      PROVE  Marked
  BY <1>0, <1>6 DEF WorkerState
<1>7. ASSUME NEW p \in PC \ {"mark", "cancel"}, NEW t,
             wk' = [wk EXCEPT ![w].pc = p, ![w].step = t]
      PROVE  Marked
  BY <1>0, <1>7 DEF WorkerState
<1> HIDE DEF Marked
<1>s. SUFFICES Marked
  BY DEF Marked
<1>10. CASE Load(w)
  <2>1. wk'[w].pc \notin {"mark", "cancel"}
    BY <1>0, <1>10 DEF Load, WorkerState
  <2> QED BY <2>1 DEF Marked
<1>11. ASSUME NEW result \in {"ok", "transient", "fatal"}, PersistStage(w, result)
       PROVE  Marked
  <2>1. CASE ~Holds(w)
    BY <1>2, <1>11, <2>1 DEF PersistStage
  <2>2. CASE Holds(w)
    <3>1. PICK t, b : wk' = [wk EXCEPT ![w].pc = "before", ![w].todo = t, ![w].retry = b]
      BY <1>11, <2>2 DEF PersistStage
    <3>2. wk'[w].pc \notin {"mark", "cancel"}
      BY <1>0, <3>1 DEF WorkerState
    <3> QED BY <3>2 DEF Marked
  <2> QED BY <2>1, <2>2
<1>12. CASE Settle(w)
  <2>1. CASE run[wk[w].run] # "cancel_requested" /\ Finish(wk[w].run) # "failed"
    <3>1. PICK p \in {"boundary", "complete"} :
             wk' = [wk EXCEPT ![w].pc = p, ![w].step = "canonicalize",
                              ![w].event = Finish(wk[w].run)]
      BY <1>12, <2>1 DEF Settle
    <3> QED BY <1>6, <3>1 DEF PC
  <2>2. CASE run[wk[w].run] = "cancel_requested"
    BY <1>5, <1>12, <2>2 DEF Settle, UnchangedTables
  <2> QED BY <1>3, <1>12, <2>1, <2>2 DEF Settle
<1>13. CASE FinDurable(w)
  <2>1. CASE GoFail(w, FALSE)
    BY <1>3, <2>1
  <2>2. CASE ~GoFail(w, FALSE)
    <3>1. PICK p \in {"boundary", "complete"} : \E t :
             wk' = [wk EXCEPT ![w].pc = p, ![w].step = t]
      BY <1>13, <2>2 DEF FinDurable
    <3> QED BY <1>7, <3>1 DEF PC
  <2> QED BY <2>1, <2>2
<1>14. CASE FinBoundary(w)
  <2>1. CASE job[wk[w].run] = "cancel_requested"
    <3>1. wk[w].run \in Runs
      BY <1>14, ActiveWorker DEF FinBoundary, TypeOK, WorkersTyped
    <3>2. run[wk[w].run] = "cancel_requested"
      BY <2>1, <3>1, RunOfJob DEF RunJobCoherent, Coherent
    <3> QED BY <1>5, <1>14, <3>2 DEF FinBoundary, UnchangedTables
  <2> QED BY <1>1, <1>14, <2>1 DEF FinBoundary, PC
<1>15. CASE MarkPendingCancelled(w)
  BY <1>5, <1>15 DEF MarkPendingCancelled, ReviewOrder
<1>16. CASE Complete(w)
  BY <1>2, <1>3, <1>4, <1>5, <1>16 DEF Complete
<1>17. CASE \/ BeforeStage(w) \/ LoseLease(w) \/ StartStage(w) \/ AfterStages(w)
            \/ Advise(w) \/ FinStorageError(w)
  BY <1>1, <1>2, <1>3, <1>17
  DEF BeforeStage, LoseLease, StartStage, AfterStages, Advise, FinStorageError, PC
<1>18. CASE PauseForReview(w) \/ CompleteCancelled(w) \/ Fail(w)
  BY <1>1, <1>2, <1>3, <1>4, <1>18 DEF PauseForReview, CompleteCancelled, Fail, PC
<1>19. CASE Raise(w) \/ Crash(w) \/ \E appended \in BOOLEAN : Audit(w, appended)
  BY <1>2, <1>3, <1>19 DEF Raise, Crash, Audit
<1> QED BY <1>10, <1>11, <1>12, <1>13, <1>14, <1>15, <1>16, <1>17, <1>18, <1>19 DEF Step

\* The conditions ReviewOrder puts on a worker survive whatever moves its run
\* on, adds a decision and leaves the worker itself alone.
LEMMA OrderKept ==
  ASSUME ReviewOrder, NEW v \in Workers, wk'[v] = wk[v],
         wk[v].pc # "idle" =>
            /\ run[wk[v].run] # "none" => run'[wk[v].run] # "none"
            /\ run[wk[v].run] \in {"cancel_requested", "cancelled"}
                 => run'[wk[v].run] \in {"cancel_requested", "cancelled"}
            /\ supervised'[wk[v].run] = supervised[wk[v].run]
            /\ decision[wk[v].run] # {} => decision'[wk[v].run] # {}
  PROVE  /\ wk'[v].pc # "idle" => run'[wk'[v].run] # "none"
         /\ wk'[v].pc \in {"pause", "boundary", "durable"} => supervised'[wk'[v].run]
         /\ wk'[v].pc \in {"mark", "cancel"} =>
               run'[wk'[v].run] \in {"cancel_requested", "cancelled"}
         /\ wk'[v].pc \in {"boundary", "durable"} /\ wk'[v].step # "canonicalize"
               => decision'[wk'[v].run] # {}
  BY DEF ReviewOrder

LEMMA LegalReviewOrder ==
  TypeOK /\ RunJobCoherent /\ ReviewOrder /\ Legal => ReviewOrder'
<1> SUFFICES ASSUME TypeOK, RunJobCoherent, ReviewOrder, Legal, NEW v \in Workers
             PROVE  /\ wk'[v].pc # "idle" => run'[wk'[v].run] # "none"
                    /\ wk'[v].pc \in {"pause", "boundary", "durable"}
                         => supervised'[wk'[v].run]
                    /\ wk'[v].pc \in {"mark", "cancel"} =>
                         run'[wk'[v].run] \in {"cancel_requested", "cancelled"}
                    /\ wk'[v].pc \in {"boundary", "durable"}
                       /\ wk'[v].step # "canonicalize" => decision'[wk'[v].run] # {}
  BY DEF ReviewOrder
<1> DEFINE Goal == /\ wk'[v].pc # "idle" => run'[wk'[v].run] # "none"
                   /\ wk'[v].pc \in {"pause", "boundary", "durable"}
                        => supervised'[wk'[v].run]
                   /\ wk'[v].pc \in {"mark", "cancel"} =>
                        run'[wk'[v].run] \in {"cancel_requested", "cancelled"}
                   /\ wk'[v].pc \in {"boundary", "durable"}
                      /\ wk'[v].step # "canonicalize" => decision'[wk'[v].run] # {}
<1>0. wk[v].pc # "idle" => wk[v].run \in Runs /\ run[wk[v].run] # "none"
  BY ActiveWorker DEF TypeOK, WorkersTyped, ReviewOrder
<1>1. ASSUME NEW r \in Runs, NEW sup \in BOOLEAN, CreateRun(r, sup) PROVE Goal
  BY <1>0, <1>1, OrderKept DEF CreateRun, TypeOK
<1>2. ASSUME NEW r \in Runs, Cancel(r) \/ Decide(r) PROVE Goal
  BY <1>0, <1>2, OrderKept DEF Cancel, Decide, TypeOK
<1>3. ASSUME UNCHANGED <<run, supervised, decision, wk>> PROVE Goal
  BY <1>0, <1>3, OrderKept
<1>4. ASSUME NEW w \in Workers, NEW r \in Runs, Claim(w, r) PROVE Goal
  <2>1. /\ run' = [SweptRun EXCEPT ![r] = IF run[r] \in {"queued", "running", "failed"}
                                          THEN "running" ELSE run[r]]
        /\ supervised' = supervised /\ decision' = decision
    BY <1>4 DEF Claim
  <2>2. CASE v # w
    <3>1. wk'[v] = wk[v]
      BY <1>4, <2>2 DEF Claim, TypeOK
    <3> QED BY <1>0, <2>1, <3>1, OrderKept DEF SweptRun, TypeOK
  <2>3. CASE v = w
    <3>1. wk'[v].pc = "load" /\ wk'[v].run = r
      BY <1>4, <2>3 DEF Claim, TypeOK, IdleWorker
    <3>2. run[r] # "none"
      BY <1>4, RunOfJob DEF Claim, Candidates, RunJobCoherent, Coherent
    <3>3. run'[r] # "none"
      BY <2>1, <3>2 DEF SweptRun
    <3> QED BY <3>1, <3>3
  <2> QED BY <2>2, <2>3
<1>5. ASSUME NEW w \in Workers, Sweep(w) PROVE Goal
  BY <1>0, <1>5, OrderKept DEF Sweep, SweptRun
<1>6. ASSUME NEW w \in Workers, (Step(w) /\ Concludes(w)) \/ Raise(w) \/ Crash(w)
      PROVE  Goal
  <2>1. /\ \A u \in Workers : u # w => wk'[u] = wk[u]
        /\ \/ wk'[w].pc = "idle" /\ wk'[w].run = NoRun
           \/ /\ wk'[w].pc # "idle" /\ wk[w].pc # "idle"
              /\ wk'[w].run = wk[w].run /\ wk'[w].gen = wk[w].gen
    BY <1>6, KeepsIdentity DEF TypeOK, WorkersTyped
  <2>2. supervised' = supervised /\ decision' = decision
    BY <1>6 DEF Step, Load, BeforeStage, LoseLease, StartStage, PersistStage, AfterStages,
         Advise, PauseForReview, Settle, FinBoundary, FinDurable, FinStorageError,
         Complete, MarkPendingCancelled, CompleteCancelled, Fail, Audit, UnchangedTables,
         Raise, Crash
  <2>3. \A r \in Runs : /\ run[r] # "none" => run'[r] # "none"
                        /\ run[r] \in {"cancel_requested", "cancelled"}
                             => run'[r] \in {"cancel_requested", "cancelled"}
    <3>1. CASE Step(w) /\ Concludes(w)
      BY <3>1, StepLife
      DEF Life!Rest, Life!Requeue, Life!Pause, Life!Trust, Life!Complete, Life!Fail,
          Life!Cancelled, Life!Move
    <3>2. CASE Raise(w) \/ Crash(w)
      BY <3>2 DEF Raise, Crash
    <3> QED BY <1>6, <3>1, <3>2
  <2>4. CASE v # w
    BY <1>0, <2>1, <2>2, <2>3, <2>4, OrderKept
  <2>5. CASE v = w /\ wk'[w].pc # "idle"
    <3>1. wk'[v].pc # "idle" => run'[wk'[v].run] # "none"
      BY <1>0, <2>1, <2>3, <2>5
    <3>2. /\ wk'[v].pc \in {"pause", "boundary", "durable"} => supervised'[wk'[v].run]
          /\ wk'[v].pc \in {"boundary", "durable"} /\ wk'[v].step # "canonicalize"
               => decision'[wk'[v].run] # {}
      BY <1>6, <2>1, <2>2, <2>5, StepOrdered DEF Reviewing
    <3>3. wk'[v].pc \in {"mark", "cancel"} =>
               run'[wk'[v].run] \in {"cancel_requested", "cancelled"}
      BY <1>6, <2>1, <2>5, StepMarking
    <3> QED BY <3>1, <3>2, <3>3
  <2>6. CASE v = w /\ wk'[w].pc = "idle"
    BY <2>6
  <2> QED BY <2>4, <2>5, <2>6
<1> QED BY <1>1, <1>2, <1>3, <1>4, <1>5, <1>6
  DEF Legal, Elsewhere, Take, Expire, Overrun, vars

\* Every step of the implementation is a step of RunLifecycle or a stutter.
LEMMA LegalLife ==
  TypeOK /\ RunJobCoherent /\ ReviewOrder /\ Legal => [Life!Next]_(Life!lifeVars)
<1> SUFFICES ASSUME TypeOK, RunJobCoherent, ReviewOrder,
                    Elsewhere \/ \E w \in Workers : Step(w) /\ Concludes(w)
             PROVE  Life!Next
  BY DEF Legal, vars, Life!lifeVars
<1> SUFFICES ASSUME NEW q \in Runs
             PROVE  \/ Life!Rest(q) \/ Life!Request(q) \/ Life!Begin(q) \/ Life!Requeue(q)
                    \/ Life!Pause(q) \/ Life!Decide(q) \/ Life!Trust(q)
                    \/ Life!Complete(q) \/ Life!Fail(q) \/ Life!RequestCancel(q)
                    \/ Life!Cancelled(q)
  BY DEF Life!Next
<1> DEFINE Goal == \/ Life!Rest(q) \/ Life!Request(q) \/ Life!Begin(q) \/ Life!Requeue(q)
                   \/ Life!Pause(q) \/ Life!Decide(q) \/ Life!Trust(q)
                   \/ Life!Complete(q) \/ Life!Fail(q) \/ Life!RequestCancel(q)
                   \/ Life!Cancelled(q)
<1>0. Coherent(q)
  BY DEF RunJobCoherent, Coherent
<1>a. run'[q] = run[q] /\ KeepsAll(q) => Goal
  BY LifeTransitions
<1>1. ASSUME NEW r \in Runs, NEW sup \in BOOLEAN, CreateRun(r, sup) PROVE Goal
  <2>1. CASE r = q
    BY <1>1, <2>1, LifeTransitions DEF CreateRun, TypeOK, KeepsReview
  <2>2. CASE r # q
    BY <1>a, <1>1, <2>2 DEF CreateRun, TypeOK, KeepsAll, KeepsReview
  <2> QED BY <2>1, <2>2
<1>2. ASSUME NEW r \in Runs, Cancel(r) PROVE Goal
  <2>1. CASE r = q
    BY <1>2, <2>1, LifeTransitions DEF Cancel, TypeOK, KeepsAll, KeepsReview
  <2>2. CASE r # q
    BY <1>a, <1>2, <2>2 DEF Cancel, TypeOK, KeepsAll, KeepsReview
  <2> QED BY <2>1, <2>2
<1>3. ASSUME NEW r \in Runs, Decide(r) PROVE Goal
  <2>1. CASE r = q
    BY <1>3, <2>1, LifeDecide DEF Decide, TypeOK
  <2>2. CASE r # q
    BY <1>a, <1>3, <2>2 DEF Decide, TypeOK, KeepsAll, KeepsReview
  <2> QED BY <2>1, <2>2
<1>4. ASSUME NEW r \in Runs, Expire(r) \/ Overrun(r) PROVE Goal
  BY <1>a, <1>4 DEF Expire, Overrun, KeepsAll, KeepsReview
<1>5. SweptRun[q] = run[q] \/ (run[q] = "running" /\ SweptRun[q] = "failed")
  BY DEF SweptRun
<1>6. ASSUME NEW w \in Workers, NEW r \in Runs, Claim(w, r) PROVE Goal
  <2>1. KeepsAll(q)
    BY <1>6 DEF Claim, KeepsAll, KeepsReview
  <2>2. CASE r # q
    <3>1. run'[q] = SweptRun[q]
      BY <1>6, <2>2 DEF Claim, SweptRun
    <3> QED BY <1>5, <2>1, <3>1, LifeTransitions
  <2>3. CASE r = q
    <3>1. run'[q] = IF run[q] \in {"queued", "running", "failed"} THEN "running" ELSE run[q]
      BY <1>6, <2>3 DEF Claim, SweptRun
    <3>2. run[q] \in {"queued", "running", "cancel_requested"}
      BY <1>0, <1>6, <2>3, RunOfJob DEF Claim, Candidates
    <3> QED BY <2>1, <3>1, <3>2, LifeTransitions
  <2> QED BY <2>2, <2>3
<1>7. ASSUME NEW w \in Workers, Sweep(w) PROVE Goal
  <2>1. KeepsAll(q) /\ run'[q] = SweptRun[q]
    BY <1>7 DEF Sweep, KeepsAll, KeepsReview
  <2> QED BY <1>5, <2>1, LifeTransitions
<1>8. ASSUME NEW w \in Workers, Step(w), Concludes(w) PROVE Goal
  BY <1>8, StepLife
<1>9. ASSUME NEW w \in Workers, Raise(w) \/ Crash(w) PROVE Goal
  BY <1>a, <1>9 DEF Raise, Crash, KeepsAll, KeepsReview
<1> QED BY <1>1, <1>2, <1>3, <1>4, <1>6, <1>7, <1>8, <1>9 DEF Elsewhere, Take

\* The queue and its workers implement the run lifecycle.
THEOREM ImplementsLifecycle == Spec => RunsFollowLifecycle
<1>1. Init => Life!Init /\ RunJobCoherent /\ ReviewOrder
  <2> SUFFICES ASSUME Init PROVE Life!Init /\ RunJobCoherent /\ ReviewOrder
    OBVIOUS
  <2>1. [r \in Runs |-> decision[r] # {}] = [r \in Runs |-> FALSE]
    BY Zenon DEF Init
  <2>2. [r \in Runs |-> fin[r] = "verified"] = [r \in Runs |-> FALSE]
    <3>1. \A r \in Runs : (fin[r] = "verified") = FALSE
      BY DEF Init
    <3> QED BY <3>1, Zenon
  <2>3. Life!Init
    BY <2>1, <2>2, Zenon DEF Init, Life!Init
  <2>4. RunJobCoherent
    BY JobsOfStatus DEF Init, RunJobCoherent
  <2>5. ReviewOrder
    BY DEF Init, ReviewOrder, IdleWorker
  <2> QED BY <2>3, <2>4, <2>5
<1> QED BY <1>1, TypedHolds, NextLegal, LegalCoherent, LegalReviewOrder, LegalLife, PTL
     DEF Spec, RunsFollowLifecycle, Life!Spec

(***************************************************************************)
(* What an attempt has done.  The lease holder's results are its own until *)
(* its generation is replaced; from what it knows at each point of run_once *)
(* follow the remaining properties of the runs.                            *)
(***************************************************************************)
Executed == {"executed", "pause", "settle", "boundary", "durable", "complete"}
Truths   == {"completed", "partial", "cancelled"}

Ended(r, s)   == stage[r][s] \in {"completed", "failed"}
AllEnded(r)   == \A s \in Stages : Ended(r, s)
Cancelling(r) == run[r] \in {"cancel_requested", "cancelled"}
Current(w)    == wk[w].pc # "idle" /\ wk[w].gen = gen[wk[w].run]

\* What every worker knows, and what only the one under the current generation.
\* In a standard run it passes through all of run_once: the run is "backed" by its
\* tables at each point, and on the way to completion the verdict has been "judged".
\* Graph-supervised runs (below) may enter in the middle.
Knows(w, backed) ==
    /\ wk[w].pc = "audit" /\ wk[w].event \in Truths => run[wk[w].run] = wk[w].event
    /\ backed /\ wk[w].pc \in Executed => risk[wk[w].run] # {} \/ Cancelling(wk[w].run)

Owns(w, backed, judged) ==
    /\ wk[w].pc \in Executing => \A s \in Stages : s \in wk[w].todo \/ Ended(wk[w].run, s)
    /\ backed /\ wk[w].pc \in Executed => AllEnded(wk[w].run) \/ Cancelling(wk[w].run)
    /\ backed /\ wk[w].pc = "pause" => recs[wk[w].run] = Done(wk[w].run)
    /\ judged /\ wk[w].pc \in Trusting => wk[w].event = Finish(wk[w].run)
    /\ wk[w].pc \in {"boundary", "durable"} /\ wk[w].step # "canonicalize"
         => decision[wk[w].run] = {Done(wk[w].run)}
    /\ wk[w].pc = "complete" /\ supervised[wk[w].run]
         => decision[wk[w].run] = {Done(wk[w].run)}

Attempts ==
    /\ \A w \in Workers : Knows(w, TRUE) /\ (Current(w) => Owns(w, TRUE, TRUE))
    /\ EveryStageAccountedFor /\ OnlyReviewedResultsComplete
    /\ PausedRunIsDecidable /\ AuditTellsTruth

(***************************************************************************)
(* What one step does to the rows of a run.                                *)
(***************************************************************************)

\* Seen from its run, a step moves the life of the run forward: outcomes are
\* final, a cancel is not withdrawn, the kind of review is fixed on creation.
LEMMA LifeForward ==
  ASSUME TypeOK, RunJobCoherent, ReviewOrder, Legal, NEW q \in Runs
  PROVE  /\ run[q] \in Truths => run'[q] = run[q]
         /\ run[q] \in {"cancel_requested", "cancelled"}
              => run'[q] \in {"cancel_requested", "cancelled"}
         /\ run[q] # "none" => supervised'[q] = supervised[q] /\ run'[q] # "none"
<1>1. CASE Life!Next
  <2>1. \/ Life!Rest(q) \/ Life!Request(q) \/ Life!Begin(q) \/ Life!Requeue(q)
        \/ Life!Pause(q) \/ Life!Decide(q) \/ Life!Trust(q)
        \/ Life!Complete(q) \/ Life!Fail(q) \/ Life!RequestCancel(q)
        \/ Life!Cancelled(q)
    BY <1>1 DEF Life!Next
  <2> QED BY <2>1
    DEF Truths, Life!Rest, Life!Request, Life!Begin, Life!Requeue, Life!Pause,
        Life!Decide, Life!Trust, Life!Complete, Life!Fail, Life!RequestCancel,
        Life!Cancelled, Life!Move, Life!Keep
<1>2. CASE UNCHANGED Life!lifeVars
  BY <1>2 DEF Life!lifeVars
<1> QED BY <1>1, <1>2, LegalLife

\* The rows of a run which no lease holder writes: at most a worker that has
\* seen a cancel marks the pending stages.
Quiet(r) ==
    /\ \A s \in Stages : \/ stage'[r][s] = stage[r][s]
                         \/ stage[r][s] = "pending" /\ stage'[r][s] = "cancelled"
    /\ recs'[r] = recs[r]

\* What the stage rows say of the outcome survives a quiet step.
LEMMA QuietKeeps ==
  ASSUME TypeOK, NEW r \in Runs, Quiet(r)
  PROVE  /\ Done(r)' = Done(r) /\ Finish(r)' = Finish(r)
         /\ \A s \in Stages : Ended(r, s) => Ended(r, s)'
         /\ recs'[r] = recs[r]
<1>1. \A s \in Stages : /\ stage'[r][s] = "completed" <=> stage[r][s] = "completed"
                        /\ stage'[r][s] = "failed" <=> stage[r][s] = "failed"
  BY DEF Quiet
<1>2. Done(r)' = Done(r)
  BY <1>1 DEF Done
<1>3. Finish(r)' = Finish(r)
  BY <1>1, <1>2 DEF Finish
<1> QED BY <1>1, <1>2, <1>3 DEF Ended, Quiet

\* Recommendations are written under a lease that holds.
LEMMA RecsEffect ==
  ASSUME TypeOK, NEW w \in Workers, Step(w) \/ Raise(w) \/ Crash(w)
  PROVE  \/ recs' = recs
         \/ Holds(w) /\ recs' = [recs EXCEPT ![wk[w].run] = Done(wk[w].run)]
<1>1. CASE Advise(w)
  BY <1>1 DEF Advise
<1> QED BY <1>1
  DEF Step, Load, BeforeStage, LoseLease, StartStage, PersistStage, AfterStages,
      PauseForReview, Settle, FinBoundary, FinDurable, FinStorageError,
      Complete, MarkPendingCancelled, CompleteCancelled, Fail, Audit, UnchangedTables,
      Raise, Crash

\* Only the lease holder of a run disturbs it.
LEMMA StepQuiet ==
  ASSUME TypeOK, NEW w \in Workers, Step(w) \/ Raise(w) \/ Crash(w), NEW r \in Runs,
         ~(Holds(w) /\ wk[w].run = r)
  PROVE  Quiet(r)
<1>1. recs'[r] = recs[r]
  BY RecsEffect DEF TypeOK
<1>2. \A s \in Stages : \/ stage'[r][s] = stage[r][s]
                        \/ stage[r][s] = "pending" /\ stage'[r][s] = "cancelled"
  <2>1. CASE stage' = stage
    BY <2>1
  <2>2. CASE Holds(w) /\ \E s \in wk[w].todo, v \in StageStatus :
               stage' = [stage EXCEPT ![wk[w].run][s] = v]
    BY <2>2 DEF TypeOK
  <2>3. CASE stage' = [stage EXCEPT ![wk[w].run] =
                         [s \in Stages |-> IF stage[wk[w].run][s] = "pending"
                                           THEN "cancelled" ELSE stage[wk[w].run][s]]]
    BY <2>3 DEF TypeOK
  <2>4. CASE /\ Holds(w) /\ wk[w].pc \in Executing
             /\ \E s \in wk[w].todo, v \in StageStatus :
                 /\ stage' = [stage EXCEPT ![wk[w].run][s] = v]
                 /\ wk'[w].todo \subseteq wk[w].todo
                 /\ v = "completed" => s \notin wk'[w].todo
    <3>1. PICK s \in wk[w].todo, v \in StageStatus :
                 stage' = [stage EXCEPT ![wk[w].run][s] = v]
      BY <2>4
    <3> QED BY <2>2, <2>4, <3>1
  <2> QED BY <2>1, <2>3, <2>4, StageEffect
<1> QED BY <1>1, <1>2 DEF Quiet

LEMMA NextQuiet ==
  ASSUME TypeOK, [Next]_vars, NEW r \in Runs,
         \A w \in Workers : ~(Holds(w) /\ wk[w].run = r)
  PROVE  Quiet(r)
<1>1. CASE UNCHANGED <<stage, recs>>
  BY <1>1 DEF Quiet
<1>2. ASSUME NEW w \in Workers, Step(w) \/ Raise(w) \/ Crash(w) PROVE Quiet(r)
  BY <1>2, StepQuiet
<1> QED BY <1>1, <1>2
  DEF Next, Take, Sweep, Claim, CreateRun, Cancel, Decide, Expire, Overrun, vars

\* Rows that are only added to: the risk profile, the verified finalization,
\* the decision.
LEMMA RowsGrow ==
  ASSUME TypeOK, [Next]_vars, NEW q \in Runs
  PROVE  /\ risk[q] # {} => risk'[q] # {}
         /\ fin[q] = "verified" => fin'[q] = "verified"
         /\ decision[q] # {} => decision'[q] = decision[q]
<1> DEFINE Goal == /\ risk[q] # {} => risk'[q] # {}
                   /\ fin[q] = "verified" => fin'[q] = "verified"
                   /\ decision[q] # {} => decision'[q] = decision[q]
<1>1. CASE UNCHANGED <<risk, fin, decision>>
  BY <1>1
<1>2. ASSUME NEW r \in Runs, Decide(r) PROVE Goal
  BY <1>2 DEF Decide, TypeOK
<1>3. ASSUME NEW w \in Workers, AfterStages(w) PROVE Goal
  <2>1. risk' = risk \/ risk' = [risk EXCEPT ![wk[w].run] = RiskRow(wk[w].run)]
    BY <1>3 DEF AfterStages
  <2>2. RiskRow(wk[w].run) # {}
    BY DEF RiskRow
  <2>3. fin' = fin /\ decision' = decision
    BY <1>3 DEF AfterStages
  <2> QED BY <2>1, <2>2, <2>3 DEF TypeOK
<1>4. ASSUME NEW w \in Workers, FinDurable(w) PROVE Goal
  <2>1. fin' = fin \/ fin' = [fin EXCEPT ![wk[w].run] = FinAdvance(wk[w].run, wk[w].step)]
    BY <1>4 DEF FinDurable
  <2>2. fin[wk[w].run] = "verified" => FinAdvance(wk[w].run, wk[w].step) = "verified"
    BY DEF FinAdvance
  <2>3. risk' = risk /\ decision' = decision
    BY <1>4 DEF FinDurable
  <2> QED BY <2>1, <2>2, <2>3 DEF TypeOK
<1>5. ASSUME NEW w \in Workers, Step(w), ~AfterStages(w), ~FinDurable(w) PROVE Goal
  BY <1>1, <1>5
  DEF Step, Load, BeforeStage, LoseLease, StartStage, PersistStage, Advise,
      PauseForReview, Settle, FinBoundary, FinStorageError,
      Complete, MarkPendingCancelled, CompleteCancelled, Fail, Audit, UnchangedTables
<1> QED BY <1>1, <1>2, <1>3, <1>4, <1>5
  DEF Next, Take, Sweep, Claim, CreateRun, Cancel, Expire, Overrun, Raise, Crash, vars

(***************************************************************************)
(* A worker that a step leaves alone keeps what it knows, and, while its   *)
(* generation is the current one, what it owns.                            *)
(***************************************************************************)
LEMMA BystanderKeeps ==
  ASSUME TypeOK, NEW u \in Workers, NEW q \in Runs, q = wk[u].run, wk'[u] = wk[u],
         NEW backed \in BOOLEAN, NEW judged \in BOOLEAN,
         Knows(u, backed), Current(u) => Owns(u, backed, judged) /\ Quiet(q),
         gen'[q] = wk[u].gen => gen[q] = wk[u].gen,
         run[q] \in Truths => run'[q] = run[q],
         Cancelling(q) => Cancelling(q)',
         supervised'[q] = supervised[q],
         risk[q] # {} => risk'[q] # {},
         decision[q] # {} => decision'[q] = decision[q]
  PROVE  Knows(u, backed)' /\ (Current(u)' => Owns(u, backed, judged)')
<1>1. wk'[u].run = q
  OBVIOUS
<1>2. Knows(u, backed)'
  BY <1>1 DEF Knows, Truths
<1>3. ASSUME Current(u)' PROVE Owns(u, backed, judged)'
  <2>1. Owns(u, backed, judged) /\ Quiet(q)
    BY <1>3 DEF Current
  <2>2. /\ Done(q)' = Done(q) /\ Finish(q)' = Finish(q) /\ recs'[q] = recs[q]
        /\ \A s \in Stages : Ended(q, s) => Ended(q, s)'
    BY <2>1, QuietKeeps
  <2>3. AllEnded(q) => AllEnded(q)'
    BY <2>2 DEF AllEnded
  <2>4. wk[u].pc \in Executing => \A s \in Stages : s \in wk[u].todo \/ Ended(q, s)'
    BY <2>1, <2>2 DEF Owns
  <2>5. decision[q] = {Done(q)} => decision'[q] = {Done(q)'}
    BY <2>2
  <2>6. /\ backed /\ wk[u].pc \in Executed => AllEnded(q)' \/ Cancelling(q)'
        /\ backed /\ wk[u].pc = "pause" => recs'[q] = Done(q)'
        /\ judged /\ wk[u].pc \in Trusting => wk[u].event = Finish(q)'
        /\ wk[u].pc \in {"boundary", "durable"} /\ wk[u].step # "canonicalize"
             => decision'[q] = {Done(q)'}
        /\ wk[u].pc = "complete" /\ supervised'[q] => decision'[q] = {Done(q)'}
    BY <2>1, <2>2, <2>3, <2>5 DEF Owns
  <2> QED BY <1>1, <2>4, <2>6 DEF Owns
<1> QED BY <1>2, <1>3

(***************************************************************************)
(* The worker that moves.  Its local state after each kind of step.        *)
(***************************************************************************)
LEMMA GotoFields ==
  ASSUME WorkersTyped, NEW w \in Workers, NEW p, Goto(w, p)
  PROVE  /\ wk'[w].pc = p /\ wk'[w].todo = wk[w].todo
         /\ wk'[w].step = wk[w].step /\ wk'[w].event = wk[w].event
  BY DEF Goto, WorkersTyped, WorkerState

\* States of which Knows and Owns ask nothing.
Resting == PC \ (Executing \union Executed \union {"audit"})

LEMMA IdleFields ==
  ASSUME WorkersTyped, NEW w \in Workers, GoIdle(w)
  PROVE  wk'[w].pc \in Resting
  BY DEF GoIdle, IdleWorker, WorkersTyped, Resting, PC, Executing, Executed

LEMMA FailFields ==
  ASSUME WorkersTyped, NEW w \in Workers, NEW b, GoFail(w, b)
  PROVE  wk'[w].pc \in Resting
<1>1. wk'[w].pc = "fail"
  BY DEF GoFail, WorkersTyped, WorkerState
<1> QED BY <1>1 DEF Resting, PC, Executing, Executed

LEMMA AuditFields ==
  ASSUME WorkersTyped, NEW w \in Workers, NEW e, GoAudit(w, e)
  PROVE  wk'[w].pc = "audit" /\ wk'[w].event = e
  BY DEF GoAudit, WorkersTyped, WorkerState

LEMMA LoadFields ==
  ASSUME WorkersTyped, NEW w \in Workers, Load(w)
  PROVE  wk'[w].pc = "before" /\ wk'[w].todo = Stages \ Done(wk[w].run)
  BY DEF Load, WorkersTyped, WorkerState

LEMMA PersistFields ==
  ASSUME WorkersTyped, NEW w \in Workers, NEW t, NEW b,
         wk' = [wk EXCEPT ![w].pc = "before", ![w].todo = t, ![w].retry = b]
  PROVE  wk'[w].pc = "before" /\ wk'[w].todo = t
  BY DEF WorkersTyped, WorkerState

\* What the moving worker knows after its step.
LEMMA MoverKnows ==
  ASSUME TypeOK, RunJobCoherent, NEW w \in Workers, NEW r \in Runs, r = wk[w].run,
         NEW backed \in BOOLEAN,
         Step(w) \/ Raise(w) \/ Crash(w), wk'[w].pc # "idle", Knows(w, backed),
         run[r] \in Truths => run'[r] = run[r],
         Cancelling(r) => Cancelling(r)',
         risk[r] # {} => risk'[r] # {}
  PROVE  /\ wk'[w].pc = "audit" /\ wk'[w].event \in Truths => run'[r] = wk'[w].event
         /\ backed /\ wk'[w].pc \in Executed => risk'[r] # {} \/ Cancelling(r)'
<1> DEFINE Told == wk'[w].pc = "audit" /\ wk'[w].event \in Truths => run'[r] = wk'[w].event
           Risked == backed /\ wk'[w].pc \in Executed => risk'[r] # {} \/ Cancelling(r)'
           Goal == Told /\ Risked
<1>0. WorkersTyped
  BY DEF TypeOK, WorkersTyped
<1>1. wk'[w].pc \in Resting => Goal
  BY DEF Resting
<1>2. ASSUME GoIdle(w) PROVE Goal
  BY <1>0, <1>1, <1>2, IdleFields
<1>2f. ASSUME NEW b, GoFail(w, b) PROVE Goal
  BY <1>0, <1>1, <1>2f, FailFields
<1>3. ASSUME NEW p \in PC \ (Executed \union {"audit"}), Goto(w, p) PROVE Goal
  BY <1>0, <1>3, GotoFields
<1>4. ASSUME NEW p \in Executed, wk'[w].pc = p, wk[w].pc \in Executed PROVE Goal
  BY <1>4 DEF Executed, Knows
<1>5. ASSUME NEW p, wk'[w].pc = p, p # "audit", risk'[r] # {} \/ Cancelling(r)' PROVE Goal
  BY <1>5
<1>6. ASSUME NEW e, GoAudit(w, e), e \in Truths => run'[r] = e PROVE Goal
  BY <1>0, <1>6, AuditFields DEF Executed
<1>7. job[r] = "cancel_requested" => Cancelling(r)'
  BY RunOfJob DEF RunJobCoherent, Coherent, Cancelling
<1> HIDE DEF Goal
<1>s. SUFFICES Goal
  BY DEF Goal
<1>10. CASE Load(w)
  <2>1. wk'[w].pc = "before"
    BY <1>0, <1>10, LoadFields
  <2> QED BY <2>1 DEF Goal, Executed
<1>11. CASE BeforeStage(w)
  <2>1. CASE job[r] = "cancel_requested"
    BY <1>0, <1>5, <1>7, <1>11, <2>1, GotoFields DEF BeforeStage
  <2> QED BY <1>3, <1>11, <2>1 DEF BeforeStage, PC, Executed
<1>12. CASE LoseLease(w) \/ StartStage(w) \/ FinStorageError(w) \/ MarkPendingCancelled(w)
  BY <1>2, <1>2f, <1>3, <1>12
  DEF LoseLease, StartStage, FinStorageError, MarkPendingCancelled, PC, Executed
<1>13. ASSUME NEW result \in {"ok", "transient", "fatal"}, PersistStage(w, result)
       PROVE  Goal
  <2>1. CASE ~Holds(w)
    BY <1>2, <1>13, <2>1 DEF PersistStage
  <2>2. CASE Holds(w)
    <3>1. PICK t, b : wk' = [wk EXCEPT ![w].pc = "before", ![w].todo = t, ![w].retry = b]
      BY <1>13, <2>2 DEF PersistStage
    <3>2. wk'[w].pc = "before"
      BY <1>0, <3>1, PersistFields
    <3> QED BY <3>2 DEF Goal, Executed
  <2> QED BY <2>1, <2>2
<1>14. CASE AfterStages(w)
  <2>1. CASE job[r] = "cancel_requested"
    BY <1>0, <1>5, <1>7, <1>14, <2>1, GotoFields DEF AfterStages
  <2>2. CASE job[r] # "cancel_requested" /\ wk[w].retry
    BY <1>2f, <1>14, <2>2 DEF AfterStages
  <2>3. CASE job[r] # "cancel_requested" /\ ~wk[w].retry
    <3>1. risk' = [risk EXCEPT ![r] = RiskRow(r)] /\ Goto(w, "executed")
      BY <1>14, <2>3 DEF AfterStages
    <3>2. risk'[r] # {}
      BY <3>1 DEF RiskRow, TypeOK
    <3> QED BY <1>0, <1>5, <3>1, <3>2, GotoFields
  <2> QED BY <2>1, <2>2, <2>3
<1>15. CASE Advise(w)
  BY <1>0, <1>2, <1>4, <1>15, GotoFields DEF Advise, Executed
<1>16. CASE PauseForReview(w)
  BY <1>0, <1>2, <1>2f, <1>4, <1>6, <1>16, GotoFields DEF PauseForReview, Executed, Truths
<1>17. CASE Settle(w)
  <2>1. CASE run[r] # "cancel_requested" /\ Finish(r) # "failed"
    <3>1. PICK p \in {"boundary", "complete"} :
             wk' = [wk EXCEPT ![w].pc = p, ![w].step = "canonicalize",
                              ![w].event = Finish(r)]
      BY <1>17, <2>1 DEF Settle
    <3>2. wk'[w].pc = p
      BY <1>0, <3>1 DEF WorkersTyped, WorkerState
    <3> QED BY <1>4, <1>17, <3>2 DEF Settle, Executed
  <2> QED BY <1>2f, <1>3, <1>17, <2>1 DEF Settle, PC, Executed
<1>18. CASE FinBoundary(w)
  <2>1. CASE job[r] = "cancel_requested"
    BY <1>3, <1>18, <2>1 DEF FinBoundary, PC, Executed
  <2> QED BY <1>0, <1>4, <1>18, <2>1, GotoFields DEF FinBoundary, Executed
<1>19. CASE FinDurable(w)
  <2>1. CASE GoFail(w, FALSE)
    BY <1>2f, <2>1
  <2>2. CASE ~GoFail(w, FALSE)
    <3>1. PICK p \in {"boundary", "complete"}, t \in FinStep \union {AfterStep[wk[w].step]} :
             wk' = [wk EXCEPT ![w].pc = p, ![w].step = t]
      BY <1>19, <2>2 DEF FinDurable
    <3>2. wk'[w].pc = p
      BY <1>0, <3>1 DEF WorkersTyped, WorkerState
    <3> QED BY <1>4, <1>19, <3>2 DEF FinDurable, Executed
  <2> QED BY <2>1, <2>2
<1>20. CASE Complete(w)
  <2>1. CASE GoAudit(w, wk[w].event) /\ run' = [run EXCEPT ![r] = wk[w].event]
    <3>1. run'[r] = wk[w].event
      BY <2>1 DEF TypeOK
    <3> QED BY <1>6, <2>1, <3>1
  <2> QED BY <1>2, <1>2f, <1>3, <1>20, <2>1 DEF Complete, PC, Executed
<1>21. CASE CompleteCancelled(w)
  <2>1. CASE Holds(w)
    <3>1. run' = [run EXCEPT ![r] = "cancelled"] /\ GoAudit(w, "cancelled")
      BY <1>21, <2>1 DEF CompleteCancelled
    <3>2. run'[r] = "cancelled"
      BY <3>1 DEF TypeOK
    <3> QED BY <1>6, <3>1, <3>2
  <2> QED BY <1>2, <1>21, <2>1 DEF CompleteCancelled
<1>22. CASE Fail(w)
  BY <1>2, <1>6, <1>22 DEF Fail, Truths
<1>23. CASE Raise(w) \/ Crash(w) \/ \E appended \in BOOLEAN : Audit(w, appended)
  BY <1>2, <1>2f, <1>23 DEF Raise, Crash, Audit
<1> QED BY <1>10, <1>11, <1>12, <1>13, <1>14, <1>15, <1>16, <1>17, <1>18, <1>19, <1>20,
          <1>21, <1>22, <1>23 DEF Step

\* What the moving worker owns after its step, if its generation is current.
LEMMA MoverOwns ==
  ASSUME TypeOK, RunJobCoherent, ReviewOrder, NEW w \in Workers, NEW r \in Runs,
         NEW backed \in BOOLEAN, NEW judged \in BOOLEAN,
         r = wk[w].run, Step(w) \/ Raise(w) \/ Crash(w), wk'[w].pc # "idle",
         Owns(w, backed, judged),
         Cancelling(r) => Cancelling(r)'
  PROVE  /\ wk'[w].pc \in Executing => \A s \in Stages : s \in wk'[w].todo \/ Ended(r, s)'
         /\ backed /\ wk'[w].pc \in Executed => AllEnded(r)' \/ Cancelling(r)'
         /\ backed /\ wk'[w].pc = "pause" => recs'[r] = Done(r)'
         /\ judged /\ wk'[w].pc \in Trusting => wk'[w].event = Finish(r)'
         /\ wk'[w].pc \in {"boundary", "durable"} /\ wk'[w].step # "canonicalize"
              => decision'[r] = {Done(r)'}
         /\ wk'[w].pc = "complete" /\ supervised'[r] => decision'[r] = {Done(r)'}
<1> DEFINE Left == wk'[w].pc \in Executing =>
                      \A s \in Stages : s \in wk'[w].todo \/ Ended(r, s)'
           Over == backed /\ wk'[w].pc \in Executed => AllEnded(r)' \/ Cancelling(r)'
           Advised == backed /\ wk'[w].pc = "pause" => recs'[r] = Done(r)'
           Verdict == judged /\ wk'[w].pc \in Trusting => wk'[w].event = Finish(r)'
           Reviewed == wk'[w].pc \in {"boundary", "durable"} /\ wk'[w].step # "canonicalize"
                          => decision'[r] = {Done(r)'}
           Trusted == wk'[w].pc = "complete" /\ supervised'[r] => decision'[r] = {Done(r)'}
           Goal == Left /\ Over /\ Advised /\ Verdict /\ Reviewed /\ Trusted
<1>0. WorkersTyped
  BY DEF TypeOK, WorkersTyped
<1>a. supervised' = supervised /\ decision' = decision
  BY DEF Step, Load, BeforeStage, LoseLease, StartStage, PersistStage, AfterStages,
         Advise, PauseForReview, Settle, FinBoundary, FinDurable, FinStorageError,
         Complete, MarkPendingCancelled, CompleteCancelled, Fail, Audit, UnchangedTables,
         Raise, Crash
<1>b. ASSUME stage' = stage
      PROVE  /\ Done(r)' = Done(r) /\ Finish(r)' = Finish(r)
             /\ \A s \in Stages : Ended(r, s)' <=> Ended(r, s)
             /\ AllEnded(r)' <=> AllEnded(r)
  BY <1>b DEF Done, Finish, Ended, AllEnded
<1>c. job[r] = "cancel_requested" => Cancelling(r)'
  BY RunOfJob DEF RunJobCoherent, Coherent, Cancelling
<1>1. wk'[w].pc \in Resting \union {"audit"} => Goal
  BY DEF Resting, Executed, Executing, Trusting
<1>2. ASSUME wk'[w].pc \in Executing,
             \A s \in Stages : s \in wk'[w].todo \/ Ended(r, s)'
      PROVE  Goal
  BY <1>2 DEF Executed, Executing, Trusting
<1>3. ASSUME wk'[w].pc \in {"executed", "settle"},
             backed => AllEnded(r)' \/ Cancelling(r)'
      PROVE  Goal
  BY <1>3 DEF Executed, Executing, Trusting
<1>4. ASSUME wk'[w].pc = "pause", backed => AllEnded(r)' \/ Cancelling(r)', backed => recs'[r] = Done(r)'
      PROVE  Goal
  BY <1>4 DEF Executing, Trusting
<1>5. ASSUME wk'[w].pc \in {"boundary", "durable"}, backed => AllEnded(r)' \/ Cancelling(r)',
             judged => wk'[w].event = Finish(r)',
             wk'[w].step # "canonicalize" => decision'[r] = {Done(r)'}
      PROVE  Goal
  BY <1>5 DEF Executing
<1>6. ASSUME wk'[w].pc = "complete", backed => AllEnded(r)' \/ Cancelling(r)',
             judged => wk'[w].event = Finish(r)', supervised'[r] => decision'[r] = {Done(r)'}
      PROVE  Goal
  BY <1>6 DEF Executing
<1>7. ASSUME GoIdle(w) PROVE Goal
  BY <1>0, <1>1, <1>7, IdleFields
<1>8. ASSUME NEW b, GoFail(w, b) PROVE Goal
  BY <1>0, <1>1, <1>8, FailFields
<1>9. ASSUME NEW e, GoAudit(w, e) PROVE Goal
  BY <1>0, <1>1, <1>9, AuditFields
<1>10. ASSUME NEW p \in {"mark", "cancel"}, Goto(w, p) PROVE Goal
  BY <1>0, <1>1, <1>10, GotoFields DEF Resting, PC, Executed, Executing
<1>11. backed /\ wk[w].pc \in Executed => AllEnded(r) \/ Cancelling(r)'
  BY DEF Owns
<1> HIDE DEF Goal
<1>s. SUFFICES Goal
  BY DEF Goal
<1>20. CASE Load(w)
  <2>1. wk'[w].pc = "before" /\ wk'[w].todo = Stages \ Done(r)
    BY <1>0, <1>20, LoadFields
  <2>2. \A s \in Stages : s \in wk'[w].todo \/ Ended(r, s)
    BY <2>1 DEF Done, Ended
  <2> QED BY <1>2, <1>b, <1>20, <2>1, <2>2 DEF Load, UnchangedTables, Executing
<1>21. CASE BeforeStage(w)
  <2>1. stage' = stage /\ wk[w].pc \in Executing
    BY <1>21 DEF BeforeStage, UnchangedTables, Executing
  <2>2. CASE job[r] = "cancel_requested"
    <3>1. wk'[w].pc = "executed"
      BY <1>0, <1>21, <2>2, GotoFields DEF BeforeStage
    <3> QED BY <1>3, <1>c, <2>2, <3>1
  <2>3. CASE job[r] # "cancel_requested"
    <3>1. wk'[w].pc = "start" /\ wk'[w].todo = wk[w].todo
      BY <1>0, <1>21, <2>3, GotoFields DEF BeforeStage
    <3> QED BY <1>2, <1>b, <2>1, <3>1 DEF Owns, Executing
  <2> QED BY <2>2, <2>3
<1>22. CASE StartStage(w)
  <2>1. CASE ~Holds(w)
    BY <1>7, <1>22, <2>1 DEF StartStage
  <2>2. CASE Holds(w)
    <3>1. PICK s \in wk[w].todo : stage' = [stage EXCEPT ![r][s] = "running"]
      BY <1>22, <2>2 DEF StartStage
    <3>2. wk'[w].pc = "evaluate" /\ wk'[w].todo = wk[w].todo
      BY <1>0, <1>22, <2>2, GotoFields DEF StartStage
    <3>3. \A t \in Stages : t \in wk[w].todo \/ Ended(r, t)
      BY <1>22 DEF StartStage, Owns, Executing
    <3>4. \A t \in Stages : t # s => stage'[r][t] = stage[r][t]
      BY <3>1 DEF TypeOK
    <3>5. \A t \in Stages : t \in wk'[w].todo \/ Ended(r, t)'
      BY <3>2, <3>3, <3>4 DEF Ended
    <3> QED BY <1>2, <3>2, <3>5 DEF Executing
  <2> QED BY <2>1, <2>2
<1>23. ASSUME NEW result \in {"ok", "transient", "fatal"}, PersistStage(w, result)
       PROVE  Goal
  <2>1. CASE ~Holds(w)
    BY <1>7, <1>23, <2>1 DEF PersistStage
  <2>2. CASE Holds(w)
    <3>1. PICK s \in wk[w].todo :
            /\ stage' = [stage EXCEPT ![r][s] =
                            IF result = "ok" THEN "completed" ELSE "failed"]
            /\ wk' = [wk EXCEPT ![w].pc = "before", ![w].todo = wk[w].todo \ {s},
                                ![w].retry = wk[w].retry \/ result = "transient"]
      BY <1>23, <2>2 DEF PersistStage
    <3>2. wk'[w].pc = "before" /\ wk'[w].todo = wk[w].todo \ {s}
      BY <1>0, <3>1, PersistFields
    <3>3. \A t \in Stages : t \in wk[w].todo \/ Ended(r, t)
      BY <1>23 DEF PersistStage, Owns, Executing
    <3>4. \A t \in Stages : stage'[r][t] = IF t = s
                            THEN IF result = "ok" THEN "completed" ELSE "failed"
                            ELSE stage[r][t]
      BY <3>1 DEF TypeOK
    <3>5. \A t \in Stages : t \in wk'[w].todo \/ Ended(r, t)'
      BY <3>2, <3>3, <3>4 DEF Ended
    <3> QED BY <1>2, <3>2, <3>5 DEF Executing
  <2> QED BY <2>1, <2>2
<1>24. CASE AfterStages(w)
  <2>1. CASE job[r] = "cancel_requested"
    <3>1. wk'[w].pc = "executed"
      BY <1>0, <1>24, <2>1, GotoFields DEF AfterStages
    <3> QED BY <1>3, <1>c, <2>1, <3>1
  <2>2. CASE job[r] # "cancel_requested" /\ wk[w].retry
    BY <1>8, <1>24, <2>2 DEF AfterStages
  <2>3. CASE job[r] # "cancel_requested" /\ ~wk[w].retry
    <3>1. wk'[w].pc = "executed" /\ stage' = stage
      BY <1>0, <1>24, <2>3, GotoFields DEF AfterStages
    <3>2. AllEnded(r)
      BY <1>24 DEF AfterStages, Owns, Executing, AllEnded
    <3> QED BY <1>3, <1>b, <3>1, <3>2
  <2> QED BY <2>1, <2>2, <2>3
<1>25. CASE Advise(w)
  <2>1. backed => AllEnded(r)' \/ Cancelling(r)'
    BY <1>11, <1>b, <1>25 DEF Advise, Executed
  <2>2. CASE Goto(w, "settle")
    BY <1>0, <1>3, <2>1, <2>2, GotoFields
  <2>3. CASE Goto(w, "pause") /\ recs' = [recs EXCEPT ![r] = Done(r)]
    <3>1. wk'[w].pc = "pause" /\ stage' = stage
      BY <1>0, <1>25, <2>3, GotoFields DEF Advise
    <3>2. recs'[r] = Done(r)'
      BY <1>b, <2>3, <3>1 DEF TypeOK
    <3> QED BY <1>4, <2>1, <3>1, <3>2
  <2> QED BY <1>7, <1>25, <2>2, <2>3 DEF Advise
<1>26. CASE PauseForReview(w)
  <2>1. CASE Goto(w, "settle")
    <3>1. backed => AllEnded(r)' \/ Cancelling(r)'
      BY <1>11, <1>b, <1>26 DEF PauseForReview, Executed
    <3> QED BY <1>0, <1>3, <2>1, <3>1, GotoFields
  <2> QED BY <1>7, <1>8, <1>9, <1>26, <2>1 DEF PauseForReview
<1>27. CASE Settle(w)
  <2>1. CASE run[r] # "cancel_requested" /\ Finish(r) # "failed"
    <3>1. /\ wk' = [wk EXCEPT ![w].pc = IF supervised[r] THEN "boundary" ELSE "complete",
                              ![w].step = "canonicalize", ![w].event = Finish(r)]
          /\ stage' = stage /\ wk[w].pc = "settle"
      BY <1>27, <2>1 DEF Settle, UnchangedTables
    <3>2. /\ wk'[w].pc = IF supervised[r] THEN "boundary" ELSE "complete"
          /\ wk'[w].step = "canonicalize" /\ wk'[w].event = Finish(r)
      <4>1. CASE supervised[r]
        <5>1. wk' = [wk EXCEPT ![w].pc = "boundary", ![w].step = "canonicalize",
                               ![w].event = Finish(r)]
          BY <3>1, <4>1
        <5> QED BY <1>0, <4>1, <5>1 DEF WorkersTyped, WorkerState
      <4>2. CASE ~supervised[r]
        <5>1. wk' = [wk EXCEPT ![w].pc = "complete", ![w].step = "canonicalize",
                               ![w].event = Finish(r)]
          BY <3>1, <4>2
        <5> QED BY <1>0, <4>2, <5>1 DEF WorkersTyped, WorkerState
      <4> QED BY <4>1, <4>2
    <3>3. backed => AllEnded(r)' \/ Cancelling(r)'
      BY <1>11, <1>b, <3>1 DEF Executed
    <3>4. CASE supervised[r]
      BY <1>5, <1>b, <3>1, <3>2, <3>3, <3>4
    <3>5. CASE ~supervised[r]
      BY <1>6, <1>a, <1>b, <3>1, <3>2, <3>3, <3>5
    <3> QED BY <3>4, <3>5
  <2> QED BY <1>8, <1>10, <1>27, <2>1 DEF Settle
<1>28. CASE FinBoundary(w)
  <2>1. CASE job[r] = "cancel_requested"
    BY <1>10, <1>28, <2>1 DEF FinBoundary
  <2>2. CASE job[r] # "cancel_requested"
    <3>1. /\ wk'[w].pc = "durable" /\ wk'[w].step = wk[w].step
          /\ wk'[w].event = wk[w].event
          /\ stage' = stage /\ wk[w].pc = "boundary"
      BY <1>0, <1>28, <2>2, GotoFields DEF FinBoundary, UnchangedTables
    <3>2. backed => AllEnded(r)' \/ Cancelling(r)'
      BY <1>11, <1>b, <3>1 DEF Executed
    <3>3. /\ judged => wk[w].event = Finish(r)
          /\ wk[w].step # "canonicalize" => decision[r] = {Done(r)}
      BY <3>1 DEF Owns, Trusting
    <3> QED BY <1>5, <1>a, <1>b, <3>1, <3>2, <3>3
  <2> QED BY <2>1, <2>2
<1>29. CASE FinDurable(w)
  <2>1. CASE GoFail(w, FALSE)
    BY <1>8, <2>1
  <2>2. CASE ~GoFail(w, FALSE)
    <3>1. /\ wk' = [wk EXCEPT ![w].pc = IF wk[w].step = "seal" THEN "complete" ELSE "boundary",
                              ![w].step = AfterStep[wk[w].step]]
          /\ ~(ChecksDocument(r, wk[w].step) /\ ~ReviewedContext(r))
          /\ stage' = stage /\ wk[w].pc = "durable"
      BY <1>29, <2>2 DEF FinDurable
    <3>2. /\ wk'[w].pc = IF wk[w].step = "seal" THEN "complete" ELSE "boundary"
          /\ wk'[w].event = wk[w].event
      <4>1. CASE wk[w].step = "seal"
        <5>1. PICK t : wk' = [wk EXCEPT ![w].pc = "complete", ![w].step = t]
          BY <3>1, <4>1
        <5> QED BY <1>0, <4>1, <5>1 DEF WorkersTyped, WorkerState
      <4>2. CASE wk[w].step # "seal"
        <5>1. PICK t : wk' = [wk EXCEPT ![w].pc = "boundary", ![w].step = t]
          BY <3>1, <4>2
        <5> QED BY <1>0, <4>2, <5>1 DEF WorkersTyped, WorkerState
      <4> QED BY <4>1, <4>2
    <3>3. backed => AllEnded(r)' \/ Cancelling(r)'
      BY <1>11, <1>b, <3>1 DEF Executed
    <3>4. judged => wk[w].event = Finish(r)
      BY <3>1 DEF Owns, Trusting
    <3>5. decision[r] = {Done(r)}
      <4>1. CASE wk[w].step = "canonicalize"
        BY <3>1, <4>1 DEF ChecksDocument, ReviewedContext
      <4>2. CASE wk[w].step # "canonicalize"
        BY <3>1, <4>2 DEF Owns
      <4> QED BY <4>1, <4>2
    <3>6. CASE wk[w].step = "seal"
      BY <1>6, <1>a, <1>b, <3>1, <3>2, <3>3, <3>4, <3>5, <3>6
    <3>7. CASE wk[w].step # "seal"
      BY <1>5, <1>a, <1>b, <3>1, <3>2, <3>3, <3>4, <3>5, <3>7
    <3> QED BY <3>6, <3>7
  <2> QED BY <2>1, <2>2
<1>30. CASE LoseLease(w) \/ FinStorageError(w) \/ MarkPendingCancelled(w)
  BY <1>7, <1>8, <1>10, <1>30 DEF LoseLease, FinStorageError, MarkPendingCancelled
<1>31. CASE Complete(w) \/ CompleteCancelled(w) \/ Fail(w)
  BY <1>7, <1>8, <1>9, <1>10, <1>31 DEF Complete, CompleteCancelled, Fail
<1>32. CASE Raise(w) \/ Crash(w) \/ \E appended \in BOOLEAN : Audit(w, appended)
  BY <1>7, <1>8, <1>32 DEF Raise, Crash, Audit
<1> QED BY <1>20, <1>21, <1>22, <1>23, <1>24, <1>25, <1>26, <1>27, <1>28, <1>29, <1>30,
          <1>31, <1>32 DEF Step

\* Every worker keeps what it knows and, under the current generation, owns.
LEMMA LegalAttempt ==
  ASSUME TypeOK, RunJobCoherent, Fenced, ReviewOrder, Legal, NEW u \in Workers,
         NEW backed \in BOOLEAN, NEW judged \in BOOLEAN,
         Knows(u, backed), Current(u) => Owns(u, backed, judged)
  PROVE  Knows(u, backed)' /\ (Current(u)' => Owns(u, backed, judged)')
<1> PICK q : q = wk[u].run
  OBVIOUS
<1> DEFINE Goal == Knows(u, backed)' /\ (Current(u)' => Owns(u, backed, judged)')
<1>0. wk[u].pc # "idle" => q \in Runs /\ run[q] # "none"
  BY ActiveWorker DEF TypeOK, WorkersTyped, ReviewOrder
<1>1. ASSUME q \in Runs
      PROVE  /\ run[q] \in Truths => run'[q] = run[q]
             /\ Cancelling(q) => Cancelling(q)'
             /\ run[q] # "none" => supervised'[q] = supervised[q]
             /\ risk[q] # {} => risk'[q] # {}
             /\ decision[q] # {} => decision'[q] = decision[q]
  BY <1>1, LifeForward, LegalNext, RowsGrow DEF Cancelling
<1>2. ASSUME wk'[u].pc = "idle" PROVE Goal
  BY <1>2 DEF Knows, Current, Executed
<1>3. ASSUME wk'[u] = wk[u], wk[u].pc # "idle", Current(u) => Quiet(q),
             gen'[q] = wk[u].gen => gen[q] = wk[u].gen
      PROVE  Goal
  <2>1. q \in Runs /\ run[q] # "none"
    BY <1>0, <1>3
  <2> QED BY <1>1, <1>3, <2>1, BystanderKeeps
<1>4. CASE UNCHANGED <<gen, wk, stage, recs>>
  BY <1>2, <1>3, <1>4 DEF Quiet
<1>5. ASSUME NEW w \in Workers, NEW r \in Runs, Claim(w, r) PROVE Goal
  <2>1. /\ gen' = [gen EXCEPT ![r] = gen[r] + 1] /\ stage' = stage /\ recs' = recs
        /\ u # w => wk'[u] = wk[u]
        /\ u = w => wk'[u].pc = "load"
    BY <1>5 DEF Claim, NextGeneration, TypeOK, IdleWorker
  <2>2. CASE u = w
    BY <2>1, <2>2 DEF Knows, Owns, Executed, Executing, Trusting
  <2>3. CASE u # w /\ wk[u].pc # "idle"
    <3>1. /\ gen \in [Runs -> Nat] /\ wk[u].gen \in Nat /\ q \in Runs
          /\ wk[u].gen <= gen[q]
      BY <1>0, <2>3 DEF Fenced, TypeOK, WorkerState
    <3>2. gen'[q] = wk[u].gen => gen[q] = wk[u].gen
      BY <2>1, <3>1
    <3> QED BY <1>3, <2>1, <2>3, <3>2 DEF Quiet
  <2> QED BY <1>2, <2>1, <2>2, <2>3
<1>6. ASSUME NEW w \in Workers, Step(w) \/ Raise(w) \/ Crash(w) PROVE Goal
  <2>1. /\ gen' = gen
        /\ \A v \in Workers : v # w => wk'[v] = wk[v]
        /\ \/ wk'[w].pc = "idle" /\ wk'[w].run = NoRun
           \/ /\ wk'[w].pc # "idle" /\ wk[w].pc # "idle"
              /\ wk'[w].run = wk[w].run /\ wk'[w].gen = wk[w].gen
    BY <1>6, KeepsIdentity DEF TypeOK, WorkersTyped
  <2>2. CASE u # w /\ wk[u].pc # "idle"
    <3>1. ASSUME Current(u) PROVE Quiet(q)
      <4>1. ~(Holds(w) /\ wk[w].run = q)
        BY <2>2, <3>1 DEF Current, Holds, Fenced, LeaseExclusive
      <4> QED BY <1>0, <1>6, <2>2, <4>1, StepQuiet
    <3> QED BY <1>3, <2>1, <2>2, <3>1
  <2>3. CASE u = w /\ wk'[u].pc # "idle"
    <3>1. q \in Runs /\ wk'[u].run = q
      BY <1>0, <2>1, <2>3
    <3>2. Knows(u, backed)'
      <4>1. /\ wk'[u].pc = "audit" /\ wk'[u].event \in Truths => run'[q] = wk'[u].event
            /\ backed /\ wk'[u].pc \in Executed => risk'[q] # {} \/ Cancelling(q)'
        BY <1>1, <1>6, <2>3, <3>1, MoverKnows
      <4> QED BY <3>1, <4>1 DEF Knows
    <3>3. ASSUME Current(u)' PROVE Owns(u, backed, judged)'
      <4>1. Owns(u, backed, judged)
        BY <2>1, <2>3, <3>3 DEF Current
      <4>2. /\ wk'[u].pc \in Executing =>
                 \A s \in Stages : s \in wk'[u].todo \/ Ended(q, s)'
            /\ backed /\ wk'[u].pc \in Executed => AllEnded(q)' \/ Cancelling(q)'
            /\ backed /\ wk'[u].pc = "pause" => recs'[q] = Done(q)'
            /\ judged /\ wk'[u].pc \in Trusting => wk'[u].event = Finish(q)'
            /\ wk'[u].pc \in {"boundary", "durable"} /\ wk'[u].step # "canonicalize"
                 => decision'[q] = {Done(q)'}
            /\ wk'[u].pc = "complete" /\ supervised'[q] => decision'[q] = {Done(q)'}
        BY <1>1, <1>6, <2>3, <3>1, <4>1, MoverOwns
      <4> QED BY <3>1, <4>2 DEF Owns
    <3> QED BY <3>2, <3>3
  <2> QED BY <1>2, <2>1, <2>2, <2>3
<1> QED BY <1>4, <1>5, <1>6
  DEF Legal, Elsewhere, Take, Sweep, CreateRun, Cancel, Decide, Expire, Overrun, vars

(***************************************************************************)
(* A run enters an outcome or a pause only by the hand of its lease holder.*)
(***************************************************************************)
Outcome == {"completed", "partial", "awaiting_review"}

LEMMA StepEnters ==
  ASSUME TypeOK, RunJobCoherent, NEW w \in Workers, Step(w), Concludes(w), NEW q \in Runs,
         run'[q] \in Outcome, run'[q] # run[q]
  PROVE  /\ q = wk[w].run /\ Holds(w) /\ run[q] = "running"
         /\ UNCHANGED <<stage, risk, recs, decision, supervised, fin>>
         /\ \/ /\ run'[q] = "awaiting_review" /\ wk[w].pc = "pause" /\ decision[q] = {}
            \/ /\ run'[q] = wk[w].event /\ wk[w].pc = "complete"
               /\ wk[w].event \in {"completed", "partial"}
               /\ supervised[q] => FinalizationVerified(q)
<1>0. Holds(w) /\ q = wk[w].run => run[q] \in {"running", "cancel_requested"}
  BY RunOfJob DEF Holds, RunJobCoherent, Coherent
<1>1. CASE PauseForReview(w)
  <2>1. /\ run' = [run EXCEPT ![wk[w].run] = "awaiting_review"]
        /\ wk[w].pc = "pause" /\ decision[wk[w].run] = {} /\ Holds(w)
        /\ run[wk[w].run] = "running"
        /\ UNCHANGED <<stage, risk, recs, decision, supervised, fin>>
    BY <1>1 DEF PauseForReview
  <2>2. q = wk[w].run
    BY <2>1 DEF TypeOK
  <2> QED BY <2>1, <2>2 DEF TypeOK
<1>2. CASE Complete(w)
  <2>1. /\ run' = [run EXCEPT ![wk[w].run] = wk[w].event]
        /\ wk[w].pc = "complete" /\ Holds(w)
        /\ supervised[wk[w].run] => FinalizationVerified(wk[w].run)
        /\ run[wk[w].run] # "cancel_requested"
        /\ UNCHANGED <<stage, risk, recs, decision, supervised, fin>>
    BY <1>2 DEF Complete
  <2>2. q = wk[w].run
    BY <2>1 DEF TypeOK
  <2>3. wk[w].event \in {"completed", "partial"}
    BY <2>1 DEF Concludes
  <2> QED BY <1>0, <2>1, <2>2, <2>3 DEF TypeOK
<1>3. CASE CompleteCancelled(w) \/ Fail(w)
  <2>1. \/ run' = run
        \/ \E s \in {"cancelled", "queued", "failed"} : run' = [run EXCEPT ![wk[w].run] = s]
    BY <1>3 DEF CompleteCancelled, Fail
  <2> QED BY <2>1 DEF TypeOK, Outcome
<1>4. run' # run
  OBVIOUS
<1> QED BY <1>1, <1>2, <1>3, <1>4
  DEF Step, Load, BeforeStage, LoseLease, StartStage, PersistStage, AfterStages, Advise,
      Settle, FinBoundary, FinDurable, FinStorageError, MarkPendingCancelled, Audit,
      UnchangedTables

LEMMA ElsewhereEnters ==
  ASSUME TypeOK, Elsewhere \/ UNCHANGED vars, NEW q \in Runs, run'[q] \in Outcome
  PROVE  run'[q] = run[q]
<1> SUFFICES ASSUME run'[q] # run[q] PROVE FALSE
  OBVIOUS
<1>1. ASSUME NEW r \in Runs, NEW sup \in BOOLEAN, CreateRun(r, sup) PROVE FALSE
  BY <1>1 DEF CreateRun, TypeOK, Outcome
<1>2. ASSUME NEW r \in Runs, Cancel(r) \/ Decide(r) PROVE FALSE
  BY <1>2 DEF Cancel, Decide, TypeOK, Outcome
<1>3. ASSUME NEW w \in Workers, NEW r \in Runs, Claim(w, r) PROVE FALSE
  BY <1>3 DEF Claim, SweptRun, TypeOK, Outcome
<1>4. ASSUME NEW w \in Workers, Sweep(w) PROVE FALSE
  BY <1>4 DEF Sweep, SweptRun, TypeOK, Outcome
<1>5. run' # run
  OBVIOUS
<1> QED BY <1>1, <1>2, <1>3, <1>4, <1>5
  DEF Elsewhere, Take, Expire, Overrun, Raise, Crash, vars

\* A decision returns its run to the queue.
LEMMA DecisionRequeues ==
  ASSUME TypeOK, [Next]_vars, NEW q \in Runs, decision'[q] # decision[q]
  PROVE  run[q] = "awaiting_review" /\ run'[q] = "queued"
<1>1. ASSUME NEW r \in Runs, Decide(r) PROVE run[q] = "awaiting_review" /\ run'[q] = "queued"
  BY <1>1 DEF Decide, TypeOK
<1>2. ASSUME NEW w \in Workers, Step(w) PROVE decision' = decision
  BY <1>2
  DEF Step, Load, BeforeStage, LoseLease, StartStage, PersistStage, AfterStages,
      Advise, PauseForReview, Settle, FinBoundary, FinDurable, FinStorageError,
      Complete, MarkPendingCancelled, CompleteCancelled, Fail, Audit, UnchangedTables
<1>3. decision' # decision
  OBVIOUS
<1> QED BY <1>1, <1>2, <1>3
  DEF Next, Take, Claim, Sweep, CreateRun, Cancel, Expire, Overrun, Raise, Crash, vars

\* What the four properties say of one run.
Rightful(r, backed) ==
    /\ backed /\ run[r] = "completed" => Done(r) = Stages
    /\ backed /\ run[r] = "partial" => AllEnded(r)
    /\ supervised[r] /\ run[r] \in {"completed", "partial"}
         => decision[r] = {Done(r)} /\ fin[r] = "verified"
    /\ backed /\ run[r] = "awaiting_review" => Documented(r) /\ decision[r] = {}

\* A run that is over, or paused, has no lease holder and stays as it is.
LEMMA OutcomeKept ==
  ASSUME TypeOK, RunJobCoherent, ReviewOrder, Legal, NEW q \in Runs,
         NEW backed \in BOOLEAN, Rightful(q, backed), run[q] \in Outcome, run'[q] = run[q]
  PROVE  Rightful(q, backed)'
<1>1. \A w \in Workers : ~(Holds(w) /\ wk[w].run = q)
  <2>1. job[q] = "completed"
    BY JobsOfStatus DEF RunJobCoherent, Outcome
  <2> QED BY <2>1 DEF Holds
<1>2. /\ Done(q)' = Done(q) /\ recs'[q] = recs[q]
      /\ \A s \in Stages : Ended(q, s) => Ended(q, s)'
  BY <1>1, LegalNext, NextQuiet, QuietKeeps
<1>3. supervised'[q] = supervised[q] /\ run'[q] # "queued"
  BY LifeForward DEF Outcome
<1>4. decision'[q] = decision[q]
  BY <1>3, LegalNext, DecisionRequeues
<1>5. /\ risk[q] # {} => risk'[q] # {}
      /\ fin[q] = "verified" => fin'[q] = "verified"
  BY LegalNext, RowsGrow
<1>6. AllEnded(q) => AllEnded(q)'
  BY <1>2 DEF AllEnded
<1>7. Documented(q) => Documented(q)'
  BY <1>2, <1>5 DEF Documented
<1> QED BY <1>2, <1>3, <1>4, <1>5, <1>6, <1>7 DEF Rightful

\* The lease holder that ends or pauses a run has what the run must have.
LEMMA OutcomeEarned ==
  ASSUME TypeOK, RunJobCoherent, NEW w \in Workers, Step(w), Concludes(w), NEW q \in Runs,
         NEW backed \in BOOLEAN, NEW judged \in BOOLEAN, wk[w].pc = "complete" => judged,
         Knows(w, backed), Current(w) => Owns(w, backed, judged),
         run'[q] \in Outcome, run'[q] # run[q]
  PROVE  Rightful(q, backed)'
<1>1. /\ q = wk[w].run /\ Holds(w) /\ run[q] = "running"
      /\ UNCHANGED <<stage, risk, recs, decision, supervised, fin>>
      /\ \/ /\ run'[q] = "awaiting_review" /\ wk[w].pc = "pause" /\ decision[q] = {}
         \/ /\ run'[q] = wk[w].event /\ wk[w].pc = "complete"
            /\ wk[w].event \in {"completed", "partial"}
            /\ supervised[q] => FinalizationVerified(q)
  BY StepEnters
<1>2. Owns(w, backed, judged) /\ ~Cancelling(q)
  BY <1>1 DEF Current, Holds, Cancelling
<1>3. backed => AllEnded(q) /\ risk[q] # {}
  BY <1>1, <1>2 DEF Owns, Knows, Executed
<1>4. Done(q)' = Done(q) /\ (backed => AllEnded(q)')
  BY <1>1, <1>3 DEF Done, AllEnded, Ended
<1>5. CASE wk[w].pc = "pause"
  <2>1. run'[q] = "awaiting_review" /\ decision[q] = {} /\ (backed => recs[q] = Done(q))
    BY <1>1, <1>2, <1>5 DEF Owns
  <2>2. backed => Documented(q)'
    BY <1>1, <1>3, <1>4, <2>1 DEF Documented
  <2> QED BY <1>1, <2>1, <2>2 DEF Rightful
<1>6. CASE wk[w].pc = "complete"
  <2>1. /\ run'[q] = Finish(q) /\ run'[q] \in {"completed", "partial"}
        /\ supervised[q] => decision[q] = {Done(q)} /\ fin[q] = "verified"
    BY <1>1, <1>2, <1>6 DEF Owns, Trusting, FinalizationVerified
  <2>2. backed /\ run'[q] = "completed" => Done(q)' = Stages
    <3>1. ASSUME Finish(q) = "completed" PROVE \A s \in Stages : stage[q][s] # "failed"
      BY <3>1 DEF Finish
    <3> QED BY <1>3, <1>4, <2>1, <3>1 DEF AllEnded, Ended, Done
  <2> QED BY <1>1, <1>4, <2>1, <2>2 DEF Rightful
<1> QED BY <1>1, <1>5, <1>6

\* Audit events stay true, because an outcome is final and the event that a
\* worker appends is the outcome it committed.
LEMMA TrailKept ==
  ASSUME TypeOK, RunJobCoherent, ReviewOrder, Legal, AuditTellsTruth,
         \A w \in Workers : \E backed \in BOOLEAN : Knows(w, backed)
  PROVE  AuditTellsTruth'
<1> SUFFICES ASSUME NEW q \in Runs, NEW e \in trail'[q] \intersect Truths
             PROVE  run'[q] = e
  BY DEF AuditTellsTruth, Truths
<1>1. run[q] \in Truths => run'[q] = run[q]
  BY LifeForward
<1>2. CASE e \in trail[q]
  BY <1>1, <1>2 DEF AuditTellsTruth, Truths
<1>3. ASSUME NEW w \in Workers, NEW appended \in BOOLEAN, Audit(w, appended)
      PROVE  run'[q] = e
  <2>1. /\ wk[w].pc = "audit" /\ run' = run
        /\ \/ trail' = trail
           \/ trail' = [trail EXCEPT ![wk[w].run] = @ \union {wk[w].event}]
    BY <1>3 DEF Audit
  <2>2. CASE e \notin trail[q]
    <3>1. q = wk[w].run /\ e = wk[w].event
      BY <2>1, <2>2 DEF TypeOK
    <3> QED BY <2>1, <3>1 DEF Knows
  <2> QED BY <1>2, <2>2
<1>4. CASE trail' = trail
  BY <1>2, <1>4
<1>5. ASSUME NEW w \in Workers, Step(w) PROVE run'[q] = e
  BY <1>3, <1>4, <1>5
  DEF Step, Load, BeforeStage, LoseLease, StartStage, PersistStage, AfterStages,
      Advise, PauseForReview, Settle, FinBoundary, FinDurable, FinStorageError,
      Complete, MarkPendingCancelled, CompleteCancelled, Fail, UnchangedTables
<1> QED BY <1>4, <1>5
  DEF Legal, Elsewhere, Take, Claim, Sweep, CreateRun, Cancel, Decide, Expire, Overrun,
      Raise, Crash, vars

\* The four properties are what Rightful says of every run.
LEMMA RightfulRuns ==
  (\A r \in Runs : Rightful(r, TRUE)) <=> /\ EveryStageAccountedFor
                                          /\ OnlyReviewedResultsComplete
                                          /\ PausedRunIsDecidable
  BY DEF Rightful, AllEnded, Ended, EveryStageAccountedFor, AccountsForStages,
         OnlyReviewedResultsComplete, PausedRunIsDecidable

LEMMA LegalAttempts ==
  TypeOK /\ RunJobCoherent /\ Fenced /\ ReviewOrder /\ Attempts /\ Legal => Attempts'
<1> SUFFICES ASSUME TypeOK, RunJobCoherent, Fenced, ReviewOrder, Attempts, Legal
             PROVE  Attempts'
  OBVIOUS
<1>1. \A w \in Workers : Knows(w, TRUE) /\ (Current(w) => Owns(w, TRUE, TRUE))
  BY DEF Attempts
<1>2. \A w \in Workers : Knows(w, TRUE)' /\ (Current(w)' => Owns(w, TRUE, TRUE)')
  BY <1>1, LegalAttempt
<1>3. \A r \in Runs : Rightful(r, TRUE)
  BY RightfulRuns DEF Attempts
<1>4. ASSUME NEW r \in Runs PROVE Rightful(r, TRUE)'
  <2>1. CASE run'[r] \notin Outcome
    BY <2>1 DEF Rightful, Outcome
  <2>2. CASE run'[r] \in Outcome /\ run'[r] = run[r]
    BY <1>3, <2>2, OutcomeKept
  <2>3. CASE run'[r] \in Outcome /\ run'[r] # run[r]
    BY <1>1, <2>3, ElsewhereEnters, OutcomeEarned DEF Legal
  <2> QED BY <2>1, <2>2, <2>3
<1>5. EveryStageAccountedFor' /\ OnlyReviewedResultsComplete' /\ PausedRunIsDecidable'
  BY <1>4 DEF Rightful, AllEnded, Ended, EveryStageAccountedFor, AccountsForStages,
               OnlyReviewedResultsComplete, PausedRunIsDecidable
<1>6. AuditTellsTruth'
  BY <1>1, TrailKept DEF Attempts
<1> QED BY <1>2, <1>5, <1>6 DEF Attempts

LEMMA InitAttempts == Init => Attempts
<1> SUFFICES ASSUME Init PROVE Attempts
  OBVIOUS
<1>1. ASSUME NEW w \in Workers PROVE Knows(w, TRUE) /\ (Current(w) => Owns(w, TRUE, TRUE))
  <2>1. wk[w].pc = "idle"
    BY DEF Init, IdleWorker
  <2> QED BY <2>1 DEF Knows, Current, Executed
<1>2. \A r \in Runs : Rightful(r, TRUE)
  BY DEF Init, Rightful
<1>3. AuditTellsTruth
  BY DEF Init, AuditTellsTruth
<1> QED BY <1>1, <1>2, <1>3, RightfulRuns DEF Attempts

LEMMA AttemptsHold == Spec => []Attempts
<1>1. Init => RunJobCoherent /\ Fenced /\ ReviewOrder
  BY JobsOfStatus DEF Init, RunJobCoherent, Fenced, LeaseExclusive, ReviewOrder, IdleWorker
<1> QED BY <1>1, InitAttempts, TypedHolds, NextLegal, LegalCoherent, NextFenced,
          LegalReviewOrder, LegalAttempts, PTL DEF Spec

\* A completed run has the results of every stage, a partial one a definite
\* result for each, whoever resumed it.
THEOREM StagesAccountedFor == Spec => []EveryStageAccountedFor
<1>1. Attempts => EveryStageAccountedFor
  BY DEF Attempts
<1> QED BY <1>1, AttemptsHold, PTL

\* A supervised run completes only with the results its supervisor decided on.
THEOREM ReviewBinds == Spec => []OnlyReviewedResultsComplete
<1>1. Attempts => OnlyReviewedResultsComplete
  BY DEF Attempts
<1> QED BY <1>1, AttemptsHold, PTL

\* decide() finds everything it needs for a run that awaits review.
THEOREM PausesAreDecidable == Spec => []PausedRunIsDecidable
<1>1. Attempts => PausedRunIsDecidable
  BY DEF Attempts
<1> QED BY <1>1, AttemptsHold, PTL

\* A recorded completion or cancellation is the truth about the run.
THEOREM TrailIsTrue == Spec => []AuditTellsTruth
<1>1. Attempts => AuditTellsTruth
  BY DEF Attempts
<1> QED BY <1>1, AttemptsHold, PTL

(***************************************************************************)
(* Graph-supervised runs.                                                  *)
(***************************************************************************)
LEMMA Names ==
  /\ DOMAIN After = {"readiness", "analysis", "recommendations", "model_inference",
                     "reviewer_briefing", "human_review", "resumed", "trust_boundary"}
  /\ DOMAIN Rank = {"readiness", "analysis", "recommendations", "model_inference",
                    "reviewer_briefing", "human_review", "interrupted",
                    "trust_boundary", "end"}
  BY DEF After, Rank

\* The graph is a chain, and the rank counts its nodes.
LEMMA Chain ==
  ASSUME NEW n \in DOMAIN After
  PROVE  /\ After[n] \in DOMAIN Rank
         /\ n \notin {"human_review", "trust_boundary"}
              => After[n] \in DOMAIN After \ {"resumed"}
         /\ n = "human_review" => After[n] = "interrupted"
         /\ n = "trust_boundary" => After[n] = "end"
         /\ n = "resumed" => After[n] = "trust_boundary"
         /\ n # "resumed" => n \in DOMAIN Rank /\ Rank[After[n]] = Rank[n] + 1
  BY Names DEF After, Rank

\* A worker in a node, or about to open the graph, has taken up no finalization.
Opening == {"load", "before", "start", "evaluate", "executed", "node", "body", "leave"}

\* Where run_once and the graph may be at the same time.
Position(w) ==
    /\ node[w] # "none" => wk[w].pc \in InsideNode /\ graph[wk[w].run]
    /\ wk[w].pc \in {"node", "body", "leave"} => node[w] # "none"
    /\ wk[w].pc = "body" => node[w] = "recommendations"
    /\ wk[w].pc \in Executing \union {"executed"} /\ graph[wk[w].run] => node[w] = "analysis"
    /\ wk[w].pc = "load" => node[w] \in {"none", "analysis"}
    /\ wk[w].pc \in Trusting => node[w] \in {"none", "trust_boundary"}
    /\ wk[w].pc = "leave" => node[w] # "trust_boundary"
    /\ wk[w].pc \in Opening => wk[w].step = "canonicalize"
    /\ node[w] = "none" => Heads(w)

\* The lease holder is in the node that the checkpoint names, and a node that is
\* about to be checkpointed has stored its results.
Steers(w, r) ==
    /\ node[w] \notin {"none", "resumed"} => ckpt[r] = node[w]
    /\ node[w] = "resumed" => ckpt[r] = "interrupted" /\ decision[r] # {}
    /\ wk[w].pc = "leave" /\ node[w] = "analysis"
         => risk[r] # {} /\ Done(r) # {} /\ AllEnded(r)
    /\ wk[w].pc = "leave" /\ node[w] = "recommendations" => recs[r] = Done(r)
    /\ wk[w].pc = "pause" => ckpt[r] = "interrupted" /\ decision[r] = {}
    /\ wk[w].pc = "complete" /\ node[w] = "trust_boundary" => fin[r] = "verified"

Steering(w) ==
    wk[w].pc # "idle" /\ graph[wk[w].run] /\ ~unfenced[wk[w].run] /\ Holds(w)
        => Steers(w, wk[w].run)

\* What the tables say of the checkpoint: CheckpointIsBacked for one run, ...
Covered(r) ==
    graph[r] /\ ~unfenced[r] =>
        /\ Past(r, "analysis") => risk[r] # {} /\ Done(r) # {} /\ AllEnded(r)
        /\ Past(r, "recommendations") => recs[r] = Done(r)
        /\ Past(r, "interrupted") => decision[r] # {}
        /\ ckpt[r] = "end" => fin[r] = "verified"

\* ... and where a run's graph may stand.
Stationed(r) ==
    /\ run[r] = "none" => decision[r] = {}
    /\ graph[r] => supervised[r] /\ run[r] # "none"
    /\ ~graph[r] => ckpt[r] = "readiness"
    /\ graph[r] /\ ~unfenced[r] /\ decision[r] # {}
         => ckpt[r] \in {"interrupted", "trust_boundary", "end"}
    /\ graph[r] /\ ~unfenced[r] /\ run[r] = "awaiting_review" => ckpt[r] = "interrupted"

\* In a run whose checkpoint a worker without the lease has written nothing is
\* known to be backed; inside the graph the verdict has yet to be judged.
Informed(w) ==
    wk[w].pc # "idle" =>
        /\ Knows(w, ~unfenced[wk[w].run])
        /\ Current(w) => Owns(w, ~unfenced[wk[w].run], node[w] = "none")

GraphInv ==
    /\ GraphTypeOK /\ RunJobCoherent /\ Fenced /\ ReviewOrder
    /\ \A w \in Workers : Position(w) /\ Steering(w) /\ Informed(w)
    /\ \A r \in Runs : Covered(r) /\ Stationed(r) /\ Rightful(r, ~unfenced[r])
    /\ AuditTellsTruth

(***************************************************************************)
(* Every step is one the two modes have in common, in which a worker takes *)
(* no part in the graph, or one of the graph's own.                        *)
(***************************************************************************)
Shares(w) ==
    /\ wk[w].pc # "idle" /\ Step(w)
    /\ wk[w].pc = "complete" => node[w] = "none"
    /\ graph[wk[w].run] => /\ wk[w].pc \notin {"executed", "pause"}
                           /\ wk[w].pc = "load" => node[w] = "analysis"

Common ==
    /\ Elsewhere \/ UNCHANGED vars \/ \E w \in Workers : Shares(w)
    /\ UNCHANGED <<ckpt, unfenced>>
    /\ node' \in [Workers -> DOMAIN After \union {"none"}]
    /\ \A v \in Workers :
          node'[v] = IF wk'[v].pc \in InsideNode THEN node[v] ELSE "none"
    /\ graph' \in [Runs -> BOOLEAN]
    /\ \A r \in Runs : graph'[r] # graph[r] =>
          run[r] = "none" /\ run'[r] # "none" /\ supervised'[r]

Own(w) ==
    /\ wk[w].pc # "idle" /\ graph[wk[w].run]
    /\ \/ OpenGraph(w) \/ EnterNode(w) \/ LeaveAnalysis(w) \/ Recommend(w)
       \/ LeaveNode(w) \/ GraphPause(w) \/ RaiseInNode(w)

LEMMA StepActive ==
  ASSUME NEW w \in Workers, Step(w)
  PROVE  wk[w].pc # "idle"
  BY DEF Step, Load, BeforeStage, LoseLease, StartStage, PersistStage, AfterStages,
         Advise, PauseForReview, Settle, FinBoundary, FinDurable, FinStorageError,
         Complete, MarkPendingCancelled, CompleteCancelled, Fail, Audit

LEMMA SharedShares ==
  ASSUME NEW w \in Workers, SharedStep(w)
  PROVE  Shares(w)
<1>1. Step(w) /\ wk[w].pc # "idle"
  BY DEF SharedStep, Step, GraphRunOf
<1>2. /\ wk[w].pc = "complete" => node[w] = "none"
      /\ wk[w].pc \notin {"executed", "pause"}
      /\ wk[w].pc = "load" => node[w] = "analysis"
  BY DEF SharedStep, Load, BeforeStage, LoseLease, StartStage, PersistStage, AfterStages,
         Settle, FinBoundary, FinDurable, FinStorageError,
         Complete, MarkPendingCancelled, CompleteCancelled, Fail, Audit
<1> QED BY <1>1, <1>2 DEF Shares

\* A worker that is left alone stays in its node.
LEMMA NodesFollow ==
  ASSUME GraphTypeOK, NEW w \in Workers, \A v \in Workers : Position(v),
         NodeFollows(w), \A v \in Workers : v # w => wk'[v] = wk[v]
  PROVE  /\ node' \in [Workers -> DOMAIN After \union {"none"}]
         /\ \A v \in Workers :
               node'[v] = IF wk'[v].pc \in InsideNode THEN node[v] ELSE "none"
  BY DEF GraphTypeOK, NodeFollows, Position

LEMMA NodesStay ==
  ASSUME GraphTypeOK, \A v \in Workers : Position(v), node' = node,
         \A v \in Workers : node[v] # "none" => wk'[v] = wk[v]
  PROVE  /\ node' \in [Workers -> DOMAIN After \union {"none"}]
         /\ \A v \in Workers :
               node'[v] = IF wk'[v].pc \in InsideNode THEN node[v] ELSE "none"
  BY DEF GraphTypeOK, Position

LEMMA GraphCases ==
  ASSUME GraphInv, [GraphNext]_allVars
  PROVE  Common \/ \E w \in Workers : Own(w)
<1>0. GraphTypeOK /\ TypeOK /\ WorkersTyped /\ \A w \in Workers : Position(w)
  BY DEF GraphInv, GraphTypeOK, TypeOK, WorkersTyped
<1>1. ASSUME NEW r \in Runs, CreateGraphRun(r) PROVE Common
  <2>1. /\ CreateRun(r, TRUE) /\ UNCHANGED <<ckpt, unfenced, node>>
        /\ graph' = [graph EXCEPT ![r] = TRUE]
    BY <1>1 DEF CreateGraphRun
  <2>2. wk' = wk /\ run[r] = "none" /\ run'[r] = "queued" /\ supervised'[r] = TRUE
    BY <1>0, <2>1 DEF CreateRun, TypeOK
  <2>3. graph' \in [Runs -> BOOLEAN] /\ \A q \in Runs : graph'[q] # graph[q] => q = r
    BY <1>0, <2>1 DEF GraphTypeOK
  <2> QED BY <1>0, <2>1, <2>2, <2>3, NodesStay DEF Common, Elsewhere
<1>2. ASSUME UNCHANGED graphVars, UNCHANGED wk, Elsewhere \/ UNCHANGED vars PROVE Common
  BY <1>0, <1>2, NodesStay DEF graphVars, Common, GraphTypeOK
<1>3. ASSUME NEW w \in Workers, TakeAny(w) PROVE Common
  <2>1. Take(w) /\ UNCHANGED graphVars /\ Elsewhere
    BY <1>3 DEF TakeAny, Elsewhere
  <2>2. wk[w].pc = "idle" /\ \A v \in Workers : v # w => wk'[v] = wk[v]
    BY <1>0, <2>1 DEF Take, Claim, Sweep, TypeOK
  <2>3. node[w] = "none"
    BY <1>0, <2>2 DEF Position, InsideNode
  <2> QED BY <1>0, <2>1, <2>2, <2>3, NodesStay DEF graphVars, Common, GraphTypeOK
<1>4. ASSUME NEW w \in Workers, SharedStep(w) PROVE Common
  <2>1. /\ Shares(w) /\ Step(w) /\ NodeFollows(w) /\ UNCHANGED <<graph, ckpt, unfenced>>
    BY <1>4, SharedShares DEF SharedStep, Shares
  <2>2. \A v \in Workers : v # w => wk'[v] = wk[v]
    BY <1>0, <2>1, KeepsIdentity
  <2> QED BY <1>0, <2>1, <2>2, NodesFollow DEF Common, GraphTypeOK
<1>5. ASSUME NEW w \in Workers, StandardStep(w) PROVE Common
  <2>1. /\ wk[w].pc # "idle" /\ ~graph[wk[w].run] /\ Step(w) /\ UNCHANGED graphVars
    BY <1>5 DEF StandardStep
  <2>2. \A v \in Workers : v # w => wk'[v] = wk[v]
    BY <1>0, <2>1, KeepsIdentity
  <2>3. node[w] = "none"
    BY <1>0, <2>1 DEF Position
  <2>4. Shares(w)
    BY <2>1, <2>3 DEF Shares
  <2> QED BY <1>0, <2>1, <2>2, <2>3, <2>4, NodesStay DEF graphVars, Common, GraphTypeOK
<1>6. ASSUME NEW w \in Workers, Raise(w) \/ Crash(w), NodeFollows(w),
             UNCHANGED <<graph, ckpt, unfenced>>
      PROVE  Common
  <2>1. \A v \in Workers : v # w => wk'[v] = wk[v]
    BY <1>0, <1>6, KeepsIdentity
  <2> QED BY <1>0, <1>6, <2>1, NodesFollow DEF Common, GraphTypeOK, Elsewhere
<1>7. ASSUME NEW w \in Workers, GraphStep(w) \/ RaiseInNode(w) PROVE Common \/ Own(w)
  <2>1. CASE RaiseInNode(w)
    BY <1>0, <2>1 DEF RaiseInNode, Own, Position
  <2> QED BY <1>4, <1>7, <2>1 DEF GraphStep, GraphRunOf, Own
<1>8. ASSUME NEW r \in Runs,
             \/ \E sup \in BOOLEAN : CreateRun(r, sup)
             \/ Cancel(r) \/ Decide(r) \/ Expire(r) \/ Overrun(r)
      PROVE  UNCHANGED wk /\ Elsewhere
  BY <1>8 DEF CreateRun, Cancel, Decide, Expire, Overrun, Elsewhere
<1>9. CASE UNCHANGED allVars
  BY <1>2, <1>9 DEF allVars, vars
<1> QED BY <1>1, <1>2, <1>3, <1>5, <1>6, <1>7, <1>8, <1>9 DEF GraphNext, WorkerStep

LEMMA SharesConcludes ==
  ASSUME GraphInv, NEW w \in Workers, Shares(w)
  PROVE  Step(w) /\ Concludes(w)
  BY DEF GraphInv, Position, Shares, Heads, Trusting, Concludes

LEMMA CommonLegal ==
  ASSUME GraphInv, Common
  PROVE  Legal
  BY SharesConcludes DEF Common, Legal

(***************************************************************************)
(* Where a step of AnalysisExecution takes a worker, seen from the graph.  *)
(***************************************************************************)
LEMMA IdleField ==
  ASSUME WorkersTyped, NEW w \in Workers, GoIdle(w)
  PROVE  wk'[w].pc = "idle"
  BY DEF GoIdle, IdleWorker, WorkersTyped, WorkerState

LEMMA FailField ==
  ASSUME WorkersTyped, NEW w \in Workers, NEW b, GoFail(w, b)
  PROVE  wk'[w].pc = "fail"
  BY DEF GoFail, WorkersTyped, WorkerState

Routed(w) ==
    /\ wk'[w].pc \notin {"load", "node", "body", "leave"}
    /\ wk'[w].pc \in Executing \union {"executed"} =>
          wk[w].pc \in {"load"} \union Executing /\ wk'[w].step = wk[w].step
    /\ wk'[w].pc \in Trusting => wk[w].pc \in Trusting \union {"settle"}
    /\ wk'[w].pc = "pause" => wk[w].pc = "executed"
    /\ wk'[w].pc = "complete" => wk[w].pc = "settle" \/ fin'[wk[w].run] = "verified"

LEMMA Route ==
  ASSUME TypeOK, NEW w \in Workers, Step(w) \/ Raise(w) \/ Crash(w)
  PROVE  Routed(w)
<1>0. WorkersTyped
  BY DEF TypeOK, WorkersTyped
<1>a. wk'[w].pc \in {"idle", "fail", "audit"} => Routed(w)
  BY DEF Routed, Executing, Trusting
<1>b. GoIdle(w) => Routed(w)
  BY <1>0, <1>a, IdleField
<1>c. ASSUME NEW b, GoFail(w, b) PROVE Routed(w)
  BY <1>0, <1>a, <1>c, FailField
<1>d. ASSUME NEW e, GoAudit(w, e) PROVE Routed(w)
  BY <1>0, <1>a, <1>d, AuditFields
<1>e. ASSUME NEW p \in {"mark", "cancel", "settle", "durable"}, Goto(w, p),
             p = "durable" => wk[w].pc = "boundary"
      PROVE  Routed(w)
  BY <1>0, <1>e, GotoFields DEF Routed, Executing, Trusting
<1>1. CASE Load(w)
  <2>1. wk[w].pc = "load" /\ wk'[w].pc = "before" /\ wk'[w].step = wk[w].step
    BY <1>0, <1>1 DEF Load, WorkersTyped, WorkerState
  <2> QED BY <2>1 DEF Routed, Executing, Trusting
<1>2. CASE BeforeStage(w)
  BY <1>0, <1>2, GotoFields DEF BeforeStage, Routed, Executing, Trusting
<1>3. CASE LoseLease(w)
  BY <1>0, <1>b, <1>c, <1>d, <1>e, <1>3 DEF LoseLease
<1>4. CASE StartStage(w)
  <2>1. wk[w].pc = "start" /\ (Goto(w, "evaluate") \/ GoIdle(w))
    BY <1>4 DEF StartStage
  <2> QED BY <1>0, <1>b, <2>1, GotoFields DEF Routed, Executing, Trusting
<1>5. ASSUME NEW result \in {"ok", "transient", "fatal"}, PersistStage(w, result)
      PROVE  Routed(w)
  <2>1. /\ wk[w].pc = "evaluate"
        /\ \/ GoIdle(w)
           \/ wk'[w].pc = "before" /\ wk'[w].step = wk[w].step
    BY <1>0, <1>5 DEF PersistStage, WorkersTyped, WorkerState
  <2> QED BY <1>b, <2>1 DEF Routed, Executing, Trusting
<1>6. CASE AfterStages(w)
  <2>1. wk[w].pc = "before" /\ (Goto(w, "executed") \/ GoFail(w, TRUE))
    BY <1>6 DEF AfterStages
  <2>2. Goto(w, "executed") => Routed(w)
    BY <1>0, <2>1, GotoFields DEF Routed, Executing, Trusting
  <2> QED BY <1>c, <2>1, <2>2
<1>7. CASE Advise(w)
  <2>1. wk[w].pc = "executed" /\ (Goto(w, "settle") \/ Goto(w, "pause") \/ GoIdle(w))
    BY <1>7 DEF Advise
  <2>2. Goto(w, "pause") => Routed(w)
    BY <1>0, <2>1, GotoFields DEF Routed, Executing, Trusting
  <2> QED BY <1>b, <1>e, <2>1, <2>2
<1>8. CASE PauseForReview(w)
  BY <1>0, <1>b, <1>c, <1>d, <1>e, <1>8, GotoFields DEF PauseForReview
<1>9. CASE Settle(w)
  <2>1. wk[w].pc = "settle"
    BY <1>9 DEF Settle
  <2>2. \/ Goto(w, "mark") \/ GoFail(w, FALSE)
        \/ \E p \in {"boundary", "complete"} : \E e :
              wk' = [wk EXCEPT ![w].pc = p, ![w].step = "canonicalize", ![w].event = e]
    BY <1>9 DEF Settle
  <2>3. ASSUME NEW p \in {"boundary", "complete"}, NEW e,
               wk' = [wk EXCEPT ![w].pc = p, ![w].step = "canonicalize", ![w].event = e]
        PROVE  wk'[w].pc = p
    BY <1>0, <2>3 DEF WorkersTyped, WorkerState
  <2>4. (\E p \in {"boundary", "complete"} : \E e :
            wk' = [wk EXCEPT ![w].pc = p, ![w].step = "canonicalize", ![w].event = e])
          => Routed(w)
    BY <2>1, <2>3 DEF Routed, Executing, Trusting
  <2> QED BY <1>c, <1>e, <2>2, <2>4
<1>10. CASE FinBoundary(w)
  BY <1>0, <1>10, GotoFields DEF FinBoundary, Routed, Executing, Trusting
<1>11. CASE FinDurable(w)
  <2>1. CASE ChecksDocument(wk[w].run, wk[w].step) /\ ~ReviewedContext(wk[w].run)
    BY <1>0, <1>b, <1>c, <1>d, <1>e, <1>11, <2>1 DEF FinDurable
  <2>2. CASE ~(ChecksDocument(wk[w].run, wk[w].step) /\ ~ReviewedContext(wk[w].run))
    <3>1. /\ wk[w].pc = "durable"
          /\ wk'[w].pc = IF wk[w].step = "seal" THEN "complete" ELSE "boundary"
          /\ fin' = [fin EXCEPT ![wk[w].run] = FinAdvance(wk[w].run, wk[w].step)]
      BY <1>0, <1>11, <2>2 DEF FinDurable, WorkersTyped, WorkerState
    <3>2. wk[w].run \in Runs
      BY <1>0, <3>1, ActiveWorker
    <3>3. wk[w].step = "seal" => fin'[wk[w].run] = "verified"
      BY <3>1, <3>2 DEF TypeOK, FinAdvance
    <3> QED BY <3>1, <3>3 DEF Routed, Executing, Trusting
  <2> QED BY <2>1, <2>2
<1>12. CASE FinStorageError(w)
  BY <1>0, <1>b, <1>c, <1>d, <1>e, <1>12 DEF FinStorageError
<1>13. CASE Complete(w)
  BY <1>0, <1>b, <1>c, <1>d, <1>e, <1>13, GotoFields DEF Complete
<1>14. CASE MarkPendingCancelled(w)
  BY <1>0, <1>14, GotoFields DEF MarkPendingCancelled, Routed, Executing, Trusting
<1>15. CASE CompleteCancelled(w)
  BY <1>0, <1>b, <1>c, <1>d, <1>e, <1>15 DEF CompleteCancelled
<1>16. CASE Fail(w)
  BY <1>0, <1>b, <1>c, <1>d, <1>e, <1>16 DEF Fail
<1>17. ASSUME NEW appended \in BOOLEAN, Audit(w, appended) PROVE Routed(w)
  BY <1>0, <1>b, <1>c, <1>d, <1>e, <1>17 DEF Audit
<1>18. CASE Raise(w) \/ Crash(w)
  BY <1>0, <1>b, <1>c, <1>d, <1>e, <1>18 DEF Raise, Crash
<1> QED BY <1>1, <1>2, <1>3, <1>4, <1>5, <1>6, <1>7, <1>8, <1>9, <1>10, <1>11, <1>12,
          <1>13, <1>14, <1>15, <1>16, <1>17, <1>18 DEF Step

(***************************************************************************)
(* Steps in common: where the workers are.                                 *)
(***************************************************************************)
LEMMA CommonWorkers ==
  ASSUME TypeOK, Common, NEW v \in Workers
  PROVE  \/ wk'[v] = wk[v]
         \/ \E r \in Runs : Claim(v, r)
         \/ Shares(v) \/ Raise(v) \/ Crash(v)
<1>0. WorkersTyped
  BY DEF TypeOK, WorkersTyped
<1>1. ASSUME NEW w \in Workers, w # v, Step(w) \/ Raise(w) \/ Crash(w) PROVE wk'[v] = wk[v]
  BY <1>0, <1>1, KeepsIdentity
<1>2. ASSUME NEW w \in Workers, w # v, NEW r \in Runs, Claim(w, r) PROVE wk'[v] = wk[v]
  BY <1>2 DEF Claim, TypeOK
<1>3. ASSUME NEW w \in Workers, Shares(w) PROVE wk'[v] = wk[v] \/ Shares(v)
  BY <1>1, <1>3 DEF Shares
<1>4. CASE UNCHANGED wk
  BY <1>4
<1>5. CASE Elsewhere
  BY <1>1, <1>2, <1>4, <1>5
  DEF Elsewhere, Take, Sweep, CreateRun, Cancel, Decide, Expire, Overrun
<1> QED BY <1>3, <1>4, <1>5 DEF Common, vars

\* A run that workers execute, or that has been requested, has its kind fixed.
LEMMA CommonKind ==
  ASSUME GraphInv, Common
  PROVE  /\ \A r \in Runs : run[r] # "none" => graph'[r] = graph[r]
         /\ \A v \in Workers :
               /\ wk[v].pc # "idle" => /\ wk[v].run \in Runs
                                       /\ graph'[wk[v].run] = graph[wk[v].run]
               /\ wk[v].pc = "idle" => node[v] = "none"
<1>1. \A v \in Workers : wk[v].pc # "idle" => wk[v].run \in Runs /\ run[wk[v].run] # "none"
  BY DEF GraphInv, GraphTypeOK, TypeOK, WorkerState, ReviewOrder
<1> QED BY <1>1 DEF Common, GraphInv, Position, InsideNode

LEMMA CommonPosition ==
  ASSUME GraphInv, Common, NEW v \in Workers
  PROVE  Position(v)'
<1>0. /\ TypeOK /\ WorkersTyped /\ Position(v)
      /\ node'[v] = IF wk'[v].pc \in InsideNode THEN node[v] ELSE "none"
  BY DEF GraphInv, GraphTypeOK, TypeOK, WorkersTyped, Common
<1>1. CASE wk'[v] = wk[v]
  <2>1. CASE wk[v].pc = "idle"
    BY <1>0, <1>1, <2>1 DEF Position, InsideNode, Executing, Opening, Heads, Trusting
  <2>2. CASE wk[v].pc # "idle"
    <3>1. node'[v] = node[v] /\ graph'[wk[v].run] = graph[wk[v].run]
      BY <1>0, <1>1, <2>2, CommonKind DEF Position
    <3> QED BY <1>0, <1>1, <3>1 DEF Position, Heads
  <2> QED BY <2>1, <2>2
<1>2. ASSUME NEW r \in Runs, Claim(v, r) PROVE Position(v)'
  <2>1. wk[v].pc = "idle" /\ wk'[v].pc = "load" /\ wk'[v].step = "canonicalize"
    BY <1>0, <1>2 DEF Claim, TypeOK, IdleWorker
  <2>2. node'[v] = "none"
    BY <1>0, <2>1, CommonKind DEF InsideNode
  <2> QED BY <2>1, <2>2 DEF Position, Executing, Trusting, Heads
<1>3. CASE Shares(v) \/ Raise(v) \/ Crash(v)
  <2>1. /\ Routed(v)
        /\ \/ wk'[v].pc = "idle"
           \/ wk'[v].pc # "idle" /\ wk[v].pc # "idle" /\ wk'[v].run = wk[v].run
    BY <1>0, <1>3, Route, KeepsIdentity DEF Shares
  <2>2. Heads(v) => Heads(v)'
    <3>1. CASE Shares(v)
      BY <1>0, <3>1, StepHeads DEF Shares
    <3>2. CASE Raise(v) \/ Crash(v)
      <4>1. wk'[v].pc \in {"fail", "idle"}
        BY <1>0, <3>2, IdleField, FailField DEF Raise, Crash
      <4> QED BY <4>1 DEF Heads, Trusting
    <3> QED BY <1>3, <3>1, <3>2
  <2>3. CASE wk'[v].pc = "idle"
    BY <1>0, <2>3 DEF Position, InsideNode, Executing, Opening, Heads, Trusting
  <2>4. CASE wk'[v].pc # "idle"
    <3>1. graph'[wk'[v].run] = graph[wk[v].run]
      BY <2>1, <2>4, CommonKind
    <3>2. wk'[v].pc \in Executing \union {"executed"} /\ graph[wk[v].run]
             => node[v] = "analysis" /\ wk'[v].step = "canonicalize"
      <4>1. wk[v].pc = "load" /\ graph[wk[v].run] /\ wk'[v].pc \in Executing \union {"executed"}
              => node[v] = "analysis"
        <5>1. CASE Shares(v)
          BY <5>1 DEF Shares
        <5>2. CASE Raise(v) \/ Crash(v)
          <6>1. wk'[v].pc \in {"fail", "idle"}
            BY <1>0, <5>2, IdleField, FailField DEF Raise, Crash
          <6> QED BY <6>1 DEF Executing
        <5> QED BY <1>3, <5>1, <5>2
      <4> QED BY <1>0, <2>1, <4>1 DEF Position, Routed, Opening, Executing
    <3>3. wk'[v].pc \in Opening => wk'[v].step = "canonicalize"
      BY <1>0, <2>1 DEF Position, Routed, Opening, Executing
    <3>4. wk'[v].pc \in Trusting => node'[v] \in {"none", "trust_boundary"}
      BY <1>0, <2>1 DEF Position, Routed, Trusting, InsideNode
    <3>5. node'[v] = "none" => Heads(v)'
      <4>1. wk'[v].pc \in Trusting /\ node'[v] = "none" => node[v] = "none"
        BY <1>0 DEF Trusting, InsideNode
      <4> QED BY <1>0, <2>2, <4>1 DEF Position, Heads
    <3>6. wk'[v].pc \in Executing \union {"executed"} => wk'[v].pc \in InsideNode
      BY DEF Executing, InsideNode
    <3> QED BY <1>0, <2>1, <2>4, <3>1, <3>2, <3>3, <3>4, <3>5, <3>6 DEF Position, Routed
  <2> QED BY <2>3, <2>4
<1> QED BY <1>0, <1>1, <1>2, <1>3, CommonWorkers

(***************************************************************************)
(* Steps in common: what the lease holder's node may rely on.              *)
(***************************************************************************)
LEMMA GraphInvParts ==
  ASSUME GraphInv
  PROVE  /\ GraphTypeOK /\ TypeOK /\ WorkersTyped /\ RunJobCoherent /\ Fenced /\ ReviewOrder
         /\ AuditTellsTruth
  BY DEF GraphInv, GraphTypeOK, TypeOK, WorkersTyped

\* A step leaves a worker alone, and its run too if the worker is the current one,
\* or is a step of that worker.
LEMMA CommonQuiet ==
  ASSUME GraphInv, Common, NEW v \in Workers
  PROVE  \/ \E r \in Runs : Claim(v, r)
         \/ Shares(v) \/ Raise(v) \/ Crash(v)
         \/ wk'[v] = wk[v] /\ (Current(v) => Quiet(wk[v].run))
<1>0. TypeOK /\ WorkersTyped /\ Fenced
  BY GraphInvParts
<1>1. CASE UNCHANGED <<wk, stage, recs>>
  BY <1>1 DEF Quiet
<1>2. ASSUME NEW w \in Workers, w # v, NEW r \in Runs, Claim(w, r)
      PROVE  wk'[v] = wk[v] /\ Quiet(wk[v].run)
  BY <1>0, <1>2 DEF Claim, TypeOK, Quiet
<1>3. ASSUME NEW w \in Workers, w # v, Step(w) \/ Raise(w) \/ Crash(w)
      PROVE  wk'[v] = wk[v] /\ (Current(v) => Quiet(wk[v].run))
  <2>1. wk'[v] = wk[v]
    BY <1>0, <1>3, KeepsIdentity
  <2>2. ASSUME Current(v) PROVE Quiet(wk[v].run)
    <3>1. wk[v].run \in Runs
      BY <1>0, <2>2 DEF Current, WorkersTyped, WorkerState
    <3>2. ~(Holds(w) /\ wk[w].run = wk[v].run)
      BY <1>3, <2>2 , <1>0 DEF Current, Holds, Fenced, LeaseExclusive
    <3> QED BY <1>0, <1>3, <3>1, <3>2, StepQuiet
  <2> QED BY <2>1, <2>2
<1>4. ASSUME NEW w \in Workers, Shares(w), ~Shares(v)
      PROVE  wk'[v] = wk[v] /\ (Current(v) => Quiet(wk[v].run))
  <2>1. Step(w) /\ w # v
    BY <1>4 DEF Shares
  <2> QED BY <1>3, <2>1
<1>5. CASE UNCHANGED vars
  BY <1>1, <1>5 DEF vars
<1>6. CASE Elsewhere
  <2>1. ASSUME NEW w \in Workers, Sweep(w) PROVE UNCHANGED <<wk, stage, recs>>
    BY <2>1 DEF Sweep
  <2>2. ASSUME NEW r \in Runs,
               \/ \E sup \in BOOLEAN : CreateRun(r, sup)
               \/ Cancel(r) \/ Decide(r) \/ Expire(r) \/ Overrun(r)
        PROVE  UNCHANGED <<wk, stage, recs>>
    BY <2>2 DEF CreateRun, Cancel, Decide, Expire, Overrun
  <2> QED BY <1>1, <1>2, <1>3, <1>6, <2>1, <2>2 DEF Elsewhere, Take
<1> QED BY <1>4, <1>5, <1>6 DEF Common

LEMMA LeaseForward ==
  ASSUME TypeOK, Legal, NEW q \in Runs
  PROVE  \/ gen'[q] = gen[q] + 1
         \/ gen'[q] = gen[q] /\ (live'[q] => live[q])
<1>1. ASSUME NEW w \in Workers, NEW r \in Runs, Claim(w, r)
      PROVE  \/ gen'[q] = gen[q] + 1
             \/ gen'[q] = gen[q] /\ (live'[q] => live[q])
  BY <1>1 DEF Claim, NextGeneration, TypeOK
<1>2. ASSUME NEW w \in Workers, Step(w) PROVE gen'[q] = gen[q] /\ (live'[q] => live[q])
  <2>1. /\ gen' = gen
        /\ live' = live \/ live' = [live EXCEPT ![wk[w].run] = FALSE]
    BY <1>2
    DEF Step, Load, BeforeStage, LoseLease, StartStage, PersistStage, AfterStages,
        Advise, PauseForReview, Settle, FinBoundary, FinDurable, FinStorageError,
        Complete, MarkPendingCancelled, CompleteCancelled, Fail, Audit, UnchangedTables
  <2> QED BY <2>1 DEF TypeOK
<1>3. ASSUME NEW r \in Runs, Expire(r) \/ Overrun(r)
      PROVE  gen'[q] = gen[q] /\ (live'[q] => live[q])
  BY <1>3 DEF Expire, Overrun, TypeOK
<1> QED BY <1>1, <1>2, <1>3
  DEF Legal, Elsewhere, Take, Sweep, CreateRun, Cancel, Decide, Raise, Crash, vars

\* A worker that keeps its identity holds a lease after the step only if it held
\* the same one before.
LEMMA LeaseBack ==
  ASSUME GraphInv, Common, NEW v \in Workers, wk[v].pc # "idle", wk'[v].pc # "idle",
         wk'[v].run = wk[v].run, wk'[v].gen = wk[v].gen, Holds(v)'
  PROVE  Holds(v)
<1>0. TypeOK /\ RunJobCoherent /\ Fenced /\ Legal
  BY GraphInvParts, CommonLegal
<1> DEFINE q == wk[v].run
<1>1. q \in Runs /\ wk[v].gen \in Nat /\ gen[q] \in Nat /\ wk[v].gen <= gen[q]
  BY <1>0 DEF TypeOK, WorkerState, Fenced
<1>2. gen'[q] = wk[v].gen /\ live'[q]
  BY DEF Holds
<1>3. gen'[q] = gen[q] /\ live[q]
  BY <1>0, <1>1, <1>2, LeaseForward
<1> QED BY <1>0, <1>1, <1>2, <1>3 DEF Holds, RunJobCoherent

\* A decision cannot arrive while a lease holds.
LEMMA HolderUndecided ==
  ASSUME GraphInv, Common, NEW q \in Runs, live'[q]
  PROVE  decision'[q] = decision[q]
<1>0. TypeOK /\ RunJobCoherent /\ Legal
  BY GraphInvParts, CommonLegal
<1>1. RunJobCoherent'
  BY <1>0, LegalCoherent
<1>2. run'[q] # "queued"
  BY <1>1, JobsOfStatus DEF RunJobCoherent
<1> QED BY <1>0, <1>2, LegalNext, DecisionRequeues

LEMMA CommonSteering ==
  ASSUME GraphInv, Common, NEW v \in Workers
  PROVE  Steering(v)'
<1>0. /\ TypeOK /\ WorkersTyped /\ RunJobCoherent /\ Legal /\ [Next]_vars
      /\ Position(v) /\ Steering(v)
      /\ node'[v] = IF wk'[v].pc \in InsideNode THEN node[v] ELSE "none"
      /\ ckpt' = ckpt /\ unfenced' = unfenced
  BY GraphInvParts, CommonLegal, LegalNext DEF GraphInv, Common
<1> SUFFICES ASSUME NEW q, q = wk'[v].run, wk'[v].pc # "idle", graph'[q],
                    ~unfenced'[q], Holds(v)'
             PROVE  Steers(v, q)'
  BY DEF Steering
<1>1. ASSUME NEW r \in Runs, Claim(v, r) PROVE Steers(v, q)'
  <2>1. wk[v].pc = "idle" /\ wk'[v].pc = "load"
    BY <1>0, <1>1 DEF Claim, TypeOK, IdleWorker
  <2>2. node'[v] = "none"
    BY <1>0, <2>1, CommonKind DEF InsideNode
  <2> QED BY <2>1, <2>2 DEF Steers
<1>2. ASSUME wk[v].pc # "idle", wk[v].run = q, wk[v].gen = wk'[v].gen
      PROVE  /\ q \in Runs /\ Holds(v) /\ Steers(v, q)
             /\ graph[q] /\ decision'[q] = decision[q]
             /\ risk[q] # {} => risk'[q] # {}
             /\ fin[q] = "verified" => fin'[q] = "verified"
  <2>1. q \in Runs /\ graph[q] /\ Holds(v)
    BY <1>2, CommonKind, LeaseBack
  <2>2. Steers(v, q)
    BY <1>0, <1>2, <2>1 DEF Steering
  <2>3. live'[q]
    BY DEF Holds
  <2> QED BY <1>0, <2>1, <2>2, <2>3, HolderUndecided, RowsGrow
<1>3. CASE wk'[v] = wk[v] /\ (Current(v) => Quiet(wk[v].run))
  <2>1. /\ q \in Runs /\ Holds(v) /\ Steers(v, q)
        /\ graph[q] /\ decision'[q] = decision[q]
        /\ risk[q] # {} => risk'[q] # {}
        /\ fin[q] = "verified" => fin'[q] = "verified"
    BY <1>2, <1>3
  <2>2. Quiet(q)
    BY <1>3, <2>1 DEF Current, Holds
  <2>3. Done(q)' = Done(q) /\ recs'[q] = recs[q] /\ (AllEnded(q) => AllEnded(q)')
    BY <1>0, <2>1, <2>2, QuietKeeps DEF AllEnded
  <2>4. node'[v] = node[v]
    BY <1>0, <1>3 DEF Position
  <2> QED BY <1>0, <1>3, <2>1, <2>3, <2>4 DEF Steers
<1>4. CASE Shares(v) \/ Raise(v) \/ Crash(v)
  <2>1. /\ Routed(v) /\ wk[v].pc # "idle"
        /\ wk'[v].run = wk[v].run /\ wk'[v].gen = wk[v].gen
    BY <1>0, <1>4, Route, KeepsIdentity DEF Shares
  <2>2. /\ q \in Runs /\ Holds(v) /\ Steers(v, q)
        /\ graph[q] /\ decision'[q] = decision[q]
        /\ risk[q] # {} => risk'[q] # {}
        /\ fin[q] = "verified" => fin'[q] = "verified"
    BY <1>2, <2>1
  <2>3. CASE Raise(v) \/ Crash(v)
    <3>1. wk'[v].pc \in {"fail", "idle"}
      BY <1>0, <2>3, IdleField, FailField DEF Raise, Crash
    <3>2. node'[v] = "none"
      BY <1>0, <3>1 DEF InsideNode
    <3> QED BY <3>1, <3>2 DEF Steers
  <2>4. CASE Shares(v)
    <3>1. wk'[v].pc \notin {"leave", "pause"}
      BY <2>1, <2>2, <2>4 DEF Routed, Shares
    <3>2. wk'[v].pc = "complete" /\ node'[v] = "trust_boundary" => fin'[q] = "verified"
      BY <1>0, <2>1 DEF Routed, Position, InsideNode
    <3>3. node'[v] # "none" => node'[v] = node[v]
      BY <1>0
    <3> QED BY <1>0, <2>2, <3>1, <3>2, <3>3 DEF Steers
  <2> QED BY <1>4, <2>3, <2>4
<1> QED BY <1>1, <1>3, <1>4, CommonQuiet

LEMMA CommonInformed ==
  ASSUME GraphInv, Common, NEW v \in Workers
  PROVE  Informed(v)'
<1>0. /\ TypeOK /\ RunJobCoherent /\ Fenced /\ ReviewOrder /\ Legal /\ Informed(v)
      /\ node'[v] = IF wk'[v].pc \in InsideNode THEN node[v] ELSE "none"
      /\ unfenced' = unfenced
  BY GraphInvParts, CommonLegal DEF GraphInv, Common
<1> SUFFICES ASSUME NEW q, q = wk'[v].run, wk'[v].pc # "idle",
                    NEW backed \in BOOLEAN, backed = ~unfenced[q],
                    NEW judged \in BOOLEAN, judged = (node'[v] = "none")
             PROVE  Knows(v, backed)' /\ (Current(v)' => Owns(v, backed, judged)')
  BY <1>0 DEF Informed, Knows, Owns
<1>1. PICK j \in BOOLEAN : j = (node[v] = "none")
  OBVIOUS
<1>2. wk[v].pc # "idle" => wk[v].run = q
  <2>1. ASSUME NEW r \in Runs, Claim(v, r) PROVE wk[v].pc = "idle"
    BY <2>1 DEF Claim
  <2>2. CASE Shares(v) \/ Raise(v) \/ Crash(v)
    BY <1>0, <2>2, KeepsIdentity, GraphInvParts DEF Shares
  <2> QED BY <2>1, <2>2, CommonWorkers, <1>0
<1>3. Knows(v, backed) /\ (Current(v) => Owns(v, backed, j))
  <2>1. CASE wk[v].pc = "idle"
    BY <2>1 DEF Knows, Current, Executed
  <2>2. CASE wk[v].pc # "idle"
    BY <1>0, <1>1, <1>2, <2>2 DEF Informed, Knows, Owns
  <2> QED BY <2>1, <2>2
<1>4. Knows(v, backed)' /\ (Current(v)' => Owns(v, backed, j)')
  BY <1>0, <1>3, LegalAttempt
<1>5. j = judged \/ wk'[v].pc \notin Trusting
  BY <1>0, <1>1 DEF Trusting, InsideNode
<1>6. Owns(v, backed, j)' => Owns(v, backed, judged)'
  BY <1>5 DEF Owns
<1> QED BY <1>4, <1>6

(***************************************************************************)
(* Steps in common: the tables behind the checkpoint.                      *)
(***************************************************************************)
LEMMA RecsStay ==
  ASSUME NEW w \in Workers, Step(w), wk[w].pc # "executed"
  PROVE  recs' = recs
  BY DEF Step, Load, BeforeStage, LoseLease, StartStage, PersistStage, AfterStages, Advise,
         PauseForReview, Settle, FinBoundary, FinDurable, FinStorageError, Complete,
         MarkPendingCancelled, CompleteCancelled, Fail, Audit, UnchangedTables

LEMMA RankOfAnalysis ==
  /\ Rank["readiness"] = 1 /\ Rank["analysis"] = 2 /\ Rank["recommendations"] = 3
  /\ Rank["model_inference"] = 4 /\ Rank["reviewer_briefing"] = 5
  /\ Rank["human_review"] = 6 /\ Rank["interrupted"] = 7 /\ Rank["trust_boundary"] = 8
  /\ Rank["end"] = 9
  BY DEF Rank

\* Behind a checkpoint past the analysis nobody executes stages.
LEMMA PastQuiet ==
  ASSUME GraphInv, Common, NEW r \in Runs, graph[r], ~unfenced[r], Past(r, "analysis")
  PROVE  Quiet(r)
<1>0. TypeOK /\ WorkersTyped /\ Fenced
  BY GraphInvParts
<1>1. ASSUME NEW w \in Workers, Shares(w) PROVE Quiet(r)
  <2>0. Step(w) /\ wk[w].pc # "idle"
    BY <1>1 DEF Shares
  <2>1. CASE ~(Holds(w) /\ wk[w].run = r)
    BY <1>0, <2>0, <2>1, StepQuiet
  <2>2. CASE Holds(w) /\ wk[w].run = r
    <3>1. wk[w].pc \notin Executing
      <4>1. ASSUME wk[w].pc \in Executing PROVE ckpt[r] = "analysis"
        BY <2>0, <2>2, <4>1 DEF GraphInv, Position, Steering, Steers
      <4> QED BY <4>1, RankOfAnalysis DEF Past
    <3>2. recs' = recs
      BY <1>1, <2>0, <2>2, RecsStay DEF Shares
    <3>3. \/ stage' = stage
          \/ stage' = [stage EXCEPT ![wk[w].run] =
                          [s \in Stages |-> IF stage[wk[w].run][s] = "pending"
                                            THEN "cancelled" ELSE stage[wk[w].run][s]]]
      BY <1>0, <2>0, <3>1, StageEffect
    <3> QED BY <1>0, <2>2, <3>2, <3>3 DEF Quiet, TypeOK
  <2> QED BY <2>1, <2>2
<1>2. CASE UNCHANGED <<stage, recs>>
  BY <1>2 DEF Quiet
<1> QED BY <1>1, <1>2
  DEF Common, Elsewhere, Take, Claim, Sweep, CreateRun, Cancel, Decide, Expire, Overrun,
      Raise, Crash, vars

LEMMA CommonCovered ==
  ASSUME GraphInv, Common, NEW r \in Runs
  PROVE  Covered(r)'
<1>0. /\ TypeOK /\ [Next]_vars /\ Covered(r) /\ Stationed(r)
      /\ ckpt' = ckpt /\ unfenced' = unfenced
      /\ \A n : Past(r, n)' <=> Past(r, n)
  BY GraphInvParts, CommonLegal, LegalNext DEF GraphInv, Common, Past
<1>1. CASE ~Past(r, "analysis")
  <2>1. ckpt[r] \in DOMAIN Rank
    BY DEF GraphInv, GraphTypeOK
  <2> QED BY <1>0, <1>1, <2>1, Names, RankOfAnalysis DEF Covered, Past
<1>2. CASE Past(r, "analysis") /\ ~unfenced[r]
  <2>1. graph[r]
    BY <1>0, <1>2, RankOfAnalysis DEF Stationed, Past
  <2>2. Quiet(r)
    BY <1>2, <2>1, PastQuiet
  <2>3. Done(r)' = Done(r) /\ recs'[r] = recs[r] /\ (AllEnded(r) => AllEnded(r)')
    BY <1>0, <2>2, QuietKeeps DEF AllEnded
  <2>4. /\ risk[r] # {} => risk'[r] # {}
        /\ fin[r] = "verified" => fin'[r] = "verified"
        /\ decision[r] # {} => decision'[r] # {}
    BY <1>0, RowsGrow
  <2> QED BY <1>0, <1>2, <2>1, <2>3, <2>4 DEF Covered
<1> QED BY <1>0, <1>1, <1>2 DEF Covered

LEMMA CommonEnters ==
  ASSUME GraphInv, Common, NEW r \in Runs, run'[r] \in Outcome, run'[r] # run[r]
  PROVE  \E w \in Workers :
            /\ Shares(w) /\ Step(w) /\ Concludes(w) /\ r = wk[w].run
            /\ run[r] = "running" /\ (run'[r] = "awaiting_review" => wk[w].pc = "pause")
<1>0. TypeOK /\ RunJobCoherent
  BY GraphInvParts
<1>1. PICK w \in Workers : Shares(w)
  BY <1>0, ElsewhereEnters DEF Common
<1>2. Step(w) /\ Concludes(w)
  BY <1>1, SharesConcludes
<1>3. /\ r = wk[w].run /\ run[r] = "running"
      /\ run'[r] = "awaiting_review" => wk[w].pc = "pause"
  BY <1>0, <1>2, StepEnters
<1> QED BY <1>1, <1>2, <1>3

LEMMA CommonStationed ==
  ASSUME GraphInv, Common, NEW r \in Runs
  PROVE  Stationed(r)'
<1>0. /\ TypeOK /\ RunJobCoherent /\ ReviewOrder /\ Legal /\ [Next]_vars /\ Stationed(r)
      /\ ckpt'[r] = ckpt[r] /\ unfenced'[r] = unfenced[r]
      /\ graph[r] \in BOOLEAN /\ graph'[r] \in BOOLEAN
      /\ graph'[r] # graph[r] => run[r] = "none" /\ run'[r] # "none" /\ supervised'[r]
  BY GraphInvParts, CommonLegal, LegalNext DEF GraphInv, Common, GraphTypeOK
<1>1. run[r] # "none" => supervised'[r] = supervised[r] /\ run'[r] # "none"
  BY <1>0, LifeForward
<1>2. decision'[r] # decision[r] => run[r] = "awaiting_review" /\ run'[r] = "queued"
  BY <1>0, DecisionRequeues
<1>3. run'[r] = "awaiting_review" /\ graph'[r] => graph[r] /\ run[r] = "awaiting_review"
  <2>1. ASSUME run'[r] = "awaiting_review", run[r] # "awaiting_review" PROVE ~graph'[r]
    <3>1. PICK w \in Workers :
            /\ Shares(w) /\ Step(w) /\ Concludes(w) /\ r = wk[w].run
            /\ run[r] = "running" /\ (run'[r] = "awaiting_review" => wk[w].pc = "pause")
      BY <2>1, CommonEnters DEF Outcome
    <3>2. ~graph[r]
      BY <2>1, <3>1 DEF Shares
    <3> QED BY <1>0, <3>1, <3>2
  <2> QED BY <1>0, <2>1
<1> QED BY <1>0, <1>1, <1>2, <1>3 DEF Stationed

LEMMA CommonRightful ==
  ASSUME GraphInv, Common, NEW r \in Runs
  PROVE  Rightful(r, ~unfenced[r])'
<1>0. /\ TypeOK /\ RunJobCoherent /\ ReviewOrder /\ Legal
      /\ unfenced'[r] = unfenced[r]
  BY GraphInvParts, CommonLegal DEF Common
<1> SUFFICES ASSUME NEW backed \in BOOLEAN, backed = ~unfenced[r]
             PROVE  Rightful(r, backed)'
  BY <1>0 DEF Rightful
<1>1. Rightful(r, backed)
  BY DEF GraphInv, Rightful
<1>2. CASE run'[r] \notin Outcome
  BY <1>2 DEF Rightful, Outcome
<1>3. CASE run'[r] \in Outcome /\ run'[r] = run[r]
  BY <1>0, <1>1, <1>3, OutcomeKept
<1>4. CASE run'[r] \in Outcome /\ run'[r] # run[r]
  <2>1. PICK w \in Workers : Shares(w) /\ Step(w) /\ Concludes(w) /\ r = wk[w].run
    BY <1>4, CommonEnters
  <2>2. PICK judged \in BOOLEAN : judged = (node[w] = "none")
    OBVIOUS
  <2>3. wk[w].pc # "idle" /\ (wk[w].pc = "complete" => judged)
    BY <2>1, <2>2 DEF Shares
  <2>4. Knows(w, backed) /\ (Current(w) => Owns(w, backed, judged))
    BY <2>1, <2>2, <2>3 DEF GraphInv, Informed, Knows, Owns
  <2> QED BY <1>0, <1>4, <2>1, <2>3, <2>4, OutcomeEarned
<1> QED BY <1>2, <1>3, <1>4

LEMMA CommonStep ==
  ASSUME GraphInv, Common
  PROVE  GraphInv'
<1>0. /\ GraphTypeOK /\ TypeOK /\ RunJobCoherent /\ Fenced /\ ReviewOrder /\ AuditTellsTruth
      /\ Legal /\ [Next]_vars
  BY GraphInvParts, CommonLegal, LegalNext
<1>1. GraphTypeOK'
  BY <1>0, LegalType DEF GraphTypeOK, Common
<1>2. RunJobCoherent' /\ Fenced' /\ ReviewOrder'
  BY <1>0, LegalCoherent, NextFenced, LegalReviewOrder
<1>3. \A w \in Workers : Position(w)' /\ Steering(w)' /\ Informed(w)'
  BY CommonPosition, CommonSteering, CommonInformed
<1>4. \A r \in Runs : Covered(r)' /\ Stationed(r)' /\ Rightful(r, ~unfenced[r])'
  BY CommonCovered, CommonStationed, CommonRightful
<1>5. \A w \in Workers : \E backed \in BOOLEAN : Knows(w, backed)
  <2> SUFFICES ASSUME NEW w \in Workers PROVE \E backed \in BOOLEAN : Knows(w, backed)
    OBVIOUS
  <2>1. CASE wk[w].pc = "idle"
    BY <2>1 DEF Knows, Executed
  <2>2. CASE wk[w].pc # "idle"
    <3>1. Knows(w, FALSE)
      BY <2>2 DEF GraphInv, Informed, Knows
    <3> QED BY <3>1
  <2> QED BY <2>1, <2>2
<1>6. AuditTellsTruth'
  BY <1>0, <1>5, TrailKept
<1> QED BY <1>1, <1>2, <1>3, <1>4, <1>6 DEF GraphInv

(***************************************************************************)
(* The graph's own steps: what each moves and leaves alone.                *)
(***************************************************************************)
Heir == {"mark", "pause", "node", "settle", "load", "body", "boundary", "leave"}

LEMMA OwnGoes ==
  ASSUME NEW w \in Workers, Own(w)
  PROVE  \/ \E p \in Heir : Goto(w, p)
         \/ GoIdle(w) \/ GoFail(w, FALSE) \/ GoAudit(w, "awaiting_review")
<1> USE DEF Heir
<1>1. CASE OpenGraph(w)
  BY <1>1 DEF OpenGraph
<1>2. CASE EnterNode(w)
  <2>1. \A n \in DOMAIN Body : Body[n] \in Heir
    BY DEF Body
  <2> QED BY <1>2, <2>1 DEF EnterNode
<1>3. CASE LeaveAnalysis(w) \/ Recommend(w) \/ RaiseInNode(w) \/ GraphPause(w)
  BY <1>3 DEF LeaveAnalysis, Recommend, RaiseInNode, GraphPause
<1>4. CASE LeaveNode(w)
  BY <1>4 DEF LeaveNode, Checkpoint
<1> QED BY <1>1, <1>2, <1>3, <1>4 DEF Own

LEMMA OwnTables ==
  ASSUME NEW w \in Workers, Own(w)
  PROVE  /\ UNCHANGED <<attempts, gen, stage, risk, decision, supervised, fin, trail, graph>>
         /\ \/ recs' = recs
            \/ /\ wk[w].pc = "body" /\ Holds(w) /\ Goto(w, "leave")
               /\ recs' = [recs EXCEPT ![wk[w].run] = Done(wk[w].run)]
         /\ \/ UNCHANGED <<run, job, live>>
            \/ /\ wk[w].pc = "pause" /\ Holds(w) /\ run[wk[w].run] = "running"
               /\ GoAudit(w, "awaiting_review")
               /\ run' = [run EXCEPT ![wk[w].run] = "awaiting_review"]
               /\ job' = [job EXCEPT ![wk[w].run] = "completed"]
               /\ live' = [live EXCEPT ![wk[w].run] = FALSE]
         /\ UNCHANGED <<ckpt, unfenced>> \/ LeaveNode(w)
         /\ faults' = faults \/ (faults < MaxFaults /\ faults' = faults + 1)
<1>1. CASE OpenGraph(w) \/ EnterNode(w) \/ LeaveAnalysis(w)
  BY <1>1 DEF OpenGraph, EnterNode, LeaveAnalysis, UnchangedTables
<1>2. CASE LeaveNode(w)
  BY <1>2 DEF LeaveNode, Checkpoint, UnchangedTables
<1>3. CASE Recommend(w)
  BY <1>3 DEF Recommend
<1>4. CASE GraphPause(w)
  BY <1>4 DEF GraphPause, graphVars
<1>5. CASE RaiseInNode(w)
  BY <1>5 DEF RaiseInNode
<1> QED BY <1>1, <1>2, <1>3, <1>4, <1>5 DEF Own

\* The node a worker leaves, and the checkpoint it writes.
LEMMA LeaveEffect ==
  ASSUME GraphInv, NEW w \in Workers, Own(w), LeaveNode(w)
  PROVE  /\ node[w] \in DOMAIN After /\ wk[w].run \in Runs /\ graph[wk[w].run]
         /\ \/ wk[w].pc = "leave" /\ node[w] # "trust_boundary"
            \/ wk[w].pc = "complete" /\ node[w] = "trust_boundary"
         /\ ckpt' = [ckpt EXCEPT ![wk[w].run] = After[node[w]]]
         /\ unfenced' = [unfenced EXCEPT ![wk[w].run] = @ \/ ~Holds(w)]
         /\ \/ /\ node[w] = "human_review" /\ Goto(w, "pause")
               /\ node' = [node EXCEPT ![w] = "none"]
            \/ /\ node[w] = "trust_boundary" /\ Goto(w, "settle")
               /\ node' = [node EXCEPT ![w] = "none"]
            \/ /\ node[w] \notin {"human_review", "trust_boundary"} /\ Goto(w, "node")
               /\ node' = [node EXCEPT ![w] = After[node[w]]]
<1>1. wk[w].run \in Runs /\ graph[wk[w].run]
  BY GraphInvParts DEF Own, WorkersTyped, WorkerState
<1>2. /\ node[w] \in DOMAIN After
      /\ \/ wk[w].pc = "leave" /\ node[w] # "trust_boundary"
         \/ wk[w].pc = "complete" /\ node[w] = "trust_boundary"
  BY Names DEF LeaveNode, GraphInv, GraphTypeOK, Position
<1>3. Checkpoint(w, node[w])
  BY DEF LeaveNode
<1> QED BY <1>1, <1>2, <1>3 DEF Checkpoint

\* Only the moving worker moves, and it keeps its identity.
LEMMA OwnMover ==
  ASSUME GraphInv, NEW w \in Workers, Own(w)
  PROVE  /\ WorkersTyped'
         /\ \A v \in Workers : v # w => wk'[v] = wk[v]
         /\ wk'[w].pc \in Heir \union {"idle", "fail", "audit"}
         /\ wk'[w].pc = "audit" => wk'[w].event = "awaiting_review"
         /\ \/ wk'[w].pc = "idle" /\ wk'[w].run = NoRun
            \/ /\ wk'[w].pc # "idle"
               /\ wk'[w].run = wk[w].run /\ wk'[w].gen = wk[w].gen
         /\ wk'[w].pc \in Heir => wk'[w].step = wk[w].step
<1>0. WorkersTyped /\ wk[w].pc # "idle" /\ Heir \subseteq PC
  BY GraphInvParts DEF Own, Heir, PC
<1>1. ASSUME NEW p \in Heir, Goto(w, p)
      PROVE  /\ \A v \in Workers : v # w => wk'[v] = wk[v]
             /\ wk'[w].pc = p /\ wk'[w].step = wk[w].step
             /\ wk'[w].run = wk[w].run /\ wk'[w].gen = wk[w].gen
             /\ WorkersTyped'
  <2>1. WorkersTyped'
    BY <1>0, <1>1, GotoType
  <2> QED BY <1>0, <1>1, <2>1 DEF Goto, WorkersTyped, WorkerState
<1>2. ASSUME GoIdle(w)
      PROVE  /\ \A v \in Workers : v # w => wk'[v] = wk[v]
             /\ wk'[w].pc = "idle" /\ wk'[w].run = NoRun /\ WorkersTyped'
  BY <1>0, <1>2, GoIdleType DEF GoIdle, IdleWorker, WorkersTyped
<1>3. ASSUME GoFail(w, FALSE)
      PROVE  /\ \A v \in Workers : v # w => wk'[v] = wk[v]
             /\ wk'[w].pc = "fail"
             /\ wk'[w].run = wk[w].run /\ wk'[w].gen = wk[w].gen
             /\ WorkersTyped'
  <2>1. WorkersTyped'
    BY <1>0, <1>3, GoFailType
  <2> QED BY <1>0, <1>3, <2>1 DEF GoFail, WorkersTyped, WorkerState
<1>4. ASSUME GoAudit(w, "awaiting_review")
      PROVE  /\ \A v \in Workers : v # w => wk'[v] = wk[v]
             /\ wk'[w].pc = "audit" /\ wk'[w].event = "awaiting_review"
             /\ wk'[w].run = wk[w].run /\ wk'[w].gen = wk[w].gen
             /\ WorkersTyped'
  <2>1. WorkersTyped'
    BY <1>0, <1>4, GoAuditType DEF Event
  <2> QED BY <1>0, <1>4, <2>1 DEF GoAudit, WorkersTyped, WorkerState
<1> QED BY <1>1, <1>2, <1>3, <1>4, OwnGoes DEF Heir

LEMMA OwnNodes ==
  ASSUME GraphInv, NEW w \in Workers, Own(w)
  PROVE  /\ node' \in [Workers -> DOMAIN After \union {"none"}]
         /\ \A v \in Workers : v # w => node'[v] = node[v]
<1>0. node \in [Workers -> DOMAIN After \union {"none"}] /\ ckpt \in [Runs -> DOMAIN Rank]
  BY DEF GraphInv, GraphTypeOK
<1>1. CASE OpenGraph(w)
  <2>1. wk[w].run \in Runs
    BY GraphInvParts DEF Own, WorkersTyped, WorkerState
  <2>2. ckpt[wk[w].run] \notin {"interrupted", "end"} => ckpt[wk[w].run] \in DOMAIN After
    BY <1>0, <2>1, Names
  <2> QED BY <1>0, <1>1, <2>2, Names DEF OpenGraph
<1>2. CASE EnterNode(w) \/ LeaveAnalysis(w) \/ Recommend(w) \/ RaiseInNode(w)
  <2>1. NodeFollows(w)
    BY <1>2 DEF EnterNode, LeaveAnalysis, Recommend, RaiseInNode
  <2> QED BY <1>0, <2>1 DEF NodeFollows
<1>3. CASE LeaveNode(w)
  <2>1. /\ node[w] \in DOMAIN After
        /\ \/ node' = [node EXCEPT ![w] = "none"]
           \/ /\ node[w] \notin {"human_review", "trust_boundary"}
              /\ node' = [node EXCEPT ![w] = After[node[w]]]
    BY <1>3, LeaveEffect
  <2> QED BY <1>0, <2>1, Chain
<1>4. CASE GraphPause(w)
  BY <1>0, <1>4 DEF GraphPause, graphVars
<1> QED BY <1>1, <1>2, <1>3, <1>4 DEF Own

\* Where a step of the graph's own leaves its worker.
Arrives(w) ==
    /\ wk'[w].pc = "mark" => job[wk[w].run] = "cancel_requested"
    /\ wk'[w].pc \in Opening \union {"boundary"} => wk[w].pc \in Opening
    /\ wk'[w].pc = "load" => node'[w] = "analysis"
    /\ wk'[w].pc = "body" => node'[w] = "recommendations"
    /\ wk'[w].pc = "boundary" => node'[w] = "trust_boundary"
    /\ wk'[w].pc \in {"node", "body", "leave"} => node'[w] # "none"
    /\ wk'[w].pc = "leave" => node'[w] # "trust_boundary"
    /\ wk'[w].pc \notin InsideNode => node'[w] = "none"

LEMMA OwnArrives ==
  ASSUME GraphInv, NEW w \in Workers, Own(w)
  PROVE  Arrives(w)
<1>0. /\ WorkersTyped /\ Position(w) /\ wk[w].run \in Runs
      /\ node \in [Workers -> DOMAIN After \union {"none"}] /\ ckpt \in [Runs -> DOMAIN Rank]
  BY GraphInvParts DEF GraphInv, GraphTypeOK, Own, WorkersTyped, WorkerState
<1> USE DEF Arrives, Opening, InsideNode
<1>a. wk'[w].pc \in {"idle", "fail", "audit"} /\ node'[w] = "none" => Arrives(w)
  OBVIOUS
<1>b. ASSUME GoIdle(w) \/ GoFail(w, FALSE), NodeFollows(w) PROVE Arrives(w)
  <2>1. wk'[w].pc \in {"idle", "fail"}
    BY <1>0, <1>b, IdleField, FailField
  <2> QED BY <1>0, <1>a, <1>b, <2>1 DEF NodeFollows
<1>c. ASSUME NEW p, Goto(w, p), NodeFollows(w)
      PROVE  wk'[w].pc = p /\ node'[w] = IF p \in InsideNode THEN node[w] ELSE "none"
  BY <1>0, <1>c, GotoFields DEF NodeFollows
<1>1. CASE OpenGraph(w)
  <2>1. /\ wk[w].pc = "load" /\ node[w] = "none"
        /\ \/ /\ node' = node
              /\ \/ job[wk[w].run] = "cancel_requested" /\ Goto(w, "mark")
                 \/ Goto(w, "pause") \/ Goto(w, "settle")
           \/ /\ Goto(w, "node")
              /\ \E n \in DOMAIN After : node' = [node EXCEPT ![w] = n]
    <3>1. ckpt[wk[w].run] \notin {"interrupted", "end"} => ckpt[wk[w].run] \in DOMAIN After
      BY <1>0, Names
    <3> QED BY <1>1, <3>1, Names DEF OpenGraph
  <2>2. "none" \notin DOMAIN After
    BY Names
  <2> QED BY <1>0, <2>1, <2>2, GotoFields
<1>2. CASE EnterNode(w)
  <2>1. /\ wk[w].pc = "node" /\ NodeFollows(w) /\ node[w] # "none"
        /\ \/ GoIdle(w) \/ GoFail(w, FALSE)
           \/ job[wk[w].run] = "cancel_requested" /\ Goto(w, "mark")
           \/ Goto(w, IF node[w] \in DOMAIN Body THEN Body[node[w]] ELSE "leave")
    BY <1>0, <1>2 DEF EnterNode, Position
  <2>2. ASSUME NEW p, p = IF node[w] \in DOMAIN Body THEN Body[node[w]] ELSE "leave",
               Goto(w, p)
        PROVE  Arrives(w)
    <3>1. \/ node[w] = "analysis" /\ p = "load"
          \/ node[w] = "recommendations" /\ p = "body"
          \/ node[w] = "trust_boundary" /\ p = "boundary"
          \/ node[w] \notin {"none", "trust_boundary"} /\ p = "leave"
      BY <2>1, <2>2 DEF Body
    <3> QED BY <1>c, <2>1, <2>2, <3>1
  <2> QED BY <1>b, <1>c, <2>1, <2>2
<1>3. CASE LeaveAnalysis(w)
  <2>1. /\ wk[w].pc = "executed" /\ NodeFollows(w) /\ node[w] = "analysis"
        /\ \/ GoIdle(w) \/ GoFail(w, FALSE)
           \/ job[wk[w].run] = "cancel_requested" /\ Goto(w, "mark")
           \/ Goto(w, "leave")
    BY <1>3 DEF LeaveAnalysis
  <2>2. Goto(w, "leave") => Arrives(w)
    BY <1>c, <2>1
  <2>3. job[wk[w].run] = "cancel_requested" /\ Goto(w, "mark") => Arrives(w)
    BY <1>c, <2>1
  <2> QED BY <1>b, <2>1, <2>2, <2>3
<1>4. CASE Recommend(w)
  <2>1. /\ wk[w].pc = "body" /\ NodeFollows(w) /\ node[w] = "recommendations"
        /\ Goto(w, "leave") \/ GoIdle(w)
    BY <1>0, <1>4 DEF Recommend, Position
  <2>2. Goto(w, "leave") => Arrives(w)
    BY <1>c, <2>1
  <2> QED BY <1>b, <2>1, <2>2
<1>5. CASE LeaveNode(w)
  <2>1. /\ node[w] \in DOMAIN After
        /\ wk[w].pc = "complete" => node[w] = "trust_boundary"
        /\ wk[w].pc \in {"leave", "complete"}
        /\ \/ /\ Goto(w, "pause") \/ Goto(w, "settle")
              /\ node' = [node EXCEPT ![w] = "none"]
           \/ /\ node[w] \notin {"human_review", "trust_boundary"} /\ Goto(w, "node")
              /\ node' = [node EXCEPT ![w] = After[node[w]]]
    BY <1>5, LeaveEffect
  <2>2. node[w] \notin {"human_review", "trust_boundary"} => After[node[w]] # "none"
    BY <2>1, Chain, Names
  <2> QED BY <1>0, <2>1, <2>2, GotoFields
<1>6. CASE GraphPause(w)
  <2>1. /\ wk[w].pc = "pause" /\ node' = node
        /\ GoIdle(w) \/ GoFail(w, FALSE) \/ GoAudit(w, "awaiting_review")
    BY <1>6 DEF GraphPause, graphVars
  <2>2. wk'[w].pc \in {"idle", "fail", "audit"}
    BY <1>0, <2>1, IdleField, FailField, AuditFields
  <2>3. node'[w] = "none"
    BY <1>0, <2>1 DEF Position
  <2> QED BY <1>a, <2>2, <2>3
<1>7. CASE RaiseInNode(w)
  BY <1>b, <1>7 DEF RaiseInNode
<1> QED BY <1>1, <1>2, <1>3, <1>4, <1>5, <1>6, <1>7 DEF Own

LEMMA OwnRun ==
  ASSUME GraphInv, NEW w \in Workers, Own(w)
  PROVE  /\ wk[w].pc # "idle" /\ wk[w].run \in Runs /\ graph[wk[w].run]
         /\ supervised[wk[w].run] /\ run[wk[w].run] # "none"
  BY GraphInvParts DEF Own, WorkersTyped, WorkerState, GraphInv, Stationed

LEMMA OwnTypes ==
  ASSUME GraphInv, NEW w \in Workers, Own(w)
  PROVE  GraphTypeOK'
<1>0. GraphTypeOK /\ TypeOK /\ wk[w].run \in Runs
  BY GraphInvParts, OwnRun
<1>1. WorkersTyped' /\ node' \in [Workers -> DOMAIN After \union {"none"}]
  BY OwnMover, OwnNodes
<1>2. /\ UNCHANGED <<attempts, gen, stage, risk, decision, supervised, fin, trail, graph>>
      /\ recs' = recs \/ recs' = [recs EXCEPT ![wk[w].run] = Done(wk[w].run)]
      /\ \/ UNCHANGED <<run, job, live>>
         \/ /\ run' = [run EXCEPT ![wk[w].run] = "awaiting_review"]
            /\ job' = [job EXCEPT ![wk[w].run] = "completed"]
            /\ live' = [live EXCEPT ![wk[w].run] = FALSE]
      /\ faults' = faults \/ (faults < MaxFaults /\ faults' = faults + 1)
  BY OwnTables
<1>a. /\ recs \in [Runs -> SUBSET Stages] /\ faults \in 0..MaxFaults
      /\ run \in [Runs -> RunStatus] /\ job \in [Runs -> JobStatus] /\ live \in [Runs -> BOOLEAN]
  BY <1>0 DEF TypeOK
<1>b. /\ Done(wk[w].run) \in SUBSET Stages
      /\ "awaiting_review" \in RunStatus /\ "completed" \in JobStatus
  BY DEF Done, RunStatus, JobStatus
<1>3. recs' \in [Runs -> SUBSET Stages]
  <2>1. recs' = recs \/ recs' = [recs EXCEPT ![wk[w].run] = Done(wk[w].run)]
    BY <1>2
  <2> QED BY <1>a, <1>b, <2>1
<1>4. run' \in [Runs -> RunStatus] /\ job' \in [Runs -> JobStatus] /\ live' \in [Runs -> BOOLEAN]
  <2>1. CASE UNCHANGED <<run, job, live>>
    BY <1>a, <2>1
  <2>2. CASE /\ run' = [run EXCEPT ![wk[w].run] = "awaiting_review"]
             /\ job' = [job EXCEPT ![wk[w].run] = "completed"]
             /\ live' = [live EXCEPT ![wk[w].run] = FALSE]
    <3>1. run' \in [Runs -> RunStatus]
      BY <1>a, <1>b, <2>2
    <3>2. job' \in [Runs -> JobStatus]
      BY <1>a, <1>b, <2>2
    <3>3. live' \in [Runs -> BOOLEAN]
      BY <1>a, <2>2
    <3> QED BY <3>1, <3>2, <3>3
  <2> QED BY <1>2, <2>1, <2>2
<1>5. faults' \in 0..MaxFaults
  <2>1. faults' = faults \/ (faults < MaxFaults /\ faults' = faults + 1)
    BY <1>2
  <2> QED BY <1>a, <2>1, FaultCount, FaultsAssumption
<1>6. ckpt' \in [Runs -> DOMAIN Rank] /\ unfenced' \in [Runs -> BOOLEAN]
  <2>1. CASE UNCHANGED <<ckpt, unfenced>>
    BY <1>0, <2>1 DEF GraphTypeOK
  <2>2. CASE LeaveNode(w)
    <3>1. /\ node[w] \in DOMAIN After
          /\ ckpt' = [ckpt EXCEPT ![wk[w].run] = After[node[w]]]
          /\ unfenced' = [unfenced EXCEPT ![wk[w].run] = @ \/ ~Holds(w)]
      BY <2>2, LeaveEffect
    <3>2. (unfenced[wk[w].run] \/ ~Holds(w)) \in BOOLEAN
      OBVIOUS
    <3>3. unfenced' \in [Runs -> BOOLEAN]
      BY <1>0, <3>1, <3>2, Zenon DEF GraphTypeOK
    <3> QED BY <1>0, <3>1, <3>3, Chain DEF GraphTypeOK
  <2> QED BY <2>1, <2>2, OwnTables
<1>7. TypeOK'
  BY <1>0, <1>1, <1>2, <1>3, <1>4, <1>5 DEF TypeOK, WorkersTyped
<1> QED BY <1>0, <1>1, <1>2, <1>6, <1>7 DEF GraphTypeOK

LEMMA OwnPosition ==
  ASSUME GraphInv, NEW w \in Workers, Own(w), NEW v \in Workers
  PROVE  Position(v)'
<1>0. /\ graph' = graph /\ Position(v) /\ Position(w)
  BY OwnTables DEF GraphInv
<1>1. CASE v # w
  BY <1>0, <1>1, OwnMover, OwnNodes DEF Position, Heads
<1>2. CASE v = w
  <2>1. /\ Arrives(w) /\ graph'[wk[w].run]
        /\ wk'[w].pc \in Heir \union {"idle", "fail", "audit"}
        /\ wk'[w].pc # "idle" => wk'[w].run = wk[w].run
        /\ wk'[w].pc \in Heir => wk'[w].step = wk[w].step
    BY <1>0, OwnMover, OwnArrives, OwnRun
  <2>2. /\ wk'[w].pc \notin Executing \union {"executed", "durable", "complete"}
        /\ wk'[w].pc = "idle" => wk'[w].pc \notin InsideNode
    BY <2>1 DEF Heir, Executing, InsideNode
  <2>3. wk'[w].pc \in Opening => wk'[w].step = "canonicalize"
    BY <1>0, <2>1, <2>2 DEF Arrives, Position, Opening, Heir
  <2> QED BY <1>2, <2>1, <2>2, <2>3 DEF Arrives, Position, Heads, Trusting
<1> QED BY <1>1, <1>2

LEMMA OwnCoherent ==
  ASSUME GraphInv, NEW w \in Workers, Own(w)
  PROVE  RunJobCoherent'
<1>0. TypeOK /\ RunJobCoherent /\ wk[w].run \in Runs
  BY GraphInvParts, OwnRun
<1>1. CASE UNCHANGED <<run, job, live>>
  BY <1>0, <1>1 DEF RunJobCoherent
<1>2. CASE /\ run' = [run EXCEPT ![wk[w].run] = "awaiting_review"]
           /\ job' = [job EXCEPT ![wk[w].run] = "completed"]
           /\ live' = [live EXCEPT ![wk[w].run] = FALSE]
  BY <1>0, <1>2, JobsOfStatus DEF TypeOK, RunJobCoherent
<1> QED BY <1>1, <1>2, OwnTables

LEMMA OwnFenced ==
  ASSUME GraphInv, NEW w \in Workers, Own(w)
  PROVE  Fenced'
<1>0. TypeOK /\ Fenced /\ gen' = gen /\ wk[w].pc # "idle"
  BY GraphInvParts, OwnRun, OwnTables
<1>1. /\ \A v \in Workers : v # w => wk'[v] = wk[v]
      /\ \/ wk'[w].pc = "idle" /\ wk'[w].run = NoRun
         \/ /\ wk'[w].pc # "idle" /\ wk[w].pc # "idle"
            /\ wk'[w].run = wk[w].run /\ wk'[w].gen = wk[w].gen
  BY <1>0, OwnMover
<1> QED BY <1>0, <1>1, FencedKept

LEMMA OwnOrder ==
  ASSUME GraphInv, NEW w \in Workers, Own(w)
  PROVE  ReviewOrder'
<1>0. /\ TypeOK /\ RunJobCoherent /\ ReviewOrder /\ Position(w)
      /\ wk[w].run \in Runs /\ supervised[wk[w].run] /\ run[wk[w].run] # "none"
      /\ supervised' = supervised /\ decision' = decision
  BY GraphInvParts, OwnRun, OwnTables DEF GraphInv
<1>1. \A q \in Runs : \/ run'[q] = run[q]
                      \/ run[q] = "running" /\ run'[q] = "awaiting_review"
  BY <1>0, OwnTables DEF TypeOK
<1>2. /\ Arrives(w)
      /\ wk'[w].pc \in Heir \union {"idle", "fail", "audit"}
      /\ wk'[w].pc # "idle" => wk'[w].run = wk[w].run
      /\ wk'[w].pc \in Heir => wk'[w].step = wk[w].step
      /\ \A v \in Workers : v # w => wk'[v] = wk[v]
  BY OwnMover, OwnArrives
<1>3. wk'[w].pc = "mark" => run[wk[w].run] = "cancel_requested"
  BY <1>0, <1>2, RunOfJob DEF Arrives, RunJobCoherent, Coherent
<1>4. wk'[w].pc = "boundary" => wk'[w].step = "canonicalize"
  BY <1>0, <1>2 DEF Arrives, Position, Heir
<1> SUFFICES ASSUME NEW v \in Workers
             PROVE  /\ wk'[v].pc # "idle" => run'[wk'[v].run] # "none"
                    /\ wk'[v].pc \in {"pause", "boundary", "durable"}
                         => supervised'[wk'[v].run]
                    /\ wk'[v].pc \in {"mark", "cancel"} =>
                          run'[wk'[v].run] \in {"cancel_requested", "cancelled"}
                    /\ wk'[v].pc \in {"boundary", "durable"}
                         /\ wk'[v].step # "canonicalize" => decision'[wk'[v].run] # {}
  BY DEF ReviewOrder
<1>5. CASE v = w
  BY <1>0, <1>1, <1>2, <1>3, <1>4, <1>5 DEF Heir
<1>6. CASE v # w
  <2>1. wk[v].pc # "idle" => wk[v].run \in Runs
    BY <1>0 DEF TypeOK, WorkerState
  <2> QED BY <1>0, <1>1, <1>2, <1>6, <2>1, OrderKept
<1> QED BY <1>5, <1>6

LEMMA OwnTrail ==
  ASSUME GraphInv, NEW w \in Workers, Own(w)
  PROVE  AuditTellsTruth'
<1>0. /\ TypeOK /\ AuditTellsTruth /\ trail' = trail
      /\ \/ run' = run
         \/ /\ run[wk[w].run] = "running"
            /\ run' = [run EXCEPT ![wk[w].run] = "awaiting_review"]
  BY GraphInvParts, OwnTables
<1> QED BY <1>0 DEF TypeOK, AuditTellsTruth

(***************************************************************************)
(* The graph's own steps: what a worker brings back from the graph.        *)
(***************************************************************************)

\* A lease holder that leaves the checkpoint fenced writes its own node's successor.
LEMMA OwnCheckpoint ==
  ASSUME GraphInv, NEW w \in Workers, Own(w), NEW q \in Runs, ~unfenced'[q]
  PROVE  /\ ~unfenced[q]
         /\ \/ ckpt'[q] = ckpt[q]
            \/ /\ q = wk[w].run /\ LeaveNode(w) /\ Holds(w) /\ Steers(w, q)
               /\ ckpt'[q] = After[node[w]]
<1>0. GraphTypeOK
  BY GraphInvParts
<1>1. CASE UNCHANGED <<ckpt, unfenced>>
  BY <1>1
<1>2. CASE LeaveNode(w)
  <2>1. /\ wk[w].run \in Runs /\ graph[wk[w].run] /\ wk[w].pc # "idle"
        /\ ckpt' = [ckpt EXCEPT ![wk[w].run] = After[node[w]]]
        /\ unfenced' = [unfenced EXCEPT ![wk[w].run] = @ \/ ~Holds(w)]
    BY <1>2, LeaveEffect, OwnRun
  <2>2. CASE q # wk[w].run
    BY <1>0, <2>1, <2>2 DEF GraphTypeOK
  <2>3. CASE q = wk[w].run
    <3>1. unfenced'[q] = (unfenced[q] \/ ~Holds(w)) /\ ckpt'[q] = After[node[w]]
      BY <1>0, <2>1, <2>3 DEF GraphTypeOK
    <3>2. ~unfenced[q] /\ Holds(w)
      BY <3>1
    <3>3. Steers(w, q)
      BY <2>1, <2>3, <3>2 DEF GraphInv, Steering
    <3> QED BY <1>2, <2>3, <3>1, <3>2, <3>3
  <2> QED BY <2>2, <2>3
<1> QED BY <1>1, <1>2, OwnTables

LEMMA OwnPast ==
  ASSUME GraphInv, NEW w \in Workers, Own(w), NEW r, r = wk[w].run, ~unfenced'[r],
         wk'[w].pc \in {"pause", "settle", "boundary"}
  PROVE  ~unfenced[r] /\ Past(r, "analysis") /\ Past(r, "recommendations")
<1>0. /\ WorkersTyped /\ r \in Runs /\ graph[r] /\ wk[w].pc # "idle" /\ Arrives(w)
      /\ node \in [Workers -> DOMAIN After \union {"none"}]
  BY GraphInvParts, OwnRun, OwnArrives DEF GraphTypeOK
<1>1. /\ ~unfenced[r]
      /\ LeaveNode(w) => Holds(w)
      /\ Holds(w) => Steers(w, r)
  <2>1. ~unfenced[r]
    BY <1>0, OwnCheckpoint
  <2>2. Holds(w) => Steers(w, r)
    BY <1>0, <2>1 DEF GraphInv, Steering
  <2>3. ASSUME LeaveNode(w) PROVE Holds(w)
    <3>1. unfenced' = [unfenced EXCEPT ![r] = @ \/ ~Holds(w)]
      BY <2>3, LeaveEffect
    <3>2. unfenced'[r] = (unfenced[r] \/ ~Holds(w))
      BY <1>0, <3>1 DEF GraphInv, GraphTypeOK
    <3> QED BY <3>2
  <2> QED BY <2>1, <2>2, <2>3
<1> DEFINE Goal == Past(r, "analysis") /\ Past(r, "recommendations")
<1>2. ckpt[r] \in {"interrupted", "end", "human_review", "trust_boundary"} => Goal
  BY RankOfAnalysis DEF Past
<1>c. ASSUME NEW p \in {"mark", "node", "leave"}, Goto(w, p) PROVE FALSE
  BY <1>0, <1>c, GotoFields
<1>d. ASSUME GoIdle(w) \/ GoFail(w, FALSE) \/ GoAudit(w, "awaiting_review") PROVE FALSE
  BY <1>0, <1>d, IdleField, FailField, AuditFields
<1>3. CASE OpenGraph(w)
  BY <1>2, <1>3, <1>c DEF OpenGraph
<1>4. CASE EnterNode(w)
  <2>1. /\ wk[w].pc = "node" /\ NodeFollows(w)
        /\ \/ GoIdle(w) \/ Goto(w, "mark") \/ GoFail(w, FALSE)
           \/ Holds(w) /\ Goto(w, IF node[w] \in DOMAIN Body THEN Body[node[w]] ELSE "leave")
    BY <1>4 DEF EnterNode
  <2>2. Holds(w)
    BY <2>1, <1>c, <1>d
  <2>3. wk'[w].pc = "boundary"
    <3>1. Goto(w, IF node[w] \in DOMAIN Body THEN Body[node[w]] ELSE "leave")
      BY <2>1, <1>c, <1>d
    <3>2. wk'[w].pc \in {"load", "body", "boundary", "leave"}
      BY <1>0, <3>1, GotoFields DEF Body
    <3> QED BY <3>2
  <2>4. node[w] = "trust_boundary"
    BY <1>0, <2>1, <2>3 DEF Arrives, NodeFollows, InsideNode
  <2> QED BY <1>1, <1>2, <2>2, <2>4 DEF Steers
<1>5. CASE LeaveAnalysis(w) \/ Recommend(w) \/ GraphPause(w) \/ RaiseInNode(w)
  BY <1>5, <1>c, <1>d DEF LeaveAnalysis, Recommend, GraphPause, RaiseInNode
<1>6. CASE LeaveNode(w)
  <2>1. node[w] \in {"human_review", "trust_boundary"}
    BY <1>6, <1>c, LeaveEffect
  <2> QED BY <1>1, <1>2, <1>6, <2>1 DEF Steers
<1> QED BY <1>1, <1>3, <1>4, <1>5, <1>6 DEF Own

LEMMA OwnMoverInformed ==
  ASSUME GraphInv, NEW w \in Workers, Own(w)
  PROVE  Informed(w)'
<1>0. /\ Arrives(w) /\ Position(w)
      /\ wk'[w].pc \in Heir \union {"idle", "fail", "audit"}
      /\ wk'[w].pc = "audit" => wk'[w].event = "awaiting_review"
      /\ wk'[w].pc # "idle" => wk'[w].run = wk[w].run
      /\ wk'[w].pc \in Heir => wk'[w].step = wk[w].step
  BY OwnMover, OwnArrives DEF GraphInv
<1> SUFFICES ASSUME NEW r \in Runs, r = wk[w].run, wk'[w].run = r, wk'[w].pc # "idle",
                    NEW backed \in BOOLEAN, backed = ~unfenced'[r],
                    NEW judged \in BOOLEAN, judged = (node'[w] = "none")
             PROVE  Knows(w, backed)' /\ Owns(w, backed, judged)'
  BY <1>0, OwnRun DEF Informed, Knows, Owns
<1>1. UNCHANGED <<stage, risk, decision>> /\ Done(r)' = Done(r) /\ (AllEnded(r) => AllEnded(r)')
  BY OwnTables DEF Done, AllEnded, Ended
<1>2. ASSUME backed, wk'[w].pc \in {"pause", "settle", "boundary"}
      PROVE  risk[r] # {} /\ AllEnded(r) /\ recs[r] = Done(r)
  <2>1. ~unfenced[r] /\ Past(r, "analysis") /\ Past(r, "recommendations") /\ graph[r]
    BY <1>2, OwnPast, OwnRun
  <2> QED BY <2>1 DEF GraphInv, Covered
<1>3. wk'[w].pc = "pause" => recs' = recs
  <2>1. Goto(w, "leave") => wk'[w].pc = "leave"
    BY GraphInvParts, GotoFields
  <2> QED BY <2>1, OwnTables
<1>4. wk'[w].pc = "boundary" => wk'[w].step = "canonicalize" /\ ~judged
  BY <1>0 DEF Arrives, Position, Heir
<1>5. /\ wk'[w].pc \in Executed => wk'[w].pc \in {"pause", "settle", "boundary"}
      /\ wk'[w].pc \notin Executing \union {"durable", "complete"}
      /\ wk'[w].pc \in Trusting => wk'[w].pc = "boundary"
  BY <1>0 DEF Heir, Executed, Executing, Trusting
<1>6. Knows(w, backed)'
  BY <1>0, <1>1, <1>2, <1>5 DEF Knows, Truths
<1>7. Owns(w, backed, judged)'
  BY <1>1, <1>2, <1>3, <1>4, <1>5 DEF Owns
<1> QED BY <1>6, <1>7

LEMMA OwnBystanderInformed ==
  ASSUME GraphInv, NEW w \in Workers, Own(w), NEW v \in Workers, v # w
  PROVE  Informed(v)'
<1>0. /\ TypeOK /\ Fenced /\ WorkersTyped /\ wk'[v] = wk[v] /\ node'[v] = node[v]
      /\ wk[w].pc # "idle" /\ wk[w].run \in Runs
  BY GraphInvParts, OwnMover, OwnNodes, OwnRun
<1> SUFFICES ASSUME NEW q \in Runs, q = wk[v].run, wk[v].pc # "idle",
                    NEW backed \in BOOLEAN, backed = ~unfenced'[q],
                    NEW judged \in BOOLEAN, judged = (node[v] = "none")
             PROVE  Knows(v, backed)' /\ (Current(v)' => Owns(v, backed, judged)')
  BY <1>0 DEF Informed, Knows, Owns, WorkersTyped, WorkerState
<1>1. backed => ~unfenced[q]
  BY OwnCheckpoint
<1>2. Knows(v, backed) /\ (Current(v) => Owns(v, backed, judged))
  BY <1>1 DEF GraphInv, Informed, Knows, Owns
<1>3. /\ UNCHANGED <<gen, stage, risk, decision, supervised>>
      /\ recs' = recs \/ (Holds(w) /\ recs' = [recs EXCEPT ![wk[w].run] = Done(wk[w].run)])
      /\ \/ run' = run
         \/ /\ run[wk[w].run] = "running"
            /\ run' = [run EXCEPT ![wk[w].run] = "awaiting_review"]
  BY OwnTables
<1>4. Current(v) => Quiet(q)
  <2>1. Current(v) => ~(Holds(w) /\ wk[w].run = q)
    BY <1>0 DEF Current, Holds, Fenced, LeaseExclusive
  <2> QED BY <1>0, <1>3, <2>1 DEF Quiet, TypeOK
<1>5. /\ run[q] \in Truths => run'[q] = run[q]
      /\ Cancelling(q) => Cancelling(q)'
  BY <1>0, <1>3 DEF TypeOK, Truths, Cancelling
<1> QED BY <1>0, <1>2, <1>3, <1>4, <1>5, BystanderKeeps

LEMMA OwnRightful ==
  ASSUME GraphInv, NEW w \in Workers, Own(w), NEW q \in Runs
  PROVE  Rightful(q, ~unfenced[q])'
<1>0. /\ TypeOK /\ RunJobCoherent /\ wk[w].run \in Runs /\ wk[w].pc # "idle"
      /\ graph[wk[w].run]
      /\ UNCHANGED <<stage, risk, decision, supervised, fin>>
      /\ Done(q)' = Done(q) /\ (AllEnded(q) => AllEnded(q)')
  BY GraphInvParts, OwnRun, OwnTables DEF Done, AllEnded, Ended
<1> SUFFICES ASSUME NEW backed \in BOOLEAN, backed = ~unfenced'[q]
             PROVE  Rightful(q, backed)'
  BY DEF Rightful
<1>1. backed => ~unfenced[q]
  BY OwnCheckpoint
<1>2. Rightful(q, backed)
  BY <1>1 DEF GraphInv, Rightful
<1>3. CASE run'[q] \notin Outcome
  BY <1>3 DEF Rightful, Outcome
<1>4. CASE run'[q] = run[q] /\ run[q] \in Outcome
  <2>1. ~(Holds(w) /\ wk[w].run = q)
    BY <1>0, <1>4, JobsOfStatus DEF RunJobCoherent, Holds, Outcome
  <2>2. recs' = recs \/ (Holds(w) /\ recs' = [recs EXCEPT ![wk[w].run] = Done(wk[w].run)])
    BY OwnTables
  <2>3. recs'[q] = recs[q]
    BY <1>0, <2>1, <2>2 DEF TypeOK
  <2>4. Documented(q) => Documented(q)'
    BY <1>0, <2>3 DEF Documented
  <2> QED BY <1>0, <1>2, <1>4, <2>4 DEF Rightful
<1>5. CASE run'[q] # run[q]
  <2>1. /\ wk[w].pc = "pause" /\ Holds(w) /\ run[wk[w].run] = "running"
        /\ run' = [run EXCEPT ![wk[w].run] = "awaiting_review"]
        /\ GoAudit(w, "awaiting_review")
    BY <1>5, OwnTables
  <2>2. q = wk[w].run /\ run'[q] = "awaiting_review" /\ run[q] = "running"
    BY <1>0, <1>5, <2>1 DEF TypeOK
  <2>3. recs' = recs
    <3>1. wk[w].pc # "body"
      BY <2>1
    <3> QED BY <3>1, OwnTables
  <2>4. ASSUME backed PROVE Documented(q)' /\ decision'[q] = {}
    <3>1. ~unfenced[q]
      BY <1>1, <2>4
    <3>2. Steers(w, q)
      BY <1>0, <2>1, <2>2, <3>1 DEF GraphInv, Steering
    <3>3. decision[q] = {}
      BY <2>1, <3>2 DEF Steers
    <3>4. /\ risk[q] # {} \/ Cancelling(q)
          /\ recs[q] = Done(q)
      BY <1>0, <2>1, <2>2, <3>1 DEF GraphInv, Informed, Knows, Owns, Executed, Current, Holds
    <3>5. ~Cancelling(q)
      BY <2>2 DEF Cancelling
    <3> QED BY <1>0, <2>3, <3>3, <3>4, <3>5 DEF Documented
  <2> QED BY <2>2, <2>4 DEF Rightful
<1> QED BY <1>3, <1>4, <1>5

(***************************************************************************)
(* The graph's own steps: the lease holder's node and the checkpoint.      *)
(***************************************************************************)
LEMMA OwnLeaseBack ==
  ASSUME GraphInv, NEW w \in Workers, Own(w), NEW v \in Workers, NEW q \in Runs,
         wk[v].run = q, wk'[v].run = q, wk'[v].gen = wk[v].gen, Holds(v)'
  PROVE  Holds(v)
<1>0. TypeOK /\ wk[w].run \in Runs /\ gen' = gen
  BY GraphInvParts, OwnRun, OwnTables
<1>1. job'[q] \in {"running", "cancel_requested"} /\ gen'[q] = wk'[v].gen /\ live'[q]
  BY DEF Holds
<1>2. CASE UNCHANGED <<run, job, live>>
  BY <1>0, <1>1, <1>2 DEF Holds
<1>3. CASE /\ live' = [live EXCEPT ![wk[w].run] = FALSE]
           /\ job' = [job EXCEPT ![wk[w].run] = "completed"]
           /\ wk[w].pc = "pause" /\ Holds(w)
  <2>1. q # wk[w].run /\ job'[q] = job[q] /\ live'[q] = live[q]
    BY <1>0, <1>1, <1>3 DEF TypeOK
  <2> QED BY <1>0, <1>1, <2>1 DEF Holds
<1> QED BY <1>2, <1>3, OwnTables

\* analysis() lets a run on only when it has results and none is outstanding.
LEMMA AnalysisStored ==
  ASSUME GraphInv, NEW w \in Workers, wk[w].pc = "executed", NEW r \in Runs, r = wk[w].run,
         ~unfenced[r], Holds(w), job[r] # "cancel_requested", Finish(r) # "failed"
  PROVE  risk[r] # {} /\ Done(r) # {} /\ AllEnded(r)
<1>1. ~Cancelling(r)
  BY GraphInvParts, RunOfJob DEF Holds, RunJobCoherent, Coherent, Cancelling
<1>2. risk[r] # {} /\ AllEnded(r)
  BY <1>1 DEF GraphInv, Informed, Knows, Owns, Executed, Current, Holds
<1>3. Done(r) # {}
  <2>1. 1 \in Stages
    BY StagesAssumption DEF Stages
  <2> QED BY <1>2, <2>1 DEF AllEnded, Ended, Finish, Done
<1> QED BY <1>2, <1>3

LEMMA OwnMoverSteering ==
  ASSUME GraphInv, NEW w \in Workers, Own(w)
  PROVE  Steering(w)'
<1>0. /\ GraphTypeOK /\ TypeOK /\ WorkersTyped /\ Arrives(w) /\ Position(w)
      /\ wk[w].pc # "idle" /\ graph[wk[w].run]
      /\ UNCHANGED <<stage, risk, decision, fin>>
      /\ \A q : AllEnded(q)' <=> AllEnded(q)
      /\ \A q : Done(q)' = Done(q)
  BY GraphInvParts, OwnRun, OwnArrives, OwnTables DEF GraphInv, AllEnded, Ended, Done
<1> SUFFICES ASSUME NEW r \in Runs, r = wk[w].run, wk'[w].run = r, wk'[w].gen = wk[w].gen,
                    wk'[w].pc # "idle", ~unfenced'[r], Holds(w)'
             PROVE  Steers(w, r)'
  BY OwnMover, OwnRun DEF Steering
<1>1. /\ Holds(w) /\ ~unfenced[r] /\ Steers(w, r)
      /\ ckpt'[r] = ckpt[r] \/ LeaveNode(w)
  <2>1. Holds(w) /\ ~unfenced[r] /\ (ckpt'[r] = ckpt[r] \/ LeaveNode(w))
    BY OwnLeaseBack, OwnCheckpoint
  <2> QED BY <1>0, <2>1 DEF GraphInv, Steering
<1>a. wk'[w].pc \in {"fail", "audit", "mark", "settle"} => Steers(w, r)'
  <2>1. wk'[w].pc \in {"fail", "audit", "mark", "settle"} => node'[w] = "none"
    BY <1>0 DEF Arrives, InsideNode
  <2> QED BY <2>1 DEF Steers
<1>b. ASSUME NEW p \in {"mark", "settle"}, Goto(w, p) PROVE Steers(w, r)'
  BY <1>0, <1>a, <1>b, GotoFields
<1>c. ASSUME GoIdle(w) \/ GoFail(w, FALSE) \/ GoAudit(w, "awaiting_review")
      PROVE  Steers(w, r)'
  BY <1>0, <1>a, <1>c, IdleField, FailField, AuditFields
<1>2. CASE OpenGraph(w)
  <2>0. ckpt[r] \in DOMAIN Rank /\ ckpt' = ckpt /\ node[w] = "none"
    BY <1>0, <1>2 DEF GraphTypeOK, OpenGraph
  <2>1. ASSUME ckpt[r] = "interrupted", decision[r] = {}, Goto(w, "pause"), UNCHANGED node
        PROVE  Steers(w, r)'
    BY <1>0, <2>0, <2>1, GotoFields DEF Steers
  <2>2. ASSUME NEW n, node' = [node EXCEPT ![w] = n], Goto(w, "node"),
               \/ n = "resumed" /\ ckpt[r] = "interrupted" /\ decision[r] # {}
               \/ n = ckpt[r]
        PROVE  Steers(w, r)'
    <3>1. node'[w] = n /\ wk'[w].pc = "node"
      BY <1>0, <2>2, GotoFields DEF GraphTypeOK
    <3> QED BY <1>0, <2>0, <2>2, <3>1, Names DEF Steers
  <2> QED BY <1>2, <1>b, <2>1, <2>2 DEF OpenGraph
<1>3. CASE EnterNode(w)
  <2>1. /\ NodeFollows(w) /\ ckpt' = ckpt /\ recs' = recs
        /\ \/ GoIdle(w) \/ Goto(w, "mark") \/ GoFail(w, FALSE)
           \/ Goto(w, IF node[w] \in DOMAIN Body THEN Body[node[w]] ELSE "leave")
    BY <1>3 DEF EnterNode, UnchangedTables
  <2>2. ASSUME Goto(w, IF node[w] \in DOMAIN Body THEN Body[node[w]] ELSE "leave")
        PROVE  Steers(w, r)'
    <3>1. /\ wk'[w].pc \in {"load", "body", "boundary", "leave"}
          /\ wk'[w].pc = "leave" => node[w] \notin {"analysis", "recommendations"}
      BY <1>0, <2>2, GotoFields DEF Body
    <3>2. node'[w] = node[w]
      BY <1>0, <2>1, <3>1 DEF NodeFollows, GraphTypeOK, InsideNode
    <3> QED BY <1>0, <1>1, <2>1, <3>1, <3>2 DEF Steers
  <2> QED BY <1>b, <1>c, <2>1, <2>2
<1>4. CASE LeaveAnalysis(w)
  <2>1. /\ wk[w].pc = "executed" /\ node[w] = "analysis" /\ NodeFollows(w)
        /\ ckpt' = ckpt /\ recs' = recs
        /\ \/ GoIdle(w) \/ Goto(w, "mark") \/ GoFail(w, FALSE)
           \/ /\ job[r] # "cancel_requested" /\ Finish(r) # "failed"
              /\ Goto(w, "leave")
    BY <1>4 DEF LeaveAnalysis, UnchangedTables
  <2>2. ASSUME job[r] # "cancel_requested", Finish(r) # "failed", Goto(w, "leave")
        PROVE  Steers(w, r)'
    <3>1. risk[r] # {} /\ Done(r) # {} /\ AllEnded(r)
      BY <1>1, <2>1, <2>2, AnalysisStored
    <3>2. wk'[w].pc = "leave" /\ node'[w] = "analysis"
      BY <1>0, <2>1, <2>2, GotoFields DEF NodeFollows, GraphTypeOK, InsideNode
    <3> QED BY <1>0, <1>1, <2>1, <3>1, <3>2 DEF Steers
  <2> QED BY <1>b, <1>c, <2>1, <2>2
<1>5. CASE Recommend(w)
  <2>1. /\ wk[w].pc = "body" /\ NodeFollows(w) /\ ckpt' = ckpt
        /\ node[w] = "recommendations"
        /\ recs' = [recs EXCEPT ![r] = Done(r)] /\ Goto(w, "leave")
    BY <1>0, <1>1, <1>5 DEF Recommend, Position
  <2>2. /\ wk'[w].pc = "leave" /\ node'[w] = "recommendations"
        /\ recs'[r] = Done(r)
    BY <1>0, <2>1, GotoFields DEF NodeFollows, GraphTypeOK, InsideNode, TypeOK
  <2> QED BY <1>0, <1>1, <2>1, <2>2 DEF Steers
<1>6. CASE LeaveNode(w)
  <2>1. /\ node[w] \in DOMAIN After /\ ckpt'[r] = After[node[w]]
        /\ \/ /\ node[w] = "human_review" /\ Goto(w, "pause")
              /\ node' = [node EXCEPT ![w] = "none"]
           \/ Goto(w, "settle")
           \/ /\ node[w] \notin {"human_review", "trust_boundary"} /\ Goto(w, "node")
              /\ node' = [node EXCEPT ![w] = After[node[w]]]
    BY <1>0, <1>6, LeaveEffect DEF GraphTypeOK
  <2>2. ASSUME node[w] = "human_review", Goto(w, "pause"),
               node' = [node EXCEPT ![w] = "none"]
        PROVE  Steers(w, r)'
    <3>1. ckpt[r] = "human_review"
      BY <1>1, <2>2 DEF Steers
    <3>2. decision[r] = {}
      BY <1>0, <1>1, <3>1 DEF GraphInv, Stationed
    <3>3. node'[w] = "none" /\ wk'[w].pc = "pause" /\ ckpt'[r] = "interrupted"
      BY <1>0, <2>1, <2>2, GotoFields, Chain DEF GraphTypeOK
    <3> QED BY <1>0, <3>2, <3>3 DEF Steers
  <2>3. ASSUME node[w] \notin {"human_review", "trust_boundary"}, Goto(w, "node"),
               node' = [node EXCEPT ![w] = After[node[w]]]
        PROVE  Steers(w, r)'
    <3>1. node'[w] = After[node[w]] /\ wk'[w].pc = "node" /\ After[node[w]] # "resumed"
      BY <1>0, <2>1, <2>3, GotoFields, Chain, Names DEF GraphTypeOK
    <3> QED BY <2>1, <3>1 DEF Steers
  <2> QED BY <1>b, <2>1, <2>2, <2>3
<1>7. CASE GraphPause(w) \/ RaiseInNode(w)
  BY <1>7, <1>c DEF GraphPause, RaiseInNode
<1> QED BY <1>2, <1>3, <1>4, <1>5, <1>6, <1>7 DEF Own

LEMMA OwnBystanderSteering ==
  ASSUME GraphInv, NEW w \in Workers, Own(w), NEW v \in Workers, v # w
  PROVE  Steering(v)'
<1>0. /\ TypeOK /\ WorkersTyped /\ Fenced
      /\ wk'[v] = wk[v] /\ node'[v] = node[v] /\ wk[w].run \in Runs /\ wk[w].pc # "idle"
      /\ UNCHANGED <<graph, stage, risk, decision, fin>>
      /\ \A q : AllEnded(q)' <=> AllEnded(q)
      /\ \A q : Done(q)' = Done(q)
  BY GraphInvParts, OwnMover, OwnNodes, OwnRun, OwnTables DEF AllEnded, Ended, Done
<1> SUFFICES ASSUME NEW q \in Runs, q = wk[v].run, wk[v].pc # "idle", graph[q],
                    ~unfenced'[q], Holds(v)'
             PROVE  Steers(v, q)'
  BY <1>0 DEF Steering, WorkersTyped, WorkerState
<1>1. Holds(v) /\ ~(Holds(w) /\ wk[w].run = q)
  <2>1. Holds(v)
    BY <1>0, OwnLeaseBack
  <2> QED BY <1>0, <2>1 DEF Holds, Fenced, LeaseExclusive
<1>2. ~unfenced[q] /\ ckpt'[q] = ckpt[q]
  BY <1>1, OwnCheckpoint
<1>3. recs'[q] = recs[q]
  BY <1>0, <1>1, OwnTables DEF TypeOK
<1>4. Steers(v, q)
  BY <1>1, <1>2 DEF GraphInv, Steering
<1> QED BY <1>0, <1>2, <1>3, <1>4 DEF Steers

\* What a node checkpoints is stored, and what was stored before stays.
LEMMA OwnCovered ==
  ASSUME GraphInv, NEW w \in Workers, Own(w), NEW r \in Runs
  PROVE  Covered(r)'
<1>0. /\ TypeOK /\ Covered(r) /\ wk[w].run \in Runs
      /\ UNCHANGED <<stage, risk, decision, fin, graph>>
      /\ Done(r)' = Done(r) /\ (AllEnded(r) <=> AllEnded(r)')
      /\ recs' = recs \/ recs' = [recs EXCEPT ![wk[w].run] = Done(wk[w].run)]
  BY GraphInvParts, OwnRun, OwnTables DEF GraphInv, Done, AllEnded, Ended
<1> SUFFICES ASSUME graph[r], ~unfenced'[r]
             PROVE  /\ Past(r, "analysis")' => risk[r] # {} /\ Done(r) # {} /\ AllEnded(r)
                    /\ Past(r, "recommendations")' => recs'[r] = Done(r)
                    /\ Past(r, "interrupted")' => decision[r] # {}
                    /\ ckpt'[r] = "end" => fin[r] = "verified"
  BY <1>0 DEF Covered
<1>1. recs'[r] = recs[r] \/ recs'[r] = Done(r)
  BY <1>0 DEF TypeOK
<1>2. /\ Past(r, "analysis") => risk[r] # {} /\ Done(r) # {} /\ AllEnded(r)
      /\ Past(r, "recommendations") => recs[r] = Done(r)
      /\ Past(r, "interrupted") => decision[r] # {}
      /\ ckpt[r] = "end" => fin[r] = "verified"
  BY <1>0, OwnCheckpoint DEF Covered
<1>3. CASE ckpt'[r] = ckpt[r]
  <2>1. \A n : Past(r, n)' <=> Past(r, n)
    BY <1>3 DEF Past
  <2> QED BY <1>1, <1>2, <1>3, <2>1
<1>4. ASSUME LeaveNode(w), Steers(w, r), ckpt'[r] = After[node[w]],
             NEW n \in DOMAIN After, n = node[w]
      PROVE  /\ Past(r, "analysis")' => risk[r] # {} /\ Done(r) # {} /\ AllEnded(r)
             /\ Past(r, "recommendations")' => recs'[r] = Done(r)
             /\ Past(r, "interrupted")' => decision[r] # {}
             /\ ckpt'[r] = "end" => fin[r] = "verified"
  <2>1. \/ wk[w].pc = "leave" /\ n # "trust_boundary"
        \/ wk[w].pc = "complete" /\ n = "trust_boundary"
    BY <1>4, LeaveEffect
  <2>2. ckpt[r] = IF n = "resumed" THEN "interrupted" ELSE n
    BY <1>4, Names DEF Steers
  <2>3. /\ n = "resumed" => decision[r] # {}
        /\ n = "analysis" => risk[r] # {} /\ Done(r) # {} /\ AllEnded(r)
        /\ n = "recommendations" => recs[r] = Done(r)
        /\ n = "trust_boundary" => fin[r] = "verified"
    BY <1>4, <2>1 DEF Steers
  <2>4. CASE n \in {"readiness", "analysis"}
    <3>1. /\ ckpt'[r] \in {"analysis", "recommendations"}
          /\ ckpt'[r] = "recommendations" => n = "analysis"
      BY <1>4, <2>4 DEF After
    <3> QED BY <2>3, <3>1, RankOfAnalysis DEF Past
  <2>5. CASE n = "recommendations"
    <3>1. ckpt'[r] = "model_inference" /\ ckpt[r] = "recommendations"
      BY <1>4, <2>2, <2>5 DEF After
    <3> QED BY <1>1, <1>2, <2>3, <2>5, <3>1, RankOfAnalysis DEF Past
  <2>6. CASE n \in {"model_inference", "reviewer_briefing", "human_review"}
    <3>1. /\ ckpt'[r] \in {"reviewer_briefing", "human_review", "interrupted"}
          /\ ckpt[r] \in {"model_inference", "reviewer_briefing", "human_review"}
      BY <1>4, <2>2, <2>6 DEF After
    <3> QED BY <1>1, <1>2, <3>1, RankOfAnalysis DEF Past
  <2>7. CASE n = "resumed"
    <3>1. ckpt'[r] = "trust_boundary" /\ ckpt[r] = "interrupted"
      BY <1>4, <2>2, <2>7 DEF After
    <3> QED BY <1>1, <1>2, <2>3, <2>7, <3>1, RankOfAnalysis DEF Past
  <2>8. CASE n = "trust_boundary"
    <3>1. ckpt[r] = "trust_boundary"
      BY <2>2, <2>8
    <3> QED BY <1>1, <1>2, <2>3, <2>8, <3>1, RankOfAnalysis DEF Past
  <2> QED BY <2>4, <2>5, <2>6, <2>7, <2>8, Names
<1>5. LeaveNode(w) => node[w] \in DOMAIN After
  BY LeaveEffect
<1> QED BY <1>3, <1>4, <1>5, OwnCheckpoint

LEMMA OwnStationed ==
  ASSUME GraphInv, NEW w \in Workers, Own(w), NEW r \in Runs
  PROVE  Stationed(r)'
<1>0. /\ TypeOK /\ GraphTypeOK /\ RunJobCoherent /\ Stationed(r) /\ wk[w].run \in Runs
      /\ graph[wk[w].run]
      /\ UNCHANGED <<decision, supervised, graph>>
  BY GraphInvParts, OwnRun, OwnTables DEF GraphInv
<1>1. run'[r] = "none" <=> run[r] = "none"
  BY <1>0, OwnTables DEF TypeOK
<1>2. ~graph[r] => ckpt'[r] = ckpt[r]
  <2>1. ckpt' = ckpt \/ \E n : ckpt' = [ckpt EXCEPT ![wk[w].run] = n]
    BY OwnTables, LeaveEffect
  <2> QED BY <1>0, <2>1 DEF GraphTypeOK
<1>3. ASSUME graph[r], ~unfenced'[r], decision[r] # {}
      PROVE  ckpt'[r] \in {"interrupted", "trust_boundary", "end"}
  <2>1. ckpt[r] \in {"interrupted", "trust_boundary", "end"}
    BY <1>0, <1>3, OwnCheckpoint DEF Stationed
  <2>2. CASE ckpt'[r] = ckpt[r]
    BY <2>1, <2>2
  <2>3. CASE LeaveNode(w) /\ Steers(w, r) /\ ckpt'[r] = After[node[w]]
    <3>1. node[w] \in DOMAIN After
      BY <2>3, LeaveEffect
    <3>2. node[w] \in {"resumed", "trust_boundary"}
      BY <2>1, <2>3, <3>1, Names DEF Steers
    <3> QED BY <2>3, <3>1, <3>2, Chain
  <2> QED BY <1>3, <2>2, <2>3, OwnCheckpoint
<1>4. ASSUME graph[r], ~unfenced'[r], run'[r] = "awaiting_review"
      PROVE  ckpt'[r] = "interrupted"
  <2>0. ~unfenced[r]
    BY <1>4, OwnCheckpoint
  <2>1. CASE run[r] = "awaiting_review"
    <3>1. ~(Holds(w) /\ wk[w].run = r)
      BY <1>0, <2>1, JobsOfStatus DEF RunJobCoherent, Holds
    <3> QED BY <1>0, <1>4, <2>0, <2>1, <3>1, OwnCheckpoint DEF Stationed
  <2>2. CASE run[r] # "awaiting_review"
    <3>1. /\ wk[w].pc = "pause" /\ Holds(w) /\ r = wk[w].run
      BY <1>0, <1>4, <2>2, OwnTables DEF TypeOK
    <3>2. Steers(w, r)
      BY <1>0, <2>0, <3>1 DEF GraphInv, Steering
    <3>3. ~LeaveNode(w)
      BY <3>1, LeaveEffect
    <3> QED BY <1>4, <3>1, <3>2, <3>3, OwnCheckpoint DEF Steers
  <2> QED BY <2>1, <2>2
<1> QED BY <1>0, <1>1, <1>2, <1>3, <1>4 DEF Stationed

LEMMA OwnStepKeeps ==
  ASSUME GraphInv, NEW w \in Workers, Own(w)
  PROVE  GraphInv'
<1>1. GraphTypeOK' /\ RunJobCoherent' /\ Fenced' /\ ReviewOrder' /\ AuditTellsTruth'
  BY OwnTypes, OwnCoherent, OwnFenced, OwnOrder, OwnTrail
<1>2. \A v \in Workers : Position(v)' /\ Steering(v)' /\ Informed(v)'
  BY OwnPosition, OwnMoverSteering, OwnBystanderSteering, OwnMoverInformed,
     OwnBystanderInformed
<1>3. \A r \in Runs : Covered(r)' /\ Stationed(r)' /\ Rightful(r, ~unfenced[r])'
  BY OwnCovered, OwnStationed, OwnRightful
<1> QED BY <1>1, <1>2, <1>3 DEF GraphInv

LEMMA GraphInitInv == GraphInit => GraphInv
<1> SUFFICES ASSUME GraphInit PROVE GraphInv
  OBVIOUS
<1>0. Init /\ TypeOK
  BY InitType DEF GraphInit
<1>1. GraphTypeOK
  BY <1>0, Names DEF GraphInit, GraphTypeOK
<1>2. RunJobCoherent /\ Fenced /\ ReviewOrder /\ AuditTellsTruth
  BY <1>0, JobsOfStatus
  DEF Init, RunJobCoherent, Fenced, LeaseExclusive, ReviewOrder, IdleWorker,
      AuditTellsTruth
<1>3. ASSUME NEW w \in Workers PROVE Position(w) /\ Steering(w) /\ Informed(w)
  <2>1. wk[w].pc = "idle" /\ node[w] = "none"
    BY DEF GraphInit, Init, IdleWorker
  <2> QED BY <2>1 DEF Position, Executing, Trusting, Opening, Heads, Steering, Informed
<1>4. ASSUME NEW r \in Runs PROVE Covered(r) /\ Stationed(r) /\ Rightful(r, ~unfenced[r])
  BY DEF GraphInit, Init, Covered, Stationed, Rightful
<1> QED BY <1>1, <1>2, <1>3, <1>4 DEF GraphInv

LEMMA GraphInvHolds == GraphSpec => []GraphInv
<1>1. GraphInv /\ [GraphNext]_allVars => GraphInv'
  BY GraphCases, CommonStep, OwnStepKeeps
<1> QED BY <1>1, GraphInitInv, PTL DEF GraphSpec

(***************************************************************************)
(* The properties of both modes.                                           *)
(***************************************************************************)

\* Every behaviour of the two modes keeps every variable in its type.
THEOREM GraphTypeCorrect == GraphSpec => []GraphTypeOK
<1>1. GraphInv => GraphTypeOK
  BY DEF GraphInv
<1> QED BY <1>1, GraphInvHolds, PTL

\* The run row and the queue row agree in both modes.
THEOREM GraphRunsAndJobsAgree == GraphSpec => []RunJobCoherent
<1>1. GraphInv => RunJobCoherent
  BY DEF GraphInv
<1> QED BY <1>1, GraphInvHolds, PTL

\* Inside the graph too no two workers share a run under one generation.
THEOREM GraphLeasesFence == GraphSpec => []LeaseExclusive
<1>1. GraphInv => LeaseExclusive
  BY DEF GraphInv, Fenced
<1> QED BY <1>1, GraphInvHolds, PTL

\* A resumed graph skips only nodes whose results are stored.
THEOREM CheckpointsAreBacked == GraphSpec => []CheckpointIsBacked
<1>1. (\A r \in Runs : Covered(r)) => CheckpointIsBacked
  BY DEF Covered, AllEnded, Ended, CheckpointIsBacked
<1>2. GraphInv => CheckpointIsBacked
  BY <1>1 DEF GraphInv
<1> QED BY <1>2, GraphInvHolds, PTL

\* In either mode a run that awaits review has what decide() needs, and its graph
\* waits at the interrupt.
THEOREM GraphPausesAreDecidable == GraphSpec => []PauseIsDecidable
<1>1. (\A r \in Runs : Stationed(r) /\ Rightful(r, ~unfenced[r])) => PauseIsDecidable
  BY DEF Stationed, Rightful, PauseIsDecidable
<1>2. GraphInv => PauseIsDecidable
  BY <1>1 DEF GraphInv
<1> QED BY <1>2, GraphInvHolds, PTL

\* A run completes with a result for every stage, unless a worker without the lease
\* has written its checkpoint.
THEOREM GraphStagesAccountedFor == GraphSpec => []FencedRunsAccountForStages
<1>1. (\A r \in Runs : Rightful(r, ~unfenced[r])) => FencedRunsAccountForStages
  BY DEF Rightful, AllEnded, Ended, FencedRunsAccountForStages, AccountsForStages
<1>2. GraphInv => FencedRunsAccountForStages
  BY <1>1 DEF GraphInv
<1> QED BY <1>2, GraphInvHolds, PTL

\* Whoever wrote the checkpoint, a supervised run completes only with the results
\* that were decided on and a verified finalization.
THEOREM GraphReviewBinds == GraphSpec => []OnlyReviewedResultsComplete
<1>1. (\A r \in Runs : Rightful(r, ~unfenced[r])) => OnlyReviewedResultsComplete
  BY DEF Rightful, OnlyReviewedResultsComplete
<1>2. GraphInv => OnlyReviewedResultsComplete
  BY <1>1 DEF GraphInv
<1> QED BY <1>2, GraphInvHolds, PTL

\* A recorded completion or cancellation is the truth about a run of either mode.
THEOREM GraphTrailIsTrue == GraphSpec => []AuditTellsTruth
<1>1. GraphInv => AuditTellsTruth
  BY DEF GraphInv
<1> QED BY <1>1, GraphInvHolds, PTL

LEMMA GraphNothingDoneAgain ==
  GraphInv /\ NothingDoneAgain /\ [GraphNext]_allVars => NothingDoneAgain'
<1> SUFFICES ASSUME GraphInv, NothingDoneAgain, [GraphNext]_allVars
             PROVE  NothingDoneAgain'
  OBVIOUS
<1>1. CASE Common
  BY <1>1, CommonLegal, LegalNext, NextNothingDoneAgain, GraphInvParts
<1>2. ASSUME NEW w \in Workers, Own(w) PROVE NothingDoneAgain'
  <2>1. /\ stage' = stage /\ gen' = gen
        /\ \A v \in Workers : v # w => wk'[v] = wk[v]
        /\ wk'[w].pc \notin Executing
    BY <1>2, OwnTables, OwnMover DEF Heir, Executing
  <2> QED BY <2>1 DEF NothingDoneAgain
<1> QED BY <1>1, <1>2, GraphCases

\* Committed stage results stay in both modes: a graph that is resumed, or taken
\* back by a stale checkpoint, reopens none.
THEOREM GraphResultsAreStable == GraphSpec => CompletedStageStable
<1>1. GraphInit => NothingDoneAgain
  BY DEF GraphInit, Init, NothingDoneAgain, IdleWorker, Executing
<1>2. GraphInv /\ NothingDoneAgain /\ [GraphNext]_allVars
        => [\A r \in Runs : Done(r) \subseteq Done(r)']_vars
  <2> SUFFICES ASSUME GraphInv, NothingDoneAgain, [GraphNext]_allVars
               PROVE  \A r \in Runs : Done(r) \subseteq Done(r)'
    OBVIOUS
  <2>1. CASE Common
    BY <2>1, CommonLegal, LegalNext, DoneKept, GraphInvParts
  <2>2. ASSUME NEW w \in Workers, Own(w) PROVE \A r \in Runs : Done(r) \subseteq Done(r)'
    BY <2>2, OwnTables DEF Done
  <2> QED BY <2>1, <2>2, GraphCases
<1> QED BY <1>1, <1>2, GraphInvHolds, GraphNothingDoneAgain, PTL
     DEF GraphSpec, CompletedStageStable

\* The transitions that RunLifecycle allows one run.
FollowsLifecycle(r) ==
    \/ Life!Rest(r) \/ Life!Request(r) \/ Life!Begin(r) \/ Life!Requeue(r)
    \/ Life!Pause(r) \/ Life!Decide(r) \/ Life!Trust(r) \/ Life!Complete(r)
    \/ Life!Fail(r) \/ Life!RequestCancel(r) \/ Life!Cancelled(r)

\* What a stale checkpoint adds to them: a decided run is shown for review again.
ReviewedAgain(r) ==
    unfenced[r] /\ run[r] = "running" /\ run'[r] = "awaiting_review" /\ KeepsAll(r)

RunsFollowLifecycleOrRewind ==
    [][\A r \in Runs : FollowsLifecycle(r) \/ ReviewedAgain(r)]_allVars

\* A run of either mode follows the run lifecycle, but that a run whose checkpoint
\* was written without the lease may pause once more after its decision.
THEOREM GraphRunsFollowLifecycle == GraphSpec => RunsFollowLifecycleOrRewind
<1>1. GraphInv /\ [GraphNext]_allVars
        => [\A r \in Runs : FollowsLifecycle(r) \/ ReviewedAgain(r)]_allVars
  <2> SUFFICES ASSUME GraphInv, [GraphNext]_allVars, NEW r \in Runs
               PROVE  FollowsLifecycle(r) \/ ReviewedAgain(r)
    OBVIOUS
  <2>1. CASE Common
    <3>1. [Life!Next]_(Life!lifeVars)
      BY <2>1, CommonLegal, LegalLife, GraphInvParts
    <3>2. CASE Life!Next
      BY <3>2 DEF Life!Next, FollowsLifecycle
    <3>3. CASE UNCHANGED Life!lifeVars
      <4>1. Life!Rest(r)
        BY <3>3 DEF Life!lifeVars, Life!Rest, Life!Keep, Life!KeepReview
      <4> QED BY <4>1 DEF FollowsLifecycle
    <3> QED BY <3>1, <3>2, <3>3
  <2>2. ASSUME NEW w \in Workers, Own(w) PROVE FollowsLifecycle(r) \/ ReviewedAgain(r)
    <3>1. KeepsAll(r) /\ TypeOK /\ wk[w].run \in Runs
      BY <2>2, OwnTables, OwnRun, GraphInvParts DEF KeepsAll, KeepsReview
    <3>2. CASE run'[r] = run[r]
      BY <3>1, <3>2, LifeTransitions DEF FollowsLifecycle
    <3>3. CASE run'[r] # run[r]
      <4>1. /\ wk[w].pc = "pause" /\ Holds(w) /\ r = wk[w].run
            /\ run[r] = "running" /\ run'[r] = "awaiting_review"
        BY <2>2, <3>1, <3>3, OwnTables DEF TypeOK
      <4>2. supervised[r] /\ (~unfenced[r] => decision[r] = {})
        BY <2>2, <4>1, OwnRun DEF GraphInv, Steering, Steers
      <4>3. ~unfenced[r] => FollowsLifecycle(r)
        BY <3>1, <4>1, <4>2, LifeTransitions DEF FollowsLifecycle
      <4> QED BY <3>1, <4>1, <4>3 DEF ReviewedAgain, GraphInv, GraphTypeOK
    <3> QED BY <3>2, <3>3
  <2> QED BY <2>1, <2>2, GraphCases
<1> QED BY <1>1, GraphInvHolds, PTL DEF GraphSpec, RunsFollowLifecycleOrRewind
=============================================================================
