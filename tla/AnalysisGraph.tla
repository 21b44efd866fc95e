--------------------------- MODULE AnalysisGraph ---------------------------
(***************************************************************************)
(* Graph-supervised runs (satsa/analysis/graph.py), the API's default mode,*)
(* beside the standard ones of AnalysisExecution.  A leased worker drives  *)
(* the run through a linear graph of nodes whose position is checkpointed  *)
(* in a store of its own, which no lease fences; a later attempt resumes   *)
(* from the checkpoint, and human_review interrupts the graph until the    *)
(* supervisor's decision resumes it.                                       *)
(*                                                                         *)
(* Stages, finalization, outcome and faults are the actions of             *)
(* AnalysisExecution; this module adds the nodes around them.              *)
(***************************************************************************)
EXTENDS AnalysisExecution

VARIABLES
    graph,     \* satsa_run_context.graph_enabled
    ckpt,      \* the thread's checkpoint: the node a resumed graph runs next
    node,      \* the node each worker is in, if it is inside graph.invoke
    unfenced   \* history: a worker without the lease has written the checkpoint

graphVars == <<graph, ckpt, node, unfenced>>
allVars   == <<vars, graphVars>>

\* The graph's edges.  "resumed" is human_review run again by Command(resume);
\* "interrupted" is the checkpoint of a graph that stopped in human_review.
After == [readiness         |-> "analysis",
          analysis          |-> "recommendations",
          recommendations   |-> "model_inference",
          model_inference   |-> "reviewer_briefing",
          reviewer_briefing |-> "human_review",
          human_review      |-> "interrupted",
          resumed           |-> "trust_boundary",
          trust_boundary    |-> "end"]

Rank == [readiness |-> 1, analysis |-> 2, recommendations |-> 3, model_inference |-> 4,
         reviewer_briefing |-> 5, human_review |-> 6, interrupted |-> 7,
         trust_boundary |-> 8, end |-> 9]

Past(r, n) == Rank[ckpt[r]] > Rank[n]

\* Where run_once is while a node executes; elsewhere invoke has returned.
InsideNode == {"node", "body", "leave", "load", "before", "start", "evaluate",
               "executed", "boundary", "durable", "complete"}

NodeFollows(w) ==
    node' = [node EXCEPT ![w] = IF wk'[w].pc \in InsideNode THEN node[w] ELSE "none"]

GraphInit ==
    /\ Init
    /\ graph = [r \in Runs |-> FALSE]
    /\ ckpt = [r \in Runs |-> "readiness"]
    /\ node = [w \in Workers |-> "none"]
    /\ unfenced = [r \in Runs |-> FALSE]

----------------------------------------------------------------------------
(* Deliberate defects, as in AnalysisExecution.                            *)

\* analysis() trusts _execute, which returns normally when a cancel stopped it.
LeaveAnalysisUnchecked(w) ==
    /\ wk[w].pc = "executed" /\ node[w] = "analysis"
    /\ Goto(w, "leave")
    /\ UnchangedTables
    /\ UNCHANGED graphVars

\* run() continues an interrupted graph without the decision.
OpenGraphNoResume(w) ==
    LET r == wk[w].run
    IN  /\ wk[w].pc = "load" /\ graph[r] /\ node[w] = "none"
        /\ IF ckpt[r] = "end"
           THEN Goto(w, "settle") /\ UNCHANGED node
           ELSE /\ Goto(w, "node")
                /\ node' = [node EXCEPT ![w] = IF ckpt[r] = "interrupted"
                                               THEN "human_review" ELSE ckpt[r]]
        /\ UnchangedTables
        /\ UNCHANGED <<graph, ckpt, unfenced>>

\* run() reports every interrupted graph as awaiting review.
OpenGraphUndecided(w) ==
    LET r == wk[w].run
    IN  /\ wk[w].pc = "load" /\ graph[r] /\ node[w] = "none"
        /\ \/ /\ ckpt[r] \in {"interrupted", "end"}
              /\ Goto(w, IF ckpt[r] = "end" THEN "settle" ELSE "pause")
              /\ UNCHANGED node
           \/ /\ ckpt[r] \notin {"interrupted", "end"}
              /\ Goto(w, "node")
              /\ node' = [node EXCEPT ![w] = ckpt[r]]
        /\ UnchangedTables
        /\ UNCHANGED <<graph, ckpt, unfenced>>

----------------------------------------------------------------------------
(* AnalysisGraphRuntime.                                                   *)

\* run(): where this attempt takes up the graph.  An interrupted graph needs
\* the decision; any other checkpoint is continued, a finished graph at once.
OpenGraph(w) ==
    LET r == wk[w].run
    IN  /\ wk[w].pc = "load" /\ graph[r] /\ node[w] = "none"
        /\ \/ /\ ckpt[r] = "interrupted" /\ job[r] = "cancel_requested"
              /\ Goto(w, "mark")
              /\ UNCHANGED node
           \/ /\ ckpt[r] = "interrupted" /\ job[r] # "cancel_requested"
              /\ decision[r] = {}
              /\ Goto(w, "pause")
              /\ UNCHANGED node
           \/ /\ ckpt[r] = "interrupted" /\ job[r] # "cancel_requested"
              /\ decision[r] # {}
              /\ Goto(w, "node")
              /\ node' = [node EXCEPT ![w] = "resumed"]
           \/ /\ ckpt[r] = "end"
              /\ Goto(w, "settle")
              /\ UNCHANGED node
           \/ /\ ckpt[r] \notin {"interrupted", "end"}
              /\ Goto(w, "node")
              /\ node' = [node EXCEPT ![w] = ckpt[r]]
        /\ UnchangedTables
        /\ UNCHANGED <<graph, ckpt, unfenced>>

\* The body a node runs once _check has passed.  The nodes without one either
\* do nothing or write an advisory row that nothing here reads.
Body == [analysis |-> "load", recommendations |-> "body", trust_boundary |-> "boundary"]

\* _check at the start of every node: lease, then cancel.
EnterNode(w) ==
    LET r == wk[w].run
        n == node[w]
    IN  /\ wk[w].pc = "node"
        /\ \/ /\ ~Holds(w)
              /\ GoIdle(w)
           \/ /\ Holds(w) /\ job[r] = "cancel_requested"
              /\ Goto(w, "mark")
           \/ /\ Holds(w) /\ job[r] # "cancel_requested"
              /\ n = "trust_boundary" /\ decision[r] = {}
              /\ GoFail(w, FALSE)
           \/ /\ Holds(w) /\ job[r] # "cancel_requested"
              /\ n = "trust_boundary" => decision[r] # {}
              /\ Goto(w, IF n \in DOMAIN Body THEN Body[n] ELSE "leave")
        /\ NodeFollows(w)
        /\ UnchangedTables
        /\ UNCHANGED <<graph, ckpt, unfenced>>

\* The rest of analysis() after _execute: _check again, because _execute returns
\* when a cancel stopped it; a run whose stages all failed raises.
LeaveAnalysis(w) ==
    LET r == wk[w].run
    IN  /\ wk[w].pc = "executed" /\ node[w] = "analysis"
        /\ \/ /\ ~Holds(w)
              /\ GoIdle(w)
           \/ /\ Holds(w) /\ job[r] = "cancel_requested"
              /\ Goto(w, "mark")
           \/ /\ Holds(w) /\ job[r] # "cancel_requested" /\ Finish(r) = "failed"
              /\ GoFail(w, FALSE)
           \/ /\ Holds(w) /\ job[r] # "cancel_requested" /\ Finish(r) # "failed"
              /\ Goto(w, "leave")
        /\ NodeFollows(w)
        /\ UnchangedTables
        /\ UNCHANGED <<graph, ckpt, unfenced>>

\* recommendations(): _persist_recommendations checks the lease in its commit.
Recommend(w) ==
    LET r == wk[w].run
    IN  /\ wk[w].pc = "body"
        /\ IF Holds(w)
           THEN recs' = [recs EXCEPT ![r] = Done(r)] /\ Goto(w, "leave")
           ELSE GoIdle(w) /\ UNCHANGED recs
        /\ NodeFollows(w)
        /\ UNCHANGED <<run, job, attempts, gen, live, stage, risk, decision,
                       supervised, fin, trail, faults, graph, ckpt, unfenced>>

\* A node has returned, or interrupted: LangGraph checkpoints it and goes on.
\* Nothing checks the lease.
Checkpoint(w, n) ==
    LET r == wk[w].run
    IN  /\ ckpt' = [ckpt EXCEPT ![r] = After[n]]
        /\ unfenced' = [unfenced EXCEPT ![r] = @ \/ ~Holds(w)]
        /\ IF n \in {"human_review", "trust_boundary"}
           THEN /\ Goto(w, IF n = "human_review" THEN "pause" ELSE "settle")
                /\ node' = [node EXCEPT ![w] = "none"]
           ELSE /\ Goto(w, "node")
                /\ node' = [node EXCEPT ![w] = After[n]]
        /\ UnchangedTables
        /\ UNCHANGED graph

LeaveNode(w) ==
    \/ wk[w].pc = "leave" /\ Checkpoint(w, node[w])
    \/ wk[w].pc = "complete" /\ node[w] = "trust_boundary" /\ Checkpoint(w, node[w])

\* run_once after invoke returned awaiting_review: pause_for_review.
GraphPause(w) ==
    LET r == wk[w].run
    IN  /\ wk[w].pc = "pause" /\ graph[r]
        /\ \/ /\ ~Holds(w)
              /\ GoIdle(w)
              /\ UNCHANGED <<run, job, live>>
           \/ /\ Holds(w) /\ run[r] # "running"
              /\ GoFail(w, FALSE)
              /\ UNCHANGED <<run, job, live>>
           \/ /\ Holds(w) /\ run[r] = "running"
              /\ run' = [run EXCEPT ![r] = "awaiting_review"]
              /\ job' = [job EXCEPT ![r] = "completed"]
              /\ live' = [live EXCEPT ![r] = FALSE]
              /\ GoAudit(w, "awaiting_review")
        /\ UNCHANGED <<attempts, gen, stage, risk, recs, decision, supervised, fin,
                       trail, faults, graphVars>>

\* An exception inside invoke leaves it for run_once's handler.
RaiseInNode(w) ==
    /\ wk[w].pc \in {"node", "body", "leave"}
    /\ faults < MaxFaults
    /\ faults' = faults + 1
    /\ GoFail(w, FALSE)
    /\ NodeFollows(w)
    /\ UNCHANGED <<run, job, attempts, gen, live, stage, risk, recs, decision,
                   supervised, fin, trail, graph, ckpt, unfenced>>

----------------------------------------------------------------------------
(* Composition with AnalysisExecution.                                     *)

CreateGraphRun(r) ==
    /\ CreateRun(r, TRUE)
    /\ graph' = [graph EXCEPT ![r] = TRUE]
    /\ UNCHANGED <<ckpt, node, unfenced>>

GraphRunOf(w) == wk[w].pc # "idle" /\ graph[wk[w].run]

\* Steps a graph run shares with a standard one.  Load belongs to the node
\* analysis, complete() to run_once after the graph has ended.
SharedStep(w) ==
    /\ GraphRunOf(w)
    /\ \/ node[w] = "analysis" /\ Load(w)
       \/ node[w] = "none" /\ Complete(w)
       \/ BeforeStage(w) \/ LoseLease(w) \/ StartStage(w) \/ AfterStages(w)
       \/ \E result \in {"ok", "transient", "fatal"} : PersistStage(w, result)
       \/ Settle(w) \/ FinBoundary(w) \/ FinDurable(w) \/ FinStorageError(w)
       \/ MarkPendingCancelled(w) \/ CompleteCancelled(w) \/ Fail(w)
       \/ \E appended \in BOOLEAN : Audit(w, appended)
    /\ NodeFollows(w)
    /\ UNCHANGED <<graph, ckpt, unfenced>>

GraphStep(w) ==
    \/ GraphRunOf(w) /\ (OpenGraph(w) \/ EnterNode(w) \/ LeaveAnalysis(w) \/ Recommend(w)
                           \/ LeaveNode(w) \/ GraphPause(w))
    \/ SharedStep(w)

StandardStep(w) ==
    /\ wk[w].pc # "idle" /\ ~graph[wk[w].run]
    /\ Step(w)
    /\ UNCHANGED graphVars

WorkerStep(w) == GraphStep(w) \/ StandardStep(w)

TakeAny(w) == Take(w) /\ UNCHANGED graphVars

GraphNext ==
    \/ \E r \in Runs :
          \/ CreateGraphRun(r)
          \/ /\ \/ \E sup \in BOOLEAN : CreateRun(r, sup)
                \/ Cancel(r) \/ Decide(r) \/ Expire(r) \/ Overrun(r)
             /\ UNCHANGED graphVars
    \/ \E w \in Workers :
          \/ TakeAny(w) \/ WorkerStep(w) \/ RaiseInNode(w)
          \/ (Raise(w) \/ Crash(w)) /\ NodeFollows(w) /\ UNCHANGED <<graph, ckpt, unfenced>>

GraphSpec == GraphInit /\ [][GraphNext]_allVars

\* As in AnalysisExecution: workers poll and keep executing, leases run out.
GraphFairness ==
    /\ WF_allVars(\E w \in Workers : TakeAny(w))
    /\ \A w \in Workers : WF_allVars(WorkerStep(w))
    /\ \A r \in Runs : WF_allVars(Expire(r) /\ UNCHANGED graphVars)

GraphFairSpec == GraphSpec /\ GraphFairness
----------------------------------------------------------------------------
(* Properties.                                                             *)

\* The variables of both modules have their types.
GraphTypeOK ==
    /\ TypeOK
    /\ graph \in [Runs -> BOOLEAN] /\ unfenced \in [Runs -> BOOLEAN]
    /\ ckpt \in [Runs -> DOMAIN Rank]
    /\ node \in [Workers -> DOMAIN After \union {"none"}]

\* The checkpoint never runs ahead of the tables it refers to: a resumed graph
\* skips only what is stored, though nodes commit and checkpoint separately and
\* _execute returns normally when a cancel cuts it short.
CheckpointIsBacked ==
    \A r \in Runs : graph[r] /\ ~unfenced[r] =>
        /\ Past(r, "analysis") =>
              /\ risk[r] # {} /\ Done(r) # {}
              /\ \A s \in Stages : stage[r][s] \in {"completed", "failed"}
        /\ Past(r, "recommendations") => recs[r] = Done(r)
        /\ Past(r, "interrupted") => decision[r] # {}
        /\ ckpt[r] = "end" => fin[r] = "verified"

\* A run shown as awaiting review, in either mode, can be decided, and a decided
\* one is never shown again: decide() answers the repeated decision without
\* requeueing.
PauseIsDecidable ==
    \A r \in Runs : run[r] = "awaiting_review" /\ ~unfenced[r] =>
        /\ Documented(r) /\ decision[r] = {}
        /\ graph[r] => ckpt[r] = "interrupted"

\* EveryStageAccountedFor in both modes, as long as only lease holders have
\* written the checkpoint (section 7 of the README has the run that lost a stage).
FencedRunsAccountForStages == \A r \in Runs : ~unfenced[r] => AccountsForStages(r)

\* A queued run of either mode ends or reaches a supervisor who has not decided
\* it yet, whatever crashed on the way, and in particular between the decision,
\* the resumed nodes and the completion.
QueuedRunEnds ==
    \A r \in Runs : run[r] = "queued" ~>
        \/ run[r] \in RunTerminal
        \/ run[r] = "awaiting_review" /\ decision[r] = {}
        \/ unfenced[r]

----------------------------------------------------------------------------
(* A claim of the documentation that the code does not keep; with it fails *)
(* EveryStageAccountedFor (AnalysisGraph_lost_stage.cfg).                  *)

\* docs/LANGGRAPH_ORCHESTRATION.md: a stale worker is fenced from persisting
\* output and a decided run resumes from its interrupt.  Its checkpoint is not
\* fenced: written late, it takes the graph back before the interrupt.
DecidedRunLeavesReview ==
    \A r \in Runs : run[r] = "awaiting_review" => decision[r] = {}
=============================================================================
