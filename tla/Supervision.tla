---------------------------- MODULE Supervision ----------------------------
(***************************************************************************)
(* The adaptive supervisor of the platform (qsmlops/supervisor/, and the   *)
(* health_check and _auto_retrain of qsmlops/pipeline/selfheal.py) over the*)
(* versions of one model: observe, decide, act, verify, learn.             *)
(*                                                                         *)
(* Health checks are run by one process, one cycle after the other; between*)
(* the steps of a cycle operators change the registry through the API.  The*)
(* registry's operations are atomic here and refuse for any reason         *)
(* PlatformRegistry knows; PlatformRegistry has their statements.          *)
(*                                                                         *)
(* An agent's observation is abstracted to what the decision reads of it:  *)
(* its recommendation, its worst failed finding ("drift" is a critical one *)
(* whose name starts with drift_), whether the agent crashed, and what is  *)
(* wrong with the findings: one of them is malformed, they are not in a    *)
(* list ("container"), or a critical one repeats name and detail of a      *)
(* failed one of lower severity before it ("masked").                      *)
(***************************************************************************)
EXTENDS Naturals, FiniteSets

CONSTANTS
    Agents,      \* the supervisor's agents
    Recs,        \* recommendations the instance lets agents make
    MaxFailures, \* LearningStore.max_consecutive_failures
    MaxVersions, \* bound: versions ever registered
    MaxCycles,   \* bound: health checks
    MaxOps       \* bound: operations by operators and restarts

Decisions == {"ACCEPT", "DEPLOY", "RETRAIN", "ROLLBACK", "QUARANTINE", "ROTATE_KEYS",
              "BLOCK_DEPLOYMENT", "ESCALATE"}
Advice    == {"REVIEW", "INVESTIGATE", "OPTIMIZE", "MONITOR", "EVALUATE_TRUST",
              "REVIEW_SUPPLY_CHAIN"}

ASSUME RecsAssumption   == Recs # {} /\ \A rec \in Recs : rec \in STRING
ASSUME BoundsAssumption == /\ MaxFailures \in Nat \ {0} /\ MaxVersions \in Nat \ {0}
                           /\ MaxCycles \in Nat /\ MaxOps \in Nat

VARIABLES
    state,    \* model_versions.state of version 1 .. MaxVersions
    active,   \* version of the active deployment, 0 when there is none
    streak,   \* consecutive_failures in the learning store's file
    cy,       \* the cycle under way
    cycles,   \* health checks so far
    ops,      \* operations by operators and restarts so far
    promoted, \* history: versions ever approved or put into production
    outcomes  \* history: the last outcome recorded and the failures in a row before it

vars == <<state, active, streak, cy, cycles, ops, promoted, outcomes>>

Versions == 1 .. MaxVersions
States   == {"none", "REGISTERED", "VERIFIED", "APPROVED", "DEPLOYED", "QUARANTINED",
             "ROLLED_BACK", "REVOKED"}

Observation == {obs \in [rec : Recs, worst : {"none", "HIGH", "drift", "CRITICAL"}, crashed : {FALSE},
                         flaw : {"none", "malformed", "container", "masked"}] :
                   /\ obs.flaw = "container" => obs.worst # "none"
                   /\ obs.flaw = "masked" => obs.worst = "CRITICAL"}
               \union [rec : {""}, worst : {"none"}, crashed : {TRUE}, flaw : {"none"}]
Facts       == [drift : {"NONE", "HIGH", "CRITICAL"}, risky : BOOLEAN]

Idle == [pc |-> "idle", v |-> 0, made |-> 0, lost |-> FALSE, silent |-> FALSE,
         decision |-> "ACCEPT", ok |-> FALSE]

\* The first version of the model has been approved and deployed.
Init ==
    /\ state = [v \in Versions |-> IF v = 1 THEN "DEPLOYED" ELSE "none"]
    /\ active = 1
    /\ streak = 0
    /\ cy = Idle
    /\ cycles = 0 /\ ops = 0
    /\ promoted = {1}
    /\ outcomes = [decision |-> "ACCEPT", ok |-> TRUE, made |-> 0, before |-> 0]

Newest == CHOOSE v \in Versions :
             state[v] # "none" /\ \A w \in Versions : state[w] # "none" => w <= v

----------------------------------------------------------------------------
(* Observations and the decision.                                          *)

Normalize(rec) ==
    CASE rec \in Decisions -> rec
      [] rec = "BLOCK"     -> "BLOCK_DEPLOYMENT"
      [] rec \in Advice    -> "ADVISORY"
      [] rec = ""          -> ""
      [] OTHER             -> "ESCALATE"

\* A loss that collect_observations() looks at: the agent raised, or findings
\* were dropped one by one.
Noticed(obs) == obs.crashed \/ obs.flaw = "malformed"

\* What collect_observations() hands on: a crash becomes a failed finding, and a
\* failed marker takes the place of malformed ones.  Findings that are not in a
\* list are all discarded and counted nowhere (validation.py:81), the second of
\* two with one name, result and detail is a duplicate whatever its severity
\* (validation.py:105), and the recommendation stays what the agent made it.
Collect(obs) ==
    [rec   |-> IF Noticed(obs) THEN "ESCALATE" ELSE Normalize(obs.rec),
     worst |-> CASE obs.flaw = "container"                -> "none"
                 [] obs.flaw = "masked"                   -> "HIGH"
                 [] Noticed(obs) /\ obs.worst = "none"    -> "HIGH"
                 [] OTHER                                 -> obs.worst]

\* Deliberate defect: escalation ranks below retraining.
PolicyEscalatesLast(recs, facts, live) ==
    IF facts.drift = "CRITICAL" /\ live               THEN "ROLLBACK"
    ELSE IF facts.drift = "HIGH" \/ "RETRAIN" \in recs THEN "RETRAIN"
    ELSE IF "ESCALATE" \in recs                       THEN "ESCALATE"
    ELSE IF "ROTATE_KEYS" \in recs                    THEN "ROTATE_KEYS"
    ELSE "none"

\* The default rules by priority, the first that fires decides.  The two above
\* them (180, 200) need a failed critical finding, the passport's signature among
\* them, which the supervisor acts on before it asks the rules.
Policy(recs, facts, live) ==
    IF facts.drift = "CRITICAL" /\ live               THEN "ROLLBACK"     \* 120
    ELSE IF "ESCALATE" \in recs                       THEN "ESCALATE"     \*  90
    ELSE IF facts.drift = "HIGH" \/ "RETRAIN" \in recs THEN "RETRAIN"     \*  80
    ELSE IF "ROTATE_KEYS" \in recs                    THEN "ROTATE_KEYS"  \*  70
    ELSE "none"

\* A sweep over the agents, as far as the decision reads it.
Sweeps ==
    {LET observed == {Collect(obs[a]) : a \in Agents} IN
        [recs     |-> {o.rec : o \in observed},
         critical |-> \E o \in observed : o.worst = "CRITICAL",
         failed   |-> \E o \in observed : o.worst # "none",
         lost     |-> \E a \in Agents : Noticed(obs[a]),
         silent   |-> \E a \in Agents : obs[a].flaw \in {"container", "masked"}]
     : obs \in [Agents -> Observation]}

\* reason(): the decision on a sweep, the drift report and the risk.
Reason(sweep, facts, live) ==
    LET rule == Policy(sweep.recs, facts, live) IN
    IF sweep.recs = {} \/ streak >= MaxFailures    THEN "ESCALATE"
    ELSE IF sweep.critical                         THEN "QUARANTINE"
    ELSE IF "BLOCK_DEPLOYMENT" \in sweep.recs      THEN "BLOCK_DEPLOYMENT"
    ELSE IF rule # "none"                          THEN rule
    ELSE IF "QUARANTINE" \in sweep.recs            THEN "QUARANTINE"
    ELSE IF "ROLLBACK" \in sweep.recs              THEN "ROLLBACK"
    ELSE IF facts.risky                            THEN "QUARANTINE"
    ELSE IF Cardinality(sweep.recs \ {"ACCEPT", "ADVISORY"}) > 2 THEN "ESCALATE"
    ELSE "ACCEPT"

----------------------------------------------------------------------------
(* The cycle.                                                              *)

Goto(pc) == cy' = [cy EXCEPT !.pc = pc]

\* health_check() judges the version of the active deployment.  Risk comes from
\* failed findings only, a drift report makes a failed drift finding.
Observe ==
    /\ cy.pc = "idle" /\ active # 0
    /\ cycles < MaxCycles /\ cycles' = cycles + 1
    /\ \E sweep \in Sweeps, facts \in Facts :
          /\ facts.risky => sweep.failed
          /\ cy' = [pc |-> "act", v |-> active, made |-> 0, ok |-> FALSE,
                    lost |-> sweep.lost, silent |-> sweep.silent,
                    decision |-> Reason(sweep, facts, state[active] = "DEPLOYED")]
    /\ UNCHANGED <<state, active, streak, ops, promoted, outcomes>>

Acted(ok) == cy' = [cy EXCEPT !.pc = "verify", !.ok = ok]

Untouched == UNCHANGED <<state, active, promoted>>

\* ACCEPT does nothing; ROTATE_KEYS and ESCALATE write outside the registry and
\* may raise.
ActOutside ==
    /\ cy.decision \in {"ACCEPT", "ROTATE_KEYS", "ESCALATE"}
    /\ \E ok \in {TRUE, cy.decision = "ACCEPT"} : Acted(ok)
    /\ Untouched

ActQuarantine ==
    /\ cy.decision = "QUARANTINE"
    /\ IF state[cy.v] = "REVOKED" THEN Acted(FALSE) /\ UNCHANGED state
       ELSE Acted(TRUE) /\ state' = [state EXCEPT ![cy.v] = "QUARANTINED"]
    /\ UNCHANGED <<active, promoted>>

Restorable == {v \in Versions \ {active} : state[v] \in {"APPROVED", "DEPLOYED"}}

\* registry.rollback(): with nothing active, or when the gates refuse the version
\* to restore, it returns None and changes nothing.
Rollback ==
    \/ /\ active = 0 \/ Restorable # {}
       /\ Untouched
    \/ /\ active # 0
       /\ \E v \in (IF Restorable = {} THEN {0} ELSE Restorable) :
             /\ active' = v
             /\ promoted' = promoted \union ({v} \ {0})
             /\ state' = [w \in Versions |->
                             CASE w = v                                  -> "DEPLOYED"
                               [] w = active /\ state[w] = "DEPLOYED"    -> "ROLLED_BACK"
                               [] OTHER                                  -> state[w]]

ActRollback ==
    /\ \/ cy.decision = "ROLLBACK" /\ Rollback
       \/ cy.decision = "BLOCK_DEPLOYMENT" /\ active = cy.v /\ Rollback
       \/ cy.decision = "BLOCK_DEPLOYMENT" /\ active # cy.v /\ Untouched
    /\ \E ok \in BOOLEAN : Acted(ok)

\* train_and_register(): the number after the newest one.
Register ==
    /\ Newest < MaxVersions
    /\ state' = [state EXCEPT ![Newest + 1] = "REGISTERED"]
    /\ UNCHANGED <<active, promoted>>

\* _auto_retrain() begins; without a dataset, or when training fails, it raises.
Train ==
    /\ cy.decision = "RETRAIN"
    /\ \/ Acted(FALSE) /\ Untouched
       \/ Register /\ cy' = [cy EXCEPT !.pc = "evaluate", !.made = Newest + 1]

Act ==
    /\ cy.pc = "act"
    /\ ActOutside \/ ActQuarantine \/ ActRollback \/ Train
    /\ UNCHANGED <<streak, cycles, ops, outcomes>>

\* A step of the registry took effect; its append to the ledger may raise.
Audited(pc) == Goto(pc) \/ Acted(FALSE)

\* evaluate_version() of the new version, by _auto_retrain and then once more by
\* approve_and_deploy; only the first returns when the checks fail.
Evaluate ==
    /\ cy.pc \in {"evaluate", "gate"}
    /\ \/ /\ state' = [state EXCEPT ![cy.made] =
                          IF @ \in {"REGISTERED", "QUARANTINED"} THEN "VERIFIED" ELSE @]
          /\ Audited(IF cy.pc = "evaluate" THEN "gate" ELSE "approve")
       \/ /\ state' = [state EXCEPT ![cy.made] =
                          IF @ \in {"VERIFIED", "APPROVED", "DEPLOYED"} THEN "QUARANTINED" ELSE @]
          /\ \E ok \in {cy.pc = "evaluate", FALSE} : Acted(ok)
       \/ Acted(FALSE) /\ UNCHANGED state
    /\ UNCHANGED <<active, promoted>>

\* approve_deployment(): the trust gate refuses, or the version is no longer VERIFIED.
Approve ==
    /\ cy.pc = "approve"
    /\ \/ Acted(FALSE) /\ Untouched
       \/ /\ state[cy.made] = "VERIFIED"
          /\ state' = [state EXCEPT ![cy.made] = "APPROVED"]
          /\ promoted' = promoted \union {cy.made}
          /\ Audited("deploy")
          /\ UNCHANGED active

\* deploy() of an approved version.
Deploy(v) ==
    /\ state[v] = "APPROVED"
    /\ state' = [state EXCEPT ![v] = "DEPLOYED"]
    /\ active' = v /\ promoted' = promoted \union {v}

Promote ==
    /\ cy.pc = "deploy"
    /\ \/ Acted(FALSE) /\ Untouched
       \/ Deploy(cy.made) /\ \E ok \in BOOLEAN : Acted(ok)

Retrain ==
    /\ Evaluate \/ Approve \/ Promote
    /\ UNCHANGED <<streak, cycles, ops, outcomes>>

\* Deliberate defect: any newer promoted version proves the recovery.
VerifiedByAnyNewer ==
    CASE cy.decision = "QUARANTINE"       -> state[cy.v] = "QUARANTINED"
      [] cy.decision = "BLOCK_DEPLOYMENT" -> state[cy.v] # "APPROVED"
      [] cy.decision = "RETRAIN"          -> \E v \in Versions : v > cy.v /\ state[v] \in {"APPROVED", "DEPLOYED"}
      [] OTHER                            -> TRUE

\* _verify_outcome()
Verified ==
    CASE cy.decision = "QUARANTINE"       -> state[cy.v] = "QUARANTINED"
      [] cy.decision = "BLOCK_DEPLOYMENT" -> state[cy.v] # "APPROVED"
      [] cy.decision = "RETRAIN"          -> Newest # cy.v /\ state[Newest] \in {"APPROVED", "DEPLOYED"}
      [] OTHER                            -> TRUE

Verify ==
    /\ cy.pc = "verify"
    /\ cy' = [cy EXCEPT !.pc = "learn", !.ok = @ /\ Verified]
    /\ UNCHANGED <<state, active, streak, cycles, ops, promoted, outcomes>>

NextStreak(ok) == IF ok THEN 0 ELSE streak + 1

Learn ==
    /\ cy.pc = "learn"
    /\ streak' = NextStreak(cy.ok)
    /\ outcomes' = [decision |-> cy.decision, ok |-> cy.ok, made |-> cy.made,
                    before |-> IF outcomes.ok THEN 0 ELSE outcomes.before + 1]
    /\ cy' = Idle
    /\ UNCHANGED <<state, active, cycles, ops, promoted>>

----------------------------------------------------------------------------
(* Operators and restarts.                                                 *)

\* An operator verifies, verifies and approves, quarantines or revokes a version.
Move(v, to) ==
    /\ CASE to = "VERIFIED"    -> state[v] \in {"REGISTERED", "QUARANTINED"}
         [] to = "APPROVED"    -> state[v] \in {"REGISTERED", "VERIFIED", "QUARANTINED"}
         [] to = "QUARANTINED" -> state[v] \notin {"none", "REVOKED"}
         [] to = "REVOKED"     -> state[v] \notin {"none", "REVOKED", "ROLLED_BACK"}
    /\ state' = [state EXCEPT ![v] = to]
    /\ promoted' = IF to = "APPROVED" THEN promoted \union {v} ELSE promoted
    /\ UNCHANGED active

Operate ==
    /\ ops < MaxOps /\ ops' = ops + 1
    /\ \/ Register \/ Rollback
       \/ \E v \in Versions :
             Deploy(v) \/ \E to \in {"VERIFIED", "APPROVED", "QUARANTINED", "REVOKED"} : Move(v, to)
    /\ UNCHANGED <<streak, cy, cycles, outcomes>>

\* The process is lost within a cycle; the learning store is a file.
Restart ==
    /\ ops < MaxOps /\ ops' = ops + 1
    /\ cy.pc # "idle"
    /\ cy' = Idle
    /\ UNCHANGED <<state, active, streak, cycles, promoted, outcomes>>

Next == Observe \/ Act \/ Retrain \/ Verify \/ Learn \/ Operate \/ Restart

Spec == Init /\ [][Next]_vars

----------------------------------------------------------------------------
(* Properties.                                                             *)

\* Evidence that is noticed to be lost (a crashed agent, a dropped finding) never
\* ends in acceptance or in an autonomous promotion or rotation, whatever the other
\* agents advise or lose unnoticed and however much the model drifted: the order of
\* the rules lets the escalation outrank them.  And after MaxFailures recorded
\* failures in a row the supervisor attempts nothing but escalation, whenever its
\* process was restarted.
FailsClosed ==
    cy.pc = "act" =>
        /\ cy.lost => cy.decision \in {"ESCALATE", "QUARANTINE", "BLOCK_DEPLOYMENT", "ROLLBACK"}
        /\ ~outcomes.ok /\ outcomes.before + 1 >= MaxFailures => cy.decision = "ESCALATE"

\* A retraining recorded as a success registered a version, and that one or one
\* registered after it was promoted: no promotion from before the retraining makes
\* it a recovery, although operators register, promote and withdraw versions
\* between its steps, its verification and the record (supervisor.py:480-489).
RecoveryIsReal ==
    outcomes.decision = "RETRAIN" /\ outcomes.ok =>
        outcomes.made # 0 /\ \E v \in promoted : v >= outcomes.made

----------------------------------------------------------------------------
(* Claims of the documentation that the code does not keep.                *)

\* supervisor/learning.py:3-5: repeated failed recoveries are escalated to
\* humans instead of retried endlessly.
RetriesEnd == outcomes.before < MaxFailures

\* supervisor/validation.py:3-6: malformed input is never upgraded into trusted
\* evidence, downstream gates see what could not be read.
LossIsNotAccepted == cy.pc = "act" /\ cy.silent => cy.decision # "ACCEPT"

\* supervisor.py:483-485: a retraining is verified only if it produced a genuinely
\* newer version that has since been promoted.
RetrainedIsPromoted ==
    outcomes.decision = "RETRAIN" /\ outcomes.ok => outcomes.made \in promoted
=============================================================================
