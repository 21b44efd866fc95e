----------------------- MODULE SupervisionKeysProofs -----------------------
(***************************************************************************)
(* Theorems about what the platform trusts without asking again: the       *)
(* supervisor (Supervision), for any agents, any number of versions,       *)
(* health checks, operators' operations and restarts, and the signing keys *)
(* (KeyStore, HsmBackend), for any processes, number of keys, of calls and *)
(* of lost processes and for every kind of store.                          *)
(***************************************************************************)
EXTENDS Supervision, KeyStore, FiniteSetTheorems, WellFoundedInduction, TLAPS

USE RecsAssumption, BoundsAssumption

(***************************************************************************)
(* The inductive invariant.                                                *)
(***************************************************************************)
Retraining == {"evaluate", "gate", "approve", "deploy"}

Cycle == [pc : {"idle", "act", "verify", "learn"} \union Retraining, v : 0 .. MaxVersions,
          made : 0 .. MaxVersions, lost : BOOLEAN, silent : BOOLEAN, decision : Decisions, ok : BOOLEAN]

Types ==
    /\ state \in [Versions -> States]
    /\ active \in 0 .. MaxVersions
    /\ streak \in Nat
    /\ cy \in Cycle
    /\ outcomes \in [decision : Decisions, ok : BOOLEAN, made : 0 .. MaxVersions, before : Nat]

\* The versions are registered one after the other.
Numbered == \E n \in Versions : \A v \in Versions : state[v] # "none" <=> v <= n

\* The active, the judged and the retrained version are registered ones.
Known ==
    /\ active # 0 => state[active] # "none"
    /\ cy.pc # "idle" => cy.v \in Versions /\ state[cy.v] # "none"
    /\ cy.made # 0 => state[cy.made] # "none"
    /\ cy.pc \in Retraining => cy.made # 0

\* Only what was promoted is in a promoted state.
PromotedStates == \A v \in Versions : state[v] \in {"APPROVED", "DEPLOYED"} => v \in promoted

\* The streak of the learning store is what the recorded outcomes say.
StreakCounts == streak = IF outcomes.ok THEN 0 ELSE outcomes.before + 1

\* A retraining that succeeded made a version, and a verified one has that or a
\* later version promoted before it is recorded.
RetrainVerified ==
    cy.decision = "RETRAIN" /\ cy.ok =>
        /\ cy.pc \in {"verify", "learn"} => cy.made # 0
        /\ cy.pc = "learn" => \E v \in promoted : v >= cy.made

Inv ==
    /\ Types /\ Numbered /\ Known /\ PromotedStates /\ StreakCounts /\ RetrainVerified
    /\ FailsClosed /\ RecoveryIsReal

(***************************************************************************)
(* The registry under the actions and the operators.                       *)
(***************************************************************************)
LEMMA NewestIs ==
  ASSUME Types, Numbered
  PROVE  /\ Newest \in Versions /\ state[Newest] # "none"
         /\ \A v \in Versions : state[v] # "none" <=> v <= Newest
<1>1. PICK n \in Versions : \A v \in Versions : state[v] # "none" <=> v <= n
  BY DEF Numbered
<1>2. Versions \subseteq Nat
  BY DEF Versions
<1>3. state[n] # "none" /\ \A w \in Versions : state[w] # "none" => w <= n
  BY <1>1, <1>2
<1>4. Newest \in Versions /\ state[Newest] # "none" /\ \A w \in Versions : state[w] # "none" => w <= Newest
  BY <1>3 DEF Newest
<1>5. Newest = n
  BY <1>1, <1>2, <1>4
<1> QED BY <1>1, <1>4, <1>5

\* No version leaves the registry, none is promoted in silence.
RegistryMoves ==
    /\ state' \in [Versions -> States] /\ active' \in 0 .. MaxVersions
    /\ \A v \in Versions : state[v] # "none" => state'[v] # "none"
    /\ active' # 0 => state'[active'] # "none"
    /\ promoted \subseteq promoted'
    /\ PromotedStates' /\ Numbered'

Registry == Types /\ Numbered /\ Known /\ PromotedStates

LEMMA UntouchedMoves ==
  ASSUME Registry, UNCHANGED <<state, active, promoted>>
  PROVE  RegistryMoves
  BY DEF Registry, RegistryMoves, Types, Numbered, Known, PromotedStates

\* One registered version changes its state.
LEMMA OneMoves ==
  ASSUME Registry, NEW v \in Versions, state[v] # "none",
         NEW s \in States \ {"none"}, state' = [state EXCEPT ![v] = s],
         active' \in {active, v}, promoted \subseteq promoted', s \in {"APPROVED", "DEPLOYED"} => v \in promoted'
  PROVE  RegistryMoves
<1>1. state' \in [Versions -> States] /\ active' \in 0 .. MaxVersions
  BY DEF Registry, Types, Versions
<1>2. \A w \in Versions : state'[w] = IF w = v THEN s ELSE state[w]
  BY DEF Registry, Types
<1>3. \A w \in Versions : state'[w] # "none" <=> state[w] # "none"
  BY <1>2
<1>4. Numbered'
  BY <1>3 DEF Registry, Numbered
<1>5. PromotedStates'
  BY <1>2 DEF Registry, PromotedStates
<1>6. active' # 0 => state'[active'] # "none"
  <2>1. active' # 0 => active' \in Versions
    BY <1>1 DEF Versions
  <2> QED BY <1>3, <2>1 DEF Registry, Known
<1> QED BY <1>1, <1>3, <1>4, <1>5, <1>6 DEF RegistryMoves

LEMMA RollbackMoves ==
  ASSUME Registry, Rollback
  PROVE  RegistryMoves
<1>1. CASE Untouched
  BY <1>1, UntouchedMoves DEF Untouched
<1>2. ASSUME NEW v \in (IF Restorable = {} THEN {0} ELSE Restorable), active # 0,
             active' = v, promoted' = promoted \union ({v} \ {0}),
             state' = [w \in Versions |-> CASE w = v                               -> "DEPLOYED"
                                            [] w = active /\ state[w] = "DEPLOYED" -> "ROLLED_BACK"
                                            [] OTHER                               -> state[w]]
      PROVE  RegistryMoves
  <2>1. /\ v # active
        /\ \/ v = 0
           \/ v \in Versions /\ state[v] \in {"APPROVED", "DEPLOYED"} /\ v \in promoted'
    BY <1>2 DEF Restorable, Versions
  <2>2. ASSUME NEW w \in Versions
        PROVE  state'[w] = IF w = v THEN "DEPLOYED"
                           ELSE IF w = active /\ state[w] = "DEPLOYED" THEN "ROLLED_BACK" ELSE state[w]
    BY <1>2, <2>1
  <2>3. \A w \in Versions : state'[w] # "none" <=> state[w] # "none"
    BY <2>1, <2>2 DEF Versions
  <2>4. state' \in [Versions -> States]
    <3>1. \A w \in Versions : state'[w] \in States
      BY <2>2 DEF Registry, Types, States
    <3> QED BY <1>2, <3>1
  <2>5. active' \in 0 .. MaxVersions /\ (active' # 0 => state'[active'] # "none")
    BY <1>2, <2>1, <2>3 DEF Versions
  <2>6. Numbered'
    BY <2>3 DEF Registry, Numbered
  <2>7. PromotedStates'
    BY <1>2, <2>1, <2>2 DEF Registry, PromotedStates, Versions
  <2> QED BY <1>2, <2>3, <2>4, <2>5, <2>6, <2>7 DEF RegistryMoves
<1> QED BY <1>1, <1>2 DEF Rollback

LEMMA RegisterMoves ==
  ASSUME Registry, Register
  PROVE  RegistryMoves /\ Newest + 1 \in Versions /\ state'[Newest + 1] # "none"
<1> DEFINE n == Newest + 1
<1>1. n \in Versions /\ Newest \in Nat /\ Newest \in Versions
  BY NewestIs DEF Register, Registry, Versions
<1>2. \A w \in Versions : state'[w] = IF w = n THEN "REGISTERED" ELSE state[w]
  BY <1>1 DEF Register, Registry, Types
<1>3. UNCHANGED <<active, promoted>>
  BY DEF Register
<1>4. ASSUME NEW w \in Versions PROVE state'[w] # "none" <=> w <= n
  <2>1. state[w] # "none" <=> w <= Newest
    BY NewestIs DEF Registry
  <2>2. w <= n <=> w <= Newest \/ w = n
    BY <1>1 DEF Versions
  <2> QED BY <1>2, <2>1, <2>2
<1>5. Numbered'
  <2> HIDE DEF n
  <2> QED BY <1>1, <1>4 DEF Numbered
<1>6. PromotedStates'
  BY <1>2, <1>3 DEF Registry, PromotedStates
<1>7. state' \in [Versions -> States]
  BY <1>1 DEF Register, Registry, Types, States
<1>8. \A v \in Versions : state[v] # "none" => state'[v] # "none"
  BY <1>2
<1>9. active' \in 0 .. MaxVersions /\ (active' # 0 => state'[active'] # "none")
  BY <1>3, <1>8 DEF Registry, Types, Known, Versions
<1> QED BY <1>1, <1>2, <1>3, <1>5, <1>6, <1>7, <1>8, <1>9 DEF RegistryMoves

LEMMA DeployMoves ==
  ASSUME Registry, NEW v \in Versions, Deploy(v)
  PROVE  RegistryMoves
<1>1. /\ state[v] # "none" /\ state' = [state EXCEPT ![v] = "DEPLOYED"]
      /\ active' = v /\ promoted' = promoted \union {v} /\ "DEPLOYED" \in States \ {"none"}
  BY DEF Deploy, States
<1> QED BY <1>1, OneMoves

\* The steps of a retraining after the version it made is registered.
LEMMA RetrainMoves ==
  ASSUME Registry, cy.made \in Versions, state[cy.made] # "none", Evaluate \/ Approve \/ Promote
  PROVE  RegistryMoves
<1> DEFINE m == cy.made
<1>1. state \in [Versions -> States] /\ active \in {active, m}
  BY DEF Registry, Types
<1>2. CASE Untouched
  BY <1>2, UntouchedMoves DEF Untouched
<1>3. CASE Evaluate
  <2>1. UNCHANGED <<active, promoted>>
    BY <1>3 DEF Evaluate
  <2>2. CASE UNCHANGED state
    BY <1>2, <2>1, <2>2 DEF Untouched
  <2>3. CASE state' = [state EXCEPT ![m] = IF @ \in {"REGISTERED", "QUARANTINED"} THEN "VERIFIED" ELSE @]
    <3>1. CASE state[m] \in {"REGISTERED", "QUARANTINED"}
      <4>1. state' = [state EXCEPT ![m] = "VERIFIED"]
        BY <2>3, <3>1
      <4> QED BY <2>1, <4>1, OneMoves DEF States
    <3>2. CASE state[m] \notin {"REGISTERED", "QUARANTINED"}
      <4>1. state' = state
        BY <1>1, <2>3, <3>2
      <4> QED BY <2>2, <4>1
    <3> QED BY <3>1, <3>2
  <2>4. CASE state' = [state EXCEPT ![m] =
                          IF @ \in {"VERIFIED", "APPROVED", "DEPLOYED"} THEN "QUARANTINED" ELSE @]
    <3>1. CASE state[m] \in {"VERIFIED", "APPROVED", "DEPLOYED"}
      <4>1. state' = [state EXCEPT ![m] = "QUARANTINED"]
        BY <2>4, <3>1
      <4> QED BY <2>1, <4>1, OneMoves DEF States
    <3>2. CASE state[m] \notin {"VERIFIED", "APPROVED", "DEPLOYED"}
      <4>1. state' = state
        BY <1>1, <2>4, <3>2
      <4> QED BY <2>2, <4>1
    <3> QED BY <3>1, <3>2
  <2> QED BY <1>3, <2>2, <2>3, <2>4 DEF Evaluate
<1>4. CASE Approve
  <2>1. CASE ~Untouched
    <3>1. /\ state' = [state EXCEPT ![m] = "APPROVED"] /\ active' = active
          /\ promoted' = promoted \union {m} /\ "APPROVED" \in States \ {"none"}
      BY <1>4, <2>1 DEF Approve, States
    <3> QED BY <3>1, OneMoves
  <2> QED BY <1>2, <2>1
<1>5. CASE Promote
  BY <1>2, <1>5, DeployMoves DEF Promote
<1> QED BY <1>3, <1>4, <1>5

LEMMA OperateMoves ==
  ASSUME Registry, Operate
  PROVE  RegistryMoves
<1>1. ASSUME NEW v \in Versions, NEW to \in {"VERIFIED", "APPROVED", "QUARANTINED", "REVOKED"}, Move(v, to)
      PROVE  RegistryMoves
  <2>1. /\ state[v] # "none" /\ state' = [state EXCEPT ![v] = to] /\ active' = active
        /\ promoted' = IF to = "APPROVED" THEN promoted \union {v} ELSE promoted
        /\ to \in States \ {"none"}
    BY <1>1 DEF Move, States
  <2>2. promoted \subseteq promoted' /\ (to \in {"APPROVED", "DEPLOYED"} => v \in promoted')
    BY <1>1, <2>1
  <2> QED BY <2>1, <2>2, OneMoves
<1> QED BY <1>1, RegisterMoves, RollbackMoves, DeployMoves DEF Operate

LEMMA ActMoves ==
  ASSUME Registry, Act
  PROVE  RegistryMoves
<1>1. CASE ActOutside
  BY <1>1, UntouchedMoves DEF ActOutside, Untouched
<1>2. CASE ActQuarantine
  <2>1. cy.v \in Versions /\ state[cy.v] # "none"
    BY DEF Act, Registry, Known
  <2>2. CASE UNCHANGED state
    BY <1>2, <2>2, UntouchedMoves DEF ActQuarantine
  <2>3. CASE state' = [state EXCEPT ![cy.v] = "QUARANTINED"]
    BY <1>2, <2>1, <2>3, OneMoves DEF ActQuarantine, States
  <2> QED BY <1>2, <2>2, <2>3 DEF ActQuarantine
<1>3. CASE ActRollback
  BY <1>3, RollbackMoves, UntouchedMoves DEF ActRollback, Untouched
<1>4. CASE Train
  BY <1>4, RegisterMoves, UntouchedMoves DEF Train, Untouched
<1> QED BY <1>1, <1>2, <1>3, <1>4 DEF Act

(***************************************************************************)
(* The decision.                                                           *)
(***************************************************************************)
LEMMA PolicyDecides ==
  ASSUME NEW recs, NEW facts \in Facts, NEW live \in BOOLEAN
  PROVE  /\ Policy(recs, facts, live) \in {"ROLLBACK", "ESCALATE", "RETRAIN", "ROTATE_KEYS", "none"}
         /\ "ESCALATE" \in recs => Policy(recs, facts, live) \in {"ROLLBACK", "ESCALATE"}
BY DEF Policy

LEMMA ReasonDecides ==
  ASSUME Types, NEW sweep, NEW facts \in Facts, NEW live \in BOOLEAN
  PROVE  /\ Reason(sweep, facts, live) \in Decisions
         /\ "ESCALATE" \in sweep.recs =>
               Reason(sweep, facts, live) \in {"ESCALATE", "QUARANTINE", "BLOCK_DEPLOYMENT", "ROLLBACK"}
         /\ streak >= MaxFailures => Reason(sweep, facts, live) = "ESCALATE"
<1> DEFINE rule == Policy(sweep.recs, facts, live)
<1>1. /\ rule \in {"ROLLBACK", "ESCALATE", "RETRAIN", "ROTATE_KEYS", "none"}
      /\ "ESCALATE" \in sweep.recs => rule \in {"ROLLBACK", "ESCALATE"}
  BY PolicyDecides
<1>2. Reason(sweep, facts, live) =
        IF sweep.recs = {} \/ streak >= MaxFailures    THEN "ESCALATE"
        ELSE IF sweep.critical                         THEN "QUARANTINE"
        ELSE IF "BLOCK_DEPLOYMENT" \in sweep.recs      THEN "BLOCK_DEPLOYMENT"
        ELSE IF rule # "none"                          THEN rule
        ELSE IF "QUARANTINE" \in sweep.recs            THEN "QUARANTINE"
        ELSE IF "ROLLBACK" \in sweep.recs              THEN "ROLLBACK"
        ELSE IF facts.risky                            THEN "QUARANTINE"
        ELSE IF Cardinality(sweep.recs \ {"ACCEPT", "ADVISORY"}) > 2 THEN "ESCALATE"
        ELSE "ACCEPT"
  BY DEF Reason
<1> HIDE DEF rule
<1> QED BY <1>1, <1>2 DEF Decisions

\* A crashed or malformed observation reaches the decision as an escalation.
LEMMA LostEscalates ==
  ASSUME NEW sweep \in Sweeps
  PROVE  /\ sweep.lost \in BOOLEAN /\ sweep.silent \in BOOLEAN
         /\ sweep.lost => "ESCALATE" \in sweep.recs
<1>1. PICK obs \in [Agents -> Observation] :
        sweep = LET observed == {Collect(obs[a]) : a \in Agents} IN
                [recs     |-> {o.rec : o \in observed},
                 critical |-> \E o \in observed : o.worst = "CRITICAL",
                 failed   |-> \E o \in observed : o.worst # "none",
                 lost     |-> \E a \in Agents : Noticed(obs[a]),
                 silent   |-> \E a \in Agents : obs[a].flaw \in {"container", "masked"}]
  BY DEF Sweeps
<1>2. /\ sweep.lost = \E a \in Agents : Noticed(obs[a])
      /\ sweep.silent = \E a \in Agents : obs[a].flaw \in {"container", "masked"}
      /\ \A a \in Agents : Collect(obs[a]).rec \in sweep.recs
  BY <1>1
<1>3. \A a \in Agents : Noticed(obs[a]) => Collect(obs[a]).rec = "ESCALATE"
  BY DEF Collect
<1>4. sweep.lost => "ESCALATE" \in sweep.recs
  BY <1>2, <1>3
<1> QED BY <1>2, <1>4

(***************************************************************************)
(* Every step keeps the invariant.                                         *)
(***************************************************************************)
LEMMA ObserveKeeps ==
  ASSUME Inv, Observe
  PROVE  Inv'
<1>1. PICK sweep \in Sweeps, facts \in Facts :
        cy' = [pc |-> "act", v |-> active, made |-> 0, ok |-> FALSE,
               lost |-> sweep.lost, silent |-> sweep.silent,
               decision |-> Reason(sweep, facts, state[active] = "DEPLOYED")]
  BY DEF Observe
<1> DEFINE d == Reason(sweep, facts, state[active] = "DEPLOYED")
<1>2. /\ d \in Decisions
      /\ "ESCALATE" \in sweep.recs => d \in {"ESCALATE", "QUARANTINE", "BLOCK_DEPLOYMENT", "ROLLBACK"}
      /\ streak >= MaxFailures => d = "ESCALATE"
  BY ReasonDecides DEF Inv
<1>3. cy' = [pc |-> "act", v |-> active, made |-> 0, ok |-> FALSE, lost |-> sweep.lost,
             silent |-> sweep.silent, decision |-> d]
  BY <1>1
<1> HIDE DEF d
<1>4. /\ cy' \in Cycle /\ cy'.pc = "act" /\ cy'.v = active /\ cy'.lost = sweep.lost /\ cy'.decision = d
      /\ cy'.made = 0 /\ ~cy'.ok
  BY <1>2, <1>3, LostEscalates DEF Cycle, Inv, Types
<1>5. UNCHANGED <<state, active, streak, promoted, outcomes>> /\ active # 0
  BY DEF Observe
<1>6. FailsClosed'
  <2>1. cy'.lost => cy'.decision \in {"ESCALATE", "QUARANTINE", "BLOCK_DEPLOYMENT", "ROLLBACK"}
    BY <1>2, <1>4, LostEscalates
  <2>2. ~ outcomes'.ok /\ outcomes'.before + 1 >= MaxFailures => cy'.decision = "ESCALATE"
    BY <1>2, <1>4, <1>5 DEF Inv, StreakCounts
  <2> QED BY <2>1, <2>2 DEF FailsClosed
<1>7. Types' /\ Numbered' /\ PromotedStates' /\ StreakCounts'
  BY <1>4, <1>5 DEF Inv, Types, Numbered, PromotedStates, StreakCounts
<1>8. Known'
  <2>1. active \in Versions /\ state[active] # "none"
    BY <1>5 DEF Inv, Types, Known, Versions
  <2> QED BY <1>4, <1>5, <2>1 DEF Known, Retraining
<1>9. RetrainVerified' /\ RecoveryIsReal'
  BY <1>4, <1>5 DEF Inv, RetrainVerified, RecoveryIsReal
<1> QED BY <1>6, <1>7, <1>8, <1>9 DEF Inv

\* A cycle that goes on judges the same version and keeps its decision.
LEMMA CycleMoves ==
  ASSUME Types, NEW pc \in {"verify", "learn"}, NEW ok \in BOOLEAN, cy' = [cy EXCEPT !.pc = pc, !.ok = ok]
  PROVE  /\ cy' \in Cycle /\ cy'.pc = pc /\ cy'.ok = ok /\ cy'.v = cy.v /\ cy'.decision = cy.decision
         /\ cy'.made = cy.made
BY DEF Types, Cycle

\* The recorded outcome stays true when the registry moves on.
LEMMA RecordStays ==
  ASSUME Inv, RegistryMoves, UNCHANGED <<streak, outcomes>>
  PROVE  StreakCounts' /\ RecoveryIsReal'
BY DEF Inv, RegistryMoves, StreakCounts, RecoveryIsReal

\* The cycle goes on to another step: a retraining goes on with a registered
\* version, and it succeeds with one.
LEMMA GoesOn ==
  ASSUME Inv, RegistryMoves, UNCHANGED <<streak, outcomes>>, cy.pc # "idle",
         NEW c \in Cycle, cy' = c, c.pc \in {"verify"} \union Retraining, c.v = cy.v,
         c.made # 0 => c.made = cy.made \/ state'[c.made] # "none",
         c.pc \in Retraining => c.made # 0,
         c.decision = "RETRAIN" /\ c.ok /\ c.pc = "verify" => c.made # 0
  PROVE  Inv'
<1>1. Types'
  BY DEF Inv, Types, RegistryMoves
<1>2. Known'
  <2>1. c.made # 0 => state'[c.made] # "none"
    BY DEF Inv, Types, Cycle, Known, RegistryMoves, Versions
  <2> QED BY <2>1 DEF Inv, Known, RegistryMoves
<1>3. FailsClosed' /\ RetrainVerified'
  BY DEF FailsClosed, RetrainVerified, Retraining
<1> QED BY <1>1, <1>2, <1>3, RecordStays DEF Inv, RegistryMoves

LEMMA ActKeeps ==
  ASSUME Inv, Act
  PROVE  Inv'
<1>1. RegistryMoves /\ UNCHANGED <<streak, outcomes>> /\ cy.pc = "act"
  BY ActMoves DEF Inv, Registry, Act
<1>2. ASSUME NEW ok \in BOOLEAN, Acted(ok), cy.decision = "RETRAIN" => ~ok
      PROVE  Inv'
  <2>1. /\ cy' \in Cycle /\ cy'.pc = "verify" /\ cy'.v = cy.v /\ cy'.ok = ok /\ cy'.made = cy.made
        /\ cy'.decision = cy.decision
    BY <1>2, CycleMoves DEF Inv, Acted
  <2>2. "verify" \notin Retraining
    BY DEF Retraining
  <2> DEFINE c == cy'
  <2>3. c \in Cycle /\ cy' = c /\ c.pc = "verify" /\ c.v = cy.v /\ c.ok = ok /\ c.made = cy.made
        /\ c.decision = cy.decision
    BY <2>1
  <2> HIDE DEF c
  <2> QED BY <1>1, <1>2, <2>2, <2>3, GoesOn
<1>3. CASE ActOutside
  <2>1. PICK ok \in {TRUE, cy.decision = "ACCEPT"} : Acted(ok)
    BY <1>3 DEF ActOutside
  <2>2. ok \in BOOLEAN /\ cy.decision # "RETRAIN"
    BY <1>3 DEF ActOutside
  <2> QED BY <1>2, <2>1, <2>2
<1>4. CASE ActQuarantine
  <2>1. cy.decision # "RETRAIN" /\ (Acted(TRUE) \/ Acted(FALSE))
    BY <1>4 DEF ActQuarantine
  <2> QED BY <1>2, <2>1
<1>5. CASE ActRollback
  <2>1. cy.decision # "RETRAIN" /\ \E ok \in BOOLEAN : Acted(ok)
    BY <1>5 DEF ActRollback
  <2> QED BY <1>2, <2>1
<1>6. CASE Train
  <2>1. CASE Acted(FALSE)
    BY <1>2, <2>1
  <2>2. CASE Register /\ cy' = [cy EXCEPT !.pc = "evaluate", !.made = Newest + 1]
    <3>1. Newest + 1 \in Versions /\ state'[Newest + 1] # "none"
      BY <2>2, RegisterMoves DEF Inv, Registry
    <3> DEFINE n == Newest + 1
               c == [cy EXCEPT !.pc = "evaluate", !.made = n]
    <3>2. n \in 0 .. MaxVersions /\ n # 0 /\ state'[n] # "none" /\ cy' = c
      BY <2>2, <3>1 DEF Versions
    <3> HIDE DEF n
    <3>3. c \in Cycle /\ c.pc = "evaluate" /\ c.v = cy.v /\ c.made = n
      BY <3>2 DEF Inv, Types, Cycle, Retraining
    <3> HIDE DEF c
    <3> QED BY <1>1, <3>2, <3>3, GoesOn DEF Retraining
  <2> QED BY <1>6, <2>1, <2>2 DEF Train
<1> QED BY <1>3, <1>4, <1>5, <1>6 DEF Act

LEMMA RetrainKeeps ==
  ASSUME Inv, Retrain
  PROVE  Inv'
<1>1. cy.pc \in Retraining /\ UNCHANGED <<streak, outcomes>> /\ cy.pc # "idle"
  BY DEF Retrain, Evaluate, Approve, Promote, Retraining
<1>2. cy.made # 0 /\ cy.made \in Versions /\ state[cy.made] # "none"
  BY <1>1 DEF Inv, Types, Cycle, Known, Versions
<1>3. RegistryMoves
  BY <1>2, RetrainMoves DEF Inv, Registry, Retrain
<1>4. \/ \E ok \in BOOLEAN : Acted(ok)
      \/ \E pc \in Retraining : Goto(pc)
  <2>1. CASE Evaluate
    <3>1. ASSUME NEW ok \in {cy.pc = "evaluate", FALSE}, Acted(ok)
          PROVE  \E b \in BOOLEAN : Acted(b)
      <4>1. ok \in BOOLEAN
        OBVIOUS
      <4> QED BY <3>1, <4>1
    <3>2. CASE Audited(IF cy.pc = "evaluate" THEN "gate" ELSE "approve")
      BY <3>2 DEF Audited, Retraining
    <3> QED BY <2>1, <3>1, <3>2 DEF Evaluate
  <2>2. CASE Approve
    BY <2>2 DEF Approve, Audited, Retraining
  <2>3. CASE Promote
    BY <2>3 DEF Promote
  <2> QED BY <2>1, <2>2, <2>3 DEF Retrain
<1>5. PICK c : cy' = c
  OBVIOUS
<1>6. c \in Cycle /\ c.pc \in {"verify"} \union Retraining /\ c.v = cy.v /\ c.made = cy.made
  <2>1. CASE \E ok \in BOOLEAN : Acted(ok)
    BY <1>5, <2>1 DEF Acted, Inv, Types, Cycle
  <2>2. CASE \E pc \in Retraining : Goto(pc)
    BY <1>5, <2>2 DEF Goto, Inv, Types, Cycle
  <2> QED BY <1>4, <2>1, <2>2
<1> QED BY <1>1, <1>2, <1>3, <1>5, <1>6, GoesOn

LEMMA VerifyKeeps ==
  ASSUME Inv, Verify
  PROVE  Inv'
<1>1. UNCHANGED <<state, active, streak, promoted, outcomes>> /\ cy.pc = "verify"
  BY DEF Verify
<1> DEFINE ok == cy.ok /\ Verified
<1>2. cy' = [cy EXCEPT !.pc = "learn", !.ok = ok] /\ ok \in BOOLEAN
  <2>1. cy \in Cycle
    BY DEF Inv, Types
  <2> QED BY <2>1 DEF Verify, Cycle
<1>3. ok => cy.ok /\ Verified
  OBVIOUS
<1> HIDE DEF ok
<1>4. cy' \in Cycle /\ cy'.pc = "learn" /\ cy'.ok = ok /\ cy'.v = cy.v /\ cy'.decision = cy.decision
      /\ cy'.made = cy.made
  BY <1>2, CycleMoves DEF Inv
<1>5. RetrainVerified'
  <2> SUFFICES ASSUME cy.decision = "RETRAIN", cy.ok, Verified
               PROVE  cy.made # 0 /\ \E v \in promoted : v >= cy.made
    BY <1>1, <1>3, <1>4 DEF RetrainVerified
  <2>1. state[Newest] \in {"APPROVED", "DEPLOYED"}
    BY DEF Verified
  <2>2. cy.made # 0 /\ cy.made \in Versions /\ state[cy.made] # "none"
    BY <1>1 DEF Inv, Types, Cycle, RetrainVerified, Known, Versions
  <2>3. Newest \in Versions /\ cy.made <= Newest
    BY <2>2, NewestIs DEF Inv
  <2>4. Newest \in promoted /\ Newest >= cy.made
    BY <2>1, <2>2, <2>3 DEF Inv, PromotedStates, Versions
  <2> QED BY <2>2, <2>4
<1>6. FailsClosed'
  BY <1>4 DEF FailsClosed
<1>7. Known'
  BY <1>1, <1>4 DEF Inv, Known, Retraining
<1> QED BY <1>1, <1>4, <1>5, <1>6, <1>7
        DEF Inv, Types, Numbered, PromotedStates, StreakCounts, RecoveryIsReal

LEMMA LearnKeeps ==
  ASSUME Inv, Learn
  PROVE  Inv'
<1>1. UNCHANGED <<state, active, promoted>> /\ cy' = Idle /\ cy.pc = "learn"
  BY DEF Learn
<1>2. cy' \in Cycle /\ cy'.pc = "idle" /\ cy'.made = 0 /\ "idle" \notin Retraining
  BY <1>1 DEF Idle, Cycle, Decisions, Retraining
<1>3. cy \in Cycle /\ streak \in Nat /\ outcomes.before \in Nat
  BY DEF Inv, Types
<1>4. /\ outcomes' \in [decision : Decisions, ok : BOOLEAN, made : 0 .. MaxVersions, before : Nat]
      /\ outcomes'.decision = cy.decision /\ outcomes'.ok = cy.ok /\ outcomes'.made = cy.made
      /\ outcomes'.before = streak
  BY <1>3 DEF Learn, Cycle, Inv, StreakCounts
<1>5. streak' = IF cy.ok THEN 0 ELSE streak + 1
  BY DEF Learn, NextStreak
<1>6. StreakCounts' /\ streak' \in Nat
  BY <1>3, <1>4, <1>5 DEF StreakCounts
<1>7. RecoveryIsReal'
  BY <1>1, <1>4 DEF Inv, RetrainVerified, RecoveryIsReal
<1> QED BY <1>1, <1>2, <1>4, <1>6, <1>7
        DEF Inv, Types, Numbered, Known, PromotedStates, RetrainVerified, FailsClosed

LEMMA OperateKeeps ==
  ASSUME Inv, Operate
  PROVE  Inv'
<1>1. RegistryMoves /\ UNCHANGED <<streak, cy, outcomes>>
  BY OperateMoves DEF Inv, Registry, Operate
<1>2. Types' /\ Known'
  BY <1>1 DEF Inv, Types, Known, RegistryMoves, Cycle, Versions
<1>3. FailsClosed' /\ RetrainVerified'
  BY <1>1 DEF Inv, FailsClosed, RetrainVerified, RegistryMoves
<1> QED BY <1>1, <1>2, <1>3, RecordStays DEF Inv, RegistryMoves

LEMMA RestartKeeps ==
  ASSUME Inv, Restart
  PROVE  Inv'
<1>1. /\ UNCHANGED <<state, active, streak, promoted, outcomes>>
      /\ cy' \in Cycle /\ cy'.pc = "idle" /\ cy'.made = 0 /\ "idle" \notin Retraining
  BY DEF Restart, Idle, Cycle, Decisions, Retraining
<1> QED BY <1>1 DEF Inv, Types, Numbered, Known, PromotedStates, StreakCounts, RetrainVerified, FailsClosed,
                    RecoveryIsReal

LEMMA InitInv ==
  ASSUME Init
  PROVE  Inv
<1>1. 1 \in Versions /\ MaxVersions \in Nat
  BY DEF Versions
<1>2. Types
  BY <1>1 DEF Init, Types, Idle, Cycle, Decisions, States
<1>3. Numbered
  <2>1. \A v \in Versions : state[v] # "none" <=> v <= 1
    BY DEF Init, Versions
  <2> QED BY <1>1, <2>1 DEF Numbered
<1>4. Known /\ PromotedStates
  BY <1>1 DEF Init, Known, PromotedStates, Idle, Retraining
<1>5. StreakCounts /\ RetrainVerified /\ FailsClosed /\ RecoveryIsReal
  BY DEF Init, Idle, StreakCounts, RetrainVerified, FailsClosed, RecoveryIsReal
<1> QED BY <1>2, <1>3, <1>4, <1>5 DEF Inv

LEMMA InvKept ==
  ASSUME Inv, [Next]_vars
  PROVE  Inv'
<1>1. CASE UNCHANGED vars
  BY <1>1 DEF vars, Inv, Types, Numbered, Known, PromotedStates, StreakCounts, RetrainVerified, FailsClosed,
             RecoveryIsReal
<1> QED BY <1>1, ObserveKeeps, ActKeeps, RetrainKeeps, VerifyKeeps, LearnKeeps, OperateKeeps, RestartKeeps DEF Next

LEMMA AlwaysInv == Spec => []Inv
<1>1. Init => Inv
  BY InitInv
<1>2. Inv /\ [Next]_vars => Inv'
  BY InvKept
<1> QED BY <1>1, <1>2, PTL DEF Spec

\* However many agents there are, whatever the others advise or lose unnoticed, an
\* observation noticed to be lost never ends in acceptance, retraining or rotation,
\* and after MaxFailures recorded failures in a row nothing but escalation is
\* attempted, restarts within a cycle included (supervisor.py, policy.py).
THEOREM SupervisorFailsClosed == Spec => []FailsClosed
<1>1. Inv => FailsClosed
  BY DEF Inv
<1> QED BY <1>1, AlwaysInv, PTL

\* A retraining is recorded as a success only when it registered a version and that
\* one, or one registered after it, was promoted, whatever operators did to the
\* registry between its steps (supervisor.py:480-489).
THEOREM RecordedRecoveryIsReal == Spec => []RecoveryIsReal
<1>1. Inv => RecoveryIsReal
  BY DEF Inv
<1> QED BY <1>1, AlwaysInv, PTL

----------------------------------------------------------------------------
(***************************************************************************)
(* The signing keys.                                                       *)
(***************************************************************************)
USE ProcsAssumption, KeysAssumption

(***************************************************************************)
(* Keys revoked in the HSM.  A revoked id has no private key left, neither *)
(* in the mock's memory nor on the token, until a new one is made for it.  *)
(***************************************************************************)
Disarmed ==
    /\ token \in [Keys -> [pub : Nat, priv : Nat]]
    /\ condemned \subseteq Keys
    /\ Hsm => \A k \in condemned : IF Mock THEN k \notin private ELSE token[k].priv = 0

Destroys == "destroy" \notin TokenFaults

LEMMA NotStored ==
  ASSUME Disarmed, UNCHANGED <<mode, hsmVars>>
  PROVE  Disarmed'
  BY DEF Disarmed, Hsm, Mock, hsmVars

LEMMA GenerateDisarms ==
  ASSUME Disarmed, UNCHANGED mode, NEW k, NEW extracted \in BOOLEAN, GenerateHsm(Mock, k, extracted)
  PROVE  Disarmed'
  BY DEF Disarmed, Hsm, Mock, GenerateHsm

LEMMA ImportDisarms ==
  ASSUME Disarmed, UNCHANGED mode, NEW k, NEW imported \in BOOLEAN, ImportHsm(Mock, k, imported)
  PROVE  Disarmed'
  BY DEF Disarmed, Hsm, Mock, ImportHsm

LEMMA RotateDisarms ==
  ASSUME Disarmed, UNCHANGED mode, NEW old, NEW new, NEW extracted \in BOOLEAN,
         RotateHsm(Mock, old, new, extracted)
  PROVE  Disarmed'
  BY DEF Disarmed, Hsm, Mock, RotateHsm

LEMMA RevokeDisarms ==
  ASSUME Disarmed, UNCHANGED mode, NEW k \in Keys, RevokeHsm(Mock, k, FALSE)
  PROVE  Disarmed'
  BY DEF Disarmed, Hsm, Mock, RevokeHsm

LEMMA LossDisarms ==
  ASSUME Disarmed, UNCHANGED mode, HsmLost
  PROVE  Disarmed'
  BY DEF Disarmed, Hsm, Mock, HsmLost

LEMMA BackendDisarms ==
  ASSUME Disarmed, Destroys, Backend
  PROVE  Disarmed'
<1>1. UNCHANGED mode
  BY DEF Backend
<1>2. CASE Initialize \/ CloseHsm
  BY <1>1, <1>2, NotStored DEF Initialize, CloseHsm, Disarmed, Hsm, Mock
<1>3. ASSUME NEW k \in Keys, NEW failed \in BOOLEAN,
             \/ ImportHsm(Mock, k, ~failed)
             \/ failed \in Fails("destroy") /\ RevokeHsm(Mock, k, failed)
             \/ \E new \in Keys : RotateHsm(Mock, k, new, ~failed)
      PROVE  Disarmed'
  <2>1. CASE ImportHsm(Mock, k, ~failed)
    BY <1>1, <2>1, ImportDisarms
  <2>2. CASE failed \in Fails("destroy") /\ RevokeHsm(Mock, k, failed)
    <3>1. failed = FALSE
      BY <2>2 DEF Fails, Destroys
    <3> QED BY <1>1, <2>2, <3>1, RevokeDisarms
  <2>3. CASE \E new \in Keys : RotateHsm(Mock, k, new, ~failed)
    BY <1>1, <2>3, RotateDisarms
  <2> QED BY <1>3, <2>1, <2>2, <2>3
<1> QED BY <1>2, <1>3 DEF Backend

LEMMA StepDisarms ==
  ASSUME Disarmed, NEW p \in Procs, Step(p)
  PROVE  Disarmed'
<1>1. CASE DrawHsm(p)
  <2>1. UNCHANGED mode
    BY <1>1 DEF DrawHsm
  <2>2. CASE UNCHANGED hsmVars
    BY <2>1, <2>2, NotStored
  <2>3. CASE \E f \in BOOLEAN : GenerateHsm(Mock, Fresh, ~f)
    BY <2>1, <2>3, GenerateDisarms
  <2> QED BY <1>1, <2>2, <2>3 DEF DrawHsm, Fails
<1>2. CASE ~DrawHsm(p)
  <2>1. UNCHANGED <<mode, hsmVars>>
    BY <1>2 DEF Step, Draw, Record, EmptyAnchors, FillRecord, Secret, EmptySecrets, FillSecrets, Vault,
                List, Retire, FillRetired, Revoke, FillRevoked, Expire, FillExpired, Due, Rekey
  <2> QED BY <2>1, NotStored
<1> QED BY <1>1, <1>2

LEMMA NextDisarms ==
  ASSUME Disarmed, Destroys, StoreNext
  PROVE  Disarmed'
<1>1. ASSUME NEW p \in Procs, Begin(p)
      PROVE  Disarmed'
  BY <1>1, NotStored DEF Begin
<1>2. ASSUME NEW p \in Procs, Step(p)
      PROVE  Disarmed'
  BY <1>2, StepDisarms
<1>3. ASSUME NEW p \in Procs, Crash(p)
      PROVE  Disarmed'
  <2>1. UNCHANGED mode
    BY <1>3 DEF Crash
  <2>2. HsmLost \/ UNCHANGED hsmVars
    BY <1>3 DEF Crash
  <2> QED BY <2>1, <2>2, LossDisarms, NotStored
<1>4. ASSUME NEW k \in Keys, PassExpiry(k)
      PROVE  Disarmed'
  BY <1>4, NotStored DEF PassExpiry
<1>5. CASE Lock \/ Unlock
  BY <1>5, NotStored DEF Lock, Unlock
<1>6. CASE Backend
  BY <1>6, BackendDisarms
<1> QED BY <1>1, <1>2, <1>3, <1>4, <1>5, <1>6 DEF StoreNext

\* A key revoked in the HSM never signs again, under any rotations, imports,
\* failed extractions and restarts, as long as the token destroys what it is told
\* to (hsm.py:1213): a new key under the old id is another key.
THEOREM RevokedKeysStaySilent ==
  ASSUME Destroys
  PROVE  StoreSpec => []RevokedNeverSigns
<1>1. StoreInit => Disarmed
  BY DEF StoreInit, HsmInit, Disarmed
<1>2. Disarmed /\ [StoreNext]_keyVars => Disarmed'
  BY NextDisarms, NotStored DEF keyVars, storeVars
<1>3. Disarmed => RevokedNeverSigns
  BY DEF Disarmed, RevokedNeverSigns, Signs, FoundOne
<1> QED BY <1>1, <1>2, <1>3, PTL DEF StoreSpec

(***************************************************************************)
(* The list of at most one key, and the key that is drawn.                 *)
(***************************************************************************)
LEMMA EmptyList ==
  ASSUME NEW a
  PROVE  ByVersion(a, {}) = <<>>
<1>1. Cardinality({}) = 0
  BY FS_EmptySet
<1>2. \A f \in [1 .. 0 -> {}] : f = <<>>
  OBVIOUS
<1>3. <<>> \in [1 .. 0 -> {}]
  OBVIOUS
<1>4. \A m, n \in DOMAIN <<>> : m < n => Newer(a, <<>>[m], <<>>[n])
  OBVIOUS
<1>5. ByVersion(a, {}) \in [1 .. 0 -> {}]
  BY <1>1, <1>3, <1>4 DEF ByVersion
<1> QED BY <1>2, <1>5

LEMMA SingleList ==
  ASSUME NEW a, NEW k
  PROVE  ByVersion(a, {k}) = <<k>>
<1>1. Cardinality({k}) = 1
  BY FS_Singleton
<1>2. \A f \in [1 .. 1 -> {k}] : f = <<k>>
  OBVIOUS
<1>3. <<k>> \in [1 .. 1 -> {k}]
  OBVIOUS
<1>4. \A m, n \in DOMAIN <<k>> : m < n => Newer(a, <<k>>[m], <<k>>[n])
  OBVIOUS
<1>5. ByVersion(a, {k}) \in [1 .. 1 -> {k}]
  BY <1>1, <1>3, <1>4 DEF ByVersion
<1> QED BY <1>2, <1>5

LEMMA FreshIsNew ==
  ASSUME Fresh # 0
  PROVE  Fresh \in Keys \ Drawn
<1> DEFINE T == Keys \ Drawn
<1>1. T # {} /\ T \subseteq Nat
  BY DEF Fresh, Keys
<1>2. \E x \in T : \A y \in T : ~ (<<y, x>> \in OpToRel(<, Nat))
  <2> HIDE DEF T
  <2> QED BY <1>1, WFMin, NatLessThanWellFounded, Zenon
<1>3. PICK x \in T : \A y \in T : ~ (<<y, x>> \in OpToRel(<, Nat))
  BY <1>2
<1>4. \A y \in T : x <= y
  <2>1. \A y \in T : ~ (y < x)
    BY <1>1, <1>3, Zenon DEF OpToRel
  <2> QED BY <1>1, <2>1
<1>5. Fresh = CHOOSE k \in T : \A j \in T : k <= j
  BY <1>1 DEF Fresh
<1> QED BY <1>3, <1>4, <1>5

(***************************************************************************)
(* One signer.  While calls never overlap, at most one process is inside a *)
(* call, and what it holds still describes the file.                       *)
(***************************************************************************)
IsTable(a) == DOMAIN a = Keys /\ \A k \in Keys : DOMAIN a[k] = {"status", "version"}
IsCall(o)  == /\ DOMAIN o = {"call", "pc", "snap", "key", "todo", "left", "held"}
              /\ IsTable(o.snap)
Shaped     == /\ IsTable(anchors)
              /\ DOMAIN op = Procs /\ \A p \in Procs : IsCall(op[p])

Snapped  == {"recordEmpty", "recordFill", "retireEmpty", "retireFill", "revokeEmpty", "revokeFill",
             "expireEmpty", "expireFill"}
Issuing  == {"draw", "hsm", "record", "recordEmpty", "recordFill"}
Naming   == {"record", "recordEmpty", "recordFill"}
Retiring == {"retire", "retireEmpty", "retireFill"}

\* The one signer there may be, and the revoked keys.
Trust ==
    /\ \A j, k \in Active(anchors) : j = k
    /\ \A k \in revoked : k \in Keys /\ anchors[k].status = "revoked"

\* What call o, the only one under way, has read is still so.
Stage(o) ==
    /\ o.pc \in Snapped => o.snap = anchors
    /\ o.pc \in Issuing => Active(anchors) = {}
    /\ o.pc \in Naming => o.key \in Keys /\ anchors[o.key].status = "absent"
    /\ o.pc \in Retiring => \E k \in Keys :
          Active(anchors) = {k} /\ o.todo = <<[key |-> k, version |-> anchors[k].version]>>
    /\ o.pc \in {"revokeEmpty", "revokeFill"} => o.key \in Keys /\ anchors[o.key].status # "absent"

Alone(p) == \A q \in Procs \ {p} : At(q, "idle")

SignerInv ==
    ~overlapped =>
        /\ Shaped /\ Trust
        /\ \E p \in Procs : Alone(p) /\ Stage(op[p])

\* Process p alone moves.
Moves(p) == IsCall(op'[p]) /\ op' = [op EXCEPT ![p] = op'[p]]

LEMMA ShapedMoves ==
  ASSUME Shaped, NEW p \in Procs, Moves(p), IsTable(anchors')
  PROVE  Shaped' /\ \A q \in Procs \ {p} : op'[q] = op[q]
  BY DEF Shaped, Moves

LEMMA NoCallIs ==
  /\ IsCall(NoCall) /\ NoCall.pc = "idle" /\ NoCall.left = 0
  BY DEF NoCall, IsCall, IsTable, Absent

\* The steps that leave the anchors alone.
Looks(p) ==
    \/ Draw(p) \/ DrawHsm(p) \/ Record(p) \/ EmptyAnchors(p) \/ Secret(p) \/ EmptySecrets(p)
    \/ FillSecrets(p) \/ Vault(p) \/ List(p) \/ Retire(p) \/ Revoke(p) \/ Expire(p) \/ Due(p)
    \/ Rekey(p)

LEMMA Puts ==
  ASSUME Shaped, NEW p \in Procs, NEW r, IsCall(r), op' = [op EXCEPT ![p] = r]
  PROVE  Moves(p) /\ op'[p] = r
  BY DEF Shaped, Moves

LEMMA FreshIsAbsent ==
  ASSUME Fresh # 0
  PROVE  Fresh \in Keys /\ anchors[Fresh].status = "absent"
  BY FreshIsNew DEF Drawn, Recorded

LEMMA LookStages ==
  ASSUME Shaped, NEW p \in Procs, Trust, Stage(op[p]), Looks(p)
  PROVE  UNCHANGED <<anchors, revoked>> /\ Moves(p) /\ Stage(op'[p])
<1>1. CASE Draw(p)
  <2>1. UNCHANGED <<anchors, revoked>>
    BY <1>1 DEF Draw
  <2>2. CASE Finish(p)
    BY <2>1, <2>2, NoCallIs, Puts DEF Finish, Stage, Snapped, Issuing, Naming, Retiring
  <2>3. CASE /\ Fresh # 0
             /\ op' = [op EXCEPT ![p].pc = "record", ![p].key = Fresh,
                                 ![p].held = IF mode = "vault" THEN cache ELSE {}]
    <3>1. Moves(p) /\ op'[p].pc = "record" /\ op'[p].key = Fresh
      BY <2>3 DEF Shaped, IsCall, Moves
    <3>2. Active(anchors) = {}
      BY <1>1 DEF Draw, At, Stage, Issuing
    <3> QED BY <2>1, <3>1, <3>2, <2>3, FreshIsAbsent DEF Stage, Snapped, Issuing, Naming, Retiring
  <2> QED BY <1>1, <2>2, <2>3 DEF Draw, AfterDraw
<1>2. CASE DrawHsm(p)
  <2>1. UNCHANGED <<anchors, revoked>>
    BY <1>2 DEF DrawHsm, disk
  <2>2. CASE Finish(p)
    BY <2>1, <2>2, NoCallIs, Puts DEF Finish, Stage, Snapped, Issuing, Naming, Retiring
  <2>3. CASE Fresh # 0 /\ op' = [op EXCEPT ![p].pc = "record", ![p].key = Fresh]
    <3>1. Moves(p) /\ op'[p].pc = "record" /\ op'[p].key = Fresh
      BY <2>3 DEF Shaped, IsCall, Moves
    <3>2. Active(anchors) = {}
      BY <1>2 DEF DrawHsm, At, Stage, Issuing
    <3> QED BY <2>1, <3>1, <3>2, <2>3, FreshIsAbsent DEF Stage, Snapped, Issuing, Naming, Retiring
  <2> QED BY <1>2, <2>2, <2>3 DEF DrawHsm
<1>3. ASSUME NEW from, NEW to, At(p, from), Snapshot(p, to), UNCHANGED <<anchors, revoked>>,
             \/ from = "record" /\ to = "recordEmpty"
             \/ from = "retire" /\ to = "retireEmpty"
             \/ from = "revoke" /\ to = "revokeEmpty" /\ op[p].key \in Recorded(anchors)
             \/ from = "expire" /\ to = "expireEmpty"
      PROVE  Moves(p) /\ Stage(op'[p])
  <2>1. CASE Finish(p)
    BY <1>3, <2>1, NoCallIs, Puts DEF Finish, Stage, Snapped, Issuing, Naming, Retiring
  <2>2. CASE op' = [op EXCEPT ![p].pc = to, ![p].snap = anchors]
    <3>1. /\ Moves(p) /\ op'[p].pc = to /\ op'[p].snap = anchors
          /\ op'[p].key = op[p].key /\ op'[p].todo = op[p].todo
      BY <2>2 DEF Shaped, IsCall, Moves
    <3> QED BY <1>3, <3>1 DEF At, Stage, Snapped, Issuing, Naming, Retiring, Recorded
  <2> QED BY <1>3, <2>1, <2>2 DEF Snapshot
<1>4. CASE Record(p)
  BY <1>3, <1>4 DEF Record
<1>5. CASE Retire(p)
  BY <1>3, <1>5 DEF Retire, disk
<1>6. CASE Revoke(p)
  <2>1. CASE Finish(p)
    BY <1>6, <2>1, NoCallIs, Puts
    DEF Revoke, disk, Finish, Stage, Snapped, Issuing, Naming, Retiring
  <2> QED BY <1>3, <1>6, <2>1 DEF Revoke, disk
<1>7. CASE Expire(p)
  <2>1. CASE Proceed(p, "due")
    <3>1. Moves(p) /\ op'[p].pc = "due"
      BY <2>1 DEF Shaped, IsCall, Moves, Proceed
    <3> QED BY <1>7, <3>1 DEF Expire, disk, Stage, Snapped, Issuing, Naming, Retiring
  <2> QED BY <1>3, <1>7, <2>1 DEF Expire, disk
<1>8. CASE EmptyAnchors(p)
  <2>1. PICK to : /\ op' = [op EXCEPT ![p].pc = to]
                  /\ \/ op[p].pc = "recordEmpty" /\ to = "recordFill"
                     \/ op[p].pc = "retireEmpty" /\ to = "retireFill"
                     \/ op[p].pc = "revokeEmpty" /\ to = "revokeFill"
                     \/ op[p].pc = "expireEmpty" /\ to = "expireFill"
    BY <1>8 DEF EmptyAnchors, Empty, Proceed, At
  <2>2. /\ Moves(p) /\ op'[p].pc = to /\ op'[p].snap = op[p].snap
        /\ op'[p].key = op[p].key /\ op'[p].todo = op[p].todo
    BY <2>1 DEF Shaped, IsCall, Moves
  <2> QED BY <1>8, <2>1, <2>2 DEF EmptyAnchors, Stage, Snapped, Issuing, Naming, Retiring
<1>9. CASE List(p)
  <2>1. UNCHANGED <<anchors, revoked>>
    BY <1>9 DEF List, disk
  <2>2. CASE Finish(p)
    BY <2>1, <2>2, NoCallIs, Puts DEF Finish, Stage, Snapped, Issuing, Naming, Retiring
  <2>3. CASE "anchors" \notin torn
    <3> DEFINE old == RotationList(anchors)
               list == [i \in DOMAIN old |-> [key |-> old[i], version |-> anchors[old[i]].version]]
    <3>1. op' = [op EXCEPT ![p].pc = IF old = <<>> THEN FirstStep ELSE "retire", ![p].todo = list]
      BY <1>9, <2>3 DEF List
    <3>2. /\ Moves(p) /\ op'[p].todo = list
          /\ op'[p].pc = IF old = <<>> THEN FirstStep ELSE "retire"
      <4> HIDE DEF old, list
      <4> QED BY <3>1 DEF Shaped, IsCall, Moves
    <3>3. CASE Active(anchors) = {}
      <4>1. op'[p].pc = FirstStep
        BY <3>2, <3>3, EmptyList DEF RotationList
      <4> HIDE DEF old, list
      <4> QED BY <2>1, <3>2, <3>3, <4>1
              DEF FirstStep, Stage, Snapped, Issuing, Naming, Retiring
    <3>4. ASSUME NEW k \in Active(anchors) PROVE Moves(p) /\ Stage(op'[p])
      <4>1. Active(anchors) = {k} /\ k \in Keys
        BY <3>4 DEF Trust, Active
      <4>2. old = <<k>>
        BY <4>1, SingleList DEF RotationList
      <4>3. list = <<[key |-> k, version |-> anchors[k].version]>>
        BY <4>2
      <4>4. op'[p].pc = "retire"
        BY <3>2, <4>2
      <4> HIDE DEF old, list
      <4> QED BY <3>2, <4>1, <4>3, <4>4 DEF Stage, Snapped, Issuing, Naming, Retiring
    <3> QED BY <2>1, <3>3, <3>4
  <2> QED BY <1>9, <2>2, <2>3 DEF List
<1>10. ASSUME Return(p)
       PROVE  Moves(p) /\ op'[p].pc \in {"idle", "list"}
  <2> DEFINE r == [NoCall EXCEPT !.call = op[p].call, !.pc = "list", !.left = op[p].left - 1]
  <2>1. IsCall(r) /\ r.pc = "list"
    BY NoCallIs DEF NoCall, IsCall
  <2>2. op' = [op EXCEPT ![p] = NoCall] \/ op' = [op EXCEPT ![p] = r]
    BY <1>10 DEF Return
  <2> HIDE DEF r
  <2> QED BY <2>1, <2>2, NoCallIs, Puts
<1>11. CASE Secret(p) \/ EmptySecrets(p) \/ FillSecrets(p) \/ Vault(p) \/ Due(p) \/ Rekey(p)
  <2>1. UNCHANGED <<anchors, revoked>>
    BY <1>11 DEF Secret, EmptySecrets, FillSecrets, Vault, Due, Rekey, disk
  <2>2. Moves(p) /\ op'[p].pc \in {"idle", "list", "vault", "secretEmpty", "secretFill"}
    <3>1. CASE Finish(p)
      BY <3>1, NoCallIs, Puts DEF Finish
    <3>2. CASE Secret(p)
      <4>1. CASE op' = [op EXCEPT ![p].pc = "vault", ![p].held = @ \union {op[p].key}]
        BY <4>1 DEF Shaped, IsCall, Moves
      <4>2. CASE op' = [op EXCEPT ![p].pc = "secretEmpty", ![p].held = secrets \union {op[p].key}]
        BY <4>2 DEF Shaped, IsCall, Moves
      <4> QED BY <3>1, <3>2, <4>1, <4>2 DEF Secret
    <3>3. CASE EmptySecrets(p) \/ Vault(p)
      BY <3>3 DEF Shaped, IsCall, Moves, EmptySecrets, Empty, Vault, Proceed
    <3>4. CASE FillSecrets(p)
      BY <1>10, <3>4 DEF FillSecrets
    <3>5. CASE Due(p)
      <4> DEFINE left == Cardinality({k \in Keys : anchors[k].status = "expired"}) - 1
      <4>1. CASE op' = [op EXCEPT ![p].pc = "list", ![p].left = left]
        <5> HIDE DEF left
        <5>1. op' = [op EXCEPT ![p] = [op[p] EXCEPT !.pc = "list", !.left = left]]
          BY <4>1 DEF Shaped
        <5>2. IsCall([op[p] EXCEPT !.pc = "list", !.left = left])
          BY DEF Shaped, IsCall
        <5> QED BY <5>1, <5>2, Puts DEF Shaped, IsCall
      <4> QED BY <3>1, <3>5, <4>1 DEF Due
    <3>6. CASE Rekey(p)
      <4>1. CASE op' = [op EXCEPT ![p].pc = "secretEmpty", ![p].held = secrets]
        BY <4>1 DEF Shaped, IsCall, Moves
      <4> QED BY <3>1, <3>6, <4>1 DEF Rekey
    <3> QED BY <1>11, <3>2, <3>3, <3>4, <3>5, <3>6
  <2> QED BY <2>1, <2>2 DEF Stage, Snapped, Issuing, Naming, Retiring
<1> QED BY <1>1, <1>2, <1>4, <1>5, <1>6, <1>7, <1>8, <1>9, <1>11 DEF Looks

\* The steps that write the anchors.
Fills(p) == FillRecord(p) \/ FillRetired(p) \/ FillRevoked(p) \/ FillExpired(p)

LEMMA ReturnMoves ==
  ASSUME Shaped, NEW p \in Procs, Return(p)
  PROVE  Moves(p) /\ op'[p].pc \in {"idle", "list"}
<1> DEFINE r == [NoCall EXCEPT !.call = op[p].call, !.pc = "list", !.left = op[p].left - 1]
<1>1. IsCall(r) /\ r.pc = "list"
  BY NoCallIs DEF NoCall, IsCall
<1>2. op' = [op EXCEPT ![p] = NoCall] \/ op' = [op EXCEPT ![p] = r]
  BY DEF Return
<1> HIDE DEF r
<1> QED BY <1>1, <1>2, NoCallIs, Puts

LEMMA FillStages ==
  ASSUME Shaped, NEW p \in Procs, Trust, Stage(op[p]), Fills(p)
  PROVE  IsTable(anchors') /\ Trust' /\ Moves(p) /\ Stage(op[p])'
<1> USE DEF Snapped, Issuing, Naming, Retiring
<1>1. CASE FillRecord(p)
  <2>1. op[p].snap = anchors /\ Active(anchors) = {} /\ op[p].key \in Keys
        /\ anchors[op[p].key].status = "absent" /\ UNCHANGED revoked
    BY <1>1 DEF FillRecord, At, Stage
  <2>2. PICK v : anchors' = [anchors EXCEPT ![op[p].key] = [status |-> "active", version |-> v]]
    BY <1>1, <2>1 DEF FillRecord
  <2>3. IsTable(anchors') /\ Trust'
    BY <2>1, <2>2 DEF Shaped, IsTable, Trust, Active
  <2>4. Moves(p) /\ op'[p].pc \in {"idle", "list", "secret"}
    <3>1. CASE Return(p)
      BY <3>1, ReturnMoves
    <3>2. CASE Proceed(p, "secret")
      BY <3>2 DEF Proceed, Shaped, IsCall, Moves
    <3> QED BY <1>1, <3>1, <3>2 DEF FillRecord
  <2> QED BY <2>3, <2>4 DEF Stage
<1>2. CASE FillRetired(p)
  <2>1. op[p].snap = anchors /\ UNCHANGED revoked
    BY <1>2 DEF FillRetired, At, Stage
  <2>2. PICK k \in Keys : Active(anchors) = {k} /\ op[p].todo = <<[key |-> k, version |-> anchors[k].version]>>
    BY <1>2 DEF FillRetired, At, Stage
  <2>3. Head(op[p].todo).key = k /\ Len(op[p].todo) = 1
    BY <2>2
  <2>4. PICK v : anchors' = [anchors EXCEPT ![k] = [status |-> "rotated", version |-> v]]
    BY <1>2, <2>1, <2>3 DEF FillRetired, Retired
  <2>5. k \notin revoked
    BY <2>2 DEF Trust, Active
  <2>6. IsTable(anchors') /\ Active(anchors') = {}
    BY <2>2, <2>4 DEF Shaped, IsTable, Active
  <2>7. Trust'
    BY <2>1, <2>4, <2>5, <2>6 DEF Shaped, IsTable, Trust
  <2>8. Moves(p) /\ op'[p].pc = FirstStep
    <3>1. op' = [op EXCEPT ![p].todo = Tail(@), ![p].pc = FirstStep]
      BY <1>2, <2>3 DEF FillRetired
    <3> QED BY <3>1 DEF Shaped, IsCall, Moves
  <2> QED BY <2>6, <2>7, <2>8 DEF Stage, FirstStep
<1>3. CASE FillRevoked(p)
  <2>1. /\ op[p].snap = anchors /\ op[p].key \in Keys /\ anchors[op[p].key].status # "absent"
        /\ revoked' = revoked \union {op[p].key}
    BY <1>3 DEF FillRevoked, At, Stage
  <2>2. anchors' = [anchors EXCEPT ![op[p].key].status = "revoked"]
    BY <1>3, <2>1 DEF FillRevoked
  <2>3. IsTable(anchors') /\ Trust'
    BY <2>1, <2>2 DEF Shaped, IsTable, Trust, Active
  <2>4. Moves(p) /\ op'[p].pc = "idle"
    BY <1>3, NoCallIs, Puts DEF FillRevoked, Finish
  <2> QED BY <2>3, <2>4 DEF Stage
<1>4. CASE FillExpired(p)
  <2>1. op[p].snap = anchors /\ UNCHANGED revoked
    BY <1>4 DEF FillExpired, At, Stage
  <2>2. anchors' = [k \in Keys |-> IF k \in ExpiredIn(anchors)
                                  THEN [anchors[k] EXCEPT !.status = "expired"] ELSE anchors[k]]
    BY <1>4, <2>1 DEF FillExpired
  <2>3. IsTable(anchors') /\ Trust'
    BY <2>1, <2>2 DEF Shaped, IsTable, Trust, Active, ExpiredIn
  <2>4. Moves(p) /\ op'[p].pc = "due"
    BY <1>4 DEF FillExpired, Proceed, Shaped, IsCall, Moves
  <2> QED BY <2>3, <2>4 DEF Stage
<1> QED BY <1>1, <1>2, <1>3, <1>4 DEF Fills

LEMMA BusyOne ==
  ASSUME SignerInv, ~overlapped, NEW p \in Procs, ~At(p, "idle")
  PROVE  Shaped /\ Trust /\ Alone(p) /\ Stage(op[p])
  BY DEF SignerInv, Alone

LEMMA SignerKept ==
  ASSUME NEW p \in Procs, Shaped, Alone(p), Moves(p), IsTable(anchors'), Trust', Stage(op[p])'
  PROVE  SignerInv'
<1>1. Shaped' /\ \A q \in Procs \ {p} : op'[q] = op[q]
  BY ShapedMoves
<1>2. Alone(p)'
  BY <1>1 DEF Alone, At
<1> QED BY <1>1, <1>2 DEF SignerInv

LEMMA SignerStep ==
  ASSUME SignerInv, NEW p \in Procs, Step(p)
  PROVE  SignerInv'
<1>1. Looks(p) \/ Fills(p)
  BY DEF Step, Looks, Fills
<1>2. ~At(p, "idle") /\ overlapped' = overlapped
  BY DEF Step, Draw, DrawHsm, Record, EmptyAnchors, FillRecord, Secret, EmptySecrets, FillSecrets, Vault,
         List, Retire, FillRetired, Revoke, FillRevoked, Expire, FillExpired, Due, Rekey, At
<1>3. SUFFICES ASSUME ~overlapped PROVE SignerInv'
  BY <1>2 DEF SignerInv
<1>4. Shaped /\ Trust /\ Alone(p) /\ Stage(op[p])
  BY <1>2, <1>3, BusyOne
<1>5. CASE Looks(p)
  <2>1. UNCHANGED <<anchors, revoked>> /\ Moves(p) /\ Stage(op'[p])
    BY <1>4, <1>5, LookStages
  <2>2. IsTable(anchors') /\ Trust' /\ Stage(op[p])'
    BY <1>4, <2>1 DEF Shaped, Trust, Active, Stage
  <2> QED BY <1>4, <2>1, <2>2, SignerKept
<1>6. CASE Fills(p)
  BY <1>4, <1>6, FillStages, SignerKept
<1> QED BY <1>1, <1>5, <1>6

LEMMA SignerBegin ==
  ASSUME SignerInv, NEW p \in Procs, Begin(p)
  PROVE  SignerInv'
<1>1. SUFFICES ASSUME ~overlapped' PROVE SignerInv'
  BY DEF SignerInv
<1>2. ~overlapped /\ At(p, "idle") /\ Alone(p) /\ UNCHANGED <<anchors, revoked>>
  BY <1>1 DEF Begin, Alone, disk
<1>3. Shaped /\ Trust
  BY <1>2 DEF SignerInv
<1>4. /\ Moves(p)
      /\ \/ op'[p].pc \in {"list", "expire", "revoke", "rekey"}
         \/ op'[p].pc = FirstStep /\ Recorded(anchors) = {}
  <2>1. CASE Recorded(anchors) = {} /\ op' = [op EXCEPT ![p].call = "generate", ![p].pc = FirstStep]
    <3>1. Moves(p) /\ op'[p].pc = FirstStep
      BY <1>3, <2>1 DEF Shaped, IsCall, Moves
    <3> QED BY <3>1, <2>1
  <2>2. CASE op' = [op EXCEPT ![p].call = "rotate", ![p].pc = "list"]
    <3>1. Moves(p) /\ op'[p].pc = "list"
      BY <1>3, <2>2 DEF Shaped, IsCall, Moves
    <3> QED BY <3>1
  <2>3. CASE op' = [op EXCEPT ![p].call = "sweep", ![p].pc = "expire"]
    <3>1. Moves(p) /\ op'[p].pc = "expire"
      BY <1>3, <2>3 DEF Shaped, IsCall, Moves
    <3> QED BY <3>1
  <2>4. CASE \E k \in Recorded(anchors) :
               op' = [op EXCEPT ![p].call = "revoke", ![p].pc = "revoke", ![p].key = k]
    <3>1. PICK k : op' = [op EXCEPT ![p].call = "revoke", ![p].pc = "revoke", ![p].key = k]
      BY <2>4
    <3>2. Moves(p) /\ op'[p].pc = "revoke"
      BY <1>3, <3>1 DEF Shaped, IsCall, Moves
    <3> QED BY <3>2
  <2>5. CASE op' = [op EXCEPT ![p].call = "rekey", ![p].pc = "rekey"]
    <3>1. Moves(p) /\ op'[p].pc = "rekey"
      BY <1>3, <2>5 DEF Shaped, IsCall, Moves
    <3> QED BY <3>1
  <2> QED BY <2>1, <2>2, <2>3, <2>4, <2>5 DEF Begin
<1>5. IsTable(anchors') /\ Trust'
  BY <1>2, <1>3 DEF Shaped, Trust, Active
<1>6. Recorded(anchors) = {} => Active(anchors) = {}
  BY DEF Recorded, Active
<1>7. Stage(op[p])'
  BY <1>2, <1>4, <1>6 DEF Stage, FirstStep, Snapped, Issuing, Naming, Retiring, Active
<1> QED BY <1>2, <1>3, <1>4, <1>5, <1>7, SignerKept

LEMMA SignerCrash ==
  ASSUME SignerInv, NEW p \in Procs, Crash(p)
  PROVE  SignerInv'
<1>1. SUFFICES ASSUME ~overlapped PROVE SignerInv'
  BY DEF SignerInv, Crash
<1>2. Shaped /\ Trust /\ Alone(p)
  BY <1>1, BusyOne DEF Crash
<1>3. UNCHANGED <<anchors, revoked>> /\ Moves(p) /\ op'[p].pc = "idle"
  BY <1>2, NoCallIs, Puts DEF Crash, Finish, disk
<1>4. IsTable(anchors') /\ Trust'
  BY <1>2, <1>3 DEF Shaped, Trust, Active
<1>5. Stage(op[p])'
  BY <1>3 DEF Stage, Snapped, Issuing, Naming, Retiring
<1> QED BY <1>2, <1>3, <1>4, <1>5, SignerKept

LEMMA SignerStutters ==
  ASSUME SignerInv, UNCHANGED <<anchors, op, revoked, overlapped>>
  PROVE  SignerInv'
<1>1. Trust => Trust'
  BY DEF Trust, Active
<1>2. Shaped => Shaped'
  BY DEF Shaped
<1>3. ASSUME NEW p \in Procs, Alone(p), Stage(op[p])
      PROVE  (Alone(p) /\ Stage(op[p]))'
  BY <1>3 DEF Alone, At, Stage, Active
<1> QED BY <1>1, <1>2, <1>3 DEF SignerInv

LEMMA SignerNext ==
  ASSUME SignerInv, StoreNext
  PROVE  SignerInv'
<1>1. ASSUME NEW p \in Procs, Begin(p) \/ Step(p) \/ Crash(p)
      PROVE  SignerInv'
  BY <1>1, SignerBegin, SignerStep, SignerCrash
<1>2. ASSUME NEW k \in Keys, PassExpiry(k)
      PROVE  SignerInv'
  BY <1>2, SignerStutters DEF PassExpiry, disk
<1>3. CASE Lock \/ Unlock \/ Backend
  BY <1>3, SignerStutters DEF Lock, Unlock, Backend, disk
<1> QED BY <1>1, <1>2, <1>3 DEF StoreNext

LEMMA SignerStarts ==
  ASSUME StoreInit
  PROVE  SignerInv
<1>1. IsTable(anchors) /\ Trust
  BY DEF StoreInit, IsTable, Absent, Trust, Active
<1>2. Shaped
  BY <1>1, NoCallIs DEF StoreInit, Shaped
<1>3. Alone(Primary) /\ Stage(op[Primary])
  BY NoCallIs DEF StoreInit, Alone, At, Stage, Snapped, Issuing, Naming, Retiring
<1> QED BY <1>1, <1>2, <1>3 DEF SignerInv

\* Calls that follow one another leave one signer at most, and a revoked key stays
\* revoked, wherever a process is lost and whatever write is cut (keys.py:244).
THEOREM OneSignerOnly == StoreSpec => []OneSigner
<1>1. StoreInit => SignerInv
  BY SignerStarts
<1>2. SignerInv /\ [StoreNext]_keyVars => SignerInv'
  BY SignerNext, SignerStutters DEF keyVars, storeVars, disk
<1>3. SignerInv => OneSigner
  <2> SUFFICES ASSUME SignerInv, ~overlapped
               PROVE  /\ Cardinality(Active(anchors)) <= 1
                      /\ \A k \in revoked : anchors[k].status = "revoked"
    BY DEF OneSigner
  <2>1. Trust
    BY DEF SignerInv
  <2>2. Active(anchors) = {} \/ \E k : Active(anchors) = {k}
    BY <2>1 DEF Trust
  <2>3. Cardinality(Active(anchors)) <= 1
    <3>1. CASE Active(anchors) = {}
      BY <3>1, FS_EmptySet
    <3>2. ASSUME NEW k, Active(anchors) = {k} PROVE Cardinality(Active(anchors)) <= 1
      <4>1. Cardinality({k}) = 1
        BY FS_Singleton
      <4> QED BY <3>2, <4>1
    <3> QED BY <2>2, <3>1, <3>2
  <2> QED BY <2>1, <2>3 DEF Trust
<1> QED BY <1>1, <1>2, <1>3, PTL DEF StoreSpec

(***************************************************************************)
(* The signer's secret.  Between the calls the secrets hold the signer, if *)
(* the process that issued it was not lost, and an open vault's cache      *)
(* equals them; inside a call the secret is on its way from the draw to    *)
(* the file.  A process lost in a write leaves a file empty for good.      *)
(***************************************************************************)
Filling  == {"recordFill", "retireFill", "revokeFill", "expireFill"}
Bringing == {"record", "recordEmpty", "recordFill", "secret"}

Kept(o) ==
    /\ "anchors" \in torn => o.pc \in Filling
    /\ "secrets" \in torn => o.pc = "secretFill"
    /\ o.pc # "hsm"
    /\ o.pc = "vault" => mode = "vault"
    /\ o.pc \notin Storing => Active(anchors) \subseteq secrets \union lost
    /\ o.pc \in Storing => Active(anchors) \subseteq secrets \union lost \union {o.key}
    /\ o.pc \in {"vault", "secretEmpty", "secretFill"} => Active(anchors) \subseteq o.held \union lost
    /\ mode = "vault" =>
          /\ ~locked /\ o.pc \notin {"secretEmpty", "secretFill"} => cache = secrets
          /\ ~locked /\ o.pc \in {"secretEmpty", "secretFill"} => cache = o.held
          /\ o.pc \in Bringing => ~locked /\ o.held = cache

\* A file was emptied by a process that is lost: o cannot read it, nor can later calls.
NoAnchors(o) == "anchors" \in torn /\ o.pc \notin Snapped
NoSecrets(o) ==
    /\ "secrets" \in torn
    /\ o.pc \notin {"hsm", "vault", "secretEmpty", "secretFill"}
    /\ mode = "vault" => locked /\ o.pc \notin Bringing

Sequential == ~overlapped /\ ~Hsm
Keeper(p)  == Alone(p) /\ (mode = "vault" => p = Primary)

CustodyInv ==
    /\ mode \in {"plain", "vault", "mock", "pkcs11"}
    /\ Sequential => \E p \in Procs :
          Keeper(p) /\ (Kept(op[p]) \/ NoAnchors(op[p]) \/ NoSecrets(op[p]))

LEMMA BusyKeeper ==
  ASSUME CustodyInv, Sequential, NEW p \in Procs, ~At(p, "idle")
  PROVE  Keeper(p) /\ (Kept(op[p]) \/ NoAnchors(op[p]) \/ NoSecrets(op[p]))
  BY DEF CustodyInv, Keeper, Alone

\* The pcs at which a call holds nothing and its secret, if any, is stored.
Resting == {"idle", "list", "draw", "retire", "retireEmpty", "revoke", "revokeEmpty", "expire",
            "expireEmpty", "due", "rekey"}

LEMMA RestKeeps ==
  ASSUME NEW p \in Procs, Kept(op[p]), op[p].pc \in Resting \union {"record"}, op'[p].pc \in Resting,
         UNCHANGED <<mode, anchors, secrets, torn, cache, locked, lost>>
  PROVE  Kept(op[p])'
  BY DEF Kept, Resting, Filling, Storing, Bringing, Active

\* The signers after the anchors are written.
LEMMA FillSigners ==
  ASSUME Shaped, NEW p \in Procs, Trust, Stage(op[p])
  PROVE  /\ FillRecord(p) => Active(anchors') \subseteq {op[p].key}
         /\ FillRetired(p) \/ FillRevoked(p) \/ FillExpired(p) => Active(anchors') \subseteq Active(anchors)
<1>1. ASSUME FillRecord(p)
      PROVE  Active(anchors') \subseteq {op[p].key}
  <2>1. op[p].snap = anchors /\ Active(anchors) = {}
    BY <1>1 DEF FillRecord, At, Stage, Snapped, Issuing
  <2>2. PICK v : anchors' = [anchors EXCEPT ![op[p].key] = [status |-> "active", version |-> v]]
    BY <1>1, <2>1 DEF FillRecord
  <2> QED BY <2>1, <2>2 DEF Shaped, IsTable, Active
<1>2. ASSUME FillRetired(p)
      PROVE  Active(anchors') \subseteq Active(anchors)
  <2>1. op[p].snap = anchors
    BY <1>2 DEF FillRetired, At, Stage, Snapped
  <2>2. PICK k, v : anchors' = [anchors EXCEPT ![k] = [status |-> "rotated", version |-> v]]
    BY <1>2, <2>1 DEF FillRetired, Retired
  <2> QED BY <2>2 DEF Shaped, IsTable, Active
<1>3. ASSUME FillRevoked(p)
      PROVE  Active(anchors') \subseteq Active(anchors)
  <2>1. op[p].snap = anchors
    BY <1>3 DEF FillRevoked, At, Stage, Snapped
  <2>2. anchors' = [anchors EXCEPT ![op[p].key].status = "revoked"]
    BY <1>3, <2>1 DEF FillRevoked
  <2> QED BY <2>2 DEF Shaped, IsTable, Active
<1>4. ASSUME FillExpired(p)
      PROVE  Active(anchors') \subseteq Active(anchors)
  <2>1. op[p].snap = anchors
    BY <1>4 DEF FillExpired, At, Stage, Snapped
  <2>2. anchors' = [k \in Keys |-> IF k \in ExpiredIn(anchors)
                                  THEN [anchors[k] EXCEPT !.status = "expired"] ELSE anchors[k]]
    BY <1>4, <2>1 DEF FillExpired
  <2> QED BY <2>2 DEF Shaped, IsTable, Active
<1> QED BY <1>1, <1>2, <1>3, <1>4

LEMMA StepKeeps ==
  ASSUME Shaped, NEW p \in Procs, Trust, Stage(op[p]), Kept(op[p]), ~Hsm,
         mode \in {"plain", "vault", "mock", "pkcs11"}, Step(p)
  PROVE  Kept(op[p])'
<1> USE DEF At
<1> lost' = lost
  BY DEF Step
<1>1. CASE Draw(p)
  <2>1. CASE Finish(p)
    BY <1>1, <2>1, NoCallIs, Puts, RestKeeps DEF Draw, Finish, Resting
  <2>2. CASE /\ ~locked
             /\ op' = [op EXCEPT ![p].pc = "record", ![p].key = Fresh,
                                 ![p].held = IF mode = "vault" THEN cache ELSE {}]
    <3>1. op'[p].pc = "record" /\ op'[p].held = IF mode = "vault" THEN cache ELSE {}
      BY <2>2 DEF Shaped, IsCall
    <3> QED BY <1>1, <2>2, <3>1 DEF Draw, Kept, Filling, Storing, Bringing, Active
  <2> QED BY <1>1, <2>1, <2>2 DEF Draw, AfterDraw
<1>2. CASE DrawHsm(p)
  BY <1>2 DEF DrawHsm, Kept
<1>3. ASSUME NEW from, NEW to, At(p, from), Snapshot(p, to),
             UNCHANGED <<mode, anchors, secrets, torn, cache, locked>>,
             \/ from = "record" /\ to = "recordEmpty"
             \/ from = "retire" /\ to = "retireEmpty"
             \/ from = "revoke" /\ to = "revokeEmpty"
             \/ from = "expire" /\ to = "expireEmpty"
      PROVE  Kept(op[p])'
  <2>1. CASE Finish(p)
    BY <1>3, <2>1, NoCallIs, Puts, RestKeeps DEF Finish, Resting
  <2>2. CASE op' = [op EXCEPT ![p].pc = to, ![p].snap = anchors]
    <3>1. op'[p].pc = to /\ op'[p].held = op[p].held
      BY <2>2 DEF Shaped, IsCall
    <3>2. CASE from = "record"
      BY <1>3, <3>1, <3>2 DEF Kept, Filling, Storing, Bringing, Active
    <3>3. CASE from # "record"
      BY <1>3, <3>1, <3>3, RestKeeps DEF Resting
    <3> QED BY <3>2, <3>3
  <2> QED BY <1>3, <2>1, <2>2 DEF Snapshot
<1>4. CASE Record(p)
  BY <1>3, <1>4 DEF Record
<1>5. CASE Retire(p)
  BY <1>3, <1>5 DEF Retire, disk
<1>6. CASE Revoke(p)
  <2>1. CASE Finish(p)
    BY <1>6, <2>1, NoCallIs, Puts, RestKeeps DEF Revoke, Finish, Resting, disk
  <2> QED BY <1>3, <1>6, <2>1 DEF Revoke, disk
<1>7. CASE Expire(p)
  <2>1. CASE Proceed(p, "due")
    <3>1. op'[p].pc = "due"
      BY <2>1 DEF Proceed, Shaped, IsCall
    <3> QED BY <1>7, <3>1, RestKeeps DEF Expire, Resting, disk
  <2> QED BY <1>3, <1>7, <2>1 DEF Expire, disk
<1>8. CASE EmptyAnchors(p)
  <2>1. PICK to \in Filling : /\ op' = [op EXCEPT ![p].pc = to]
                              /\ to = "recordFill" => op[p].pc = "recordEmpty"
    BY <1>8 DEF EmptyAnchors, Empty, Proceed, Filling
  <2>2. op'[p].pc = to /\ op'[p].held = op[p].held
    BY <2>1 DEF Shaped, IsCall
  <2>3. torn' = torn \union {"anchors"} /\ UNCHANGED <<mode, anchors, secrets, cache, locked>>
    BY <1>8 DEF EmptyAnchors, Empty
  <2> QED BY <1>8, <2>1, <2>2, <2>3 DEF EmptyAnchors, Kept, Filling, Storing, Bringing, Active
<1>9. CASE FillRecord(p)
  <2>1. op' = [op EXCEPT ![p].pc = "secret"]
    BY <1>9 DEF FillRecord, Proceed
  <2>2. op'[p].pc = "secret" /\ op'[p].held = op[p].held /\ op'[p].key = op[p].key
    BY <2>1 DEF Shaped, IsCall
  <2>3. torn' = torn \ {"anchors"} /\ UNCHANGED <<mode, secrets, cache, locked>> /\ op[p].pc = "recordFill"
    BY <1>9 DEF FillRecord
  <2>4. Active(anchors') \subseteq {op[p].key}
    BY <1>9, FillSigners
  <2>5. Active(anchors)' \subseteq {op[p].key}
    BY <2>4 DEF Active
  <2> QED BY <2>2, <2>3, <2>5 DEF Kept, Filling, Storing, Bringing
<1>10. CASE Secret(p)
  <2>1. op[p].pc = "secret" /\ UNCHANGED <<mode, anchors, secrets, torn, cache, locked>>
    BY <1>10 DEF Secret, disk
  <2>2. CASE mode = "vault"
    <3>1. op' = [op EXCEPT ![p].pc = "vault", ![p].held = @ \union {op[p].key}]
      BY <1>10, <2>2 DEF Secret
    <3>2. op'[p].pc = "vault" /\ op'[p].held = op[p].held \union {op[p].key} /\ op'[p].key = op[p].key
      BY <3>1 DEF Shaped, IsCall
    <3> QED BY <2>1, <2>2, <3>2 DEF Kept, Filling, Storing, Bringing, Active
  <2>3. CASE mode # "vault"
    <3>1. op' = [op EXCEPT ![p].pc = "secretEmpty", ![p].held = secrets \union {op[p].key}]
      BY <1>10, <2>1, <2>3 DEF Secret, Kept
    <3>2. op'[p].pc = "secretEmpty" /\ op'[p].held = secrets \union {op[p].key} /\ op'[p].key = op[p].key
      BY <3>1 DEF Shaped, IsCall
    <3> QED BY <2>1, <2>3, <3>2 DEF Kept, Filling, Storing, Bringing, Active
  <2> QED BY <2>2, <2>3
<1>20. CASE Rekey(p)
  <2>1. op[p].pc = "rekey" /\ UNCHANGED <<mode, anchors, secrets, torn>>
    BY <1>20 DEF Rekey, disk
  <2>2. "secrets" \notin torn
    BY <2>1 DEF Kept
  <2>3. /\ cache' = secrets /\ locked' = FALSE
        /\ op' = [op EXCEPT ![p].pc = "secretEmpty", ![p].held = secrets]
    BY <1>20, <2>2 DEF Rekey
  <2>4. op'[p].pc = "secretEmpty" /\ op'[p].held = secrets
    BY <2>3 DEF Shaped, IsCall
  <2>5. Active(anchors)' = Active(anchors) /\ Active(anchors) \subseteq secrets \union lost
    BY <2>1 DEF Kept, Storing, Active
  <2> QED BY <2>1, <2>2, <2>3, <2>4, <2>5 DEF Kept, Filling, Storing, Bringing
<1>11. CASE EmptySecrets(p)
  <2>1. op'[p].pc = "secretFill" /\ op'[p].held = op[p].held /\ op'[p].key = op[p].key
    BY <1>11 DEF EmptySecrets, Empty, Proceed, Shaped, IsCall
  <2> QED BY <1>11, <2>1 DEF EmptySecrets, Empty, Kept, Filling, Storing, Bringing, Active
<1>12. CASE FillSecrets(p)
  <2>1. op'[p].pc \in {"idle", "list"}
    BY <1>12, ReturnMoves DEF FillSecrets
  <2> QED BY <1>12, <2>1 DEF FillSecrets, Kept, Filling, Storing, Bringing, Active
<1>13. CASE Vault(p)
  <2>1. op'[p].pc = "secretEmpty" /\ op'[p].held = op[p].held /\ op'[p].key = op[p].key
    BY <1>13 DEF Vault, Proceed, Shaped, IsCall
  <2> QED BY <1>13, <2>1 DEF Vault, Kept, Filling, Storing, Bringing, Active
<1>14. CASE List(p)
  <2>1. op'[p].pc \in {"idle", "draw", "retire"}
    <3>1. CASE Finish(p)
      BY <3>1, NoCallIs, Puts DEF Finish
    <3>2. ASSUME NEW pc, NEW todo, op' = [op EXCEPT ![p].pc = pc, ![p].todo = todo]
          PROVE  op'[p].pc = pc
      BY <3>2 DEF Shaped, IsCall
    <3> QED BY <1>14, <3>1, <3>2 DEF List, FirstStep
  <2> QED BY <1>14, <2>1, RestKeeps DEF List, Resting, disk
<1>15. ASSUME op[p].pc \in {"retireFill", "revokeFill", "expireFill"}, op'[p].pc \in Resting,
              torn' = torn \ {"anchors"}, UNCHANGED <<mode, secrets, cache, locked>>,
              Active(anchors') \subseteq Active(anchors)
       PROVE  Kept(op[p])'
  <2>1. Active(anchors)' \subseteq Active(anchors)
    BY <1>15 DEF Active
  <2> QED BY <1>15, <2>1 DEF Kept, Filling, Storing, Bringing, Resting
<1>16. CASE FillRetired(p)
  <2>1. op'[p].pc \in {"draw", "retire"}
    BY <1>16 DEF FillRetired, FirstStep, Shaped, IsCall
  <2> QED BY <1>15, <1>16, <2>1, FillSigners DEF FillRetired, Resting
<1>17. CASE FillRevoked(p)
  <2>1. op'[p].pc = "idle"
    BY <1>17, NoCallIs, Puts DEF FillRevoked, Finish
  <2> QED BY <1>15, <1>17, <2>1, FillSigners DEF FillRevoked, Resting
<1>18. CASE FillExpired(p)
  <2>1. op'[p].pc = "due"
    BY <1>18 DEF FillExpired, Proceed, Shaped, IsCall
  <2> QED BY <1>15, <1>18, <2>1, FillSigners DEF FillExpired, Resting
<1>19. CASE Due(p)
  <2>1. op'[p].pc \in {"idle", "list"}
    <3>1. CASE Finish(p)
      BY <3>1, NoCallIs, Puts DEF Finish
    <3>2. ASSUME NEW left, op' = [op EXCEPT ![p].pc = "list", ![p].left = left]
          PROVE  op'[p].pc = "list"
      BY <3>2 DEF Shaped, IsCall
    <3> QED BY <1>19, <3>1, <3>2 DEF Due
  <2> QED BY <1>19, <2>1, RestKeeps DEF Due, Resting, disk
<1> QED BY <1>1, <1>2, <1>4, <1>5, <1>6, <1>7, <1>8, <1>9, <1>10, <1>11, <1>12, <1>13, <1>14, <1>16,
           <1>17, <1>18, <1>19, <1>20 DEF Step

\* An emptied file stays empty: whoever looks at it ends the call.
LEMMA StepStaysEmpty ==
  ASSUME Shaped, NEW p \in Procs, Step(p), mode \in {"plain", "vault"},
         NoAnchors(op[p]) \/ NoSecrets(op[p])
  PROVE  NoAnchors(op[p])' \/ NoSecrets(op[p])'
<1> USE DEF At
<1>1. CASE NoAnchors(op[p])
  <2>1. "anchors" \in torn'
    BY <1>1 DEF Step, NoAnchors, Snapped, Draw, DrawHsm, Record, EmptyAnchors, FillRecord, Secret, EmptySecrets,
         FillSecrets, Vault, List, Retire, FillRetired, Revoke, FillRevoked, Expire, FillExpired, Due, Rekey,
         Empty, disk
  <2>2. op'[p].pc \notin Snapped
    <3>1. CASE Finish(p)
      BY <3>1, NoCallIs, Puts DEF Finish, Snapped
    <3>2. ASSUME NEW to, Snapshot(p, to) PROVE Finish(p)
      BY <1>1, <3>2 DEF Snapshot, NoAnchors
    <3>3. CASE Record(p) \/ Retire(p) \/ Revoke(p) \/ Expire(p)
      BY <1>1, <3>1, <3>2, <3>3 DEF Record, Retire, Revoke, Expire, NoAnchors
    <3>4. CASE List(p) \/ Due(p)
      BY <1>1, <3>1, <3>4 DEF List, Due, NoAnchors
    <3>5. CASE FillSecrets(p)
      BY <3>5, ReturnMoves DEF FillSecrets, Snapped
    <3>6. ASSUME NEW to \in {"record", "secretEmpty", "secretFill", "vault"}, NEW k, NEW h,
                 \/ op' = [op EXCEPT ![p].pc = to]
                 \/ op' = [op EXCEPT ![p].pc = to, ![p].held = h]
                 \/ op' = [op EXCEPT ![p].pc = to, ![p].key = k]
                 \/ op' = [op EXCEPT ![p].pc = to, ![p].key = k, ![p].held = h]
          PROVE  op'[p].pc \notin Snapped
      <4>1. op'[p].pc = to
        BY <3>6 DEF Shaped, IsCall
      <4> QED BY <4>1 DEF Snapped
    <3>7. CASE Draw(p)
      BY <3>1, <3>6, <3>7 DEF Draw, AfterDraw
    <3>8. CASE DrawHsm(p)
      BY <3>1, <3>6, <3>8 DEF DrawHsm
    <3>9. CASE Secret(p)
      <4>1. CASE op' = [op EXCEPT ![p].pc = "vault", ![p].held = @ \union {op[p].key}]
        <5>1. op'[p].pc = "vault"
          BY <4>1 DEF Shaped, IsCall
        <5> QED BY <5>1 DEF Snapped
      <4> QED BY <3>1, <3>6, <3>9, <4>1 DEF Secret
    <3>10. CASE EmptySecrets(p) \/ Vault(p)
      BY <3>6, <3>10 DEF EmptySecrets, Empty, Vault, Proceed
    <3>11. CASE Rekey(p)
      BY <3>1, <3>6, <3>11 DEF Rekey
    <3>12. ~(EmptyAnchors(p) \/ FillRecord(p) \/ FillRetired(p) \/ FillRevoked(p) \/ FillExpired(p))
      BY <1>1 DEF NoAnchors, Snapped, EmptyAnchors, FillRecord, FillRetired, FillRevoked, FillExpired
    <3> QED BY <3>3, <3>4, <3>5, <3>7, <3>8, <3>9, <3>10, <3>11, <3>12 DEF Step
  <2> QED BY <2>1, <2>2 DEF NoAnchors
<1>2. CASE NoSecrets(op[p])
  <2>1. "secrets" \in torn /\ op[p].pc \notin {"hsm", "vault", "secretEmpty", "secretFill"}
        /\ (mode = "vault" => locked /\ op[p].pc \notin Bringing)
    BY <1>2 DEF NoSecrets
  <2>2. "secrets" \in torn' /\ UNCHANGED <<mode, locked>>
    BY <2>1 DEF Step, Draw, DrawHsm, Record, EmptyAnchors, FillRecord, Secret, EmptySecrets,
         FillSecrets, Vault, List, Retire, FillRetired, Revoke, FillRevoked, Expire, FillExpired, Due, Rekey,
         Empty, disk
  <2> DEFINE Far(pc) == pc \notin {"hsm", "vault", "secretEmpty", "secretFill"} /\ (mode = "vault" => pc \notin Bringing)
  <2>3. Far(op'[p].pc)
    <3>1. CASE Finish(p)
      BY <3>1, NoCallIs, Puts DEF Finish, Bringing
    <3>2. CASE op'[p].pc \in Resting \union {"retireFill", "revokeFill", "expireFill"}
      BY <3>2 DEF Resting, Bringing
    <3>3. ASSUME NEW to, Snapshot(p, to) PROVE op'[p].pc = to \/ Finish(p)
      BY <3>3 DEF Snapshot, Shaped, IsCall
    <3>4. CASE Record(p)
      <4>1. op[p].pc = "record" /\ (op'[p].pc = "recordEmpty" \/ Finish(p))
        BY <3>3, <3>4 DEF Record
      <4> QED BY <2>1, <3>1, <4>1 DEF Bringing
    <3>5. CASE Retire(p) \/ Revoke(p) \/ Expire(p)
      <4>1. Proceed(p, "due") => op'[p].pc = "due"
        BY DEF Proceed, Shaped, IsCall
      <4> QED BY <3>1, <3>2, <3>3, <3>5, <4>1 DEF Retire, Revoke, Expire, Resting
    <3>6. CASE Draw(p)
      <4>1. CASE mode = "plain" /\ op' = [op EXCEPT ![p].pc = "record", ![p].key = Fresh,
                                 ![p].held = IF mode = "vault" THEN cache ELSE {}]
        <5>1. op'[p].pc = "record"
          BY <4>1 DEF Shaped, IsCall
        <5> QED BY <4>1, <5>1
      <4> QED BY <2>1, <3>1, <3>6, <4>1 DEF Draw, AfterDraw
    <3>8. CASE EmptyAnchors(p)
      <4>1. PICK to : /\ op'[p].pc = to
                      /\ \/ op[p].pc = "recordEmpty" /\ to = "recordFill"
                         \/ to \in {"retireFill", "revokeFill", "expireFill"}
        BY <3>8 DEF EmptyAnchors, Empty, Proceed, Shaped, IsCall
      <4> QED BY <2>1, <4>1 DEF Bringing
    <3>9. CASE FillRecord(p)
      <4>1. CASE Return(p)
        BY <3>2, <4>1, ReturnMoves DEF Resting
      <4>2. CASE Proceed(p, "secret")
        <5>1. op'[p].pc = "secret" /\ op[p].pc = "recordFill"
          BY <3>9, <4>2 DEF FillRecord, Proceed, Shaped, IsCall
        <5> QED BY <2>1, <5>1 DEF Bringing
      <4> QED BY <3>9, <4>1, <4>2 DEF FillRecord
    <3>10. CASE Secret(p)
      BY <2>1, <3>1, <3>10 DEF Secret, Bringing
    <3>11. CASE List(p)
      <4>1. op'[p].pc \in {FirstStep, "retire"} \/ Finish(p)
        <5>1. ASSUME NEW to, NEW todo, op' = [op EXCEPT ![p].pc = to, ![p].todo = todo] PROVE op'[p].pc = to
          BY <5>1 DEF Shaped, IsCall
        <5> QED BY <3>11, <5>1 DEF List
      <4> QED BY <3>1, <3>2, <4>1 DEF FirstStep, Hsm, Resting
    <3>12. CASE FillRetired(p)
      <4>1. op'[p].pc \in {FirstStep, "retire"}
        BY <3>12 DEF FillRetired, Shaped, IsCall
      <4> QED BY <3>2, <4>1 DEF FirstStep, Hsm, Resting
    <3>13. CASE FillRevoked(p)
      BY <3>1, <3>13 DEF FillRevoked
    <3>14. CASE FillExpired(p)
      <4>1. op'[p].pc = "due"
        BY <3>14 DEF FillExpired, Proceed, Shaped, IsCall
      <4> QED BY <3>2, <4>1 DEF Resting
    <3>15. CASE Due(p)
      <4>1. ASSUME NEW left, op' = [op EXCEPT ![p].pc = "list", ![p].left = left] PROVE op'[p].pc = "list"
        BY <4>1 DEF Shaped, IsCall
      <4> QED BY <3>1, <3>2, <3>15, <4>1 DEF Due, Resting
    <3>16. CASE Rekey(p)
      BY <2>1, <3>1, <3>16 DEF Rekey
    <3>17. ~(DrawHsm(p) \/ EmptySecrets(p) \/ FillSecrets(p) \/ Vault(p))
      BY <2>1 DEF DrawHsm, EmptySecrets, FillSecrets, Vault
    <3> HIDE DEF Far
    <3> QED BY <3>4, <3>5, <3>6, <3>8, <3>9, <3>10, <3>11, <3>12, <3>13, <3>14, <3>15, <3>16, <3>17 DEF Step
  <2> QED BY <2>1, <2>2, <2>3 DEF NoSecrets
<1> QED BY <1>1, <1>2

LEMMA CustodyStep ==
  ASSUME SignerInv, CustodyInv, NEW p \in Procs, Step(p)
  PROVE  CustodyInv'
<1>1. ~At(p, "idle") /\ UNCHANGED <<mode, overlapped>>
  BY DEF Step, Draw, DrawHsm, Record, EmptyAnchors, FillRecord, Secret, EmptySecrets, FillSecrets, Vault,
         List, Retire, FillRetired, Revoke, FillRevoked, Expire, FillExpired, Due, Rekey, disk, At
<1>2. SUFFICES ASSUME Sequential PROVE CustodyInv'
  BY <1>1 DEF CustodyInv, Sequential, Hsm
<1>3. Shaped /\ Trust /\ Alone(p) /\ Stage(op[p]) /\ mode \in {"plain", "vault"}
  BY <1>1, <1>2, BusyOne DEF Sequential, Hsm, CustodyInv
<1>4. Keeper(p) /\ (Kept(op[p]) \/ NoAnchors(op[p]) \/ NoSecrets(op[p]))
  BY <1>1, <1>2, BusyKeeper
<1>5. Kept(op[p])' \/ NoAnchors(op[p])' \/ NoSecrets(op[p])'
  BY <1>2, <1>3, <1>4, StepKeeps, StepStaysEmpty DEF Sequential, CustodyInv
<1>6. Looks(p) \/ Fills(p)
  BY DEF Step, Looks, Fills
<1>7. Moves(p)
  BY <1>3, <1>6, LookStages, FillStages
<1>8. Alone(p)'
  BY <1>3, <1>7 DEF Alone, At, Moves, Shaped
<1>9. Keeper(p)'
  BY <1>1, <1>4, <1>8 DEF Keeper
<1> QED BY <1>1, <1>5, <1>9 DEF CustodyInv

LEMMA CustodyBegin ==
  ASSUME SignerInv, CustodyInv, NEW p \in Procs, Begin(p)
  PROVE  CustodyInv'
<1>1. /\ At(p, "idle") /\ UNCHANGED <<mode, anchors, secrets, torn, cache, locked, lost>>
      /\ mode = "plain" \/ p = Primary
      /\ overlapped' = (overlapped \/ \E q \in Procs \ {p} : ~At(q, "idle"))
  BY DEF Begin, disk
<1>2. SUFFICES ASSUME Sequential' PROVE CustodyInv'
  BY <1>1 DEF CustodyInv
<1>3. Sequential /\ Alone(p)
  BY <1>1, <1>2 DEF Sequential, Hsm, Alone
<1>4. Shaped
  BY <1>3 DEF SignerInv, Sequential
<1>5. PICK q \in Procs : Alone(q) /\ (Kept(op[q]) \/ NoAnchors(op[q]) \/ NoSecrets(op[q]))
  BY <1>3 DEF CustodyInv, Keeper
<1>6. op[q].pc = "idle" /\ op[p].pc = "idle"
  BY <1>1, <1>3 DEF Alone, At
<1>7. Kept(op[p]) \/ NoAnchors(op[p]) \/ NoSecrets(op[p])
  BY <1>5, <1>6 DEF Kept, NoAnchors, NoSecrets, Filling, Storing, Bringing
<1>8. PICK c, pc, k : \/ op' = [op EXCEPT ![p].call = c, ![p].pc = pc]
                       \/ op' = [op EXCEPT ![p].call = c, ![p].pc = pc, ![p].key = k]
  BY DEF Begin
<1>9. op' = [op EXCEPT ![p] = op'[p]]
  BY <1>4, <1>8 DEF Shaped
<1>10. Keeper(p)'
  BY <1>1, <1>3, <1>4, <1>9 DEF Keeper, Alone, At, Shaped
<1>11. op'[p].pc \in {"draw", "list", "expire", "revoke", "rekey"}
  <2>1. FirstStep = "draw"
    BY <1>3 DEF Sequential, FirstStep
  <2>2. ASSUME NEW d, NEW to, NEW j, \/ op' = [op EXCEPT ![p].call = d, ![p].pc = to]
                                    \/ op' = [op EXCEPT ![p].call = d, ![p].pc = to, ![p].key = j]
        PROVE  op'[p].pc = to
    BY <1>4, <2>2 DEF Shaped, IsCall
  <2> QED BY <2>1, <2>2 DEF Begin
<1>12. Kept(op[p])' \/ NoAnchors(op[p])' \/ NoSecrets(op[p])'
  <2>1. CASE Kept(op[p])
    BY <1>1, <1>6, <1>11, <2>1, RestKeeps DEF Resting
  <2>2. CASE NoAnchors(op[p]) \/ NoSecrets(op[p])
    BY <1>1, <1>11, <2>2 DEF NoAnchors, NoSecrets, Snapped, Bringing
  <2> QED BY <1>7, <2>1, <2>2
<1> QED BY <1>1, <1>10, <1>12 DEF CustodyInv

\* A lost process leaves the files as they are; the key it was issuing is lost with it.
LEMMA CustodyCrash ==
  ASSUME SignerInv, CustodyInv, NEW p \in Procs, Crash(p)
  PROVE  CustodyInv'
<1>1. /\ ~At(p, "idle") /\ UNCHANGED <<mode, anchors, secrets, torn, overlapped>>
      /\ lost' = lost \union {k \in Keys : k = op[p].key /\ op[p].pc \in Storing}
      /\ locked' = (mode = "vault") /\ op' = [op EXCEPT ![p] = NoCall]
  BY DEF Crash, Finish, disk
<1>2. SUFFICES ASSUME Sequential PROVE CustodyInv'
  BY <1>1 DEF CustodyInv, Sequential, Hsm
<1>3. Shaped /\ Trust /\ Alone(p) /\ Stage(op[p])
  BY <1>1, <1>2, BusyOne DEF Sequential
<1>4. Keeper(p) /\ (Kept(op[p]) \/ NoAnchors(op[p]) \/ NoSecrets(op[p]))
  BY <1>1, <1>2, BusyKeeper
<1>5. op'[p].pc = "idle" /\ Keeper(p)'
  BY <1>1, <1>3, <1>4, NoCallIs, Puts DEF Keeper, Alone, At, Shaped
<1>6. Kept(op[p])' \/ NoAnchors(op[p])' \/ NoSecrets(op[p])'
  <2>1. CASE "anchors" \in torn
    BY <1>1, <1>5, <2>1 DEF NoAnchors, Snapped
  <2>2. CASE "secrets" \in torn
    BY <1>1, <1>5, <2>2 DEF NoSecrets, Bringing
  <2>3. CASE torn \intersect {"anchors", "secrets"} = {}
    <3>1. Kept(op[p])
      BY <1>4, <2>3 DEF NoAnchors, NoSecrets
    <3>2. Active(anchors) \subseteq secrets \union lost'
      BY <1>1, <3>1 DEF Kept, Active
    <3>3. Active(anchors)' = Active(anchors)
      BY <1>1 DEF Active
    <3> QED BY <1>1, <1>5, <2>3, <3>2, <3>3 DEF Kept, Storing, Bringing
  <2> QED BY <2>1, <2>2, <2>3
<1> QED BY <1>1, <1>5, <1>6 DEF CustodyInv

\* Lock, Unlock and what touches neither the files nor the calls.
LEMMA CustodyRest ==
  ASSUME CustodyInv, UNCHANGED <<mode, anchors, secrets, torn, op, lost, overlapped>>,
         \/ UNCHANGED <<cache, locked>>
         \/ /\ mode = "vault" /\ At(Primary, "idle") /\ locked' \in BOOLEAN
            /\ ~locked' => cache' = secrets /\ "secrets" \notin torn
  PROVE  CustodyInv'
<1>1. SUFFICES ASSUME Sequential PROVE CustodyInv'
  BY DEF CustodyInv, Sequential, Hsm
<1>2. PICK p \in Procs : Keeper(p) /\ (Kept(op[p]) \/ NoAnchors(op[p]) \/ NoSecrets(op[p]))
  BY <1>1 DEF CustodyInv
<1>3. Active(anchors)' = Active(anchors)
  BY DEF Active
<1>4. Kept(op[p])' \/ NoAnchors(op[p])' \/ NoSecrets(op[p])'
  <2>1. CASE Kept(op[p])
    BY <1>2, <1>3, <2>1 DEF Kept, Keeper, At, Storing, Bringing
  <2>2. CASE NoAnchors(op[p])
    BY <2>2 DEF NoAnchors
  <2>3. CASE NoSecrets(op[p])
    BY <1>2, <2>3 DEF NoSecrets
  <2> QED BY <1>2, <2>1, <2>2, <2>3
<1>5. Keeper(p)'
  BY <1>2 DEF Keeper, Alone, At
<1> QED BY <1>4, <1>5 DEF CustodyInv

LEMMA CustodyNext ==
  ASSUME SignerInv, CustodyInv, StoreNext
  PROVE  CustodyInv'
<1>1. ASSUME NEW p \in Procs, Begin(p) \/ Step(p) \/ Crash(p)
      PROVE  CustodyInv'
  BY <1>1, CustodyBegin, CustodyStep, CustodyCrash
<1>2. ASSUME NEW k \in Keys, PassExpiry(k)
      PROVE  CustodyInv'
  BY <1>2, CustodyRest DEF PassExpiry, disk
<1>3. CASE Lock
  BY <1>3, CustodyRest DEF Lock, disk
<1>4. CASE Unlock
  BY <1>4, CustodyRest DEF Unlock, disk
<1>5. CASE Backend
  BY <1>5, CustodyRest DEF Backend, disk
<1> QED BY <1>1, <1>2, <1>3, <1>4, <1>5 DEF StoreNext

LEMMA SignerIs ==
  ASSUME Trust, SigningKey # 0
  PROVE  SigningKey \in Active(anchors)
<1> DEFINE usable == IF mode = "vault" THEN Active(anchors) ELSE Active(anchors) \ dead
<1>1. usable # {} /\ usable \subseteq Active(anchors) /\ SigningKey = Head(ByVersion(anchors, usable))
  BY DEF SigningKey
<1>2. PICK k : usable = {k}
  BY <1>1 DEF Trust
<1>3. ByVersion(anchors, usable) = <<k>>
  BY <1>2, SingleList
<1> HIDE DEF usable
<1> QED BY <1>1, <1>2, <1>3

\* Calls that follow one another, cut anywhere by the loss of their process, leave the
\* signer's secret in the file, and in the vault's cache unless it is locked, whatever
\* the order of rotations, sweeps, revocations, locks and changes of the passphrase
\* (keys.py:234): all that is lost is the secret of the key then issued, or the file.
THEOREM SignersKeepSecrets == StoreSpec => []SignerHasSecret
<1>1. StoreInit => SignerInv /\ CustodyInv
  <2> SUFFICES ASSUME StoreInit PROVE CustodyInv
    BY SignerStarts
  <2>1. mode \in {"plain", "vault", "mock", "pkcs11"}
    BY ModesAssumption DEF StoreInit
  <2>2. Keeper(Primary) /\ Kept(op[Primary])
    BY NoCallIs DEF StoreInit, Keeper, Alone, At, Kept, Filling, Storing, Bringing, Active, Absent
  <2> QED BY <2>1, <2>2 DEF CustodyInv
<1>2. SignerInv /\ CustodyInv /\ [StoreNext]_keyVars => SignerInv' /\ CustodyInv'
  <2> SUFFICES ASSUME SignerInv, CustodyInv, [StoreNext]_keyVars PROVE SignerInv' /\ CustodyInv'
    OBVIOUS
  <2>1. CASE StoreNext
    BY <2>1, SignerNext, CustodyNext
  <2>2. CASE UNCHANGED keyVars
    BY <2>2, SignerStutters, CustodyRest DEF keyVars, storeVars, disk
  <2> QED BY <2>1, <2>2
<1>3. SignerInv /\ CustodyInv => SignerHasSecret
  <2> SUFFICES ASSUME SignerInv, CustodyInv, ~overlapped, Quiet, ~Hsm, SigningKey # 0, "secrets" \notin torn,
                      SigningKey \notin lost
               PROVE  /\ SigningKey \in secrets
                      /\ mode = "vault" /\ ~locked => SigningKey \in cache
    BY DEF SignerHasSecret
  <2>1. SigningKey \in Active(anchors)
    BY SignerIs DEF SignerInv
  <2>2. "anchors" \notin torn
    BY DEF SigningKey
  <2>3. PICK p \in Procs : Kept(op[p]) /\ op[p].pc = "idle"
    BY <2>2 DEF CustodyInv, Sequential, NoAnchors, NoSecrets, Quiet, At
  <2> QED BY <2>1, <2>3 DEF Kept, Storing
<1> QED BY <1>1, <1>2, <1>3, PTL DEF StoreSpec
=============================================================================
