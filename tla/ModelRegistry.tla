--------------------------- MODULE ModelRegistry ---------------------------
(***************************************************************************)
(* The registry of the hosted product's ML models (satsa/mlops/registry.py)*)
(* of one organization and model name: registration by a training job,     *)
(* approval, deployment, rollback and retirement.                          *)
(*                                                                         *)
(* Requests run concurrently on PostgreSQL, READ COMMITTED: a plain SELECT *)
(* reads what is committed, SELECT ... FOR UPDATE and UPDATE take the row  *)
(* until the transaction ends.  A step below is one statement, or several  *)
(* between which nothing another request does can matter.  SQLite runs the *)
(* same transactions one after the other, which is a subset.               *)
(***************************************************************************)
EXTENDS Naturals, Sequences, FiniteSets

CONSTANTS
    Models,     \* models, one per training run
    Requests,   \* requests and jobs served at the same time
    MaxDeploys, \* bound: rows of satsa_ml_deployments
    MaxCalls,   \* bound: operations begun
    None        \* no model

ASSUME NoneAssumption   == None \notin Models \union Requests
ASSUME BoundsAssumption == MaxDeploys \in Nat /\ MaxCalls \in Nat

VARIABLES
    state,    \* satsa_ml_models.state, "none" before registration
    version,  \* satsa_ml_models.version, 0 before registration
    deps,     \* satsa_ml_deployments, in the order of created_at
    lock,     \* the request whose transaction holds the row of a model
    rq,       \* what each request is doing
    calls,    \* operations begun so far
    raced     \* history: deployments that committed under a retirement of their model

vars == <<state, version, deps, lock, rq, calls, raced>>

Transitions ==
    [none        |-> {},
     registered  |-> {"verified", "quarantined"},
     verified    |-> {"approved", "retired"},
     quarantined |-> {"retired"},
     approved    |-> {"retired"},
     retired     |-> {}]

States == DOMAIN Transitions

Idle == [op |-> "none", pc |-> "idle", m |-> None, cur |-> 0, max |-> 0]

Init ==
    /\ state = [m \in Models |-> "none"]
    /\ version = [m \in Models |-> 0]
    /\ deps = <<>>
    /\ lock = [m \in Models |-> None]
    /\ rq = [r \in Requests |-> Idle]
    /\ calls = 0
    /\ raced = {}

----------------------------------------------------------------------------

At(r, pc)   == rq[r].pc = pc
Goto(r, pc) == rq' = [rq EXCEPT ![r].pc = pc]
Answer(r)   == rq' = [rq EXCEPT ![r] = Idle]

ActiveRows == {i \in DOMAIN deps : deps[i].active}

\* active_deployment(): the row with active=1, 0 when there is none.
Active == IF ActiveRows = {} THEN 0 ELSE CHOOSE i \in ActiveRows : TRUE

Registered == {m \in Models : state[m] # "none"}
Latest     == CHOOSE v \in 0 .. Cardinality(Models) :
                 /\ v = 0 \/ \E m \in Models : version[m] = v
                 /\ \A m \in Models : version[m] <= v

\* The latest inactive deployment of an approved model other than the active one.
Restorable(cur) ==
    {i \in DOMAIN deps : ~deps[i].active /\ deps[i].m # deps[cur].m /\ state[deps[i].m] = "approved"}

Previous(cur) ==
    IF Restorable(cur) = {} THEN None
    ELSE deps[CHOOSE i \in Restorable(cur) : \A j \in Restorable(cur) : j <= i].m

\* A retirement of m has found it inactive and has yet to write.
Retiring(m) == \E r \in Requests : rq[r].op = "retire" /\ At(r, "transition") /\ rq[r].m = m

----------------------------------------------------------------------------
(* Deliberate defects, paired in PROJECT.json with what they must break.   *)

\* deploy() locks the row of the model and does not look at its state again.
LockUnchecked(r) ==
    /\ At(r, "lock")
    /\ lock[rq[r].m] = None
    /\ lock' = [lock EXCEPT ![rq[r].m] = r]
    /\ Goto(r, "current")
    /\ UNCHANGED <<state, version, deps, calls, raced>>

\* retire() does not ask whether the model is the active one.
RetireUnchecked(r) ==
    /\ At(r, "retire")
    /\ Goto(r, "transition")
    /\ UNCHANGED <<state, version, deps, lock, calls, raced>>

\* The deactivation takes every active row, not the one that was read.
SwapAll(r) ==
    /\ At(r, "swap")
    /\ Len(deps) < MaxDeploys
    /\ deps' = Append([i \in DOMAIN deps |-> [deps[i] EXCEPT !.active = FALSE]],
                      [m |-> rq[r].m, active |-> TRUE, prev |-> rq[r].cur])
    /\ raced' = raced \union {i \in {Len(deps) + 1} : Retiring(rq[r].m)}
    /\ lock' = [lock EXCEPT ![rq[r].m] = None]
    /\ Answer(r)
    /\ UNCHANGED <<state, version, calls>>

----------------------------------------------------------------------------
(* register(), called by a training job; a job may be executed twice.      *)

Exists(r) ==
    /\ At(r, "exists")
    /\ IF rq[r].m \in Registered THEN Answer(r) ELSE Goto(r, "max")
    /\ UNCHANGED <<state, version, deps, lock, calls, raced>>

ReadMax(r) ==
    /\ At(r, "max")
    /\ rq' = [rq EXCEPT ![r].pc = "store", ![r].max = Latest]
    /\ UNCHANGED <<state, version, deps, lock, calls, raced>>

\* The row, its passport and the verification gate in one transaction; the
\* unique constraints on training run and version refuse the slower one.
Store(r) ==
    /\ At(r, "store")
    /\ LET v == rq[r].max + 1  m == rq[r].m IN
       IF m \in Registered \/ \E n \in Models : version[n] = v
       THEN UNCHANGED <<state, version>>
       ELSE \E gate \in {"verified", "quarantined"} :
               /\ state' = [state EXCEPT ![m] = gate]
               /\ version' = [version EXCEPT ![m] = v]
    /\ Answer(r)
    /\ UNCHANGED <<deps, lock, calls, raced>>

----------------------------------------------------------------------------
(* approve() and retire()                                                  *)

\* transition(): lock the model, check TRANSITIONS, update, commit.
Transit(r, target) ==
    /\ At(r, "transition")
    /\ lock[rq[r].m] = None
    /\ IF target \in Transitions[state[rq[r].m]]
       THEN state' = [state EXCEPT ![rq[r].m] = target]
       ELSE UNCHANGED state
    /\ Answer(r)
    /\ UNCHANGED <<version, deps, lock, calls, raced>>

Approve(r) == rq[r].op = "approve" /\ Transit(r, "approved")

RetireCheck(r) ==
    /\ At(r, "retire")
    /\ IF Active # 0 /\ deps[Active].m = rq[r].m THEN Answer(r) ELSE Goto(r, "transition")
    /\ UNCHANGED <<state, version, deps, lock, calls, raced>>

Retire(r) == rq[r].op = "retire" /\ Transit(r, "retired")

----------------------------------------------------------------------------
(* deploy() and rollback()                                                 *)

\* rollback() reads the active deployment, its target and the target's state,
\* then calls deploy().
RollbackActive(r) ==
    /\ At(r, "rollback")
    /\ IF Active = 0 THEN Answer(r) ELSE rq' = [rq EXCEPT ![r].pc = "target", ![r].cur = Active]
    /\ UNCHANGED <<state, version, deps, lock, calls, raced>>

RollbackTarget(r) ==
    /\ At(r, "target")
    /\ \E m \in {Previous(rq[r].cur)} \union Registered :
          IF m = None \/ m = deps[rq[r].cur].m THEN Answer(r)
          ELSE rq' = [rq EXCEPT ![r].pc = "approved", ![r].m = m, ![r].cur = 0]
    /\ UNCHANGED <<state, version, deps, lock, calls, raced>>

\* The state and the artifact before the transaction; the artifact may fail.
Check(r) ==
    /\ At(r, "approved")
    /\ IF state[rq[r].m] = "approved" THEN Goto(r, "lock") \/ Answer(r) ELSE Answer(r)
    /\ UNCHANGED <<state, version, deps, lock, calls, raced>>

Lock(r) ==
    /\ At(r, "lock")
    /\ lock[rq[r].m] = None
    /\ IF state[rq[r].m] = "approved"
       THEN lock' = [lock EXCEPT ![rq[r].m] = r] /\ Goto(r, "current")
       ELSE UNCHANGED lock /\ Answer(r)
    /\ UNCHANGED <<state, version, deps, calls, raced>>

Current(r) ==
    /\ At(r, "current")
    /\ IF Active # 0 /\ deps[Active].m = rq[r].m
       THEN Answer(r) /\ lock' = [lock EXCEPT ![rq[r].m] = None]
       ELSE rq' = [rq EXCEPT ![r].pc = "swap", ![r].cur = Active] /\ UNCHANGED lock
    /\ UNCHANGED <<state, version, deps, calls, raced>>

\* Deactivate what was read, insert, commit.  idx_satsa_ml_one_active admits one
\* active row: when another deployment committed since, everything is undone.
Swap(r) ==
    /\ At(r, "swap")
    /\ Len(deps) < MaxDeploys
    /\ LET off == [i \in DOMAIN deps |-> [deps[i] EXCEPT !.active = @ /\ i # rq[r].cur]]
       IN deps' = IF ActiveRows \ {rq[r].cur} = {}
                  THEN Append(off, [m |-> rq[r].m, active |-> TRUE, prev |-> rq[r].cur])
                  ELSE deps
    /\ raced' = raced \union {i \in {Len(deps) + 1} : Len(deps') = i /\ Retiring(rq[r].m)}
    /\ lock' = [lock EXCEPT ![rq[r].m] = None]
    /\ Answer(r)
    /\ UNCHANGED <<state, version, calls>>

----------------------------------------------------------------------------

FirstOf == [register |-> "exists", approve |-> "transition", retire |-> "retire",
            deploy |-> "approved", rollback |-> "rollback"]

Begin(r) ==
    /\ At(r, "idle")
    /\ calls < MaxCalls
    /\ calls' = calls + 1
    /\ \E op \in DOMAIN FirstOf :
          \E m \in (CASE op = "register" -> Models [] op = "rollback" -> {None} [] OTHER -> Registered) :
             rq' = [rq EXCEPT ![r] = [Idle EXCEPT !.op = op, !.pc = FirstOf[op], !.m = m]]
    /\ UNCHANGED <<state, version, deps, lock, raced>>

\* The process of the request is lost: its open transaction is rolled back.
Crash(r) ==
    /\ ~At(r, "idle")
    /\ Answer(r)
    /\ lock' = [m \in Models |-> IF lock[m] = r THEN None ELSE lock[m]]
    /\ UNCHANGED <<state, version, deps, calls, raced>>

Step(r) ==
    \/ Exists(r) \/ ReadMax(r) \/ Store(r)
    \/ Approve(r) \/ RetireCheck(r) \/ Retire(r)
    \/ RollbackActive(r) \/ RollbackTarget(r)
    \/ Check(r) \/ Lock(r) \/ Current(r) \/ Swap(r)

Next == \E r \in Requests : Begin(r) \/ Step(r) \/ Crash(r)

Spec == Init /\ [][Next]_vars

----------------------------------------------------------------------------
(* Properties.                                                             *)

\* Every variable keeps its type.
TypeOK ==
    /\ state \in [Models -> States]
    /\ version \in [Models -> Nat]
    /\ deps \in Seq([m : Models, active : BOOLEAN, prev : Nat])
    /\ lock \in [Models -> Requests \union {None}]
    /\ rq \in [Requests -> [op : DOMAIN FirstOf \union {"none"}, pc : STRING,
                            m : Models \union {None}, cur : Nat, max : Nat]]
    /\ calls \in 0 .. MaxCalls
    /\ raced \subseteq DOMAIN deps

\* A deployment commits on a model that is approved at that moment, whatever
\* retirements run beside it (the lock of registry.py:243).
DeploysApprovedOnly ==
    [][\A i \in DOMAIN deps' \ DOMAIN deps : state[deps'[i].m] = "approved"]_vars

\* The active model is approved, except when it became active between the check
\* and the write of a retirement (registry.py:297-302): no other order of
\* approvals, deployments, rollbacks and retirements retires what is in service.
OnlyRacesRetireActive == \A i \in ActiveRows : state[deps[i].m] = "approved" \/ i \in raced

\* The deployment history is one chain: every row names the row that was
\* active until it was written, also when deployments race.
HistoryIsChain == \A i \in DOMAIN deps : deps[i].prev = i - 1

----------------------------------------------------------------------------
(* A claim of the source that the code does not keep.                      *)

\* registry.py:243 and :300: the active model cannot be retired.
ActiveIsApproved == \A i \in ActiveRows : state[deps[i].m] = "approved"
=============================================================================
