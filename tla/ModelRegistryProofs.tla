------------------------ MODULE ModelRegistryProofs ------------------------
(***************************************************************************)
(* Theorems about the ML subsystem: about ModelRegistry for any sets of    *)
(* models and requests and any number of deployments, and about the queue  *)
(* whose jobs register models, MLJobs, for any jobs, workers and attempts. *)
(***************************************************************************)
EXTENDS ModelRegistry, MLJobs, WellFoundedInduction, TLAPS

USE NoneAssumption, BoundsAssumption

(***************************************************************************)
(* A set of naturals with an upper bound has a greatest element: what the  *)
(* CHOOSE of Previous relies on.                                           *)
(***************************************************************************)
LEMMA MaxExists ==
  ASSUME NEW S, NEW n \in Nat, S \subseteq 0..n, S # {}
  PROVE  \E i \in S : \A j \in S : j <= i
<1> DEFINE T == {k \in 0..n : n - k \in S}
<1>1. T \subseteq Nat /\ T # {}
  <2>1. PICK i \in S : TRUE
    OBVIOUS
  <2>2. n - i \in 0..n /\ n - (n - i) = i
    BY <2>1
  <2>3. n - i \in T
    BY <2>2
  <2>4. T \subseteq Nat
    OBVIOUS
  <2> HIDE DEF T
  <2> QED BY <2>3, <2>4
<1>2. PICK x \in T : \A y \in T : ~ (y < x)
  <2> DEFINE R == OpToRel(<, Nat)
  <2> HIDE DEF T
  <2>1. PICK x \in T : \A y \in T : ~ (<<y, x>> \in R)
    <3> HIDE DEF R
    <3>1. IsWellFoundedOn(R, Nat)
      BY NatLessThanWellFounded DEF R
    <3> QED BY <1>1, <3>1, WFMin
  <2> QED BY <1>1, <2>1 DEF OpToRel
<1>3. n - x \in S
  OBVIOUS
<1>4. ASSUME NEW j \in S PROVE j <= n - x
  <2>1. n - j \in 0..n /\ n - (n - j) = j
    OBVIOUS
  <2>2. n - j \in T
    BY <2>1
  <2> QED BY <1>2, <2>2
<1> QED BY <1>3, <1>4

(***************************************************************************)
(* The inductive invariant.                                                *)
(***************************************************************************)
Deployment == [m : Models, active : BOOLEAN, prev : Nat]

RequestPC == {"idle", "exists", "max", "store", "transition", "retire", "rollback", "target",
       "approved", "lock", "current", "swap"}

Record(V) == [op : DOMAIN FirstOf \union {"none"}, pc : RequestPC, m : Models \union {None},
              cur : Nat, max : V]

TypedRequests == \E V : rq \in [Requests -> Record(V)]

Types ==
    /\ state \in [Models -> States]
    /\ deps \in Seq(Deployment)
    /\ lock \in [Models -> Requests \union {None}]
    /\ TypedRequests

\* A request works on a model from its first statement on, rollback from the
\* moment it has found its target.
HasModel ==
    \A r \in Requests : rq[r].pc \notin {"idle", "rollback", "target"} => rq[r].m \in Models

\* The history: the last row is the active one, each names its predecessor.
LastIsActive ==
    /\ \A i \in DOMAIN deps : deps[i].active <=> i = Len(deps)
    /\ \A i \in DOMAIN deps : deps[i].prev = i - 1

\* What a request read of the history is a row, or that there is none.
KnowsRow ==
    \A r \in Requests : /\ rq[r].pc = "target" => rq[r].cur \in DOMAIN deps
                        /\ rq[r].pc = "swap" => rq[r].cur \in DOMAIN deps \union {0}

\* Between its second look at the state and its commit a deployment holds the
\* row of an approved model.
HoldsApproved ==
    \A r \in Requests :
        rq[r].pc \in {"current", "swap"} =>
            lock[rq[r].m] = r /\ state[rq[r].m] = "approved"

Inv == Types /\ HasModel /\ LastIsActive /\ KnowsRow /\ HoldsApproved

(***************************************************************************)
(* What a step does to the requests: one moves, the others stay.           *)
(***************************************************************************)
Others(r) == \A q \in Requests : q # r => rq'[q] = rq[q]

\* Request r moves to pc, with the model and the row it then has.
Moved(r, pc, m, cur) ==
    /\ TypedRequests' /\ Others(r)
    /\ rq'[r].pc = pc /\ rq'[r].m = m /\ rq'[r].cur = cur

LEMMA RecordMoves ==
  ASSUME NEW V, NEW W, rq \in [Requests -> Record(V)], \A x \in Record(V) : x \in Record(W),
         NEW r \in Requests, NEW y \in Record(W), rq' = [rq EXCEPT ![r] = y]
  PROVE  Moved(r, y.pc, y.m, y.cur)
<1>1. rq'[r] = y /\ Others(r) /\ rq' \in [Requests -> Record(W)]
  BY DEF Others
<1> QED BY <1>1 DEF Moved, TypedRequests

LEMMA RequestFields ==
  ASSUME TypedRequests, NEW r \in Requests
  PROVE  /\ rq[r].pc \in RequestPC /\ rq[r].m \in Models \union {None} /\ rq[r].cur \in Nat
         /\ rq[r].op \in DOMAIN FirstOf \union {"none"}
<1> PICK V : rq \in [Requests -> Record(V)]
  BY DEF TypedRequests
<1> QED BY DEF Record

LEMMA GotoMoves ==
  ASSUME TypedRequests, NEW r \in Requests, NEW pc \in RequestPC, Goto(r, pc)
  PROVE  Moved(r, pc, rq[r].m, rq[r].cur)
<1> PICK V : rq \in [Requests -> Record(V)]
  BY DEF TypedRequests
<1> DEFINE y == [rq[r] EXCEPT !.pc = pc]
<1>1. rq' = [rq EXCEPT ![r] = y]
  BY DEF Goto, Answer
<1>2. y \in Record(V) /\ y.pc = pc /\ y.m = rq[r].m /\ y.cur = rq[r].cur
  BY DEF Record, RequestPC, Idle
<1>3. \A x \in Record(V) : x \in Record(V)
  BY DEF Record
<1> HIDE DEF y
<1> QED BY <1>1, <1>2, <1>3, RecordMoves

LEMMA AnswerMoves ==
  ASSUME TypedRequests, NEW r \in Requests, Answer(r)
  PROVE  Moved(r, "idle", None, 0)
<1> PICK V : rq \in [Requests -> Record(V)]
  BY DEF TypedRequests
<1> DEFINE y == Idle
<1>1. rq' = [rq EXCEPT ![r] = y]
  BY DEF Goto, Answer
<1>2. y \in Record(V \union {0}) /\ y.pc = "idle" /\ y.m = None /\ y.cur = 0
  BY DEF Record, RequestPC, Idle
<1>3. \A x \in Record(V) : x \in Record(V \union {0})
  BY DEF Record
<1> HIDE DEF y
<1> QED BY <1>1, <1>2, <1>3, RecordMoves

LEMMA CurMoves ==
  ASSUME TypedRequests, NEW r \in Requests, NEW pc \in RequestPC, NEW cur \in Nat,
         rq' = [rq EXCEPT ![r].pc = pc, ![r].cur = cur]
  PROVE  Moved(r, pc, rq[r].m, cur)
<1> PICK V : rq \in [Requests -> Record(V)]
  BY DEF TypedRequests
<1> DEFINE y == [rq[r] EXCEPT !.pc = pc, !.cur = cur]
<1>1. rq' = [rq EXCEPT ![r] = y]
  BY DEF Goto, Answer
<1>2. y \in Record(V) /\ y.pc = pc /\ y.m = rq[r].m /\ y.cur = cur
  BY DEF Record, RequestPC, Idle
<1>3. \A x \in Record(V) : x \in Record(V)
  BY DEF Record
<1> HIDE DEF y
<1> QED BY <1>1, <1>2, <1>3, RecordMoves

LEMMA TargetMoves ==
  ASSUME TypedRequests, NEW r \in Requests, NEW pc \in RequestPC, NEW m \in Models,
         rq' = [rq EXCEPT ![r].pc = pc, ![r].m = m, ![r].cur = 0]
  PROVE  Moved(r, pc, m, 0)
<1> PICK V : rq \in [Requests -> Record(V)]
  BY DEF TypedRequests
<1> DEFINE y == [rq[r] EXCEPT !.pc = pc, !.m = m, !.cur = 0]
<1>1. rq' = [rq EXCEPT ![r] = y]
  BY DEF Goto, Answer
<1>2. y \in Record(V) /\ y.pc = pc /\ y.m = m /\ y.cur = 0
  BY DEF Record, RequestPC, Idle
<1>3. \A x \in Record(V) : x \in Record(V)
  BY DEF Record
<1> HIDE DEF y
<1> QED BY <1>1, <1>2, <1>3, RecordMoves

LEMMA MaxMoves ==
  ASSUME TypedRequests, NEW r \in Requests, NEW pc \in RequestPC, NEW max,
         rq' = [rq EXCEPT ![r].pc = pc, ![r].max = max]
  PROVE  Moved(r, pc, rq[r].m, rq[r].cur)
<1> PICK V : rq \in [Requests -> Record(V)]
  BY DEF TypedRequests
<1> DEFINE y == [rq[r] EXCEPT !.pc = pc, !.max = max]
<1>1. rq' = [rq EXCEPT ![r] = y]
  BY DEF Goto, Answer
<1>2. y \in Record(V \union {max}) /\ y.pc = pc /\ y.m = rq[r].m /\ y.cur = rq[r].cur
  BY DEF Record, RequestPC, Idle
<1>3. \A x \in Record(V) : x \in Record(V \union {max})
  BY DEF Record
<1> HIDE DEF y
<1> QED BY <1>1, <1>2, <1>3, RecordMoves

LEMMA BeginsMove ==
  ASSUME TypedRequests, NEW r \in Requests, NEW op \in DOMAIN FirstOf, NEW pc \in RequestPC,
         NEW m \in Models \union {None},
         rq' = [rq EXCEPT ![r] = [Idle EXCEPT !.op = op, !.pc = pc, !.m = m]]
  PROVE  Moved(r, pc, m, 0)
<1> PICK V : rq \in [Requests -> Record(V)]
  BY DEF TypedRequests
<1> DEFINE y == [Idle EXCEPT !.op = op, !.pc = pc, !.m = m]
<1>1. rq' = [rq EXCEPT ![r] = y]
  BY DEF Goto, Answer
<1>2. y \in Record(V \union {0}) /\ y.pc = pc /\ y.m = m /\ y.cur = 0
  BY DEF Record, RequestPC, Idle
<1>3. \A x \in Record(V) : x \in Record(V \union {0})
  BY DEF Record
<1> HIDE DEF y
<1> QED BY <1>1, <1>2, <1>3, RecordMoves

(***************************************************************************)
(* The kinds of steps.                                                     *)
(***************************************************************************)

\* A move that writes no row and no lock.
Still(r) ==
    /\ UNCHANGED <<state, deps, lock>>
    /\ \/ rq'[r].pc \in {"idle", "rollback"}
       \/ rq'[r].pc = "target" /\ rq'[r].cur \in DOMAIN deps
       \/ /\ rq'[r].pc \in {"exists", "max", "store", "transition", "retire", "approved", "lock"}
          /\ rq'[r].m \in Models
       \/ /\ rq[r].pc = "current" /\ rq'[r].pc = "swap"
          /\ rq'[r].m = rq[r].m /\ rq'[r].cur \in DOMAIN deps \union {0}

\* A transaction ends without effect, its lock, if any, is given back.
Releases(r) ==
    /\ UNCHANGED <<state, deps>> /\ rq'[r].pc = "idle"
    /\ lock' \in [Models -> Requests \union {None}]
    /\ \A m \in Models : lock'[m] = lock[m] \/ lock[m] = r

\* The state of a model changes that nobody holds, or that was not there.
Transits(r) ==
    /\ UNCHANGED <<deps, lock>> /\ rq'[r].pc = "idle" /\ rq[r].m \in Models
    /\ \E s \in States :
          /\ state[rq[r].m] = "none" \/ lock[rq[r].m] = None
          /\ state' = [state EXCEPT ![rq[r].m] = s]

Locks(r) ==
    /\ UNCHANGED <<state, deps>>
    /\ rq'[r].pc = "current" /\ rq'[r].m = rq[r].m /\ rq[r].m \in Models
    /\ lock[rq[r].m] = None /\ lock' = [lock EXCEPT ![rq[r].m] = r]
    /\ state[rq[r].m] = "approved"

Effect(r) ==
    /\ TypedRequests' /\ Others(r)
    /\ Still(r) \/ Releases(r) \/ Transits(r) \/ Locks(r) \/ Swap(r)

LEMMA ActiveIsLast ==
  ASSUME Types, LastIsActive
  PROVE  /\ ActiveRows = DOMAIN deps \intersect {Len(deps)}
         /\ Active = Len(deps)
         /\ DOMAIN deps = 1 .. Len(deps) /\ Len(deps) \in Nat
<1>1. DOMAIN deps = 1 .. Len(deps) /\ Len(deps) \in Nat
  BY DEF Types
<1>2. ActiveRows = DOMAIN deps \intersect {Len(deps)}
  BY DEF ActiveRows, LastIsActive
<1>3. Active = Len(deps)
  BY <1>1, <1>2 DEF Active
<1> QED BY <1>1, <1>2, <1>3

LEMMA PreviousType ==
  ASSUME Types, LastIsActive, NEW cur \in DOMAIN deps, Previous(cur) # None
  PROVE  Previous(cur) \in Models
<1> DEFINE S == Restorable(cur)
<1>1. S \subseteq DOMAIN deps /\ S # {} /\ DOMAIN deps = 1 .. Len(deps) /\ Len(deps) \in Nat
  BY ActiveIsLast DEF Previous, Restorable
<1>2. \E i \in S : \A j \in S : j <= i
  <2> HIDE DEF S
  <2>1. S \subseteq 0 .. Len(deps)
    BY <1>1
  <2> QED BY <1>1, <2>1, MaxExists
<1>3. (CHOOSE i \in S : \A j \in S : j <= i) \in DOMAIN deps
  BY <1>1, <1>2
<1> DEFINE k == CHOOSE i \in S : \A j \in S : j <= i
<1>4. Previous(cur) = deps[k].m
  BY <1>1 DEF Previous
<1>5. deps[k] \in Deployment
  <2> HIDE DEF k, S
  <2> QED BY <1>3 DEF Types, k
<1> QED
  <2> HIDE DEF k
  <2> QED BY <1>4, <1>5 DEF Deployment

LEMMA BeginMoves ==
  ASSUME TypedRequests, NEW r \in Requests, Begin(r)
  PROVE  /\ TypedRequests' /\ Others(r)
         /\ rq'[r].pc \in {"exists", "transition", "retire", "approved", "rollback"}
         /\ rq'[r].pc # "rollback" => rq'[r].m \in Models
<1>1. PICK op \in DOMAIN FirstOf :
         \E m \in (CASE op = "register" -> Models [] op = "rollback" -> {None} [] OTHER -> Registered) :
             rq' = [rq EXCEPT ![r] = [Idle EXCEPT !.op = op, !.pc = FirstOf[op], !.m = m]]
  BY DEF Begin
<1>2. PICK m \in Models \union {None} :
         /\ op # "rollback" => m \in Models
         /\ rq' = [rq EXCEPT ![r] = [Idle EXCEPT !.op = op, !.pc = FirstOf[op], !.m = m]]
  <2>1. \A x : x \in (CASE op = "register" -> Models [] op = "rollback" -> {None} [] OTHER -> Registered)
               => x \in Models \union {None} /\ (op # "rollback" => x \in Models)
    BY DEF Registered
  <2> QED BY <1>1, <2>1
<1>3. FirstOf[op] \in {"exists", "transition", "retire", "approved", "rollback"}
      /\ (op = "rollback" => FirstOf[op] = "rollback")
      /\ FirstOf[op] \in RequestPC
  BY DEF FirstOf, RequestPC
<1>4. Moved(r, FirstOf[op], m, 0)
  BY <1>2, <1>3, BeginsMove
<1>5. FirstOf[op] # "rollback" => m \in Models
  BY <1>2, <1>3
<1> QED BY <1>3, <1>4, <1>5 DEF Moved

LEMMA StepEffect ==
  ASSUME Inv, Next
  PROVE  \E r \in Requests : Effect(r)
<1> USE DEF At, Inv, Types, RequestPC
<1>0. ASSUME NEW r \in Requests, rq[r].pc \notin {"idle", "rollback", "target"}
      PROVE  rq[r].m \in Models
  BY <1>0 DEF HasModel
<1>1. ASSUME NEW r \in Requests, Begin(r) PROVE Effect(r)
  BY <1>0, <1>1, BeginMoves DEF Begin, Effect, Moved, Still
<1>2. ASSUME NEW r \in Requests, Exists(r) PROVE Effect(r)
  BY <1>0, <1>2, GotoMoves, AnswerMoves DEF Exists, Effect, Moved, Still
<1>3. ASSUME NEW r \in Requests, ReadMax(r) PROVE Effect(r)
  BY <1>0, <1>3, MaxMoves DEF ReadMax, Effect, Moved, Still
<1>4. ASSUME NEW r \in Requests, Store(r) PROVE Effect(r)
  BY <1>0, <1>4, GotoMoves, AnswerMoves DEF Store, Effect, Moved, Transits, Still, Registered, States, Transitions
<1>5. ASSUME NEW r \in Requests, Approve(r) PROVE Effect(r)
  BY <1>0, <1>5, GotoMoves, AnswerMoves DEF Approve, Effect, Moved, Transit, Transits, Still, States, Transitions
<1>6. ASSUME NEW r \in Requests, RetireCheck(r) PROVE Effect(r)
  BY <1>0, <1>6, GotoMoves, AnswerMoves DEF RetireCheck, Effect, Moved, Still
<1>7. ASSUME NEW r \in Requests, Retire(r) PROVE Effect(r)
  BY <1>0, <1>7, GotoMoves, AnswerMoves DEF Retire, Effect, Moved, Transit, Transits, Still, States, Transitions
<1>8. ASSUME NEW r \in Requests, RollbackActive(r) PROVE Effect(r)
  <2>1. Active \in Nat /\ (Active # 0 => Active \in DOMAIN deps)
    BY ActiveIsLast
  <2>2. CASE Answer(r)
    BY <1>8, <2>2, AnswerMoves DEF RollbackActive, Effect, Moved, Still
  <2>3. CASE Active # 0 /\ rq' = [rq EXCEPT ![r].pc = "target", ![r].cur = Active]
    <3>1. Moved(r, "target", rq[r].m, Active)
      BY <2>1, <2>3, CurMoves
    <3> QED BY <1>8, <2>1, <2>3, <3>1 DEF RollbackActive, Effect, Moved, Still
  <2> QED BY <1>8, <2>2, <2>3 DEF RollbackActive
<1>9. ASSUME NEW r \in Requests, RollbackTarget(r) PROVE Effect(r)
  <2>1. CASE Answer(r)
    BY <1>9, <2>1, AnswerMoves DEF RollbackTarget, Effect, Moved, Still
  <2>2. CASE ~ Answer(r)
    <3>1. PICK m \in {Previous(rq[r].cur)} \union Registered :
             m # None /\ rq' = [rq EXCEPT ![r].pc = "approved", ![r].m = m, ![r].cur = 0]
      BY <1>9, <2>2 DEF RollbackTarget
    <3>2. m \in Models
      BY <1>9, <3>1, PreviousType DEF RollbackTarget, Registered, KnowsRow
    <3>3. Moved(r, "approved", m, 0)
      BY <3>1, <3>2, TargetMoves
    <3> QED BY <1>9, <3>2, <3>3 DEF RollbackTarget, Effect, Moved, Still
  <2> QED BY <2>1, <2>2
<1>10. ASSUME NEW r \in Requests, Check(r) PROVE Effect(r)
  BY <1>0, <1>10, GotoMoves, AnswerMoves DEF Check, Effect, Moved, Still
<1>11. ASSUME NEW r \in Requests, Lock(r) PROVE Effect(r)
  BY <1>0, <1>11, GotoMoves, AnswerMoves DEF Lock, Effect, Moved, Locks, Still
<1>12. ASSUME NEW r \in Requests, Current(r) PROVE Effect(r)
  <2>1. Active \in Nat /\ (Active # 0 => Active \in DOMAIN deps)
    BY ActiveIsLast
  <2>2. CASE Answer(r) /\ lock' = [lock EXCEPT ![rq[r].m] = None]
    BY <1>0, <1>12, <2>2, AnswerMoves DEF Current, Effect, Moved, Releases, HoldsApproved
  <2>3. CASE rq' = [rq EXCEPT ![r].pc = "swap", ![r].cur = Active] /\ UNCHANGED lock
    <3>1. Moved(r, "swap", rq[r].m, Active)
      BY <2>1, <2>3, CurMoves
    <3> QED BY <1>12, <2>1, <2>3, <3>1 DEF Current, Effect, Moved, Still
  <2> QED BY <1>12, <2>2, <2>3 DEF Current
<1>13. ASSUME NEW r \in Requests, Swap(r) PROVE Effect(r)
  BY <1>0, <1>13, AnswerMoves DEF Swap, Effect, Moved
<1>14. ASSUME NEW r \in Requests, Crash(r) PROVE Effect(r)
  BY <1>0, <1>14, GotoMoves, AnswerMoves DEF Crash, Effect, Moved, Releases
<1> QED BY <1>1, <1>2, <1>3, <1>4, <1>5, <1>6, <1>7, <1>8, <1>9, <1>10, <1>11, <1>12, <1>13, <1>14 DEF Next, Step

(***************************************************************************)
(* What a swap does to the history: nothing, or it appends a row that names*)
(* the last one and takes the place of it.                                 *)
(***************************************************************************)
Extends(r) ==
    /\ DOMAIN deps' = 1 .. Len(deps) + 1 /\ Len(deps') = Len(deps) + 1
    /\ deps' \in Seq(Deployment)
    /\ \A i \in DOMAIN deps : /\ deps'[i].m = deps[i].m /\ deps'[i].prev = deps[i].prev
                              /\ ~ deps'[i].active
    /\ deps'[Len(deps) + 1] = [m |-> rq[r].m, active |-> TRUE, prev |-> Len(deps)]

LEMMA SwapExtends ==
  ASSUME Inv, NEW r \in Requests, Swap(r)
  PROVE  deps' = deps \/ Extends(r)
<1> DEFINE off == [i \in DOMAIN deps |-> [deps[i] EXCEPT !.active = @ /\ i # rq[r].cur]]
           row == [m |-> rq[r].m, active |-> TRUE, prev |-> rq[r].cur]
<1>1. SUFFICES ASSUME ActiveRows \ {rq[r].cur} = {}, deps' = Append(off, row)
               PROVE  Extends(r)
  BY DEF Swap
<1>2. /\ ActiveRows = DOMAIN deps \intersect {Len(deps)}
      /\ DOMAIN deps = 1 .. Len(deps) /\ Len(deps) \in Nat
  BY ActiveIsLast DEF Inv
<1>3. rq[r].cur \in DOMAIN deps \union {0} /\ rq[r].m \in Models
  BY DEF Swap, At, Inv, KnowsRow, HasModel
<1>4. rq[r].cur = Len(deps)
  BY <1>1, <1>2, <1>3
<1>5. /\ DOMAIN off = 1 .. Len(deps)
      /\ \A i \in DOMAIN deps : /\ off[i] \in Deployment
                                /\ off[i].m = deps[i].m /\ off[i].prev = deps[i].prev
                                /\ off[i].active = (deps[i].active /\ i # rq[r].cur)
  <2>1. ASSUME NEW i \in DOMAIN deps
        PROVE  /\ off[i] \in Deployment
               /\ off[i].m = deps[i].m /\ off[i].prev = deps[i].prev
               /\ off[i].active = (deps[i].active /\ i # rq[r].cur)
    <3>1. deps[i] \in Deployment
      BY DEF Inv, Types
    <3> QED BY <3>1 DEF Deployment
  <2> QED BY <1>2, <2>1
<1>6. off \in Seq(Deployment) /\ Len(off) = Len(deps)
  <2> HIDE DEF off
  <2>1. off \in [1 .. Len(deps) -> Deployment]
    <3>1. off = [i \in 1 .. Len(deps) |-> off[i]]
      BY <1>2 DEF off
    <3> QED BY <1>2, <1>5, <3>1
  <2> QED BY <1>2, <2>1
<1>7. row \in Deployment
  BY <1>2, <1>3, <1>4 DEF Deployment
<1>8. \A i \in DOMAIN deps : ~ off[i].active
  BY <1>2, <1>4, <1>5 DEF Inv, LastIsActive
<1>9. row = [m |-> rq[r].m, active |-> TRUE, prev |-> Len(deps)]
  BY <1>4
<1> HIDE DEF off, row
<1>10. /\ deps' \in Seq(Deployment) /\ Len(deps') = Len(deps) + 1
       /\ DOMAIN deps' = 1 .. Len(deps) + 1
       /\ \A i \in DOMAIN deps : deps'[i] = off[i]
       /\ deps'[Len(deps) + 1] = row
  BY <1>1, <1>2, <1>6, <1>7
<1> QED BY <1>2, <1>5, <1>8, <1>9, <1>10 DEF Extends

(***************************************************************************)
(* Each part of the invariant is kept.                                     *)
(***************************************************************************)
LEMMA InitInv == Init => Inv
<1> SUFFICES ASSUME Init PROVE Inv
  OBVIOUS
<1>1. Idle \in Record({0})
  BY DEF Idle, Record, RequestPC
<1>2. TypedRequests
  BY <1>1 DEF Init, TypedRequests
<1>3. Types
  BY <1>2 DEF Init, Types, States, Transitions
<1> QED BY <1>3 DEF Init, Inv, HasModel, LastIsActive, KnowsRow, HoldsApproved, Idle

LEMMA TypesKept ==
  ASSUME Inv, NEW r \in Requests, Effect(r)
  PROVE  Types'
<1>1. TypedRequests'
  BY DEF Effect
<1>2. CASE Still(r)
  BY <1>1, <1>2 DEF Still, Inv, Types
<1>3. CASE Releases(r)
  BY <1>1, <1>3 DEF Releases, Inv, Types
<1>4. CASE Transits(r)
  BY <1>1, <1>4 DEF Transits, Inv, Types
<1>5. CASE Locks(r)
  BY <1>1, <1>5 DEF Locks, Inv, Types
<1>6. CASE Swap(r)
  <2>1. deps' \in Seq(Deployment)
    BY <1>6, SwapExtends DEF Extends, Inv, Types
  <2> QED BY <1>1, <1>6, <2>1 DEF Swap, Inv, Types
<1> QED BY <1>2, <1>3, <1>4, <1>5, <1>6 DEF Effect

LEMMA HasModelKept ==
  ASSUME Inv, NEW r \in Requests, Effect(r)
  PROVE  HasModel'
<1>1. rq'[r].pc \notin {"idle", "rollback", "target"} => rq'[r].m \in Models
  <2>1. CASE Swap(r)
    <3>1. Moved(r, "idle", None, 0)
      BY <2>1, AnswerMoves DEF Swap, Inv, Types
    <3> QED BY <3>1 DEF Moved
  <2> QED BY <2>1 DEF Effect, Still, Releases, Transits, Locks, Inv, HasModel
<1> QED BY <1>1 DEF Effect, Others, Inv, HasModel

LEMMA LastIsActiveKept ==
  ASSUME Inv, NEW r \in Requests, Effect(r)
  PROVE  LastIsActive'
<1>1. CASE deps' = deps
  BY <1>1 DEF Inv, LastIsActive
<1>2. CASE Extends(r)
  <2>1. DOMAIN deps = 1 .. Len(deps) /\ Len(deps) \in Nat
    BY ActiveIsLast DEF Inv
  <2>2. \A i \in DOMAIN deps' : i \in DOMAIN deps \/ i = Len(deps) + 1
    BY <1>2, <2>1 DEF Extends
  <2> QED BY <1>2, <2>1, <2>2 DEF Extends, Inv, LastIsActive
<1> QED BY <1>1, <1>2, SwapExtends DEF Effect, Still, Releases, Transits, Locks

LEMMA KnowsRowKept ==
  ASSUME Inv, NEW r \in Requests, Effect(r)
  PROVE  KnowsRow'
<1>1. \A i \in DOMAIN deps : i \in DOMAIN deps'
  <2>1. deps' = deps \/ Extends(r)
    BY SwapExtends DEF Effect, Still, Releases, Transits, Locks
  <2>2. DOMAIN deps = 1 .. Len(deps) /\ Len(deps) \in Nat
    BY ActiveIsLast DEF Inv
  <2> QED BY <2>1, <2>2 DEF Extends
<1>2. /\ rq'[r].pc = "target" => rq'[r].cur \in DOMAIN deps
      /\ rq'[r].pc = "swap" => rq'[r].cur \in DOMAIN deps \union {0}
  <2>1. CASE Swap(r)
    <3>1. Moved(r, "idle", None, 0)
      BY <2>1, AnswerMoves DEF Swap, Inv, Types
    <3> QED BY <3>1 DEF Moved
  <2> QED BY <2>1 DEF Effect, Still, Releases, Transits, Locks
<1> QED BY <1>1, <1>2 DEF Effect, Others, Inv, KnowsRow

LEMMA HoldsApprovedKept ==
  ASSUME Inv, NEW r \in Requests, Effect(r)
  PROVE  HoldsApproved'
<1>1. rq'[r].pc \in {"current", "swap"} =>
         lock'[rq'[r].m] = r /\ state'[rq'[r].m] = "approved"
  <2>1. CASE Swap(r)
    <3>1. Moved(r, "idle", None, 0)
      BY <2>1, AnswerMoves DEF Swap, Inv, Types
    <3> QED BY <3>1 DEF Moved
  <2>2. CASE Locks(r)
    BY <2>2 DEF Locks, Inv, Types
  <2> QED BY <2>1, <2>2 DEF Effect, Still, Releases, Transits, Inv, HoldsApproved
<1>2. ASSUME NEW q \in Requests, q # r, rq[q].pc \in {"current", "swap"}
      PROVE  lock'[rq[q].m] = q /\ state'[rq[q].m] = "approved"
  <2>1. lock[rq[q].m] = q /\ state[rq[q].m] = "approved" /\ rq[q].m \in Models /\ q # None
    BY <1>2 DEF Inv, HoldsApproved, HasModel
  <2>2. CASE Still(r)
    BY <2>1, <2>2 DEF Still
  <2>3. CASE Releases(r)
    BY <1>2, <2>1, <2>3 DEF Releases
  <2>4. CASE Transits(r)
    BY <2>1, <2>4 DEF Transits, Inv, Types
  <2>5. CASE Locks(r)
    BY <2>1, <2>5 DEF Locks, Inv, Types
  <2>6. CASE Swap(r)
    <3>1. lock[rq[r].m] = r
      BY <2>6 DEF Swap, At, Inv, HoldsApproved
    <3> QED BY <1>2, <2>1, <2>6, <3>1 DEF Swap, Inv, Types
  <2> QED BY <2>2, <2>3, <2>4, <2>5, <2>6 DEF Effect
<1> QED BY <1>1, <1>2 DEF Effect, Others, HoldsApproved

LEMMA InvKept == Inv /\ [Next]_vars => Inv'
<1> SUFFICES ASSUME Inv, [Next]_vars PROVE Inv'
  OBVIOUS
<1>1. CASE Next
  <2>1. PICK r \in Requests : Effect(r)
    BY <1>1, StepEffect
  <2> QED BY <2>1, TypesKept, HasModelKept, LastIsActiveKept, KnowsRowKept, HoldsApprovedKept DEF Inv
<1>2. CASE UNCHANGED vars
  BY <1>2 DEF vars, Inv, Types, TypedRequests, HasModel, LastIsActive, KnowsRow, HoldsApproved
<1> QED BY <1>1, <1>2

LEMMA AlwaysInv == Spec => []Inv
  BY InitInv, InvKept, PTL DEF Spec

(***************************************************************************)
(* The theorems.                                                           *)
(***************************************************************************)

\* The deployment history of registry.py is one chain, also when deployments
\* race: the unique index on the active row undoes the transaction of every
\* deployment but the one that read the row it replaces.
THEOREM OneHistory == Spec => []HistoryIsChain
<1>1. Inv => HistoryIsChain
  BY DEF Inv, LastIsActive, HistoryIsChain
<1> QED BY <1>1, AlwaysInv, PTL

\* A deployment commits on a model that is approved at that moment: its second
\* look at the state is under the row lock that a retirement has to take.
THEOREM DeploysTheApproved == Spec => DeploysApprovedOnly
<1>1. ASSUME Inv, [Next]_vars, NEW i \in DOMAIN deps' \ DOMAIN deps
      PROVE  state[deps'[i].m] = "approved"
  <2>1. deps' # deps
    OBVIOUS
  <2>2. PICK r \in Requests : Effect(r)
    BY <1>1, <2>1, StepEffect DEF vars
  <2>3. Swap(r) /\ Extends(r)
    BY <1>1, <2>1, <2>2, SwapExtends DEF Effect, Still, Releases, Transits, Locks
  <2>4. i = Len(deps) + 1
    BY <1>1, <2>3, ActiveIsLast DEF Extends, Inv
  <2>5. state[rq[r].m] = "approved"
    BY <1>1, <2>3 DEF Swap, At, Inv, HoldsApproved
  <2> QED BY <2>3, <2>4, <2>5 DEF Extends
<1>2. Inv /\ [Next]_vars => [\A i \in DOMAIN deps' \ DOMAIN deps : state[deps'[i].m] = "approved"]_vars
  BY <1>1
<1> QED BY <1>2, AlwaysInv, PTL DEF Spec, DeploysApprovedOnly

(***************************************************************************)
(* Retirements of the active model.  What a retirement that is about to    *)
(* write knows: its model was not the active one when it looked, so if it  *)
(* is now, the deployment committed under the retirement.                  *)
(***************************************************************************)
Knows(q) == rq[q].op = "retire" /\ rq[q].pc = "transition" =>
                \A i \in ActiveRows : deps[i].m = rq[q].m => i \in raced

RaceInv == OnlyRacesRetireActive /\ \A q \in Requests : Knows(q)

\* A step of request r, as far as retirements are concerned.
Races(r) ==
    /\ Others(r)
    /\ rq'[r].op = "retire" /\ rq'[r].pc = "transition" =>
          deps' = deps /\ \A i \in ActiveRows : deps[i].m # rq'[r].m
    /\ \/ /\ UNCHANGED <<deps, raced>>
          /\ \A m \in Models : state[m] = "approved" =>
                state'[m] = "approved" \/ (m = rq[r].m /\ rq[r].op = "retire" /\ rq[r].pc = "transition")
       \/ Swap(r)

LEMMA TransitRaces ==
  ASSUME Inv, NEW r \in Requests, NEW target \in {"approved", "retired"}, Transit(r, target),
         rq[r].op = (IF target = "approved" THEN "approve" ELSE "retire")
  PROVE  Races(r)
<1>1. Moved(r, "idle", None, 0) /\ rq[r].pc = "transition" /\ UNCHANGED <<deps, raced>>
  BY AnswerMoves DEF Transit, At, Inv, Types
<1>2. ASSUME NEW m \in Models, state[m] = "approved"
      PROVE  state'[m] = "approved" \/ (m = rq[r].m /\ rq[r].op = "retire")
  <2>1. state \in [Models -> States]
    BY DEF Inv, Types
  <2>2. CASE state' = state
    BY <1>2, <2>2
  <2>3. CASE state' = [state EXCEPT ![rq[r].m] = target]
    <3>1. CASE m = rq[r].m
      BY <2>1, <2>3, <3>1
    <3>2. CASE m # rq[r].m
      BY <1>2, <2>1, <2>3, <3>2
    <3> QED BY <3>1, <3>2
  <2> QED BY <2>2, <2>3 DEF Transit
<1> QED BY <1>1, <1>2 DEF Races, Moved

LEMMA StepRaces ==
  ASSUME Inv, Next
  PROVE  \E r \in Requests : Races(r)
<1> USE DEF At, Inv, Types, RequestPC
<1> DEFINE Quiet == UNCHANGED <<state, deps, raced>>
<1>0. ASSUME NEW r \in Requests, NEW pc \in RequestPC \ {"transition"}, NEW m, NEW cur, Moved(r, pc, m, cur), Quiet
      PROVE  Races(r)
  BY <1>0 DEF Races, Moved
<1>1. ASSUME NEW r \in Requests, Begin(r) PROVE Races(r)
  <2>1. PICK op \in DOMAIN FirstOf :
           \E m \in (CASE op = "register" -> Models [] op = "rollback" -> {None} [] OTHER -> Registered) :
               rq' = [rq EXCEPT ![r] = [Idle EXCEPT !.op = op, !.pc = FirstOf[op], !.m = m]]
    BY <1>1 DEF Begin
  <2>2. PICK m : rq' = [rq EXCEPT ![r] = [Idle EXCEPT !.op = op, !.pc = FirstOf[op], !.m = m]]
    BY <2>1
  <2>3. PICK V : rq \in [Requests -> Record(V)]
    BY DEF TypedRequests
  <2>4. rq'[r].op = op /\ rq'[r].pc = FirstOf[op] /\ Others(r)
    BY <2>2, <2>3 DEF Idle, Others
  <2>5. ~(op = "retire" /\ FirstOf[op] = "transition")
    BY DEF FirstOf
  <2> QED BY <1>1, <2>4, <2>5 DEF Begin, Races
<1>2. ASSUME NEW r \in Requests, Exists(r) PROVE Races(r)
  BY <1>0, <1>2, GotoMoves, AnswerMoves DEF Exists
<1>3. ASSUME NEW r \in Requests, ReadMax(r) PROVE Races(r)
  BY <1>0, <1>3, MaxMoves DEF ReadMax
<1>4. ASSUME NEW r \in Requests, Store(r) PROVE Races(r)
  <2>1. Moved(r, "idle", None, 0) /\ UNCHANGED <<deps, raced>>
    BY <1>4, AnswerMoves DEF Store
  <2>2. \/ UNCHANGED state
        \/ rq[r].m \notin Registered /\ \E gate : state' = [state EXCEPT ![rq[r].m] = gate]
    BY <1>4 DEF Store
  <2>3. \A m \in Models : state[m] = "approved" => state'[m] = "approved"
    BY <2>2 DEF Registered
  <2> QED BY <2>1, <2>3 DEF Races, Moved
<1>5. ASSUME NEW r \in Requests, Approve(r) PROVE Races(r)
  BY <1>5, TransitRaces DEF Approve
<1>6. ASSUME NEW r \in Requests, RetireCheck(r) PROVE Races(r)
  <2>1. CASE Answer(r)
    BY <1>0, <1>6, <2>1, AnswerMoves DEF RetireCheck
  <2>2. CASE ~ Answer(r)
    <3>1. Goto(r, "transition") /\ Quiet /\ ~(Active # 0 /\ deps[Active].m = rq[r].m)
      BY <1>6, <2>2 DEF RetireCheck
    <3>2. Moved(r, "transition", rq[r].m, rq[r].cur)
      BY <3>1, GotoMoves
    <3>3. \A i \in ActiveRows : i = Active /\ Active # 0
      BY ActiveIsLast
    <3> QED BY <3>1, <3>2, <3>3 DEF Races, Moved
  <2> QED BY <2>1, <2>2
<1>7. ASSUME NEW r \in Requests, Retire(r) PROVE Races(r)
  BY <1>7, TransitRaces DEF Retire
<1>8. ASSUME NEW r \in Requests, RollbackActive(r) PROVE Races(r)
  <2>1. Active \in Nat
    BY ActiveIsLast
  <2>2. CASE Answer(r)
    BY <1>0, <1>8, <2>2, AnswerMoves DEF RollbackActive
  <2>3. CASE rq' = [rq EXCEPT ![r].pc = "target", ![r].cur = Active]
    <3>1. Moved(r, "target", rq[r].m, Active)
      BY <2>1, <2>3, CurMoves
    <3> QED BY <1>0, <1>8, <3>1 DEF RollbackActive
  <2> QED BY <1>8, <2>2, <2>3 DEF RollbackActive
<1>9. ASSUME NEW r \in Requests, RollbackTarget(r) PROVE Races(r)
  <2>1. CASE Answer(r)
    BY <1>0, <1>9, <2>1, AnswerMoves DEF RollbackTarget
  <2>2. CASE ~ Answer(r)
    <3>1. PICK m \in {Previous(rq[r].cur)} \union Registered :
             m # None /\ rq' = [rq EXCEPT ![r].pc = "approved", ![r].m = m, ![r].cur = 0]
      BY <1>9, <2>2 DEF RollbackTarget
    <3>2. m \in Models
      BY <1>9, <3>1, PreviousType DEF RollbackTarget, Registered, KnowsRow
    <3>3. Moved(r, "approved", m, 0)
      BY <3>1, <3>2, TargetMoves
    <3> QED BY <1>0, <1>9, <3>3 DEF RollbackTarget
  <2> QED BY <2>1, <2>2
<1>10. ASSUME NEW r \in Requests, Check(r) PROVE Races(r)
  BY <1>0, <1>10, GotoMoves, AnswerMoves DEF Check
<1>11. ASSUME NEW r \in Requests, Lock(r) PROVE Races(r)
  BY <1>0, <1>11, GotoMoves, AnswerMoves DEF Lock
<1>12. ASSUME NEW r \in Requests, Current(r) PROVE Races(r)
  <2>1. Active \in Nat
    BY ActiveIsLast
  <2>2. CASE Answer(r)
    BY <1>0, <1>12, <2>2, AnswerMoves DEF Current
  <2>3. CASE rq' = [rq EXCEPT ![r].pc = "swap", ![r].cur = Active]
    <3>1. Moved(r, "swap", rq[r].m, Active)
      BY <2>1, <2>3, CurMoves
    <3> QED BY <1>0, <1>12, <3>1 DEF Current
  <2> QED BY <1>12, <2>2, <2>3 DEF Current
<1>13. ASSUME NEW r \in Requests, Swap(r) PROVE Races(r)
  <2>1. Moved(r, "idle", None, 0)
    BY <1>13, AnswerMoves DEF Swap
  <2> QED BY <1>13, <2>1 DEF Races, Moved
<1>14. ASSUME NEW r \in Requests, Crash(r) PROVE Races(r)
  BY <1>0, <1>14, AnswerMoves DEF Crash
<1> QED BY <1>1, <1>2, <1>3, <1>4, <1>5, <1>6, <1>7, <1>8, <1>9, <1>10, <1>11, <1>12, <1>13, <1>14 DEF Next, Step

LEMMA RaceKept ==
  ASSUME Inv, RaceInv, NEW r \in Requests, Races(r)
  PROVE  RaceInv'
<1>0. /\ \A i \in DOMAIN deps : deps[i].m \in Models
      /\ ActiveRows \subseteq DOMAIN deps
  <2>1. ASSUME NEW i \in DOMAIN deps PROVE deps[i].m \in Models
    <3>1. deps[i] \in Deployment
      BY DEF Inv, Types
    <3> QED BY <3>1 DEF Deployment
  <2> QED BY <2>1 DEF ActiveRows
<1>1. CASE UNCHANGED <<deps, raced>>
  <2>1. ActiveRows' = ActiveRows
    BY <1>1 DEF ActiveRows
  <2>2. ASSUME NEW i \in ActiveRows PROVE state'[deps[i].m] = "approved" \/ i \in raced
    <3>1. i \in raced \/ state[deps[i].m] = "approved"
      BY <2>2 DEF RaceInv, OnlyRacesRetireActive
    <3>2. CASE state[deps[i].m] = "approved" /\ state'[deps[i].m] # "approved"
      <4>1. CASE Swap(r)
        BY <3>2, <4>1 DEF Swap
      <4>2. CASE ~ Swap(r)
        <5>1. deps[i].m = rq[r].m /\ rq[r].op = "retire" /\ rq[r].pc = "transition"
          BY <1>0, <2>2, <3>2, <4>2 DEF Races
        <5> QED BY <2>2, <5>1 DEF RaceInv, Knows
      <4> QED BY <4>1, <4>2
    <3> QED BY <3>1, <3>2
  <2>3. ASSUME NEW q \in Requests PROVE Knows(q)'
    <3>1. CASE q = r
      BY <1>1, <2>1, <3>1 DEF Races, Knows
    <3>2. CASE q # r
      BY <1>1, <2>1, <3>2 DEF Races, Others, RaceInv, Knows
    <3> QED BY <3>1, <3>2
  <2> QED BY <1>1, <2>1, <2>2, <2>3 DEF RaceInv, OnlyRacesRetireActive
<1>2. CASE Swap(r) /\ Extends(r)
  <2>1. /\ DOMAIN deps = 1 .. Len(deps) /\ Len(deps) \in Nat
    BY ActiveIsLast DEF Inv
  <2>2. ActiveRows' \subseteq {Len(deps) + 1}
    BY <1>2, <2>1 DEF Extends, ActiveRows
  <2>3. deps'[Len(deps) + 1].m = rq[r].m /\ Len(deps') = Len(deps) + 1
    BY <1>2 DEF Extends
  <2>4. state'[rq[r].m] = "approved"
    BY <1>2 DEF Swap, At, Inv, HoldsApproved
  <2>5. Retiring(rq[r].m) => Len(deps) + 1 \in raced'
    BY <1>2, <2>3 DEF Swap
  <2>6. ASSUME NEW q \in Requests, rq'[q].op = "retire", rq'[q].pc = "transition", rq'[q].m = rq[r].m
        PROVE  Len(deps) + 1 \in raced'
    <3>1. q # r
      <4>1. Moved(r, "idle", None, 0)
        BY <1>2, AnswerMoves DEF Swap, Inv, Types
      <4> QED BY <2>6, <4>1 DEF Moved
    <3>2. rq'[q] = rq[q]
      BY <3>1 DEF Races, Others
    <3> QED BY <2>5, <2>6, <3>2 DEF Retiring, At
  <2>7. \A q \in Requests : Knows(q)'
    BY <2>2, <2>3, <2>6 DEF Knows
  <2> QED BY <2>2, <2>3, <2>4, <2>7 DEF RaceInv, OnlyRacesRetireActive
<1>3. CASE Swap(r) /\ deps' = deps
  <2>1. raced' = raced
    <3>1. Len(deps) # Len(deps) + 1
      BY ActiveIsLast DEF Inv
    <3> QED BY <1>3, <3>1 DEF Swap
  <2> QED BY <1>1, <1>3, <2>1
<1> QED BY <1>1, <1>2, <1>3, SwapExtends DEF Races

\* No order of registrations, approvals, deployments, rollbacks, retirements and
\* lost requests retires the active model, except that the model was deployed
\* between the check and the write of its retirement (registry.py:297-302).
THEOREM OnlyRacesRetire == Spec => []OnlyRacesRetireActive
<1>1. Init => RaceInv
  BY DEF Init, RaceInv, OnlyRacesRetireActive, Knows, ActiveRows, Idle
<1>2. Inv /\ RaceInv /\ [Next]_vars => RaceInv'
  <2> SUFFICES ASSUME Inv, RaceInv, [Next]_vars PROVE RaceInv'
    OBVIOUS
  <2>1. CASE Next
    BY <2>1, StepRaces, RaceKept
  <2>2. CASE UNCHANGED vars
    BY <2>2 DEF vars, RaceInv, OnlyRacesRetireActive, Knows, ActiveRows
  <2> QED BY <2>1, <2>2
<1>3. RaceInv => OnlyRacesRetireActive
  BY DEF RaceInv
<1> QED BY <1>1, <1>2, <1>3, AlwaysInv, PTL DEF Spec

(***************************************************************************)
(* The queue of the ML subsystem (MLJobs), whose training jobs register    *)
(* the models above, for any jobs, workers and number of attempts.         *)
(***************************************************************************)
USE JobsAssumption, AttemptsAssumption

JobStatus == Final \union Unfinished \union {"none"}
Attempt   == [pc : PC, job : Jobs \union {Nobody}, gen : Nat, attempt : Nat]

JobTypes ==
    /\ status \in [Jobs -> JobStatus]
    /\ attempts \in [Jobs -> Nat] /\ gen \in [Jobs -> Nat]
    /\ owner \in [Jobs -> Workers \union {Nobody}]
    /\ live \in [Jobs -> BOOLEAN]
    /\ data \in {"created", "validating", "valid", "invalid"}
    /\ train \in [Trainings -> RunStatus] /\ model \in [Trainings -> BOOLEAN]
    /\ wk \in [Workers -> Attempt]

Busy(w)  == wk[w].pc # "idle"
Last(w)  == wk[w].gen >= MaxAttempts
\* No other attempt of the job has been claimed since.
Newest(w) == Busy(w) /\ wk[w].gen = gen[wk[w].job]
Decided   == data \in {"valid", "invalid"}

\* A generation is an attempt, and no job has more of them than it may.
Counted == \A j \in Jobs : attempts[j] = gen[j] /\ gen[j] <= MaxAttempts

\* An attempt carries the generation it was claimed under, and goes the way of its kind.
Placed(w) ==
    Busy(w) =>
        /\ wk[w].job \in Jobs /\ wk[w].attempt = wk[w].gen
        /\ 1 <= wk[w].gen /\ wk[w].gen <= gen[wk[w].job]
        /\ wk[w].job \in Validations =>
              wk[w].pc \notin {"clean", "failed", "lookup", "register", "settle"}
        /\ wk[w].job \in Trainings => wk[w].pc # "store"
        /\ wk[w].pc = "exhausted" => Last(w)

\* A generation is claimed once.
Apart(v, w) == v # w /\ Busy(v) /\ Busy(w) /\ wk[v].job = wk[w].job => wk[v].gen # wk[w].gen

\* While its newest attempt is under way a job ends by the sweep only, which
\* gives it the outcome the attempt would give it.
Pending(w) ==
    Newest(w) => \/ status[wk[w].job] \in Held
                 \/ status[wk[w].job] = "failed" /\ Last(w)

\* What a training has written when it gets to its end.
Trained(w) ==
    Busy(w) /\ wk[w].job \in Trainings =>
        /\ wk[w].pc = "settle" => model[wk[w].job]
        /\ wk[w].pc \in {"end", "finish"} => train[wk[w].job] = "completed"
ModelsFirst == \A j \in Trainings : train[j] = "completed" => model[j]

\* An attempt that saw a cancellation resets the dataset.  Up to the second attempt
\* none is at work that has anything to lose.
Harmless(v) ==
    LET j == wk[v].job
    IN  Busy(v) /\ wk[v].pc = "uncancel" /\ j \in Validations /\ attempts[j] <= 2 =>
            /\ \/ status[j] \in {"cancel_requested", "failed", "cancelled"}
               \/ status[j] = "retry_wait" /\ attempts[j] = 2
            /\ \A w \in Workers : Newest(w) /\ wk[w].job = j =>
                   wk[w].pc \in {"begin", "retry", "uncancel", "cancelled", "exhausted"}

\* What a validation has written on its way to its end, while the job is its own.
Validated(w) ==
    Busy(w) /\ Validations = {wk[w].job} /\ attempts[wk[w].job] <= 2 /\ Owned(w) =>
        /\ wk[w].pc \in {"compute", "commit", "store"} => data # "created"
        /\ wk[w].pc \in {"end", "finish"} => Decided

JobsInv ==
    /\ JobTypes /\ Counted
    /\ \A w \in Workers : /\ Placed(w) /\ Pending(w) /\ Trained(w)
                          /\ Harmless(w) /\ Validated(w)
    /\ \A v, w \in Workers : Apart(v, w)
    /\ ModelsFirst /\ CompletedHasResult

USE DEF Busy, Last, Newest, Decided

\* Where a statement leaves its worker.
Moves(w, p) ==
    /\ wk' \in [Workers -> Attempt] /\ \A v \in Workers : v # w => wk'[v] = wk[v]
    /\ wk'[w].pc = p
    /\ p # "idle" => /\ wk'[w].job = wk[w].job /\ wk'[w].gen = wk[w].gen
                     /\ wk'[w].attempt = wk[w].attempt

LEMMA JobGotoMoves ==
  ASSUME JobTypes, NEW w \in Workers, NEW p \in PC, WorkerTo(w, p)
  PROVE  Moves(w, p)
<1>1. wk \in [Workers -> Attempt] /\ wk[w] \in Attempt
  BY DEF JobTypes
<1> DEFINE y == [wk[w] EXCEPT !.pc = p]
<1>2. wk' = [wk EXCEPT ![w] = y]
  BY DEF WorkerTo
<1>3. /\ y \in Attempt /\ y.pc = p /\ y.job = wk[w].job /\ y.gen = wk[w].gen
      /\ y.attempt = wk[w].attempt
  BY <1>1 DEF Attempt
<1> HIDE DEF y
<1> QED BY <1>1, <1>2, <1>3 DEF Moves

LEMMA JobIdleMoves ==
  ASSUME JobTypes, NEW w \in Workers, GoIdle(w)
  PROVE  Moves(w, "idle")
<1>1. wk \in [Workers -> Attempt]
  BY DEF JobTypes
<1>2. IdleWorker \in Attempt /\ IdleWorker.pc = "idle"
  BY DEF Attempt, IdleWorker, PC
<1>3. wk' = [wk EXCEPT ![w] = IdleWorker]
  BY DEF GoIdle
<1> HIDE DEF Attempt
<1> QED BY <1>1, <1>2, <1>3 DEF Moves

\* A step of a worker's attempt, and the place it leads to.
Turn(w) == WorkerStep(w) \/ Trouble(w) \/ WorkerCrash(w)

LEMMA TurnMoves ==
  ASSUME JobTypes, NEW w \in Workers, Turn(w)
  PROVE  /\ Busy(w) /\ UNCHANGED <<attempts, gen>>
         /\ Moves(w, wk'[w].pc)
<1> USE DEF WorkerAt, PC
<1>1. CASE Boundary(w)
  <2>1. PICK p \in {"uncancel", "read", "store", "lookup", "finish"} :
           GoIdle(w) \/ WorkerTo(w, p)
    BY <1>1 DEF Boundary, AfterBoundary
  <2>2. Moves(w, "idle") \/ Moves(w, p)
    BY <2>1, JobGotoMoves, JobIdleMoves
  <2> QED BY <1>1, <2>2 DEF Moves, Boundary, queue
<1>2. CASE Read(w)
  <2>1. PICK p \in {"end", "compute", "start"} : WorkerTo(w, p)
    BY <1>2 DEF Read
  <2> QED BY <1>2, <2>1, JobGotoMoves DEF Moves, Read, queue
<1>3. CASE Start(w)
  <2>1. PICK p \in {"compute", "retry"} : WorkerTo(w, p)
    BY <1>3 DEF Start
  <2> QED BY <1>3, <2>1, JobGotoMoves DEF Moves, Start, queue
<1>4. ASSUME NEW refused \in BOOLEAN, Compute(w, refused)
      PROVE  Busy(w) /\ UNCHANGED <<attempts, gen>> /\ Moves(w, wk'[w].pc)
  <2>1. PICK p \in {"clean", "commit"} : WorkerTo(w, p)
    BY <1>4 DEF Compute
  <2> QED BY <1>4, <2>1, JobGotoMoves DEF Moves, Compute, queue
<1>5. ASSUME NEW verdict \in {"valid", "invalid"}, StoreVerdict(w, verdict)
      PROVE  Busy(w) /\ UNCHANGED <<attempts, gen>> /\ Moves(w, wk'[w].pc)
  BY <1>5, JobGotoMoves DEF Moves, StoreVerdict, queue
<1>6. CASE Lookup(w)
  <2>1. PICK p \in {"settle", "register"} : WorkerTo(w, p)
    BY <1>6 DEF Lookup
  <2> QED BY <1>6, <2>1, JobGotoMoves DEF Moves, Lookup, queue
<1>7. CASE Register(w)
  <2>1. PICK p \in {"settle", "retry"} : WorkerTo(w, p)
    BY <1>7 DEF Register
  <2> QED BY <1>7, <2>1, JobGotoMoves DEF Moves, Register, queue
<1>8. CASE Settle(w)
  BY <1>8, JobGotoMoves DEF Moves, Settle, queue
<1>9. CASE Finish(w)
  BY <1>9, JobIdleMoves DEF Moves, Finish
<1>10. CASE Retry(w)
  <2>1. WorkerTo(w, "exhausted") \/ GoIdle(w)
    BY <1>10 DEF Retry
  <2>2. Moves(w, "exhausted") \/ Moves(w, "idle")
    BY <2>1, JobGotoMoves, JobIdleMoves
  <2> QED BY <1>10, <2>2 DEF Moves, Retry
<1>11. CASE CleanUp(w)
  <2>1. PICK p \in {"cancelled", "failed"} : GoIdle(w) \/ WorkerTo(w, p)
    BY <1>11 DEF CleanUp
  <2>2. Moves(w, "idle") \/ Moves(w, p)
    BY <2>1, JobGotoMoves, JobIdleMoves
  <2> QED BY <1>11, <2>2 DEF Moves, CleanUp, queue
<1>12. CASE Trouble(w)
  BY <1>12, JobGotoMoves DEF Moves, Trouble, queue
<1>13. CASE WorkerCrash(w)
  BY <1>13, JobIdleMoves DEF Moves, WorkerCrash, queue
<1> QED BY <1>1, <1>2, <1>3, <1>4, <1>5, <1>6, <1>7, <1>8, <1>9, <1>10, <1>11, <1>12, <1>13
  DEF Turn, WorkerStep

\* The places an attempt is not led to.
LEMMA TurnEdges ==
  ASSUME JobTypes, NEW w \in Workers, Turn(w), Placed(w)
  PROVE  /\ wk'[w].pc = "exhausted" => wk[w].pc = "retry" /\ Last(w)
         /\ wk[w].job \in Validations =>
               wk'[w].pc \notin {"clean", "failed", "lookup", "register", "settle"}
         /\ wk[w].job \in Trainings => wk'[w].pc # "store"
         /\ wk'[w].pc = "uncancel" => /\ Owned(w) /\ status[wk[w].job] = "cancel_requested"
                                      /\ UNCHANGED <<status, owner>>
<1> DEFINE Edge == /\ wk'[w].pc = "exhausted" => wk[w].pc = "retry" /\ Last(w)
                   /\ wk[w].job \in Validations =>
                         wk'[w].pc \notin {"clean", "failed", "lookup", "register", "settle"}
                   /\ wk[w].job \in Trainings => wk'[w].pc # "store"
                   /\ wk'[w].pc = "uncancel" => /\ Owned(w)
                                                /\ status[wk[w].job] = "cancel_requested"
                                                /\ UNCHANGED <<status, owner>>
<1>0. Busy(w)
  BY TurnMoves
<1>1. /\ wk[w].attempt = wk[w].gen /\ wk[w].job \in Validations \union Trainings
      /\ wk[w].job \in Validations =>
            wk[w].pc \notin {"clean", "failed", "lookup", "register", "settle"}
      /\ wk[w].job \in Trainings => wk[w].job \notin Validations
      /\ wk[w].gen \in Nat /\ MaxAttempts \in Nat
  BY <1>0 DEF Placed, Jobs, JobTypes, Attempt
<1>g. ASSUME NEW p \in PC, WorkerTo(w, p) PROVE wk'[w].pc = p
  BY <1>g, JobGotoMoves DEF Moves
<1>i. ASSUME GoIdle(w) PROVE wk'[w].pc = "idle"
  BY <1>i, JobIdleMoves DEF Moves
<1> USE DEF WorkerAt, PC
<1>2. CASE Boundary(w)
  <2>1. CASE GoIdle(w)
    BY <1>i, <2>1
  <2>2. CASE Owned(w) /\ status[wk[w].job] = "cancel_requested" /\ WorkerTo(w, "uncancel")
    <3>1. wk'[w].pc = "uncancel"
      BY <1>g, <2>2
    <3> QED BY <1>2, <2>2, <3>1 DEF Boundary, queue
  <2>3. CASE WorkerTo(w, AfterBoundary(w))
    <3>1. PICK p \in {"read", "store", "lookup", "finish"} :
             /\ AfterBoundary(w) = p
             /\ p = "store" => wk[w].job \in Validations
             /\ p = "lookup" => wk[w].job \notin Validations
      BY <1>2 DEF Boundary, AfterBoundary
    <3>2. wk'[w].pc = p
      BY <1>g, <2>3, <3>1
    <3> QED BY <1>1, <3>1, <3>2
  <2> QED BY <1>2, <2>1, <2>2, <2>3 DEF Boundary
<1>3. CASE Read(w)
  <2>1. PICK p \in {"end", "compute", "start"} : WorkerTo(w, p)
    BY <1>3 DEF Read
  <2> QED BY <1>g, <2>1
<1>4. CASE Start(w)
  <2>1. PICK p \in {"compute", "retry"} : WorkerTo(w, p)
    BY <1>4 DEF Start
  <2> QED BY <1>g, <2>1
<1>5. ASSUME NEW refused \in BOOLEAN, Compute(w, refused) PROVE Edge
  <2>1. PICK p \in {"clean", "commit"} :
           WorkerTo(w, p) /\ (p = "clean" => wk[w].job \in Trainings)
    BY <1>5 DEF Compute
  <2> QED BY <1>1, <1>g, <2>1
<1>6. ASSUME NEW verdict \in {"valid", "invalid"}, StoreVerdict(w, verdict) PROVE Edge
  BY <1>6, <1>g DEF StoreVerdict
<1>7. CASE Lookup(w) \/ Register(w) \/ Settle(w)
  <2>1. PICK p \in {"settle", "register", "retry", "end"} : WorkerTo(w, p)
    BY <1>7 DEF Lookup, Register, Settle
  <2>2. wk[w].job \notin Validations
    BY <1>1, <1>7 DEF Lookup, Register, Settle
  <2> QED BY <1>g, <2>1, <2>2
<1>8. CASE Finish(w) \/ WorkerCrash(w)
  BY <1>8, <1>i DEF Finish, WorkerCrash
<1>9. CASE Retry(w)
  <2>1. \/ GoIdle(w)
        \/ WorkerTo(w, "exhausted") /\ wk[w].attempt >= MaxAttempts /\ wk[w].pc = "retry"
    BY <1>9 DEF Retry
  <2> QED BY <1>1, <1>g, <1>i, <2>1
<1>10. CASE CleanUp(w)
  <2>1. \/ GoIdle(w) \/ WorkerTo(w, "cancelled")
        \/ WorkerTo(w, "failed") /\ wk[w].pc = "clean"
    BY <1>10 DEF CleanUp
  <2> QED BY <1>1, <1>g, <1>i, <2>1
<1>11. CASE Trouble(w)
  BY <1>11, <1>g DEF Trouble
<1> QED BY <1>2, <1>3, <1>4, <1>5, <1>6, <1>7, <1>8, <1>9, <1>10, <1>11 DEF Turn, WorkerStep

\* An attempt that waits to see a cancellation, or has seen it, has nowhere else to go.
LEMMA TurnWaits ==
  ASSUME JobTypes, NEW w \in Workers, Turn(w), status[wk[w].job] # "running",
         wk[w].pc \in {"begin", "retry", "uncancel", "cancelled", "exhausted"}
  PROVE  wk'[w].pc \in {"begin", "retry", "uncancel", "cancelled", "exhausted", "idle"}
<1>g. ASSUME NEW p \in PC, WorkerTo(w, p) PROVE wk'[w].pc = p
  BY <1>g, JobGotoMoves DEF Moves
<1>i. ASSUME GoIdle(w) PROVE wk'[w].pc = "idle"
  BY <1>i, JobIdleMoves DEF Moves
<1> USE DEF WorkerAt, PC
<1>1. CASE Boundary(w)
  <2>1. GoIdle(w) \/ WorkerTo(w, "uncancel")
    BY <1>1 DEF Boundary, Owned, Held
  <2> QED BY <1>g, <1>i, <2>1
<1>2. CASE Retry(w) \/ CleanUp(w) \/ Finish(w) \/ Trouble(w) \/ WorkerCrash(w)
  <2>1. PICK p \in {"exhausted", "cancelled", "retry"} : GoIdle(w) \/ WorkerTo(w, p)
    BY <1>2 DEF Retry, CleanUp, Finish, Trouble, WorkerCrash
  <2> QED BY <1>g, <1>i, <2>1
<1> QED BY <1>1, <1>2
  DEF Turn, WorkerStep, Read, Start, Compute, StoreVerdict, Lookup, Register, Settle

\* What a step of an attempt does to the queue.
Finishing(w) ==
    /\ Owned(w) /\ wk[w].pc \in {"finish", "failed", "cancelled"} /\ wk'[w].pc = "idle"
    /\ status' = [status EXCEPT ![wk[w].job] =
                    IF wk[w].pc = "finish" THEN "completed" ELSE wk[w].pc]
    /\ owner' = [owner EXCEPT ![wk[w].job] = Nobody]
Retrying(w) ==
    /\ Newest(w) /\ wk[w].pc = "retry" /\ wk'[w].pc = IF Last(w) THEN "exhausted" ELSE "idle"
    /\ status' = [status EXCEPT ![wk[w].job] = IF Last(w) THEN "failed" ELSE "retry_wait"]
    /\ owner' = [owner EXCEPT ![wk[w].job] = Nobody]

LEMMA TurnQueue ==
  ASSUME JobTypes, NEW w \in Workers, Turn(w), Placed(w)
  PROVE  /\ UNCHANGED <<status, owner>> \/ Finishing(w) \/ Retrying(w)
         /\ live' \in [Jobs -> BOOLEAN]
<1>0. Busy(w) /\ wk[w].job \in Jobs /\ wk[w].attempt = wk[w].gen
  BY TurnMoves DEF Placed
<1>1. live \in [Jobs -> BOOLEAN]
  BY DEF JobTypes
<1>g. ASSUME NEW p \in PC, WorkerTo(w, p) PROVE wk'[w].pc = p
  BY <1>g, JobGotoMoves DEF Moves
<1>i. ASSUME GoIdle(w) PROVE wk'[w].pc = "idle"
  BY <1>i, JobIdleMoves DEF Moves
<1>2. CASE Finish(w)
  <2>1. wk'[w].pc = "idle"
    BY <1>2, <1>i DEF Finish
  <2>2. wk[w].pc \in {"finish", "failed", "cancelled"}
    BY <1>2 DEF Finish
  <2>3. CASE ~ Owned(w)
    BY <1>1, <1>2, <2>3 DEF Finish
  <2>4. CASE Owned(w)
    <3>1. Finishing(w)
      BY <1>2, <2>1, <2>2, <2>4 DEF Finish, WorkerAt, Finishing
    <3>2. live' = [live EXCEPT ![wk[w].job] = FALSE]
      BY <1>2, <2>4 DEF Finish
    <3> QED BY <1>1, <3>1, <3>2
  <2> QED BY <2>3, <2>4
<1>3. CASE Retry(w)
  <2>1. wk[w].pc = "retry" /\ (wk[w].attempt >= MaxAttempts <=> Last(w))
    BY <1>0, <1>3 DEF Retry, WorkerAt
  <2>2. wk'[w].pc = IF Last(w) THEN "exhausted" ELSE "idle"
    BY <1>3, <1>g, <1>i, <2>1 DEF Retry, PC
  <2>3. CASE gen[wk[w].job] # wk[w].gen
    BY <1>1, <1>3, <2>3 DEF Retry
  <2>4. CASE gen[wk[w].job] = wk[w].gen
    <3>1. Retrying(w)
      BY <1>0, <1>3, <2>1, <2>2, <2>4 DEF Retry, Retrying
    <3>2. live' = [live EXCEPT ![wk[w].job] = FALSE]
      BY <1>3, <2>4 DEF Retry
    <3> QED BY <1>1, <3>1, <3>2
  <2> QED BY <2>3, <2>4
<1>4. CASE UNCHANGED queue
  BY <1>1, <1>4 DEF queue
<1> QED BY <1>2, <1>3, <1>4
  DEF Turn, WorkerStep, Boundary, Read, Start, Compute, StoreVerdict, Lookup, Register,
      Settle, CleanUp, Trouble, WorkerCrash

\* What a step of an attempt does to the rows of the handlers.
Dataset(w) ==
    \/ data' = data
    \/ data = "created" /\ data' = "validating"
    \/ data = "validating" /\ data' \in {"valid", "invalid"}
    \/ /\ data = "validating" /\ data' = "created"
       /\ wk[w].job \in Validations /\ wk[w].pc \in {"exhausted", "uncancel"}

LEMMA TurnDataset ==
  ASSUME JobTypes, NEW w \in Workers, Turn(w), Placed(w)
  PROVE  Dataset(w) /\ data' \in {"created", "validating", "valid", "invalid"}
<1>1. CASE data' = data
  BY <1>1 DEF Dataset, JobTypes
<1>2. CASE Start(w)
  BY <1>1, <1>2 DEF Start, Dataset
<1>3. ASSUME NEW verdict \in {"valid", "invalid"}, StoreVerdict(w, verdict)
      PROVE  Dataset(w) /\ data' \in {"created", "validating", "valid", "invalid"}
  BY <1>1, <1>3 DEF StoreVerdict, Dataset
<1>4. CASE CleanUp(w)
  <2>1. CASE data' # data
    BY <1>4, <2>1 DEF CleanUp, Dataset, Placed
  <2> QED BY <1>1, <2>1
<1> QED BY <1>1, <1>2, <1>3, <1>4
  DEF Turn, WorkerStep, Boundary, Read, Compute, Lookup, Register, Settle, Finish,
      Retry, Trouble, WorkerCrash

Results(w) ==
    /\ \A i \in Trainings :
          /\ train[i] = "completed" => train'[i] = "completed"
          /\ model[i] => model'[i]
          /\ train'[i] = "completed" =>
                train[i] = "completed" \/ (i = wk[w].job /\ wk[w].pc = "settle")

LEMMA TurnModels ==
  ASSUME JobTypes, NEW w \in Workers, Turn(w), Placed(w)
  PROVE  /\ Results(w)
         /\ train' \in [Trainings -> RunStatus] /\ model' \in [Trainings -> BOOLEAN]
<1> DEFINE Kept == /\ Results(w)
                   /\ train' \in [Trainings -> RunStatus] /\ model' \in [Trainings -> BOOLEAN]
<1>0. /\ train \in [Trainings -> RunStatus] /\ model \in [Trainings -> BOOLEAN]
      /\ {"running", "completed", "failed", "cancelled"} \subseteq RunStatus
  BY DEF JobTypes, RunStatus
<1>1. CASE UNCHANGED <<train, model>>
  BY <1>0, <1>1 DEF Results
<1>2. ASSUME NEW i \in Trainings, NEW v \in {"running", "failed", "cancelled"},
             train[i] # "completed", train' = [train EXCEPT ![i] = v], model' = model
      PROVE  Kept
  BY <1>0, <1>2 DEF Results
<1>3. CASE Start(w)
  BY <1>1, <1>2, <1>3 DEF Start
<1>4. CASE CleanUp(w)
  <2>1. PICK outcome \in {"cancelled", "failed"} :
           \/ UNCHANGED <<train, model>>
           \/ /\ wk[w].job \in Trainings /\ train[wk[w].job] = "running" /\ model' = model
              /\ train' = [train EXCEPT ![wk[w].job] = outcome]
    BY <1>4 DEF CleanUp
  <2> QED BY <1>1, <1>2, <2>1
<1>5. CASE Register(w)
  <2>1. model' = [model EXCEPT ![wk[w].job] = TRUE] /\ train' = train
    BY <1>5 DEF Register
  <2> QED BY <1>0, <2>1 DEF Results
<1>6. CASE Settle(w)
  <2>1. /\ train' = [train EXCEPT ![wk[w].job] = "completed"] /\ model' = model
        /\ wk[w].pc = "settle"
    BY <1>6 DEF Settle, WorkerAt
  <2> QED BY <1>0, <2>1 DEF Results
<1> HIDE DEF Kept
<1>7. Kept
  BY <1>1, <1>3, <1>4, <1>5, <1>6
    DEF Kept, Turn, WorkerStep, Boundary, Read, Compute, StoreVerdict, Lookup, Finish,
        Retry, Trouble, WorkerCrash
<1> QED BY <1>7 DEF Kept

\* What brings an attempt of a training nearer to its end.
LEMMA TurnTrained ==
  ASSUME JobTypes, NEW w \in Workers, Turn(w), Placed(w), Trained(w),
         wk[w].job \in Trainings, Results(w)
  PROVE  /\ wk'[w].pc = "settle" => model'[wk[w].job]
         /\ wk'[w].pc \in {"end", "finish"} => train'[wk[w].job] = "completed"
<1> DEFINE j == wk[w].job
           Way == /\ wk'[w].pc = "settle" => model'[j]
                  /\ wk'[w].pc \in {"end", "finish"} => train'[j] = "completed"
<1>g. ASSUME NEW p \in PC, WorkerTo(w, p) PROVE wk'[w].pc = p
  BY <1>g, JobGotoMoves DEF Moves
<1>i. ASSUME GoIdle(w) PROVE wk'[w].pc = "idle"
  BY <1>i, JobIdleMoves DEF Moves
<1>0. /\ train \in [Trainings -> RunStatus] /\ model \in [Trainings -> BOOLEAN]
      /\ train[j] = "completed" => train'[j] = "completed"
      /\ model[j] => model'[j]
      /\ j \notin Validations
      /\ wk[w].pc # "idle" => wk[w].pc # "store"
  BY DEF Results, JobTypes, Placed
<1> USE DEF WorkerAt, PC
<1>2. CASE Boundary(w)
  <2>1. CASE GoIdle(w)
    BY <1>i, <2>1
  <2>2. CASE WorkerTo(w, "uncancel")
    BY <1>g, <2>2
  <2>3. CASE WorkerTo(w, AfterBoundary(w))
    <3>1. PICK p \in {"read", "store", "lookup", "finish"} :
             AfterBoundary(w) = p /\ (p = "finish" => wk[w].pc = "end")
      BY <1>2 DEF Boundary, AfterBoundary
    <3>2. wk'[w].pc = p
      BY <1>g, <2>3, <3>1
    <3> QED BY <1>0, <3>1, <3>2 DEF Trained
  <2> QED BY <1>2, <2>1, <2>2, <2>3 DEF Boundary
<1>3. CASE Read(w)
  <2>1. PICK p \in {"end", "compute", "start"} :
           WorkerTo(w, p) /\ (p = "end" => train[j] = "completed")
    BY <1>0, <1>3 DEF Read
  <2>2. wk'[w].pc = p
    BY <1>g, <2>1
  <2> QED BY <1>0, <2>1, <2>2
<1>4. CASE Lookup(w)
  <2>1. PICK p \in {"settle", "register"} : WorkerTo(w, p) /\ (p = "settle" => model[j])
    BY <1>4 DEF Lookup
  <2>2. wk'[w].pc = p
    BY <1>g, <2>1
  <2> QED BY <1>0, <2>1, <2>2
<1>5. CASE Register(w)
  <2>1. PICK p \in {"settle", "retry"} : WorkerTo(w, p)
    BY <1>5 DEF Register
  <2>2. model'[j]
    BY <1>0, <1>5 DEF Register
  <2>3. wk'[w].pc = p
    BY <1>g, <2>1
  <2> QED BY <2>1, <2>2, <2>3
<1>6. CASE Settle(w)
  <2>1. train'[j] = "completed" /\ WorkerTo(w, "end")
    BY <1>0, <1>6 DEF Settle
  <2> QED BY <1>g, <2>1
<1>7. CASE Start(w)
  <2>1. PICK p \in {"compute", "retry"} : WorkerTo(w, p)
    BY <1>7 DEF Start
  <2> QED BY <1>g, <2>1
<1>8. ASSUME NEW refused \in BOOLEAN, Compute(w, refused) PROVE Way
  <2>1. PICK p \in {"clean", "commit"} : WorkerTo(w, p)
    BY <1>8 DEF Compute
  <2> QED BY <1>g, <2>1
<1>9. ASSUME NEW verdict \in {"valid", "invalid"}, StoreVerdict(w, verdict) PROVE Way
  BY <1>0, <1>9 DEF StoreVerdict
<1>10. CASE Retry(w) \/ CleanUp(w) \/ Finish(w) \/ Trouble(w) \/ WorkerCrash(w)
  <2>1. PICK p \in {"exhausted", "cancelled", "failed", "retry"} : GoIdle(w) \/ WorkerTo(w, p)
    BY <1>10 DEF Retry, CleanUp, Finish, Trouble, WorkerCrash
  <2> QED BY <1>g, <1>i, <2>1
<1> QED BY <1>2, <1>3, <1>4, <1>5, <1>6, <1>7, <1>8, <1>9, <1>10 DEF Turn, WorkerStep

\* What brings an attempt of a validation nearer to its end.
LEMMA TurnValidated ==
  ASSUME JobTypes, NEW w \in Workers, Turn(w), Placed(w), wk[w].job \in Validations,
         wk[w].pc \in {"compute", "commit", "store"} => data # "created",
         wk[w].pc \in {"end", "finish"} => Decided
  PROVE  /\ wk'[w].pc \in {"compute", "commit", "store"} => data' # "created"
         /\ wk'[w].pc \in {"end", "finish"} => Decided'
<1> DEFINE Way == /\ wk'[w].pc \in {"compute", "commit", "store"} => data' # "created"
                  /\ wk'[w].pc \in {"end", "finish"} => Decided'
<1>g. ASSUME NEW p \in PC, WorkerTo(w, p) PROVE wk'[w].pc = p
  BY <1>g, JobGotoMoves DEF Moves
<1>i. ASSUME GoIdle(w) PROVE wk'[w].pc = "idle"
  BY <1>i, JobIdleMoves DEF Moves
<1>0. /\ wk[w].job \notin Trainings
      /\ wk[w].pc # "idle" => wk[w].pc \notin {"lookup", "register", "settle"}
      /\ data \in {"created", "validating", "valid", "invalid"}
  BY DEF JobTypes, Placed
<1> USE DEF WorkerAt, PC
<1>2. CASE Boundary(w)
  <2>1. CASE GoIdle(w)
    BY <1>i, <2>1
  <2>2. CASE WorkerTo(w, "uncancel")
    BY <1>g, <2>2
  <2>3. CASE WorkerTo(w, AfterBoundary(w))
    <3>1. PICK p \in {"read", "store", "lookup", "finish"} :
             /\ AfterBoundary(w) = p
             /\ p = "finish" => wk[w].pc = "end"
             /\ p = "store" => wk[w].pc = "commit"
      BY <1>2 DEF Boundary, AfterBoundary
    <3>2. wk'[w].pc = p /\ data' = data
      BY <1>2, <1>g, <2>3, <3>1 DEF Boundary
    <3> QED BY <3>1, <3>2
  <2> QED BY <1>2, <2>1, <2>2, <2>3 DEF Boundary
<1>3. CASE Read(w)
  <2>1. PICK p \in {"end", "start"} : WorkerTo(w, p) /\ (p = "end" => Decided) /\ data' = data
    BY <1>0, <1>3 DEF Read
  <2>2. wk'[w].pc = p
    BY <1>g, <2>1
  <2> QED BY <2>1, <2>2
<1>4. CASE Start(w)
  <2>1. PICK p \in {"compute", "retry"} : WorkerTo(w, p)
    BY <1>4 DEF Start
  <2>2. data' # "created"
    BY <1>0, <1>4 DEF Start
  <2> QED BY <1>g, <2>1, <2>2
<1>5. ASSUME NEW refused \in BOOLEAN, Compute(w, refused) PROVE Way
  <2>1. PICK p \in {"clean", "commit"} : WorkerTo(w, p) /\ wk[w].pc = "compute" /\ data' = data
    BY <1>5 DEF Compute
  <2> QED BY <1>g, <2>1
<1>6. ASSUME NEW verdict \in {"valid", "invalid"}, StoreVerdict(w, verdict) PROVE Way
  <2>1. wk'[w].pc = "end" /\ Decided'
    BY <1>0, <1>6, <1>g DEF StoreVerdict
  <2> QED BY <2>1
<1>7. CASE Lookup(w) \/ Register(w) \/ Settle(w)
  BY <1>0, <1>7 DEF Lookup, Register, Settle
<1>8. CASE Retry(w) \/ CleanUp(w) \/ Finish(w) \/ Trouble(w) \/ WorkerCrash(w)
  <2>1. PICK p \in {"exhausted", "cancelled", "failed", "retry"} : GoIdle(w) \/ WorkerTo(w, p)
    BY <1>8 DEF Retry, CleanUp, Finish, Trouble, WorkerCrash
  <2> QED BY <1>g, <1>i, <2>1
<1> QED BY <1>2, <1>3, <1>4, <1>5, <1>6, <1>7, <1>8 DEF Turn, WorkerStep

(***************************************************************************)
(* RequestEffect and claims.                                                    *)
(***************************************************************************)
Asked(i) ==
    \/ status'[i] = status[i]
    \/ status[i] = "none" /\ status'[i] = "queued"
    \/ status[i] \in {"queued", "retry_wait"} /\ status'[i] = "cancelled"
    \/ status[i] = "running" /\ status'[i] = "cancel_requested"
Asks ==
    /\ UNCHANGED <<attempts, gen, owner, data, train, model, wk>>
    /\ status' \in [Jobs -> JobStatus] /\ live' \in [Jobs -> BOOLEAN]
    /\ \A i \in Jobs : Asked(i)

LEMMA RequestEffect ==
  ASSUME JobTypes, NEW j \in Jobs, Enqueue(j) \/ Cancel(j) \/ Expire(j)
  PROVE  Asks
<1>0. status \in [Jobs -> JobStatus] /\ live \in [Jobs -> BOOLEAN]
  BY DEF JobTypes
<1>1. {"queued", "cancelled", "cancel_requested"} \subseteq JobStatus
  BY DEF JobStatus, Final, Unfinished, Held
<1> HIDE DEF JobStatus
<1>2. CASE Enqueue(j)
  <2>1. status' \in [Jobs -> JobStatus] /\ \A i \in Jobs : Asked(i)
    BY <1>0, <1>1, <1>2 DEF Enqueue, Asked
  <2> QED BY <1>0, <1>2, <2>1 DEF Enqueue, Asks
<1>3. CASE Cancel(j)
  <2>1. status' \in [Jobs -> JobStatus] /\ \A i \in Jobs : Asked(i)
    BY <1>0, <1>1, <1>3 DEF Cancel, Asked
  <2> QED BY <1>0, <1>3, <2>1 DEF Cancel, Asks
<1>4. CASE Expire(j)
  BY <1>0, <1>4 DEF Expire, Asked, Asks
<1> QED BY <1>2, <1>3, <1>4

\* What the sweep of a claim leaves of a job that is not claimed, and of the rows.
Swept(i) ==
    /\ \/ status'[i] = status[i]
       \/ status[i] \in Held /\ attempts[i] >= MaxAttempts /\ status'[i] = "failed"
    /\ owner'[i] \in {owner[i], Nobody}
Cleaned ==
    /\ live' \in [Jobs -> BOOLEAN]
    /\ model' = model /\ train' \in [Trainings -> RunStatus]
    /\ \A i \in Trainings : train'[i] = "completed" <=> train[i] = "completed"
    /\ \/ data' = data
       \/ /\ data = "validating" /\ data' = "created"
          /\ \A i \in Validations : status'[i] \notin Unfinished
Sweeps ==
    /\ UNCHANGED <<attempts, gen, wk>> /\ Cleaned
    /\ status' \in [Jobs -> JobStatus] /\ owner' \in [Jobs -> Workers \union {Nobody}]
    /\ \A i \in Jobs : Swept(i)
Takes(w, j) ==
    /\ ~ Busy(w) /\ attempts[j] < MaxAttempts
    /\ status[j] \in {"queued", "retry_wait", "running", "cancel_requested"}
    /\ status' \in [Jobs -> JobStatus] /\ owner' \in [Jobs -> Workers \union {Nobody}]
    /\ \A i \in Jobs : i # j => Swept(i)
    /\ status'[j] = IF status[j] = "cancel_requested" THEN "cancel_requested" ELSE "running"
    /\ owner'[j] = w
    /\ attempts' = [attempts EXCEPT ![j] = @ + 1] /\ gen' = [gen EXCEPT ![j] = @ + 1]
    /\ \A v \in Workers : v # w => wk'[v] = wk[v]
    /\ wk' \in [Workers -> Attempt]
    /\ wk'[w].pc = "begin" /\ wk'[w].job = j
    /\ wk'[w].gen = gen[j] + 1 /\ wk'[w].attempt = attempts[j] + 1
    /\ Cleaned

\* The tables as the sweep writes them.
LEMMA SweepFacts ==
  ASSUME JobTypes
  PROVE  /\ SweptStatus \in [Jobs -> JobStatus]
         /\ \A i \in Jobs : \/ SweptStatus[i] = status[i]
                            \/ /\ status[i] \in Held /\ attempts[i] >= MaxAttempts
                               /\ SweptStatus[i] = "failed"
         /\ SweptOwner \in [Jobs -> Workers \union {Nobody}]
         /\ \A i \in Jobs : SweptOwner[i] \in {owner[i], Nobody}
         /\ CleanedTrain \in [Trainings -> RunStatus]
         /\ \A i \in Trainings : CleanedTrain[i] = "completed" <=> train[i] = "completed"
         /\ \/ CleanedData = data
            \/ /\ data = "validating" /\ CleanedData = "created"
               /\ \A i \in Validations : SweptStatus[i] \notin Unfinished
<1>1. "failed" \in JobStatus /\ "failed" \in RunStatus
  BY DEF JobStatus, Final, RunStatus
<1>2. /\ status \in [Jobs -> JobStatus] /\ owner \in [Jobs -> Workers \union {Nobody}]
      /\ train \in [Trainings -> RunStatus]
  BY DEF JobTypes
<1>3. \A i \in Exhausted : status[i] \in Held /\ attempts[i] >= MaxAttempts
  BY DEF Exhausted
<1>4. /\ SweptStatus \in [Jobs -> JobStatus]
      /\ \A i \in Jobs : \/ SweptStatus[i] = status[i]
                         \/ i \in Exhausted /\ SweptStatus[i] = "failed"
  BY <1>1, <1>2 DEF SweptStatus
<1>5. /\ SweptOwner \in [Jobs -> Workers \union {Nobody}]
      /\ \A i \in Jobs : SweptOwner[i] \in {owner[i], Nobody}
  BY <1>2 DEF SweptOwner
<1>6. /\ CleanedTrain \in [Trainings -> RunStatus]
      /\ \A i \in Trainings : CleanedTrain[i] = "completed" <=> train[i] = "completed"
  BY <1>1, <1>2 DEF CleanedTrain
<1>7. \/ CleanedData = data
      \/ /\ data = "validating" /\ CleanedData = "created"
         /\ \A i \in Validations : SweptStatus[i] \notin Unfinished
  BY DEF CleanedData
<1> QED BY <1>3, <1>4, <1>5, <1>6, <1>7

LEMMA SweepEffect ==
  ASSUME JobTypes, NEW w \in Workers, Sweep(w)
  PROVE  Sweeps
<1>1. /\ status' = SweptStatus /\ owner' = SweptOwner /\ train' = CleanedTrain
      /\ data' = CleanedData /\ UNCHANGED <<attempts, gen, live, model, wk>>
  BY DEF Sweep
<1>2. Cleaned
  BY <1>1, SweepFacts DEF Cleaned, JobTypes
<1>3. \A i \in Jobs : Swept(i)
  BY <1>1, SweepFacts DEF Swept
<1> QED BY <1>1, <1>2, <1>3, SweepFacts DEF Sweeps

LEMMA ClaimEffect ==
  ASSUME JobTypes, Counted, NEW w \in Workers, NEW j \in Jobs, Claim(w, j)
  PROVE  Takes(w, j)
<1>0. /\ attempts[j] \in Nat /\ gen[j] \in Nat /\ attempts[j] < MaxAttempts
      /\ status[j] \in {"queued", "retry_wait", "running", "cancel_requested"}
      /\ MaxAttempts \in Nat
  BY DEF Claim, Candidates, Held, JobTypes
<1>1. /\ owner' = [SweptOwner EXCEPT ![j] = w] /\ train' = CleanedTrain
      /\ data' = CleanedData /\ model' = model
      /\ status' = [SweptStatus EXCEPT ![j] =
                      IF @ = "cancel_requested" THEN "cancel_requested" ELSE "running"]
      /\ attempts' = [attempts EXCEPT ![j] = @ + 1] /\ gen' = [gen EXCEPT ![j] = @ + 1]
      /\ live' = [live EXCEPT ![j] = TRUE]
      /\ wk' = [wk EXCEPT ![w] = [pc |-> "begin", job |-> j, gen |-> gen[j] + 1,
                                  attempt |-> attempts[j] + 1]]
      /\ ~ Busy(w)
  BY DEF Claim, WorkerAt
<1>2. SweptStatus[j] = status[j]
  BY <1>0, SweepFacts
<1>3. "running" \in JobStatus /\ "cancel_requested" \in JobStatus
  BY DEF JobStatus, Unfinished, Held
<1> HIDE DEF JobStatus, Attempt
<1>4. /\ status' \in [Jobs -> JobStatus]
      /\ status'[j] = IF status[j] = "cancel_requested" THEN "cancel_requested" ELSE "running"
      /\ \A i \in Jobs : i # j => status'[i] = SweptStatus[i]
  BY <1>1, <1>2, <1>3, SweepFacts
<1>5. /\ owner' \in [Jobs -> Workers \union {Nobody}] /\ owner'[j] = w
      /\ \A i \in Jobs : i # j => owner'[i] = SweptOwner[i]
  BY <1>1, SweepFacts
<1>6. \A i \in Jobs : i # j => Swept(i)
  BY <1>4, <1>5, SweepFacts DEF Swept
<1>7. Cleaned
  <2>1. live' \in [Jobs -> BOOLEAN]
    BY <1>1 DEF JobTypes
  <2>2. status'[j] \in Unfinished /\ SweptStatus[j] \in Unfinished
    BY <1>0, <1>2, <1>4 DEF Unfinished, Held
  <2>3. Validations \subseteq Jobs
    BY DEF Jobs
  <2>4. (\A i \in Validations : SweptStatus[i] \notin Unfinished)
           => \A i \in Validations : status'[i] \notin Unfinished
    BY <1>4, <2>2, <2>3
  <2> QED BY <1>1, <2>1, <2>4, SweepFacts DEF Cleaned
<1>8. /\ wk' \in [Workers -> Attempt] /\ \A v \in Workers : v # w => wk'[v] = wk[v]
      /\ wk'[w].pc = "begin" /\ wk'[w].job = j
      /\ wk'[w].gen = gen[j] + 1 /\ wk'[w].attempt = attempts[j] + 1
  <2> DEFINE y == [pc |-> "begin", job |-> j, gen |-> gen[j] + 1, attempt |-> attempts[j] + 1]
  <2>1. y \in Attempt
    BY <1>0 DEF Attempt, PC
  <2>2. wk \in [Workers -> Attempt]
    BY DEF JobTypes
  <2> QED BY <1>1, <2>1, <2>2
<1> QED BY <1>0, <1>1, <1>4, <1>5, <1>6, <1>7, <1>8 DEF Takes

Turned(w) ==
    /\ Busy(w) /\ UNCHANGED <<attempts, gen>> /\ Moves(w, wk'[w].pc)
    /\ wk'[w].pc = "exhausted" => wk[w].pc = "retry" /\ Last(w)
    /\ wk[w].job \in Validations =>
          wk'[w].pc \notin {"clean", "failed", "lookup", "register", "settle"}
    /\ wk[w].job \in Trainings => wk'[w].pc # "store"
    /\ wk'[w].pc = "uncancel" => /\ Owned(w) /\ status[wk[w].job] = "cancel_requested"
                                 /\ UNCHANGED <<status, owner>>
    /\ UNCHANGED <<status, owner>> \/ Finishing(w) \/ Retrying(w)
    /\ live' \in [Jobs -> BOOLEAN]
    /\ Dataset(w) /\ data' \in {"created", "validating", "valid", "invalid"}
    /\ Results(w) /\ train' \in [Trainings -> RunStatus] /\ model' \in [Trainings -> BOOLEAN]

LEMMA TurnEffect ==
  ASSUME JobsInv, NEW w \in Workers, Turn(w)
  PROVE  Turned(w)
<1>1. JobTypes /\ Placed(w)
  BY DEF JobsInv
<1> QED BY <1>1, TurnMoves, TurnEdges, TurnQueue, TurnDataset, TurnModels DEF Turned

(***************************************************************************)
(* The invariant is kept, one conjunct after the other.                    *)
(***************************************************************************)
JobsStep == \/ Asks \/ Sweeps
            \/ \E w \in Workers, j \in Jobs : Takes(w, j)
            \/ \E w \in Workers : Turn(w) /\ Turned(w)

LEMMA JobsNext ==
  ASSUME JobsInv, [JobNext]_jobVars
  PROVE  JobsStep
<1>0. JobTypes /\ Counted
  BY DEF JobsInv
<1>1. ASSUME NEW j \in Jobs, Enqueue(j) \/ Cancel(j) \/ Expire(j) PROVE JobsStep
  BY <1>0, <1>1, RequestEffect DEF JobsStep
<1>2. ASSUME NEW w \in Workers, Take(w) PROVE JobsStep
  BY <1>0, <1>2, SweepEffect, ClaimEffect DEF Take, JobsStep
<1>3. ASSUME NEW w \in Workers, WorkerStep(w) \/ Trouble(w) \/ WorkerCrash(w) PROVE JobsStep
  BY <1>3, TurnEffect DEF Turn, JobsStep
<1>4. CASE UNCHANGED jobVars
  BY <1>0, <1>4 DEF jobVars, queue, JobTypes, Asks, Asked, JobsStep
<1> QED BY <1>1, <1>2, <1>3, <1>4 DEF JobNext

LEMMA JobTypesKept ==
  ASSUME JobsInv, JobsStep
  PROVE  JobTypes' /\ Counted'
<1>0. JobTypes /\ Counted /\ MaxAttempts \in Nat
  BY DEF JobsInv
<1>1. CASE Asks
  BY <1>0, <1>1 DEF Asks, JobTypes, Counted
<1>2. CASE Sweeps
  <2>1. data' \in {"created", "validating", "valid", "invalid"}
    BY <1>0, <1>2 DEF Sweeps, Cleaned, JobTypes
  <2> QED BY <1>0, <1>2, <2>1 DEF Sweeps, Cleaned, JobTypes, Counted
<1>3. ASSUME NEW w \in Workers, NEW j \in Jobs, Takes(w, j)
      PROVE  JobTypes' /\ Counted'
  <2>1. data' \in {"created", "validating", "valid", "invalid"}
    BY <1>0, <1>3 DEF Takes, Cleaned, JobTypes
  <2>2. /\ attempts' = [attempts EXCEPT ![j] = @ + 1] /\ gen' = [gen EXCEPT ![j] = @ + 1]
        /\ attempts[j] < MaxAttempts
    BY <1>3 DEF Takes
  <2>3. attempts \in [Jobs -> Nat] /\ gen \in [Jobs -> Nat]
    BY <1>0 DEF JobTypes
  <2>4. attempts' \in [Jobs -> Nat] /\ gen' \in [Jobs -> Nat]
    BY <2>2, <2>3
  <2>5. Counted'
    BY <1>0, <2>2, <2>3 DEF Counted
  <2> QED BY <1>0, <1>3, <2>1, <2>4, <2>5 DEF Takes, Cleaned, JobTypes
<1>4. ASSUME NEW w \in Workers, Turned(w) PROVE JobTypes' /\ Counted'
  <2>1. status' \in [Jobs -> JobStatus] /\ owner' \in [Jobs -> Workers \union {Nobody}]
    <3>1. \E s \in {"completed", "failed", "cancelled", "retry_wait"} :
             \/ UNCHANGED <<status, owner>>
             \/ /\ status' = [status EXCEPT ![wk[w].job] = s]
                /\ owner' = [owner EXCEPT ![wk[w].job] = Nobody]
      BY <1>4 DEF Turned, Finishing, Retrying
    <3>2. {"completed", "failed", "cancelled", "retry_wait"} \subseteq JobStatus
      BY DEF JobStatus, Final, Unfinished
    <3>3. status \in [Jobs -> JobStatus] /\ owner \in [Jobs -> Workers \union {Nobody}]
      BY <1>0 DEF JobTypes
    <3> HIDE DEF JobStatus
    <3> QED BY <3>1, <3>2, <3>3
  <2> QED BY <1>0, <1>4, <2>1 DEF Turned, Moves, JobTypes, Counted
<1> QED BY <1>1, <1>2, <1>3, <1>4 DEF JobsStep

LEMMA PlacesKept ==
  ASSUME JobsInv, JobsStep
  PROVE  /\ \A v \in Workers : Placed(v)'
         /\ \A v, w \in Workers : Apart(v, w)'
<1>0. /\ JobTypes /\ Counted /\ MaxAttempts \in Nat
      /\ \A v \in Workers : Placed(v)
      /\ \A v, w \in Workers : Apart(v, w)
  BY DEF JobsInv
<1>1. /\ gen \in [Jobs -> Nat] /\ attempts \in [Jobs -> Nat]
      /\ \A v \in Workers : wk[v].gen \in Nat
      /\ \A j \in Jobs : attempts[j] = gen[j]
  BY <1>0 DEF JobTypes, Attempt, Counted
<1>2. CASE Asks \/ Sweeps
  <2>1. wk' = wk /\ gen' = gen
    BY <1>2 DEF Asks, Sweeps
  <2> QED BY <1>0, <2>1 DEF Placed, Apart
<1>3. ASSUME NEW w \in Workers, NEW j \in Jobs, Takes(w, j)
      PROVE  /\ \A v \in Workers : Placed(v)'
             /\ \A u, v \in Workers : Apart(u, v)'
  <2>1. /\ \A v \in Workers : v # w => wk'[v] = wk[v]
        /\ wk'[w].pc = "begin" /\ wk'[w].job = j
        /\ wk'[w].gen = gen[j] + 1 /\ wk'[w].attempt = gen[j] + 1
        /\ gen'[j] = gen[j] + 1 /\ \A i \in Jobs : i # j => gen'[i] = gen[i]
    BY <1>1, <1>3 DEF Takes
  <2>2. ASSUME NEW v \in Workers, v # w PROVE Placed(v)' /\ (Busy(v) /\ wk[v].job = j => wk[v].gen <= gen[j])
    <3>1. wk'[v] = wk[v]
      BY <2>1, <2>2
    <3>2. Busy(v) => gen[wk[v].job] <= gen'[wk[v].job]
      BY <1>0, <1>1, <2>1 DEF Placed
    <3>3. Busy(v) => gen[wk[v].job] \in Nat /\ gen'[wk[v].job] \in Nat
      BY <1>0, <1>1, <2>1 DEF Placed
    <3> QED BY <1>0, <1>1, <3>1, <3>2, <3>3 DEF Placed
  <2>3. Placed(w)'
    BY <1>1, <2>1 DEF Placed
  <2>4. ASSUME NEW u \in Workers, NEW v \in Workers PROVE Apart(u, v)'
    <3>1. CASE u # w /\ v # w
      BY <1>0, <2>1, <3>1 DEF Apart
    <3>2. CASE u = w \/ v = w
      BY <1>1, <2>1, <2>2, <3>2 DEF Apart
    <3> QED BY <3>1, <3>2
  <2> QED BY <2>2, <2>3, <2>4
<1>4. ASSUME NEW w \in Workers, Turned(w)
      PROVE  /\ \A v \in Workers : Placed(v)'
             /\ \A u, v \in Workers : Apart(u, v)'
  <2>1. /\ \A v \in Workers : v # w => wk'[v] = wk[v]
        /\ Busy(w) /\ gen' = gen
        /\ wk'[w].pc # "idle" => /\ wk'[w].job = wk[w].job /\ wk'[w].gen = wk[w].gen
                                 /\ wk'[w].attempt = wk[w].attempt
    BY <1>4 DEF Turned, Moves
  <2>2. Placed(w)'
    BY <1>0, <1>4, <2>1 DEF Placed, Turned
  <2>3. ASSUME NEW v \in Workers, v # w PROVE Placed(v)'
    BY <1>0, <2>1, <2>3 DEF Placed
  <2>4. ASSUME NEW u \in Workers, NEW v \in Workers PROVE Apart(u, v)'
    BY <1>0, <2>1 DEF Apart
  <2> QED BY <2>2, <2>3, <2>4
<1> QED BY <1>2, <1>3, <1>4 DEF JobsStep

\* While the newest attempt is under way nobody but the sweep, the attempt itself and a
\* new claim touches the status, except for asking to cancel.
LEMMA PendingKept ==
  ASSUME JobsInv, JobsStep, NEW v \in Workers
  PROVE  Pending(v)'
<1>0. /\ JobTypes /\ Counted /\ Placed(v) /\ Pending(v)
      /\ \A w \in Workers : Apart(v, w) /\ Placed(w)
      /\ MaxAttempts \in Nat
  BY DEF JobsInv
<1>1. /\ gen \in [Jobs -> Nat] /\ attempts = gen /\ wk[v].gen \in Nat
      /\ status \in [Jobs -> JobStatus] /\ owner \in [Jobs -> Workers \union {Nobody}]
  <2>1. \A j \in Jobs : attempts[j] = gen[j]
    BY <1>0 DEF Counted
  <2> QED BY <1>0, <2>1 DEF JobTypes, Attempt
<1>2. CASE Asks
  <2>1. wk' = wk /\ gen' = gen /\ \A i \in Jobs : Asked(i)
    BY <1>2 DEF Asks
  <2> QED BY <1>0, <2>1 DEF Pending, Placed, Asked, Held
<1>3. CASE Sweeps
  <2>1. wk' = wk /\ gen' = gen /\ \A i \in Jobs : Swept(i)
    BY <1>3 DEF Sweeps
  <2> QED BY <1>0, <1>1, <2>1 DEF Pending, Placed, Swept
<1>4. ASSUME NEW w \in Workers, NEW j \in Jobs, Takes(w, j) PROVE Pending(v)'
  <2>1. /\ v # w => wk'[v] = wk[v]
        /\ \A i \in Jobs : i # j => Swept(i) /\ gen'[i] = gen[i]
        /\ wk'[w].job = j /\ status'[j] \in Held /\ gen'[j] = gen[j] + 1
    BY <1>1, <1>4 DEF Takes, Held
  <2>2. CASE v = w
    BY <2>1, <2>2 DEF Pending
  <2>3. CASE v # w /\ Busy(v) /\ wk[v].job = j
    BY <1>0, <1>1, <2>1, <2>3 DEF Pending, Placed
  <2>4. CASE v # w /\ Busy(v) /\ wk[v].job # j
    <3>1. Swept(wk[v].job) /\ gen'[wk[v].job] = gen[wk[v].job] /\ wk'[v] = wk[v]
      BY <1>0, <2>1, <2>4 DEF Placed
    <3> QED BY <1>0, <1>1, <3>1 DEF Pending, Swept
  <2> QED BY <2>1, <2>2, <2>3, <2>4 DEF Pending
<1>5. ASSUME NEW w \in Workers, Turned(w) PROVE Pending(v)'
  <2>1. /\ v # w => wk'[v] = wk[v]
        /\ Busy(w) /\ gen' = gen /\ wk[w].job \in Jobs
        /\ wk'[w].pc # "idle" => wk'[w].job = wk[w].job /\ wk'[w].gen = wk[w].gen
        /\ UNCHANGED <<status, owner>> \/ Finishing(w) \/ Retrying(w)
    BY <1>0, <1>5 DEF Turned, Moves, Placed
  <2>2. CASE UNCHANGED <<status, owner>>
    BY <1>0, <2>1, <2>2 DEF Pending
  <2>3. CASE v = w /\ (Finishing(w) \/ Retrying(w))
    BY <1>1, <2>1, <2>3 DEF Pending, Finishing, Retrying
  <2>4. CASE v # w /\ (Finishing(w) \/ Retrying(w))
    <3>1. Newest(w)
      BY <2>1, <2>4 DEF Finishing, Retrying, Owned
    <3>2. Newest(v) => wk[v].job # wk[w].job
      BY <1>0, <2>4, <3>1 DEF Apart
    <3>3. Newest(v) => status'[wk[v].job] = status[wk[v].job]
      BY <1>0, <1>1, <2>4, <3>2 DEF Finishing, Retrying, Placed
    <3> QED BY <1>0, <2>1, <2>4, <3>3 DEF Pending
  <2> QED BY <2>1, <2>2, <2>3, <2>4
<1> QED BY <1>2, <1>3, <1>4, <1>5 DEF JobsStep

\* What a training has written stays.
LEMMA TrainingKept ==
  ASSUME JobsInv, JobsStep
  PROVE  ModelsFirst' /\ \A v \in Workers : Trained(v)'
<1>0. /\ JobTypes /\ ModelsFirst
      /\ \A v \in Workers : Trained(v) /\ Placed(v)
  BY DEF JobsInv
<1>1. ASSUME \A i \in Trainings : /\ train'[i] = "completed" <=> train[i] = "completed"
                                  /\ model'[i] = model[i],
             NEW w \in Workers, \A v \in Workers : v # w => wk'[v] = wk[v],
             wk'[w] = wk[w] \/ wk'[w].pc = "begin"
      PROVE  ModelsFirst' /\ \A v \in Workers : Trained(v)'
  <2>1. ModelsFirst'
    BY <1>0, <1>1 DEF ModelsFirst
  <2>2. ASSUME NEW v \in Workers, wk'[v] = wk[v] PROVE Trained(v)'
    BY <1>0, <1>1, <2>2 DEF Trained
  <2>3. wk'[w].pc = "begin" => Trained(w)'
    BY DEF Trained
  <2> QED BY <1>1, <2>1, <2>2, <2>3
<1>2. CASE Asks \/ Sweeps
  <2>1. wk' = wk /\ \A i \in Trainings : /\ train'[i] = "completed" <=> train[i] = "completed"
                                         /\ model'[i] = model[i]
    BY <1>2 DEF Asks, Sweeps, Cleaned
  <2> QED BY <1>0, <2>1 DEF Trained, ModelsFirst
<1>3. ASSUME NEW w \in Workers, NEW j \in Jobs, Takes(w, j)
      PROVE  ModelsFirst' /\ \A v \in Workers : Trained(v)'
  BY <1>1, <1>3 DEF Takes, Cleaned
<1>4. ASSUME NEW w \in Workers, Turn(w), Turned(w)
      PROVE  ModelsFirst' /\ \A v \in Workers : Trained(v)'
  <2>1. /\ Results(w) /\ Busy(w) /\ \A v \in Workers : v # w => wk'[v] = wk[v]
        /\ wk'[w].pc # "idle" => wk'[w].job = wk[w].job
    BY <1>4 DEF Turned, Moves
  <2>2. ModelsFirst'
    BY <1>0, <2>1 DEF ModelsFirst, Results, Trained
  <2>3. ASSUME NEW v \in Workers, v # w PROVE Trained(v)'
    BY <1>0, <2>1, <2>3 DEF Trained, Results
  <2>4. CASE wk[w].job \in Trainings
    <3>1. /\ wk'[w].pc = "settle" => model'[wk[w].job]
          /\ wk'[w].pc \in {"end", "finish"} => train'[wk[w].job] = "completed"
      BY <1>0, <1>4, <2>1, <2>4, TurnTrained
    <3>2. Trained(w)'
      BY <2>1, <3>1 DEF Trained
    <3> QED BY <2>2, <2>3, <3>2
  <2>5. CASE wk[w].job \notin Trainings
    <3>1. Trained(w)'
      BY <2>1, <2>5 DEF Trained
    <3> QED BY <2>2, <2>3, <3>1
  <2> QED BY <2>4, <2>5
<1> QED BY <1>2, <1>3, <1>4 DEF JobsStep

\* Up to its second attempt, a job whose cancellation an attempt has seen is not carried on.
LEMMA HarmlessKept ==
  ASSUME JobsInv, JobsStep, NEW v \in Workers
  PROVE  Harmless(v)'
<1> DEFINE Waiting == {"begin", "retry", "uncancel", "cancelled", "exhausted"}
<1>0. /\ JobTypes /\ Counted /\ Placed(v) /\ Harmless(v) /\ MaxAttempts \in Nat
      /\ \A u, w \in Workers : Apart(u, w)
      /\ \A w \in Workers : Placed(w)
  BY DEF JobsInv
<1>1. /\ gen \in [Jobs -> Nat] /\ \A j \in Jobs : attempts[j] = gen[j]
      /\ \A w \in Workers : wk[w].gen \in Nat
      /\ status \in [Jobs -> JobStatus] /\ Validations \subseteq Jobs
  BY <1>0 DEF JobTypes, Attempt, Counted, Jobs
<1>2. CASE Asks
  <2>1. wk' = wk /\ gen' = gen /\ attempts' = attempts /\ \A i \in Jobs : Asked(i)
    BY <1>2 DEF Asks
  <2> QED BY <1>0, <1>1, <2>1 DEF Harmless, Asked
<1>3. CASE Sweeps
  <2>1. wk' = wk /\ gen' = gen /\ attempts' = attempts /\ \A i \in Jobs : Swept(i)
    BY <1>3 DEF Sweeps
  <2> QED BY <1>0, <1>1, <2>1 DEF Harmless, Swept
<1>4. ASSUME NEW w \in Workers, NEW j \in Jobs, Takes(w, j) PROVE Harmless(v)'
  <2>1. /\ \A u \in Workers : u # w => wk'[u] = wk[u]
        /\ wk'[w].pc = "begin" /\ wk'[w].job = j /\ wk'[w].gen = gen[j] + 1
        /\ \A i \in Jobs : i # j => Swept(i) /\ gen'[i] = gen[i] /\ attempts'[i] = attempts[i]
        /\ gen'[j] = gen[j] + 1 /\ attempts'[j] = gen[j] + 1
        /\ status[j] \in {"queued", "retry_wait", "running", "cancel_requested"}
        /\ status'[j] = IF status[j] = "cancel_requested" THEN "cancel_requested" ELSE "running"
    <3>1. attempts' = [attempts EXCEPT ![j] = @ + 1] /\ gen' = [gen EXCEPT ![j] = @ + 1]
      BY <1>4 DEF Takes
    <3>2. attempts \in [Jobs -> Nat]
      BY <1>0 DEF JobTypes
    <3>3. /\ \A i \in Jobs : i # j => gen'[i] = gen[i] /\ attempts'[i] = attempts[i]
          /\ gen'[j] = gen[j] + 1 /\ attempts'[j] = gen[j] + 1
      BY <1>1, <3>1, <3>2
    <3> QED BY <1>4, <3>3 DEF Takes
  <2>2. CASE v = w
    BY <2>1, <2>2 DEF Harmless
  <2>3. CASE v # w /\ wk[v].pc = "uncancel" /\ wk[v].job = j /\ j \in Validations /\ attempts'[j] <= 2
    <3>1. attempts[j] <= 2 /\ attempts[j] # 2 /\ attempts[j] = gen[j] /\ gen[j] \in Nat
      BY <1>1, <2>1, <2>3
    <3>2. status[j] = "cancel_requested"
      BY <1>0, <2>1, <2>3, <3>1 DEF Harmless
    <3>3. ASSUME NEW u \in Workers, Newest(u)', wk'[u].job = j PROVE u = w
      <4>1. CASE u # w
        <5>1. wk'[u] = wk[u] /\ wk[u].gen <= gen[j]
          BY <1>0, <2>1, <3>3, <4>1 DEF Placed
        <5> QED BY <1>1, <2>1, <3>1, <3>3, <5>1
      <4> QED BY <4>1
    <3> QED BY <2>1, <2>3, <3>2, <3>3 DEF Harmless
  <2>4. CASE v # w /\ wk[v].pc = "uncancel" /\ wk[v].job # j /\ wk[v].job \in Validations
    <3> DEFINE i == wk[v].job
    <3>1. /\ Swept(i) /\ gen'[i] = gen[i] /\ attempts'[i] = attempts[i] /\ wk'[v] = wk[v]
      BY <1>1, <2>1, <2>4
    <3>2. \A u \in Workers : Newest(u)' /\ wk'[u].job = i => Newest(u) /\ wk'[u] = wk[u] /\ wk[u].job = i
      BY <2>1, <2>4, <3>1
    <3> QED BY <1>0, <2>4, <3>1, <3>2 DEF Harmless, Swept
  <2> QED BY <2>1, <2>2, <2>3, <2>4 DEF Harmless
<1>5. ASSUME NEW w \in Workers, Turn(w), Turned(w) PROVE Harmless(v)'
  <2>1. /\ \A u \in Workers : u # w => wk'[u] = wk[u]
        /\ Busy(w) /\ gen' = gen /\ attempts' = attempts /\ wk[w].job \in Jobs
        /\ wk'[w].pc # "idle" => wk'[w].job = wk[w].job /\ wk'[w].gen = wk[w].gen
        /\ wk'[w].pc = "exhausted" => wk[w].pc = "retry"
        /\ wk'[w].pc = "uncancel" => /\ Owned(w) /\ status[wk[w].job] = "cancel_requested"
                                     /\ UNCHANGED <<status, owner>>
        /\ UNCHANGED <<status, owner>> \/ Finishing(w) \/ Retrying(w)
    BY <1>0, <1>5 DEF Turned, Moves, Placed
  <2> SUFFICES ASSUME wk'[v].pc = "uncancel", wk'[v].job \in Validations,
                      attempts'[wk'[v].job] <= 2
               PROVE  Harmless(v)'
    BY DEF Harmless
  <2>2. CASE v = w
    <3>1. /\ Owned(w) /\ wk[w].job \in Validations /\ wk'[w].job = wk[w].job
          /\ status'[wk[w].job] = "cancel_requested"
      BY <2>1, <2>2
    <3>2. ASSUME NEW u \in Workers, Newest(u)', wk'[u].job = wk[w].job PROVE u = w
      <4>1. CASE u # w
        <5>1. Newest(u) /\ wk[u].job = wk[w].job
          BY <2>1, <3>2, <4>1
        <5>2. wk[w].gen = gen[wk[w].job]
          BY <3>1 DEF Owned
        <5> QED BY <1>0, <2>1, <4>1, <5>1, <5>2 DEF Apart
      <4> QED BY <4>1
    <3> QED BY <2>1, <2>2, <3>1, <3>2 DEF Harmless
  <2>3. CASE v # w
    <3> DEFINE i == wk[v].job
    <3>1. wk'[v] = wk[v] /\ wk[v].pc = "uncancel" /\ i \in Validations /\ attempts[i] <= 2
      BY <2>1, <2>3
    <3>2. /\ \/ status[i] \in {"cancel_requested", "failed", "cancelled"}
             \/ status[i] = "retry_wait" /\ attempts[i] = 2
          /\ \A u \in Workers : Newest(u) /\ wk[u].job = i => wk[u].pc \in Waiting
      BY <1>0, <3>1 DEF Harmless
    <3>3. \A u \in Workers : u # w /\ Newest(u)' => Newest(u) /\ wk'[u] = wk[u]
      BY <2>1
    <3>4. wk'[w].pc # "idle" /\ Newest(w)' => Newest(w)
      BY <2>1
    <3> HIDE DEF Waiting, i
    <3>5. CASE wk[w].job # i \/ ~ Newest(w)
      <4>1. status'[i] = status[i]
        <5>1. Finishing(w) \/ Retrying(w) => Newest(w)
          BY <2>1 DEF Finishing, Retrying, Owned
        <5> QED BY <1>1, <2>1, <3>1, <3>5, <5>1 DEF Finishing, Retrying
      <4>2. \A u \in Workers : Newest(u)' /\ wk'[u].job = i => wk'[u].pc \in Waiting
        BY <2>1, <3>2, <3>3, <3>4, <3>5
      <4> QED BY <2>1, <3>1, <3>2, <4>1, <4>2 DEF Harmless, i, Waiting
    <3>6. CASE wk[w].job = i /\ Newest(w)
      <4>1. wk[w].pc \in Waiting /\ status[i] # "running"
        BY <3>2, <3>6
      <4>2. wk'[w].pc \in Waiting \union {"idle"}
        BY <1>0, <1>5, <3>6, <4>1, TurnWaits DEF Waiting
      <4>3. \A u \in Workers : Newest(u)' /\ wk'[u].job = i => wk'[u].pc \in Waiting
        BY <2>1, <3>2, <3>3, <4>2
      <4>4. \/ status'[i] \in {"cancel_requested", "failed", "cancelled"}
            \/ status'[i] = "retry_wait" /\ attempts[i] = 2
        <5>1. CASE UNCHANGED status
          BY <3>2, <5>1
        <5>2. CASE Finishing(w)
          <6>1. wk[w].pc = "cancelled"
            BY <4>1, <5>2 DEF Finishing, Waiting
          <6> QED BY <1>1, <2>1, <3>6, <5>2, <6>1 DEF Finishing
        <5>3. CASE Retrying(w)
          <6>1. attempts[i] = 2
            <7>1. /\ wk[w].gen = gen[i] /\ wk[v].gen # wk[w].gen /\ 1 <= wk[v].gen
                  /\ wk[v].gen <= gen[i] /\ gen[i] = attempts[i]
              BY <1>0, <1>1, <2>1, <2>3, <3>1, <3>6 DEF Apart, Placed, i
            <7>2. wk[v].gen \in Nat /\ gen[i] \in Nat
              BY <1>1, <2>1, <3>6
            <7> QED BY <3>1, <7>1, <7>2
          <6> QED BY <1>1, <2>1, <3>6, <5>3, <6>1 DEF Retrying
        <5> QED BY <2>1, <5>1, <5>2, <5>3
      <4> QED BY <2>1, <3>1, <4>3, <4>4 DEF Harmless, i, Waiting
    <3> QED BY <3>5, <3>6
  <2> QED BY <2>2, <2>3
<1> QED BY <1>2, <1>3, <1>4, <1>5 DEF JobsStep

\* While a validation is on its way, nobody resets its dataset.
LEMMA ValidatedKept ==
  ASSUME JobsInv, JobsStep, NEW v \in Workers
  PROVE  Validated(v)'
<1> DEFINE j == wk[v].job
<1>0. /\ JobTypes /\ Counted /\ Placed(v) /\ Validated(v) /\ MaxAttempts \in Nat
      /\ \A u, w \in Workers : Apart(u, w)
      /\ \A w \in Workers : Placed(w) /\ Harmless(w)
      /\ Nobody \notin Workers
  BY DEF JobsInv
<1>1. /\ gen \in [Jobs -> Nat] /\ attempts \in [Jobs -> Nat]
      /\ \A i \in Jobs : attempts[i] = gen[i] /\ gen[i] <= MaxAttempts
      /\ \A w \in Workers : wk[w].gen \in Nat
      /\ data \in {"created", "validating", "valid", "invalid"}
      /\ status \in [Jobs -> JobStatus] /\ owner \in [Jobs -> Workers \union {Nobody}]
  BY <1>0 DEF JobTypes, Attempt, Counted
<1>k. ASSUME wk'[v] = wk[v], attempts'[j] = attempts[j], Validations = {j} /\ Owned(v)' => Owned(v),
             \/ data' = data
             \/ data' # "created" /\ (Decided => Decided')
             \/ ~ (Busy(v) /\ Validations = {j} /\ Owned(v)')
             \/ wk[v].pc \notin {"compute", "commit", "store", "end", "finish"}
      PROVE  Validated(v)'
  BY <1>0, <1>k DEF Validated
<1>2. CASE Asks
  <2>1. /\ UNCHANGED <<attempts, gen, owner, data, wk>> /\ \A i \in Jobs : Asked(i)
    BY <1>2 DEF Asks
  <2>2. Validations = {j} /\ Owned(v)' => Owned(v)
    BY <2>1 DEF Owned, Held, Asked, Jobs
  <2> QED BY <1>k, <2>1, <2>2
<1>s. ASSUME Cleaned, Swept(j), Validations = {j}, Owned(v)', wk'[v] = wk[v], gen'[j] = gen[j]
      PROVE  Owned(v) /\ data' = data
  <2>1. status'[j] \in Held /\ owner'[j] = v /\ gen'[j] = wk[v].gen
    BY <1>s DEF Owned
  <2>2. status'[j] = status[j] /\ owner[j] = v
    BY <1>0, <1>s, <2>1 DEF Swept, Held
  <2>3. status'[j] \in Unfinished
    BY <2>1 DEF Unfinished
  <2> QED BY <1>s, <2>1, <2>2, <2>3 DEF Owned, Cleaned
<1>3. CASE Sweeps
  <2>1. UNCHANGED <<attempts, gen, wk>> /\ Cleaned /\ \A i \in Jobs : Swept(i)
    BY <1>3 DEF Sweeps
  <2>2. Validations = {j} /\ Owned(v)' => Owned(v) /\ data' = data
    BY <1>s, <2>1 DEF Jobs
  <2> QED BY <1>k, <2>1, <2>2
<1>4. ASSUME NEW w \in Workers, NEW i \in Jobs, Takes(w, i) PROVE Validated(v)'
  <2>1. /\ v # w => wk'[v] = wk[v]
        /\ wk'[w].pc = "begin" /\ Cleaned
        /\ \A k \in Jobs : k # i => Swept(k)
        /\ attempts' = [attempts EXCEPT ![i] = @ + 1] /\ gen' = [gen EXCEPT ![i] = @ + 1]
    BY <1>4 DEF Takes
  <2>2. CASE v = w
    BY <2>1, <2>2 DEF Validated
  <2>3. CASE v # w /\ (j = i \/ ~ Busy(v))
    <3>1. gen'[i] = gen[i] + 1 /\ gen[i] \in Nat
      BY <1>1, <2>1
    <3>2. Busy(v) => ~ Owned(v)'
      BY <1>0, <1>1, <2>1, <2>3, <3>1 DEF Placed, Owned
    <3> QED BY <2>1, <2>3, <3>2 DEF Validated
  <2>4. CASE v # w /\ j # i /\ Busy(v)
    <3>1. gen'[j] = gen[j] /\ attempts'[j] = attempts[j] /\ Swept(j)
      BY <1>0, <1>1, <2>1, <2>4 DEF Placed
    <3>2. Validations = {j} /\ Owned(v)' => Owned(v) /\ data' = data
      BY <1>s, <2>1, <2>4, <3>1
    <3> QED BY <1>k, <2>1, <2>4, <3>1, <3>2
  <2> QED BY <2>2, <2>3, <2>4
<1>5. ASSUME NEW w \in Workers, Turn(w), Turned(w) PROVE Validated(v)'
  <2>1. /\ v # w => wk'[v] = wk[v]
        /\ Busy(w) /\ UNCHANGED <<attempts, gen>> /\ wk[w].job \in Jobs
        /\ wk'[w].pc # "idle" => wk'[w].job = wk[w].job /\ wk'[w].gen = wk[w].gen
        /\ UNCHANGED <<status, owner>> \/ Finishing(w) \/ Retrying(w)
        /\ Dataset(w)
    BY <1>0, <1>5 DEF Turned, Moves, Placed
  <2>2. \/ UNCHANGED <<status, owner>>
        \/ owner'[wk[w].job] = Nobody /\ \A i \in Jobs : i # wk[w].job =>
                                          status'[i] = status[i] /\ owner'[i] = owner[i]
    BY <1>1, <2>1 DEF Finishing, Retrying
  <2>3. ASSUME wk'[v].pc # "idle", Owned(v)', v = w \/ Busy(v) PROVE Owned(v)
    <3>1. wk'[v].job = wk[v].job /\ wk'[v].gen = wk[v].gen /\ wk[v].job \in Jobs
      BY <1>0, <2>1, <2>3 DEF Placed
    <3>2. owner'[wk[v].job] # Nobody
      BY <1>0, <2>3, <3>1 DEF Owned
    <3>3. status'[wk[v].job] = status[wk[v].job] /\ owner'[wk[v].job] = owner[wk[v].job]
      BY <2>2, <3>1, <3>2
    <3> QED BY <2>1, <2>3, <3>1, <3>3 DEF Owned
  <2>4. CASE v = w
    <3> SUFFICES ASSUME wk'[w].pc # "idle", Validations = {wk'[w].job},
                        attempts'[wk'[w].job] <= 2, Owned(w)'
                 PROVE  Validated(w)'
      BY <2>4 DEF Validated
    <3>1. /\ wk'[w].job = wk[w].job /\ wk[w].job \in Validations
          /\ attempts[wk[w].job] <= 2 /\ Owned(w)
      BY <2>1, <2>3, <2>4
    <3>2. /\ wk[w].pc \in {"compute", "commit", "store"} => data # "created"
          /\ wk[w].pc \in {"end", "finish"} => Decided
      BY <1>0, <2>1, <2>4, <3>1 DEF Validated
    <3>3. /\ wk'[w].pc \in {"compute", "commit", "store"} => data' # "created"
          /\ wk'[w].pc \in {"end", "finish"} => Decided'
      BY <1>0, <1>5, <3>1, <3>2, TurnValidated
    <3> QED BY <3>3 DEF Validated
  <2>5. CASE v # w /\ ~ Busy(v)
    BY <2>1, <2>5 DEF Validated
  <2>6. CASE v # w /\ Busy(v)
    <3>1. Owned(v)' => Owned(v)
      BY <2>1, <2>3, <2>6
    <3>2. CASE data' = data \/ (data' # "created" /\ (Decided => Decided'))
      BY <1>k, <2>1, <2>6, <3>1, <3>2
    <3>3. CASE /\ data = "validating" /\ data' = "created"
               /\ wk[w].job \in Validations /\ wk[w].pc \in {"exhausted", "uncancel"}
      <4> SUFFICES ASSUME Validations = {j}, attempts'[j] <= 2, Owned(v)'
                   PROVE  Validated(v)'
        BY <2>1, <2>6 DEF Validated
      <4>1. wk[w].job = j /\ Newest(v) /\ attempts[j] <= 2
        BY <2>1, <2>6, <3>1, <3>3 DEF Owned
      <4>2. CASE wk[w].pc = "uncancel"
        <5>1. wk[v].pc \in {"begin", "retry", "uncancel", "cancelled", "exhausted"}
          BY <1>0, <2>1, <3>3, <4>1, <4>2 DEF Harmless
        <5> QED BY <1>k, <2>1, <2>6, <3>1, <5>1
      <4>3. CASE wk[w].pc = "exhausted"
        <5>1. wk[w].gen = gen[j]
          BY <1>0, <1>1, <2>1, <4>1, <4>3 DEF Placed
        <5> QED BY <1>0, <2>1, <2>6, <4>1, <5>1 DEF Apart
      <4> QED BY <3>3, <4>2, <4>3
    <3> QED BY <1>1, <2>1, <3>2, <3>3 DEF Dataset
  <2> QED BY <2>4, <2>5, <2>6
<1> QED BY <1>2, <1>3, <1>4, <1>5 DEF JobsStep

\* A job completes with its result, which stays.
LEMMA CompletedKept ==
  ASSUME JobsInv, JobsStep
  PROVE  CompletedHasResult'
<1> DEFINE Settled(j) ==
      /\ j \in Trainings => train[j] = "completed" /\ model[j]
      /\ j \in Validations /\ attempts[j] <= 2 /\ Validations = {j} => Decided
<1>0. /\ JobTypes /\ ModelsFirst
      /\ \A j \in Jobs : status[j] = "completed" => Settled(j)
      /\ \A w \in Workers : Placed(w) /\ Trained(w) /\ Validated(w)
  BY DEF JobsInv, CompletedHasResult, Jobs
<1>1. SUFFICES ASSUME NEW j \in Jobs, status'[j] = "completed"
               PROVE  Settled(j)'
  BY DEF CompletedHasResult, Jobs
<1>2. CASE Asks
  <2>1. UNCHANGED <<attempts, data, train, model>> /\ Asked(j)
    BY <1>2 DEF Asks
  <2> QED BY <1>0, <1>1, <2>1 DEF Asked
<1>s. ASSUME Cleaned, status[j] = "completed", attempts'[j] = attempts[j] PROVE Settled(j)'
  BY <1>0, <1>1, <1>s DEF Cleaned
<1>3. CASE Sweeps
  BY <1>1, <1>3, <1>s DEF Sweeps, Swept
<1>4. ASSUME NEW w \in Workers, NEW i \in Jobs, Takes(w, i) PROVE Settled(j)'
  <2>1. j # i
    BY <1>1, <1>4 DEF Takes
  <2>2. status[j] = "completed" /\ Cleaned
    BY <1>1, <1>4, <2>1 DEF Takes, Swept
  <2>3. attempts'[j] = attempts[j]
    BY <1>0, <1>4, <2>1 DEF Takes, JobTypes
  <2> QED BY <1>s, <2>2, <2>3
<1>5. ASSUME NEW w \in Workers, Turned(w) PROVE Settled(j)'
  <2>1. /\ attempts' = attempts /\ Dataset(w) /\ Results(w) /\ Busy(w)
        /\ UNCHANGED <<status, owner>> \/ Finishing(w) \/ Retrying(w)
    BY <1>5 DEF Turned
  <2>2. Settled(j) => Settled(j)'
    BY <2>1 DEF Dataset, Results
  <2>3. status[j] = "completed" \/ (Finishing(w) /\ j = wk[w].job /\ wk[w].pc = "finish")
    <3>1. status \in [Jobs -> JobStatus]
      BY <1>0 DEF JobTypes
    <3> QED BY <1>1, <2>1, <3>1 DEF Finishing, Retrying
  <2>4. Finishing(w) /\ j = wk[w].job /\ wk[w].pc = "finish" => Settled(j)
    BY <1>0, <2>1 DEF Finishing, Trained, Validated, ModelsFirst
  <2> QED BY <1>0, <2>2, <2>3, <2>4
<1> QED BY <1>2, <1>3, <1>4, <1>5 DEF JobsStep

LEMMA JobsInvHolds == JobSpec => []JobsInv
<1>1. JobInit => JobsInv
  <2> SUFFICES ASSUME JobInit PROVE JobsInv
    OBVIOUS
  <2>1. /\ status = [j \in Jobs |-> "none"] /\ attempts = [j \in Jobs |-> 0]
        /\ gen = [j \in Jobs |-> 0] /\ owner = [j \in Jobs |-> Nobody]
        /\ live = [j \in Jobs |-> FALSE] /\ data = "created"
        /\ train = [j \in Trainings |-> "none"] /\ model = [j \in Trainings |-> FALSE]
        /\ wk = [w \in Workers |-> IdleWorker]
    BY DEF JobInit
  <2>2. IdleWorker \in Attempt /\ IdleWorker.pc = "idle"
    BY DEF Attempt, IdleWorker, PC
  <2>3. \A w \in Workers : ~ Busy(w)
    BY <2>1, <2>2
  <2>4. JobTypes
    <3>1. "none" \in JobStatus /\ "none" \in RunStatus
      BY DEF JobStatus, RunStatus
    <3> HIDE DEF JobStatus, Attempt
    <3> QED BY <2>1, <2>2, <3>1 DEF JobTypes
  <2>5. Counted
    BY <2>1 DEF Counted
  <2>6. ModelsFirst /\ CompletedHasResult
    BY <2>1 DEF ModelsFirst, CompletedHasResult, Jobs
  <2>7. \A w \in Workers : /\ Placed(w) /\ Pending(w) /\ Trained(w)
                           /\ Harmless(w) /\ Validated(w)
    BY <2>3 DEF Placed, Pending, Trained, Harmless, Validated
  <2>8. \A v, w \in Workers : Apart(v, w)
    BY <2>3 DEF Apart
  <2> QED BY <2>4, <2>5, <2>6, <2>7, <2>8 DEF JobsInv
<1>2. JobsInv /\ [JobNext]_jobVars => JobsInv'
  <2> SUFFICES ASSUME JobsInv, [JobNext]_jobVars PROVE JobsInv'
    OBVIOUS
  <2>1. JobsStep
    BY JobsNext
  <2> QED BY <2>1, JobTypesKept, PlacesKept, PendingKept, TrainingKept, HarmlessKept, ValidatedKept,
             CompletedKept DEF JobsInv
<1> QED BY <1>1, <1>2, PTL DEF JobSpec

\* A completed training job has its model and a completed run; a completed validation that
\* needed two attempts at most, of a dataset without another, has decided its dataset.
THEOREM JobsCompleteWithResults == JobSpec => []CompletedHasResult
<1>1. JobsInv => CompletedHasResult
  BY DEF JobsInv
<1> QED BY <1>1, JobsInvHolds, PTL

\* Whatever overtaken workers, late retries, sweeps and requests do, a job that ended keeps
\* its outcome.
THEOREM JobOutcomesAreFinal == JobSpec => OutcomeIsFinal
<1>1. JobsInv /\ [JobNext]_jobVars
         => \A j \in Jobs : status[j] \in Final => status'[j] = status[j]
  <2> SUFFICES ASSUME JobsInv, [JobNext]_jobVars, NEW j \in Jobs, status[j] \in Final
               PROVE  status'[j] = status[j]
    OBVIOUS
  <2>0. /\ JobTypes /\ \A w \in Workers : Placed(w) /\ Pending(w)
    BY DEF JobsInv
  <2>1. JobsStep
    BY JobsNext
  <2>2. CASE Asks \/ Sweeps
    BY <2>2 DEF Asks, Asked, Sweeps, Swept, Final, Held
  <2>3. ASSUME NEW w \in Workers, NEW i \in Jobs, Takes(w, i) PROVE status'[j] = status[j]
    BY <2>3 DEF Takes, Swept, Final, Held
  <2>4. ASSUME NEW w \in Workers, Turned(w) PROVE status'[j] = status[j]
    <3>1. status \in [Jobs -> JobStatus]
      BY <2>0 DEF JobTypes
    <3>2. CASE UNCHANGED status
      BY <3>2
    <3>3. CASE Finishing(w)
      <4>1. status[wk[w].job] \in Held
        BY <3>3 DEF Finishing, Owned
      <4>2. wk[w].job # j
        BY <4>1 DEF Held, Final
      <4> QED BY <3>1, <3>3, <4>2 DEF Finishing
    <3>4. CASE Retrying(w)
      <4>1. Pending(w) /\ Newest(w) /\ wk[w].job \in Jobs
        BY <2>0, <3>4 DEF Retrying, Placed
      <4>2. wk[w].job = j => status[j] = "failed" /\ Last(w)
        BY <4>1 DEF Pending, Held, Final
      <4> QED BY <3>1, <3>4, <4>1, <4>2 DEF Retrying
    <3> QED BY <2>4, <3>2, <3>3, <3>4 DEF Turned
  <2> QED BY <2>1, <2>2, <2>3, <2>4 DEF JobsStep
<1>2. JobsInv /\ [JobNext]_jobVars
         => [\A j \in Jobs : status[j] \in Final => status'[j] = status[j]]_jobVars
  BY <1>1
<1> QED BY <1>2, JobsInvHolds, PTL DEF JobSpec, OutcomeIsFinal
============================================================================
