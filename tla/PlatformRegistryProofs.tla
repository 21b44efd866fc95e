----------------------- MODULE PlatformRegistryProofs -----------------------
(***************************************************************************)
(* Theorems about PlatformRegistry for any versions and threads and any    *)
(* number of operations, deployments, restarts and changes of evidence.    *)
(***************************************************************************)
EXTENDS PlatformRegistry, WellFoundedInduction, TLAPS

USE NoneAssumption, OpsAssumption, BoundsAssumption

\* A bounded set of naturals has a greatest element.
LEMMA MaxExists ==
  ASSUME NEW S, NEW n \in Nat, S \subseteq 0..n, S # {}
  PROVE  \E i \in S : \A j \in S : j <= i
<1> DEFINE T == {k \in 0..n : n - k \in S}
<1>1. T \subseteq Nat /\ T # {}
  <2>1. PICK i \in S : TRUE
    OBVIOUS
  <2>2. n - i \in 0..n /\ n - (n - i) = i
    BY <2>1
  <2>3. n - i \in T
    BY <2>2
  <2>4. T \subseteq Nat
    OBVIOUS
  <2> HIDE DEF T
  <2> QED BY <2>3, <2>4
<1>2. PICK x \in T : \A y \in T : ~ (y < x)
  <2> DEFINE R == OpToRel(<, Nat)
  <2> HIDE DEF T
  <2>1. PICK x \in T : \A y \in T : ~ (<<y, x>> \in R)
    <3> HIDE DEF R
    <3>1. IsWellFoundedOn(R, Nat)
      BY NatLessThanWellFounded DEF R
    <3> QED BY <1>1, <3>1, WFMin
  <2> QED BY <1>1, <2>1 DEF OpToRel
<1>3. n - x \in S
  OBVIOUS
<1>4. ASSUME NEW j \in S PROVE j <= n - x
  <2>1. n - j \in 0..n /\ n - (n - j) = j
    OBVIOUS
  <2>2. n - j \in T
    BY <2>1
  <2>3. x \in 0..n /\ ~ (n - j < x)
    BY <1>2, <2>2
  <2> HIDE DEF T
  <2> QED BY <2>1, <2>3
<1> QED BY <1>3, <1>4

(***************************************************************************)
(* The inductive invariant.                                                *)
(***************************************************************************)
OpTypes == AllOps \union {None}
Call == [op : OpTypes, pc : Statements, v : Versions \union {None}, to : States, cur : States,
         prev : Versions \union {None}, row : Nat]
Row  == [v : Versions, active : BOOLEAN, by : AllOps, fit : BOOLEAN]
Past == [verified : SUBSET Versions, approved : SUBSET Versions]

Types ==
    /\ state \in [Versions -> States]
    /\ recent \in [Versions -> Nat]
    /\ rows \in Seq(Row)
    /\ th \in [Threads -> Call]
    /\ past \in Past
    /\ seen \in [Threads -> SUBSET Versions]
    /\ overlapped \in BOOLEAN

\* The statements of each operation.
OnPath(t) ==
    /\ th[t].pc \in {"checks", "verdict"} => th[t].op \in {"verify", "approve", "promote"}
    /\ th[t].pc \in {"approval", "trust"} => th[t].op \in {"approve", "promote"}
    /\ th[t].pc \in {"gate", "deactivate"} => th[t].op \in {"promote", "request"}
    /\ th[t].pc \in {"validate", "insert"} => th[t].op \in {"promote", "request", "rollback"}
    /\ th[t].pc \in {"active", "previous", "retire", "retired"} => th[t].op = "rollback"
    /\ th[t].pc = "post" => th[t].op = "request"
    /\ th[t].pc = "revocable" => th[t].op = "revoke"

\* Each statement has the version and the row that it works on.
Works(t) ==
    /\ th[t].pc \notin {"idle", "active", "previous", "retire", "retired"} => th[t].v \in Versions
    /\ th[t].op = "rollback" =>
         /\ th[t].pc \in {"previous", "validate", "retire", "retired"} => th[t].row \in DOMAIN rows
         /\ th[t].pc \in {"read", "write"} => th[t].to \in {"ROLLED_BACK", "DEPLOYED"}
         /\ \/ th[t].pc \in {"validate", "insert"}
            \/ th[t].pc \in {"read", "write"} /\ th[t].to = "DEPLOYED"
            => th[t].v = th[t].prev
    /\ th[t].op = "promote" /\ th[t].pc = "validate" => th[t].cur = "APPROVED"

\* v has been verified, and approved.
Approved(v) == v \in past.approved /\ v \in past.verified

\* A write is earned whatever happened to the version since it was read.
WriteIsEarned(t) ==
    th[t].pc = "write" => /\ th[t].to = "APPROVED" => th[t].v \in past.verified
                          /\ th[t].to = "DEPLOYED" => Approved(th[t].v)

Deploying(t) ==
    \/ th[t].pc \in {"deactivate", "insert"}
    \/ th[t].pc = "validate" /\ th[t].op # "rollback" /\ th[t].cur = "APPROVED"

\* rollback between its choice of what to restore and its end.
Restores(t) == th[t].op = "rollback" /\ th[t].prev # None

DeployIsEarned(t) ==
    /\ Deploying(t) => Approved(th[t].v)
    /\ Restores(t) => Approved(th[t].prev)

\* What request and rollback promote has passed the gates since they began.
GatesPassed(t) ==
    /\ th[t].op = "request" /\ (Deploying(t) \/ th[t].pc = "gate") => th[t].v \in seen[t]
    /\ Restores(t) /\ th[t].pc # "validate" => th[t].prev \in seen[t]

Fits(t) == OnPath(t) /\ Works(t) /\ WriteIsEarned(t) /\ DeployIsEarned(t) /\ GatesPassed(t)

StateIsEarned ==
    \A v \in Versions : /\ state[v] = "VERIFIED" => v \in past.verified
                        /\ state[v] \in {"APPROVED", "DEPLOYED"} => Approved(v)

\* What the one operation under way has made of the active flag.
Flag(t) ==
    /\ th[t].pc = "insert" \/ (th[t].op = "rollback" /\ th[t].pc \in {"retired", "read", "write"})
         => ActiveRows = {}
    /\ th[t].op = "rollback" /\ th[t].pc \in {"previous", "validate", "retire"}
         => ActiveRows \subseteq {th[t].row}

OneAtATime ==
    ~overlapped =>
        /\ \A t, u \in Threads : th[t].pc # "idle" /\ th[u].pc # "idle" => t = u
        /\ \A i, j \in ActiveRows : i = j
        /\ \A t \in Threads : Flag(t)

Inv ==
    /\ Types /\ StateIsEarned /\ OneAtATime /\ OnlyApprovedDeployed /\ GovernedDeploymentsVetted
    /\ \A t \in Threads : Fits(t)

(***************************************************************************)
(* What a step does to the record of a thread.                             *)
(***************************************************************************)
Others(t) == \A u \in Threads : u # t => th'[u] = th[u]

Moved(t, pc, v, to, cur, prev, row) ==
    /\ th' \in [Threads -> Call] /\ Others(t)
    /\ th'[t].op = th[t].op /\ th'[t].pc = pc /\ th'[t].v = v /\ th'[t].to = to
    /\ th'[t].cur = cur /\ th'[t].prev = prev /\ th'[t].row = row

Finished(t) == th' \in [Threads -> Call] /\ Others(t) /\ th'[t] = Idle

LEMMA IdleIs ==
  /\ Idle \in Call /\ Idle.pc = "idle" /\ Idle.op = None /\ Idle.v = None /\ Idle.prev = None
  /\ Idle.to = "REGISTERED" /\ Idle.cur = "REGISTERED" /\ Idle.row = 0
  BY DEF Idle, Call, OpTypes, Statements, States, Transitions

LEMMA StatesAre ==
  States = {"REGISTERED", "VERIFIED", "APPROVED", "DEPLOYED", "QUARANTINED", "ROLLED_BACK", "REVOKED"}
  BY DEF States, Transitions

LEMMA RecordMoves ==
  ASSUME Types, NEW t \in Threads, NEW y \in Call, th' = [th EXCEPT ![t] = y]
  PROVE  th'[t] = y /\ Others(t) /\ th' \in [Threads -> Call]
  BY DEF Types, Others

LEMMA FinishMoves ==
  ASSUME Types, NEW t \in Threads, Finish(t)
  PROVE  Finished(t)
  BY IdleIs, RecordMoves DEF Finish, Finished

LEMMA GotoMoves ==
  ASSUME Types, NEW t \in Threads, NEW pc \in Statements, Goto(t, pc)
  PROVE  Moved(t, pc, th[t].v, th[t].to, th[t].cur, th[t].prev, th[t].row)
<1> DEFINE y == [th[t] EXCEPT !.pc = pc]
<1>1. th' = [th EXCEPT ![t] = y]
  BY DEF Goto, Transit
<1>2. /\ y \in Call /\ y.op = th[t].op
      /\ y.pc = pc /\ y.v = th[t].v /\ y.to = th[t].to
      /\ y.cur = th[t].cur /\ y.prev = th[t].prev /\ y.row = th[t].row
  BY DEF Types, Call
<1> HIDE DEF y
<1> QED BY <1>1, <1>2, RecordMoves DEF Moved

LEMMA TransitMoves ==
  ASSUME Types, NEW t \in Threads, NEW v \in Versions, NEW to \in States, "read" \in Statements,
         Transit(t, v, to)
  PROVE  Moved(t, "read", v, to, th[t].cur, th[t].prev, th[t].row)
<1> DEFINE y == [th[t] EXCEPT !.pc = "read", !.v = v, !.to = to]
<1>1. th' = [th EXCEPT ![t] = y]
  BY DEF Goto, Transit
<1>2. /\ y \in Call /\ y.op = th[t].op
      /\ y.pc = "read" /\ y.v = v /\ y.to = to
      /\ y.cur = th[t].cur /\ y.prev = th[t].prev /\ y.row = th[t].row
  BY DEF Types, Call
<1> HIDE DEF y
<1> QED BY <1>1, <1>2, RecordMoves DEF Moved

LEMMA CurMoves ==
  ASSUME Types, NEW t \in Threads, NEW pc \in Statements, NEW cur \in States,
         th' = [th EXCEPT ![t].pc = pc, ![t].cur = cur]
  PROVE  Moved(t, pc, th[t].v, th[t].to, cur, th[t].prev, th[t].row)
<1> DEFINE y == [th[t] EXCEPT !.pc = pc, !.cur = cur]
<1>1. th' = [th EXCEPT ![t] = y]
  BY DEF Goto, Transit
<1>2. /\ y \in Call /\ y.op = th[t].op
      /\ y.pc = pc /\ y.v = th[t].v /\ y.to = th[t].to
      /\ y.cur = cur /\ y.prev = th[t].prev /\ y.row = th[t].row
  BY DEF Types, Call
<1> HIDE DEF y
<1> QED BY <1>1, <1>2, RecordMoves DEF Moved

LEMMA ToMoves ==
  ASSUME Types, NEW t \in Threads, NEW pc \in Statements, NEW to \in States,
         th' = [th EXCEPT ![t].pc = pc, ![t].to = to]
  PROVE  Moved(t, pc, th[t].v, to, th[t].cur, th[t].prev, th[t].row)
<1> DEFINE y == [th[t] EXCEPT !.pc = pc, !.to = to]
<1>1. th' = [th EXCEPT ![t] = y]
  BY DEF Goto, Transit
<1>2. /\ y \in Call /\ y.op = th[t].op
      /\ y.pc = pc /\ y.v = th[t].v /\ y.to = to
      /\ y.cur = th[t].cur /\ y.prev = th[t].prev /\ y.row = th[t].row
  BY DEF Types, Call
<1> HIDE DEF y
<1> QED BY <1>1, <1>2, RecordMoves DEF Moved

LEMMA RowMoves ==
  ASSUME Types, NEW t \in Threads, NEW pc \in Statements, NEW row \in Nat,
         th' = [th EXCEPT ![t].pc = pc, ![t].row = row]
  PROVE  Moved(t, pc, th[t].v, th[t].to, th[t].cur, th[t].prev, row)
<1> DEFINE y == [th[t] EXCEPT !.pc = pc, !.row = row]
<1>1. th' = [th EXCEPT ![t] = y]
  BY DEF Goto, Transit
<1>2. /\ y \in Call /\ y.op = th[t].op
      /\ y.pc = pc /\ y.v = th[t].v /\ y.to = th[t].to
      /\ y.cur = th[t].cur /\ y.prev = th[t].prev /\ y.row = row
  BY DEF Types, Call
<1> HIDE DEF y
<1> QED BY <1>1, <1>2, RecordMoves DEF Moved

LEMMA ChoiceMoves ==
  ASSUME Types, NEW t \in Threads, NEW pc \in Statements, NEW v \in Versions,
         th' = [th EXCEPT ![t].pc = pc, ![t].v = v, ![t].prev = v]
  PROVE  Moved(t, pc, v, th[t].to, th[t].cur, v, th[t].row)
<1> DEFINE y == [th[t] EXCEPT !.pc = pc, !.v = v, !.prev = v]
<1>1. th' = [th EXCEPT ![t] = y]
  BY DEF Goto, Transit
<1>2. /\ y \in Call /\ y.op = th[t].op
      /\ y.pc = pc /\ y.v = v /\ y.to = th[t].to
      /\ y.cur = th[t].cur /\ y.prev = v /\ y.row = th[t].row
  BY DEF Types, Call
<1> HIDE DEF y
<1> QED BY <1>1, <1>2, RecordMoves DEF Moved

\* How an operation goes on after its transition.
Continues(t) ==
    \/ Finished(t)
    \/ \E pc \in {"approval", "gate", "post", "insert"} :
         /\ Moved(t, pc, th[t].v, th[t].to, th[t].cur, th[t].prev, th[t].row)
         /\ pc = "approval" => th[t].op \in {"approve", "promote"}
         /\ pc = "gate" => th[t].op = "promote"
         /\ pc = "post" => th[t].op = "request"
         /\ pc = "insert" => th[t].op = "rollback" /\ th[t].to = "DEPLOYED"
    \/ /\ th[t].op = "rollback" /\ th[t].prev # None
       /\ Moved(t, "read", th[t].prev, "DEPLOYED", th[t].cur, th[t].prev, th[t].row)

LEMMA ContinueMoves ==
  ASSUME Types, NEW t \in Threads, Continue(t)
  PROVE  Continues(t)
<1> USE DEF Statements
<1>1. CASE th[t].op \in {"approve", "promote"} /\ th[t].to = "VERIFIED"
  BY <1>1, GotoMoves DEF Continue, Continues
<1>2. CASE th[t].op = "promote" /\ th[t].to = "APPROVED"
  BY <1>2, GotoMoves DEF Continue, Continues
<1>3. CASE th[t].op = "request"
  BY <1>3, GotoMoves DEF Continue, Continues
<1>4. CASE th[t].op = "rollback" /\ th[t].to = "DEPLOYED"
  BY <1>4, GotoMoves DEF Continue, Continues
<1>5. CASE th[t].op = "rollback" /\ th[t].to = "ROLLED_BACK" /\ th[t].prev # None
  <2>1. Transit(t, th[t].prev, "DEPLOYED")
    BY <1>5 DEF Continue
  <2>2. th[t].prev \in Versions /\ "DEPLOYED" \in States
    BY <1>5, StatesAre DEF Types, Call
  <2>3. Moved(t, "read", th[t].prev, "DEPLOYED", th[t].cur, th[t].prev, th[t].row)
    BY <2>1, <2>2, TransitMoves
  <2> QED BY <1>5, <2>3 DEF Continues
<1> QED BY <1>1, <1>2, <1>3, <1>4, <1>5, FinishMoves DEF Continue, Continues

(***************************************************************************)
(* What a step does to the tables and to the history.                      *)
(***************************************************************************)
PastGrows ==
    /\ past' \in Past /\ past.verified \subseteq past'.verified
    /\ past.approved \subseteq past'.approved

\* What was observed of the gates stays while the operation is under way.
SeenGrows ==
    \A u \in Threads : th'[u].op \in {"request", "rollback"} => seen[u] \subseteq seen'[u]

RowsStay ==
    /\ rows' \in Seq(Row)
    /\ \A i \in DOMAIN rows :
          /\ i \in DOMAIN rows' /\ rows'[i].v = rows[i].v /\ rows'[i].by = rows[i].by
          /\ rows'[i].fit = rows[i].fit

LEMMA RowsAre ==
  ASSUME Types
  PROVE  /\ DOMAIN rows = 1 .. Len(rows) /\ Len(rows) \in Nat
         /\ \A i \in DOMAIN rows : rows[i] \in Row
         /\ \A i : i \in ActiveRows <=> i \in DOMAIN rows /\ rows[i].active
  BY DEF Types, ActiveRows

\* Rows whose flags change stay rows.
LEMMA FlagsChange ==
  ASSUME Types, NEW new, DOMAIN new = DOMAIN rows, new = [i \in DOMAIN rows |-> new[i]],
         \A i \in DOMAIN rows : new[i] \in Row
  PROVE  new \in Seq(Row) /\ Len(new) = Len(rows)
<1>1. DOMAIN rows = 1 .. Len(rows) /\ Len(rows) \in Nat
  BY RowsAre
<1>2. new \in [1 .. Len(rows) -> Row]
  BY <1>1
<1> QED BY <1>1, <1>2

LEMMA DeactivateEffect ==
  ASSUME Types, NEW t \in Threads, Deactivate(t)
  PROVE  RowsStay /\ DOMAIN rows' = DOMAIN rows /\ ActiveRows' = {}
<1>1. ASSUME NEW i \in DOMAIN rows
      PROVE  /\ rows'[i] \in Row /\ rows'[i].v = rows[i].v /\ rows'[i].by = rows[i].by
             /\ rows'[i].fit = rows[i].fit /\ ~ rows'[i].active
  <2>1. rows'[i] = [rows[i] EXCEPT !.active = FALSE]
    BY DEF Deactivate
  <2>2. rows[i] \in Row
    BY RowsAre
  <2> QED BY <2>1, <2>2 DEF Row
<1>2. DOMAIN rows' = DOMAIN rows /\ rows' = [i \in DOMAIN rows |-> rows'[i]]
  BY DEF Deactivate
<1>3. rows' \in Seq(Row)
  BY <1>1, <1>2, FlagsChange
<1> QED BY <1>1, <1>2, <1>3 DEF RowsStay, ActiveRows

LEMMA RetireEffect ==
  ASSUME Types, NEW t \in Threads, Retire(t), th[t].row \in DOMAIN rows
  PROVE  /\ RowsStay /\ DOMAIN rows' = DOMAIN rows
         /\ \A i : i \in ActiveRows' => i \in ActiveRows /\ i # th[t].row
<1> DEFINE k == th[t].row
<1>1. rows' = [rows EXCEPT ![k] = [@ EXCEPT !.active = FALSE]]
  BY DEF Retire
<1>2. ASSUME NEW i \in DOMAIN rows
      PROVE  /\ rows'[i] \in Row /\ rows'[i].v = rows[i].v /\ rows'[i].by = rows[i].by
             /\ rows'[i].fit = rows[i].fit
             /\ rows'[i].active => rows[i].active /\ i # k
  <2>1. rows[i] \in Row
    BY RowsAre
  <2>2. CASE i = k
    <3>1. rows'[i] = [rows[i] EXCEPT !.active = FALSE]
      BY <1>1, <2>2
    <3> QED BY <2>1, <2>2, <3>1 DEF Row
  <2>3. CASE i # k
    BY <1>1, <2>1, <2>3
  <2> QED BY <2>2, <2>3
<1>3. DOMAIN rows' = DOMAIN rows /\ rows' = [i \in DOMAIN rows |-> rows'[i]]
  BY <1>1
<1>4. rows' \in Seq(Row)
  BY <1>2, <1>3, FlagsChange
<1> QED BY <1>2, <1>3, <1>4 DEF RowsStay, ActiveRows

LEMMA InsertEffect ==
  ASSUME Types, NEW t \in Threads, Insert(t), th[t].v \in Versions, th[t].op \in AllOps
  PROVE  /\ RowsStay
         /\ \A i \in DOMAIN rows' :
               \/ i \in DOMAIN rows
               \/ i = Len(rows) + 1 /\ rows'[i].v = th[t].v /\ rows'[i].by = th[t].op /\ rows'[i].fit = (th[t].v \in seen[t])
         /\ \A i : i \in ActiveRows' => i \in ActiveRows \/ i = Len(rows) + 1
<1> DEFINE new == [v |-> th[t].v, active |-> TRUE, by |-> th[t].op, fit |-> th[t].v \in seen[t]]
<1>1. /\ new \in Row /\ rows' = Append(rows, new) /\ new.v = th[t].v /\ new.by = th[t].op
      /\ new.fit = (th[t].v \in seen[t])
  BY DEF Row, Insert
<1> HIDE DEF new
<1>2. DOMAIN rows = 1 .. Len(rows) /\ Len(rows) \in Nat /\ rows \in Seq(Row)
  BY RowsAre DEF Types
<1>3. /\ rows' \in Seq(Row) /\ DOMAIN rows' = 1 .. Len(rows) + 1
      /\ \A i \in DOMAIN rows : rows'[i] = rows[i]
      /\ rows'[Len(rows) + 1] = new
  BY <1>1, <1>2
<1>4. \A i \in DOMAIN rows' : i \in DOMAIN rows \/ i = Len(rows) + 1
  BY <1>2, <1>3
<1>5. \A i \in DOMAIN rows : i \in DOMAIN rows'
  BY <1>2, <1>3
<1>6. RowsStay
  BY <1>3, <1>5 DEF RowsStay
<1>7. \A i : i \in ActiveRows' => i \in ActiveRows \/ i = Len(rows) + 1
  BY <1>3, <1>4 DEF ActiveRows
<1>8. /\ rows'[Len(rows) + 1].v = th[t].v /\ rows'[Len(rows) + 1].by = th[t].op
      /\ rows'[Len(rows) + 1].fit = (th[t].v \in seen[t])
  BY <1>1, <1>3
<1>9. ASSUME NEW i \in DOMAIN rows', i \notin DOMAIN rows
      PROVE  i = Len(rows) + 1 /\ rows'[i].v = th[t].v /\ rows'[i].by = th[t].op /\ rows'[i].fit = (th[t].v \in seen[t])
  <2>1. i = Len(rows) + 1
    BY <1>4, <1>9
  <2> QED BY <1>8, <2>1, Zenon
<1> QED BY <1>6, <1>7, <1>9

LEMMA WriteEffect ==
  ASSUME Types, NEW t \in Threads, Write(t), th[t].v \in Versions
  PROVE  /\ PastGrows
         /\ th[t].to = "VERIFIED" => th[t].v \in past'.verified
         /\ th[t].to = "APPROVED" => th[t].v \in past'.approved
         /\ state' = [state EXCEPT ![th[t].v] = th[t].to]
         /\ recent' \in [Versions -> Nat]
<1>1. CASE th[t].to = "VERIFIED"
  <2>1. past' = [past EXCEPT !.verified = @ \union {th[t].v}] /\ past \in Past
    BY <1>1 DEF Write, HistoryOf, Types
  <2>2. /\ past'.verified = past.verified \union {th[t].v} /\ past'.approved = past.approved
        /\ past' \in Past
    BY <2>1 DEF Past
  <2> QED BY <1>1, <2>2 DEF PastGrows, Types, Write
<1>2. CASE th[t].to = "APPROVED"
  <2>1. past' = [past EXCEPT !.approved = @ \union {th[t].v}] /\ past \in Past
    BY <1>2 DEF Write, HistoryOf, Types
  <2>2. /\ past'.approved = past.approved \union {th[t].v} /\ past'.verified = past.verified
        /\ past' \in Past
    BY <2>1 DEF Past
  <2> QED BY <1>2, <2>2 DEF PastGrows, Types, Write
<1>3. CASE th[t].to \notin {"VERIFIED", "APPROVED"}
  <2>1. past' = past
    BY <1>3 DEF Write
  <2> QED BY <1>3, <2>1 DEF PastGrows, Types, Past, Write
<1> QED BY <1>1, <1>2, <1>3

LEMMA ObserveGrows ==
  ASSUME Types, Observe
  PROVE  SeenGrows /\ seen' \in [Threads -> SUBSET Versions]
<1>1. None \notin {"request", "rollback"}
  BY DEF AllOps
<1> QED BY <1>1 DEF Observe, SeenGrows, Types

\* A version that passes the gates is seen to pass them.
LEMMA EligibleSeen ==
  ASSUME Types, Observe, NEW t \in Threads, NEW v \in Versions, Eligible(v),
         UNCHANGED <<state, evidence>>, th'[t].op \in {"request", "rollback"}
  PROVE  v \in seen'[t]
<1>1. None \notin {"request", "rollback"}
  BY DEF AllOps
<1>2. Eligible(v)'
  BY DEF Eligible
<1> QED BY <1>1, <1>2 DEF Observe

LEMMA NothingGrows ==
  ASSUME Types
  PROVE  /\ UNCHANGED past => PastGrows
         /\ UNCHANGED rows => RowsStay
  BY DEF PastGrows, RowsStay, Types

(***************************************************************************)
(* What a thread relies on survives the steps of the others.               *)
(***************************************************************************)
LEMMA OthersFit ==
  ASSUME Types, NEW u \in Threads, Fits(u), th'[u] = th[u], PastGrows, RowsStay, SeenGrows
  PROVE  Fits(u)'
<1>1. OnPath(u)'
  BY DEF Fits, OnPath
<1>2. Works(u)'
  BY DEF Fits, Works, RowsStay
<1>3. WriteIsEarned(u)'
  BY DEF Fits, WriteIsEarned, Approved, PastGrows
<1>4. DeployIsEarned(u)'
  BY DEF Fits, DeployIsEarned, Deploying, Restores, Approved, PastGrows
<1>5. GatesPassed(u)'
  BY DEF Fits, GatesPassed, SeenGrows, Deploying, Restores, PastGrows
<1> QED BY <1>1, <1>2, <1>3, <1>4, <1>5 DEF Fits

LEMMA IdleFits ==
  ASSUME NEW u \in Threads, th'[u] = Idle
  PROVE  Fits(u)'
  BY IdleIs DEF Fits, OnPath, Works, WriteIsEarned, DeployIsEarned, GatesPassed, SeenGrows, Deploying, Restores

\* The order of the statements that write active flags.
FlagMoves(t) ==
    /\ th'[t].pc = "insert" => \/ th[t].pc = "deactivate"
                               \/ th[t].op = "rollback" /\ th[t].pc \in {"read", "write"}
    /\ th'[t].op = "rollback" /\ th'[t].pc \in {"read", "write"} =>
          th[t].op = "rollback" /\ th[t].pc \in {"retired", "read", "write"}
    /\ th'[t].pc = "retired" => th[t].pc = "retire"
    /\ th'[t].op = "rollback" /\ th'[t].pc \in {"previous", "validate", "retire"} =>
          \/ th[t].pc = "active" /\ ActiveRow # 0 /\ th'[t].row = ActiveRow
          \/ /\ th[t].op = "rollback" /\ th[t].pc \in {"previous", "validate"}
             /\ th'[t].row = th[t].row

\* Thread t has moved, and fits the place it moved to.
Lands(t) == Fits(t)' /\ FlagMoves(t) /\ Others(t) /\ th' \in [Threads -> Call]

LEMMA FinishedLands ==
  ASSUME NEW t \in Threads, Finished(t)
  PROVE  Lands(t)
  BY IdleIs, IdleFits DEF Lands, FlagMoves, Finished

LEMMA ContinueFits ==
  ASSUME Types, NEW t \in Threads, Fits(t), Continues(t), PastGrows, RowsStay, SeenGrows,
         th[t].pc \in {"read", "write", "verdict"}
  PROVE  Lands(t)
<1> DEFINE Same(pc) == Moved(t, pc, th[t].v, th[t].to, th[t].cur, th[t].prev, th[t].row)
<1>0. th[t].v \in Versions /\ (th[t].prev # None => th[t].prev \in Versions)
  BY DEF Types, Call, Fits, Works
<1>1. CASE Finished(t)
  BY <1>1, FinishedLands
<1>2. ASSUME NEW pc \in {"approval", "gate", "post"}, Same(pc),
             pc = "approval" => th[t].op \in {"approve", "promote"},
             pc = "gate" => th[t].op = "promote", pc = "post" => th[t].op = "request"
      PROVE  Lands(t)
  <2>1. th[t].op # "rollback"
    BY <1>2
  <2> QED BY <1>0, <1>2, <2>1
          DEF Lands, FlagMoves, Moved, Fits, OnPath, Works, WriteIsEarned, DeployIsEarned, GatesPassed, SeenGrows, Deploying, Restores
<1>3. CASE Same("insert") /\ th[t].op = "rollback" /\ th[t].to = "DEPLOYED"
  <2>1. th[t].pc # "verdict" /\ th[t].v = th[t].prev /\ Restores(t)
    BY <1>0, <1>3 DEF Fits, OnPath, Works, Restores
  <2>2. Approved(th[t].prev) /\ th[t].prev \in seen[t]
    BY <2>1 DEF Fits, DeployIsEarned, GatesPassed
  <2> QED BY <1>0, <1>3, <2>1, <2>2
          DEF Lands, FlagMoves, Moved, Fits, OnPath, Works, WriteIsEarned, DeployIsEarned, GatesPassed, SeenGrows, Deploying, Restores,
              Approved, PastGrows
<1>4. CASE /\ th[t].op = "rollback" /\ th[t].prev # None
           /\ Moved(t, "read", th[t].prev, "DEPLOYED", th[t].cur, th[t].prev, th[t].row)
  <2>1. Approved(th[t].prev) /\ th[t].prev \in seen[t]
    BY <1>4 DEF Fits, DeployIsEarned, GatesPassed, SeenGrows, Restores
  <2> QED BY <1>0, <1>4, <2>1
          DEF Lands, FlagMoves, Moved, Fits, OnPath, Works, WriteIsEarned, DeployIsEarned, GatesPassed, SeenGrows, Deploying, Restores,
              Approved, PastGrows
<1> QED BY <1>1, <1>2, <1>3, <1>4 DEF Continues

(***************************************************************************)
(* The statements of an operation.                                         *)
(***************************************************************************)
LEMMA TransitionsInto ==
  \A s \in States : /\ "APPROVED" \in Transitions[s] => s = "VERIFIED"
                    /\ "DEPLOYED" \in Transitions[s] => s \in {"APPROVED", "DEPLOYED"}
                    /\ Transitions[s] \subseteq States
  BY DEF States, Transitions

LEMMA ActiveRowIs ==
  ASSUME Types, ActiveRow # 0
  PROVE  ActiveRow \in ActiveRows /\ ActiveRow \in DOMAIN rows
<1>1. ActiveRows # {} /\ ActiveRows \subseteq 0 .. Len(rows) /\ Len(rows) \in Nat
  BY RowsAre DEF ActiveRow
<1>2. \E i \in ActiveRows : \A j \in ActiveRows : j <= i
  BY <1>1, MaxExists
<1> QED BY <1>1, <1>2, RowsAre DEF ActiveRow

LEMMA LatestIs ==
  ASSUME Types, NEW vs, vs \subseteq Versions, vs # {}
  PROVE  Latest(vs) \in vs
<1> DEFINE R == OpToRel(<, Nat)
           S == {recent[v] : v \in vs}
<1>1. S \subseteq Nat /\ S # {}
  BY DEF Types
<1>2. PICK x \in S : \A y \in S : ~ (<<y, x>> \in R)
  <2> HIDE DEF R, S
  <2>1. IsWellFoundedOn(R, Nat)
    BY NatLessThanWellFounded DEF R
  <2> QED BY <1>1, <2>1, WFMin
<1>3. PICK v \in vs : recent[v] = x
  OBVIOUS
<1>4. ASSUME NEW w \in vs PROVE recent[v] <= recent[w]
  <2>1. recent[w] \in Nat /\ recent[v] \in Nat /\ recent[w] \in S
    BY DEF Types
  <2>2. ~ (recent[w] < recent[v])
    BY <1>2, <1>3, <2>1 DEF OpToRel
  <2> QED BY <2>1, <2>2
<1> QED BY <1>3, <1>4 DEF Latest

\* Each statement leaves the thread with what it needs for the next one.
LEMMA ReadFits ==
  ASSUME Inv, NEW t \in Threads, Fits(t), SeenGrows, Read(t)
  PROVE  Lands(t)
<1>1. PastGrows /\ RowsStay
  BY NothingGrows DEF Read, Inv
<1>2. CASE Continue(t)
  BY <1>1, <1>2, ContinueMoves, ContinueFits DEF Read, At, Inv
<1>3. CASE Finish(t)
  BY <1>3, FinishMoves, FinishedLands DEF Inv
<1>4. CASE /\ th[t].to # state[th[t].v] /\ th[t].to \in Transitions[state[th[t].v]]
           /\ th' = [th EXCEPT ![t].pc = "write", ![t].cur = state[th[t].v]]
  <2>1. th[t].v \in Versions /\ th[t].pc = "read"
    BY DEF Read, At, Fits, Works
  <2>2. state[th[t].v] \in States /\ "write" \in Statements
    BY <2>1 DEF Inv, Types, Statements
  <2>3. Moved(t, "write", th[t].v, th[t].to, state[th[t].v], th[t].prev, th[t].row)
    BY <1>4, <2>2, CurMoves DEF Inv
  <2>4. /\ th[t].to = "APPROVED" => th[t].v \in past.verified
        /\ th[t].to = "DEPLOYED" => Approved(th[t].v)
    <3>1. /\ th[t].to = "APPROVED" => state[th[t].v] = "VERIFIED"
          /\ th[t].to = "DEPLOYED" => state[th[t].v] \in {"APPROVED", "DEPLOYED"}
      <4> DEFINE s == state[th[t].v]
      <4>1. s \in States /\ th[t].to \in Transitions[s]
        BY <1>4, <2>2
      <4> HIDE DEF s
      <4>2. /\ th[t].to = "APPROVED" => s = "VERIFIED"
            /\ th[t].to = "DEPLOYED" => s \in {"APPROVED", "DEPLOYED"}
        BY <4>1, TransitionsInto
      <4> QED BY <4>2 DEF s
    <3> QED BY <2>1, <3>1 DEF Inv, StateIsEarned
  <2>5. UNCHANGED <<past, rows>>
    BY DEF Read
  <2> QED BY <2>1, <2>3, <2>4, <2>5
          DEF Lands, FlagMoves, Moved, Fits, OnPath, Works, WriteIsEarned, DeployIsEarned, GatesPassed, SeenGrows, Deploying, Restores,
              Approved
<1> QED BY <1>2, <1>3, <1>4 DEF Read

LEMMA ChecksFits ==
  ASSUME Inv, NEW t \in Threads, Fits(t), SeenGrows, Checks(t)
  PROVE  Lands(t)
<1>1. PICK to \in {"VERIFIED", "QUARANTINED"} : th' = [th EXCEPT ![t].pc = "verdict", ![t].to = to]
  BY DEF Checks
<1>2. Moved(t, "verdict", th[t].v, to, th[t].cur, th[t].prev, th[t].row)
  BY <1>1, ToMoves, StatesAre DEF Statements, Inv
<1> QED BY <1>2 DEF Checks, At, Lands, FlagMoves, Moved, Fits, OnPath, Works, WriteIsEarned, DeployIsEarned, GatesPassed, SeenGrows,
                    Deploying, Restores, Approved

\* A statement that only goes on, to a place that asks for no more than it has.
LEMMA GotoFits ==
  ASSUME Inv, NEW t \in Threads, Fits(t), SeenGrows, NEW pc \in {"read", "trust"}, Goto(t, pc),
         UNCHANGED <<past, rows>>, th[t].pc \in {"verdict", "approval"},
         pc = "trust" => th[t].pc = "approval"
  PROVE  Lands(t)
<1>1. Moved(t, pc, th[t].v, th[t].to, th[t].cur, th[t].prev, th[t].row)
  BY GotoMoves DEF Statements, Inv
<1> QED BY <1>1 DEF Lands, FlagMoves, Moved, Fits, OnPath, Works, WriteIsEarned, DeployIsEarned, GatesPassed, SeenGrows,
                    Deploying, Restores, Approved

\* A transition begins, outside rollback.
LEMMA TransitFits ==
  ASSUME Inv, NEW t \in Threads, Fits(t), SeenGrows, NEW v \in Versions, NEW to \in States, Transit(t, v, to),
         UNCHANGED past, RowsStay, th[t].op # "rollback"
  PROVE  Lands(t)
<1>1. Moved(t, "read", v, to, th[t].cur, th[t].prev, th[t].row)
  BY TransitMoves DEF Statements, Inv
<1> QED BY <1>1 DEF Lands, FlagMoves, Moved, Fits, OnPath, Works, WriteIsEarned, DeployIsEarned, GatesPassed, SeenGrows,
                    Deploying, Restores, Approved

LEMMA VerdictFits ==
  ASSUME Inv, NEW t \in Threads, Fits(t), SeenGrows, Verdict(t)
  PROVE  Lands(t)
<1>1. Goto(t, "read") \/ Continue(t)
  BY DEF Verdict
<1>2. th[t].pc = "verdict" /\ UNCHANGED <<past, rows>>
  BY DEF Verdict, At
<1> QED BY <1>1, <1>2, GotoFits, ContinueMoves, ContinueFits, NothingGrows DEF Inv

LEMMA ApprovalFits ==
  ASSUME Inv, NEW t \in Threads, Fits(t), SeenGrows, Approval(t) \/ Trust(t)
  PROVE  Lands(t)
<1>1. CASE Finish(t)
  BY <1>1, FinishMoves, FinishedLands DEF Inv
<1>2. CASE Approval(t) /\ Goto(t, "trust")
  BY <1>2, GotoFits DEF Approval, At
<1>3. CASE Trust(t) /\ Transit(t, th[t].v, "APPROVED")
  <2>1. th[t].op # "rollback" /\ th[t].v \in Versions /\ UNCHANGED past /\ RowsStay
    BY <1>3, NothingGrows DEF Trust, At, Fits, OnPath, Works, Inv
  <2> QED BY <1>3, <2>1, TransitFits, StatesAre
<1> QED BY <1>1, <1>2, <1>3 DEF Approval, Trust

LEMMA ValidateFits ==
  ASSUME Inv, NEW t \in Threads, Fits(t), SeenGrows, Observe, Validate(t)
  PROVE  Lands(t)
<1>1. th[t].pc = "validate" /\ th[t].v \in Versions /\ UNCHANGED <<state, evidence, past, rows>>
  BY DEF Validate, At, Fits, Works
<1>2. Eligible(th[t].v) /\ th'[t].op \in {"request", "rollback"} => th[t].v \in seen'[t]
  BY <1>1, EligibleSeen DEF Inv
<1>3. CASE Finish(t)
  BY <1>2, <1>3, FinishMoves, FinishedLands DEF Inv
<1>4. ASSUME NEW pc \in {"deactivate", "gate", "retire"}, Goto(t, pc),
             pc = "deactivate" => th[t].cur = "APPROVED" /\ th[t].op # "rollback",
             pc = "gate" => Eligible(th[t].v) /\ th[t].op = "request",
             pc = "retire" => /\ Eligible(th[t].v) /\ th[t].op # "request"
                              /\ ~ (th[t].cur = "APPROVED" /\ th[t].op # "rollback")
      PROVE  Lands(t)
  <2>1. Moved(t, pc, th[t].v, th[t].to, th[t].cur, th[t].prev, th[t].row)
    BY <1>4, GotoMoves DEF Statements, Inv
  <2>2. pc = "retire" => th[t].op = "rollback"
    BY <1>1, <1>4 DEF Fits, OnPath, Works
  <2> QED BY <1>1, <1>2, <1>4, <2>1, <2>2
          DEF Lands, FlagMoves, Moved, Fits, OnPath, Works, WriteIsEarned, DeployIsEarned, GatesPassed, SeenGrows, Deploying, Restores,
              Approved, PastGrows
<1> QED BY <1>2, <1>3, <1>4 DEF Validate

LEMMA GateFits ==
  ASSUME Inv, NEW t \in Threads, Fits(t), SeenGrows, Gate(t)
  PROVE  Lands(t)
<1>1. CASE Finish(t)
  BY <1>1, FinishMoves, FinishedLands DEF Inv
<1>2. CASE state[th[t].v] = "APPROVED" /\ th' = [th EXCEPT ![t].pc = "validate", ![t].cur = "APPROVED"]
  <2>1. Moved(t, "validate", th[t].v, th[t].to, "APPROVED", th[t].prev, th[t].row)
    BY <1>2, CurMoves, StatesAre DEF Statements, Inv
  <2>2. Approved(th[t].v)
    BY <1>2 DEF Gate, At, Fits, Works, Inv, StateIsEarned
  <2> QED BY <2>1, <2>2 DEF Gate, At, Lands, FlagMoves, Moved, Fits, OnPath, Works, WriteIsEarned, DeployIsEarned,
                            GatesPassed, SeenGrows, Deploying, Restores, Approved
<1> QED BY <1>1, <1>2 DEF Gate

LEMMA DeactivateFits ==
  ASSUME Inv, NEW t \in Threads, Fits(t), SeenGrows, Deactivate(t)
  PROVE  Lands(t)
<1>1. Moved(t, "insert", th[t].v, th[t].to, th[t].cur, th[t].prev, th[t].row)
  BY GotoMoves DEF Deactivate, Statements, Inv
<1> QED BY <1>1 DEF Deactivate, At, Lands, FlagMoves, Moved, Fits, OnPath, Works, WriteIsEarned, DeployIsEarned,
                    GatesPassed, SeenGrows, Deploying, Restores, Approved

LEMMA InsertFits ==
  ASSUME Inv, NEW t \in Threads, Fits(t), SeenGrows, Insert(t), RowsStay
  PROVE  Lands(t)
<1>1. CASE Finish(t)
  BY <1>1, FinishMoves, FinishedLands DEF Inv
<1>2. CASE th[t].op # "rollback" /\ Transit(t, th[t].v, "DEPLOYED")
  BY <1>2, TransitFits, StatesAre DEF Insert, At, Fits, Works
<1> QED BY <1>1, <1>2 DEF Insert

LEMMA ActiveFits ==
  ASSUME Inv, NEW t \in Threads, Fits(t), SeenGrows, Active(t)
  PROVE  Lands(t)
<1>1. CASE Finish(t)
  BY <1>1, FinishMoves, FinishedLands DEF Inv
<1>2. CASE ActiveRow # 0 /\ th' = [th EXCEPT ![t].pc = "previous", ![t].row = ActiveRow]
  <2>1. ActiveRow \in DOMAIN rows /\ ActiveRow \in Nat
    BY <1>2, ActiveRowIs, RowsAre DEF Inv
  <2>2. Moved(t, "previous", th[t].v, th[t].to, th[t].cur, th[t].prev, ActiveRow)
    BY <1>2, <2>1, RowMoves DEF Statements, Inv
  <2> QED BY <1>2, <2>1, <2>2 DEF Active, At, Lands, FlagMoves, Moved, Fits, OnPath, Works, WriteIsEarned, DeployIsEarned,
                            GatesPassed, SeenGrows, Deploying, Restores, Approved
<1> QED BY <1>1, <1>2 DEF Active

LEMMA PreviousFits ==
  ASSUME Inv, NEW t \in Threads, Fits(t), SeenGrows, Previous(t)
  PROVE  Lands(t)
<1> DEFINE found == Restorable(rows[th[t].row].v)
<1>1. CASE Goto(t, "retire")
  <2>1. Moved(t, "retire", th[t].v, th[t].to, th[t].cur, th[t].prev, th[t].row)
    BY <1>1, GotoMoves DEF Statements, Inv
  <2> QED BY <2>1 DEF Previous, At, Lands, FlagMoves, Moved, Fits, OnPath, Works, WriteIsEarned, DeployIsEarned,
                      GatesPassed, SeenGrows, Deploying, Restores, Approved
<1>2. CASE /\ found # {}
           /\ th' = [th EXCEPT ![t].pc = "validate", ![t].v = Latest(found), ![t].prev = Latest(found)]
  <2>1. \A v \in found : v \in Versions /\ state[v] \in {"DEPLOYED", "APPROVED"}
    BY DEF Restorable
  <2>2. Latest(found) \in found
    <3> HIDE DEF found
    <3> QED BY <1>2, <2>1, LatestIs DEF Inv
  <2> DEFINE v == Latest(found)
  <2>3. v \in Versions /\ Approved(v)
    BY <2>1, <2>2 DEF Inv, StateIsEarned
  <2>4. th' = [th EXCEPT ![t].pc = "validate", ![t].v = v, ![t].prev = v]
    BY <1>2
  <2> HIDE DEF v
  <2>5. Moved(t, "validate", v, th[t].to, th[t].cur, v, th[t].row)
    BY <2>3, <2>4, ChoiceMoves DEF Statements, Inv
  <2> QED BY <2>3, <2>5 DEF Previous, At, Lands, FlagMoves, Moved, Fits, OnPath, Works, WriteIsEarned, DeployIsEarned,
                            GatesPassed, SeenGrows, Deploying, Restores, Approved
<1> QED BY <1>1, <1>2 DEF Previous, Goto

LEMMA RetireFits ==
  ASSUME Inv, NEW t \in Threads, Fits(t), SeenGrows, Retire(t), RowsStay
  PROVE  Lands(t)
<1>1. Moved(t, "retired", th[t].v, th[t].to, th[t].cur, th[t].prev, th[t].row)
  BY GotoMoves DEF Retire, Statements, Inv
<1> QED BY <1>1 DEF Retire, At, Lands, FlagMoves, Moved, Fits, OnPath, Works, WriteIsEarned, DeployIsEarned,
                    GatesPassed, SeenGrows, Deploying, Restores, Approved, RowsStay

LEMMA RetiredFits ==
  ASSUME Inv, NEW t \in Threads, Fits(t), SeenGrows, Retired(t)
  PROVE  Lands(t)
<1> DEFINE v == rows[th[t].row].v
<1>1. th[t].pc = "retired" /\ th[t].op = "rollback" /\ th[t].row \in DOMAIN rows /\ UNCHANGED <<past, rows>>
  BY DEF Retired, At, Fits, OnPath, Works
<1>2. v \in Versions
  BY <1>1, RowsAre DEF Inv, Row
<1>3. CASE Finish(t)
  BY <1>3, FinishMoves, FinishedLands DEF Inv
<1>4. CASE Transit(t, v, "ROLLED_BACK")
  <2>1. Moved(t, "read", v, "ROLLED_BACK", th[t].cur, th[t].prev, th[t].row)
    <3> HIDE DEF v
    <3> QED BY <1>2, <1>4, TransitMoves, StatesAre DEF Statements, Inv
  <2> QED BY <1>1, <1>2, <2>1
          DEF Lands, FlagMoves, Moved, Fits, OnPath, Works, WriteIsEarned, DeployIsEarned, GatesPassed, SeenGrows, Deploying, Restores, Approved
<1>5. CASE th[t].prev # None /\ Transit(t, th[t].prev, "DEPLOYED")
  <2>1. th[t].prev \in Versions
    BY <1>5 DEF Inv, Types, Call
  <2>2. Moved(t, "read", th[t].prev, "DEPLOYED", th[t].cur, th[t].prev, th[t].row)
    BY <1>5, <2>1, TransitMoves, StatesAre DEF Statements, Inv
  <2> QED BY <1>1, <2>1, <2>2
          DEF Lands, FlagMoves, Moved, Fits, OnPath, Works, WriteIsEarned, DeployIsEarned, GatesPassed, SeenGrows, Deploying, Restores, Approved
<1> QED BY <1>3, <1>4, <1>5 DEF Retired

LEMMA RevocableFits ==
  ASSUME Inv, NEW t \in Threads, Fits(t), SeenGrows, Revocable(t)
  PROVE  Lands(t)
<1>1. CASE Finish(t)
  BY <1>1, FinishMoves, FinishedLands DEF Inv
<1>2. CASE Transit(t, th[t].v, "REVOKED")
  BY <1>2, TransitFits, StatesAre, NothingGrows DEF Revocable, At, Fits, OnPath, Works, Inv
<1> QED BY <1>1, <1>2 DEF Revocable

LEMMA WriteFits ==
  ASSUME Inv, NEW t \in Threads, Fits(t), SeenGrows, Write(t)
  PROVE  Lands(t) /\ PastGrows /\ RowsStay
<1>1. th[t].v \in Versions /\ th[t].pc = "write" /\ Continue(t)
  BY DEF Write, At, Fits, Works
<1>2. PastGrows /\ RowsStay
  BY <1>1, WriteEffect, NothingGrows DEF Write, Inv
<1> QED BY <1>1, <1>2, ContinueMoves, ContinueFits DEF Inv

(***************************************************************************)
(* The kinds of steps: a statement of one thread, with what it does to the *)
(* tables and to the history.                                              *)
(***************************************************************************)
Step(t) ==
    Statement(t) /\ Lands(t) /\ PastGrows /\ RowsStay /\ SeenGrows

LEMMA StatementSteps ==
  ASSUME Inv, NEW t \in Threads, Statement(t)
  PROVE  Step(t)
<1>0. Fits(t) /\ Types /\ SeenGrows
  BY ObserveGrows DEF Inv, Statement
<1>1. Lands(t) /\ PastGrows /\ RowsStay
  <2>1. CASE Read(t) \/ Checks(t) \/ Verdict(t) \/ Approval(t) \/ Trust(t)
    BY <1>0, <2>1, ReadFits, ChecksFits, VerdictFits, ApprovalFits, NothingGrows
       DEF Read, Checks, Verdict, Approval, Trust
  <2>2. CASE Write(t) \/ Validate(t)
    BY <1>0, <2>2, WriteFits, ValidateFits, NothingGrows DEF Validate, Statement
  <2>3. CASE Gate(t) \/ Active(t) \/ Previous(t) \/ Retired(t) \/ Revocable(t)
    BY <1>0, <2>3, GateFits, ActiveFits, PreviousFits, RetiredFits, RevocableFits, NothingGrows
       DEF Gate, Active, Previous, Retired, Revocable
  <2>4. CASE Post(t)
    BY <1>0, <2>4, FinishMoves, FinishedLands, NothingGrows DEF Post
  <2>5. CASE Deactivate(t)
    BY <1>0, <2>5, DeactivateFits, DeactivateEffect, NothingGrows DEF Deactivate
  <2>6. CASE Insert(t)
    <3>1. th[t].v \in Versions /\ th[t].op \in AllOps
      BY <1>0, <2>6 DEF Insert, At, Fits, OnPath, Works, AllOps
    <3> QED BY <1>0, <2>6, <3>1, InsertFits, InsertEffect, NothingGrows DEF Insert
  <2>7. CASE Retire(t)
    <3>1. th[t].row \in DOMAIN rows
      BY <1>0, <2>7 DEF Retire, At, Fits, OnPath, Works
    <3> QED BY <1>0, <2>7, <3>1, RetireFits, RetireEffect, NothingGrows DEF Retire
  <2> QED BY <2>1, <2>2, <2>3, <2>4, <2>5, <2>6, <2>7 DEF Statement
<1> QED BY <1>0, <1>1 DEF Step

(***************************************************************************)
(* A statement keeps the invariant.                                        *)
(***************************************************************************)
LEMMA StateKept ==
  ASSUME Inv, NEW t \in Threads, Statement(t), Step(t)
  PROVE  StateIsEarned' /\ state' \in [Versions -> States] /\ recent' \in [Versions -> Nat]
<1>1. CASE Write(t)
  <2>1. Fits(t) /\ th[t].pc = "write" /\ th[t].v \in Versions /\ th[t].to \in States
    BY <1>1 DEF Inv, Types, Call, Write, At, Fits, Works
  <2>2. /\ th[t].to = "VERIFIED" => th[t].v \in past'.verified
        /\ th[t].to = "APPROVED" => th[t].v \in past'.approved
        /\ state' = [state EXCEPT ![th[t].v] = th[t].to]
        /\ recent' \in [Versions -> Nat] /\ PastGrows
    BY <1>1, <2>1, WriteEffect DEF Inv
  <2>3. ASSUME NEW w \in Versions
        PROVE  /\ state'[w] = "VERIFIED" => w \in past'.verified
               /\ state'[w] \in {"APPROVED", "DEPLOYED"} => w \in past'.approved /\ w \in past'.verified
    <3>1. CASE w = th[t].v
      <4>1. state'[w] = th[t].to
        BY <2>1, <2>2, <3>1 DEF Inv, Types
      <4> QED BY <2>1, <2>2, <3>1, <4>1 DEF Fits, WriteIsEarned, Approved, PastGrows
    <3>2. CASE w # th[t].v
      <4>1. state'[w] = state[w]
        BY <2>1, <2>2, <3>2 DEF Inv, Types
      <4> QED BY <2>2, <4>1 DEF Inv, StateIsEarned, Approved, PastGrows
    <3> QED BY <3>1, <3>2
  <2>4. StateIsEarned'
    BY <2>3 DEF StateIsEarned, Approved
  <2> QED BY <2>1, <2>2, <2>4 DEF Inv, Types
<1>2. CASE UNCHANGED <<state, recent>>
  BY <1>2 DEF Inv, Types, StateIsEarned, Approved, Step, PastGrows
<1> QED BY <1>1, <1>2 DEF Statement, Read, Checks, Verdict, Approval, Trust, Validate, Gate, Deactivate, Insert,
                          Post, Active, Previous, Retire, Retired, Revocable

\* What the statements do to the rows.
RowsMove(t) ==
    \/ UNCHANGED rows /\ th[t].pc \notin {"deactivate", "insert", "retire"}
    \/ Deactivate(t) \/ Insert(t) \/ Retire(t)

LEMMA StatementMovesRows ==
  ASSUME NEW t \in Threads, Statement(t)
  PROVE  RowsMove(t) /\ th[t].pc # "idle"
BY DEF RowsMove, Statement, At, Read, Write, Checks, Verdict, Approval, Trust, Validate, Gate, Deactivate, Insert,
       Post, Active, Previous, Retire, Retired, Revocable

LEMMA DeploymentsKept ==
  ASSUME Inv, NEW t \in Threads, Step(t), RowsMove(t)
  PROVE  OnlyApprovedDeployed' /\ GovernedDeploymentsVetted'
<1>0. Fits(t) /\ Types /\ PastGrows /\ RowsStay
  BY DEF Inv, Step
<1>1. CASE DOMAIN rows' = DOMAIN rows
  BY <1>0, <1>1 DEF Inv, OnlyApprovedDeployed, GovernedDeploymentsVetted, RowsStay, PastGrows
<1>2. CASE Insert(t)
  <2>1. th[t].pc = "insert" /\ th[t].v \in Versions /\ th[t].op \in {"promote", "request", "rollback"}
    BY <1>0, <1>2 DEF Insert, At, Fits, OnPath, Works
  <2>2. th[t].v \in past.approved /\ th[t].v \in past.verified
    BY <1>0, <2>1 DEF Fits, DeployIsEarned, Deploying, Approved
  <2>3. th[t].op \in {"request", "rollback"} => th[t].v \in seen[t]
    BY <1>0, <2>1 DEF Fits, GatesPassed, SeenGrows, Deploying, Restores, Works
  <2>4. \A i \in DOMAIN rows' : \/ i \in DOMAIN rows
                                \/ rows'[i].v = th[t].v /\ rows'[i].by = th[t].op /\ rows'[i].fit = (th[t].v \in seen[t])
    BY <1>0, <1>2, <2>1, InsertEffect DEF AllOps
  <2>5. OnlyApprovedDeployed'
    BY <1>0, <2>2, <2>4 DEF Inv, OnlyApprovedDeployed, RowsStay, PastGrows
  <2>6. GovernedDeploymentsVetted'
    BY <1>0, <2>3, <2>4 DEF Inv, GovernedDeploymentsVetted, RowsStay, PastGrows
  <2> QED BY <2>5, <2>6
<1>3. CASE Retire(t)
  <2>1. DOMAIN rows' = DOMAIN rows
    BY <1>0, <1>3, RetireEffect DEF Retire, At, Fits, OnPath, Works
  <2> QED BY <1>1, <2>1
<1> QED BY <1>0, <1>1, <1>2, <1>3, DeactivateEffect DEF RowsMove

\* The active rows after a statement, and what its thread relies on of them,
\* when no other operation is under way.
LEMMA FlagKept ==
  ASSUME Inv, NEW t \in Threads, Step(t), RowsMove(t), ~ overlapped
  PROVE  Flag(t)' /\ \A i, j \in ActiveRows' : i = j
<1>0. Fits(t) /\ Types /\ Flag(t) /\ FlagMoves(t) /\ \A i, j \in ActiveRows : i = j
  BY DEF Inv, OneAtATime, Step, Lands
<1>1. CASE UNCHANGED rows /\ th[t].pc \notin {"deactivate", "insert", "retire"}
  <2>1. ActiveRows' = ActiveRows
    BY <1>1 DEF ActiveRows
  <2>2. ASSUME th[t].pc = "active", ActiveRow # 0, th'[t].row = ActiveRow
        PROVE  ActiveRows \subseteq {th'[t].row}
    BY <1>0, <2>2, ActiveRowIs
  <2> QED BY <1>0, <1>1, <2>1, <2>2 DEF Flag, FlagMoves
<1>2. CASE Deactivate(t)
  <2>1. ActiveRows' = {}
    BY <1>0, <1>2, DeactivateEffect
  <2> QED BY <2>1 DEF Flag
<1>3. CASE Insert(t)
  <2>1. th[t].pc = "insert" /\ th[t].v \in Versions /\ th[t].op \in AllOps
    BY <1>0, <1>3 DEF Insert, At, Fits, OnPath, Works, AllOps
  <2>2. \A i \in ActiveRows' : i = Len(rows) + 1
    BY <1>0, <1>3, <2>1, InsertEffect DEF Flag
  <2>3. Flag(t)'
    BY <1>0, <2>1 DEF Flag, FlagMoves
  <2> QED BY <2>2, <2>3
<1>4. CASE Retire(t)
  <2>1. th[t].pc = "retire" /\ th[t].op = "rollback" /\ th[t].row \in DOMAIN rows
    BY <1>0, <1>4 DEF Retire, At, Fits, OnPath, Works
  <2>2. \A i : i \in ActiveRows' => i \in ActiveRows /\ i # th[t].row
    BY <1>0, <1>4, <2>1, RetireEffect
  <2>3. ActiveRows \subseteq {th[t].row}
    BY <1>0, <2>1 DEF Flag
  <2>4. ActiveRows' = {}
    BY <2>2, <2>3
  <2> QED BY <2>4 DEF Flag
<1> QED BY <1>1, <1>2, <1>3, <1>4 DEF RowsMove

LEMMA ExclusiveKept ==
  ASSUME Inv, NEW t \in Threads, Step(t), RowsMove(t), th[t].pc # "idle", UNCHANGED overlapped
  PROVE  OneAtATime'
<1> SUFFICES ASSUME ~ overlapped
             PROVE  /\ \A v, u \in Threads : th'[v].pc # "idle" /\ th'[u].pc # "idle" => v = u
                    /\ \A i, j \in ActiveRows' : i = j
                    /\ \A u \in Threads : Flag(u)'
  BY DEF OneAtATime
<1>1. \A u \in Threads : u # t => th'[u].pc = "idle"
  BY DEF Inv, OneAtATime, Step, Lands, Others
<1>2. Flag(t)' /\ \A i, j \in ActiveRows' : i = j
  BY FlagKept
<1>3. \A u \in Threads : u # t => Flag(u)'
  BY <1>1 DEF Flag
<1> QED BY <1>1, <1>2, <1>3

LEMMA StatementKeeps ==
  ASSUME Inv, NEW t \in Threads, Statement(t)
  PROVE  Inv'
<1>1. Step(t) /\ RowsMove(t) /\ th[t].pc # "idle" /\ UNCHANGED overlapped
  BY StatementSteps, StatementMovesRows DEF Statement
<1>2. Types'
  BY <1>1, StateKept, ObserveGrows DEF Inv, Types, Step, Lands, PastGrows, RowsStay, Statement
<1>3. StateIsEarned' /\ OneAtATime' /\ OnlyApprovedDeployed' /\ GovernedDeploymentsVetted'
  BY <1>1, StateKept, DeploymentsKept, ExclusiveKept
<1>4. ASSUME NEW u \in Threads PROVE Fits(u)'
  BY <1>1, OthersFit DEF Inv, Step, Lands, Others
<1> QED BY <1>2, <1>3, <1>4 DEF Inv

(***************************************************************************)
(* The other steps.                                                        *)
(***************************************************************************)
\* An operation that begins has chosen nothing to restore and read nothing.
Fresh(t) ==
    /\ th' \in [Threads -> Call] /\ Others(t)
    /\ th'[t].prev = None /\ th'[t].cur = "REGISTERED"
    /\ th'[t].pc \in {"checks", "validate", "active", "read", "revocable"}
    /\ th'[t].pc = "checks" <=> th'[t].op \in {"verify", "approve", "promote"}
    /\ th'[t].pc = "validate" <=> th'[t].op = "request"
    /\ th'[t].pc = "active" <=> th'[t].op = "rollback"
    /\ th'[t].pc = "revocable" <=> th'[t].op = "revoke"
    /\ th'[t].pc # "active" => th'[t].v \in Versions

LEMMA BeginMoves ==
  ASSUME Types, NEW t \in Threads, Begin(t)
  PROVE  Fresh(t)
<1>1. PICK op \in Ops, v \in Versions :
          th' = [th EXCEPT ![t] = [Idle EXCEPT !.op = op, !.pc = FirstOf(op),
                                               !.v = IF op = "rollback" THEN None ELSE v,
                                               !.to = IF op = "quarantine" THEN "QUARANTINED" ELSE @]]
  BY DEF Begin
<1> DEFINE y == [Idle EXCEPT !.op = op, !.pc = FirstOf(op),
                             !.v = IF op = "rollback" THEN None ELSE v,
                             !.to = IF op = "quarantine" THEN "QUARANTINED" ELSE @]
<1>2. op \in AllOps
  OBVIOUS
<1>3. /\ FirstOf(op) \in {"checks", "validate", "active", "read", "revocable"}
      /\ FirstOf(op) = "checks" <=> op \in {"verify", "approve", "promote"}
      /\ FirstOf(op) = "validate" <=> op = "request"
      /\ FirstOf(op) = "active" <=> op = "rollback"
      /\ FirstOf(op) = "revocable" <=> op = "revoke"
  BY <1>2 DEF FirstOf, AllOps
<1>4. /\ y \in Call /\ y.op = op /\ y.pc = FirstOf(op) /\ y.cur = "REGISTERED" /\ y.prev = None
      /\ y.v = IF op = "rollback" THEN None ELSE v
  BY <1>2, <1>3 DEF Idle, Call, OpTypes, Statements, States, Transitions
<1>5. th' = [th EXCEPT ![t] = y]
  BY <1>1
<1> HIDE DEF y
<1> QED BY <1>3, <1>4, <1>5, RecordMoves DEF Fresh

LEMMA BeginKeeps ==
  ASSUME Inv, NEW t \in Threads, Begin(t)
  PROVE  Inv'
<1>1. Fresh(t) /\ UNCHANGED <<state, recent, rows, past>> /\ PastGrows /\ RowsStay
      /\ SeenGrows /\ seen' \in [Threads -> SUBSET Versions]
  BY BeginMoves, NothingGrows, ObserveGrows DEF Begin, Inv
<1>2. Fits(t)' /\ Flag(t)'
  BY <1>1 DEF Fresh, Fits, Flag, OnPath, Works, WriteIsEarned, DeployIsEarned, GatesPassed, SeenGrows, Deploying, Restores
<1>3. ASSUME NEW u \in Threads PROVE Fits(u)'
  BY <1>1, <1>2, OthersFit DEF Fresh, Others, Inv
<1>4. overlapped' \in BOOLEAN
  BY DEF Begin
<1>5. Types' /\ StateIsEarned' /\ OnlyApprovedDeployed' /\ GovernedDeploymentsVetted'
  BY <1>1, <1>4 DEF Inv, Types, StateIsEarned, Approved, OnlyApprovedDeployed, GovernedDeploymentsVetted, Fresh
<1>6. OneAtATime'
  <2> SUFFICES ASSUME ~ overlapped'
               PROVE  /\ \A v, u \in Threads : th'[v].pc # "idle" /\ th'[u].pc # "idle" => v = u
                      /\ \A i, j \in ActiveRows' : i = j
                      /\ \A u \in Threads : Flag(u)'
    BY DEF OneAtATime
  <2>1. ~ overlapped /\ \A u \in Threads : u # t => th[u].pc = "idle"
    BY DEF Begin, At
  <2>2. \A u \in Threads : u # t => th'[u].pc = "idle" /\ Flag(u)'
    BY <1>1, <2>1 DEF Fresh, Others, Flag
  <2>3. \A i, j \in ActiveRows' : i = j
    BY <1>1, <2>1 DEF ActiveRows, Inv, OneAtATime
  <2> QED BY <1>2, <2>2, <2>3
<1> QED BY <1>3, <1>5, <1>6 DEF Inv

LEMMA RestartKeeps ==
  ASSUME Inv, Restart
  PROVE  Inv'
<1>1. /\ th' = [t \in Threads |-> Idle]
      /\ UNCHANGED <<state, recent, rows, past, overlapped>>
      /\ seen' \in [Threads -> SUBSET Versions]
  BY ObserveGrows DEF Restart, Inv
<1>2. \A t \in Threads : Fits(t)'
  BY <1>1, IdleFits
<1>3. th' \in [Threads -> Call] /\ \A t \in Threads : th'[t].pc = "idle"
  BY <1>1, IdleIs
<1>4. Types' /\ StateIsEarned' /\ OnlyApprovedDeployed' /\ GovernedDeploymentsVetted'
  BY <1>1, <1>3 DEF Inv, Types, StateIsEarned, Approved, OnlyApprovedDeployed, GovernedDeploymentsVetted
<1>5. OneAtATime'
  BY <1>1, <1>3 DEF Inv, OneAtATime, Flag, ActiveRows
<1> QED BY <1>2, <1>4, <1>5 DEF Inv

LEMMA StaysKeeps ==
  ASSUME Inv, UNCHANGED <<state, recent, rows, th, past, overlapped>>,
         SeenGrows, seen' \in [Threads -> SUBSET Versions]
  PROVE  Inv'
<1>1. ASSUME NEW t \in Threads PROVE Fits(t)'
  BY OthersFit, NothingGrows DEF Inv
<1>2. Types' /\ StateIsEarned' /\ OnlyApprovedDeployed' /\ GovernedDeploymentsVetted'
  BY DEF Inv, Types, StateIsEarned, Approved, OnlyApprovedDeployed, GovernedDeploymentsVetted
<1>3. OneAtATime'
  BY DEF Inv, OneAtATime, Flag, ActiveRows
<1> QED BY <1>1, <1>2, <1>3 DEF Inv

(***************************************************************************)
(* The invariant, and what it gives.                                       *)
(***************************************************************************)
LEMMA InitInv ==
  ASSUME Init
  PROVE  Inv
<1>1. \A t \in Threads : th[t] = Idle
  BY DEF Init
<1>2. rows = <<>> /\ DOMAIN rows = {} /\ ActiveRows = {}
  BY DEF Init, ActiveRows
<1>3. /\ state \in [Versions -> States] /\ recent \in [Versions -> Nat] /\ rows \in Seq(Row)
      /\ th \in [Threads -> Call] /\ past \in Past /\ overlapped \in BOOLEAN
      /\ seen \in [Threads -> SUBSET Versions]
  <2>1. state \in [Versions -> States]
    BY StatesAre DEF Init
  <2>2. recent \in [Versions -> Nat]
    BY DEF Init, Orders
  <2>3. th \in [Threads -> Call]
    BY IdleIs DEF Init
  <2>4. rows \in Seq(Row)
    BY <1>2
  <2>5. past \in Past
    BY DEF Init, Past
  <2>6. overlapped \in BOOLEAN /\ seen \in [Threads -> SUBSET Versions]
    BY DEF Init
  <2> QED BY <2>1, <2>2, <2>3, <2>4, <2>5, <2>6
<1>4. StateIsEarned /\ OnlyApprovedDeployed /\ GovernedDeploymentsVetted
  BY <1>2 DEF Init, StateIsEarned, OnlyApprovedDeployed, GovernedDeploymentsVetted
<1>5. OneAtATime
  BY <1>1, <1>2, IdleIs DEF OneAtATime, Flag
<1>6. \A t \in Threads : Fits(t)
  BY <1>1, IdleIs DEF Fits, OnPath, Works, WriteIsEarned, DeployIsEarned, GatesPassed, SeenGrows, Deploying, Restores
<1> QED BY <1>3, <1>4, <1>5, <1>6 DEF Inv, Types

LEMMA InvKept ==
  ASSUME Inv, [Next]_vars
  PROVE  Inv'
<1>1. CASE \E t \in Threads : Begin(t)
  BY <1>1, BeginKeeps
<1>2. CASE \E t \in Threads : Statement(t)
  BY <1>2, StatementKeeps
<1>3. CASE \E v \in Versions : Decay(v)
  BY <1>3, StaysKeeps, ObserveGrows DEF Decay, Inv
<1>4. CASE Restart
  BY <1>4, RestartKeeps
<1>5. CASE UNCHANGED vars
  <2>1. SeenGrows /\ seen' \in [Threads -> SUBSET Versions]
    BY <1>5 DEF vars, SeenGrows, Inv, Types
  <2> QED BY <1>5, <2>1, StaysKeeps DEF vars
<1> QED BY <1>1, <1>2, <1>3, <1>4, <1>5 DEF Next

LEMMA AlwaysInv == Spec => []Inv
<1>1. Init => Inv
  BY InitInv
<1>2. Inv /\ [Next]_vars => Inv'
  BY InvKept
<1> QED BY <1>1, <1>2, PTL DEF Spec

\* However the operations overlap and wherever the process is lost, every row
\* of the deployments table names a version that was verified and approved:
\* every write of a transition is unconditional, but what it writes was earned
\* when the state was read and nothing takes it back (registry.py).
THEOREM ProductionIsApproved == Spec => []OnlyApprovedDeployed
<1>1. Inv => OnlyApprovedDeployed
  BY DEF Inv
<1> QED BY <1>1, AlwaysInv, PTL

\* A row that DeploymentService.request or rollback wrote names a version that
\* passed every gate of validate() while that call was under way.
THEOREM ProductionIsVetted == Spec => []GovernedDeploymentsVetted
<1>1. Inv => GovernedDeploymentsVetted
  BY DEF Inv
<1> QED BY <1>1, AlwaysInv, PTL

\* Operations that never overlap, each cut off at any statement by a restart,
\* leave at most one active deployment.
THEOREM OneIsActive == Spec => []ActiveIsExclusive
<1>1. Inv => ActiveIsExclusive
  BY DEF Inv, OneAtATime, ActiveIsExclusive
<1> QED BY <1>1, AlwaysInv, PTL
=============================================================================
