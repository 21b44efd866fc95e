---------------------- MODULE SubmissionVersionsProofs ----------------------
(***************************************************************************)
(* Theorems about SubmissionVersions for any sets of categories, upload    *)
(* requests and concurrent clients.                                        *)
(***************************************************************************)
EXTENDS SubmissionVersions, TLAPS

USE CategoriesAssumption, UploadsAssumption

(***************************************************************************)
(* The inductive invariant.                                                *)
(***************************************************************************)
Status == Open \union Outcomes \union {"uploaded", "validating"}

Client == [pc : PC, up : Uploads \union {None}, seen : Status \union {"none"},
           read : [Categories -> Rows] \union {None}]

Types ==
    /\ status \in Status
    /\ row \in [Categories -> Rows]
    /\ blob \in [Categories -> SUBSET Contents]
    /\ cl \in [Clients -> Client]

\* A client inside upload() works on one of the upload requests.
HasUpload ==
    \A p \in Clients :
        cl[p].pc \in {"find", "category", "replay", "intent", "put", "mark", "fail"}
            => cl[p].up \in Uploads

\* A client that stores bytes does so for a row that was made for these bytes,
\* its own intent or one it resumes, and rows keep their key and bytes.
WorksOnItsRow ==
    \A p \in Clients :
        /\ cl[p].pc \in {"put", "mark", "fail"} => Matches(cl[p].up)
        /\ cl[p].pc = "mark" => cl[p].up.bytes \in blob[cl[p].up.category]

\* A row marked stored has its bytes in storage, and a row is there or NoRow.
StoredIsHeld ==
    \A c \in Categories : /\ row[c].state = "stored" => row[c].bytes \in blob[c]
                          /\ row[c].state = "none" => row[c] = NoRow

\* Nothing closes without the alerts, and what is closed is not opened again.
ClosedHasAlerts ==
    /\ status = "created" <=> Present = {}
    /\ status \notin Open => Alerts \in Present
    /\ \A p \in Clients : cl[p].pc = "close" => Alerts \in Present
    /\ \A p \in Clients :
          cl[p].pc \in {"report", "rows", "claim", "check", "audit", "reset"} => status \notin Open

\* One request validates at a time, and those behind the claim of another have
\* lost it.
OneValidator ==
    /\ \A p \in Clients : /\ cl[p].pc = "check" => status = "validating"
                          /\ cl[p].pc = "audit" => status \in Outcomes
                          /\ cl[p].pc = "reset" => status \in Outcomes \union {"validating"}
    /\ \A p, q \in Clients :
          /\ status = "validating"
          /\ cl[p].pc \in {"check", "reset"} /\ cl[q].pc \in {"check", "reset"}
          => p = q

\* What a validation read is what there still is: stored rows do not change.
ReadIsCurrent ==
    /\ \A p \in Clients : cl[p].pc \in {"claim", "check"} => cl[p].read = row /\ AllStored(row)
    /\ report # None => status \in Outcomes
    /\ status \in Outcomes => report.rows = row /\ AllStored(row)

Inv == /\ Types /\ HasUpload /\ WorksOnItsRow /\ StoredIsHeld
       /\ ClosedHasAlerts /\ OneValidator /\ ReadIsCurrent

(***************************************************************************)
(* What a step does to the clients: one moves, the others stay.            *)
(***************************************************************************)
Others(p) == \A q \in Clients : q # p => cl'[q] = cl[q]

Moved(p, pc) ==
    /\ Others(p)
    /\ cl'[p].pc = pc /\ cl'[p].up = cl[p].up /\ cl'[p].read = cl[p].read

LEMMA GotoMoves ==
  ASSUME Types, NEW p \in Clients, NEW pc \in PC, Goto(p, pc)
  PROVE  Moved(p, pc) /\ cl' \in [Clients -> Client]
  BY DEF Types, Client, Goto, Moved, Others

LEMMA ReturnMoves ==
  ASSUME Types, NEW p \in Clients, Return(p)
  PROVE  Others(p) /\ cl'[p].pc = "idle" /\ cl' \in [Clients -> Client]
<1>1. Idle \in Client
  BY DEF Idle, Client, PC
<1> QED BY <1>1 DEF Types, Return, Others, Idle

LEMMA UploadMoves ==
  ASSUME Types, NEW p \in Clients, NEW u \in Uploads, Upload(p, u)
  PROVE  Others(p) /\ cl'[p].pc = "find" /\ cl'[p].up = u /\ cl' \in [Clients -> Client]
<1>1. [Idle EXCEPT !.pc = "find", !.up = u, !.seen = status] \in Client
  BY DEF Idle, Client, PC, Types
<1> QED BY <1>1 DEF Types, Upload, Others, Idle

LEMMA ReadMoves ==
  ASSUME Types, NEW p \in Clients, cl' = [cl EXCEPT ![p].pc = "claim", ![p].read = row]
  PROVE  /\ Others(p) /\ cl'[p].pc = "claim" /\ cl'[p].up = cl[p].up /\ cl'[p].read = row
         /\ cl' \in [Clients -> Client]
<1> DEFINE y == [cl[p] EXCEPT !.pc = "claim", !.read = row]
<1>1. cl' = [cl EXCEPT ![p] = y]
  BY DEF Types, Client
<1>2. y \in Client /\ y.pc = "claim" /\ y.up = cl[p].up /\ y.read = row
  BY DEF Types, Client, PC
<1> HIDE DEF y
<1> QED BY <1>1, <1>2 DEF Types, Others

LEMMA UploadFields ==
  ASSUME NEW u \in Uploads
  PROVE  u.category \in Categories /\ u.key \in Keys /\ u.bytes \in Contents
  OBVIOUS

\* The moves that touch no table, by the state the client moves to.
Still(p) ==
    /\ UNCHANGED <<status, row, blob, report>>
    /\ LET pc == cl[p].pc  to == cl'[p].pc IN
       \/ to = "idle"
       \/ to = "find" /\ cl'[p].up \in Uploads
       \/ /\ pc \in {"find", "category", "intent", "put", "replay"} /\ cl'[p].up = cl[p].up
          /\ \/ to \in {"category", "replay", "intent"}
             \/ to = "put" /\ Matches(cl[p].up)
             \/ to = "fail" /\ pc = "put"
       \/ to = "artifacts"
       \/ to = "close" /\ Alerts \in Present
       \/ to = "report" /\ status = "uploaded"
       \/ to = "rows" /\ pc = "report"
       \/ to = "claim" /\ pc = "rows" /\ cl'[p].read = row /\ AllStored(row)
       \/ to = "reset" /\ pc \in {"check", "audit"}

\* An intent is written: a row where there was none, in an open version.
Inserts(p) ==
    LET u == cl[p].up IN
    /\ cl[p].pc = "intent" /\ cl'[p].pc = "put" /\ cl'[p].up = u
    /\ status \in Open /\ status' = "uploading"
    /\ u.category \notin Present
    /\ row' = [row EXCEPT ![u.category] = [key |-> u.key, bytes |-> u.bytes, state |-> "uploading"]]
    /\ UNCHANGED <<blob, report>>

Stores(p) ==
    LET u == cl[p].up IN
    /\ cl[p].pc = "put" /\ cl'[p].pc = "mark" /\ cl'[p].up = u
    /\ blob' = [blob EXCEPT ![u.category] = @ \union {u.bytes}]
    /\ UNCHANGED <<status, row, report>>

\* The row's state changes, and never from stored.
Marks(p) ==
    LET c == cl[p].up.category
        to == CASE cl[p].pc = "mark" /\ row[c].state \in {"uploading", "failed"} -> "stored"
                [] cl[p].pc = "fail" /\ row[c].state = "uploading"               -> "failed"
                [] OTHER                                                         -> row[c].state
    IN  /\ cl[p].pc \in {"mark", "fail"} /\ cl'[p].pc = "idle"
        /\ row' = [row EXCEPT ![c].state = to]
        /\ UNCHANGED <<status, blob, report>>

\* The version's status moves on, or back to uploaded.
Advances(p) ==
    /\ UNCHANGED <<row, blob>>
    /\ \/ /\ cl[p].pc = "close" /\ cl'[p].pc = "idle"
          /\ status = "uploading" /\ status' = "uploaded" /\ UNCHANGED report
       \/ /\ cl[p].pc = "claim" /\ cl'[p].pc = "check" /\ cl'[p].read = cl[p].read
          /\ status = "uploaded" /\ status' = "validating" /\ UNCHANGED report
       \/ /\ cl[p].pc = "check" /\ cl'[p].pc = "audit"
          /\ status' \in Outcomes /\ report' = [outcome |-> status', rows |-> cl[p].read]
       \/ /\ cl[p].pc = "reset" /\ cl'[p].pc = "idle"
          /\ status = "validating" /\ status' = "uploaded" /\ UNCHANGED report

Effect(p) ==
    /\ Others(p)
    /\ Still(p) \/ Inserts(p) \/ Stores(p) \/ Marks(p) \/ Advances(p)

\* Every step of a client is one of these, and clients keep their type.
LEMMA StepEffect ==
  ASSUME Types, HasUpload, Next
  PROVE  cl' \in [Clients -> Client] /\ \E p \in Clients : Effect(p)
<1> USE DEF At
<1> DEFINE Goal(p) == cl' \in [Clients -> Client] /\ Effect(p)
<1>1. ASSUME NEW p \in Clients, NEW u \in Uploads, Upload(p, u) PROVE Goal(p)
  BY <1>1, UploadMoves DEF Upload, Effect, Still
<1>2. ASSUME NEW p \in Clients, Find(p) PROVE Goal(p)
  BY <1>2, GotoMoves, ReturnMoves DEF Find, PC, Effect, Moved, Still, Resume
<1>3. ASSUME NEW p \in Clients, CheckCategory(p) PROVE Goal(p)
  BY <1>3, GotoMoves, ReturnMoves DEF CheckCategory, PC, Effect, Moved, Still
<1>4. ASSUME NEW p \in Clients, Replay(p) PROVE Goal(p)
  BY <1>4, GotoMoves, ReturnMoves DEF Replay, PC, Effect, Moved, Still, Resume
<1>5. ASSUME NEW p \in Clients, Intent(p) PROVE Goal(p)
  BY <1>5, GotoMoves, ReturnMoves DEF Intent, PC, Effect, Moved, Still, Inserts
<1>6. ASSUME NEW p \in Clients, Put(p) PROVE Goal(p)
  BY <1>6, GotoMoves, ReturnMoves DEF Put, PC, Effect, Moved, Still, Stores
<1>7. ASSUME NEW p \in Clients, Mark(p) PROVE Goal(p)
  BY <1>7, GotoMoves, ReturnMoves DEF Mark, PC, Effect, Moved, Marks
<1>8. ASSUME NEW p \in Clients, Fail(p) PROVE Goal(p)
  BY <1>8, GotoMoves, ReturnMoves DEF Fail, PC, Effect, Moved, Marks
<1>9. ASSUME NEW p \in Clients, Complete(p) PROVE Goal(p)
  BY <1>9, GotoMoves, ReturnMoves DEF Complete, PC, Effect, Moved, Still
<1>10. ASSUME NEW p \in Clients, CheckStored(p) PROVE Goal(p)
  BY <1>10, GotoMoves, ReturnMoves DEF CheckStored, PC, Effect, Moved, Still
<1>11. ASSUME NEW p \in Clients, Close(p) PROVE Goal(p)
  BY <1>11, GotoMoves, ReturnMoves DEF Close, PC, Effect, Moved, Still, Advances
<1>12. ASSUME NEW p \in Clients, Validate(p) PROVE Goal(p)
  BY <1>12, GotoMoves, ReturnMoves DEF Validate, PC, Effect, Moved, Still
<1>13. ASSUME NEW p \in Clients, CheckReport(p) PROVE Goal(p)
  BY <1>13, GotoMoves, ReturnMoves DEF CheckReport, PC, Effect, Moved, Still
<1>14. ASSUME NEW p \in Clients, ReadArtifacts(p) PROVE Goal(p)
  BY <1>14, GotoMoves, ReturnMoves, ReadMoves DEF ReadArtifacts, PC, Effect, Moved, Still
<1>15. ASSUME NEW p \in Clients, Claim(p) PROVE Goal(p)
  BY <1>15, GotoMoves, ReturnMoves DEF Claim, PC, Effect, Moved, Still, Advances
<1>16. ASSUME NEW p \in Clients, Commit(p) PROVE Goal(p)
  BY <1>16, GotoMoves, ReturnMoves DEF Commit, PC, Effect, Moved, Advances
<1>17. ASSUME NEW p \in Clients, Interrupt(p) PROVE Goal(p)
  BY <1>17, GotoMoves, ReturnMoves DEF Interrupt, PC, Effect, Moved, Still
<1>18. ASSUME NEW p \in Clients, Done(p) PROVE Goal(p)
  BY <1>18, GotoMoves, ReturnMoves DEF Done, PC, Effect, Moved, Still
<1>19. ASSUME NEW p \in Clients, Reset(p) PROVE Goal(p)
  BY <1>19, GotoMoves, ReturnMoves DEF Reset, PC, Effect, Moved, Still, Advances
<1>20. ASSUME NEW p \in Clients, Crash(p) PROVE Goal(p)
  BY <1>20, GotoMoves, ReturnMoves DEF Crash, PC, Effect, Moved, Still
<1> QED BY <1>1, <1>2, <1>3, <1>4, <1>5, <1>6, <1>7, <1>8, <1>9, <1>10, <1>11, <1>12, <1>13, <1>14, <1>15, <1>16, <1>17, <1>18, <1>19, <1>20 DEF Next

(***************************************************************************)
(* Each part of the invariant is kept, by the kind of move.                *)
(***************************************************************************)
LEMMA EffectTypes ==
  ASSUME Types, HasUpload, cl' \in [Clients -> Client], NEW p \in Clients, Effect(p)
  PROVE  Types' /\ HasUpload'
<1>1. cl[p].pc \in {"intent", "put", "mark", "fail"} =>
        /\ cl[p].up \in Uploads /\ cl[p].up.category \in Categories
        /\ cl[p].up.key \in Keys /\ cl[p].up.bytes \in Contents
  BY UploadFields DEF HasUpload
<1>2. HasUpload'
  BY DEF HasUpload, Effect, Others, Still, Inserts, Stores, Marks, Advances
<1>3. CASE Still(p)
  BY <1>2, <1>3 DEF Types, Still
<1>4. CASE Inserts(p)
  BY <1>1, <1>2, <1>4 DEF Types, Inserts, Status, Open, Rows
<1>5. CASE Stores(p)
  BY <1>1, <1>2, <1>5 DEF Types, Stores
<1>6. CASE Marks(p)
  <2>1. row' \in [Categories -> Rows]
    BY <1>1, <1>6 DEF Types, Marks, Rows
  <2> QED BY <1>2, <1>6, <2>1 DEF Types, Marks
<1>7. CASE Advances(p)
  BY <1>2, <1>7 DEF Types, Advances, Status, Open
<1> QED BY <1>3, <1>4, <1>5, <1>6, <1>7 DEF Effect

\* What a move leaves of the rows: those that are there keep key and bytes, and
\* a stored one is left alone.
RowsKept ==
    \A c \in Categories :
        /\ c \in Present => /\ row'[c].key = row[c].key /\ row'[c].bytes = row[c].bytes
                            /\ c \in Present'
        /\ row[c].state = "stored" => row'[c] = row[c]
        /\ blob[c] \subseteq blob'[c]

LEMMA EffectRows ==
  ASSUME Types, HasUpload, WorksOnItsRow, StoredIsHeld, NEW p \in Clients, Effect(p)
  PROVE  /\ RowsKept
         /\ status \notin Open => Present' = Present
         /\ AllStored(row) /\ status \notin Open => row' = row
<1>1. cl[p].pc \in {"intent", "put", "mark", "fail"} =>
         /\ cl[p].up \in Uploads /\ cl[p].up.category \in Categories
         /\ cl[p].up.key \in Keys /\ cl[p].up.bytes \in Contents
  BY UploadFields DEF HasUpload
<1>2. CASE Inserts(p)
  BY <1>1, <1>2 DEF Inserts, Types, Present, RowsKept, NoRow, StoredIsHeld
<1>3. CASE Stores(p)
  BY <1>1, <1>3 DEF Stores, Types, Present, RowsKept
<1>4. CASE Marks(p)
  <2> DEFINE c == cl[p].up.category
             st == CASE cl[p].pc = "mark" /\ row[c].state \in {"uploading", "failed"} -> "stored"
                     [] cl[p].pc = "fail" /\ row[c].state = "uploading"               -> "failed"
                     [] OTHER                                                         -> row[c].state
  <2>1. c \in Categories /\ row[c].key \in Keys /\ row' = [row EXCEPT ![c].state = st]
    BY <1>1, <1>4 DEF Marks, WorksOnItsRow, Matches
  <2>2. st \in {"none", "uploading", "stored", "failed"}
        /\ (row[c].state \in {"none", "stored"} => st = row[c].state)
    BY <2>1 DEF Types, Rows
  <2> HIDE DEF c, st
  <2>3. /\ \A d \in Categories : /\ row'[d].key = row[d].key /\ row'[d].bytes = row[d].bytes
                                 /\ d # c => row'[d] = row[d]
        /\ st = row[c].state => row' = row
    BY <2>1, <2>2 DEF Types, Rows
  <2>6. row'[c].key # None
    BY <2>1, <2>3
  <2>4. Present' = Present
    BY <2>1, <2>3, <2>6 DEF Present, NoRow
  <2>5. blob' = blob
    BY <1>4 DEF Marks
  <2> QED BY <2>1, <2>2, <2>3, <2>4, <2>5 DEF RowsKept, AllStored
<1>5. CASE Still(p) \/ Advances(p)
  BY <1>5 DEF Still, Advances, RowsKept, Present
<1> QED BY <1>2, <1>3, <1>4, <1>5 DEF Effect

LEMMA EffectWorks ==
  ASSUME Types, HasUpload, WorksOnItsRow, StoredIsHeld, NEW p \in Clients, Effect(p)
  PROVE  WorksOnItsRow' /\ StoredIsHeld'
<1>1. \A u \in Uploads : u.category \in Categories /\ u.key \in Keys /\ u.bytes \in Contents
  BY UploadFields
<1>2. RowsKept
  BY EffectRows
<1>3. ASSUME NEW u \in Uploads, Matches(u)
      PROVE  /\ row'[u.category].key = u.key /\ row'[u.category].bytes = u.bytes
             /\ u.category \in Present
  BY <1>1, <1>2, <1>3 DEF Matches, RowsKept, Present, NoRow
<1>4. ASSUME NEW q \in Clients, cl'[q].pc \in {"put", "mark", "fail"}
      PROVE  /\ row'[cl'[q].up.category].key = cl'[q].up.key
             /\ row'[cl'[q].up.category].bytes = cl'[q].up.bytes
             /\ cl'[q].pc = "mark" => cl'[q].up.bytes \in blob'[cl'[q].up.category]
  <2>1. CASE q # p
    BY <1>1, <1>2, <1>3, <1>4, <2>1 DEF Effect, Others, HasUpload, WorksOnItsRow, RowsKept
  <2>2. CASE q = p /\ Still(p)
    BY <1>1, <1>3, <1>4, <2>2 DEF Still, HasUpload, WorksOnItsRow
  <2>3. CASE q = p /\ Inserts(p)
    BY <1>1, <1>4, <2>3 DEF Inserts, HasUpload, Types
  <2>4. CASE q = p /\ Stores(p)
    BY <1>1, <1>3, <1>4, <2>4 DEF Stores, HasUpload, WorksOnItsRow, Types
  <2> QED BY <1>4, <2>1, <2>2, <2>3, <2>4 DEF Effect, Marks, Advances
<1>5. ASSUME NEW c \in Categories
      PROVE  /\ row'[c].state = "stored" => row'[c].bytes \in blob'[c]
             /\ row'[c].state = "none" => row'[c] = NoRow
  <2>1. CASE row'[c] = row[c]
    BY <1>2, <2>1 DEF RowsKept, StoredIsHeld
  <2>2. CASE Inserts(p) /\ row'[c] # row[c]
    BY <2>2 DEF Inserts, Types
  <2>3. CASE Marks(p) /\ row'[c] # row[c]
    <3>1. c = cl[p].up.category /\ cl[p].up \in Uploads /\ Matches(cl[p].up)
          /\ (cl[p].pc = "mark" => cl[p].up.bytes \in blob[c])
      BY <2>3, <1>1 DEF Marks, Types, WorksOnItsRow, HasUpload, Matches
    <3>2. /\ row'[c].bytes = row[c].bytes /\ blob' = blob
          /\ \/ cl[p].pc = "mark" /\ row'[c].state = "stored"
             \/ row'[c].state = "failed"
             \/ row'[c].state = row[c].state /\ row'[c].key = row[c].key
      BY <2>3, <3>1, <1>1 DEF Marks, Types, Rows
    <3>3. row[c].key # None
      BY <3>1, <1>1 DEF Matches
    <3> QED BY <3>1, <3>2, <3>3 DEF Matches, StoredIsHeld, NoRow
  <2> QED BY <2>1, <2>2, <2>3 DEF Effect, Still, Stores, Advances
<1> QED BY <1>4, <1>5 DEF WorksOnItsRow, StoredIsHeld, Matches

LEMMA EffectClosed ==
  ASSUME Types, HasUpload, WorksOnItsRow, StoredIsHeld, ClosedHasAlerts, NEW p \in Clients, Effect(p)
  PROVE  ClosedHasAlerts'
<1>1. Present \subseteq Present' /\ (status \notin Open => Present' = Present)
  BY EffectRows DEF RowsKept, Present
<1>2. CASE Inserts(p)
  <2>1. cl[p].up.category \in Present' /\ status' = "uploading"
    BY <1>2, UploadFields DEF Inserts, Present, HasUpload, Types, NoRow
  <2> QED BY <1>1, <1>2, <2>1 DEF Inserts, Effect, Others, ClosedHasAlerts, Open
<1>3. CASE Marks(p) \/ Stores(p)
  <2>1. status' = status /\ Present # {}
    BY <1>3, UploadFields DEF Marks, Stores, WorksOnItsRow, HasUpload, Matches, Present, NoRow
  <2> QED BY <1>1, <1>3, <2>1 DEF Marks, Stores, Effect, Others, ClosedHasAlerts
<1>4. CASE Still(p)
  BY <1>1, <1>4 DEF Still, Effect, Others, ClosedHasAlerts, Open, Present
<1>5. CASE Advances(p)
  BY <1>1, <1>5 DEF Advances, Effect, Others, ClosedHasAlerts, Open, Outcomes, Present
<1> QED BY <1>2, <1>3, <1>4, <1>5 DEF Effect

LEMMA EffectValidator ==
  ASSUME Types, ClosedHasAlerts, OneValidator, NEW p \in Clients, Effect(p)
  PROVE  OneValidator'
<1>1. CASE Still(p)
  <2>1. status' = status /\ (cl'[p].pc = "reset" => cl[p].pc \in {"check", "audit"})
        /\ cl'[p].pc \notin {"check", "audit"}
    BY <1>1 DEF Still
  <2> QED BY <1>1, <2>1 DEF Effect, Others, OneValidator, Outcomes
<1>2. CASE Inserts(p) \/ Stores(p) \/ Marks(p)
  BY <1>2 DEF Inserts, Stores, Marks, Effect, Others, OneValidator, Open, Outcomes
<1>3. CASE Advances(p)
  BY <1>3 DEF Advances, Effect, Others, OneValidator, Outcomes
<1> QED BY <1>1, <1>2, <1>3 DEF Effect

LEMMA EffectRead ==
  ASSUME Inv, NEW p \in Clients, Effect(p)
  PROVE  ReadIsCurrent'
<1>1. AllStored(row) /\ status \notin Open => row' = row
  BY EffectRows DEF Inv
<1>2. CASE Still(p)
  BY <1>2 DEF Still, Effect, Others, Inv, ReadIsCurrent, AllStored
<1>3. CASE Inserts(p) \/ Stores(p) \/ Marks(p)
  BY <1>1, <1>3 DEF Inserts, Stores, Marks, Effect, Others, Inv, ReadIsCurrent, ClosedHasAlerts,
                    Open, Outcomes, AllStored
<1>4. CASE Advances(p)
  BY <1>4 DEF Advances, Effect, Others, Inv, ReadIsCurrent, OneValidator, Outcomes, AllStored
<1> QED BY <1>2, <1>3, <1>4 DEF Effect

LEMMA NextInv == Inv /\ [Next]_vars => Inv'
<1> SUFFICES ASSUME Inv, [Next]_vars PROVE Inv'
  OBVIOUS
<1>1. ASSUME NEW p \in Clients, Effect(p), cl' \in [Clients -> Client] PROVE Inv'
  BY <1>1, EffectTypes, EffectWorks, EffectClosed, EffectValidator, EffectRead DEF Inv
<1>2. CASE UNCHANGED vars
  BY <1>2 DEF vars, Inv, Types, HasUpload, WorksOnItsRow, StoredIsHeld, ClosedHasAlerts,
              OneValidator, ReadIsCurrent, Matches, Present, AllStored
<1> QED BY <1>1, <1>2, StepEffect DEF Inv

LEMMA InitInv == Init => Inv
<1>1. Idle \in Client
  BY DEF Idle, Client, PC
<1> QED BY <1>1 DEF Init, Inv, Types, HasUpload, WorksOnItsRow, StoredIsHeld, ClosedHasAlerts,
      OneValidator, ReadIsCurrent, Present, AllStored, NoRow, Rows, Status, Open, Outcomes, Idle

LEMMA InvIsInvariant == Spec => []Inv
  BY InitInv, NextInv, PTL DEF Spec

(***************************************************************************)
(* The results.                                                            *)
(***************************************************************************)

\* A validation report covers every artifact, stored with its bytes.
THEOREM ReportIsComplete == Spec => []ReportCoversAll
<1>1. Inv => ReportCoversAll
  BY DEF Inv, ReadIsCurrent, StoredIsHeld, ClosedHasAlerts, ReportCoversAll, Open, Outcomes,
         AllStored, Present, NoRow, Types
<1> QED BY <1>1, InvIsInvariant, PTL

\* A version that has its outcome is not changed by any request.
THEOREM OutcomeStays == Spec => OutcomeIsFrozen
<1>1. Inv /\ [Next]_vars => [(status \in Outcomes) => UNCHANGED <<status, row, report>> ]_vars
  <2> SUFFICES ASSUME Inv, Next, status \in Outcomes PROVE UNCHANGED <<status, row, report>>
    BY DEF vars
  <2>1. PICK p \in Clients : Effect(p)
    BY StepEffect DEF Inv
  <2>2. row' = row
    BY <2>1, EffectRows DEF Inv, ReadIsCurrent, Open, Outcomes
  <2> QED BY <2>1, <2>2 DEF Effect, Still, Inserts, Stores, Marks, Advances, Open, Outcomes,
                            Inv, OneValidator
<1> QED BY <1>1, InvIsInvariant, PTL DEF Spec, OutcomeIsFrozen
=============================================================================
