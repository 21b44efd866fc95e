------------------------ MODULE EvidenceLedgerProofs ------------------------
(***************************************************************************)
(* Theorems about EvidenceLedger for any number of writers, processes,     *)
(* events, packets and faults.                                             *)
(***************************************************************************)
EXTENDS EvidenceLedger, FiniteSetTheorems, TLAPS

USE NoneAssumption, BoundAssumption

(***************************************************************************)
(* The inductive invariant.                                                *)
(***************************************************************************)
PC == {"idle", "begin", "check", "append", "write", "commit", "find", "put"}

Line  == [seq : Nat, prev : Nat, doc : Docs \union {"torn"}, hash : Nat]
Local == [pc : PC, kind : Kind, id : Docs, seq : Nat, prev : Nat, hash : Nat]

Types ==
    /\ dep \in Deployments
    /\ lines \in Seq(Line)
    /\ open \in BOOLEAN
    /\ lock \in [Procs -> Writers \union {None}]
    /\ th \in [Writers -> Local]
    /\ tick \in Nat

\* The file has no newline at its end only behind a torn line.
TornIsLast == open => lines # <<>> /\ lines[Len(lines)] = Torn

\* A call has the id that its kind asks for, and passes the steps of its kind.
Calls ==
    \A w \in Writers :
        th[w].pc # "idle" =>
            /\ th[w].kind \in dep.kinds
            /\ th[w].kind = "record" => th[w].id = None
            /\ th[w].kind = "once" => th[w].id \in Events
            /\ th[w].kind = "packet" => th[w].id \in Packets
            /\ th[w].pc \in {"find", "put"} => th[w].kind = "packet"
            /\ th[w].pc \in {"begin", "check"} => th[w].kind # "packet"

\* Who holds the database transaction, and who is inside append.
Locked ==
    \A w \in Writers :
        /\ th[w].pc \in {"check", "append", "write", "commit"} /\ th[w].kind # "packet"
              => dbLock = w
        /\ th[w].pc = "write" => lock[ProcOf(w)] = w

\* Unless a packet was appended beside another process, one writer at a time is
\* between reading the head and writing behind it.
OneWrites ==
    ~raced => \A v, w \in Writers : th[v].pc = "write" /\ th[w].pc = "write" => v = w

\* What that writer computed its entry from is still the head when it writes.
HeadIsCurrent ==
    \A w \in Writers :
        th[w].pc = "write" =>
            /\ th[w].hash # Genesis
            /\ Whole /\ ~raced =>
                        /\ th[w].seq = Len(lines)
                        /\ th[w].prev = IF lines = <<>> THEN Genesis ELSE lines[Len(lines)].hash

\* Until a call of record_once has written, the chain it verified is intact and
\* has no entry of its event.
OnceIsFresh ==
    \A w \in Writers :
        th[w].kind = "once" /\ th[w].pc \in {"append", "write"} =>
            Intact /\ Matches(th[w].id) = {}

\* An event is at one place of the chain.
EventOnce == \A e \in Events : \A i, j \in Matches(e) : i = j

\* What a call is about to return is on the chain.
ReturnsOnChain ==
    \A w \in Writers :
        th[w].pc = "commit" /\ (Whole \/ th[w].kind = "once") => OnChain(th[w].hash)

Inv ==
    /\ Types /\ TornIsLast /\ Calls /\ Locked /\ OneWrites /\ HeadIsCurrent /\ ChainIntact
    /\ OnceIsFresh /\ EventOnce /\ ReturnsOnChain /\ AckedIsOnChain

(***************************************************************************)
(* What a step does to the local state of a writer.                        *)
(***************************************************************************)
Others(w) == \A v \in Writers : v # w => th'[v] = th[v]

\* w goes on to pc with the same call and the hash h.
Moved(w, pc, h) ==
    /\ th' \in [Writers -> Local] /\ Others(w)
    /\ th'[w].pc = pc /\ th'[w].kind = th[w].kind /\ th'[w].id = th[w].id
    /\ th'[w].hash = h

\* w has returned, or it is lost.
Returned(w) == th' \in [Writers -> Local] /\ Others(w) /\ th'[w] = Idle

LEMMA IdleIsLocal == Idle \in Local /\ Idle.pc = "idle" /\ Idle.kind = "record"
  BY DEF Idle, Local, PC, Kind, Docs, Genesis

LEMMA RecordMoves ==
  ASSUME Types, NEW w \in Writers, NEW y \in Local, th' = [th EXCEPT ![w] = y]
  PROVE  th'[w] = y /\ Others(w) /\ th' \in [Writers -> Local]
  BY DEF Types, Others

LEMMA GotoMoves ==
  ASSUME Types, NEW w \in Writers, NEW pc \in PC, Goto(w, pc)
  PROVE  Moved(w, pc, th[w].hash)
<1> DEFINE y == [th[w] EXCEPT !.pc = pc]
<1>1. th' = [th EXCEPT ![w] = y]
  BY DEF Goto
<1>2. y \in Local /\ y.pc = pc /\ y.kind = th[w].kind /\ y.id = th[w].id /\ y.hash = th[w].hash
  BY DEF Types, Local
<1> HIDE DEF y
<1> QED BY <1>1, <1>2, RecordMoves DEF Moved

LEMMA HashMoves ==
  ASSUME Types, NEW w \in Writers, NEW pc \in PC, NEW h \in Nat,
         th' = [th EXCEPT ![w].pc = pc, ![w].hash = h]
  PROVE  Moved(w, pc, h)
<1> DEFINE y == [th[w] EXCEPT !.pc = pc, !.hash = h]
<1>1. th' = [th EXCEPT ![w] = y]
  OBVIOUS
<1>2. y \in Local /\ y.pc = pc /\ y.kind = th[w].kind /\ y.id = th[w].id /\ y.hash = h
  BY DEF Types, Local
<1> HIDE DEF y
<1> QED BY <1>1, <1>2, RecordMoves DEF Moved

LEMMA EntryMoves ==
  ASSUME Types, NEW w \in Writers, NEW n \in Nat, NEW p \in Nat, NEW h \in Nat,
         th' = [th EXCEPT ![w].pc = "write", ![w].seq = n, ![w].prev = p, ![w].hash = h]
  PROVE  Moved(w, "write", h) /\ th'[w].seq = n /\ th'[w].prev = p
<1> DEFINE y == [th[w] EXCEPT !.pc = "write", !.seq = n, !.prev = p, !.hash = h]
<1>1. th' = [th EXCEPT ![w] = y]
  OBVIOUS
<1>2. /\ y \in Local /\ y.pc = "write" /\ y.kind = th[w].kind /\ y.id = th[w].id /\ y.hash = h
      /\ y.seq = n /\ y.prev = p
  BY DEF Types, Local, PC
<1> HIDE DEF y
<1> QED BY <1>1, <1>2, RecordMoves DEF Moved

LEMMA ReturnMoves ==
  ASSUME Types, NEW w \in Writers, th' = [th EXCEPT ![w] = Idle]
  PROVE  Returned(w)
  BY IdleIsLocal DEF Types, Returned, Others

\* A bounded set of naturals has a greatest element.
LEMMA MaxExists ==
  ASSUME NEW S, NEW n \in Nat, S \subseteq 0..n, S # {}
  PROVE  \E i \in S : \A j \in S : j <= i
<1> DEFINE T == {k \in 0..n : n - k \in S}
<1>1. T \subseteq Nat /\ T # {}
  <2>1. PICK i \in S : TRUE
    OBVIOUS
  <2>2. n - i \in 0..n /\ n - (n - i) = i
    BY <2>1
  <2>3. n - i \in T
    BY <2>2
  <2>4. T \subseteq Nat
    OBVIOUS
  <2> HIDE DEF T
  <2> QED BY <2>3, <2>4
<1>2. PICK x \in T : \A y \in T : ~ (y < x)
  <2> DEFINE R == OpToRel(<, Nat)
  <2> HIDE DEF T
  <2>1. PICK x \in T : \A y \in T : ~ (<<y, x>> \in R)
    <3> HIDE DEF R
    <3>1. IsWellFoundedOn(R, Nat)
      BY NatLessThanWellFounded DEF R
    <3> QED BY <1>1, <3>1, WFMin
  <2> QED BY <1>1, <2>1 DEF OpToRel
<1>3. n - x \in S
  OBVIOUS
<1>4. ASSUME NEW j \in S PROVE j <= n - x
  <2>1. n - j \in 0..n /\ n - (n - j) = j
    OBVIOUS
  <2>2. n - j \in T
    BY <2>1
  <2>3. x \in 0..n /\ ~ (n - j < x)
    BY <1>2, <2>2
  <2> HIDE DEF T
  <2> QED BY <2>1, <2>3
<1> QED BY <1>3, <1>4

(***************************************************************************)
(* The lines.                                                              *)
(***************************************************************************)
LEMMA LinesAre ==
  ASSUME Types
  PROVE  /\ Len(lines) \in Nat /\ DOMAIN lines = 1 .. Len(lines)
         /\ \A i \in 1 .. Len(lines) : lines[i] \in Line
         /\ (lines = <<>>) <=> (Len(lines) = 0)
         /\ \A i : i \in Entries <=> i \in 1 .. Len(lines) /\ lines[i] # Torn
         /\ \A id, i : i \in Matches(id) <=> i \in Entries /\ lines[i].doc = id
  BY DEF Types, Entries, Matches

\* The head is the last line of a file without torn lines.
LEMMA WholeHead ==
  ASSUME Types, Whole
  PROVE  /\ Cardinality(Entries) = Len(lines)
         /\ HeadOf(Entries) = IF lines = <<>> THEN Genesis ELSE lines[Len(lines)].hash
<1>1. Entries = 1 .. Len(lines) /\ Len(lines) \in Nat
  BY LinesAre DEF Whole, Entries
<1>2. Cardinality(Entries) = Len(lines)
  <2>1. Cardinality(1 .. Len(lines)) = IF 1 > Len(lines) THEN 0 ELSE Len(lines) - 1 + 1
    BY <1>1, FS_Interval
  <2> QED BY <1>1, <2>1
<1>3. CASE lines = <<>>
  BY <1>1, <1>2, <1>3, LinesAre DEF HeadOf
<1>4. CASE lines # <<>>
  <2>1. Len(lines) \in Entries /\ Entries # {}
    BY <1>1, <1>4, LinesAre
  <2>2. (CHOOSE i \in Entries : \A j \in Entries : j <= i) = Len(lines)
    <3>1. Len(lines) \in Entries /\ \A j \in Entries : j <= Len(lines)
      BY <1>1, <2>1
    <3>2. ASSUME NEW i \in Entries, \A j \in Entries : j <= i PROVE i = Len(lines)
      BY <1>1, <2>1, <3>2
    <3> QED BY <3>1, <3>2
  <2> DEFINE k == CHOOSE i \in Entries : \A j \in Entries : j <= i
  <2>3. HeadOf(Entries) = lines[k].hash
    BY <2>1 DEF HeadOf
  <2>4. k = Len(lines)
    BY <2>2
  <2> HIDE DEF k
  <2> QED BY <1>2, <1>4, <2>3, <2>4
<1> QED BY <1>2, <1>3, <1>4

LEMMA EntriesFinite ==
  ASSUME Types
  PROVE  IsFiniteSet(Entries) /\ Cardinality(Entries) \in Nat
<1>1. IsFiniteSet(1 .. Len(lines))
  BY LinesAre, FS_Interval
<1>2. Entries \subseteq 1 .. Len(lines)
  BY DEF Entries
<1> QED BY <1>1, <1>2, FS_Subset, FS_CardinalityType

LEMMA HeadType ==
  ASSUME Types
  PROVE  HeadOf(Entries) \in Nat
<1>1. CASE Entries = {}
  BY <1>1 DEF HeadOf, Genesis
<1>2. CASE Entries # {}
  <2> DEFINE k == CHOOSE i \in Entries : \A j \in Entries : j <= i
  <2>1. \E i \in Entries : \A j \in Entries : j <= i
    <3>1. Len(lines) \in Nat /\ Entries \subseteq 0 .. Len(lines)
      BY LinesAre
    <3> QED BY <1>2, <3>1, MaxExists
  <2>2. k \in 1 .. Len(lines)
    BY <2>1, LinesAre
  <2>3. HeadOf(Entries) = lines[k].hash
    BY <1>2 DEF HeadOf
  <2> HIDE DEF k
  <2> QED BY <2>2, <2>3, LinesAre DEF Line
<1> QED BY <1>1, <1>2

(***************************************************************************)
(* The kinds of steps.                                                     *)
(***************************************************************************)
Calling(w) ==
    /\ UNCHANGED <<dep, lines, open, dbLock, lock, acked, raced>>
    /\ th' \in [Writers -> Local] /\ Others(w)
    /\ th'[w].pc = IF th'[w].kind = "packet" THEN "find" ELSE "begin"
    /\ th'[w].kind \in dep.kinds
    /\ \/ th'[w].kind = "record" /\ th'[w].id = None
       \/ th'[w].kind = "once" /\ th'[w].id \in Events
       \/ th'[w].kind = "packet" /\ th'[w].id \in Packets

\* A call goes on without touching the file.
Passing(w) ==
    /\ UNCHANGED <<dep, lines, open, lock, acked, raced>>
    /\ \/ /\ th[w].pc = "begin" /\ Moved(w, "check", th[w].hash)
          /\ dbLock = None /\ dbLock' = w
       \/ /\ th[w].pc = "check" /\ Moved(w, "append", th[w].hash) /\ UNCHANGED dbLock
          /\ th[w].kind = "once" => Intact /\ Matches(th[w].id) = {}
       \/ /\ th[w].pc = "check" /\ UNCHANGED dbLock
          /\ \E i \in Entries : Moved(w, "commit", lines[i].hash)
       \/ /\ th[w].pc = "find" /\ Moved(w, "put", th[w].hash) /\ UNCHANGED dbLock
       \/ /\ th[w].pc = "put" /\ Moved(w, "append", th[w].hash) /\ UNCHANGED dbLock

\* A call returns, and has its hash acknowledged if it committed.
Leaving(w) ==
    /\ UNCHANGED <<dep, lines, open, lock, raced>> /\ Returned(w)
    /\ UNCHANGED dbLock \/ EndTransaction(w)
    /\ \/ UNCHANGED acked
       \/ th[w].pc = "commit" /\ acked' = acked \union {<<th[w].kind, th[w].hash>>}
    /\ UNCHANGED dbLock => th[w].kind = "packet"

Reading(w) ==
    /\ UNCHANGED <<dep, lines, open, dbLock, acked>>
    /\ th[w].pc = "append" /\ Moved(w, "write", tick + 1)
    /\ th'[w].seq = Cardinality(Entries) /\ th'[w].prev = HeadOf(Entries)
    /\ lock[ProcOf(w)] = None /\ lock' = [lock EXCEPT ![ProcOf(w)] = w]
    /\ ~raced' => ~raced /\ \A v \in Writers : ~Beside(v, w)

Released(w) == lock' = [p \in Procs |-> IF lock[p] = w THEN None ELSE lock[p]]

Written(w) == [seq |-> th[w].seq, prev |-> th[w].prev, doc |-> th[w].id, hash |-> th[w].hash]

Writing(w) ==
    /\ UNCHANGED <<dep, dbLock, acked, raced>> /\ Released(w)
    /\ th[w].pc = "write" /\ Moved(w, "commit", th[w].hash)
    /\ open' = FALSE /\ lines' = IF open THEN lines ELSE Append(lines, Written(w))

Tearing(w) ==
    /\ UNCHANGED <<dep, acked, raced>> /\ Released(w) /\ EndTransaction(w)
    /\ th[w].pc = "write" /\ Returned(w)
    /\ \/ UNCHANGED <<lines, open>>
       \/ ~ open /\ open' = TRUE /\ lines' = Append(lines, Torn)

Effect(w) == Calling(w) \/ Passing(w) \/ Leaving(w) \/ Reading(w) \/ Writing(w) \/ Tearing(w)

LEMMA CallMoves ==
  ASSUME Types, NEW w \in Writers, NEW kind \in Kind, NEW id \in Docs, Call(w, kind, id)
  PROVE  /\ th' \in [Writers -> Local] /\ Others(w)
         /\ th'[w].pc = IF kind = "packet" THEN "find" ELSE "begin"
         /\ th'[w].kind = kind /\ th'[w].id = id
<1> DEFINE pc == IF kind = "packet" THEN "find" ELSE "begin"
           y == [Idle EXCEPT !.pc = pc, !.kind = kind, !.id = id]
<1>1. th' = [th EXCEPT ![w] = y]
  BY DEF Call
<1>2. y \in Local /\ y.pc = pc /\ y.kind = kind /\ y.id = id
  BY DEF Idle, Local, PC, Genesis
<1> HIDE DEF y
<1> QED BY <1>1, <1>2, RecordMoves

LEMMA StepEffect ==
  ASSUME Inv, Next
  PROVE  (\E w \in Writers : Effect(w)) \/ (\E p \in Procs : Crash(p))
<1> USE DEF Inv, PC
<1>0. ASSUME NEW w \in Writers, NEW kind \in Kind, NEW id \in Docs, Call(w, kind, id),
             \/ kind = "record" /\ id = None
             \/ kind = "once" /\ id \in Events
             \/ kind = "packet" /\ id \in Packets
      PROVE  Effect(w)
  <2>1. /\ th' \in [Writers -> Local] /\ Others(w)
        /\ th'[w].pc = IF kind = "packet" THEN "find" ELSE "begin"
        /\ th'[w].kind = kind /\ th'[w].id = id
    BY <1>0, CallMoves
  <2>2. kind \in dep.kinds /\ UNCHANGED <<dep, lines, open, dbLock, lock, acked, raced>>
    BY <1>0 DEF Call
  <2>3. Calling(w)
    BY <1>0, <2>1, <2>2 DEF Calling
  <2> QED BY <2>3 DEF Effect
<1>1. ASSUME NEW w \in Writers, Call(w, "record", None) PROVE Effect(w)
  BY <1>0, <1>1 DEF Docs, Kind
<1>2. ASSUME NEW w \in Writers, NEW e \in Events, Call(w, "once", e) PROVE Effect(w)
  BY <1>0, <1>2 DEF Docs, Kind
<1>3. ASSUME NEW w \in Writers, NEW k \in Packets, Call(w, "packet", k) PROVE Effect(w)
  BY <1>0, <1>3 DEF Docs, Kind
<1>4. ASSUME NEW w \in Writers, Begin(w) PROVE Effect(w)
  BY <1>4, GotoMoves DEF Begin, Effect, Passing
<1>5. ASSUME NEW w \in Writers, Check(w) PROVE Effect(w)
  <2>1. CASE /\ th[w].kind = "record" \/ (th[w].kind = "once" /\ Intact /\ Matches(th[w].id) = {})
             /\ Goto(w, "append") /\ UNCHANGED dbLock
    <3>1. Moved(w, "append", th[w].hash)
      BY <2>1, GotoMoves
    <3>2. th[w].kind = "once" => Intact /\ Matches(th[w].id) = {}
      BY <2>1
    <3>3. th[w].pc = "check" /\ UNCHANGED <<dep, lines, open, lock, acked, raced>>
      BY <1>5 DEF Check
    <3> QED BY <2>1, <3>1, <3>2, <3>3 DEF Effect, Passing
  <2>2. CASE UNCHANGED dbLock /\ \E i \in Matches(th[w].id) :
               th' = [th EXCEPT ![w].pc = "commit", ![w].hash = lines[i].hash]
    <3>1. PICK i \in Matches(th[w].id) : th' = [th EXCEPT ![w].pc = "commit", ![w].hash = lines[i].hash]
      BY <2>2
    <3>2. i \in Entries /\ lines[i].hash \in Nat
      BY <3>1, LinesAre DEF Line
    <3>3. Moved(w, "commit", lines[i].hash)
      BY <3>1, <3>2, HashMoves
    <3> QED BY <1>5, <2>2, <3>2, <3>3 DEF Check, Effect, Passing
  <2>3. CASE th' = [th EXCEPT ![w] = Idle] /\ EndTransaction(w)
    <3>1. Returned(w)
      BY <2>3, ReturnMoves
    <3>2. th[w].kind # "packet" /\ dbLock = w
      BY <1>5 DEF Check, Calls, Locked
    <3>3. UNCHANGED <<dep, lines, open, lock, acked, raced>>
      BY <1>5 DEF Check
    <3>4. w # None
      OBVIOUS
    <3>5. dbLock' # dbLock
      BY <2>3, <3>2, <3>4 DEF EndTransaction
    <3> QED BY <2>3, <3>1, <3>3, <3>5 DEF Effect, Leaving
  <2> QED BY <1>5, <2>1, <2>2, <2>3 DEF Check
<1>6. ASSUME NEW w \in Writers, Commit(w) PROVE Effect(w)
  <2>1. Returned(w)
    BY <1>6, ReturnMoves DEF Commit
  <2>2. th[w].kind = "packet" \/ dbLock = w
    BY <1>6 DEF Commit, Locked
  <2>3. UNCHANGED dbLock => th[w].kind = "packet"
    BY <1>6, <2>2 DEF Commit, EndTransaction
  <2> QED BY <1>6, <2>1, <2>3 DEF Commit, Effect, Leaving
<1>7. ASSUME NEW w \in Writers, FindPacket(w) PROVE Effect(w)
  <2>1. th[w].kind = "packet"
    BY <1>7 DEF FindPacket, Calls
  <2> QED BY <1>7, <2>1, GotoMoves, ReturnMoves DEF FindPacket, Effect, Leaving, Passing
<1>8. ASSUME NEW w \in Writers, PutBody(w) PROVE Effect(w)
  BY <1>8, GotoMoves DEF PutBody, Effect, Passing
<1>9. ASSUME NEW w \in Writers, ReadHead(w) PROVE Effect(w)
  <2>1. Cardinality(Entries) \in Nat
    BY EntriesFinite
  <2>2. HeadOf(Entries) \in Nat
    BY HeadType
  <2>3. Moved(w, "write", tick + 1) /\ th'[w].seq = Cardinality(Entries) /\ th'[w].prev = HeadOf(Entries)
    <3> DEFINE n == Cardinality(Entries)  h == HeadOf(Entries)
    <3>1. n \in Nat /\ h \in Nat /\ tick + 1 \in Nat
      BY <2>1, <2>2 DEF Types
    <3>2. th' = [th EXCEPT ![w].pc = "write", ![w].seq = n, ![w].prev = h, ![w].hash = tick + 1]
      BY <1>9 DEF ReadHead
    <3> HIDE DEF n, h
    <3>3. Moved(w, "write", tick + 1) /\ th'[w].seq = n /\ th'[w].prev = h
      BY <3>1, <3>2, EntryMoves
    <3> QED BY <3>3 DEF n, h
  <2> QED BY <1>9, <2>3 DEF ReadHead, Effect, Reading
<1>10. ASSUME NEW w \in Writers, Write(w) PROVE Effect(w)
  BY <1>10, GotoMoves DEF Write, Effect, Writing, Written, Released
<1>11. ASSUME NEW w \in Writers, NEW torn \in BOOLEAN, WriteFails(w, torn) PROVE Effect(w)
  <2>1. Returned(w)
    BY <1>11, ReturnMoves DEF WriteFails
  <2>2. UNCHANGED <<lines, open>> \/ (~ open /\ open' = TRUE /\ lines' = Append(lines, Torn))
    <3>1. CASE torn
      <4>1. open' = TRUE
        BY <1>11, <3>1 DEF WriteFails
      <4>2. CASE open
        BY <1>11, <4>1, <4>2 DEF WriteFails, Types
      <4>3. CASE ~ open
        BY <1>11, <3>1, <4>1, <4>3 DEF WriteFails
      <4> QED BY <4>2, <4>3
    <3>2. CASE ~ torn
      <4>1. lines' = lines
        BY <1>11, <3>2 DEF WriteFails
      <4>2. open' = open
        BY <1>11, <3>2, Zenon DEF WriteFails, Types
      <4> QED BY <4>1, <4>2
    <3> QED BY <3>1, <3>2
  <2> QED BY <1>11, <2>1, <2>2 DEF WriteFails, Effect, Tearing, Released
<1> QED BY <1>1, <1>2, <1>3, <1>4, <1>5, <1>6, <1>7, <1>8, <1>9, <1>10, <1>11 DEF Next, Step

LEMMA CrashEffect ==
  ASSUME Types, NEW p \in Procs, Crash(p)
  PROVE  /\ UNCHANGED <<dep, lines, open, acked, tick, raced>>
         /\ th' \in [Writers -> Local]
         /\ \A w \in Writers : th'[w] = Idle \/ (th'[w] = th[w] /\ ProcOf(w) # p)
         /\ lock' = [lock EXCEPT ![p] = None]
         /\ \A w \in Writers : dbLock = w /\ ProcOf(w) # p => dbLock' = w
<1>1. \A w \in Writers : th'[w] = IF ProcOf(w) = p THEN Idle ELSE th[w]
  BY DEF Crash
<1>2. th' = [w \in Writers |-> th'[w]]
  BY DEF Crash
<1>3. \A w \in Writers : th'[w] \in Local
  BY <1>1, IdleIsLocal DEF Types
<1>4. th' \in [Writers -> Local]
  BY <1>2, <1>3
<1> QED BY <1>1, <1>4 DEF Crash

(***************************************************************************)
(* Exclusion.                                                              *)
(***************************************************************************)
LEMMA ProcsAre ==
  ASSUME Inv
  PROVE  /\ \A w \in Writers : ProcOf(w) \in Procs
         /\ "packet" \in dep.kinds => "once" \notin dep.kinds
<1>1. dep \in [procOf : [Writers -> Procs], kinds : SUBSET Kind]
  BY DeploymentAssumption DEF Inv, Types
<1>2. "packet" \in dep.kinds => "once" \notin dep.kinds
  BY DeploymentAssumption DEF Inv, Types
<1> QED BY <1>1, <1>2 DEF ProcOf

\* While one writer reads the head nobody else is about to write: a thread of its
\* process by the lock of the ledger, an audit event by the transaction, and a
\* packet of another process would be a race.
LEMMA ReadsAlone ==
  ASSUME Inv, NEW w \in Writers, Reading(w), ~raced', NEW v \in Writers, th[v].pc = "write"
  PROVE  FALSE
<1>1. /\ th[w].pc = "append" /\ lock[ProcOf(w)] = None /\ ~Beside(v, w)
      /\ v # None /\ w # v
  BY DEF Reading
<1>2. ProcOf(v) # ProcOf(w)
  BY <1>1 DEF Inv, Locked
<1>3. th[v].kind # "packet" /\ th[w].kind # "packet"
  BY <1>1, <1>2 DEF Beside
<1> QED BY <1>1, <1>3 DEF Inv, Locked

\* Nobody else writes while a call of record_once is between its look at the
\* chain and its write.
LEMMA OnceWritesAlone ==
  ASSUME Inv, NEW v \in Writers, NEW w \in Writers,
         th[v].kind = "once", th[v].pc \in {"append", "write"}, th[w].pc = "write"
  PROVE  v = w
<1>1. "once" \in dep.kinds /\ th[w].kind \in dep.kinds
  BY DEF Inv, Calls
<1>2. th[w].kind # "packet"
  BY <1>1, ProcsAre
<1> QED BY <1>2 DEF Inv, Locked

(***************************************************************************)
(* What reaches the file.                                                  *)
(***************************************************************************)
LEMMA TornIsLine == Torn \in Line
  BY DEF Torn, Line, Genesis

LEMMA WrittenIs ==
  ASSUME Inv, NEW w \in Writers, th[w].pc = "write"
  PROVE  /\ Written(w) \in Line /\ Written(w) # Torn
         /\ Written(w).seq = th[w].seq /\ Written(w).prev = th[w].prev
         /\ Written(w).doc = th[w].id /\ Written(w).hash = th[w].hash
<1>1. th[w] \in Local
  BY DEF Inv, Types
<1>2. th[w].hash # Genesis
  BY DEF Inv, HeadIsCurrent
<1> QED BY <1>1, <1>2 DEF Written, Line, Local, Torn

LEMMA AppendIs ==
  ASSUME Types, NEW x \in Line, lines' = Append(lines, x)
  PROVE  /\ lines' \in Seq(Line) /\ Len(lines') = Len(lines) + 1
         /\ \A i \in 1 .. Len(lines) : lines'[i] = lines[i]
         /\ lines'[Len(lines) + 1] = x
         /\ lines' # <<>>
  BY DEF Types

LEMMA LineEffect ==
  ASSUME Inv, NEW w \in Writers, Effect(w)
  PROVE  \/ UNCHANGED lines
         \/ Tearing(w) /\ ~ open /\ lines' = Append(lines, Torn)
         \/ Writing(w) /\ ~ open /\ lines' = Append(lines, Written(w))
  BY DEF Effect, Calling, Passing, Leaving, Reading, Writing, Tearing

\* The file only grows.
LEMMA LinesGrow ==
  ASSUME Inv, NEW w \in Writers, Effect(w)
  PROVE  /\ lines' \in Seq(Line)
         /\ Whole' => Whole
         /\ \A h : (\E i \in Entries : lines[i].hash = h) => (\E i \in Entries' : lines'[i].hash = h)
<1>1. CASE UNCHANGED lines
  BY <1>1 DEF Inv, Types, Whole, Entries
<1>2. ASSUME NEW x \in Line, lines' = Append(lines, x)
      PROVE  /\ lines' \in Seq(Line)
             /\ Whole' => Whole
             /\ \A h : (\E i \in Entries : lines[i].hash = h) => (\E i \in Entries' : lines'[i].hash = h)
  <2>1. /\ lines' \in Seq(Line) /\ Len(lines') = Len(lines) + 1 /\ Len(lines) \in Nat
        /\ \A i \in 1 .. Len(lines) : i \in 1 .. Len(lines') /\ lines'[i] = lines[i]
    BY <1>2, AppendIs, LinesAre DEF Inv
  <2> QED BY <2>1 DEF Whole, Entries
<1>3. CASE Writing(w) /\ lines' = Append(lines, Written(w))
  BY <1>2, <1>3, WrittenIs DEF Writing
<1> QED BY <1>1, <1>2, <1>3, LineEffect, TornIsLine

(***************************************************************************)
(* Each part of the invariant is kept.                                     *)
(***************************************************************************)
LEMMA InitInv == Init => Inv
<1> SUFFICES ASSUME Init PROVE Inv
  OBVIOUS
<1>1. \A w \in Writers : th[w] = Idle
  BY DEF Init
<1>2. Types
  <2>1. lines \in Seq(Line)
    BY DEF Init
  <2>3. tick \in Nat /\ open \in BOOLEAN /\ dep \in Deployments
    BY Zenon DEF Init
  <2>2. th \in [Writers -> Local]
    BY IdleIsLocal DEF Init
  <2> QED BY <2>1, <2>2, <2>3 DEF Init, Types
<1>3. Entries = {} /\ \A id : Matches(id) = {}
  BY DEF Init, Entries, Matches
<1> QED BY <1>1, <1>2, <1>3, IdleIsLocal
        DEF Init, Inv, TornIsLast, Calls, Locked, OneWrites, HeadIsCurrent, ChainIntact, Intact,
            OnceIsFresh, EventOnce, ReturnsOnChain, AckedIsOnChain

LEMMA TypesKept ==
  ASSUME Inv, NEW w \in Writers, Effect(w), tick' \in Nat
  PROVE  Types'
<1>1. lines' \in Seq(Line)
  BY LinesGrow
<1>2. UNCHANGED dep /\ th' \in [Writers -> Local]
  BY DEF Effect, Calling, Passing, Leaving, Reading, Writing, Tearing, Moved, Returned
<1>3. lock' \in [Procs -> Writers \union {None}]
  <2>1. CASE Released(w)
    BY <2>1 DEF Released, Inv, Types
  <2>2. CASE lock' = [lock EXCEPT ![ProcOf(w)] = w]
    BY <2>2 DEF Inv, Types
  <2> QED BY <2>1, <2>2 DEF Inv, Types, Effect, Calling, Passing, Leaving, Reading, Writing, Tearing
<1>4. open' \in BOOLEAN
  BY DEF Inv, Types, Effect, Calling, Passing, Leaving, Reading, Writing, Tearing
<1> QED BY <1>1, <1>2, <1>3, <1>4 DEF Inv, Types

LEMMA TornIsLastKept ==
  ASSUME Inv, NEW w \in Writers, Effect(w)
  PROVE  TornIsLast'
<1>1. CASE Writing(w)
  BY <1>1 DEF Writing, TornIsLast
<1>2. CASE UNCHANGED <<lines, open>>
  BY <1>2 DEF Inv, TornIsLast
<1>3. CASE lines' = Append(lines, Torn)
  BY <1>3, AppendIs, TornIsLine DEF Inv, TornIsLast
<1> QED BY <1>1, <1>2, <1>3 DEF Effect, Calling, Passing, Leaving, Reading, Tearing

LEMMA CallsKept ==
  ASSUME Inv, NEW w \in Writers, Effect(w)
  PROVE  Calls'
<1>1. UNCHANGED dep /\ Others(w)
  BY DEF Effect, Calling, Passing, Leaving, Reading, Writing, Tearing, Moved, Returned
<1>2. th'[w].pc # "idle" =>
            /\ th'[w].kind \in dep.kinds
            /\ th'[w].kind = "record" => th'[w].id = None
            /\ th'[w].kind = "once" => th'[w].id \in Events
            /\ th'[w].kind = "packet" => th'[w].id \in Packets
            /\ th'[w].pc \in {"find", "put"} => th'[w].kind = "packet"
            /\ th'[w].pc \in {"begin", "check"} => th'[w].kind # "packet"
  <2>1. CASE Calling(w)
    BY <2>1 DEF Calling
  <2>2. CASE Leaving(w) \/ Tearing(w)
    BY <2>2, IdleIsLocal DEF Leaving, Tearing, Returned
  <2>3. CASE Passing(w) \/ Reading(w) \/ Writing(w)
    BY <2>3 DEF Passing, Reading, Writing, Moved, Inv, Calls
  <2> QED BY <2>1, <2>2, <2>3 DEF Effect
<1> QED BY <1>1, <1>2 DEF Others, Inv, Calls

LEMMA LockedKept ==
  ASSUME Inv, NEW w \in Writers, Effect(w)
  PROVE  Locked'
<1>0. UNCHANGED dep /\ Others(w) /\ \A v \in Writers : v # None
  BY DEF Effect, Calling, Passing, Leaving, Reading, Writing, Tearing, Moved, Returned
<1>1. ASSUME NEW v \in Writers, th'[v].pc \in {"check", "append", "write", "commit"}, th'[v].kind # "packet"
      PROVE  dbLock' = v
  <2>1. CASE v # w
    <3>1. dbLock = v
      BY <1>0, <1>1, <2>1 DEF Others, Inv, Locked
    <3> QED BY <1>0, <2>1, <3>1
            DEF Effect, Calling, Passing, Leaving, Reading, Writing, Tearing, EndTransaction
  <2>2. CASE v = w
    <3>1. CASE Calling(w) \/ Leaving(w) \/ Tearing(w)
      BY <1>1, <2>2, <3>1, IdleIsLocal DEF Calling, Leaving, Tearing, Returned
    <3>2. CASE Passing(w) \/ Reading(w) \/ Writing(w)
      BY <1>1, <2>2, <3>2 DEF Passing, Reading, Writing, Moved, Inv, Locked, Calls
    <3> QED BY <3>1, <3>2 DEF Effect
  <2> QED BY <2>1, <2>2
<1>2. ASSUME NEW v \in Writers, th'[v].pc = "write"
      PROVE  lock'[ProcOf(v)] = v
  <2>1. ProcOf(v) \in Procs /\ ProcOf(w) \in Procs
    BY ProcsAre
  <2>2. CASE v # w
    <3>1. lock[ProcOf(v)] = v
      BY <1>0, <1>2, <2>2 DEF Others, Inv, Locked
    <3>2. CASE Released(w)
      BY <2>1, <2>2, <3>1, <3>2 DEF Released
    <3>3. CASE Reading(w)
      BY <1>0, <2>1, <3>1, <3>3 DEF Reading, Inv, Types
    <3> QED BY <3>1, <3>2, <3>3 DEF Effect, Calling, Passing, Leaving, Writing, Tearing
  <2>3. CASE v = w
    <3>1. Reading(w)
      BY <1>2, <2>3, IdleIsLocal DEF Effect, Calling, Passing, Leaving, Writing, Tearing, Moved, Returned
    <3> QED BY <2>1, <2>3, <3>1 DEF Reading, Inv, Types
  <2> QED BY <2>2, <2>3
<1>3. \A v \in Writers : (ProcOf(v))' = ProcOf(v)
  BY <1>0 DEF ProcOf
<1> QED BY <1>1, <1>2, <1>3 DEF Locked

\* No race so far means none before.
LEMMA RacesStay ==
  ASSUME NEW w \in Writers, Effect(w), ~raced'
  PROVE  ~raced
  BY DEF Effect, Calling, Passing, Leaving, Reading, Writing, Tearing

LEMMA OneWritesKept ==
  ASSUME Inv, NEW w \in Writers, Effect(w)
  PROVE  OneWrites'
<1> SUFFICES ASSUME ~raced', NEW u \in Writers, NEW v \in Writers, u # v,
                    th'[u].pc = "write", th'[v].pc = "write"
             PROVE  FALSE
  BY DEF OneWrites
<1>1. ~raced /\ Others(w)
  BY RacesStay DEF Effect, Calling, Passing, Leaving, Reading, Writing, Tearing, Moved, Returned
<1>2. CASE Reading(w)
  <2>1. ASSUME NEW x \in Writers PROVE th[x].pc # "write"
    BY <1>2, <2>1, ReadsAlone
  <2> QED BY <1>1, <2>1 DEF Others
<1>3. CASE ~Reading(w)
  <2>1. th'[w].pc # "write"
    BY <1>3, IdleIsLocal DEF Effect, Calling, Passing, Leaving, Writing, Tearing, Moved, Returned
  <2> QED BY <1>1, <2>1 DEF Others, Inv, OneWrites
<1> QED BY <1>2, <1>3

LEMMA HeadIsCurrentKept ==
  ASSUME Inv, NEW w \in Writers, Effect(w)
  PROVE  HeadIsCurrent'
<1> SUFFICES ASSUME NEW v \in Writers, th'[v].pc = "write"
             PROVE  /\ th'[v].hash # Genesis
                    /\ Whole' /\ ~raced' =>
                                 /\ th'[v].seq = Len(lines')
                                 /\ th'[v].prev = IF lines' = <<>> THEN Genesis ELSE lines'[Len(lines')].hash
  BY DEF HeadIsCurrent
<1>1. CASE v # w
  <2>1. th'[v] = th[v]
    BY <1>1 DEF Effect, Calling, Passing, Leaving, Reading, Writing, Tearing, Moved, Returned, Others
  <2>2. th'[v].hash # Genesis
    BY <2>1 DEF Inv, HeadIsCurrent
  <2>3. CASE ~raced'
    <3>1. ~raced
      BY <2>3, RacesStay
    <3>2. ~ Writing(w) /\ ~ Tearing(w)
      BY <1>1, <2>1, <3>1 DEF Writing, Tearing, Inv, OneWrites
    <3>3. UNCHANGED lines
      BY <3>2, LineEffect
    <3> QED BY <2>1, <2>2, <3>1, <3>3 DEF Inv, HeadIsCurrent, Whole
  <2> QED BY <2>2, <2>3
<1>2. CASE v = w
  <2>1. Reading(w)
    BY <1>2, IdleIsLocal DEF Effect, Calling, Passing, Leaving, Writing, Tearing, Moved, Returned
  <2>2. th'[w].hash = tick + 1 /\ tick + 1 # 0 /\ UNCHANGED lines
    BY <2>1 DEF Reading, Moved, Inv, Types
  <2>3. Whole' => Whole
    BY LinesGrow
  <2>4. th'[w].seq = Cardinality(Entries) /\ th'[w].prev = HeadOf(Entries)
    BY <2>1 DEF Reading
  <2> QED BY <1>2, <2>2, <2>3, <2>4, WholeHead DEF Genesis, Inv
<1> QED BY <1>1, <1>2

\* The chain with the entry of a writer behind it.
LEMMA ChainGrows ==
  ASSUME Inv, NEW w \in Writers, Writing(w), lines' = Append(lines, Written(w)), Whole, ~raced
  PROVE  Intact'
<1>1. /\ Len(lines') = Len(lines) + 1 /\ Len(lines) \in Nat
      /\ \A i \in 1 .. Len(lines) : lines'[i] = lines[i]
      /\ lines'[Len(lines) + 1] = Written(w)
  BY WrittenIs, AppendIs, LinesAre DEF Inv, Writing
<1>2. Intact
  BY DEF Inv, ChainIntact
<1>3. /\ Written(w) # Torn /\ Written(w).seq = Len(lines)
      /\ Written(w).prev = IF lines = <<>> THEN Genesis ELSE lines[Len(lines)].hash
  BY WrittenIs DEF Inv, Writing, HeadIsCurrent
<1>4. (lines = <<>>) <=> (Len(lines) = 0)
  BY LinesAre DEF Inv
<1>5. ASSUME NEW i \in 1 .. Len(lines')
      PROVE  /\ lines'[i] # Torn /\ lines'[i].seq = i - 1
             /\ lines'[i].prev = IF i = 1 THEN Genesis ELSE lines'[i - 1].hash
  <2>1. CASE i = Len(lines) + 1
    <3>1. i = 1 <=> lines = <<>>
      BY <1>1, <1>4, <2>1
    <3>2. i # 1 => lines'[i - 1] = lines[Len(lines)]
      BY <1>1, <2>1
    <3>3. i - 1 = Len(lines)
      BY <1>1, <2>1
    <3> QED BY <1>1, <1>3, <2>1, <3>1, <3>2, <3>3
  <2>2. CASE i # Len(lines) + 1
    <3>1. i \in 1 .. Len(lines)
      BY <1>1, <2>2
    <3>2. i # 1 => i - 1 \in 1 .. Len(lines)
      BY <1>1, <3>1
    <3> QED BY <1>1, <1>2, <3>1, <3>2 DEF Intact
  <2> QED BY <2>1, <2>2
<1> QED BY <1>5 DEF Intact

LEMMA ChainIntactKept ==
  ASSUME Inv, NEW w \in Writers, Effect(w)
  PROVE  ChainIntact'
<1> SUFFICES ASSUME Whole', ~raced' PROVE Intact'
  BY DEF ChainIntact
<1>1. Whole /\ ~raced
  BY LinesGrow, RacesStay
<1>2. CASE UNCHANGED lines
  BY <1>1, <1>2 DEF Inv, ChainIntact, Intact
<1>3. CASE lines' = Append(lines, Torn)
  <2>1. Len(lines') \in 1 .. Len(lines') /\ lines'[Len(lines')] = Torn
    BY <1>3, AppendIs, TornIsLine, LinesAre DEF Inv
  <2> QED BY <2>1 DEF Whole
<1>4. CASE Writing(w) /\ lines' = Append(lines, Written(w))
  BY <1>1, <1>4, ChainGrows
<1> QED BY <1>2, <1>3, <1>4, LineEffect

LEMMA OnceIsFreshKept ==
  ASSUME Inv, NEW w \in Writers, Effect(w)
  PROVE  OnceIsFresh'
<1>1. ASSUME NEW v \in Writers, th'[v].kind = "once", th'[v].pc \in {"append", "write"}
      PROVE  /\ UNCHANGED lines /\ Intact
             /\ \A i \in Entries : lines[i].doc # th'[v].id
  <2>1. CASE v # w
    <3>1. th'[v] = th[v]
      BY <2>1 DEF Effect, Calling, Passing, Leaving, Reading, Writing, Tearing, Moved, Returned, Others
    <3>2. ~ Writing(w) /\ ~ Tearing(w)
      BY <1>1, <2>1, <3>1, OnceWritesAlone DEF Writing, Tearing
    <3> QED BY <1>1, <3>1, <3>2, LineEffect DEF Inv, OnceIsFresh, Matches
  <2>2. CASE v = w
    <3>1. CASE Passing(w)
      BY <1>1, <2>2, <3>1 DEF Passing, Moved, Matches, Inv, Calls
    <3>2. CASE Reading(w)
      BY <1>1, <2>2, <3>2 DEF Reading, Moved, Inv, OnceIsFresh, Matches
    <3> QED BY <1>1, <2>2, <3>1, <3>2, IdleIsLocal
            DEF Effect, Calling, Leaving, Writing, Tearing, Moved, Returned
  <2> QED BY <2>1, <2>2
<1>2. UNCHANGED lines /\ Intact => Intact'
  BY DEF Intact
<1> QED BY <1>1, <1>2 DEF OnceIsFresh, Matches, Entries

LEMMA EventOnceKept ==
  ASSUME Inv, NEW w \in Writers, Effect(w)
  PROVE  EventOnce'
<1>1. CASE UNCHANGED lines
  BY <1>1 DEF Inv, EventOnce, Matches, Entries
<1>2. CASE lines' = Append(lines, Torn)
  <2>1. /\ Len(lines') = Len(lines) + 1 /\ Len(lines) \in Nat /\ lines'[Len(lines) + 1] = Torn
        /\ \A i \in 1 .. Len(lines) : lines'[i] = lines[i]
    BY <1>2, AppendIs, TornIsLine, LinesAre DEF Inv
  <2>2. \A i : i \in Entries' <=> i \in Entries
    BY <2>1 DEF Entries
  <2>3. \A i \in Entries : lines'[i] = lines[i]
    BY <2>1 DEF Entries
  <2> QED BY <2>2, <2>3 DEF Inv, EventOnce, Matches
<1>3. CASE Writing(w) /\ lines' = Append(lines, Written(w))
  <2> DEFINE n == Len(lines) + 1
  <2>1. /\ Len(lines') = n /\ Len(lines) \in Nat
        /\ \A i \in 1 .. Len(lines) : lines'[i] = lines[i]
        /\ lines'[n].doc = th[w].id
    BY <1>3, WrittenIs, AppendIs, LinesAre DEF Inv, Writing
  <2>2. SUFFICES ASSUME NEW e \in Events, NEW i \in Entries', NEW j \in Entries',
                        lines'[i].doc = e, lines'[j].doc = e
                 PROVE  i = j
    BY DEF EventOnce, Matches
  <2>3. \A k \in Entries' : k = n \/ (k \in Entries /\ lines'[k] = lines[k])
    BY <2>1 DEF Entries
  <2>4. CASE i # n /\ j # n
    BY <2>2, <2>3, <2>4 DEF Inv, EventOnce, Matches
  <2>5. CASE i = n \/ j = n
    <3>1. th[w].id = e
      BY <2>1, <2>2, <2>5
    <3>2. th[w].kind \in Kind
      BY DEF Inv, Types, Local
    <3>3. th[w].kind = "once"
      BY <1>3, <3>1, <3>2 DEF Writing, Inv, Calls, Kind
    <3>4. Matches(e) = {}
      BY <1>3, <3>1, <3>3 DEF Writing, Inv, OnceIsFresh
    <3> QED BY <2>2, <2>3, <3>4 DEF Matches
  <2> QED BY <2>4, <2>5
<1> QED BY <1>1, <1>2, <1>3, LineEffect

LEMMA ReturnsOnChainKept ==
  ASSUME Inv, NEW w \in Writers, Effect(w)
  PROVE  ReturnsOnChain'
<1> SUFFICES ASSUME NEW v \in Writers, th'[v].pc = "commit", Whole' \/ th'[v].kind = "once"
             PROVE  \E i \in Entries' : lines'[i].hash = th'[v].hash
  BY DEF ReturnsOnChain, OnChain
<1>1. /\ Whole' => Whole
      /\ \A h : (\E i \in Entries : lines[i].hash = h) => (\E i \in Entries' : lines'[i].hash = h)
  BY LinesGrow
<1>2. CASE v # w
  <2>1. th'[v] = th[v]
    BY <1>2 DEF Effect, Calling, Passing, Leaving, Reading, Writing, Tearing, Moved, Returned, Others
  <2> QED BY <1>1, <2>1 DEF Inv, ReturnsOnChain, OnChain
<1>3. CASE v = w /\ Passing(w)
  BY <1>1, <1>3 DEF Passing, Moved
<1>4. CASE v = w /\ Writing(w)
  <2>1. th'[w].hash = th[w].hash /\ th'[w].kind = th[w].kind /\ th[w].pc = "write"
    BY <1>4 DEF Writing, Moved
  <2>2. Whole
    BY <1>1, <1>4, <2>1 DEF Inv, OnceIsFresh, Intact, Whole
  <2>3. ~ open
    <3>1. SUFFICES ASSUME open PROVE FALSE
      OBVIOUS
    <3>2. lines # <<>> /\ lines[Len(lines)] = Torn
      BY <3>1 DEF Inv, TornIsLast
    <3>3. Len(lines) \in 1 .. Len(lines)
      BY <3>2, LinesAre DEF Inv
    <3> QED BY <2>2, <3>2, <3>3 DEF Whole
  <2>4. /\ Len(lines') = Len(lines) + 1 /\ Len(lines) \in Nat
        /\ lines'[Len(lines) + 1] = Written(w)
    BY <1>4, <2>1, <2>3, WrittenIs, AppendIs, LinesAre DEF Inv, Writing
  <2>5. Len(lines) + 1 \in Entries'
    BY <2>1, <2>4, WrittenIs DEF Entries
  <2> QED BY <1>4, <2>1, <2>4, <2>5, WrittenIs
<1> QED BY <1>2, <1>3, <1>4, IdleIsLocal
        DEF Effect, Calling, Leaving, Reading, Tearing, Moved, Returned

LEMMA AckedIsOnChainKept ==
  ASSUME Inv, NEW w \in Writers, Effect(w)
  PROVE  AckedIsOnChain'
<1> SUFFICES ASSUME NEW a \in acked', Whole' \/ a[1] = "once"
             PROVE  \E i \in Entries' : lines'[i].hash = a[2]
  BY DEF AckedIsOnChain, OnChain
<1>1. /\ Whole' => Whole
      /\ \A h : (\E i \in Entries : lines[i].hash = h) => (\E i \in Entries' : lines'[i].hash = h)
  BY LinesGrow
<1>2. a \in acked \/ (th[w].pc = "commit" /\ a = <<th[w].kind, th[w].hash>>)
  BY DEF Effect, Calling, Passing, Leaving, Reading, Writing, Tearing
<1>3. \E i \in Entries : lines[i].hash = a[2]
  BY <1>1, <1>2 DEF Inv, AckedIsOnChain, ReturnsOnChain, OnChain
<1> QED BY <1>1, <1>3

LEMMA CrashKeeps ==
  ASSUME Inv, NEW p \in Procs, Crash(p)
  PROVE  Inv'
<1>1. /\ UNCHANGED <<dep, lines, open, acked, tick, raced>>
      /\ th' \in [Writers -> Local]
      /\ \A w \in Writers : th'[w] = Idle \/ (th'[w] = th[w] /\ ProcOf(w) # p)
      /\ lock' = [lock EXCEPT ![p] = None]
      /\ \A w \in Writers : dbLock = w /\ ProcOf(w) # p => dbLock' = w
  BY CrashEffect DEF Inv
<1>2. Types'
  BY <1>1 DEF Inv, Types
<1>3. Calls'
  BY <1>1, IdleIsLocal DEF Inv, Calls
<1>4. Locked'
  <2>1. \A w \in Writers : (ProcOf(w))' = ProcOf(w) /\ ProcOf(w) \in Procs
    BY <1>1, ProcsAre DEF ProcOf
  <2> QED BY <1>1, <2>1, IdleIsLocal DEF Inv, Types, Locked
<1>5. UNCHANGED <<Intact, Whole, Entries>>
  BY <1>1 DEF Intact, Whole, Entries
<1>6. TornIsLast' /\ ChainIntact' /\ EventOnce' /\ AckedIsOnChain'
  BY <1>1, <1>5 DEF Inv, TornIsLast, ChainIntact, EventOnce, AckedIsOnChain, Matches, OnChain
<1>7. OneWrites' /\ HeadIsCurrent' /\ OnceIsFresh' /\ ReturnsOnChain'
  <2>1. OneWrites'
    BY <1>1, IdleIsLocal DEF Inv, OneWrites
  <2> QED BY <1>1, <1>5, <2>1, IdleIsLocal
          DEF Inv, HeadIsCurrent, OnceIsFresh, ReturnsOnChain, Matches, OnChain
<1> QED BY <1>2, <1>3, <1>4, <1>6, <1>7 DEF Inv

LEMMA InvKept == Inv /\ [Next]_vars => Inv'
<1> SUFFICES ASSUME Inv, [Next]_vars PROVE Inv'
  OBVIOUS
<1>1. CASE Next
  <2>1. tick' \in Nat
    <3>1. ASSUME NEW w \in Writers, Step(w) PROVE tick' = tick \/ tick' = tick + 1
      BY <3>1, Zenon DEF Step, Begin, Check, Commit, FindPacket, PutBody, ReadHead, Write
    <3>2. ASSUME NEW w \in Writers, NEW kind, NEW id, Call(w, kind, id) PROVE tick' = tick
      BY <3>2, Zenon DEF Call
    <3>3. tick' = tick \/ tick' = tick + 1
      BY <1>1, <3>1, <3>2, Zenon DEF Next, WriteFails, Crash
    <3> QED BY <3>3 DEF Inv, Types
  <2>2. ASSUME NEW w \in Writers, Effect(w) PROVE Inv'
    BY <2>1, <2>2, TypesKept, TornIsLastKept, CallsKept, LockedKept, OneWritesKept, HeadIsCurrentKept,
       ChainIntactKept, OnceIsFreshKept, EventOnceKept, ReturnsOnChainKept, AckedIsOnChainKept DEF Inv
  <2> QED BY <1>1, <2>2, StepEffect, CrashKeeps
<1>2. CASE UNCHANGED vars
  BY <1>2 DEF vars, Inv, Types, TornIsLast, Calls, Locked, OneWrites, HeadIsCurrent, ChainIntact, OnceIsFresh,
              EventOnce, ReturnsOnChain, AckedIsOnChain, Whole, Intact, Entries, Matches, OnChain, ProcOf
<1> QED BY <1>1, <1>2

LEMMA AlwaysInv == Spec => []Inv
  BY InitInv, InvKept, PTL DEF Spec

(***************************************************************************)
(* The theorems.                                                           *)
(***************************************************************************)

\* The ledger of evidence/ledger.py verifies at every moment, for any processes and
\* threads and wherever they die, until a full disk tears a line or append_packet
\* runs while another process appends: the transaction of the audit service and
\* the lock of the ledger object leave no other way to fork the chain.
THEOREM ChainHolds == Spec => []ChainIntact
<1>1. Inv => ChainIntact
  BY DEF Inv
<1> QED BY <1>1, AlwaysInv, PTL

\* record_once puts an event on the chain at most once, across crashes between
\* its append and its commit.
THEOREM EventsAreRecordedOnce == Spec => []OnceIsOnce
<1>1. ASSUME Inv, NEW e \in Events PROVE Cardinality(Matches(e)) <= 1
  <2>1. CASE Matches(e) = {}
    BY <2>1, FS_EmptySet
  <2>2. CASE Matches(e) # {}
    <3>1. PICK i : Matches(e) = {i}
      BY <1>1, <2>2 DEF Inv, EventOnce
    <3>2. Cardinality({i}) = 1
      BY FS_Singleton
    <3> QED BY <3>1, <3>2
  <2> QED BY <2>1, <2>2
<1>2. Inv => OnceIsOnce
  BY <1>1 DEF OnceIsOnce
<1> QED BY <1>2, AlwaysInv, PTL

\* What the audit service returned to a caller is on the chain: for record_once
\* even with other writers behind a torn line, for the rest without one.
THEOREM AcknowledgedIsKept == Spec => []AckedIsOnChain
<1>1. Inv => AckedIsOnChain
  BY DEF Inv
<1> QED BY <1>1, AlwaysInv, PTL
=============================================================================
