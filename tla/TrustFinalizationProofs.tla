----------------------- MODULE TrustFinalizationProofs -----------------------
(***************************************************************************)
(* Theorems about TrustFinalization for any workers and any number of      *)
(* claims and edits.                                                       *)
(***************************************************************************)
EXTENDS TrustFinalization, TLAPS

USE WorkersAssumption, BoundsAssumption

(***************************************************************************)
(* The inductive invariant.                                                *)
(***************************************************************************)
Row     == [state : RowState, digest : Versions, created : Claimed, receipt : Claimed,
            entry : Nat, verifiedAt : Claimed]
Entry   == [event : Events, body : Claimed]
Local   == [pc : PC, checked : BOOLEAN, claim : Claimed, digest : Versions, read : Claimed,
            entry : Nat]

Types ==
    /\ dialect \in {"sqlite", "postgresql"} /\ bound \in BOOLEAN /\ live \in Versions
    /\ row \in Row
    /\ ledger \in Seq(Entry)
    /\ owner \in Workers \union {None}
    /\ claims \in 0 .. MaxClaims
    /\ fz \in [Workers -> Local]
    /\ failed \in BOOLEAN

Started   == [event |-> "started", body |-> row.created]
Final     == [event |-> "final", body |-> row.receipt]
Completed == [event |-> "completed", body |-> row.verifiedAt]

\* The ledger is a prefix of the three events the row tells.
Chain ==
    /\ Len(ledger) <= 3
    /\ Len(ledger) >= 1 => ledger[1] = Started /\ row.state # "none"
    /\ Len(ledger) >= 2 => ledger[2] = Final /\ row.receipt # Unset
    /\ Len(ledger) >= 3 => ledger[3] = Completed /\ row.verifiedAt # Unset /\ row.entry = 2

\* The receipts are those the row names, over a state the run has had, and
\* inserted before it had another one if somebody verified them.
RowIsBacked ==
    /\ row.state = "none" => row.receipt = Unset /\ row.verifiedAt = Unset /\ row.entry = Unset
    /\ row.receipt = Unset => receipts = {} /\ row.verifiedAt = Unset
    /\ row.receipt # Unset => \E at \in Versions :
         /\ receipts = {[sig |-> row.receipt, digest |-> row.digest, at |-> at]}
         /\ row.digest <= at /\ at <= live
         /\ row.verifiedAt # Unset => at = row.digest
    /\ row.state = "verified" => Len(ledger) >= 3
    /\ row.digest <= live

AfterPrepare == {"compare", "start", "record", "insert", "reread", "append", "bind", "verify", "stamp",
                 "settle", "complete", "seal"}
AfterCompare == AfterPrepare \ {"compare"}
AfterStart   == AfterCompare \ {"start"}
AfterRecord  == AfterStart \ {"record", "insert"}
AfterAppend  == {"bind", "verify", "stamp", "settle", "complete", "seal"}
AfterBind    == AfterAppend \ {"bind"}
AfterStamp   == {"settle", "complete", "seal"}

\* What a worker inside finalize can rely on, whoever else is there.
Fits(w) ==
    /\ fz[w].pc # "idle" => fz[w].claim \in Claims
    /\ fz[w].digest <= live
    /\ fz[w].pc \in AfterPrepare => row.state # "none"
    /\ fz[w].pc \in AfterCompare => row.digest = fz[w].digest
    /\ fz[w].pc = "start" /\ fz[w].read # Unset => row.receipt = fz[w].read
    /\ fz[w].pc \in AfterStart => Len(ledger) >= 1
    /\ fz[w].pc \in AfterRecord => row.receipt # Unset
    /\ fz[w].pc = "append" => fz[w].read = row.receipt
    /\ fz[w].pc \in AfterAppend => Len(ledger) >= 2
    /\ fz[w].pc = "bind" => fz[w].entry = 2
    /\ fz[w].pc \in AfterBind => row.entry = 2
    /\ fz[w].pc = "stamp" => \A r \in receipts : r.at = r.digest
    /\ fz[w].pc \in AfterStamp => row.verifiedAt # Unset
    /\ fz[w].pc = "complete" => fz[w].read = row.verifiedAt
    /\ fz[w].pc = "seal" => Len(ledger) >= 3

\* One worker at a time is in the transaction after signing, and the row has no
\* receipt until it inserts one.
OneSigns ==
    /\ \A u, v \in Workers : fz[u].pc = "insert" /\ fz[v].pc = "insert" => u = v
    /\ Signing => row.receipt = Unset

Inv ==
    /\ Types /\ Chain /\ RowIsBacked /\ OnlyEditsRefuse /\ OneSigns
    /\ \A w \in Workers : Fits(w)

(***************************************************************************)
(* What a step does to the record of a worker.                             *)
(***************************************************************************)
Others(w) == \A u \in Workers : u # w => fz'[u] = fz[u]

Went(w, pc, digest, read, entry) ==
    /\ fz' \in [Workers -> Local] /\ Others(w)
    /\ fz'[w].pc = pc /\ fz'[w].claim = fz[w].claim /\ fz'[w].digest = digest
    /\ fz'[w].read = read /\ fz'[w].entry = entry

Left(w) == fz' \in [Workers -> Local] /\ Others(w) /\ fz'[w] = Idle

LEMMA IdleIs ==
  /\ Idle \in Local /\ Idle.pc = "idle" /\ Idle.checked = FALSE /\ Idle.claim = Unset
  /\ Idle.digest = Reviewed /\ Idle.read = Unset /\ Idle.entry = Unset
  BY DEF Idle, Local, PC, Versions, Claimed, Unset, Reviewed

LEMMA LocalMoves ==
  ASSUME Types, NEW w \in Workers, NEW y \in Local, fz' = [fz EXCEPT ![w] = y]
  PROVE  fz'[w] = y /\ Others(w) /\ fz' \in [Workers -> Local]
  BY DEF Types, Others

LEMMA GotoMoves ==
  ASSUME Types, NEW w \in Workers, NEW pc \in PC, Goto(w, pc)
  PROVE  Went(w, pc, fz[w].digest, fz[w].read, fz[w].entry)
<1> DEFINE y == [fz[w] EXCEPT !.pc = pc, !.checked = FALSE]
<1>1. fz' = [fz EXCEPT ![w] = y]
  BY DEF Goto
<1>2. /\ y \in Local /\ y.pc = pc /\ y.claim = fz[w].claim /\ y.digest = fz[w].digest
      /\ y.read = fz[w].read /\ y.entry = fz[w].entry
  BY DEF Types, Local
<1> HIDE DEF y
<1> QED BY <1>1, <1>2, LocalMoves DEF Went

LEMMA DigestMoves ==
  ASSUME Types, NEW w \in Workers, NEW pc \in PC, NEW d \in Versions,
         fz' = [fz EXCEPT ![w].pc = pc, ![w].digest = d]
  PROVE  Went(w, pc, d, fz[w].read, fz[w].entry)
<1> DEFINE y == [fz[w] EXCEPT !.pc = pc, !.digest = d]
<1>1. fz' = [fz EXCEPT ![w] = y]
  OBVIOUS
<1>2. /\ y \in Local /\ y.pc = pc /\ y.claim = fz[w].claim /\ y.digest = d
      /\ y.read = fz[w].read /\ y.entry = fz[w].entry
  BY DEF Types, Local
<1> HIDE DEF y
<1> QED BY <1>1, <1>2, LocalMoves DEF Went

LEMMA ReadMoves ==
  ASSUME Types, NEW w \in Workers, NEW pc \in PC, NEW x \in Claimed,
         fz' = [fz EXCEPT ![w].pc = pc, ![w].read = x]
  PROVE  Went(w, pc, fz[w].digest, x, fz[w].entry)
<1> DEFINE y == [fz[w] EXCEPT !.pc = pc, !.read = x]
<1>1. fz' = [fz EXCEPT ![w] = y]
  OBVIOUS
<1>2. /\ y \in Local /\ y.pc = pc /\ y.claim = fz[w].claim /\ y.digest = fz[w].digest
      /\ y.read = x /\ y.entry = fz[w].entry
  BY DEF Types, Local
<1> HIDE DEF y
<1> QED BY <1>1, <1>2, LocalMoves DEF Went

LEMMA FreshReadMoves ==
  ASSUME Types, NEW w \in Workers, NEW pc \in PC, NEW x \in Claimed,
         fz' = [fz EXCEPT ![w].pc = pc, ![w].read = x, ![w].checked = FALSE]
  PROVE  Went(w, pc, fz[w].digest, x, fz[w].entry)
<1> DEFINE y == [fz[w] EXCEPT !.pc = pc, !.read = x, !.checked = FALSE]
<1>1. fz' = [fz EXCEPT ![w] = y]
  OBVIOUS
<1>2. /\ y \in Local /\ y.pc = pc /\ y.claim = fz[w].claim /\ y.digest = fz[w].digest
      /\ y.read = x /\ y.entry = fz[w].entry
  BY DEF Types, Local
<1> HIDE DEF y
<1> QED BY <1>1, <1>2, LocalMoves DEF Went

LEMMA EntryMoves ==
  ASSUME Types, NEW w \in Workers, NEW pc \in PC, NEW e \in Nat,
         fz' = [fz EXCEPT ![w].pc = pc, ![w].checked = FALSE, ![w].entry = e]
  PROVE  Went(w, pc, fz[w].digest, fz[w].read, e)
<1> DEFINE y == [fz[w] EXCEPT !.pc = pc, !.checked = FALSE, !.entry = e]
<1>1. fz' = [fz EXCEPT ![w] = y]
  OBVIOUS
<1>2. /\ y \in Local /\ y.pc = pc /\ y.claim = fz[w].claim /\ y.digest = fz[w].digest
      /\ y.read = fz[w].read /\ y.entry = e
  BY DEF Types, Local
<1> HIDE DEF y
<1> QED BY <1>1, <1>2, LocalMoves DEF Went

LEMMA RefuseMoves ==
  ASSUME Types, NEW w \in Workers, fz' = [fz EXCEPT ![w] = Idle]
  PROVE  Left(w)
  BY IdleIs, LocalMoves DEF Left

(***************************************************************************)
(* The ledger.                                                             *)
(***************************************************************************)
LEMMA LedgerIs ==
  ASSUME Types
  PROVE  /\ Len(ledger) \in Nat /\ DOMAIN ledger = 1 .. Len(ledger)
         /\ \A i \in 1 .. Len(ledger) : ledger[i] \in Entry
  BY DEF Types

\* Where the three events are.
LEMMA EntriesAre ==
  ASSUME Types, Chain
  PROVE  /\ Entries("started") = IF Len(ledger) >= 1 THEN {1} ELSE {}
         /\ Entries("final") = IF Len(ledger) >= 2 THEN {2} ELSE {}
         /\ Entries("completed") = IF Len(ledger) >= 3 THEN {3} ELSE {}
<1>1. ASSUME NEW i
      PROVE  \/ i \in 1 .. Len(ledger) /\ (i = 1 \/ i = 2 \/ i = 3)
             \/ i \notin 1 .. Len(ledger)
  BY LedgerIs DEF Chain
<1>2. /\ Len(ledger) >= 1 => ledger[1].event = "started"
      /\ Len(ledger) >= 2 => ledger[2].event = "final"
      /\ Len(ledger) >= 3 => ledger[3].event = "completed"
  BY DEF Chain, Started, Final, Completed
<1>3. \A e, i : i \in Entries(e) <=> i \in 1 .. Len(ledger) /\ ledger[i].event = e
  BY DEF Entries
<1>4. \A i : i \in Entries("started") <=> i = 1 /\ Len(ledger) >= 1
  BY <1>1, <1>2, <1>3, LedgerIs
<1>5. \A i : i \in Entries("final") <=> i = 2 /\ Len(ledger) >= 2
  BY <1>1, <1>2, <1>3, LedgerIs
<1>6. \A i : i \in Entries("completed") <=> i = 3 /\ Len(ledger) >= 3
  BY <1>1, <1>2, <1>3, LedgerIs
<1> QED BY <1>4, <1>5, <1>6

\* The events that a retry records are the ones the chain has.
LEMMA NothingConflicts ==
  ASSUME Types, Chain
  PROVE  /\ ~ Conflicts("started", row.created)
         /\ ~ Conflicts("final", row.receipt)
         /\ ~ Conflicts("completed", row.verifiedAt)
  BY EntriesAre DEF Conflicts, Chain, Started, Final, Completed

\* The entry new is the k-th of the ledger, or is there already.
Records(k, new) ==
    /\ ledger' \in Seq(Entry) /\ Len(ledger') = IF Len(ledger) >= k THEN Len(ledger) ELSE k
    /\ \A i \in 1 .. Len(ledger) : ledger'[i] = ledger[i]
    /\ Len(ledger) < k => ledger'[k] = new

LEMMA RecordOnceEffect ==
  ASSUME Types, NEW event \in Events, NEW body \in Claimed, NEW k \in 1 .. 3,
         Len(ledger) + 1 >= k, Entries(event) = IF Len(ledger) >= k THEN {k} ELSE {},
         RecordOnce(event, body)
  PROVE  Records(k, [event |-> event, body |-> body])
<1> DEFINE new == [event |-> event, body |-> body]
<1>1. new \in Entry /\ ledger' = IF Entries(event) # {} THEN ledger ELSE Append(ledger, new)
  BY DEF Entry, RecordOnce
<1> HIDE DEF new
<1>2. Len(ledger) \in Nat /\ ledger \in Seq(Entry)
  BY DEF Types
<1>3. CASE Len(ledger) >= k
  BY <1>1, <1>2, <1>3 DEF Records
<1>4. CASE Len(ledger) < k
  <2>1. ledger' = Append(ledger, new) /\ Len(ledger) + 1 = k
    BY <1>1, <1>2, <1>4
  <2>2. /\ ledger' \in Seq(Entry) /\ Len(ledger') = k /\ ledger'[k] = new
        /\ \A i \in 1 .. Len(ledger) : ledger'[i] = ledger[i]
    BY <1>1, <1>2, <2>1
  <2> QED BY <1>2, <1>4, <2>2 DEF Records, new
<1> QED BY <1>2, <1>3, <1>4 DEF new

\* The chain after each event.
LEMMA ChainGrows ==
  ASSUME Types, Chain, UNCHANGED row,
         \/ Records(1, Started) /\ row.state # "none"
         \/ Records(2, Final) /\ Len(ledger) >= 1 /\ row.receipt # Unset
         \/ Records(3, Completed) /\ Len(ledger) >= 2 /\ row.verifiedAt # Unset /\ row.entry = 2
  PROVE  Chain' /\ Len(ledger) <= Len(ledger')
<1>1. Len(ledger) \in Nat
  BY LedgerIs
<1>2. Started' = Started /\ Final' = Final /\ Completed' = Completed
  BY DEF Started, Final, Completed
<1> HIDE DEF Started, Final, Completed
<1>3. CASE Records(1, Started) /\ row.state # "none"
  BY <1>1, <1>2, <1>3 DEF Records, Chain
<1>4. CASE Records(2, Final) /\ Len(ledger) >= 1 /\ row.receipt # Unset
  BY <1>1, <1>2, <1>4 DEF Records, Chain
<1>5. CASE Records(3, Completed) /\ Len(ledger) >= 2 /\ row.verifiedAt # Unset /\ row.entry = 2
  BY <1>1, <1>2, <1>5 DEF Records, Chain
<1> QED BY <1>3, <1>4, <1>5

(***************************************************************************)
(* What the workers rely on survives the steps of the others.              *)
(***************************************************************************)
Grows ==
    /\ live <= live'
    /\ row.state # "none" => row'.state # "none" /\ row'.digest = row.digest
    /\ row.receipt # Unset => row'.receipt = row.receipt /\ receipts' = receipts
    /\ row.entry = 2 => row'.entry = 2
    /\ row.verifiedAt # Unset => row'.verifiedAt = row.verifiedAt
    /\ Len(ledger) <= Len(ledger')

USE DEF AfterPrepare, AfterCompare, AfterStart, AfterRecord, AfterAppend, AfterBind, AfterStamp

LEMMA OthersFit ==
  ASSUME Types, Types', NEW u \in Workers, Fits(u), fz'[u] = fz[u], Grows
  PROVE  Fits(u)'
<1>1. /\ live \in Nat /\ live' \in Nat /\ fz[u].digest \in Nat
      /\ Len(ledger) \in Nat /\ Len(ledger') \in Nat
  <2>1. live \in Versions /\ live' \in Versions /\ fz[u] \in Local
    BY DEF Types
  <2>2. ledger \in Seq(Entry) /\ ledger' \in Seq(Entry)
    BY DEF Types
  <2>3. fz[u].digest \in Versions
    BY <2>1 DEF Local
  <2> QED BY <2>1, <2>2, <2>3 DEF Versions
<1>2. fz'[u].digest <= live' /\ (fz'[u].pc # "idle" => fz'[u].claim \in Claims)
  BY <1>1 DEF Fits, Grows
<1>3. /\ fz'[u].pc \in AfterPrepare => row'.state # "none"
      /\ fz'[u].pc \in AfterCompare => row'.digest = fz'[u].digest
      /\ fz'[u].pc = "start" /\ fz'[u].read # Unset => row'.receipt = fz'[u].read
      /\ fz'[u].pc \in AfterRecord => row'.receipt # Unset
      /\ fz'[u].pc = "append" => fz'[u].read = row'.receipt
      /\ fz'[u].pc = "bind" => fz'[u].entry = 2
      /\ fz'[u].pc = "stamp" => \A r \in receipts' : r.at = r.digest
      /\ fz'[u].pc \in AfterBind => row'.entry = 2
      /\ fz'[u].pc \in AfterStamp => row'.verifiedAt # Unset
      /\ fz'[u].pc = "complete" => fz'[u].read = row'.verifiedAt
  BY DEF Fits, Grows
<1>4. /\ fz'[u].pc \in AfterStart => Len(ledger') >= 1
      /\ fz'[u].pc \in AfterAppend => Len(ledger') >= 2
      /\ fz'[u].pc = "seal" => Len(ledger') >= 3
  BY <1>1 DEF Fits, Grows
<1> QED BY <1>2, <1>3, <1>4 DEF Fits

LEMMA IdleFits ==
  ASSUME Types', NEW u \in Workers, fz'[u] = Idle
  PROVE  Fits(u)'
<1>1. live' \in Nat
  BY DEF Types, Versions
<1> QED BY <1>1, IdleIs DEF Fits, Reviewed

\* A step of worker w that fits keeps the invariant.
LEMMA StepKeeps ==
  ASSUME Inv, NEW w \in Workers, Types', Chain', RowIsBacked', OneSigns', Grows, Fits(w)', Others(w),
         UNCHANGED live, failed' => failed \/ live # Reviewed
  PROVE  Inv'
<1>1. ASSUME NEW u \in Workers PROVE Fits(u)'
  BY OthersFit DEF Inv, Others
<1> QED BY <1>1 DEF Inv, OnlyEditsRefuse

\* A worker that does not enter the transaction after signing leaves it alone.
LEMMA NobodyEnters ==
  ASSUME Inv, NEW w \in Workers, Others(w), fz'[w].pc # "insert", row'.receipt = row.receipt
  PROVE  OneSigns'
<1>1. \A u \in Workers : fz'[u].pc = "insert" => fz[u].pc = "insert"
  BY DEF Others
<1> QED BY <1>1 DEF Inv, OneSigns, Signing

\* The receipt of a row that has one.
LEMMA ReceiptIs ==
  ASSUME RowIsBacked, row.receipt # Unset
  PROVE  \E r \in receipts : receipts = {r} /\ r.sig = row.receipt /\ r.digest = row.digest
<1>1. PICK at \in Versions :
        receipts = {[sig |-> row.receipt, digest |-> row.digest, at |-> at]}
  BY DEF RowIsBacked
<1> QED BY <1>1

\* What backs the row backs it again, if the chain only grew and the row's
\* receipt and first verification are the ones it had.
LEMMA BackedStays ==
  ASSUME RowIsBacked, UNCHANGED <<receipts, live>>,
         row'.receipt = row.receipt,
         row.receipt # Unset => row'.digest = row.digest,
         row'.digest <= live,
         row'.state = "none" => row'.receipt = Unset /\ row'.verifiedAt = Unset /\ row'.entry = Unset,
         row'.state = "verified" => Len(ledger') >= 3,
         row'.verifiedAt # Unset => row.verifiedAt # Unset
  PROVE  RowIsBacked'
  BY DEF RowIsBacked

LEMMA TablesStay ==
  ASSUME Types, Chain, RowIsBacked, UNCHANGED <<row, ledger, receipts, live>>
  PROVE  Chain' /\ RowIsBacked' /\ Grows
<1>1. live \in Nat /\ Len(ledger) \in Nat
  BY DEF Types, Versions
<1> QED BY <1>1 DEF Chain, Started, Final, Completed, RowIsBacked, Grows

\* The lease holder gives up only over an edited state.
LEMMA RefuseKeeps ==
  ASSUME Inv, NEW w \in Workers, Refuse(w), live # Reviewed,
         UNCHANGED <<dialect, bound, live, row, receipts, ledger, owner, claims>>
  PROVE  Inv'
<1>1. Left(w) /\ failed' \in BOOLEAN
  BY RefuseMoves DEF Inv, Refuse, Types
<1>2. Types'
  BY <1>1 DEF Inv, Types, Left
<1>3. Fits(w)' /\ Others(w) /\ fz'[w].pc # "insert"
  BY <1>1, <1>2, IdleFits, IdleIs DEF Left
<1> QED BY <1>2, <1>3, StepKeeps, NobodyEnters, TablesStay DEF Inv

(***************************************************************************)
(* The steps that change no table.                                         *)
(***************************************************************************)
LEMMA LeaveKeeps ==
  ASSUME Inv, NEW w \in Workers, fz' = [fz EXCEPT ![w] = Idle],
         UNCHANGED <<dialect, bound, live, row, receipts, ledger, owner, claims, failed>>
  PROVE  Inv'
<1>1. Left(w)
  BY RefuseMoves DEF Inv
<1>2. Types'
  BY <1>1 DEF Inv, Types, Left
<1>3. Fits(w)' /\ Others(w) /\ fz'[w].pc # "insert"
  BY <1>1, <1>2, IdleFits, IdleIs DEF Left
<1> QED BY <1>2, <1>3, StepKeeps, NobodyEnters, TablesStay DEF Inv

LEMMA ClaimKeeps ==
  ASSUME Inv, NEW w \in Workers, Claim(w)
  PROVE  Inv'
<1> DEFINE n == claims + 1
           y == [Idle EXCEPT !.pc = "canonicalize", !.claim = n]
<1>1. n \in Claims /\ claims' = n /\ claims' \in 0 .. MaxClaims
  BY DEF Claim, Inv, Types, Claims
<1>2. fz' = [fz EXCEPT ![w] = y]
  BY DEF Claim
<1> HIDE DEF n
<1>3. /\ y \in Local /\ y.pc = "canonicalize" /\ y.claim = n /\ y.digest = Reviewed
      /\ y.read = Unset
  BY <1>1, IdleIs DEF Local, PC, Claimed
<1> HIDE DEF y
<1>4. fz'[w] = y /\ Others(w) /\ fz' \in [Workers -> Local]
  BY <1>2, <1>3, LocalMoves DEF Inv
<1>5. Types' /\ UNCHANGED <<row, receipts, ledger, live, failed>>
  BY <1>1, <1>4 DEF Claim, Inv, Types
<1>6. Fits(w)'
  <2>1. live' \in Nat
    BY <1>5 DEF Types, Versions
  <2> QED BY <1>1, <1>3, <1>4, <2>1 DEF Fits, Reviewed
<1>7. OneSigns'
  BY <1>3, <1>4, <1>5, NobodyEnters
<1> QED BY <1>4, <1>5, <1>6, <1>7, StepKeeps, TablesStay DEF Inv

LEMMA BoundaryKeeps ==
  ASSUME Inv, NEW w \in Workers, Boundary(w)
  PROVE  Inv'
<1>1. CASE fz' = [fz EXCEPT ![w] = Idle]
  BY <1>1, LeaveKeeps DEF Boundary
<1>2. CASE fz' = [fz EXCEPT ![w].checked = TRUE]
  <2> DEFINE y == [fz[w] EXCEPT !.checked = TRUE]
  <2>1. fz' = [fz EXCEPT ![w] = y]
    BY <1>2
  <2>2. /\ y \in Local /\ y.pc = fz[w].pc /\ y.claim = fz[w].claim /\ y.digest = fz[w].digest
        /\ y.read = fz[w].read /\ y.entry = fz[w].entry
    BY DEF Inv, Types, Local
  <2> HIDE DEF y
  <2>3. fz'[w] = y /\ Others(w) /\ fz' \in [Workers -> Local]
    BY <2>1, <2>2, LocalMoves DEF Inv
  <2>4. Types' /\ UNCHANGED <<row, receipts, ledger, live, failed>>
    BY <2>3 DEF Boundary, Inv, Types
  <2>5. Fits(w)'
    BY <2>2, <2>3, <2>4 DEF Inv, Fits
  <2>6. OneSigns'
    BY <2>2, <2>3, <2>4, NobodyEnters DEF Boundary, Fenced
  <2> QED BY <2>3, <2>4, <2>5, <2>6, StepKeeps, TablesStay DEF Inv
<1> QED BY <1>1, <1>2 DEF Boundary

LEMMA UnmovedKeeps ==
  ASSUME Inv, NEW w \in Workers, UNCHANGED <<dialect, bound, live, row, receipts, ledger, owner, claims, failed>>,
         fz' \in [Workers -> Local], Others(w), Fits(w)', fz'[w].pc # "insert"
  PROVE  Inv'
<1>1. Types'
  BY DEF Inv, Types
<1> QED BY <1>1, StepKeeps, NobodyEnters, TablesStay DEF Inv

LEMMA CanonicalizeKeeps ==
  ASSUME Inv, NEW w \in Workers, Canonicalize(w)
  PROVE  Inv'
<1>1. CASE Readable
  <2>1. fz' = [fz EXCEPT ![w].pc = "prepare", ![w].digest = live] /\ live \in Versions
    BY <1>1 DEF Canonicalize, Inv, Types
  <2>2. Went(w, "prepare", live, fz[w].read, fz[w].entry)
    BY <2>1, DigestMoves DEF Inv, PC
  <2>3. Fits(w)'
    <3>1. live <= live
      BY <2>1 DEF Versions
    <3> QED BY <1>1, <2>2, <3>1 DEF Canonicalize, At, Inv, Fits, Went
  <2> QED BY <1>1, <2>2, <2>3, UnmovedKeeps DEF Canonicalize, Went
<1>2. CASE ~ Readable
  BY <1>2, RefuseKeeps DEF Canonicalize, Readable
<1> QED BY <1>1, <1>2

LEMMA CompareKeeps ==
  ASSUME Inv, NEW w \in Workers, Compare(w)
  PROVE  Inv'
<1>1. fz[w].pc = "compare" /\ Fits(w) /\ row \in Row
  BY DEF Compare, At, Inv, Types
<1>2. CASE row.digest = fz[w].digest
  <2>1. fz' = [fz EXCEPT ![w].pc = "start", ![w].read = row.receipt] /\ row.receipt \in Claimed
    BY <1>1, <1>2 DEF Compare, Row
  <2>2. Went(w, "start", fz[w].digest, row.receipt, fz[w].entry)
    BY <2>1, ReadMoves DEF Inv, PC
  <2>3. Fits(w)'
    BY <1>1, <1>2, <2>2 DEF Compare, Fits, Went
  <2> QED BY <1>2, <2>2, <2>3, UnmovedKeeps DEF Compare, Went
<1>3. CASE row.digest # fz[w].digest
  <2>1. live # Reviewed
    BY <1>1, <1>3 DEF Inv, Fits, RowIsBacked, Types, Row, Local, Versions, Reviewed
  <2> QED BY <1>3, <2>1, RefuseKeeps DEF Compare
<1> QED BY <1>2, <1>3

LEMMA RereadKeeps ==
  ASSUME Inv, NEW w \in Workers, Reread(w)
  PROVE  Inv'
<1>1. fz[w].pc = "reread" /\ Fits(w) /\ row.receipt \in Claimed
  BY DEF Reread, At, Inv, Types, Row
<1>2. Went(w, "append", fz[w].digest, row.receipt, fz[w].entry)
  BY <1>1, FreshReadMoves DEF Reread, Inv, PC
<1>3. Fits(w)'
  BY <1>1, <1>2 DEF Reread, Fits, Went
<1> QED BY <1>2, <1>3, UnmovedKeeps DEF Reread, Went

LEMMA SettleKeeps ==
  ASSUME Inv, NEW w \in Workers, Settle(w)
  PROVE  Inv'
<1>1. fz[w].pc = "settle" /\ Fits(w) /\ row.verifiedAt \in Claimed
  BY DEF Settle, At, Inv, Types, Row
<1>2. Went(w, "complete", fz[w].digest, row.verifiedAt, fz[w].entry)
  BY <1>1, ReadMoves DEF Settle, Inv, PC
<1>3. Fits(w)'
  BY <1>1, <1>2 DEF Settle, Fits, Went
<1> QED BY <1>2, <1>3, UnmovedKeeps DEF Settle, Went

LEMMA VerifyKeeps ==
  ASSUME Inv, NEW w \in Workers, Verify(w)
  PROVE  Inv'
<1>1. fz[w].pc = "verify" /\ Fits(w)
  BY DEF Verify, At, Inv
<1>2. CASE Verifies
  <2>1. Went(w, "stamp", fz[w].digest, fz[w].read, fz[w].entry)
    BY <1>2, GotoMoves DEF Verify, Inv, PC
  <2>2. \A r \in receipts : r.at = r.digest
    <3>1. row.receipt # Unset /\ live = row.digest /\ row.digest \in Nat
      BY <1>1, <1>2 DEF Fits, Verifies, Inv, Types, Row, Versions
    <3>2. PICK at \in Versions :
            /\ receipts = {[sig |-> row.receipt, digest |-> row.digest, at |-> at]}
            /\ row.digest <= at /\ at <= live
      BY <3>1 DEF Inv, RowIsBacked
    <3>3. at = row.digest
      BY <3>1, <3>2 DEF Versions
    <3> QED BY <3>2, <3>3
  <2>3. Fits(w)'
    BY <1>1, <1>2, <2>1, <2>2 DEF Verify, Fits, Went
  <2> QED BY <1>2, <2>1, <2>3, UnmovedKeeps DEF Verify, Went
<1>3. CASE ~ Verifies
  <2>1. live # Reviewed
    <3> SUFFICES ASSUME live = Reviewed PROVE Verifies
      BY <1>3
    <3>1. Readable /\ live = row.digest
      BY DEF Readable, Inv, RowIsBacked, Types, Row, Versions, Reviewed
    <3>2. Len(ledger) \in Nat /\ Len(ledger) >= 2 /\ row.receipt # Unset /\ row.entry = 2
      BY <1>1, LedgerIs DEF Fits, Inv
    <3>3. Entries("final") = {2} /\ ledger[2].body = row.receipt
      BY <3>2, EntriesAre DEF Inv, Chain, Final
    <3>4. \E r \in receipts : r.sig = row.receipt /\ r.digest = row.digest
      BY <3>2, ReceiptIs DEF Inv
    <3> QED BY <3>1, <3>2, <3>3, <3>4 DEF Verifies
  <2> QED BY <1>3, <2>1, RefuseKeeps DEF Verify
<1> QED BY <1>2, <1>3

(***************************************************************************)
(* The steps that append to the ledger.                                    *)
(***************************************************************************)
LEMMA LedgerStepKeeps ==
  ASSUME Inv, NEW w \in Workers, UNCHANGED <<dialect, bound, live, row, receipts, owner, claims, failed>>,
         ledger' \in Seq(Entry), Chain', Len(ledger) <= Len(ledger'),
         fz' \in [Workers -> Local], Others(w), Fits(w)', fz'[w].pc # "insert"
  PROVE  Inv'
<1>1. Types'
  BY DEF Inv, Types
<1>2. live \in Nat /\ Len(ledger) \in Nat /\ Len(ledger') \in Nat
  BY <1>1 DEF Inv, Types, Versions
<1>3. RowIsBacked' /\ Grows
  BY <1>2 DEF Inv, RowIsBacked, Grows
<1> QED BY <1>1, <1>3, StepKeeps, NobodyEnters DEF Inv

LEMMA StartKeeps ==
  ASSUME Inv, NEW w \in Workers, Start(w)
  PROVE  Inv'
<1>1. fz[w].pc = "start" /\ Fits(w) /\ row.created \in Claimed
  BY DEF Start, At, Inv, Types, Row
<1> DEFINE pc == IF fz[w].read = Unset THEN "record" ELSE "reread"
<1>2. RecordOnce("started", row.created) /\ Goto(w, pc)
  BY NothingConflicts DEF Start, Inv
<1>3. Records(1, Started)
  <2>1. Len(ledger) \in Nat /\ "started" \in Events
    BY LedgerIs DEF Inv, Events
  <2>2. Entries("started") = IF Len(ledger) >= 1 THEN {1} ELSE {}
    BY EntriesAre DEF Inv
  <2> QED BY <1>1, <1>2, <2>1, <2>2, RecordOnceEffect DEF Inv, Started
<1>4. ledger' \in Seq(Entry) /\ Chain' /\ Len(ledger) <= Len(ledger') /\ Len(ledger') >= 1
  BY <1>1, <1>3, ChainGrows, LedgerIs DEF Start, Inv, Fits, Records
<1>5. pc \in {"record", "reread"} /\ (pc = "reread" => fz[w].read # Unset)
  OBVIOUS
<1> HIDE DEF pc
<1>6. Went(w, pc, fz[w].digest, fz[w].read, fz[w].entry)
  BY <1>2, <1>5, GotoMoves DEF Inv, PC
<1>7. Fits(w)'
  BY <1>1, <1>4, <1>5, <1>6 DEF Start, Fits, Went
<1>8. UNCHANGED <<dialect, bound, live, row, receipts, owner, claims, failed>>
  BY NothingConflicts DEF Start, Inv
<1> QED BY <1>4, <1>5, <1>6, <1>7, <1>8, LedgerStepKeeps DEF Went

LEMMA AppendKeeps ==
  ASSUME Inv, NEW w \in Workers, AppendFinal(w)
  PROVE  Inv'
<1>1. /\ fz[w].pc = "append" /\ Fits(w) /\ row.receipt \in Claimed /\ Len(ledger) \in Nat
      /\ fz[w].read = row.receipt /\ row.receipt # Unset /\ Len(ledger) >= 1
  BY LedgerIs DEF AppendFinal, At, Inv, Types, Row, Fits
<1>2. \E r \in receipts : r.sig = fz[w].read
  BY <1>1, ReceiptIs DEF Inv
<1>3. /\ RecordOnce("final", row.receipt)
      /\ fz' = [fz EXCEPT ![w].pc = "bind", ![w].checked = FALSE, ![w].entry = HashOf("final", ledger')]
      /\ UNCHANGED <<dialect, bound, live, row, receipts, owner, claims, failed>>
  BY <1>1, <1>2, NothingConflicts DEF AppendFinal, Inv
<1>4. Records(2, Final)
  <2>1. Entries("final") = IF Len(ledger) >= 2 THEN {2} ELSE {}
    BY EntriesAre DEF Inv
  <2> QED BY <1>1, <1>3, <2>1, RecordOnceEffect DEF Inv, Final, Events
<1>5. ledger' \in Seq(Entry) /\ Chain' /\ Len(ledger) <= Len(ledger') /\ Len(ledger') >= 2
  BY <1>1, <1>3, <1>4, ChainGrows DEF Inv, Records
<1>6. HashOf("final", ledger') = 2
  <2>1. Len(ledger') \in Nat /\ \A i \in 1 .. Len(ledger') : i = 1 \/ i = 2 \/ i = 3
    BY <1>5 DEF Chain
  <2>2. /\ ledger'[1].event = "started" /\ ledger'[2].event = "final"
        /\ Len(ledger') >= 3 => ledger'[3].event = "completed"
    BY <1>5, <2>1 DEF Chain, Started, Final, Completed
  <2>3. \A i \in 1 .. Len(ledger') : ledger'[i].event = "final" <=> i = 2
    BY <2>1, <2>2
  <2> QED BY <1>5, <2>1, <2>3 DEF HashOf
<1>7. Went(w, "bind", fz[w].digest, fz[w].read, 2)
  BY <1>3, <1>6, EntryMoves DEF Inv, PC
<1>8. Fits(w)'
  BY <1>1, <1>3, <1>5, <1>7 DEF Fits, Went
<1> QED BY <1>3, <1>5, <1>7, <1>8, LedgerStepKeeps DEF Went

LEMMA CompleteKeeps ==
  ASSUME Inv, NEW w \in Workers, Complete(w)
  PROVE  Inv'
<1>1. /\ fz[w].pc = "complete" /\ Fits(w) /\ row.verifiedAt \in Claimed /\ Len(ledger) \in Nat
      /\ fz[w].read = row.verifiedAt /\ row.verifiedAt # Unset /\ Len(ledger) >= 2 /\ row.entry = 2
  BY LedgerIs DEF Complete, At, Inv, Types, Row, Fits
<1>2. /\ RecordOnce("completed", row.verifiedAt) /\ Goto(w, "seal")
      /\ UNCHANGED <<dialect, bound, live, row, receipts, owner, claims, failed>>
  BY <1>1, NothingConflicts DEF Complete, Inv
<1>3. Records(3, Completed)
  <2>1. Entries("completed") = IF Len(ledger) >= 3 THEN {3} ELSE {}
    BY EntriesAre DEF Inv
  <2> QED BY <1>1, <1>2, <2>1, RecordOnceEffect DEF Inv, Completed, Events
<1>4. ledger' \in Seq(Entry) /\ Chain' /\ Len(ledger) <= Len(ledger') /\ Len(ledger') >= 3
  BY <1>1, <1>2, <1>3, ChainGrows DEF Inv, Records
<1>5. Went(w, "seal", fz[w].digest, fz[w].read, fz[w].entry)
  BY <1>2, GotoMoves DEF Inv, PC
<1>6. Fits(w)'
  BY <1>1, <1>2, <1>4, <1>5 DEF Fits, Went
<1> QED BY <1>2, <1>4, <1>5, <1>6, LedgerStepKeeps DEF Went

(***************************************************************************)
(* The steps that write the row.                                           *)
(***************************************************************************)
\* What is once in the row stays there.
RowGrows ==
    /\ row' \in Row
    /\ row.state # "none" => /\ row'.state # "none" /\ row'.digest = row.digest
                             /\ row'.created = row.created
    /\ row.receipt # Unset => row'.receipt = row.receipt /\ receipts' = receipts
    /\ row.entry = 2 => row'.entry = 2
    /\ row.verifiedAt # Unset => row'.verifiedAt = row.verifiedAt

LEMMA RowStepKeeps ==
  ASSUME Inv, NEW w \in Workers, UNCHANGED <<dialect, bound, live, ledger, owner, claims, failed>>,
         RowGrows, RowIsBacked', OneSigns', fz' \in [Workers -> Local], Others(w), Fits(w)'
  PROVE  Inv'
<1>1. Types'
  BY DEF Inv, Types, RowGrows
<1>2. live \in Nat /\ Len(ledger) \in Nat
  BY DEF Inv, Types, Versions
<1>3. Chain'
  BY <1>2 DEF Inv, Chain, Started, Final, Completed, RowGrows
<1>4. Grows
  BY <1>2 DEF RowGrows, Grows
<1> QED BY <1>1, <1>3, <1>4, StepKeeps DEF Inv

LEMMA PrepareKeeps ==
  ASSUME Inv, NEW w \in Workers, Prepare(w)
  PROVE  Inv'
<1>1. /\ fz[w].pc = "prepare" /\ Fits(w) /\ row \in Row /\ fz[w] \in Local
      /\ UNCHANGED <<dialect, bound, live, receipts, ledger, owner, claims, failed>>
      /\ Len(ledger) \in Nat /\ live \in Nat
  BY LedgerIs DEF Prepare, At, Inv, Types, Versions
<1>2. Went(w, "compare", fz[w].digest, fz[w].read, fz[w].entry)
  BY GotoMoves DEF Prepare, Inv, PC
<1>3. RowGrows /\ RowIsBacked' /\ row'.state # "none" /\ row'.receipt = row.receipt
  <2>1. CASE row.state = "none"
    <3>1. row' = [NoRow EXCEPT !.state = "prepared", !.digest = fz[w].digest, !.created = fz[w].claim]
      BY <2>1 DEF Prepare
    <3>2. /\ row'.state = "prepared" /\ row'.digest = fz[w].digest /\ row'.receipt = Unset
          /\ row'.verifiedAt = Unset /\ row' \in Row
      BY <1>1, <3>1 DEF NoRow, Row, RowState, Local, Claimed, Unset
    <3>3. row.receipt = Unset /\ row.verifiedAt = Unset /\ row.entry # 2
      BY <2>1 DEF Inv, RowIsBacked, Unset
    <3>4. RowGrows
      BY <2>1, <3>2, <3>3 DEF RowGrows
    <3>5. RowIsBacked'
      BY <1>1, <3>2, <3>3 DEF Inv, RowIsBacked, Fits
    <3> QED BY <3>2, <3>3, <3>4, <3>5
  <2>2. CASE row.state # "none"
    <3>1. row' = row
      BY <2>2 DEF Prepare
    <3> QED BY <1>1, <2>2, <3>1 DEF RowGrows, Inv, RowIsBacked
  <2> QED BY <2>1, <2>2
<1>4. Fits(w)'
  BY <1>1, <1>2, <1>3 DEF Fits, Went
<1>5. OneSigns'
  BY <1>2, <1>3, NobodyEnters DEF Went
<1> QED BY <1>1, <1>2, <1>3, <1>4, <1>5, RowStepKeeps DEF Went

\* Between the look after signing and the INSERT only this worker is in the
\* transaction, and the row has no receipt.
LEMMA RecordKeeps ==
  ASSUME Inv, NEW w \in Workers, Record(w)
  PROVE  Inv'
<1>1. /\ fz[w].pc = "record" /\ Fits(w) /\ fz[w] \in Local /\ ~ Signing
      /\ UNCHANGED <<dialect, bound, live, row, receipts, ledger, owner, claims>>
      /\ live \in Nat
  BY DEF Record, RowIsFree, At, Inv, Types, Versions
<1>2. CASE row.receipt # Unset
  <2>1. Goto(w, "reread") /\ UNCHANGED failed
    BY <1>2 DEF Record
  <2>2. Went(w, "reread", fz[w].digest, fz[w].read, fz[w].entry)
    BY <2>1, GotoMoves DEF Inv, PC
  <2>3. Fits(w)'
    BY <1>1, <1>2, <2>1, <2>2 DEF Fits, Went
  <2> QED BY <1>1, <2>1, <2>2, <2>3, UnmovedKeeps DEF Went
<1>3. CASE row.receipt = Unset /\ Readable /\ live = fz[w].digest
  <2>1. Goto(w, "insert") /\ UNCHANGED failed
    BY <1>3 DEF Record
  <2>2. Went(w, "insert", fz[w].digest, fz[w].read, fz[w].entry)
    BY <2>1, GotoMoves DEF Inv, PC
  <2>3. Fits(w)'
    BY <1>1, <2>2 DEF Fits, Went
  <2>4. OneSigns'
    <3>1. \A u \in Workers : fz'[u].pc = "insert" => u = w
      BY <1>1, <2>2 DEF Went, Others, Signing
    <3> QED BY <1>1, <1>3, <3>1 DEF OneSigns
  <2>5. Types'
    BY <1>1, <2>1, <2>2 DEF Inv, Types, Went
  <2> QED BY <1>1, <2>1, <2>2, <2>3, <2>4, <2>5, StepKeeps, TablesStay DEF Inv, Went
<1>4. CASE row.receipt = Unset /\ ~ (Readable /\ live = fz[w].digest)
  <2>1. live # Reviewed
    <3>1. fz[w].digest <= live /\ fz[w].digest \in Nat
      BY <1>1 DEF Fits, Local, Versions
    <3> QED BY <1>1, <1>4, <3>1 DEF Readable, Reviewed
  <2> QED BY <1>1, <1>4, <2>1, RefuseKeeps DEF Record
<1> QED BY <1>2, <1>3, <1>4

LEMMA InsertKeeps ==
  ASSUME Inv, NEW w \in Workers, Insert(w)
  PROVE  Inv'
<1>1. /\ fz[w].pc = "insert" /\ Fits(w) /\ row \in Row /\ fz[w] \in Local
      /\ UNCHANGED <<dialect, bound, live, ledger, owner, claims>>
      /\ live \in Versions /\ fz[w].claim \in Claims
      /\ row.state # "none" /\ row.digest = fz[w].digest /\ row.digest <= live
  BY DEF Insert, At, Inv, Types, Fits
<1>2. row.receipt = Unset /\ receipts = {} /\ row.verifiedAt = Unset
  BY <1>1 DEF Inv, OneSigns, Signing, RowIsBacked
<1>3. /\ receipts' = {[sig |-> fz[w].claim, digest |-> fz[w].digest, at |-> live]}
      /\ row' = [row EXCEPT !.receipt = fz[w].claim, !.state = "recorded"]
      /\ Goto(w, "reread") /\ UNCHANGED failed
  BY <1>2 DEF Insert
<1>4. Went(w, "reread", fz[w].digest, fz[w].read, fz[w].entry)
  BY <1>3, GotoMoves DEF Inv, PC
<1>5. /\ row' \in Row /\ row'.state = "recorded" /\ row'.digest = row.digest /\ row'.created = row.created
      /\ row'.receipt = fz[w].claim /\ row'.entry = row.entry /\ row'.verifiedAt = row.verifiedAt
      /\ fz[w].claim # Unset
  <2>1. fz[w].claim \in Claimed /\ fz[w].claim # Unset /\ "recorded" \in RowState
    BY <1>1 DEF Claimed, Claims, Unset, RowState
  <2> QED BY <1>1, <1>3, <2>1 DEF Row
<1>6. RowGrows
  BY <1>2, <1>5 DEF RowGrows
<1>7. RowIsBacked'
  <2>1. /\ receipts' = {[sig |-> row'.receipt, digest |-> row'.digest, at |-> live]}
        /\ row'.digest <= live /\ live <= live' /\ row'.verifiedAt = Unset
    BY <1>1, <1>2, <1>3, <1>5 DEF Versions
  <2> QED BY <1>1, <1>5, <2>1 DEF RowIsBacked
<1>8. Fits(w)'
  BY <1>1, <1>4, <1>5 DEF Fits, Went
<1>9. OneSigns'
  <2>1. \A u \in Workers : fz'[u].pc # "insert"
    BY <1>1, <1>4 DEF Went, Others, Inv, OneSigns
  <2> QED BY <2>1 DEF OneSigns, Signing
<1> QED BY <1>1, <1>3, <1>4, <1>6, <1>7, <1>8, <1>9, RowStepKeeps DEF Went

LEMMA BindKeeps ==
  ASSUME Inv, NEW w \in Workers, Bind(w)
  PROVE  Inv'
<1>1. /\ fz[w].pc = "bind" /\ Fits(w) /\ row \in Row /\ fz[w].entry = 2 /\ row.state # "none"
      /\ row' = [row EXCEPT !.entry = fz[w].entry]
      /\ UNCHANGED <<dialect, bound, live, receipts, ledger, owner, claims, failed>>
  BY DEF Bind, At, Inv, Types, Fits
<1>2. Went(w, "verify", fz[w].digest, fz[w].read, fz[w].entry)
  BY GotoMoves DEF Bind, Inv, PC
<1>3. /\ row' \in Row /\ row'.state = row.state /\ row'.digest = row.digest /\ row'.created = row.created
      /\ row'.receipt = row.receipt /\ row'.entry = 2 /\ row'.verifiedAt = row.verifiedAt
  BY <1>1 DEF Row
<1>4. RowGrows /\ RowIsBacked'
  BY <1>1, <1>3 DEF RowGrows, Inv, RowIsBacked
<1>5. Fits(w)'
  BY <1>1, <1>2, <1>3 DEF Fits, Went
<1>6. OneSigns'
  BY <1>2, <1>3, NobodyEnters DEF Went
<1> QED BY <1>1, <1>2, <1>4, <1>5, <1>6, RowStepKeeps DEF Went

LEMMA StampKeeps ==
  ASSUME Inv, NEW w \in Workers, Stamp(w)
  PROVE  Inv'
<1> DEFINE x == IF row.verifiedAt = Unset THEN fz[w].claim ELSE row.verifiedAt
<1>1. /\ fz[w].pc = "stamp" /\ Fits(w) /\ row \in Row /\ fz[w].claim \in Claims
      /\ row' = [row EXCEPT !.verifiedAt = x] /\ row.state # "none"
      /\ UNCHANGED <<dialect, bound, live, receipts, ledger, owner, claims, failed>>
  BY DEF Stamp, At, Inv, Types, Fits
<1>2. Went(w, "settle", fz[w].digest, fz[w].read, fz[w].entry)
  BY GotoMoves DEF Stamp, Inv, PC
<1>3. x \in Claimed /\ x # Unset /\ (row.verifiedAt # Unset => x = row.verifiedAt)
  BY <1>1 DEF Row, Claimed, Claims, Unset
<1> HIDE DEF x
<1>4. /\ row' \in Row /\ row'.state = row.state /\ row'.digest = row.digest /\ row'.created = row.created
      /\ row'.receipt = row.receipt /\ row'.entry = row.entry /\ row'.verifiedAt = x
  BY <1>1, <1>3 DEF Row
<1>5. RowGrows
  BY <1>1, <1>3, <1>4 DEF RowGrows
<1>6. RowIsBacked'
  <2>1. PICK at \in Versions :
          /\ receipts = {[sig |-> row.receipt, digest |-> row.digest, at |-> at]}
          /\ row.digest <= at /\ at <= live
    BY <1>1 DEF Fits, Inv, RowIsBacked
  <2>2. at = row.digest /\ row.receipt # Unset
    BY <1>1, <2>1 DEF Fits
  <2> QED BY <1>1, <1>4, <2>1, <2>2 DEF RowIsBacked, Inv
<1>7. Fits(w)'
  BY <1>1, <1>2, <1>3, <1>4 DEF Fits, Went
<1>8. OneSigns'
  BY <1>2, <1>4, NobodyEnters DEF Went
<1> QED BY <1>1, <1>2, <1>5, <1>6, <1>7, <1>8, RowStepKeeps DEF Went

LEMMA SealKeeps ==
  ASSUME Inv, NEW w \in Workers, Seal(w)
  PROVE  Inv'
<1>1. /\ fz[w].pc = "seal" /\ Fits(w) /\ row \in Row /\ row' = [row EXCEPT !.state = "verified"]
      /\ UNCHANGED <<dialect, bound, live, receipts, ledger, owner, claims, failed>>
      /\ Len(ledger) >= 3
  BY DEF Seal, At, Inv, Types, Fits
<1>2. Left(w)
  BY RefuseMoves DEF Seal, Inv
<1>3. /\ row' \in Row /\ row'.state = "verified" /\ row'.digest = row.digest /\ row'.created = row.created
      /\ row'.receipt = row.receipt /\ row'.entry = row.entry /\ row'.verifiedAt = row.verifiedAt
  BY <1>1 DEF Row, RowState
<1>4. RowGrows /\ RowIsBacked'
  BY <1>1, <1>3 DEF RowGrows, Inv, RowIsBacked
<1>5. Fits(w)'
  <2>1. Types'
    BY <1>1, <1>2, <1>3 DEF Inv, Types, Left
  <2> QED BY <1>2, <2>1, IdleFits DEF Left
<1>6. OneSigns'
  BY <1>2, <1>3, IdleIs, NobodyEnters DEF Left
<1> QED BY <1>1, <1>2, <1>4, <1>5, <1>6, RowStepKeeps DEF Left

(***************************************************************************)
(* The invariant, and what it gives.                                       *)
(***************************************************************************)
LEMMA ChangeKeeps ==
  ASSUME Inv, Change
  PROVE  Inv'
<1>1. /\ live' = live + 1 /\ live \in Nat /\ live' \in Versions
      /\ UNCHANGED <<dialect, bound, row, receipts, ledger, owner, claims, fz, failed>>
  BY DEF Change, Inv, Types, Versions
<1>2. Types'
  BY <1>1 DEF Inv, Types
<1>3. Grows /\ live' # Reviewed
  <2>1. Len(ledger) \in Nat
    BY DEF Inv, Types
  <2> QED BY <1>1, <2>1 DEF Grows, Reviewed
<1>4. ASSUME NEW u \in Workers PROVE Fits(u)'
  BY <1>1, <1>2, <1>3, OthersFit DEF Inv
<1>5. Chain'
  BY <1>1 DEF Inv, Chain, Started, Final, Completed
<1>6. RowIsBacked'
  <2>1. row.digest \in Nat /\ \A at \in Versions : at \in Nat
    BY DEF Inv, Types, Row, Versions
  <2>2. \A n \in Nat : n <= live => n <= live'
    BY <1>1
  <2>3. row.digest <= live'
    BY <2>1, <2>2 DEF Inv, RowIsBacked
  <2> QED BY <1>1, <2>1, <2>2, <2>3 DEF Inv, RowIsBacked
<1>7. OneSigns'
  BY <1>1 DEF Inv, OneSigns, Signing
<1> QED BY <1>2, <1>3, <1>4, <1>5, <1>6, <1>7 DEF Inv, OnlyEditsRefuse

LEMMA InitInv ==
  ASSUME Init
  PROVE  Inv
<1>1. Types
  <2>1. row \in Row
    BY DEF Init, NoRow, Row, RowState, Versions, Reviewed, Claimed, Unset
  <2>2. fz \in [Workers -> Local]
    BY IdleIs DEF Init
  <2>3. ledger \in Seq(Entry)
    BY DEF Init
  <2>4. live \in Versions /\ claims \in 0 .. MaxClaims
    BY DEF Init, Versions, Reviewed
  <2>5. dialect \in {"sqlite", "postgresql"} /\ bound \in BOOLEAN /\ owner \in Workers \union {None} /\ failed \in BOOLEAN
    BY DEF Init
  <2> QED BY <2>1, <2>2, <2>3, <2>4, <2>5 DEF Types
<1>2. Chain /\ RowIsBacked
  BY DEF Init, Chain, RowIsBacked, NoRow, Reviewed
<1>3. OnlyEditsRefuse
  BY DEF Init, OnlyEditsRefuse
<1>4. \A w \in Workers : Fits(w)
  BY IdleIs DEF Init, Fits, Reviewed
<1>5. OneSigns
  BY IdleIs DEF Init, OneSigns, Signing
<1> QED BY <1>1, <1>2, <1>3, <1>4, <1>5 DEF Inv

LEMMA InvKept ==
  ASSUME Inv, [Next]_vars
  PROVE  Inv'
<1>1. ASSUME NEW w \in Workers, Crash(w) PROVE Inv'
  BY <1>1, LeaveKeeps DEF Crash
<1>2. ASSUME NEW w \in Workers, Step(w) PROVE Inv'
  BY <1>2, BoundaryKeeps, CanonicalizeKeeps, PrepareKeeps, CompareKeeps, StartKeeps, RecordKeeps, InsertKeeps, RereadKeeps,
     AppendKeeps, BindKeeps, VerifyKeeps, StampKeeps, SettleKeeps, CompleteKeeps, SealKeeps DEF Step
<1>3. CASE UNCHANGED vars
  <2>1. Types' /\ Grows
    <3>1. live \in Nat /\ Len(ledger) \in Nat
      BY DEF Inv, Types, Versions
    <3> QED BY <1>3, <3>1 DEF vars, Inv, Types, Grows
  <2>2. ASSUME NEW u \in Workers PROVE Fits(u)'
    BY <1>3, <2>1, OthersFit DEF vars, Inv
  <2>3. OneSigns'
    BY <1>3 DEF vars, Inv, OneSigns, Signing
  <2> QED BY <1>3, <2>1, <2>2, <2>3, TablesStay DEF vars, Inv, OnlyEditsRefuse
<1> QED BY <1>1, <1>2, <1>3, ClaimKeeps, ChangeKeeps DEF Next

LEMMA AlwaysInv == Spec => []Inv
<1>1. Init => Inv
  BY InitInv
<1>2. Inv /\ [Next]_vars => Inv'
  BY InvKept
<1> QED BY <1>1, <1>2, PTL DEF Spec

\* While nobody edits what was reviewed, no number of crashed, overtaken and
\* resumed workers makes finalize of the lease holder raise, which would fail a
\* correct run (TrustService.finalize).
THEOREM OnlyEditsFailTheRun == Spec => []OnlyEditsRefuse
<1>1. Inv => OnlyEditsRefuse
  BY DEF Inv
<1> QED BY <1>1, AlwaysInv, PTL

\* A verified finalization has one receipt, over its digest, and exactly the
\* three ledger events with the bodies its row gives, in order.
THEOREM VerifiedIsWhole == Spec => []VerifiedIsComplete
<1>1. Inv => VerifiedIsComplete
  <2> SUFFICES ASSUME Inv, row.state = "verified"
               PROVE  /\ \E r \in receipts : receipts = {r} /\ r.sig = row.receipt /\ r.digest = row.digest
                      /\ row.entry = 2
                      /\ ledger = <<Started, Final, Completed>>
    BY DEF VerifiedIsComplete, Started, Final, Completed
  <2>1. Len(ledger) = 3 /\ ledger \in Seq(Entry)
    <3>1. Len(ledger) \in Nat /\ Len(ledger) >= 3 /\ Len(ledger) <= 3
      BY LedgerIs DEF Inv, RowIsBacked, Chain
    <3>2. ledger \in Seq(Entry)
      BY DEF Inv, Types
    <3>3. \A n \in Nat : n >= 3 /\ n <= 3 => n = 3
      OBVIOUS
    <3> QED BY <3>1, <3>2, <3>3
  <2>2. /\ ledger[1] = Started /\ ledger[2] = Final /\ ledger[3] = Completed
        /\ row.receipt # Unset /\ row.entry = 2
    BY <2>1 DEF Inv, Chain
  <2>3. ledger = <<Started, Final, Completed>>
    <3> HIDE DEF Started, Final, Completed
    <3> QED BY <2>1, <2>2
  <2> QED BY <2>2, <2>3, ReceiptIs DEF Inv
<1> QED BY <1>1, AlwaysInv, PTL

\* What has been reported verified was signed over the state the run had when
\* the receipt was inserted: an edit that commits between the look after signing
\* and the INSERT is noticed by verify_finalization, whoever calls it.
THEOREM NothingEditedIsVerified == Spec => []VerifiedSignedLiveState
<1>1. Inv => VerifiedSignedLiveState
  <2> SUFFICES ASSUME Inv, row.verifiedAt # Unset
               PROVE  \A r \in receipts : r.at = r.digest
    BY DEF VerifiedSignedLiveState
  <2>1. row.receipt # Unset
    BY DEF Inv, RowIsBacked
  <2>2. receipts = {[sig |-> row.receipt, digest |-> row.digest, at |-> row.digest]}
    BY <2>1 DEF Inv, RowIsBacked
  <2> QED BY <2>2
<1> QED BY <1>1, AlwaysInv, PTL
=============================================================================
