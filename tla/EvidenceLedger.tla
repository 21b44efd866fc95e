--------------------------- MODULE EvidenceLedger ---------------------------
(***************************************************************************)
(* The hash-chained evidence ledger (qsmlops/evidence/ledger.py) and the   *)
(* audit service that appends to it (qsmlops/security/audit/service.py):   *)
(* threads of several processes append to one file, record() and           *)
(* record_once() inside a database transaction that serializes processes,  *)
(* append_packet() under the lock of its own process only.  Processes die  *)
(* between the append and the commit, and a full disk tears a line.        *)
(*                                                                         *)
(* A timestamp makes every entry's hash unique: the hash is abstracted to  *)
(* the tick of its computation.  Edits of committed lines are not modelled.*)
(***************************************************************************)
EXTENDS Naturals, Sequences, FiniteSets

CONSTANTS
    Writers,    \* threads that call the ledger
    Procs,      \* processes; each has one ledger object and its lock
    Deployments,\* who shares a ledger: process of each writer, kinds of calls
    Events,     \* deterministic event ids given to record_once
    Packets,    \* packet ids given to append_packet
    MaxLines,   \* bound: appends attempted in one behaviour
    MaxFaults,  \* bound: process crashes and full-disk errors
    None        \* no process, no event

Kind == {"record", "once", "packet"}

\* Event ids and packet ids are different fields of an entry's record.
ASSUME NoneAssumption  == /\ None \notin Writers \union Events \union Packets
                          /\ Events \intersect Packets = {}
ASSUME BoundAssumption == MaxLines \in Nat /\ MaxFaults \in Nat

\* The hosted processes append audit events to one ledger, some of them once;
\* the platform has another ledger, with events and packets of the CLI and the API.
ASSUME DeploymentAssumption ==
    /\ Deployments \subseteq [procOf : [Writers -> Procs], kinds : SUBSET Kind]
    /\ \A d \in Deployments : "packet" \in d.kinds => "once" \notin d.kinds

VARIABLES
    dep,      \* the deployment this ledger belongs to
    lines,    \* physical lines: an entry, or "torn"
    open,     \* the last line has no newline yet: the next write joins it
    bodies,   \* packet bodies in the content-addressed store
    dbLock,   \* writer whose database transaction holds the append lock
    lock,     \* per process: writer inside append()
    th,       \* local state of each writer
    acked,    \* entry hashes returned to callers, with the kind of the call
    tick,     \* clock: appends attempted so far
    faults,
    raced     \* history: a packet was appended while another process appended

vars == <<dep, lines, open, bodies, dbLock, lock, th, acked, tick, faults, raced>>

ProcOf(w) == dep.procOf[w]

Genesis == 0

Torn == [seq |-> 0, prev |-> Genesis, doc |-> "torn", hash |-> Genesis]

\* _entries: the lines that parse.
Entries == {i \in 1..Len(lines) : lines[i] # Torn}

\* entries[-1]["entry_hash"], or the genesis value.
HeadOf(entries) == IF entries = {} THEN Genesis
                   ELSE lines[CHOOSE i \in entries : \A j \in entries : j <= i].hash

\* verify_chain: every physical line parses, is linked to its predecessor and
\* numbered by its position.
Intact ==
    \A i \in 1..Len(lines) :
        /\ lines[i] # Torn
        /\ lines[i].seq = i - 1
        /\ lines[i].prev = (IF i = 1 THEN Genesis ELSE lines[i - 1].hash)

\* Entries that carry a given event or packet id.
Matches(id) == {i \in Entries : lines[i].doc = id}

Idle == [pc |-> "idle", kind |-> "record", id |-> None, seq |-> 0, prev |-> Genesis,
         hash |-> Genesis]

Init ==
    /\ dep \in Deployments
    /\ lines = <<>>
    /\ open = FALSE
    /\ bodies = {}
    /\ dbLock = None
    /\ lock = [p \in Procs |-> None]
    /\ th = [w \in Writers |-> Idle]
    /\ acked = {}
    /\ tick = 0
    /\ faults = 0
    /\ raced = FALSE

Goto(w, pc) == th' = [th EXCEPT ![w].pc = pc]

----------------------------------------------------------------------------
(* Deliberate defects, paired in PROJECT.json with what they must break.   *)

\* record_once appends without looking for its event first...
CheckWithoutMatch(w) ==
    /\ th[w].pc = "check"
    /\ th[w].kind = "once" => Intact
    /\ Goto(w, "append")
    /\ UNCHANGED <<dep, lines, open, bodies, dbLock, lock, acked, tick, faults, raced>>

\* ...or without verifying the chain.
CheckUnverified(w) ==
    /\ th[w].pc = "check"
    /\ th[w].kind = "once" => Matches(th[w].id) = {}
    /\ Goto(w, "append")
    /\ UNCHANGED <<dep, lines, open, bodies, dbLock, lock, acked, tick, faults, raced>>

\* record() relies on the lock of its own process, as the ledger does.
BeginLocally(w) ==
    /\ th[w].pc = "begin"
    /\ Goto(w, "check")
    /\ UNCHANGED <<dep, lines, open, bodies, dbLock, lock, acked, tick, faults, raced>>

----------------------------------------------------------------------------
(* AuditService.record and record_once.                                    *)

Call(w, kind, id) ==
    /\ th[w].pc = "idle"
    /\ kind \in dep.kinds
    /\ tick < MaxLines
    /\ th' = [th EXCEPT ![w] = [Idle EXCEPT !.pc = IF kind = "packet" THEN "find" ELSE "begin",
                                            !.kind = kind, !.id = id]]
    /\ UNCHANGED <<dep, lines, open, bodies, dbLock, lock, acked, tick, faults, raced>>

\* database.transaction(): BEGIN IMMEDIATE, or the advisory lock.
Begin(w) ==
    /\ th[w].pc = "begin"
    /\ dbLock = None
    /\ dbLock' = w
    /\ Goto(w, "check")
    /\ UNCHANGED <<dep, lines, open, bodies, lock, acked, tick, faults, raced>>

EndTransaction(w) == dbLock' = IF dbLock = w THEN None ELSE dbLock

\* record goes straight to the append.  record_once refuses a broken chain,
\* returns the entry of an event already there, and appends otherwise.
Check(w) ==
    /\ th[w].pc = "check"
    /\ \/ /\ \/ th[w].kind = "record"
             \/ th[w].kind = "once" /\ Intact /\ Matches(th[w].id) = {}
          /\ Goto(w, "append")
          /\ UNCHANGED dbLock
       \/ /\ th[w].kind = "once" /\ Intact /\ Cardinality(Matches(th[w].id)) = 1
          /\ \E i \in Matches(th[w].id) :
               th' = [th EXCEPT ![w].pc = "commit", ![w].hash = lines[i].hash]
          /\ UNCHANGED dbLock
       \/ /\ th[w].kind = "once" /\ (~Intact \/ Cardinality(Matches(th[w].id)) > 1)
          /\ th' = [th EXCEPT ![w] = Idle]
          /\ EndTransaction(w)
    /\ UNCHANGED <<dep, lines, open, bodies, lock, acked, tick, faults, raced>>

\* The mirror row commits with the transaction, and the call returns.
Commit(w) ==
    /\ th[w].pc = "commit"
    /\ acked' = acked \union {<<th[w].kind, th[w].hash>>}
    /\ th' = [th EXCEPT ![w] = Idle]
    /\ EndTransaction(w)
    /\ UNCHANGED <<dep, lines, open, bodies, lock, tick, faults, raced>>

----------------------------------------------------------------------------
(* EvidenceLedger.append_packet.                                           *)

\* The immutability check, in a critical section of its own.
FindPacket(w) ==
    /\ th[w].pc = "find"
    /\ lock[ProcOf(w)] = None
    /\ IF Matches(th[w].id) # {}
       THEN th' = [th EXCEPT ![w] = Idle]
       ELSE Goto(w, "put")
    /\ UNCHANGED <<dep, lines, open, bodies, dbLock, lock, acked, tick, faults, raced>>

\* ArtifactStore.put: temporary file and rename.
PutBody(w) ==
    /\ th[w].pc = "put"
    /\ bodies' = bodies \union {th[w].id}
    /\ Goto(w, "append")
    /\ UNCHANGED <<dep, lines, open, dbLock, lock, acked, tick, faults, raced>>

----------------------------------------------------------------------------
(* EvidenceLedger.append, under the lock of the ledger object.             *)

\* v has read the head and not written yet, and nothing makes w wait for it:
\* one of them appends a packet, under the lock of its own process only.
Beside(v, w) ==
    /\ th[v].pc = "write"
    /\ ProcOf(v) # ProcOf(w)
    /\ th[v].kind = "packet" \/ th[w].kind = "packet"

\* Take the lock, read the file, compute the entry.
ReadHead(w) ==
    /\ th[w].pc = "append"
    /\ lock[ProcOf(w)] = None
    /\ tick < MaxLines
    /\ tick' = tick + 1
    /\ lock' = [lock EXCEPT ![ProcOf(w)] = w]
    /\ th' = [th EXCEPT ![w].pc = "write", ![w].seq = Cardinality(Entries),
                        ![w].prev = HeadOf(Entries), ![w].hash = tick + 1]
    /\ raced' = (raced \/ \E v \in Writers : Beside(v, w))
    /\ UNCHANGED <<dep, lines, open, bodies, dbLock, acked, faults>>

\* Write, flush, fsync, release.  After a torn line the entry joins it and the
\* joined line does not parse.
Write(w) ==
    /\ th[w].pc = "write"
    /\ lines' = IF open THEN lines
                ELSE Append(lines, [seq |-> th[w].seq, prev |-> th[w].prev,
                                    doc |-> th[w].id, hash |-> th[w].hash])
    /\ open' = FALSE
    /\ lock' = [p \in Procs |-> IF lock[p] = w THEN None ELSE lock[p]]
    /\ Goto(w, "commit")
    /\ UNCHANGED <<dep, bodies, dbLock, acked, tick, faults, raced>>

\* No space left: some prefix of the line, or nothing, reaches the file, and
\* the OSError leaves append and rolls the transaction back.
WriteFails(w, torn) ==
    /\ th[w].pc = "write"
    /\ faults < MaxFaults
    /\ faults' = faults + 1
    /\ lines' = IF torn /\ ~open THEN Append(lines, Torn) ELSE lines
    /\ open' = (torn \/ open)
    /\ lock' = [p \in Procs |-> IF lock[p] = w THEN None ELSE lock[p]]
    /\ th' = [th EXCEPT ![w] = Idle]
    /\ EndTransaction(w)
    /\ UNCHANGED <<dep, bodies, acked, tick, raced>>

\* A process dies with all its threads: locks are gone, transactions roll back,
\* what reached the file stays.
Crash(p) ==
    /\ \E w \in Writers : ProcOf(w) = p /\ th[w].pc # "idle"
    /\ faults < MaxFaults
    /\ faults' = faults + 1
    /\ th' = [w \in Writers |-> IF ProcOf(w) = p THEN Idle ELSE th[w]]
    /\ lock' = [lock EXCEPT ![p] = None]
    /\ dbLock' = IF dbLock # None /\ ProcOf(dbLock) = p THEN None ELSE dbLock
    /\ UNCHANGED <<dep, lines, open, bodies, acked, tick, raced>>

----------------------------------------------------------------------------
Step(w) ==
    \/ Begin(w) \/ Check(w) \/ Commit(w) \/ FindPacket(w) \/ PutBody(w)
    \/ ReadHead(w) \/ Write(w)

Next ==
    \/ \E w \in Writers : \/ Call(w, "record", None)
                          \/ \E e \in Events : Call(w, "once", e)
                          \/ \E k \in Packets : Call(w, "packet", k)
                          \/ Step(w)
                          \/ \E torn \in BOOLEAN : WriteFails(w, torn)
    \/ \E p \in Procs : Crash(p)

Spec == Init /\ [][Next]_vars
----------------------------------------------------------------------------
(* Properties.                                                             *)

Docs == Events \union Packets \union {None}
Entry == [seq : Nat, prev : Nat, doc : Docs, hash : Nat]

TypeOK ==
    /\ dep \in Deployments
    /\ lines \in Seq(Entry \union {Torn})
    /\ open \in BOOLEAN /\ (open => lines # <<>> /\ lines[Len(lines)] = Torn)
    /\ bodies \subseteq Packets
    /\ dbLock \in Writers \union {None}
    /\ lock \in [Procs -> Writers \union {None}]
    /\ th \in [Writers -> [pc : {"idle", "begin", "check", "append", "write", "commit",
                                 "find", "put"},
                           kind : Kind, id : Docs, seq : Nat, prev : Nat, hash : Nat]]
    /\ acked \subseteq Kind \X (1..MaxLines)
    /\ tick \in 0..MaxLines
    /\ faults \in 0..MaxFaults
    /\ raced \in BOOLEAN

\* No full disk has torn a line.
Whole == \A i \in 1..Len(lines) : lines[i] # Torn

\* The chain verifies at every moment, whichever processes and threads append
\* and wherever they die: nobody extends a head that is no longer the head.  Two
\* things alone break it: a full disk that tears a line, and a packet appended
\* while another process is between reading the head and writing behind it.
ChainIntact == Whole /\ ~raced => Intact

\* record_once is idempotent across crashes: an event recorded again after a
\* crash between the append and the commit is not on the chain twice.
OnceIsOnce == \A e \in Events : Cardinality(Matches(e)) <= 1

\* An entry hash returned to a caller, or mirrored, names an entry of the chain
\* ("an event read back through the mirror can be proven to exist on-chain"),
\* unless a full disk tore a line.  The entries finalizations rest on are on the
\* chain even then, with other callers appending on: record_once fails closed.
OnChain(h) == \E i \in Entries : lines[i].hash = h

AckedIsOnChain == \A a \in acked : Whole \/ a[1] = "once" => OnChain(a[2])

----------------------------------------------------------------------------
(* Claims of the documentation that the code does not keep.                *)

\* docs/EVIDENCE_PACKET_PERSISTENCE.md: the lock of the ledger protects the
\* uniqueness of packet ids under concurrent appends.
PacketIdsUnique == \A k \in Packets : Cardinality(Matches(k)) <= 1

\* Concurrent appends leave a chain that verifies: the same page counts them among
\* what the lock of the ledger handles.  That lock is an object of one process, and
\* the CLI and the API have one each.
LockProtects == Whole => Intact
=============================================================================
