------------------------------- MODULE AuditChain -------------------------------
(***************************************************************************)
(* The hash-chained audit trail of one deployment: concurrent appends, on  *)
(* their own or inside another unit of work, restarts, retention sweeps,   *)
(* and the verification that walks the chain.                              *)
(*                                                                         *)
(* A row's hash covers the whole row, so it stands for the row: here it is *)
(* the name of whoever appended the row, each of whom appends one.  The    *)
(* chain is ordered by id, a UUIDv7: the millisecond, then a sequence that *)
(* starts anywhere in the lower half of its range and counts on within it. *)
(***************************************************************************)
EXTENDS Integers, FiniteSets

CONSTANTS
  Appenders,    \* calls whose row is appended
  Nested,       \* those that append inside a unit of work of their own
  Subjects,     \* humans
  SubjectOf,    \* [Appenders -> Subjects]
  Sweeps,       \* retention sweeps
  Operator,     \* the human who runs them
  Seeds,        \* where a millisecond's sequence may start
  SeqSize,      \* the size of the sequence, 4096 in the code
  MaxTime,      \* bound on the clock, in milliseconds
  LastDrawn,    \* bound on the sequences drawn for other ids than the chain's
  Genesis, None

ASSUME AuditChainAssumption ==
  /\ Nested \subseteq Appenders
  /\ SubjectOf \in [Appenders -> Subjects]
  /\ Operator \in Subjects
  /\ Appenders \cap Sweeps = {}
  /\ {Genesis, None} \cap (Appenders \cup Sweeps) = {} /\ Genesis # None
  /\ SeqSize \in Nat \ {0} /\ Seeds \subseteq 0..SeqSize-1 /\ Seeds # {}
  /\ MaxTime \in Nat /\ LastDrawn \in Nat

VARIABLES
  now,        \* the host's clock
  steady,     \* whether the clock has never been set back
  up,         \* whether the gateway runs
  last,       \* the id generator of the process: last millisecond, sequence
  db, disk,   \* the connection's view of the store, and the committed store
  txn,        \* whose transaction is open, or None
  aq,         \* whose append holds the audit queue, or None
  pc,         \* where each call is
  ts,         \* when each call arrived: the row's ts column
  prev,       \* the chain head each append has read
  swept,      \* hashes of the rows retention has deleted
  boundary    \* the hash the latest sweep named, or None

vars == <<now, steady, up, last, db, disk, txn, aq, pc, ts, prev, swept, boundary>>

-----------------------------------------------------------------------------
Hashes == Appenders \cup Sweeps

Rows == [id : Nat, hash : Hashes, prev : Hashes \cup {Genesis}, ts : Nat,
         subject : Subjects, boundary : Hashes \cup {None}]

\* The rows, and the usage rollup kept with them.
Stores == [rows : SUBSET Rows, calls : Nat, seen : SUBSET Subjects, distinct : Nat]

Locations == {"idle", "open", "append", "enter", "read", "insert", "inserted", "unit",
              "done", "failed", "lost"}

Running == Locations \ {"idle", "done", "failed", "lost"}

FirstRow(rows) == CHOOSE r \in rows : \A q \in rows : r.id <= q.id
LastRow(rows) == CHOOSE r \in rows : \A q \in rows : q.id <= r.id

\* headRow(): the greatest id is the chain's head.
Head(rows) == IF rows = {} THEN Genesis ELSE LastRow(rows).hash

\* uuidv7(): the sequences the next id may have, and the id it makes.
Sequences == IF now = last.ms THEN {(last.seq + 1) % SeqSize} ELSE Seeds
IdOf(seq) == now * SeqSize + seq

\* The chain link's UNIQUE index, and the ids'.
Unique(s, r) == \A q \in s.rows : q.prev # r.prev /\ q.id # r.id

\* The row and the rollup: a subject is counted at its first sighting.
WithRow(s, r) ==
  [rows |-> s.rows \cup {r}, calls |-> s.calls + 1, seen |-> s.seen \cup {r.subject},
   distinct |-> IF r.subject \in s.seen THEN s.distinct ELSE s.distinct + 1]

\* What is left of a transaction that is undone.
RowsKept == [disk EXCEPT !.rows = db.rows]
UsageKept == [db EXCEPT !.rows = disk.rows]
Undone == disk

Goto(a, loc) == pc' = [pc EXCEPT ![a] = loc]

-----------------------------------------------------------------------------
\* append(), and the unit of work it may be part of.

Arrive(a) ==
  /\ up /\ pc[a] = "idle"
  /\ ts' = [ts EXCEPT ![a] = now]
  /\ Goto(a, IF a \in Nested THEN "open" ELSE "append")
  /\ UNCHANGED <<now, steady, up, last, db, disk, txn, aq, prev, swept, boundary>>

OpenUnit(a) ==
  /\ pc[a] = "open" /\ txn = None
  /\ txn' = a
  /\ Goto(a, "append")
  /\ UNCHANGED <<now, steady, up, last, db, disk, aq, ts, prev, swept, boundary>>

TakeQueue(a) ==
  /\ pc[a] = "append" /\ aq = None
  /\ aq' = a
  /\ Goto(a, "enter")
  /\ UNCHANGED <<now, steady, up, last, db, disk, txn, ts, prev, swept, boundary>>

\* A transaction of its own, or a savepoint of the unit's.
EnterTransaction(a) ==
  /\ pc[a] = "enter" /\ txn \in {a, None}
  /\ txn' = a
  /\ Goto(a, "read")
  /\ UNCHANGED <<now, steady, up, last, db, disk, aq, ts, prev, swept, boundary>>

ReadHead(a) ==
  /\ pc[a] = "read"
  /\ prev' = [prev EXCEPT ![a] = Head(db.rows)]
  /\ Goto(a, "insert")
  /\ UNCHANGED <<now, steady, up, last, db, disk, txn, aq, ts, swept, boundary>>

Insert(a) ==
  /\ pc[a] = "insert"
  /\ \E seq \in Sequences :
       LET r == [id |-> IdOf(seq), hash |-> a, prev |-> prev[a], ts |-> ts[a],
                 subject |-> SubjectOf[a], boundary |-> None]
       IN /\ Unique(db, r)
          /\ db' = WithRow(db, r)
          /\ last' = [ms |-> now, seq |-> seq]
  /\ Goto(a, "inserted")
  /\ UNCHANGED <<now, steady, up, disk, txn, aq, ts, prev, swept, boundary>>

\* The row's satellites, its usage buckets and its consumption edge, each written
\* by a statement of its own, and every other table of the process take their ids
\* from the same sequence.
Draw ==
  /\ up
  /\ \E seq \in Sequences : seq <= LastDrawn /\ last' = [ms |-> now, seq |-> seq]
  /\ UNCHANGED <<now, steady, up, db, disk, txn, aq, pc, ts, prev, swept, boundary>>

\* The savepoint is released and the queue moves on; the unit is still open.
ReleaseSavepoint(a) ==
  /\ pc[a] = "inserted" /\ a \in Nested
  /\ aq' = None
  /\ Goto(a, "unit")
  /\ UNCHANGED <<now, steady, up, last, db, disk, txn, ts, prev, swept, boundary>>

LeaveQueue(a) == aq' = IF aq = a THEN None ELSE aq

Commit(a) ==
  /\ pc[a] = IF a \in Nested THEN "unit" ELSE "inserted"
  /\ txn' = None /\ disk' = db
  /\ LeaveQueue(a)
  /\ Goto(a, "done")
  /\ UNCHANGED <<now, steady, up, last, db, ts, prev, swept, boundary>>

\* A refused insert, any other failure of the store, or of the unit.
Fail(a) ==
  /\ pc[a] \in {"read", "insert", "inserted", "unit"}
  /\ txn' = None /\ db' = Undone
  /\ LeaveQueue(a)
  /\ Goto(a, "failed")
  /\ UNCHANGED <<now, steady, up, last, disk, ts, prev, swept, boundary>>

-----------------------------------------------------------------------------
\* sweep(): an operator's job, while no gateway runs.

\* The rows before the first that is not older than the cutoff.
OlderThan(rows, cutoff) == {r \in rows : r.ts < cutoff}
Prefix(rows, cutoff) == {r \in rows : \A q \in rows : q.id <= r.id => q.ts < cutoff}

\* What the attestation names: the newest row deleted.
SurvivorAsBoundary(rows, prefix) ==
  IF rows = prefix THEN LastRow(prefix).hash ELSE FirstRow(rows \ prefix).hash
BoundaryOf(rows, prefix) == LastRow(prefix).hash

Sweep(w, cutoff) ==
  LET prefix == Prefix(db.rows, cutoff)
      rest == [db EXCEPT !.rows = @ \ prefix]
  IN /\ ~up /\ now < MaxTime
     /\ w \notin swept /\ \A r \in db.rows : r.hash # w
     /\ prefix # {}
     /\ \E seq \in Seeds :
          LET r == [id |-> IdOf(seq), hash |-> w, prev |-> Head(rest.rows), ts |-> now,
                    subject |-> Operator, boundary |-> BoundaryOf(db.rows, prefix)]
          IN Unique(rest, r) /\ db' = WithRow(rest, r)
     /\ disk' = db'
     /\ swept' = swept \cup {r.hash : r \in prefix}
     /\ boundary' = LastRow(prefix).hash
     /\ now' = now + 1
     /\ UNCHANGED <<steady, up, last, txn, aq, pc, ts, prev>>

-----------------------------------------------------------------------------
\* verifyAuditChain(), on the rows in the order of their ids.

Precedes(p, r, rows) == p.id < r.id /\ \A q \in rows : q.id <= p.id \/ r.id <= q.id

Linked(rows) == \A p, r \in rows : Precedes(p, r, rows) => r.prev = p.hash

AnyOrigin(rows) ==
  IF FirstRow(rows).prev = Genesis THEN "intact" ELSE "intact_from_retention_boundary"
Origin(rows) ==
  IF FirstRow(rows).prev = Genesis THEN "intact"
  ELSE IF \E q \in rows : q.boundary = FirstRow(rows).prev
    THEN "intact_from_retention_boundary" ELSE "broken"

Verify(rows) ==
  IF rows = {} THEN "empty" ELSE IF Linked(rows) THEN Origin(rows) ELSE "broken"

-----------------------------------------------------------------------------
Tick ==
  /\ now < MaxTime
  /\ now' = now + 1
  /\ UNCHANGED <<steady, up, last, db, disk, txn, aq, pc, ts, prev, swept, boundary>>

\* An operator, or the time service, sets the clock back (once, as a bound).
StepBack ==
  /\ steady /\ now > 0
  /\ steady' = FALSE
  /\ now' = now - 1
  /\ UNCHANGED <<up, last, db, disk, txn, aq, pc, ts, prev, swept, boundary>>

\* The process ends, at once; to start another takes a millisecond or more.
Stop ==
  /\ up /\ now < MaxTime
  /\ up' = FALSE
  /\ now' = now + 1
  /\ txn' = None /\ aq' = None
  /\ db' = disk
  /\ pc' = [a \in Appenders |-> IF pc[a] \in Running THEN "lost" ELSE pc[a]]
  /\ UNCHANGED <<steady, last, disk, ts, prev, swept, boundary>>

Start ==
  /\ ~up
  /\ up' = TRUE
  /\ last' = [ms |-> -1, seq |-> 0]
  /\ UNCHANGED <<now, steady, db, disk, txn, aq, pc, ts, prev, swept, boundary>>

Init ==
  /\ now = 0 /\ steady = TRUE /\ up = TRUE
  /\ last = [ms |-> -1, seq |-> 0]
  /\ db = [rows |-> {}, calls |-> 0, seen |-> {}, distinct |-> 0]
  /\ disk = db
  /\ txn = None /\ aq = None
  /\ pc = [a \in Appenders |-> "idle"]
  /\ ts = [a \in Appenders |-> 0]
  /\ prev = [a \in Appenders |-> Genesis]
  /\ swept = {} /\ boundary = None

Next ==
  \/ \E a \in Appenders :
       \/ Arrive(a) \/ OpenUnit(a) \/ TakeQueue(a) \/ EnterTransaction(a)
       \/ ReadHead(a) \/ Insert(a) \/ ReleaseSavepoint(a) \/ Commit(a) \/ Fail(a)
  \/ \E w \in Sweeps, cutoff \in 1..MaxTime : Sweep(w, cutoff)
  \/ Draw \/ Tick \/ StepBack \/ Stop \/ Start

Spec == Init /\ [][Next]_vars

-----------------------------------------------------------------------------
\* Every variable stays within its type.
TypeOK ==
  /\ now \in Nat /\ steady \in BOOLEAN /\ up \in BOOLEAN
  /\ last \in [ms : Int, seq : Nat]
  /\ db \in Stores /\ disk \in Stores
  /\ txn \in Appenders \cup {None} /\ aq \in Appenders \cup {None}
  /\ pc \in [Appenders -> Locations]
  /\ ts \in [Appenders -> Nat]
  /\ prev \in [Appenders -> Hashes \cup {Genesis}]
  /\ swept \subseteq Hashes /\ boundary \in Hashes \cup {None}

\* Whatever appends interleave, fail or are lost, and however often retention
\* runs, the chain never forks and verification finds no break in it, neither
\* in the committed store nor in what the connection shows: as long as the clock
\* is not set back, for then ids are out of order.
ChainVerifies == steady => \A s \in {db, disk} : Verify(s.rows) # "broken"

\* A row missing anywhere but at the end is found (retention.ts, "treat any hole
\* in the middle as tampering"): no attestation excuses a row retention left.
HolesAreFound ==
  steady => \A r \in disk.rows : r # LastRow(disk.rows) => Verify(disk.rows \ {r}) = "broken"

HashesOf(rows) == {r.hash : r \in rows}

\* An append that succeeded has its row in the trail until retention deletes it,
\* and one that failed or was lost has none.
AcknowledgedIsKept ==
  \A a \in Appenders : pc[a] = "done" <=> a \in HashesOf(disk.rows) \cup swept

\* The latest deletion is attested in the trail that remains, with its boundary.
DeletionIsAttested ==
  swept # {} => \E r \in disk.rows : r.boundary = boundary /\ r.hash \in Sweeps

\* The usage rollup counts the rows of the trail, those deleted since included,
\* and each human once (02 section 11.6, in the row's own transaction).
UsageMatchesTrail ==
  LET rows == HashesOf(disk.rows) \cup swept
      subjects == {IF h \in Sweeps THEN Operator ELSE SubjectOf[h] : h \in rows}
  IN disk.calls = Cardinality(rows) /\ disk.distinct = Cardinality(subjects)
=============================================================================
