---------------------------- MODULE AuditChainProofs ----------------------------
(***************************************************************************)
(* Theorems about AuditChain for every number of appends, units of work,   *)
(* subjects and sweeps, every size of the sequence and every clock bound.  *)
(***************************************************************************)
EXTENDS AuditChain, FiniteSetTheorems, TLAPS

-----------------------------------------------------------------------------
(***************************************************************************)
(* The invariant.  It is claimed of the connection's view of the store and *)
(* of the committed store alike, so that a commit and a rollback both end  *)
(* in a sound one.                                                         *)
(***************************************************************************)

\* One append has the queue and one transaction is open: whose, the calls'
\* places say, and nothing is uncommitted without one.
Turns ==
  /\ \A a \in Appenders :
       /\ txn = a <=> \/ pc[a] \in {"read", "insert", "inserted", "unit"}
                      \/ a \in Nested /\ pc[a] \in {"append", "enter"}
       /\ aq = a <=> pc[a] \in {"enter", "read", "insert", "inserted"}
       /\ pc[a] \in {"open", "unit"} => a \in Nested
       /\ pc[a] \in Running => up
       /\ pc[a] = "insert" => prev[a] = Head(db.rows)
  /\ txn = None => db = disk

HashesIn(s) == HashesOf(s.rows) \cup swept

\* Whose row is in the trail, or was until retention deleted it.
Held ==
  \A a \in Appenders :
    /\ a \in HashesIn(disk) <=> pc[a] = "done"
    /\ a \in HashesIn(db) <=> pc[a] \in {"inserted", "unit", "done"}

\* Whatever rows one picks, one of them is the first and one the last.
Ends(rows) ==
  \A part \in SUBSET rows : part # {} =>
    /\ \E r \in part : \A q \in part : r.id <= q.id
    /\ \E r \in part : \A q \in part : q.id <= r.id

\* No two rows share an id, or a hash; a boundary names a row that retention
\* deleted, and none of those is back.
Distinct(rows) ==
  /\ \A p, q \in rows : p.id = q.id \/ p.hash = q.hash => p = q
  /\ \A r \in rows : r.hash \notin swept /\ r.boundary \in swept \cup {None}

Attested(rows) == swept # {} => \E r \in rows : r.boundary = boundary /\ r.hash \in Sweeps

SubjectOfHash(h) == IF h \in Sweeps THEN Operator ELSE SubjectOf[h]

\* The rollup counts the hashes and the subjects.
CountedAs(s, hashes) ==
  /\ IsFiniteSet(hashes) /\ s.calls = Cardinality(hashes)
  /\ s.seen = {SubjectOfHash(h) : h \in hashes}
  /\ IsFiniteSet(s.seen) /\ s.distinct = Cardinality(s.seen)

Counted(s) == CountedAs(s, HashesIn(s))

Sound(s) == Ends(s.rows) /\ Distinct(s.rows) /\ Attested(s.rows) /\ Counted(s)

TrailInv == TypeOK /\ Turns /\ Held /\ Sound(db) /\ Sound(disk)

\* The ids so far are of earlier milliseconds, or of this one and of this
\* process, up to the last it made.
Passed(rows) ==
  \A r \in rows : \/ r.id < now * SeqSize
                  \/ up /\ last.ms = now /\ r.id <= IdOf(last.seq)

OriginKnown(rows) ==
  rows # {} => \/ FirstRow(rows).prev = Genesis
               \/ \E q \in rows : q.boundary = FirstRow(rows).prev

Intact(rows) == Passed(rows) /\ Linked(rows) /\ OriginKnown(rows)

ChainInv ==
  /\ TrailInv
  /\ last.seq < SeqSize
  /\ steady => last.ms <= now /\ Intact(db.rows) /\ Intact(disk.rows)

\* What the generator relies on: the sequence of a millisecond, which starts in
\* the lower half of its range, does not come to its end within it.
RoomLeft == last.ms = now => last.seq + 1 < SeqSize

-----------------------------------------------------------------------------
(***************************************************************************)
(* First and last rows.                                                    *)
(***************************************************************************)

LEMMA LastIs ==
  ASSUME NEW rows, Ends(rows), NEW part \in SUBSET rows, part # {}
  PROVE  LastRow(part) \in part /\ \A q \in part : q.id <= LastRow(part).id
<1>1. \E r \in part : \A q \in part : q.id <= r.id
  BY DEF Ends
<1> QED BY <1>1 DEF LastRow

LEMMA FirstIs ==
  ASSUME NEW rows, Ends(rows), NEW part \in SUBSET rows, part # {}
  PROVE  FirstRow(part) \in part /\ \A q \in part : FirstRow(part).id <= q.id
<1>1. \E r \in part : \A q \in part : r.id <= q.id
  BY DEF Ends
<1> QED BY <1>1 DEF FirstRow

LEMMA EndsOfPart ==
  ASSUME NEW rows, Ends(rows), NEW part \in SUBSET rows
  PROVE  Ends(part)
  BY DEF Ends

LEMMA EndsOfMore ==
  ASSUME NEW rows \in SUBSET Rows, Ends(rows), NEW r \in Rows
  PROVE  Ends(rows \cup {r})
<1> SUFFICES ASSUME NEW part \in SUBSET (rows \cup {r}), part # {}
             PROVE  /\ \E p \in part : \A q \in part : p.id <= q.id
                    /\ \E p \in part : \A q \in part : q.id <= p.id
  BY DEF Ends
<1>1. \A q \in rows \cup {r} : q.id \in Nat
  BY DEF Rows
<1>2. CASE part \subseteq {r}
  BY <1>1, <1>2
<1>3. CASE ~(part \subseteq {r})
  <2> DEFINE old == part \ {r}
  <2>1. old \in SUBSET rows /\ old # {}
    BY <1>3
  <2>2. PICK p \in old : \A q \in old : p.id <= q.id
    BY <2>1 DEF Ends
  <2>3. PICK p1 \in old : \A q \in old : q.id <= p1.id
    BY <2>1 DEF Ends
  <2>4. \E x \in part : \A q \in part : x.id <= q.id
    <3>1. CASE r \in part /\ r.id <= p.id
      BY <1>1, <2>2, <3>1
    <3>2. CASE r \notin part \/ p.id <= r.id
      BY <1>1, <2>2, <3>2
    <3> QED BY <1>1, <3>1, <3>2
  <2>5. \E x \in part : \A q \in part : q.id <= x.id
    <3>1. CASE r \in part /\ p1.id <= r.id
      BY <1>1, <2>3, <3>1
    <3>2. CASE r \notin part \/ r.id <= p1.id
      BY <1>1, <2>3, <3>2
    <3> QED BY <1>1, <3>1, <3>2
  <2> QED BY <2>4, <2>5
<1> QED BY <1>2, <1>3

\* What an append links to.
LEMMA HeadType ==
  ASSUME NEW rows \in SUBSET Rows, Ends(rows)
  PROVE  Head(rows) \in Hashes \cup {Genesis}
<1>1. CASE rows = {}
  BY <1>1 DEF Head
<1>2. CASE rows # {}
  <2>1. LastRow(rows) \in rows
    BY <1>2, LastIs
  <2> QED BY <1>2, <2>1 DEF Head, Rows
<1> QED BY <1>1, <1>2

LEMMA IdType ==
  ASSUME TypeOK, NEW seq \in Nat
  PROVE  IdOf(seq) \in Nat
<1>1. now \in Nat /\ SeqSize \in Nat
  BY AuditChainAssumption DEF TypeOK
<1>2. now * SeqSize \in Nat
  BY <1>1
<1> QED BY <1>2 DEF IdOf

\* Whatever a row is, a store with it and its count is a store.
LEMMA WithRowType ==
  ASSUME NEW s \in Stores, NEW r \in Rows
  PROVE  WithRow(s, r) \in Stores
  BY DEF Stores, WithRow, Rows

LEMMA RestType ==
  ASSUME NEW s \in Stores, NEW part \in SUBSET s.rows
  PROVE  /\ [s EXCEPT !.rows = @ \ part] \in Stores
         /\ [s EXCEPT !.rows = @ \ part].rows = s.rows \ part
         /\ [s EXCEPT !.rows = @ \ part].calls = s.calls
         /\ [s EXCEPT !.rows = @ \ part].seen = s.seen
         /\ [s EXCEPT !.rows = @ \ part].distinct = s.distinct
  BY DEF Stores

\* A sequence that stays below the size of its range.
LEMMA SequenceType ==
  ASSUME TypeOK, NEW seq \in Sequences
  PROVE  seq \in Nat /\ seq < SeqSize
<1>1. CASE now = last.ms
  <2>1. seq = (last.seq + 1) % SeqSize
    BY <1>1 DEF Sequences
  <2>2. last.seq + 1 \in Int /\ SeqSize \in Int /\ SeqSize > 0
    BY AuditChainAssumption DEF TypeOK
  <2> QED BY <2>1, <2>2
<1>2. CASE now # last.ms
  BY <1>2, AuditChainAssumption DEF Sequences
<1> QED BY <1>1, <1>2

LEMMA NextSequence ==
  ASSUME TypeOK, last.ms = now, last.seq + 1 < SeqSize, NEW seq \in Sequences
  PROVE  seq = last.seq + 1
<1>1. seq = (last.seq + 1) % SeqSize
  BY DEF Sequences
<1>2. last.seq + 1 \in Nat /\ SeqSize \in Nat
  BY AuditChainAssumption DEF TypeOK
<1> DEFINE n == last.seq + 1
<1>3. n \in Nat /\ n < SeqSize
  BY <1>2
<1> HIDE DEF n
<1>4. n % SeqSize = n
  BY <1>2, <1>3
<1> QED BY <1>1, <1>4 DEF n

-----------------------------------------------------------------------------
(***************************************************************************)
(* The two steps that write a row, by what they do to the store.           *)
(***************************************************************************)

\* A row in, with its count.
Adds(s, r, t) ==
  /\ t.rows = s.rows \cup {r} /\ t.calls = s.calls + 1 /\ t.seen = s.seen \cup {r.subject}
  /\ t.distinct = IF r.subject \in s.seen THEN s.distinct ELSE s.distinct + 1

InsertOf(a, r, seq) ==
  /\ r \in Rows /\ seq \in Sequences /\ r.id = IdOf(seq) /\ last' = [ms |-> now, seq |-> seq]
  /\ r.hash = a /\ r.prev = prev[a] /\ r.subject = SubjectOf[a] /\ r.boundary = None
  /\ \A q \in db.rows : q.id # r.id
  /\ db' \in Stores /\ Adds(db, r, db')

LEMMA InsertIs ==
  ASSUME TypeOK, NEW a \in Appenders, Insert(a)
  PROVE  \E r, seq : InsertOf(a, r, seq)
<1>1. PICK seq \in Sequences :
        LET r == [id |-> IdOf(seq), hash |-> a, prev |-> prev[a], ts |-> ts[a],
                  subject |-> SubjectOf[a], boundary |-> None]
        IN Unique(db, r) /\ db' = WithRow(db, r) /\ last' = [ms |-> now, seq |-> seq]
  BY DEF Insert
<1> DEFINE r == [id |-> IdOf(seq), hash |-> a, prev |-> prev[a], ts |-> ts[a],
                 subject |-> SubjectOf[a], boundary |-> None]
<1>2. IdOf(seq) \in Nat
  BY SequenceType, IdType
<1>3. r \in Rows
  BY <1>2, AuditChainAssumption DEF TypeOK, Rows, Hashes
<1>4. /\ r.id = IdOf(seq) /\ r.hash = a /\ r.prev = prev[a] /\ r.subject = SubjectOf[a]
      /\ r.boundary = None
  OBVIOUS
<1>5. Unique(db, r) /\ db' = WithRow(db, r) /\ last' = [ms |-> now, seq |-> seq]
  BY <1>1
<1> HIDE DEF r
<1>6. \A q \in db.rows : q.id # r.id
  BY <1>5 DEF Unique
<1>7. db' \in Stores
  BY <1>3, <1>5, WithRowType DEF TypeOK
<1>8. Adds(db, r, db')
  BY <1>5 DEF WithRow, Adds
<1> QED BY <1>3, <1>4, <1>5, <1>6, <1>7, <1>8 DEF InsertOf

SweepOf(w, part, rest, r) ==
  /\ part \in SUBSET db.rows /\ part # {}
  /\ \A p \in part, q \in db.rows : q.id <= p.id => q \in part
  /\ rest \in Stores /\ rest.rows = db.rows \ part /\ rest.calls = db.calls
  /\ rest.seen = db.seen /\ rest.distinct = db.distinct
  /\ r \in Rows /\ r.hash = w /\ r.prev = Head(rest.rows) /\ r.subject = Operator
  /\ r.boundary = LastRow(part).hash /\ (\E seq \in Seeds : r.id = IdOf(seq))
  /\ \A q \in rest.rows : q.id # r.id
  /\ \A q \in db.rows : q.hash # w
  /\ w \notin swept
  /\ db' \in Stores /\ Adds(rest, r, db') /\ disk' = db'
  /\ swept' = swept \cup HashesOf(part) /\ boundary' = LastRow(part).hash

LEMMA SweepIs ==
  ASSUME TypeOK, Ends(db.rows), NEW w \in Sweeps, NEW cutoff \in 1..MaxTime, Sweep(w, cutoff)
  PROVE  \E part, rest, r : SweepOf(w, part, rest, r)
<1> DEFINE part == Prefix(db.rows, cutoff)
           rest == [db EXCEPT !.rows = @ \ part]
<1>1. PICK seq \in Seeds :
        LET r == [id |-> IdOf(seq), hash |-> w, prev |-> Head(rest.rows), ts |-> now,
                  subject |-> Operator, boundary |-> BoundaryOf(db.rows, part)]
        IN Unique(rest, r) /\ db' = WithRow(rest, r)
  BY DEF Sweep
<1> DEFINE r == [id |-> IdOf(seq), hash |-> w, prev |-> Head(rest.rows), ts |-> now,
                 subject |-> Operator, boundary |-> BoundaryOf(db.rows, part)]
<1>2. /\ part # {} /\ w \notin swept /\ (\A q \in db.rows : q.hash # w) /\ disk' = db'
      /\ swept' = swept \cup HashesOf(part) /\ boundary' = LastRow(part).hash
  BY DEF Sweep, HashesOf
<1>3. db \in Stores /\ db.rows \in SUBSET Rows
  BY DEF TypeOK, Stores
<1>4. part \in SUBSET db.rows
  BY DEF Prefix
<1>5. \A p \in part, q \in db.rows : q.id <= p.id => q \in part
  <2> SUFFICES ASSUME NEW p \in part, NEW q \in db.rows, q.id <= p.id,
                      NEW x \in db.rows, x.id <= q.id
               PROVE  x.ts < cutoff
    BY DEF Prefix
  <2>1. x.id \in Nat /\ q.id \in Nat /\ p.id \in Nat
    BY <1>3, <1>4 DEF Rows
  <2>2. x.id <= p.id
    BY <2>1
  <2> QED BY <2>2 DEF Prefix
<1>6. /\ rest \in Stores /\ rest.rows = db.rows \ part /\ rest.calls = db.calls
      /\ rest.seen = db.seen /\ rest.distinct = db.distinct
  BY <1>3, <1>4, RestType
<1> HIDE DEF part, rest
<1>7. LastRow(part) \in Rows
  BY <1>2, <1>3, <1>4, LastIs
<1>8. Head(rest.rows) \in Hashes \cup {Genesis}
  BY <1>3, <1>4, <1>6, EndsOfPart, HeadType
<1>9. r \in Rows
  <2>1. IdOf(seq) \in Nat
    BY IdType, AuditChainAssumption
  <2> QED BY <1>7, <1>8, <2>1, AuditChainAssumption DEF Rows, Hashes, TypeOK, BoundaryOf
<1>10. /\ r.hash = w /\ r.prev = Head(rest.rows) /\ r.subject = Operator /\ r.id = IdOf(seq)
       /\ r.boundary = LastRow(part).hash
  BY DEF BoundaryOf
<1>11. Unique(rest, r) /\ db' = WithRow(rest, r)
  BY <1>1
<1> HIDE DEF r
<1>12. \A q \in rest.rows : q.id # r.id
  BY <1>11 DEF Unique
<1>13. db' \in Stores
  BY <1>6, <1>9, <1>11, WithRowType
<1>14. Adds(rest, r, db')
  BY <1>11 DEF WithRow, Adds
<1>15. SweepOf(w, part, rest, r)
  BY <1>2, <1>4, <1>5, <1>6, <1>9, <1>10, <1>12, <1>13, <1>14 DEF SweepOf
<1> QED BY <1>15

-----------------------------------------------------------------------------
(***************************************************************************)
(* Types.                                                                  *)
(***************************************************************************)

LEMMA InitType == Init => TypeOK
  BY AuditChainAssumption DEF Init, TypeOK, Stores, Locations

LEMMA AppendType ==
  ASSUME TypeOK, Ends(db.rows), NEW a \in Appenders,
         \/ Arrive(a) \/ OpenUnit(a) \/ TakeQueue(a) \/ EnterTransaction(a)
         \/ ReadHead(a) \/ Insert(a) \/ ReleaseSavepoint(a) \/ Commit(a) \/ Fail(a)
  PROVE  TypeOK'
<1> USE DEF TypeOK, Locations, Goto, LeaveQueue
<1>1. CASE Arrive(a) \/ OpenUnit(a) \/ TakeQueue(a) \/ EnterTransaction(a)
  BY <1>1 DEF Arrive, OpenUnit, TakeQueue, EnterTransaction
<1>2. CASE ReadHead(a)
  <2>1. Head(db.rows) \in Hashes \cup {Genesis}
    BY HeadType DEF Stores
  <2> QED BY <1>2, <2>1 DEF ReadHead
<1>3. CASE Insert(a)
  <2>1. PICK r, seq : InsertOf(a, r, seq)
    BY <1>3, InsertIs
  <2>2. db' \in Stores /\ last' = [ms |-> now, seq |-> seq] /\ seq \in Nat
    BY <2>1, SequenceType DEF InsertOf
  <2>3. last' \in [ms : Int, seq : Nat]
    BY <2>2
  <2> QED BY <1>3, <2>2, <2>3 DEF Insert
<1>4. CASE ReleaseSavepoint(a) \/ Commit(a) \/ Fail(a)
  BY <1>4 DEF ReleaseSavepoint, Commit, Fail, Undone
<1> QED BY <1>1, <1>2, <1>3, <1>4

LEMMA TypeStep == TypeOK /\ Ends(db.rows) /\ [Next]_vars => TypeOK'
<1> SUFFICES ASSUME TypeOK, Ends(db.rows), [Next]_vars PROVE TypeOK'
  OBVIOUS
<1>1. ASSUME NEW w \in Sweeps, NEW cutoff \in 1..MaxTime, Sweep(w, cutoff) PROVE TypeOK'
  <2>1. PICK part, rest, r : SweepOf(w, part, rest, r)
    BY <1>1, SweepIs
  <2>2. db' \in Stores /\ disk' = db' /\ swept' = swept \cup HashesOf(part)
    BY <2>1 DEF SweepOf
  <2>3. part \in SUBSET Rows /\ part # {} /\ boundary' = LastRow(part).hash
    BY <2>1 DEF SweepOf, TypeOK, Stores
  <2>4. HashesOf(part) \subseteq Hashes
    BY <2>3 DEF HashesOf, Rows
  <2>5. LastRow(part) \in Rows
    BY <2>1, <2>3, LastIs DEF SweepOf
  <2>6. boundary' \in Hashes
    BY <2>3, <2>5 DEF Rows
  <2> QED BY <1>1, <2>2, <2>4, <2>6 DEF Sweep, TypeOK
<1>2. CASE Tick \/ StepBack \/ UNCHANGED vars
  <2>1. now' \in Nat
    BY <1>2 DEF TypeOK, Tick, StepBack, vars
  <2>2. steady' \in BOOLEAN /\ up' \in BOOLEAN
    BY <1>2 DEF TypeOK, Tick, StepBack, vars
  <2>3. UNCHANGED <<last, db, disk, txn, aq, pc, ts, prev, swept, boundary>>
    BY <1>2 DEF Tick, StepBack, vars
  <2> QED BY <2>1, <2>2, <2>3 DEF TypeOK
<1>3. CASE Stop
  <2>1. now' \in Nat
    BY <1>3 DEF TypeOK, Stop
  <2>2. steady' \in BOOLEAN /\ up' \in BOOLEAN
    BY <1>3 DEF TypeOK, Stop
  <2>3. pc' \in [Appenders -> Locations]
    BY <1>3 DEF TypeOK, Stop, Locations
  <2> QED BY <1>3, <2>1, <2>2, <2>3 DEF TypeOK, Stop
<1>4. CASE Start
  <2>1. last' \in [ms : Int, seq : Nat]
    BY <1>4 DEF Start
  <2> QED BY <1>4, <2>1 DEF TypeOK, Start
<1>5. CASE Draw
  <2>1. PICK seq \in Sequences : last' = [ms |-> now, seq |-> seq]
    BY <1>5 DEF Draw
  <2>2. seq \in Nat /\ now \in Int
    BY <2>1, SequenceType DEF TypeOK
  <2>3. last' \in [ms : Int, seq : Nat]
    BY <2>1, <2>2
  <2> QED BY <1>5, <2>3 DEF TypeOK, Draw
<1> QED BY <1>1, <1>2, <1>3, <1>4, <1>5, AppendType DEF Next

-----------------------------------------------------------------------------
(***************************************************************************)
(* The trail: rows, places and counts.                                     *)
(***************************************************************************)

\* A step of one append that leaves the store as it is.
LEMMA TurnsAppend ==
  ASSUME TypeOK, Turns, NEW a \in Appenders,
         \/ Arrive(a) \/ OpenUnit(a) \/ TakeQueue(a) \/ EnterTransaction(a)
         \/ ReadHead(a) \/ Insert(a) \/ ReleaseSavepoint(a) \/ Commit(a) \/ Fail(a)
  PROVE  Turns'
<1> USE DEF TypeOK, Goto, Running, Locations
<1>0. None \notin Appenders
  BY AuditChainAssumption
<1>1. CASE Arrive(a)
  BY <1>0, <1>1 DEF Arrive, Turns
<1>2. CASE OpenUnit(a)
  BY <1>0, <1>2 DEF OpenUnit, Turns
<1>3. CASE TakeQueue(a)
  BY <1>0, <1>3 DEF TakeQueue, Turns
<1>4. CASE EnterTransaction(a)
  BY <1>0, <1>4 DEF EnterTransaction, Turns
<1>5. CASE ReadHead(a)
  BY <1>0, <1>5 DEF ReadHead, Turns
<1>6. CASE Insert(a)
  <2>1. /\ pc[a] = "insert" /\ pc' = [pc EXCEPT ![a] = "inserted"]
        /\ UNCHANGED <<up, txn, aq, prev>>
    BY <1>6 DEF Insert
  <2> QED BY <1>0, <2>1 DEF Turns
<1>7. CASE ReleaseSavepoint(a)
  BY <1>0, <1>7 DEF ReleaseSavepoint, Turns
<1>8. CASE Commit(a)
  BY <1>0, <1>8 DEF Commit, LeaveQueue, Turns
<1>9. CASE Fail(a)
  BY <1>0, <1>9 DEF Fail, LeaveQueue, Undone, Turns
<1> QED BY <1>1, <1>2, <1>3, <1>4, <1>5, <1>6, <1>7, <1>8, <1>9

LEMMA TurnsStep == TypeOK /\ Turns /\ [Next]_vars => Turns'
<1> SUFFICES ASSUME TypeOK, Turns, [Next]_vars PROVE Turns'
  OBVIOUS
<1>0. None \notin Appenders
  BY AuditChainAssumption
<1>1. ASSUME NEW w \in Sweeps, NEW cutoff \in 1..MaxTime, Sweep(w, cutoff) PROVE Turns'
  <2>1. /\ UNCHANGED <<up, txn, aq, pc, prev>> /\ ~up /\ disk' = db'
    BY <1>1 DEF Sweep
  <2> QED BY <2>1 DEF Turns, Running, Locations
<1>2. CASE Draw \/ Tick \/ StepBack \/ UNCHANGED vars
  BY <1>2 DEF Turns, Draw, Tick, StepBack, vars
<1>3. CASE Stop
  BY <1>0, <1>3 DEF Turns, TypeOK, Stop, Running, Locations
<1>4. CASE Start
  BY <1>4 DEF Turns, Start
<1> QED BY <1>1, <1>2, <1>3, <1>4, TurnsAppend DEF Next

\* One hash more, and its subject at its first sighting.
LEMMA CountOneMore ==
  ASSUME NEW s \in Stores, NEW hashes \in SUBSET Hashes, CountedAs(s, hashes), NEW r, NEW t,
         Adds(s, r, t), r.hash \notin hashes, r.subject = SubjectOfHash(r.hash)
  PROVE  CountedAs(t, hashes \cup {r.hash})
<1>1. IsFiniteSet(hashes \cup {r.hash}) /\ Cardinality(hashes \cup {r.hash}) = Cardinality(hashes) + 1
  BY FS_AddElement DEF CountedAs
<1>2. t.seen = {SubjectOfHash(h) : h \in hashes \cup {r.hash}}
  BY DEF CountedAs, Adds
<1>3. /\ IsFiniteSet(s.seen \cup {r.subject})
      /\ Cardinality(s.seen \cup {r.subject}) =
           IF r.subject \in s.seen THEN Cardinality(s.seen) ELSE Cardinality(s.seen) + 1
  BY FS_AddElement DEF CountedAs
<1>4. IsFiniteSet(t.seen) /\ t.distinct = Cardinality(t.seen)
  BY <1>3 DEF CountedAs, Adds
<1>5. t.calls = Cardinality(hashes \cup {r.hash})
  BY <1>1 DEF CountedAs, Adds
<1> QED BY <1>1, <1>2, <1>4, <1>5 DEF CountedAs

LEMMA InsertSound ==
  ASSUME TrailInv, NEW a \in Appenders, Insert(a)
  PROVE  Sound(db)' /\ HashesIn(db)' = HashesIn(db) \cup {a}
<1>1. PICK r, seq : InsertOf(a, r, seq)
  BY InsertIs DEF TrailInv
<1>2. /\ r \in Rows /\ r.hash = a /\ r.subject = SubjectOf[a] /\ r.boundary = None
      /\ \A q \in db.rows : q.id # r.id
      /\ Adds(db, r, db') /\ UNCHANGED <<swept, boundary>>
  BY <1>1 DEF InsertOf, Insert
<1>3. db \in Stores /\ db.rows \in SUBSET Rows /\ swept \in SUBSET Hashes /\ db'.rows = db.rows \cup {r}
  BY <1>2 DEF TrailInv, TypeOK, Stores, Adds
<1>4. a \notin HashesIn(db)
  BY DEF TrailInv, Held, Insert
<1>5. HashesIn(db)' = HashesIn(db) \cup {a}
  BY <1>2, <1>3 DEF HashesIn, HashesOf
<1>6. Ends(db.rows)'
  BY <1>2, <1>3, EndsOfMore DEF TrailInv, Sound
<1>7. Distinct(db.rows)'
  <2>1. Distinct(db.rows)
    BY DEF TrailInv, Sound
  <2>2. \A q \in db.rows : q.hash # r.hash
    BY <1>2, <1>4 DEF HashesIn, HashesOf
  <2>3. r.hash \notin swept
    BY <1>2, <1>4 DEF HashesIn
  <2> QED BY <1>2, <1>3, <2>1, <2>2, <2>3 DEF Distinct
<1>8. Attested(db.rows)'
  BY <1>2, <1>3 DEF TrailInv, Sound, Attested
<1>9. Counted(db)'
  <2>1. HashesIn(db) \in SUBSET Hashes
    BY <1>3 DEF HashesIn, HashesOf, Rows
  <2>2. r.subject = SubjectOfHash(r.hash)
    BY <1>2, AuditChainAssumption DEF SubjectOfHash
  <2>3. CountedAs(db', HashesIn(db) \cup {a})
    BY <1>2, <1>3, <1>4, <2>1, <2>2, CountOneMore DEF TrailInv, Sound, Counted
  <2> QED BY <1>5, <2>3 DEF Counted
<1> QED BY <1>5, <1>6, <1>7, <1>8, <1>9 DEF Sound

LEMMA SweepSound ==
  ASSUME TrailInv, NEW w \in Sweeps, NEW cutoff \in 1..MaxTime, Sweep(w, cutoff)
  PROVE  Sound(db)' /\ disk' = db' /\ HashesIn(db)' = HashesIn(db) \cup {w}
<1>0. TypeOK /\ Ends(db.rows) /\ Sound(db)
  BY DEF TrailInv, Sound
<1>1. PICK part, rest, r : SweepOf(w, part, rest, r)
  BY <1>0, SweepIs
<1>2. /\ part \in SUBSET db.rows /\ part # {} /\ rest \in Stores /\ rest.rows = db.rows \ part
      /\ rest.calls = db.calls /\ rest.seen = db.seen /\ rest.distinct = db.distinct
      /\ r \in Rows /\ r.hash = w /\ r.subject = Operator /\ r.boundary = LastRow(part).hash
      /\ (\A q \in rest.rows : q.id # r.id) /\ (\A q \in db.rows : q.hash # w) /\ w \notin swept
      /\ Adds(rest, r, db') /\ disk' = db'
      /\ swept' = swept \cup HashesOf(part) /\ boundary' = LastRow(part).hash
  BY <1>1 DEF SweepOf
<1>3. /\ db \in Stores /\ db.rows \in SUBSET Rows /\ swept \in SUBSET Hashes
      /\ db'.rows = rest.rows \cup {r}
  BY <1>0, <1>2 DEF TypeOK, Stores, Adds
<1>4. w \notin HashesIn(db)
  BY <1>2 DEF HashesIn, HashesOf
<1>5. HashesIn(db)' = HashesIn(db) \cup {w}
  BY <1>2, <1>3 DEF HashesIn, HashesOf
<1>6. Ends(db.rows)'
  BY <1>0, <1>2, <1>3, EndsOfPart, EndsOfMore
<1>7. LastRow(part) \in part
  BY <1>0, <1>2, LastIs
<1>8. r.boundary \in swept'
  BY <1>2, <1>7 DEF HashesOf
<1>9. Distinct(db.rows)'
  <2>1. Distinct(db.rows)
    BY <1>0 DEF Sound
  <2>2. \A q \in rest.rows : q.hash \notin swept'
    <3>1. ASSUME NEW q \in rest.rows, NEW p \in part PROVE q.hash # p.hash
      BY <1>2, <2>1 DEF Distinct
    <3> QED BY <1>2, <2>1, <3>1 DEF Distinct, HashesOf
  <2>3. \A q \in rest.rows : q.boundary \in swept' \cup {None}
    BY <1>2, <2>1 DEF Distinct
  <2>4. w \notin swept'
    BY <1>2 DEF HashesOf
  <2>5. \A p, q \in rest.rows : p.id = q.id \/ p.hash = q.hash => p = q
    BY <1>2, <2>1 DEF Distinct
  <2>6. \A q \in rest.rows : q.id # r.id /\ q.hash # r.hash
    BY <1>2
  <2> QED BY <1>2, <1>3, <1>8, <2>2, <2>3, <2>4, <2>5, <2>6 DEF Distinct
<1>10. Attested(db.rows)'
  BY <1>2, <1>3 DEF Attested
<1>11. Counted(db)'
  <2>1. HashesIn(db) \in SUBSET Hashes
    BY <1>3 DEF HashesIn, HashesOf, Rows
  <2>2. r.subject = SubjectOfHash(r.hash)
    BY <1>2 DEF SubjectOfHash
  <2>3. CountedAs(rest, HashesIn(db))
    BY <1>0, <1>2 DEF Sound, Counted, CountedAs
  <2>4. CountedAs(db', HashesIn(db) \cup {w})
    BY <1>2, <1>4, <2>1, <2>2, <2>3, CountOneMore
  <2> QED BY <1>5, <2>4 DEF Counted
<1> QED BY <1>2, <1>5, <1>6, <1>9, <1>10, <1>11 DEF Sound

\* A step that writes nothing: each store is what one of them was.
LEMMA QuietSound ==
  ASSUME Sound(db), Sound(disk), UNCHANGED <<swept, boundary>>,
         db' \in {db, disk}, disk' \in {db, disk}
  PROVE  Sound(db)' /\ Sound(disk)'
  BY DEF Sound, Distinct, Attested, Counted, HashesIn, HashesOf

LEMMA HeldStep == TrailInv /\ [Next]_vars => Held'
<1> SUFFICES ASSUME TrailInv, [Next]_vars PROVE Held'
  OBVIOUS
<1> USE DEF TrailInv, Goto
<1>1. ASSUME NEW a \in Appenders, Insert(a) PROVE Held'
  <2>1. HashesIn(db)' = HashesIn(db) \cup {a}
    BY <1>1, InsertSound
  <2>2. HashesIn(disk)' = HashesIn(disk)
    BY <1>1 DEF Insert, HashesIn, HashesOf
  <2>3. pc[a] = "insert" /\ pc' = [pc EXCEPT ![a] = "inserted"]
    BY <1>1 DEF Insert
  <2> HIDE DEF TrailInv
  <2> QED BY <2>1, <2>2, <2>3 DEF TrailInv, TypeOK, Held
<1>2. ASSUME NEW w \in Sweeps, NEW cutoff \in 1..MaxTime, Sweep(w, cutoff) PROVE Held'
  <2>1. HashesIn(db)' = HashesIn(db) \cup {w} /\ disk' = db'
    BY <1>2, SweepSound
  <2>2. HashesIn(disk)' = HashesIn(db)'
    BY <2>1 DEF HashesIn
  <2>3. w \notin Appenders
    BY AuditChainAssumption
  <2>4. ~up /\ pc' = pc
    BY <1>2 DEF Sweep
  <2>5. \A b \in Appenders : pc[b] \notin {"inserted", "unit"}
    BY <2>4 DEF Turns, Running, Locations
  <2> HIDE DEF TrailInv
  <2> QED BY <2>1, <2>2, <2>3, <2>4, <2>5 DEF TrailInv, Held
<1>3. ASSUME NEW a \in Appenders, Commit(a) PROVE Held'
  <2>1. HashesIn(db)' = HashesIn(db) /\ HashesIn(disk)' = HashesIn(db)
    BY <1>3 DEF Commit, HashesIn, HashesOf
  <2>2. pc[a] \in {"inserted", "unit"} /\ pc' = [pc EXCEPT ![a] = "done"]
    BY <1>3 DEF Commit
  <2>3. \A b \in Appenders \ {a} : pc[b] \notin {"inserted", "unit"}
    BY <2>2 DEF Turns
  <2> HIDE DEF TrailInv
  <2> QED BY <2>1, <2>2, <2>3 DEF TrailInv, TypeOK, Held
<1>4. ASSUME NEW a \in Appenders, Fail(a) PROVE Held'
  <2>1. HashesIn(db)' = HashesIn(disk) /\ HashesIn(disk)' = HashesIn(disk)
    BY <1>4 DEF Fail, Undone, HashesIn, HashesOf
  <2>2. pc[a] \in {"read", "insert", "inserted", "unit"} /\ pc' = [pc EXCEPT ![a] = "failed"]
    BY <1>4 DEF Fail
  <2>3. \A b \in Appenders \ {a} : pc[b] \notin {"inserted", "unit"}
    BY <2>2 DEF Turns
  <2> HIDE DEF TrailInv
  <2> QED BY <2>1, <2>2, <2>3 DEF TrailInv, TypeOK, Held
<1>5. CASE Stop
  <2>1. HashesIn(db)' = HashesIn(disk) /\ HashesIn(disk)' = HashesIn(disk)
    BY <1>5 DEF Stop, HashesIn, HashesOf
  <2>2. \A b \in Appenders : /\ pc'[b] = "done" <=> pc[b] = "done"
                             /\ pc'[b] \notin {"inserted", "unit"}
    BY <1>5 DEF Stop, Running, Locations
  <2> HIDE DEF TrailInv
  <2> QED BY <2>1, <2>2 DEF TrailInv, Held
<1>6. ASSUME NEW a \in Appenders,
             \/ Arrive(a) \/ OpenUnit(a) \/ TakeQueue(a) \/ EnterTransaction(a) \/ ReadHead(a)
             \/ ReleaseSavepoint(a)
      PROVE  Held'
  <2>1. HashesIn(db)' = HashesIn(db) /\ HashesIn(disk)' = HashesIn(disk)
    BY <1>6 DEF Arrive, OpenUnit, TakeQueue, EnterTransaction, ReadHead, ReleaseSavepoint, HashesIn,
            HashesOf
  <2>2. \A b \in Appenders : /\ pc'[b] = "done" <=> pc[b] = "done"
                             /\ pc'[b] \in {"inserted", "unit"} <=> pc[b] \in {"inserted", "unit"}
    BY <1>6 DEF Arrive, OpenUnit, TakeQueue, EnterTransaction, ReadHead, ReleaseSavepoint, TypeOK
  <2> HIDE DEF TrailInv
  <2> QED BY <2>1, <2>2 DEF TrailInv, Held
<1>7. CASE Draw \/ Tick \/ StepBack \/ Start \/ UNCHANGED vars
  <2>1. UNCHANGED <<db, disk, swept, pc>>
    BY <1>7 DEF Draw, Tick, StepBack, Start, vars
  <2> QED BY <2>1 DEF Held, HashesIn, HashesOf
<1> QED BY <1>1, <1>2, <1>3, <1>4, <1>5, <1>6, <1>7 DEF Next

LEMMA SoundStep == TrailInv /\ [Next]_vars => Sound(db)' /\ Sound(disk)'
<1> SUFFICES ASSUME TrailInv, [Next]_vars PROVE Sound(db)' /\ Sound(disk)'
  OBVIOUS
<1>0. Sound(db) /\ Sound(disk)
  BY DEF TrailInv
<1>1. ASSUME NEW a \in Appenders, Insert(a) PROVE Sound(db)' /\ Sound(disk)'
  <2>1. Sound(db)'
    BY <1>1, InsertSound
  <2>2. UNCHANGED <<disk, swept, boundary>>
    BY <1>1 DEF Insert
  <2>3. Sound(disk)'
    BY <1>0, <2>2 DEF Sound, Distinct, Attested, Counted, HashesIn, HashesOf
  <2> QED BY <2>1, <2>3
<1>2. ASSUME NEW w \in Sweeps, NEW cutoff \in 1..MaxTime, Sweep(w, cutoff)
      PROVE  Sound(db)' /\ Sound(disk)'
  <2>1. Sound(db)' /\ disk' = db'
    BY <1>2, SweepSound
  <2> QED BY <2>1 DEF Sound, Distinct, Attested, Counted, HashesIn, HashesOf
<1>3. ASSUME NEW a \in Appenders,
             \/ Arrive(a) \/ OpenUnit(a) \/ TakeQueue(a) \/ EnterTransaction(a)
             \/ ReadHead(a) \/ ReleaseSavepoint(a) \/ Commit(a) \/ Fail(a)
      PROVE  Sound(db)' /\ Sound(disk)'
  <2>1. UNCHANGED <<swept, boundary>> /\ db' \in {db, disk} /\ disk' \in {db, disk}
    BY <1>3 DEF Arrive, OpenUnit, TakeQueue, EnterTransaction, ReadHead, ReleaseSavepoint, Commit,
            Fail, Undone
  <2> QED BY <1>0, <2>1, QuietSound
<1>4. CASE Draw \/ Tick \/ StepBack \/ Stop \/ Start \/ UNCHANGED vars
  <2>1. UNCHANGED <<swept, boundary>> /\ db' \in {db, disk} /\ disk' \in {db, disk}
    BY <1>4 DEF Draw, Tick, StepBack, Stop, Start, vars
  <2> QED BY <1>0, <2>1, QuietSound
<1> QED BY <1>1, <1>2, <1>3, <1>4 DEF Next

LEMMA InitTrail == Init => TrailInv
<1> SUFFICES ASSUME Init PROVE TrailInv
  OBVIOUS
<1>1. TypeOK
  BY InitType
<1>2. Turns /\ Held
  BY AuditChainAssumption DEF Init, Turns, Held, HashesIn, HashesOf
<1>3. db.rows = {} /\ disk = db /\ swept = {} /\ db.calls = 0 /\ db.seen = {} /\ db.distinct = 0
  BY DEF Init
<1>4. Sound(db)
  <2>1. HashesIn(db) = {}
    BY <1>3 DEF HashesIn, HashesOf
  <2>2. Counted(db)
    BY <1>3, <2>1, FS_EmptySet DEF Counted, CountedAs
  <2> QED BY <1>3, <2>2 DEF Sound, Ends, Distinct, Attested
<1> QED BY <1>1, <1>2, <1>3, <1>4 DEF TrailInv

LEMMA TrailStep == TrailInv /\ [Next]_vars => TrailInv'
<1> SUFFICES ASSUME TrailInv, [Next]_vars PROVE TrailInv'
  OBVIOUS
<1>1. TypeOK'
  BY TypeStep DEF TrailInv, Sound
<1>2. Turns'
  BY TurnsStep DEF TrailInv
<1> QED BY <1>1, <1>2, HeldStep, SoundStep DEF TrailInv

LEMMA TrailInvariant == Spec => []TrailInv
  BY InitTrail, TrailStep, PTL DEF Spec

\* Every reachable state of the trail is well typed.
THEOREM AuditTypeCorrect == Spec => []TypeOK
<1>1. TrailInv => TypeOK
  BY DEF TrailInv
<1> QED BY TrailInvariant, <1>1, PTL

\* An append that succeeded has its row until retention deletes it, and one that
\* failed or was lost has none, whatever unit of work it was part of.
THEOREM AcknowledgedRowsStay == Spec => []AcknowledgedIsKept
<1>1. TrailInv => AcknowledgedIsKept
  BY DEF TrailInv, Held, HashesIn, AcknowledgedIsKept
<1> QED BY TrailInvariant, <1>1, PTL

\* The latest deletion is attested in the trail that remains.
THEOREM DeletionsAreAttested == Spec => []DeletionIsAttested
<1>1. TrailInv => DeletionIsAttested
  BY DEF TrailInv, Sound, Attested, DeletionIsAttested
<1> QED BY TrailInvariant, <1>1, PTL

\* The rollup counts the rows there are and were, and each human once.
THEOREM UsageCountsTheTrail == Spec => []UsageMatchesTrail
<1>1. TrailInv => UsageMatchesTrail
  BY DEF TrailInv, Sound, Counted, CountedAs, HashesIn, SubjectOfHash, UsageMatchesTrail
<1> QED BY TrailInvariant, <1>1, PTL

-----------------------------------------------------------------------------
(***************************************************************************)
(* The chain.  While the clock is not set back and the sequence of a       *)
(* millisecond does not come to its end, ids grow, so that the head of the *)
(* chain is the row written last and a sweep takes the oldest rows.        *)
(***************************************************************************)

LEMMA NextMillisecond ==
  ASSUME TypeOK, NEW seq \in Nat, seq < SeqSize
  PROVE  /\ now * SeqSize \in Nat /\ (now + 1) * SeqSize = now * SeqSize + SeqSize
         /\ IdOf(seq) = now * SeqSize + seq
         /\ now * SeqSize <= IdOf(seq) /\ IdOf(seq) < (now + 1) * SeqSize
<1>1. now \in Nat /\ SeqSize \in Nat
  BY AuditChainAssumption DEF TypeOK
<1>2. now * SeqSize \in Nat /\ (now + 1) * SeqSize = now * SeqSize + SeqSize
  BY <1>1
<1>3. IdOf(seq) = now * SeqSize + seq
  BY DEF IdOf
<1> DEFINE base == now * SeqSize
           next == (now + 1) * SeqSize
<1>4. base \in Nat /\ next = base + SeqSize /\ IdOf(seq) = base + seq
  BY <1>2, <1>3
<1> HIDE DEF base, next
<1>5. base <= IdOf(seq) /\ IdOf(seq) < next
  BY <1>1, <1>4
<1> QED BY <1>2, <1>3, <1>5 DEF base, next

\* Once the millisecond is over, every id so far is of an earlier one.
LEMMA PassedOn ==
  ASSUME TypeOK, last.seq < SeqSize, NEW rows \in SUBSET Rows, Passed(rows), NEW r \in rows
  PROVE  r.id < (now + 1) * SeqSize
<1>1. r.id \in Nat /\ last.seq \in Nat /\ SeqSize \in Nat
  BY AuditChainAssumption DEF TypeOK, Rows
<1>2. /\ now * SeqSize \in Nat /\ (now + 1) * SeqSize = now * SeqSize + SeqSize
      /\ IdOf(last.seq) < (now + 1) * SeqSize /\ IdOf(last.seq) = now * SeqSize + last.seq
  BY <1>1, NextMillisecond
<1> DEFINE base == now * SeqSize
           next == (now + 1) * SeqSize
           id == IdOf(last.seq)
<1>3. /\ base \in Nat /\ next = base + SeqSize /\ id < next /\ id = base + last.seq
      /\ r.id < base \/ r.id <= id
  BY <1>2 DEF Passed
<1> HIDE DEF base, next, id
<1>4. r.id < next
  BY <1>1, <1>3
<1> QED BY <1>4 DEF next

\* The next id is the greatest.
LEMMA InsertPasses ==
  ASSUME ChainInv, RoomLeft, steady, NEW a \in Appenders, NEW r, NEW seq, InsertOf(a, r, seq)
  PROVE  \A q \in db.rows : q.id < r.id
<1> SUFFICES ASSUME NEW q \in db.rows PROVE q.id < r.id
  OBVIOUS
<1>1. /\ TypeOK /\ Passed(db.rows) /\ last.ms <= now /\ seq \in Nat /\ seq < SeqSize
      /\ r.id = IdOf(seq) /\ q.id \in Nat /\ last.seq \in Nat /\ seq \in Sequences
  BY SequenceType DEF ChainInv, TrailInv, Intact, InsertOf, TypeOK, Stores, Rows
<1>2. now * SeqSize \in Nat /\ r.id = now * SeqSize + seq
  BY <1>1, NextMillisecond
<1>3. CASE q.id < now * SeqSize
  <2> DEFINE base == now * SeqSize
  <2>1. base \in Nat /\ r.id = base + seq /\ q.id < base
    BY <1>2, <1>3
  <2> HIDE DEF base
  <2> QED BY <1>1, <2>1
<1>4. CASE last.ms = now /\ q.id <= IdOf(last.seq)
  <2>1. seq = last.seq + 1 /\ last.seq < SeqSize
    BY <1>1, <1>4, NextSequence DEF RoomLeft, ChainInv
  <2>2. IdOf(last.seq) = now * SeqSize + last.seq
    BY <1>1, <2>1, NextMillisecond
  <2> DEFINE base == now * SeqSize
  <2>3. base \in Nat /\ r.id = base + seq
    BY <1>2
  <2>4. q.id <= base + last.seq
    BY <1>4, <2>2
  <2> HIDE DEF base
  <2> QED BY <1>1, <2>1, <2>3, <2>4
<1> QED BY <1>1, <1>3, <1>4 DEF Passed

\* A greatest id, linked to the head, keeps the chain and its first row.
LEMMA LinkedMore ==
  ASSUME NEW rows \in SUBSET Rows, Ends(rows), Distinct(rows), Linked(rows),
         NEW r \in Rows, r.prev = Head(rows), \A q \in rows : q.id < r.id
  PROVE  /\ Linked(rows \cup {r})
         /\ FirstRow(rows \cup {r}) = IF rows = {} THEN r ELSE FirstRow(rows)
<1> DEFINE more == rows \cup {r}
<1>0. \A q \in more : q.id \in Nat
  BY DEF Rows
<1>1. Linked(more)
  <2> SUFFICES ASSUME NEW p \in more, NEW q \in more, Precedes(p, q, more) PROVE q.prev = p.hash
    BY DEF Linked
  <2>1. p.id < q.id /\ \A x \in more : x.id <= p.id \/ q.id <= x.id
    BY DEF Precedes
  <2>2. p \in rows
    BY <1>0, <2>1
  <2>3. CASE q \in rows
    BY <2>1, <2>2, <2>3 DEF Precedes, Linked
  <2>4. CASE q = r
    <3>1. \A x \in rows : x.id <= p.id
      BY <1>0, <2>1, <2>4
    <3>2. rows # {} /\ LastRow(rows) \in rows /\ \A x \in rows : x.id <= LastRow(rows).id
      BY <2>2, LastIs
    <3>3. LastRow(rows).id = p.id
      BY <1>0, <2>2, <3>1, <3>2
    <3>4. LastRow(rows) = p
      BY <2>2, <3>2, <3>3 DEF Distinct
    <3> QED BY <2>4, <3>2, <3>4 DEF Head
  <2> QED BY <2>3, <2>4
<1>2. FirstRow(more) = IF rows = {} THEN r ELSE FirstRow(rows)
  <2>1. Ends(more) /\ more \in SUBSET more /\ more # {}
    BY EndsOfMore
  <2> DEFINE first == FirstRow(more)
             old == FirstRow(rows)
  <2>2. first \in more /\ \A x \in more : first.id <= x.id
    BY <2>1, FirstIs
  <2>3. rows # {} => old \in rows /\ \A x \in rows : old.id <= x.id
    BY FirstIs
  <2>4. rows \subseteq more /\ more \subseteq rows \cup {r} /\ \A x \in rows : x.id < r.id
    OBVIOUS
  <2> HIDE DEF first, old, more
  <2>5. CASE rows = {}
    BY <2>2, <2>4, <2>5 DEF first
  <2>6. CASE rows # {}
    <3>1. old \in rows /\ old.id < r.id /\ first.id <= old.id /\ old.id \in Nat /\ r.id \in Nat
      BY <1>0, <2>2, <2>3, <2>4, <2>6 DEF more
    <3>2. first \in rows
      BY <1>0, <2>2, <2>4, <3>1
    <3>3. first.id = old.id
      BY <1>0, <2>2, <2>3, <2>4, <2>6, <3>1, <3>2
    <3>4. first = old
      BY <3>1, <3>2, <3>3 DEF Distinct
    <3> QED BY <2>6, <3>4 DEF first, old
  <2> QED BY <2>5, <2>6 DEF more, first
<1> QED BY <1>1, <1>2

\* Without its oldest rows the chain is linked, and the first row left names the
\* newest row taken.
LEMMA LinkedLess ==
  ASSUME NEW rows \in SUBSET Rows, Ends(rows), Distinct(rows), Linked(rows),
         NEW part \in SUBSET rows, part # {},
         \A p \in part, q \in rows : q.id <= p.id => q \in part
  PROVE  /\ Linked(rows \ part)
         /\ rows \ part # {} => FirstRow(rows \ part).prev = LastRow(part).hash
<1> DEFINE rest == rows \ part
<1>0. \A q \in rows : q.id \in Nat
  BY DEF Rows
<1>1. \A p \in part, q \in rest : p.id < q.id
  BY <1>0
<1>2. Linked(rest)
  <2> SUFFICES ASSUME NEW p \in rest, NEW q \in rest, Precedes(p, q, rest) PROVE q.prev = p.hash
    BY DEF Linked
  <2>1. p.id < q.id /\ \A x \in rest : x.id <= p.id \/ q.id <= x.id
    BY DEF Precedes
  <2>2. \A x \in rows : x.id <= p.id \/ q.id <= x.id
    BY <1>0, <1>1, <2>1
  <2> QED BY <2>1, <2>2 DEF Precedes, Linked
<1>3. ASSUME rest # {} PROVE FirstRow(rest).prev = LastRow(part).hash
  <2>1. LastRow(part) \in part /\ \A x \in part : x.id <= LastRow(part).id
    BY LastIs
  <2>2. FirstRow(rest) \in rest /\ \A x \in rest : FirstRow(rest).id <= x.id
    BY <1>3, FirstIs
  <2>3. Precedes(LastRow(part), FirstRow(rest), rows)
    BY <1>0, <1>1, <2>1, <2>2 DEF Precedes
  <2> QED BY <2>1, <2>2, <2>3 DEF Linked
<1> QED BY <1>2, <1>3

LEMMA InsertIntact ==
  ASSUME ChainInv, RoomLeft, steady, NEW a \in Appenders, Insert(a)
  PROVE  /\ last'.seq < SeqSize /\ last'.ms <= now'
         /\ Intact(db.rows)' /\ Intact(disk.rows)'
<1>0. /\ TypeOK /\ Turns /\ Sound(db) /\ Intact(db.rows) /\ Intact(disk.rows) /\ last.ms <= now
      /\ last.seq < SeqSize
  BY DEF ChainInv, TrailInv
<1>1. PICK r, seq : InsertOf(a, r, seq)
  BY <1>0, InsertIs
<1>2. /\ r \in Rows /\ seq \in Sequences /\ r.id = IdOf(seq) /\ last' = [ms |-> now, seq |-> seq]
      /\ r.prev = prev[a] /\ db'.rows = db.rows \cup {r}
  BY <1>1 DEF InsertOf, Adds
<1>3. /\ pc[a] = "insert" /\ now' = now /\ up' = up /\ disk' = disk
      /\ db.rows \in SUBSET Rows /\ disk.rows \in SUBSET Rows
  BY <1>0 DEF Insert, TypeOK, Stores
<1>4. seq \in Nat /\ seq < SeqSize
  BY <1>0, <1>2, SequenceType
<1>5. up /\ r.prev = Head(db.rows)
  BY <1>0, <1>2, <1>3 DEF Turns, Running, Locations
<1>6. \A q \in db.rows : q.id < r.id
  BY <1>1, InsertPasses
<1>7. last'.ms = now /\ last'.seq = seq /\ IdOf(last.seq)' = r.id
  <2>1. last'.ms = now /\ last'.seq = seq
    BY <1>2
  <2> QED BY <1>2, <1>3, <2>1 DEF IdOf
<1>8. Passed(db.rows)'
  <2>1. \A q \in db'.rows : q.id <= r.id
    BY <1>2, <1>3, <1>6 DEF Rows
  <2>2. \A q \in db'.rows : up' /\ last'.ms = now' /\ q.id <= IdOf(last.seq)'
    BY <1>3, <1>5, <1>7, <2>1
  <2> QED BY <2>2 DEF Passed
<1>9. Passed(disk.rows)'
  <2>1. ASSUME NEW q \in disk.rows PROVE q.id < now * SeqSize \/ q.id <= r.id
    <3>1. CASE last.ms = now /\ q.id <= IdOf(last.seq)
      <4>1. seq = last.seq + 1 /\ q.id \in Nat /\ last.seq \in Nat
        BY <1>0, <1>2, <1>3, <3>1, NextSequence DEF RoomLeft, TypeOK, Rows
      <4>2. /\ now * SeqSize \in Nat /\ IdOf(last.seq) = now * SeqSize + last.seq
            /\ IdOf(seq) = now * SeqSize + seq
        BY <1>0, <1>4, <4>1, NextMillisecond
      <4> DEFINE base == now * SeqSize
      <4>3. base \in Nat /\ q.id <= base + last.seq /\ r.id = base + seq
        BY <1>2, <3>1, <4>2
      <4> HIDE DEF base
      <4> QED BY <4>1, <4>3
    <3> QED BY <1>0, <3>1 DEF Intact, Passed
  <2> DEFINE base == now * SeqSize
  <2>2. now' * SeqSize = base /\ disk'.rows = disk.rows /\ up' /\ last'.ms = now'
    BY <1>3, <1>5, <1>7
  <2>3. \A q \in disk'.rows : q.id < now' * SeqSize \/ q.id <= IdOf(last.seq)'
    BY <1>7, <2>1, <2>2
  <2> QED BY <2>2, <2>3 DEF Passed
<1>10. Linked(db.rows)' /\ OriginKnown(db.rows)'
  <2>1. /\ Linked(db.rows \cup {r})
        /\ FirstRow(db.rows \cup {r}) = IF db.rows = {} THEN r ELSE FirstRow(db.rows)
    BY <1>0, <1>2, <1>3, <1>5, <1>6, LinkedMore DEF Sound, Intact
  <2>2. OriginKnown(db.rows) /\ (db.rows = {} => r.prev = Genesis)
    BY <1>0, <1>5 DEF Intact, Head
  <2>3. OriginKnown(db.rows \cup {r})
    BY <2>1, <2>2 DEF OriginKnown
  <2> QED BY <1>2, <2>1, <2>3 DEF Linked, OriginKnown
<1>11. Linked(disk.rows)' /\ OriginKnown(disk.rows)'
  BY <1>0, <1>3 DEF Intact, Linked, OriginKnown
<1>12. now \in Nat /\ now' = now
  BY <1>0, <1>3 DEF TypeOK
<1> QED BY <1>4, <1>7, <1>8, <1>9, <1>10, <1>11, <1>12 DEF Intact

LEMMA SweepIntact ==
  ASSUME ChainInv, steady, NEW w \in Sweeps, NEW cutoff \in 1..MaxTime, Sweep(w, cutoff)
  PROVE  last'.ms <= now' /\ Intact(db.rows)' /\ Intact(disk.rows)'
<1>0. /\ TypeOK /\ Sound(db) /\ Intact(db.rows) /\ last.ms <= now /\ now \in Nat
      /\ last.ms \in Int /\ db.rows \in SUBSET Rows
  BY DEF ChainInv, TrailInv, TypeOK, Stores
<1>1. PICK part, rest, r : SweepOf(w, part, rest, r)
  BY <1>0, SweepIs DEF Sound
<1>2. ~up /\ now' = now + 1 /\ last' = last /\ disk' = db'
  BY DEF Sweep
<1>3. /\ r \in Rows /\ r.prev = Head(rest.rows) /\ r.boundary = LastRow(part).hash
      /\ rest.rows = db.rows \ part /\ part \in SUBSET db.rows /\ part # {}
      /\ \A p \in part, q \in db.rows : q.id <= p.id => q \in part
      /\ db'.rows = rest.rows \cup {r}
  BY <1>1 DEF SweepOf, Adds
<1>4. r.id \in Nat /\ now * SeqSize <= r.id /\ r.id < now' * SeqSize /\ now * SeqSize \in Nat
  <2>1. PICK seq \in Seeds : r.id = IdOf(seq)
    BY <1>1 DEF SweepOf
  <2>2. seq \in Nat /\ seq < SeqSize
    BY AuditChainAssumption
  <2> QED BY <1>0, <1>2, <1>3, <2>1, <2>2, NextMillisecond DEF Rows
<1>5. \A q \in db.rows : q.id \in Nat /\ q.id < now * SeqSize
  BY <1>0, <1>2 DEF Intact, Passed, Rows
<1>6. \A q \in db.rows : q.id < r.id
  <2> DEFINE base == now * SeqSize
  <2>1. base \in Nat /\ base <= r.id /\ r.id \in Nat /\ \A q \in db.rows : q.id \in Nat /\ q.id < base
    BY <1>4, <1>5
  <2> HIDE DEF base
  <2> QED BY <2>1
<1>7. Passed(db.rows)'
  <2> DEFINE next == now' * SeqSize
  <2>1. r.id < next /\ r.id \in Nat /\ next \in Int
    <3>1. now' \in Int /\ SeqSize \in Int
      BY <1>0, <1>2, AuditChainAssumption
    <3> QED BY <1>4, <3>1
  <2>2. \A q \in db'.rows : q.id \in Nat /\ q.id <= r.id
    BY <1>3, <1>4, <1>5, <1>6
  <2> HIDE DEF next
  <2>3. \A q \in db'.rows : q.id < next
    BY <2>1, <2>2
  <2> QED BY <2>3 DEF Passed, next
<1>8. /\ Linked(rest.rows)
      /\ rest.rows # {} => FirstRow(rest.rows).prev = r.boundary
  BY <1>0, <1>3, LinkedLess DEF Sound, Intact
<1>9. Ends(rest.rows) /\ Distinct(rest.rows) /\ rest.rows \in SUBSET Rows
  BY <1>0, <1>3, EndsOfPart DEF Sound, Distinct
<1>10. /\ Linked(rest.rows \cup {r})
       /\ FirstRow(rest.rows \cup {r}) = IF rest.rows = {} THEN r ELSE FirstRow(rest.rows)
  BY <1>3, <1>6, <1>8, <1>9, LinkedMore
<1>11. OriginKnown(rest.rows \cup {r})
  <2>1. rest.rows = {} => r.prev = Genesis
    BY <1>3 DEF Head
  <2> QED BY <1>8, <1>10, <2>1 DEF OriginKnown
<1>12. Intact(db.rows)'
  <2>1. Linked(db'.rows) /\ OriginKnown(db'.rows)
    BY <1>3, <1>10, <1>11
  <2> QED BY <1>7, <2>1 DEF Intact, Linked, OriginKnown, Precedes, FirstRow
<1>13. Intact(disk.rows)'
  BY <1>2, <1>12 DEF Intact, Passed, Linked, OriginKnown
<1> QED BY <1>0, <1>2, <1>12, <1>13

\* A millisecond later, whatever is left of the store.
LEMMA LaterIntact ==
  ASSUME ChainInv, steady, now' = now + 1, last' = last, disk' = disk, db' \in {db, disk}
  PROVE  last'.ms <= now' /\ Intact(db.rows)' /\ Intact(disk.rows)'
<1>0. /\ TypeOK /\ last.seq < SeqSize /\ last.ms <= now /\ now \in Nat /\ last.ms \in Int
      /\ Intact(db.rows) /\ Intact(disk.rows) /\ db.rows \in SUBSET Rows /\ disk.rows \in SUBSET Rows
  BY DEF ChainInv, TrailInv, TypeOK, Stores
<1>1. ASSUME NEW rows \in {db.rows, disk.rows}
      PROVE  \A q \in rows : q.id < now' * SeqSize
  BY <1>0, PassedOn DEF Intact
<1>2. db'.rows \in {db.rows, disk.rows} /\ disk'.rows = disk.rows
  OBVIOUS
<1>3. Passed(db.rows)' /\ Passed(disk.rows)'
  BY <1>1, <1>2 DEF Passed
<1>4. Linked(db.rows)' /\ OriginKnown(db.rows)' /\ Linked(disk.rows)' /\ OriginKnown(disk.rows)'
  BY <1>0, <1>2 DEF Intact, Linked, OriginKnown
<1> QED BY <1>0, <1>3, <1>4 DEF Intact

\* Nothing but what the store holds, of the two it may hold.
LEMMA QuietIntact ==
  ASSUME ChainInv, steady, UNCHANGED <<now, up, last>>, disk' \in {db, disk}, db' \in {db, disk}
  PROVE  last'.ms <= now' /\ Intact(db.rows)' /\ Intact(disk.rows)'
<1>0. last.ms <= now /\ Intact(db.rows) /\ Intact(disk.rows)
  BY DEF ChainInv
<1>1. db'.rows \in {db.rows, disk.rows} /\ disk'.rows \in {db.rows, disk.rows}
  OBVIOUS
<1>2. IdOf(last.seq)' = IdOf(last.seq)
  BY DEF IdOf
<1>3. Passed(db.rows)' /\ Passed(disk.rows)'
  BY <1>0, <1>1, <1>2 DEF Intact, Passed
<1>4. Linked(db.rows)' /\ OriginKnown(db.rows)' /\ Linked(disk.rows)' /\ OriginKnown(disk.rows)'
  BY <1>0, <1>1 DEF Intact, Linked, OriginKnown
<1> QED BY <1>0, <1>3, <1>4 DEF Intact

\* An id drawn for another table: the rows' ids are of before it.
LEMMA DrawIntact ==
  ASSUME ChainInv, RoomLeft, steady, Draw
  PROVE  last'.ms <= now' /\ Intact(db.rows)' /\ Intact(disk.rows)'
<1>0. /\ TypeOK /\ last.ms <= now /\ now \in Nat /\ last.seq \in Nat /\ last.seq < SeqSize
      /\ Intact(db.rows) /\ Intact(disk.rows) /\ db.rows \in SUBSET Rows /\ disk.rows \in SUBSET Rows
  BY DEF ChainInv, TrailInv, TypeOK, Stores
<1>1. PICK seq \in Sequences : last' = [ms |-> now, seq |-> seq]
  BY DEF Draw
<1>2. up /\ UNCHANGED <<now, up, db, disk>> /\ last'.ms = now /\ last'.seq = seq
  BY <1>1 DEF Draw
<1>3. seq \in Nat /\ seq < SeqSize
  BY <1>0, SequenceType
<1>4. IdOf(last.seq)' = IdOf(seq)
  BY <1>2 DEF IdOf
<1>5. ASSUME NEW rows \in SUBSET Rows, Passed(rows), NEW q \in rows
      PROVE  q.id < now * SeqSize \/ q.id <= IdOf(seq)
  <2>1. CASE last.ms = now /\ q.id <= IdOf(last.seq)
    <3>1. seq = last.seq + 1 /\ q.id \in Nat
      BY <1>0, <2>1, NextSequence DEF RoomLeft, Rows
    <3>2. /\ now * SeqSize \in Nat /\ IdOf(last.seq) = now * SeqSize + last.seq
          /\ IdOf(seq) = now * SeqSize + seq
      BY <1>0, <1>3, NextMillisecond
    <3> DEFINE base == now * SeqSize
               id == IdOf(seq)
    <3>3. base \in Nat /\ q.id <= base + last.seq /\ id = base + seq
      BY <2>1, <3>2
    <3> HIDE DEF base, id
    <3>4. q.id <= id
      BY <1>0, <3>1, <3>3
    <3> QED BY <3>4 DEF id
  <2> QED BY <1>5, <2>1 DEF Passed
<1>6. ASSUME NEW rows \in SUBSET Rows, Passed(rows)
      PROVE  \A q \in rows : q.id < now' * SeqSize \/ (up' /\ last'.ms = now' /\ q.id <= IdOf(last.seq)')
  BY <1>2, <1>4, <1>5, <1>6
<1>7. Passed(db.rows)' /\ Passed(disk.rows)'
  BY <1>0, <1>2, <1>6 DEF Intact, Passed
<1>8. Linked(db.rows)' /\ OriginKnown(db.rows)' /\ Linked(disk.rows)' /\ OriginKnown(disk.rows)'
  BY <1>0, <1>2 DEF Intact, Linked, OriginKnown
<1> QED BY <1>0, <1>2, <1>7, <1>8 DEF Intact

LEMMA StartIntact ==
  ASSUME ChainInv, steady, Start
  PROVE  last'.ms <= now' /\ Intact(db.rows)' /\ Intact(disk.rows)'
<1>0. now \in Nat /\ Intact(db.rows) /\ Intact(disk.rows)
  BY DEF ChainInv, TrailInv, TypeOK
<1>1. ~up /\ last'.ms = -1 /\ UNCHANGED <<now, db, disk>>
  BY DEF Start
<1>2. \A q \in db.rows \cup disk.rows : q.id < now * SeqSize
  BY <1>0, <1>1 DEF Intact, Passed
<1>3. Passed(db.rows)' /\ Passed(disk.rows)'
  BY <1>1, <1>2 DEF Passed
<1>4. Linked(db.rows)' /\ OriginKnown(db.rows)' /\ Linked(disk.rows)' /\ OriginKnown(disk.rows)'
  BY <1>0, <1>1 DEF Intact, Linked, OriginKnown
<1> QED BY <1>0, <1>1, <1>3, <1>4 DEF Intact

LEMMA InitChain == Init => ChainInv
<1> SUFFICES ASSUME Init PROVE ChainInv
  OBVIOUS
<1>1. db.rows = {} /\ disk.rows = {} /\ now = 0 /\ last.ms = -1 /\ last.seq = 0
  BY DEF Init
<1>2. 0 < SeqSize
  BY AuditChainAssumption
<1> QED BY <1>1, <1>2, InitTrail DEF ChainInv, Intact, Passed, Linked, OriginKnown

LEMMA ChainStep == ChainInv /\ RoomLeft /\ [Next]_vars => ChainInv'
<1> SUFFICES ASSUME ChainInv, RoomLeft, [Next]_vars PROVE ChainInv'
  OBVIOUS
<1>0. TrailInv' /\ TypeOK
  BY TrailStep DEF ChainInv, TrailInv
<1>1. last'.seq < SeqSize
  <2>1. ASSUME NEW a \in Appenders, Insert(a) PROVE last'.seq < SeqSize
    BY <1>0, <2>1, InsertIs, SequenceType DEF InsertOf
  <2>2. CASE Start
    BY <2>2, AuditChainAssumption DEF Start
  <2>3. CASE Draw
    BY <1>0, <2>3, SequenceType DEF Draw
  <2>4. CASE last' = last
    BY <2>4 DEF ChainInv
  <2> QED BY <2>1, <2>2, <2>3, <2>4 DEF Next, vars, Arrive, OpenUnit, TakeQueue, EnterTransaction, ReadHead,
              ReleaseSavepoint, Commit, Fail, Sweep, Tick, StepBack, Stop
<1> DEFINE Kept == last'.ms <= now' /\ Intact(db.rows)' /\ Intact(disk.rows)'
<1>2. steady' => Kept
  <2> SUFFICES ASSUME steady' PROVE Kept
    OBVIOUS
  <2>1. steady /\ ~StepBack
    BY DEF Next, vars, Arrive, OpenUnit, TakeQueue, EnterTransaction, ReadHead, Insert,
            ReleaseSavepoint, Commit, Fail, Sweep, Draw, Tick, StepBack, Stop, Start
  <2>2. ASSUME NEW a \in Appenders, Insert(a) PROVE Kept
    BY <2>1, <2>2, InsertIntact
  <2>3. ASSUME NEW w \in Sweeps, NEW cutoff \in 1..MaxTime, Sweep(w, cutoff) PROVE Kept
    BY <2>1, <2>3, SweepIntact
  <2>4. ASSUME NEW a \in Appenders,
               \/ Arrive(a) \/ OpenUnit(a) \/ TakeQueue(a) \/ EnterTransaction(a)
               \/ ReadHead(a) \/ ReleaseSavepoint(a) \/ Commit(a) \/ Fail(a)
        PROVE  Kept
    <3>1. UNCHANGED <<now, up, last>> /\ db' \in {db, disk} /\ disk' \in {db, disk}
      BY <2>4 DEF Arrive, OpenUnit, TakeQueue, EnterTransaction, ReadHead, ReleaseSavepoint, Commit,
              Fail, Undone
    <3> QED BY <2>1, <3>1, QuietIntact
  <2>5. CASE UNCHANGED vars
    <3>1. UNCHANGED <<now, up, last>> /\ db' \in {db, disk} /\ disk' \in {db, disk}
      BY <2>5 DEF vars
    <3> QED BY <2>1, <3>1, QuietIntact
  <2>6. CASE Tick \/ Stop
    <3>1. now' = now + 1 /\ last' = last /\ disk' = disk /\ db' \in {db, disk}
      BY <2>6 DEF Tick, Stop
    <3> QED BY <2>1, <3>1, LaterIntact
  <2>7. CASE Start
    BY <2>1, <2>7, StartIntact
  <2>8. CASE Draw
    BY <2>1, <2>8, DrawIntact
  <2> HIDE DEF Kept
  <2> QED BY <2>1, <2>2, <2>3, <2>4, <2>5, <2>6, <2>7, <2>8 DEF Next
<1> QED BY <1>0, <1>1, <1>2 DEF ChainInv

LEMMA ChainInvariant == Spec /\ []RoomLeft => []ChainInv
  BY InitChain, ChainStep, PTL DEF Spec

\* Verification finds no break in the chain, whatever appends interleave, fail or
\* are lost and however often retention runs: while the clock is not set back and
\* no millisecond's sequence comes to its end.
THEOREM ChainsVerify == Spec /\ []RoomLeft => []ChainVerifies
<1>1. ASSUME NEW rows, Intact(rows) PROVE Verify(rows) # "broken"
  BY <1>1 DEF Intact, OriginKnown, Verify, Origin
<1>2. ChainInv => ChainVerifies
  BY <1>1 DEF ChainInv, ChainVerifies
<1> QED BY ChainInvariant, <1>2, PTL

\* A chain that verifies does not verify without one of its rows, the last aside.
LEMMA HoleShows ==
  ASSUME NEW rows \in SUBSET Rows, Ends(rows), Distinct(rows), Linked(rows), swept \subseteq Hashes,
         NEW r \in rows, r # LastRow(rows)
  PROVE  Verify(rows \ {r}) = "broken"
<1> DEFINE rest == rows \ {r}
           before == {x \in rows : x.id < r.id}
           after == {x \in rows : r.id < x.id}
<1>0. \A x \in rows : x.id \in Nat /\ x.hash \in Hashes
  BY DEF Rows
<1>1. after # {}
  <2>1. LastRow(rows) \in rows /\ \A x \in rows : x.id <= LastRow(rows).id
    BY LastIs
  <2>2. LastRow(rows).id # r.id
    BY <2>1 DEF Distinct
  <2> QED BY <1>0, <2>1, <2>2
<1>2. PICK q \in after : \A x \in after : q.id <= x.id
  BY <1>1 DEF Ends
<1>3. q \in rest /\ r.id < q.id /\ \A x \in rows : x.id <= r.id \/ q.id <= x.id
  BY <1>0, <1>2
<1>4. q.prev = r.hash
  BY <1>3 DEF Linked, Precedes
<1>5. CASE before # {}
  <2>1. PICK p \in before : \A x \in before : x.id <= p.id
    BY <1>5 DEF Ends
  <2>2. p \in rest /\ p.id < r.id
    BY <1>0, <2>1
  <2>3. \A x \in rest : x.id <= p.id \/ q.id <= x.id
    <3>1. \A x \in rest : x.id # r.id
      BY DEF Distinct
    <3> QED BY <1>0, <1>2, <2>1, <3>1
  <2>4. Precedes(p, q, rest)
    BY <1>0, <1>3, <2>2, <2>3 DEF Precedes
  <2>5. p.hash # r.hash
    BY <2>2 DEF Distinct
  <2>6. ~Linked(rest)
    BY <1>3, <1>4, <2>2, <2>4, <2>5 DEF Linked
  <2> QED BY <1>3, <2>6 DEF Verify
<1>6. CASE before = {}
  <2>1. \A x \in rest : q.id <= x.id
    <3>1. \A x \in rest : x.id # r.id
      BY DEF Distinct
    <3> QED BY <1>0, <1>2, <1>6, <3>1
  <2>2. FirstRow(rest) = q
    <3>1. FirstRow(rest) \in rest /\ \A x \in rest : FirstRow(rest).id <= x.id
      BY <1>3, FirstIs
    <3> DEFINE first == FirstRow(rest)
    <3>3. first \in rows /\ q \in rows /\ first.id <= q.id /\ q.id <= first.id
      BY <1>3, <2>1, <3>1
    <3>2. FirstRow(rest).id = q.id
      <4>1. first.id \in Nat /\ q.id \in Nat
        BY <1>0, <3>3
      <4> HIDE DEF first
      <4>2. first.id = q.id
        BY <3>3, <4>1
      <4> QED BY <4>2 DEF first
    <3> QED BY <1>3, <3>1, <3>2 DEF Distinct
  <2>3. r.hash # Genesis /\ r.hash # None /\ r.hash \notin swept
    BY <1>0, AuditChainAssumption DEF Hashes, Distinct
  <2>4. \A x \in rest : x.boundary # r.hash
    BY <2>3 DEF Distinct
  <2>5. Origin(rest) = "broken"
    BY <1>4, <2>2, <2>3, <2>4 DEF Origin
  <2> QED BY <1>3, <2>5 DEF Verify
<1> QED BY <1>5, <1>6

\* A row missing anywhere but at the end is found: no attestation excuses a row
\* that retention left, and no other row of the chain stands in for it.
THEOREM MissingRowsShow == Spec /\ []RoomLeft => []HolesAreFound
<1>1. ChainInv => HolesAreFound
  <2> SUFFICES ASSUME ChainInv, steady, NEW r \in disk.rows, r # LastRow(disk.rows)
               PROVE  Verify(disk.rows \ {r}) = "broken"
    BY DEF HolesAreFound
  <2>1. /\ disk.rows \in SUBSET Rows /\ swept \subseteq Hashes
        /\ Ends(disk.rows) /\ Distinct(disk.rows) /\ Linked(disk.rows)
    BY DEF ChainInv, TrailInv, TypeOK, Stores, Sound, Intact
  <2> QED BY <2>1, HoleShows
<1> QED BY ChainInvariant, <1>1, PTL

=============================================================================
