---------------------------- MODULE ApprovalsProofs ----------------------------
(***************************************************************************)
(* Theorems about Approvals for every set of humans, plans, requests and   *)
(* decisions, any window and any number of restarts.                       *)
(***************************************************************************)
EXTENDS Approvals, TLAPS

-----------------------------------------------------------------------------
(***************************************************************************)
(* The inductive invariant.  The verdict of a decision is in the           *)
(* connection's view before it is committed, and so are the requests that  *)
(* a bare insert made while a transaction was open; what the two views of  *)
(* the store may differ in is the argument for every theorem below.        *)
(***************************************************************************)

\* A decision that began knows whom and what it is about; the gate's answer
\* stands from the moment the transaction opens.
Asked(d) ==
  LET c == decision[d] IN
  /\ c.at # "idle" => c.id \in Ids /\ c.by \in Subjects /\ c.verdict \in Verdicts
  /\ c.at \in {"append", "commit", "done"} => c.outcome # "none"
  /\ c.at = "open" => c.outcome \in {"none", "refused"}
  /\ c.at = "idle" => c.outcome = "none"

\* A decision in its transaction holds the connection, and nobody else does.
Holding == \A d \in Decisions : decision[d].at \in {"append", "commit"} <=> txn = d

Named(s) == \A i \in Ids : s.req[i].status # "none" => s.req[i].plan \in Plans

Row(d) ==
  [attempt |-> d, id |-> decision[d].id, by |-> decision[d].by, outcome |-> decision[d].outcome]

\* A request that a bare insert made and that is not committed yet.
Fresh(i) == disk.req[i].status = "none" /\ db.req[i].status = "pending"

\* A pending request that the open transaction decides.
Ruled(i) ==
  /\ txn \in Decisions /\ decision[txn].id = i /\ decision[txn].outcome \in Verdicts
  /\ disk.req[i].status = "pending"
  /\ db.req[i].status = decision[txn].outcome /\ db.req[i].approver = decision[txn].by
  /\ db.req[i].plan = disk.req[i].plan /\ db.req[i].expires = disk.req[i].expires

Uncommitted ==
  /\ txn = None => db = disk
  /\ \A i \in Ids : db.req[i] = disk.req[i] \/ Fresh(i) \/ Ruled(i)
  /\ txn \in Decisions /\ decision[txn].outcome \in Verdicts => Ruled(decision[txn].id)
  /\ db.rows = IF txn \in Decisions /\ decision[txn].at = "commit"
                 THEN disk.rows \cup {Row(txn)} ELSE disk.rows

\* A verdict that the connection shows is that of a decision the gate let pass.
Given(d, i, r) ==
  /\ decision[d].id = i /\ decision[d].outcome = r.status /\ decision[d].by = r.approver
  /\ decision[d].at # "idle"
  /\ decision[d].time = r.decided
  /\ MayDecide(r.approver, r) /\ r.decided < r.expires

Backed == \A i \in Ids : Decided(db.req[i]) => \E d \in Decisions : Given(d, i, db.req[i])

\* A token is a function of a committed request, and of an approval.
Minted ==
  \A t \in tokens :
    /\ disk.req[t.id].status # "none"
    /\ disk.req[t.id].plan = t.plan /\ disk.req[t.id].expires = t.exp
    /\ \E d \in Decisions :
         /\ decision[d].id = t.id /\ decision[d].outcome = "approved" /\ decision[d].at # "idle"
         /\ decision[d].by # CallerOf[t.plan] \/ decision[d].by \in SuperAdmins
         /\ decision[d].time < t.exp

\* What only the store, the connection and the decisions are in.
Ledger ==
  /\ \A d \in Decisions : Asked(d)
  /\ Holding
  /\ Named(db) /\ Named(disk)
  /\ Uncommitted
  /\ Backed
  /\ DecisionIsEvidenced /\ AttemptIsRecorded

ApprovalInv == TypeOK /\ Ledger /\ Minted

-----------------------------------------------------------------------------
(* what the types say of a store, a request and a decision *)

LEMMA StoreTypes ==
  ASSUME NEW s \in Stores
  PROVE  /\ s.req \in [Ids -> Requests] /\ s.rows \subseteq Rows
         /\ \A i \in Ids : s.req[i] \in Requests
BY DEF Stores

LEMMA RequestTypes ==
  ASSUME NEW r \in Requests
  PROVE  /\ r.status \in {"none", "pending", "approved", "rejected"}
         /\ r.plan \in Plans \cup {None} /\ r.expires \in Nat
         /\ r.approver \in Subjects \cup {None} /\ r.decided \in Nat
BY DEF Requests, Verdicts

\* Changing one request of a store changes that one.
LEMMA RequestChanged ==
  ASSUME NEW s \in Stores, NEW i \in Ids, NEW r \in Requests
  PROVE  LET t == [s EXCEPT !.req[i] = r] IN
         /\ t \in Stores /\ t.rows = s.rows
         /\ t.req[i] = r /\ \A j \in Ids \ {i} : t.req[j] = s.req[j]
BY DEF Stores

LEMMA RowAdded ==
  ASSUME NEW s \in Stores, NEW x \in Rows
  PROVE  LET t == [s EXCEPT !.rows = @ \cup {x}] IN
         /\ t \in Stores /\ t.req = s.req /\ t.rows = s.rows \cup {x}
BY DEF Stores

LEMMA RowIsRow ==
  ASSUME NEW d \in Decisions, TypeOK, Asked(d), decision[d].at \in {"append", "commit", "done"}
  PROVE  /\ Row(d) \in Rows /\ Row(d).attempt = d /\ Row(d).id = decision[d].id
         /\ Row(d).by = decision[d].by /\ Row(d).outcome = decision[d].outcome
<1>1. decision[d] \in Deciding
  BY DEF TypeOK
<1>2. decision[d].outcome \in Outcomes \ {"none"}
  BY <1>1 DEF Asked, Deciding
<1>3. decision[d].id \in Ids /\ decision[d].by \in Subjects
  BY DEF Asked
<1> QED BY <1>2, <1>3 DEF Row, Rows

\* A decision that moves on keeps whom and what it is about.
LEMMA DecisionMoves ==
  ASSUME TypeOK, NEW d \in Decisions,
         NEW at \in {"open", "append", "commit", "done", "failed", "lost"},
         decision' = [decision EXCEPT ![d] = [@ EXCEPT !.at = at]]
  PROVE  /\ decision' \in [Decisions -> Deciding]
         /\ decision'[d].at = at /\ decision'[d].id = decision[d].id
         /\ decision'[d].by = decision[d].by /\ decision'[d].verdict = decision[d].verdict
         /\ decision'[d].outcome = decision[d].outcome /\ decision'[d].time = decision[d].time
         /\ \A e \in Decisions \ {d} : decision'[e] = decision[e]
<1>1. decision \in [Decisions -> Deciding]
  BY DEF TypeOK
<1>2. [decision[d] EXCEPT !.at = at] \in Deciding
  BY <1>1 DEF Deciding
<1> QED BY <1>1, <1>2 DEF Deciding

\* A committed decision is shown by the connection.
LEMMA CommittedIsShown ==
  ASSUME Uncommitted, NEW i \in Ids, disk.req[i].status \notin {"none", "pending"}
  PROVE  db.req[i] = disk.req[i]
BY DEF Uncommitted, Fresh, Ruled

-----------------------------------------------------------------------------
(* the steps, from those that touch the store least *)

LEMMA LedgerKept ==
  ASSUME Ledger, UNCHANGED <<db, disk, txn, decision>>
  PROVE  Ledger'
BY DEF Ledger, Asked, Holding, Named, Uncommitted, Fresh, Ruled, Row, Backed, Given,
   DecisionIsEvidenced, AttemptIsRecorded, VerdictRows

LEMMA MintedKept ==
  ASSUME Minted, UNCHANGED <<disk, decision, tokens>>
  PROVE  Minted'
BY DEF Minted

\* A plan call that looks for a request to resume.
LEMMA RaiseKeeps ==
  ASSUME ApprovalInv, NEW r \in Raises, StartRaise(r) \/ ListPending(r)
  PROVE  ApprovalInv'
<1>1. TypeOK'
  <2>1. raise' \in [Raises -> Raising]
    <3>1. raise \in [Raises -> Raising] /\ now \in Nat
      BY DEF ApprovalInv, TypeOK
    <3>2. CASE StartRaise(r)
      <4>1. [raise[r] EXCEPT !.at = "list", !.time = now] \in Raising
        BY <3>1 DEF Raising
      <4> QED BY <3>1, <3>2, <4>1 DEF StartRaise
    <3>3. CASE ListPending(r)
      <4>1. \A i \in Ids : [raise[r] EXCEPT !.at = "returned", !.id = i] \in Raising
        BY <3>1 DEF Raising
      <4>2. [raise[r] EXCEPT !.at = "create"] \in Raising
        BY <3>1 DEF Raising
      <4> QED BY <3>1, <3>3, <4>1, <4>2 DEF ListPending, Resumable
    <3> QED BY <3>2, <3>3
  <2> QED BY <2>1 DEF ApprovalInv, TypeOK, StartRaise, ListPending
<1> QED BY <1>1, LedgerKept, MintedKept DEF ApprovalInv, StartRaise, ListPending

\* The clock, a token that is collected: no store is written.
LEMMA QuietKeeps ==
  ASSUME ApprovalInv,
         Tick \/ \E i \in Ids : CollectToken(i)
  PROVE  ApprovalInv'
<1>1. Ledger'
  BY LedgerKept DEF ApprovalInv, Tick, CollectToken
<1>2. CASE Tick
  <2>1. now' \in Nat
    BY <1>2 DEF ApprovalInv, TypeOK, Tick
  <2> QED BY <1>1, <1>2, <2>1, MintedKept DEF ApprovalInv, TypeOK, Tick
<1>3. ASSUME NEW i \in Ids, CollectToken(i) PROVE ApprovalInv'
  <2> DEFINE r == db.req[i]
  <2>1. r \in Requests /\ r.status = "approved" /\ r.plan \in Plans
    BY <1>3, StoreTypes DEF ApprovalInv, TypeOK, Ledger, Named, CollectToken, Collectable
  <2>2. PICK d \in Decisions : Given(d, i, r)
    BY <2>1 DEF ApprovalInv, Ledger, Backed, Decided, Verdicts
  <2>3. TokenOf(i) \in TokenTypes /\ TokenOf(i).id = i /\ TokenOf(i).plan = r.plan
          /\ TokenOf(i).exp = r.expires
    BY <2>1 DEF TokenOf, TokenTypes, Requests
  <2>4. disk.req[i].status # "none" /\ disk.req[i].plan = r.plan /\ disk.req[i].expires = r.expires
    BY <2>1 DEF ApprovalInv, Ledger, Uncommitted, Fresh, Ruled
  <2>5. Minted'
    <3> SUFFICES ASSUME NEW t \in tokens \cup {TokenOf(i)}
                 PROVE  /\ disk.req[t.id].status # "none"
                        /\ disk.req[t.id].plan = t.plan /\ disk.req[t.id].expires = t.exp
                        /\ \E e \in Decisions :
                             /\ decision[e].id = t.id /\ decision[e].outcome = "approved"
                             /\ decision[e].at # "idle"
                             /\ decision[e].by # CallerOf[t.plan] \/ decision[e].by \in SuperAdmins
                             /\ decision[e].time < t.exp
      BY <1>3 DEF Minted, CollectToken
    <3>1. CASE t \in tokens
      BY <3>1 DEF ApprovalInv, Minted
    <3>2. CASE t = TokenOf(i)
      BY <2>1, <2>2, <2>3, <2>4, <3>2 DEF Given, MayDecide
    <3> QED BY <3>1, <3>2
  <2>6. TypeOK'
    BY <1>3, <2>3 DEF ApprovalInv, TypeOK, CollectToken
  <2> QED BY <1>1, <2>5, <2>6 DEF ApprovalInv
<1> QED BY <1>2, <1>3

\* The checks before the transaction.
LEMMA StartDecisionKeeps ==
  ASSUME ApprovalInv, NEW d \in Decisions, NEW i \in Ids, NEW s \in Subjects, NEW v \in Verdicts,
         StartDecision(d, i, s, v)
  PROVE  ApprovalInv'
<1>1. PICK o \in {"none", "refused"} :
        decision' = [decision EXCEPT ![d] =
          [at |-> "open", id |-> i, by |-> s, verdict |-> v, outcome |-> o, time |-> 0]]
  BY DEF StartDecision
<1>2. /\ decision' \in [Decisions -> Deciding]
      /\ decision'[d] = [at |-> "open", id |-> i, by |-> s, verdict |-> v, outcome |-> o, time |-> 0]
      /\ \A e \in Decisions \ {d} : decision'[e] = decision[e]
  <2>1. [at |-> "open", id |-> i, by |-> s, verdict |-> v, outcome |-> o, time |-> 0] \in Deciding
    BY DEF Deciding, Outcomes
  <2> QED BY <1>1, <2>1 DEF ApprovalInv, TypeOK
<1>3. decision[d].at = "idle" /\ UNCHANGED <<now, crashes, db, disk, txn, raise, tokens>>
  BY DEF StartDecision
<1>4. decision[d].outcome = "none" /\ txn # d
  BY <1>3 DEF ApprovalInv, Ledger, Asked, Holding
<1>5. TypeOK'
  BY <1>2, <1>3 DEF ApprovalInv, TypeOK
<1>6. (\A e \in Decisions : Asked(e)') /\ Holding' /\ Named(db)' /\ Named(disk)'
  BY <1>2, <1>3, <1>4 DEF ApprovalInv, Ledger, Asked, Holding, Named
<1>7. Uncommitted'
  <2>1. txn \in Decisions => decision'[txn] = decision[txn]
    BY <1>2, <1>4
  <2>2. \A j \in Ids : Ruled(j) => Ruled(j)'
    BY <1>3, <2>1 DEF Ruled
  <2>3. txn \in Decisions => Row(txn)' = Row(txn)
    BY <1>3, <2>1 DEF Row
  <2>4. txn \in Decisions /\ decision[txn].outcome \in Verdicts => decision[txn].id \in Ids
    BY DEF ApprovalInv, Ledger, Holding, Asked
  <2> QED BY <1>3, <2>1, <2>2, <2>3, <2>4 DEF ApprovalInv, Ledger, Uncommitted, Fresh
<1>8. Backed'
  BY <1>2, <1>3, <1>4 DEF ApprovalInv, Ledger, Backed, Given
<1>9. DecisionIsEvidenced'
  BY <1>3 DEF ApprovalInv, Ledger, DecisionIsEvidenced, VerdictRows
<1>10. AttemptIsRecorded'
  BY <1>2, <1>3 DEF ApprovalInv, Ledger, AttemptIsRecorded
<1>11. Minted'
  BY <1>2, <1>3, <1>4 DEF ApprovalInv, Minted
<1> QED BY <1>5, <1>6, <1>7, <1>8, <1>9, <1>10, <1>11 DEF ApprovalInv, Ledger

\* The bare insert of a request, alone or inside whatever is open.
LEMMA CreateKeeps ==
  ASSUME ApprovalInv, NEW r \in Raises, Create(r)
  PROVE  ApprovalInv'
<1>1. PICK i \in Ids :
        /\ db.req[i].status = "none" /\ disk.req[i].status = "none"
        /\ Run([db EXCEPT !.req[i] =
                 [status |-> "pending", plan |-> PlanOf[r], expires |-> raise[r].time + TTL,
                  approver |-> None, decided |-> 0]])
        /\ raise' = [raise EXCEPT ![r] = [@ EXCEPT !.at = "returned", !.id = i]]
  BY DEF Create
<1> DEFINE q == [status |-> "pending", plan |-> PlanOf[r], expires |-> raise[r].time + TTL,
                 approver |-> None, decided |-> 0]
           s == [db EXCEPT !.req[i] = q]
<1>2. raise \in [Raises -> Raising] /\ raise[r].time \in Nat
  BY DEF ApprovalInv, TypeOK, Raising
<1>3. PlanOf[r] \in Plans /\ raise[r].time + TTL \in Nat
  BY <1>2, ApprovalAssumption
<1>4. q \in Requests
  BY <1>3 DEF Requests
<1>5. q.status = "pending" /\ q.plan \in Plans
  BY <1>3
<1> HIDE DEF q
<1>6. s \in Stores /\ s.rows = db.rows /\ s.req[i] = q /\ \A j \in Ids \ {i} : s.req[j] = db.req[j]
  BY <1>4, RequestChanged DEF ApprovalInv, TypeOK
<1>7. db' = s /\ disk' = IF txn = None THEN s ELSE disk
  BY <1>1 DEF Run, q
<1> HIDE DEF s
<1>8. UNCHANGED <<now, crashes, txn, decision, tokens>>
  BY DEF Create
<1>9. TypeOK'
  <2>1. [raise[r] EXCEPT !.at = "returned", !.id = i] \in Raising
    BY <1>2 DEF Raising
  <2>2. raise' \in [Raises -> Raising]
    BY <1>1, <1>2, <2>1
  <2> QED BY <1>6, <1>7, <1>8, <2>2 DEF ApprovalInv, TypeOK
<1>10. (\A d \in Decisions : Asked(d)') /\ Holding'
  BY <1>8 DEF ApprovalInv, Ledger, Asked, Holding
<1>11. Named(db)' /\ Named(disk)'
  BY <1>5, <1>6, <1>7 DEF ApprovalInv, Ledger, Named
<1>12. \A j \in Ids : disk'.req[j] = disk.req[j] \/ (j = i /\ disk'.req[i] = q)
  BY <1>6, <1>7 DEF ApprovalInv, Ledger, Uncommitted
<1>13. disk'.rows = disk.rows
  BY <1>6, <1>7 DEF ApprovalInv, Ledger, Uncommitted
<1>14. Uncommitted'
  <2>1. CASE txn = None
    <3>1. db' = disk'
      BY <1>7, <2>1
    <3> QED BY <1>8, <2>1, <3>1, ApprovalAssumption DEF Uncommitted
  <2>2. CASE txn # None
    <3>1. disk' = disk
      BY <1>7, <2>2
    <3>2. Fresh(i)'
      BY <1>1, <1>5, <1>6, <1>7, <3>1 DEF Fresh
    <3>3. \A j \in Ids \ {i} : (db.req[j] = disk.req[j] \/ Fresh(j) \/ Ruled(j))
                                 /\ db'.req[j] = db.req[j]
      BY <1>6, <1>7 DEF ApprovalInv, Ledger, Uncommitted
    <3>4. txn \in Decisions /\ decision[txn].outcome \in Verdicts
            => Ruled(decision[txn].id) /\ decision[txn].id \in Ids \ {i}
      BY <1>1 DEF ApprovalInv, Ledger, Uncommitted, Ruled, Holding, Asked
    <3>5. db'.rows = db.rows
      BY <1>6, <1>7
    <3> QED BY <1>8, <2>2, <3>1, <3>2, <3>3, <3>4, <3>5
            DEF ApprovalInv, Ledger, Uncommitted, Fresh, Ruled, Row
  <2> QED BY <2>1, <2>2
<1>15. Backed'
  BY <1>5, <1>6, <1>7, <1>8 DEF ApprovalInv, Ledger, Backed, Decided, Verdicts, Given
<1>16. DecisionIsEvidenced'
  BY <1>1, <1>5, <1>12, <1>13 DEF ApprovalInv, Ledger, DecisionIsEvidenced, Decided, Verdicts,
     VerdictRows
<1>17. AttemptIsRecorded'
  BY <1>8, <1>13 DEF ApprovalInv, Ledger, AttemptIsRecorded
<1>18. Minted'
  BY <1>1, <1>8, <1>12 DEF ApprovalInv, TypeOK, TokenTypes, Minted
<1> QED BY <1>9, <1>10, <1>11, <1>14, <1>15, <1>16, <1>17, <1>18 DEF ApprovalInv, Ledger

-----------------------------------------------------------------------------
(* the transaction of a decision *)

\* What a verdict of the gate means.
LEMMA GateIs ==
  ASSUME NEW r \in Requests, NEW s \in Subjects, NEW v \in Verdicts, now \in Nat
  PROVE  /\ Gate(r, s, v) \in Outcomes \ {"none"}
         /\ Gate(r, s, v) \in Verdicts =>
              /\ r.status = "pending" /\ MayDecide(s, r) /\ now < r.expires
<1>1. r.expires \in Nat
  BY RequestTypes
<1>2. Gate(r, s, v) \in {"not_pending", "self_approval", "expired", v}
  BY DEF Gate
<1>3. Gate(r, s, v) \in Verdicts => r.status = "pending" /\ MayDecide(s, r) /\ ~PastWindow(r, now)
  BY DEF Gate, Verdicts, Pending
<1> QED BY <1>1, <1>2, <1>3 DEF Outcomes, Verdicts, PastWindow

LEMMA DecideKeeps ==
  ASSUME ApprovalInv, NEW d \in Decisions, Decide(d)
  PROVE  ApprovalInv'
<1> DEFINE c == decision[d]
           r == db.req[c.id]
           o == IF c.outcome = "refused" THEN "refused" ELSE Gate(r, c.by, c.verdict)
           q == [r EXCEPT !.status = o, !.approver = c.by, !.decided = now]
           ruled == IF o \in Verdicts THEN now ELSE c.time
<1>1. c \in Deciding /\ c.at = "open" /\ c.id \in Ids /\ c.by \in Subjects /\ c.verdict \in Verdicts
  BY DEF ApprovalInv, TypeOK, Ledger, Asked, Decide
<1>2. r \in Requests /\ now \in Nat /\ db \in Stores
  BY <1>1, StoreTypes DEF ApprovalInv, TypeOK
<1>3. /\ o \in Outcomes \ {"none"}
      /\ o \in Verdicts => r.status = "pending" /\ MayDecide(c.by, r) /\ now < r.expires
  <2>1. CASE c.outcome = "refused"
    BY <2>1 DEF Outcomes, Verdicts
  <2>2. CASE c.outcome # "refused"
    BY <1>1, <1>2, <2>2, GateIs
  <2> QED BY <2>1, <2>2
<1>4. /\ txn = None /\ txn' = d
      /\ decision' = [decision EXCEPT ![d] =
           [@ EXCEPT !.at = "append", !.outcome = o, !.time = ruled]]
      /\ db' = IF o \in Verdicts THEN [db EXCEPT !.req[c.id] = q] ELSE db
      /\ UNCHANGED <<now, crashes, disk, raise, tokens>>
  BY DEF Decide
<1>5. db = disk /\ d # None
  BY <1>4, ApprovalAssumption DEF ApprovalInv, Ledger, Uncommitted
<1> HIDE DEF o
<1>6. /\ decision' \in [Decisions -> Deciding]
      /\ decision'[d].at = "append" /\ decision'[d].id = c.id /\ decision'[d].by = c.by
      /\ decision'[d].verdict = c.verdict /\ decision'[d].outcome = o
      /\ decision'[d].time = ruled
      /\ \A e \in Decisions \ {d} : decision'[e] = decision[e]
  <2>1. decision \in [Decisions -> Deciding]
    BY DEF ApprovalInv, TypeOK
  <2>2. [c EXCEPT !.at = "append", !.outcome = o, !.time = ruled] \in Deciding
    BY <1>1, <1>2, <1>3 DEF Deciding
  <2> QED BY <1>1, <1>4, <2>1, <2>2 DEF Deciding
<1>7. ASSUME o \in Verdicts
      PROVE  /\ q \in Requests /\ q.status = o /\ q.approver = c.by /\ q.decided = now
             /\ q.plan = r.plan /\ q.expires = r.expires
  BY <1>1, <1>2, <1>7 DEF Requests
<1> HIDE DEF q
<1>8. /\ db' \in Stores /\ db'.rows = db.rows
      /\ \A i \in Ids \ {c.id} : db'.req[i] = db.req[i]
      /\ o \in Verdicts => db'.req[c.id] = q
      /\ o \notin Verdicts => db' = db
  <2>1. CASE o \in Verdicts
    BY <1>1, <1>2, <1>4, <1>7, <2>1, RequestChanged
  <2>2. CASE o \notin Verdicts
    BY <1>2, <1>4, <2>2
  <2> QED BY <2>1, <2>2
<1>9. TypeOK'
  BY <1>4, <1>6, <1>8 DEF ApprovalInv, TypeOK
<1>10. (\A e \in Decisions : Asked(e)')
  BY <1>1, <1>3, <1>6 DEF ApprovalInv, Ledger, Asked
<1>11. Holding'
  BY <1>4, <1>5, <1>6, ApprovalAssumption DEF ApprovalInv, Ledger, Holding
<1>12. Named(db)' /\ Named(disk)'
  BY <1>3, <1>4, <1>7, <1>8 DEF ApprovalInv, Ledger, Named
<1>13. Uncommitted'
  <2>1. o \in Verdicts => Ruled(c.id)'
    BY <1>3, <1>4, <1>5, <1>6, <1>7, <1>8 DEF Ruled
  <2>2. \A i \in Ids : db'.req[i] = disk'.req[i] \/ (i = c.id /\ o \in Verdicts)
    BY <1>4, <1>5, <1>8
  <2>3. db'.rows = disk'.rows
    BY <1>4, <1>5, <1>8
  <2> QED BY <1>4, <1>5, <1>6, <2>1, <2>2, <2>3 DEF Uncommitted
<1>14. Backed'
  <2> SUFFICES ASSUME NEW i \in Ids, Decided(db'.req[i])
               PROVE  \E e \in Decisions : Given(e, i, db.req[i])'
    BY DEF Backed, Decided
  <2>1. CASE i = c.id /\ o \in Verdicts
    <3>1. MayDecide(q.approver, q) /\ q.decided < q.expires
      BY <1>3, <1>7, <2>1 DEF MayDecide
    <3> QED BY <1>6, <1>7, <1>8, <2>1, <3>1 DEF Given
  <2>2. CASE ~(i = c.id /\ o \in Verdicts)
    <3>1. db'.req[i] = db.req[i]
      BY <1>8, <2>2
    <3>2. PICK e \in Decisions : Given(e, i, db.req[i])
      BY <3>1 DEF ApprovalInv, Ledger, Backed
    <3>3. e # d
      BY <1>1, <3>1, <3>2 DEF ApprovalInv, Ledger, Asked, Given, Decided, Verdicts
    <3> QED BY <1>6, <3>1, <3>2, <3>3 DEF Given
  <2> QED BY <2>1, <2>2
<1>15. DecisionIsEvidenced'
  BY <1>4 DEF ApprovalInv, Ledger, DecisionIsEvidenced, VerdictRows
<1>16. AttemptIsRecorded'
  BY <1>1, <1>4, <1>6 DEF ApprovalInv, Ledger, AttemptIsRecorded
<1>17. Minted'
  <2> SUFFICES ASSUME NEW t \in tokens
               PROVE  \E e \in Decisions :
                        /\ decision'[e].id = t.id /\ decision'[e].outcome = "approved"
                        /\ decision'[e].at # "idle"
                        /\ decision'[e].by # CallerOf[t.plan] \/ decision'[e].by \in SuperAdmins
                        /\ decision'[e].time < t.exp
    BY <1>4 DEF ApprovalInv, Minted
  <2>1. PICK e \in Decisions :
          /\ decision[e].id = t.id /\ decision[e].outcome = "approved"
          /\ decision[e].at # "idle"
          /\ decision[e].by # CallerOf[t.plan] \/ decision[e].by \in SuperAdmins
          /\ decision[e].time < t.exp
    BY DEF ApprovalInv, Minted
  <2>2. e # d
    BY <1>1, <2>1 DEF ApprovalInv, Ledger, Asked
  <2> QED BY <1>6, <2>1, <2>2
<1> QED BY <1>9, <1>10, <1>11, <1>12, <1>13, <1>14, <1>15, <1>16, <1>17 DEF ApprovalInv, Ledger

\* What holds of the decisions when one of them only moves on.
LEMMA MovedDecision ==
  ASSUME ApprovalInv, NEW d \in Decisions,
         decision'[d].at # "idle" /\ decision[d].at \notin {"idle", "open"},
         decision'[d].id = decision[d].id, decision'[d].by = decision[d].by,
         decision'[d].verdict = decision[d].verdict, decision'[d].outcome = decision[d].outcome,
         decision'[d].time = decision[d].time,
         decision'[d].at \in {"append", "commit", "done", "failed", "lost"},
         decision[d].at \in {"append", "commit"},
         \A e \in Decisions \ {d} : decision'[e] = decision[e]
  PROVE  /\ \A e \in Decisions : Asked(e)'
         /\ \A e \in Decisions, i \in Ids, r \in Requests : Given(e, i, r) => Given(e, i, r)'
         /\ UNCHANGED <<disk, tokens>> => Minted'
BY DEF ApprovalInv, Ledger, Asked, Given, Minted

LEMMA AppendKeeps ==
  ASSUME ApprovalInv, NEW d \in Decisions, AppendDecision(d)
  PROVE  ApprovalInv'
<1>1. /\ decision[d].at = "append"
      /\ decision' = [decision EXCEPT ![d] = [@ EXCEPT !.at = "commit"]]
      /\ UNCHANGED <<now, crashes, disk, txn, raise, tokens>>
  BY DEF AppendDecision
<1>2. /\ decision' \in [Decisions -> Deciding]
      /\ decision'[d].at = "commit" /\ decision'[d].id = decision[d].id
      /\ decision'[d].by = decision[d].by /\ decision'[d].verdict = decision[d].verdict
      /\ decision'[d].outcome = decision[d].outcome /\ decision'[d].time = decision[d].time
      /\ \A e \in Decisions \ {d} : decision'[e] = decision[e]
  BY <1>1, DecisionMoves DEF ApprovalInv
<1>3. txn = d
  BY <1>1 DEF ApprovalInv, Ledger, Holding
<1>4. Row(d) \in Rows
  BY <1>1, RowIsRow DEF ApprovalInv, Ledger
<1>5. db' = [db EXCEPT !.rows = @ \cup {Row(d)}]
  BY DEF AppendDecision, Row
<1>6. db' \in Stores /\ db'.req = db.req /\ db'.rows = db.rows \cup {Row(d)}
  BY <1>4, <1>5, RowAdded DEF ApprovalInv, TypeOK
<1>7. TypeOK'
  BY <1>1, <1>2, <1>6 DEF ApprovalInv, TypeOK
<1>8. (\A e \in Decisions : Asked(e)') /\ Minted'
  BY <1>1, <1>2, MovedDecision
<1>9. Holding' /\ Named(db)' /\ Named(disk)'
  BY <1>1, <1>2, <1>3, <1>6 DEF ApprovalInv, Ledger, Holding, Named
<1>10. Uncommitted'
  <2>1. Row(d)' = Row(d)
    BY <1>2 DEF Row
  <2>2. \A i \in Ids : Ruled(i) => Ruled(i)'
    BY <1>1, <1>2, <1>3, <1>6 DEF Ruled
  <2>3. db.rows = disk.rows
    BY <1>1, <1>3 DEF ApprovalInv, Ledger, Uncommitted
  <2>4. d # None /\ decision[d].id = decision'[d].id
    BY <1>2, ApprovalAssumption
  <2>5. decision[d].outcome \in Verdicts => decision[d].id \in Ids
    BY <1>1 DEF ApprovalInv, Ledger, Asked
  <2> QED BY <1>1, <1>2, <1>3, <1>6, <2>1, <2>2, <2>3, <2>4, <2>5
          DEF ApprovalInv, Ledger, Uncommitted, Fresh
<1>11. Backed'
  <2>1. \A i \in Ids : db.req[i] \in Requests /\ db'.req[i] = db.req[i]
    BY <1>6, StoreTypes DEF ApprovalInv, TypeOK
  <2>2. \A e \in Decisions, i \in Ids, r \in Requests : Given(e, i, r) => Given(e, i, r)'
    BY <1>1, <1>2, MovedDecision
  <2> QED BY <2>1, <2>2 DEF ApprovalInv, Ledger, Backed, Given, Decided
<1>12. DecisionIsEvidenced' /\ AttemptIsRecorded'
  BY <1>1, <1>2 DEF ApprovalInv, Ledger, DecisionIsEvidenced, VerdictRows, AttemptIsRecorded
<1> QED BY <1>7, <1>8, <1>9, <1>10, <1>11, <1>12 DEF ApprovalInv, Ledger

LEMMA CommitKeeps ==
  ASSUME ApprovalInv, NEW d \in Decisions, CommitDecision(d)
  PROVE  ApprovalInv'
<1>1. /\ decision[d].at = "commit" /\ txn' = None /\ disk' = db
      /\ decision' = [decision EXCEPT ![d] = [@ EXCEPT !.at = "done"]]
      /\ UNCHANGED <<now, crashes, db, raise, tokens>>
  BY DEF CommitDecision
<1>2. /\ decision' \in [Decisions -> Deciding]
      /\ decision'[d].at = "done" /\ decision'[d].id = decision[d].id
      /\ decision'[d].by = decision[d].by /\ decision'[d].verdict = decision[d].verdict
      /\ decision'[d].outcome = decision[d].outcome /\ decision'[d].time = decision[d].time
      /\ \A e \in Decisions \ {d} : decision'[e] = decision[e]
  BY <1>1, DecisionMoves DEF ApprovalInv
<1>3. txn = d /\ d # None /\ decision[d].id \in Ids
  BY <1>1, ApprovalAssumption DEF ApprovalInv, Ledger, Holding, Asked
<1>4. /\ Row(d) \in Rows /\ Row(d).attempt = d /\ Row(d).id = decision[d].id
      /\ Row(d).by = decision[d].by /\ Row(d).outcome = decision[d].outcome
  BY <1>1, RowIsRow DEF ApprovalInv, Ledger
<1>5. disk'.rows = disk.rows \cup {Row(d)}
  BY <1>1, <1>3 DEF ApprovalInv, Ledger, Uncommitted
<1> HIDE DEF Row
<1>6. /\ \A i \in Ids : Ruled(i) => i = decision[d].id /\ decision[d].outcome \in Verdicts
      /\ decision[d].outcome \in Verdicts => Ruled(decision[d].id)
  BY <1>3 DEF ApprovalInv, Ledger, Uncommitted, Ruled
<1>7. TypeOK'
  BY <1>1, <1>2 DEF ApprovalInv, TypeOK
<1>8. (\A e \in Decisions : Asked(e)') /\ Holding' /\ Named(db)' /\ Named(disk)'
  <2>1. \A e \in Decisions : Asked(e)'
    BY <1>1, <1>2, MovedDecision
  <2>2. Holding'
    BY <1>1, <1>2, <1>3, ApprovalAssumption DEF ApprovalInv, Ledger, Holding
  <2> QED BY <1>1, <2>1, <2>2 DEF ApprovalInv, Ledger, Named
<1>9. Uncommitted'
  BY <1>1, ApprovalAssumption DEF Uncommitted
<1>10. Backed'
  <2>1. \A i \in Ids : db.req[i] \in Requests
    BY StoreTypes DEF ApprovalInv, TypeOK
  <2>2. \A e \in Decisions, i \in Ids, r \in Requests : Given(e, i, r) => Given(e, i, r)'
    BY <1>1, <1>2, MovedDecision
  <2> QED BY <1>1, <2>1, <2>2 DEF ApprovalInv, Ledger, Backed, Given, Decided
<1>11. DecisionIsEvidenced'
  <2> SUFFICES ASSUME NEW i \in Ids
               PROVE  LET r == disk'.req[i] IN
                      IF Decided(r)
                        THEN \E x \in VerdictRows(disk', i) :
                               /\ VerdictRows(disk', i) = {x}
                               /\ x.outcome = r.status /\ x.by = r.approver
                        ELSE VerdictRows(disk', i) = {}
    BY DEF DecisionIsEvidenced, VerdictRows, Decided
  <2>1. CASE i = decision[d].id /\ decision[d].outcome \in Verdicts
    <3>1. VerdictRows(disk, i) = {} /\ db.req[i].status = decision[d].outcome
            /\ db.req[i].approver = decision[d].by
      BY <1>3, <1>6, <2>1 DEF ApprovalInv, Ledger, DecisionIsEvidenced, Ruled, Decided, Verdicts
    <3>2. VerdictRows(disk', i) = {Row(d)}
      BY <1>4, <1>5, <2>1, <3>1 DEF VerdictRows
    <3> QED BY <1>1, <1>4, <2>1, <3>1, <3>2 DEF Decided
  <2>2. CASE ~(i = decision[d].id /\ decision[d].outcome \in Verdicts)
    <3>1. VerdictRows(disk', i) = VerdictRows(disk, i)
      BY <1>4, <1>5, <2>2 DEF VerdictRows
    <3>2. disk'.req[i] = disk.req[i] \/ ~(Decided(disk.req[i]) \/ Decided(disk'.req[i]))
      BY <1>1, <1>6, <2>2 DEF ApprovalInv, Ledger, Uncommitted, Fresh, Decided, Verdicts
    <3> QED BY <3>1, <3>2 DEF ApprovalInv, Ledger, DecisionIsEvidenced
  <2> QED BY <2>1, <2>2
<1>12. AttemptIsRecorded'
  <2> SUFFICES ASSUME NEW e \in Decisions
               PROVE  {x \in disk'.rows : x.attempt = e}
                        = IF decision'[e].at = "done"
                            THEN {[attempt |-> e, id |-> decision'[e].id, by |-> decision'[e].by,
                                   outcome |-> decision'[e].outcome]}
                            ELSE {}
    BY DEF AttemptIsRecorded
  <2>1. {x \in disk.rows : x.attempt = e}
          = IF decision[e].at = "done"
              THEN {[attempt |-> e, id |-> decision[e].id, by |-> decision[e].by,
                     outcome |-> decision[e].outcome]}
              ELSE {}
    BY DEF ApprovalInv, Ledger, AttemptIsRecorded
  <2>2. CASE e = d
    <3>1. {x \in disk'.rows : x.attempt = d} = {Row(d)}
      BY <1>1, <1>4, <1>5, <2>1, <2>2
    <3> QED BY <1>2, <2>2, <3>1 DEF Row
  <2>3. CASE e # d
    <3>1. {x \in disk'.rows : x.attempt = e} = {x \in disk.rows : x.attempt = e}
      BY <1>4, <1>5, <2>3
    <3> QED BY <1>2, <2>1, <2>3, <3>1
  <2> QED BY <2>2, <2>3
<1>13. Minted'
  <2>1. \A t \in tokens :
          /\ t.id \in Ids
          /\ disk'.req[t.id].status # "none"
          /\ disk'.req[t.id].plan = disk.req[t.id].plan
          /\ disk'.req[t.id].expires = disk.req[t.id].expires
    <3> SUFFICES ASSUME NEW t \in tokens
                 PROVE  /\ t.id \in Ids
                        /\ disk'.req[t.id].status # "none"
                        /\ disk'.req[t.id].plan = disk.req[t.id].plan
                        /\ disk'.req[t.id].expires = disk.req[t.id].expires
      OBVIOUS
    <3>1. t.id \in Ids /\ disk.req[t.id].status # "none"
      BY DEF ApprovalInv, TypeOK, TokenTypes, Minted
    <3>2. db.req[t.id] = disk.req[t.id] \/ Ruled(t.id)
      BY <3>1 DEF ApprovalInv, Ledger, Uncommitted, Fresh
    <3> QED BY <1>1, <3>1, <3>2 DEF Ruled, Verdicts
  <2>2. \A t \in tokens : \E e \in Decisions :
          /\ decision'[e].id = t.id /\ decision'[e].outcome = "approved"
          /\ decision'[e].at # "idle"
          /\ decision'[e].by # CallerOf[t.plan] \/ decision'[e].by \in SuperAdmins
          /\ decision'[e].time < t.exp
    <3> SUFFICES ASSUME NEW t \in tokens
                 PROVE  \E e \in Decisions :
                          /\ decision'[e].id = t.id /\ decision'[e].outcome = "approved"
                          /\ decision'[e].at # "idle"
                          /\ decision'[e].by # CallerOf[t.plan] \/ decision'[e].by \in SuperAdmins
                          /\ decision'[e].time < t.exp
      OBVIOUS
    <3>1. PICK e \in Decisions :
          /\ decision[e].id = t.id /\ decision[e].outcome = "approved"
          /\ decision[e].at # "idle"
          /\ decision[e].by # CallerOf[t.plan] \/ decision[e].by \in SuperAdmins
          /\ decision[e].time < t.exp
      BY DEF ApprovalInv, Minted
    <3>2. decision'[e].id = decision[e].id /\ decision'[e].outcome = decision[e].outcome
            /\ decision'[e].time = decision[e].time /\ decision'[e].by = decision[e].by /\ decision'[e].at # "idle"
      BY <1>2, <3>1
    <3> QED BY <3>1, <3>2
  <2> QED BY <1>1, <2>1, <2>2 DEF ApprovalInv, Minted
<1> QED BY <1>7, <1>8, <1>9, <1>10, <1>11, <1>12, <1>13 DEF ApprovalInv, Ledger

-----------------------------------------------------------------------------
(* rollbacks, other transactions and restarts *)

\* Whatever a rollback takes away, the committed store stands on its own.
LEMMA Restored ==
  ASSUME ApprovalInv, db' = disk, disk' = disk, txn' = None, tokens' = tokens,
         \A d \in Decisions :
           /\ decision'[d].id = decision[d].id /\ decision'[d].by = decision[d].by
           /\ decision'[d].verdict = decision[d].verdict
           /\ decision'[d].outcome = decision[d].outcome /\ decision'[d].time = decision[d].time
           /\ \/ decision'[d].at = decision[d].at /\ decision[d].at \notin {"append", "commit"}
              \/ /\ decision'[d].at \in {"failed", "lost"}
                 /\ decision[d].at \in {"open", "append", "commit"}
  PROVE  Ledger' /\ Minted'
<1>1. (\A d \in Decisions : Asked(d)')
  BY DEF ApprovalInv, Ledger, Asked
<1>2. Holding'
  BY ApprovalAssumption DEF ApprovalInv, Ledger, Holding
<1>3. Named(db)' /\ Named(disk)'
  BY DEF ApprovalInv, Ledger, Named
<1>4. Uncommitted'
  BY ApprovalAssumption DEF Uncommitted
<1>5. Backed'
  <2> SUFFICES ASSUME NEW i \in Ids, Decided(disk.req[i])
               PROVE  \E d \in Decisions : Given(d, i, disk.req[i])'
    BY DEF Backed, Decided, Given
  <2>1. db.req[i] = disk.req[i]
    BY CommittedIsShown DEF ApprovalInv, Ledger, Decided, Verdicts
  <2>2. PICK d \in Decisions : Given(d, i, disk.req[i])
    BY <2>1 DEF ApprovalInv, Ledger, Backed
  <2> QED BY <2>2 DEF Given
<1>6. DecisionIsEvidenced'
  BY DEF ApprovalInv, Ledger, DecisionIsEvidenced, VerdictRows
<1>7. AttemptIsRecorded'
  <2> SUFFICES ASSUME NEW d \in Decisions
               PROVE  {x \in disk.rows : x.attempt = d}
                        = IF decision'[d].at = "done"
                            THEN {[attempt |-> d, id |-> decision[d].id, by |-> decision[d].by,
                                   outcome |-> decision[d].outcome]}
                            ELSE {}
    BY DEF AttemptIsRecorded
  <2>1. decision'[d].at = "done" <=> decision[d].at = "done"
    OBVIOUS
  <2> QED BY <2>1 DEF ApprovalInv, Ledger, AttemptIsRecorded
<1>8. Minted'
  <2> SUFFICES ASSUME NEW t \in tokens
               PROVE  \E e \in Decisions :
                        /\ decision'[e].id = t.id /\ decision'[e].outcome = "approved"
                        /\ decision'[e].at # "idle"
                        /\ decision'[e].by # CallerOf[t.plan] \/ decision'[e].by \in SuperAdmins
                        /\ decision'[e].time < t.exp
    BY DEF ApprovalInv, Minted
  <2>1. PICK e \in Decisions :
          /\ decision[e].id = t.id /\ decision[e].outcome = "approved"
          /\ decision[e].at # "idle"
          /\ decision[e].by # CallerOf[t.plan] \/ decision[e].by \in SuperAdmins
          /\ decision[e].time < t.exp
    BY DEF ApprovalInv, Minted
  <2> QED BY <2>1
<1> QED BY <1>1, <1>2, <1>3, <1>4, <1>5, <1>6, <1>7, <1>8 DEF Ledger

LEMMA FailureKeeps ==
  ASSUME ApprovalInv, NEW d \in Decisions, DecisionFails(d)
  PROVE  ApprovalInv'
<1>1. /\ decision[d].at \in {"append", "commit"} /\ txn' = None /\ db' = disk
      /\ decision' = [decision EXCEPT ![d] = [@ EXCEPT !.at = "failed"]]
      /\ UNCHANGED <<now, crashes, disk, raise, tokens>>
  BY DEF DecisionFails, Undone
<1>2. /\ decision' \in [Decisions -> Deciding]
      /\ decision'[d].at = "failed" /\ decision'[d].id = decision[d].id
      /\ decision'[d].by = decision[d].by /\ decision'[d].verdict = decision[d].verdict
      /\ decision'[d].outcome = decision[d].outcome /\ decision'[d].time = decision[d].time
      /\ \A e \in Decisions \ {d} : decision'[e] = decision[e]
  BY <1>1, DecisionMoves DEF ApprovalInv
<1>3. \A e \in Decisions \ {d} : decision[e].at \notin {"append", "commit"}
  BY <1>1 DEF ApprovalInv, Ledger, Holding
<1>4. Ledger' /\ Minted'
  BY <1>1, <1>2, <1>3, Restored
<1> QED BY <1>1, <1>2, <1>4 DEF ApprovalInv, TypeOK

LEMMA CrashKeeps ==
  ASSUME ApprovalInv, Crash
  PROVE  ApprovalInv'
<1>1. decision \in [Decisions -> Deciding] /\ raise \in [Raises -> Raising]
  BY DEF ApprovalInv, TypeOK
<1>2. \A d \in Decisions :
        [decision[d] EXCEPT !.at = "lost"] \in Deciding
          /\ [decision[d] EXCEPT !.at = "lost"].at = "lost"
          /\ [decision[d] EXCEPT !.at = "lost"].id = decision[d].id
          /\ [decision[d] EXCEPT !.at = "lost"].by = decision[d].by
          /\ [decision[d] EXCEPT !.at = "lost"].verdict = decision[d].verdict
          /\ [decision[d] EXCEPT !.at = "lost"].outcome = decision[d].outcome
          /\ [decision[d] EXCEPT !.at = "lost"].time = decision[d].time
  BY <1>1 DEF Deciding
<1>3. \A r \in Raises : [raise[r] EXCEPT !.at = "lost"] \in Raising
  BY <1>1 DEF Raising
<1>4. decision' \in [Decisions -> Deciding] /\ raise' \in [Raises -> Raising]
  BY <1>1, <1>2, <1>3 DEF Crash
<1>5. crashes' \in Nat /\ txn' = None /\ db' = disk
        /\ UNCHANGED <<now, disk, tokens>>
  BY DEF ApprovalInv, TypeOK, Crash
<1>6. \A d \in Decisions :
        decision'[d] = IF decision[d].at \in {"open", "append", "commit"}
                         THEN [decision[d] EXCEPT !.at = "lost"] ELSE decision[d]
  BY DEF Crash
<1>7. \A d \in Decisions :
        /\ decision'[d].id = decision[d].id /\ decision'[d].by = decision[d].by
        /\ decision'[d].verdict = decision[d].verdict
        /\ decision'[d].outcome = decision[d].outcome /\ decision'[d].time = decision[d].time
        /\ \/ decision'[d].at = decision[d].at /\ decision[d].at \notin {"append", "commit"}
           \/ /\ decision'[d].at \in {"failed", "lost"}
              /\ decision[d].at \in {"open", "append", "commit"}
  <2> SUFFICES ASSUME NEW d \in Decisions
               PROVE  /\ decision'[d].id = decision[d].id /\ decision'[d].by = decision[d].by
                      /\ decision'[d].verdict = decision[d].verdict
                      /\ decision'[d].outcome = decision[d].outcome
                      /\ decision'[d].time = decision[d].time
                      /\ \/ /\ decision'[d].at = decision[d].at
                            /\ decision[d].at \notin {"append", "commit"}
                         \/ /\ decision'[d].at \in {"failed", "lost"}
                            /\ decision[d].at \in {"open", "append", "commit"}
    OBVIOUS
  <2>1. CASE decision[d].at \in {"open", "append", "commit"}
    <3>1. decision'[d] = [decision[d] EXCEPT !.at = "lost"]
      BY <1>6, <2>1
    <3> QED BY <1>2, <2>1, <3>1
  <2>2. CASE decision[d].at \notin {"open", "append", "commit"}
    <3>1. decision'[d] = decision[d]
      BY <1>6, <2>2
    <3> QED BY <2>2, <3>1
  <2> QED BY <2>1, <2>2
<1>8. Ledger' /\ Minted'
  BY <1>5, <1>7, Restored
<1> QED BY <1>4, <1>5, <1>8 DEF ApprovalInv, TypeOK

LEMMA OthersKeep ==
  ASSUME ApprovalInv, OtherOpens \/ OtherEnds
  PROVE  ApprovalInv'
<1>1. UNCHANGED <<now, crashes, raise, decision, tokens>>
  BY DEF OtherOpens, OtherEnds
<1>2. Other \notin Decisions /\ Other # None /\ None \notin Decisions
  BY ApprovalAssumption
<1>3. CASE OtherOpens
  <2>1. txn = None /\ txn' = Other /\ db = disk /\ UNCHANGED <<db, disk>>
    BY <1>3 DEF ApprovalInv, Ledger, Uncommitted, OtherOpens
  <2>2. Holding' /\ Uncommitted'
    BY <1>1, <1>2, <2>1 DEF ApprovalInv, Ledger, Holding, Uncommitted
  <2> QED BY <1>1, <2>1, <2>2 DEF ApprovalInv, TypeOK, Ledger, Asked, Named, Backed, Given,
          DecisionIsEvidenced, VerdictRows, AttemptIsRecorded, Minted
<1>4. CASE OtherEnds /\ disk' = db /\ db' = db
  <2>1. txn = Other /\ txn' = None /\ disk'.rows = disk.rows
    BY <1>2, <1>4 DEF ApprovalInv, Ledger, Uncommitted, OtherEnds
  <2>2. \A i \in Ids : disk'.req[i] = disk.req[i]
                       \/ (disk.req[i].status = "none" /\ disk'.req[i].status = "pending")
    BY <1>2, <1>4, <2>1 DEF ApprovalInv, Ledger, Uncommitted, Fresh, Ruled
  <2>3. Holding' /\ Uncommitted'
    BY <1>1, <1>2, <1>4, <2>1 DEF ApprovalInv, Ledger, Holding, Uncommitted
  <2>4. DecisionIsEvidenced' /\ AttemptIsRecorded'
    BY <1>1, <2>1, <2>2 DEF ApprovalInv, Ledger, DecisionIsEvidenced, VerdictRows, Decided,
       Verdicts, AttemptIsRecorded
  <2>5. Minted'
    BY <1>1, <2>2 DEF ApprovalInv, TypeOK, TokenTypes, Minted
  <2>6. TypeOK' /\ Named(db)' /\ Named(disk)' /\ Backed' /\ \A d \in Decisions : Asked(d)'
    BY <1>1, <1>4, <2>1 DEF ApprovalInv, TypeOK, Ledger, Named, Backed, Given, Asked
  <2> QED BY <2>3, <2>4, <2>5, <2>6 DEF ApprovalInv, Ledger
<1>5. CASE OtherEnds /\ db' = disk /\ disk' = disk
  <2>1. txn' = None /\ \A d \in Decisions : decision[d].at \notin {"append", "commit"}
    BY <1>2, <1>5 DEF ApprovalInv, Ledger, Holding, OtherEnds
  <2>2. Ledger' /\ Minted'
    BY <1>1, <1>5, <2>1, Restored
  <2> QED BY <1>1, <1>5, <2>1, <2>2 DEF ApprovalInv, TypeOK
<1> QED BY <1>3, <1>4, <1>5 DEF OtherEnds

-----------------------------------------------------------------------------
(* the theorems *)

LEMMA InvInit == Init => ApprovalInv
<1> SUFFICES ASSUME Init PROVE ApprovalInv
  OBVIOUS
<1> DEFINE s == [req |-> [i \in Ids |-> NoRequest], rows |-> {}]
<1>1. /\ db = s /\ disk = s /\ txn = None /\ tokens = {}
      /\ now = 0 /\ crashes = 0
      /\ raise = [r \in Raises |-> [at |-> "idle", time |-> 0, id |-> None]]
      /\ decision = [d \in Decisions |->
           [at |-> "idle", id |-> None, by |-> None, verdict |-> "none", outcome |-> "none",
            time |-> 0]]
  BY DEF Init
<1>2. NoRequest \in Requests /\ NoRequest.status = "none"
  BY DEF NoRequest, Requests
<1>3. s \in Stores /\ s.rows = {} /\ \A i \in Ids : s.req[i].status = "none"
  BY <1>2 DEF Stores
<1> HIDE DEF s
<1>4. TypeOK
  BY <1>1, <1>3 DEF TypeOK, Raising, Deciding, Outcomes
<1>5. /\ \A d \in Decisions : Asked(d)
      /\ Holding /\ Named(db) /\ Named(disk) /\ Uncommitted /\ Backed
  BY <1>1, <1>3, ApprovalAssumption
     DEF Asked, Holding, Named, Uncommitted, Backed, Decided, Verdicts
<1>6. DecisionIsEvidenced /\ AttemptIsRecorded /\ Minted
  BY <1>1, <1>3 DEF DecisionIsEvidenced, VerdictRows, Decided, Verdicts, AttemptIsRecorded, Minted
<1> QED BY <1>4, <1>5, <1>6 DEF ApprovalInv, Ledger

LEMMA InvStep == ApprovalInv /\ [Next]_vars => ApprovalInv'
<1> SUFFICES ASSUME ApprovalInv, [Next]_vars PROVE ApprovalInv'
  OBVIOUS
<1>1. ASSUME NEW r \in Raises, StartRaise(r) \/ RaiseStep(r) PROVE ApprovalInv'
  BY <1>1, RaiseKeeps, CreateKeeps DEF RaiseStep
<1>2. ASSUME NEW d \in Decisions, NEW i \in Ids, NEW s \in Subjects, NEW v \in Verdicts,
             StartDecision(d, i, s, v)
      PROVE  ApprovalInv'
  BY <1>2, StartDecisionKeeps
<1>3. ASSUME NEW d \in Decisions, DecisionStep(d) PROVE ApprovalInv'
  BY <1>3, DecideKeeps, AppendKeeps, CommitKeeps, FailureKeeps DEF DecisionStep
<1>4. CASE (\E i \in Ids : CollectToken(i)) \/ Tick
  BY <1>4, QuietKeeps
<1>5. CASE OtherOpens \/ OtherEnds
  BY <1>5, OthersKeep
<1>6. CASE Crash
  BY <1>6, CrashKeeps
<1>7. CASE UNCHANGED vars
  <2>1. Ledger' /\ Minted'
    BY <1>7, LedgerKept, MintedKept DEF ApprovalInv, vars
  <2> QED BY <1>7, <2>1 DEF ApprovalInv, TypeOK, vars
<1> QED BY <1>1, <1>2, <1>3, <1>4, <1>5, <1>6, <1>7 DEF Next

\* The inductive invariant, from which the others follow.
THEOREM ApprovalInvariance == Spec => []ApprovalInv
BY InvInit, InvStep, PTL DEF Spec

\* Every reachable state of the queue is well typed.
THEOREM ApprovalTypeCorrect == Spec => []TypeOK
<1>1. ApprovalInv => TypeOK
  BY DEF ApprovalInv
<1> QED BY <1>1, ApprovalInvariance, PTL

\* No decision stands without its row, nor a row without its decision, whatever
\* fails between the update, the append and the commit (decideApproval).
THEOREM DecisionsAreEvidenced == Spec => []DecisionIsEvidenced
<1>1. ApprovalInv => DecisionIsEvidenced
  BY DEF ApprovalInv, Ledger
<1> QED BY <1>1, ApprovalInvariance, PTL

\* An answered attempt has its one row, and no other attempt has any.
THEOREM AttemptsAreRecorded == Spec => []AttemptIsRecorded
<1>1. ApprovalInv => AttemptIsRecorded
  BY DEF ApprovalInv, Ledger
<1> QED BY <1>1, ApprovalInvariance, PTL

\* What is decided was decided by somebody else than the requester, or by a super
\* admin, before the window closed (the gate's decide).
THEOREM DecidedProperly == Spec => []DecidedByAnotherInTime
<1>1. ApprovalInv => DecidedByAnotherInTime
  <2> SUFFICES ASSUME ApprovalInv, NEW i \in Ids, Decided(disk.req[i])
               PROVE  LET r == disk.req[i] IN
                        /\ r.approver # CallerOf[r.plan] \/ r.approver \in SuperAdmins
                        /\ r.decided < r.expires
    BY DEF DecidedByAnotherInTime
  <2>1. db.req[i] = disk.req[i]
    BY CommittedIsShown DEF ApprovalInv, Ledger, Decided, Verdicts
  <2>2. PICK d \in Decisions : Given(d, i, disk.req[i])
    BY <2>1 DEF ApprovalInv, Ledger, Backed
  <2> QED BY <2>2 DEF Given, MayDecide
<1> QED BY <1>1, ApprovalInvariance, PTL

\* Each token has behind it an approval that the gate accepted in time, by
\* somebody other than the requester or by a super admin, and a request has one
\* token; the approval itself may have been undone since.
THEOREM TokensMeanApproval == Spec => []TokenMeansApproved
<1>1. ApprovalInv => TokenMeansApproved
  <2> SUFFICES ASSUME ApprovalInv PROVE TokenMeansApproved
    OBVIOUS
  <2>1. \A t, u \in tokens : t.id = u.id => t = u
    BY DEF ApprovalInv, Minted, TypeOK, TokenTypes
  <2>2. \A t \in tokens : \E d \in Decisions :
          /\ decision[d].id = t.id /\ decision[d].outcome = "approved"
          /\ decision[d].by # CallerOf[t.plan] \/ decision[d].by \in SuperAdmins
          /\ decision[d].time < t.exp
    BY DEF ApprovalInv, Minted
  <2> QED BY <2>1, <2>2 DEF TokenMeansApproved
<1> QED BY <1>1, ApprovalInvariance, PTL

\* A committed decision is never changed: the only steps that write the committed
\* store are a bare insert of a new request and the end of a transaction.
THEOREM DecisionsAreFinal == Spec => DecisionIsFinal
<1>1. ApprovalInv /\ [Next]_vars
        => [\A i \in Ids : Decided(disk.req[i]) => disk'.req[i] = disk.req[i]]_vars
  <2> SUFFICES ASSUME ApprovalInv, [Next]_vars, NEW i \in Ids, Decided(disk.req[i])
               PROVE  disk'.req[i] = disk.req[i]
    OBVIOUS
  <2>1. db.req[i] = disk.req[i] /\ disk.req[i].status # "none"
    BY CommittedIsShown DEF ApprovalInv, Ledger, Decided, Verdicts
  <2>2. ASSUME NEW r \in Raises, Create(r) PROVE disk'.req[i] = disk.req[i]
    <3> DEFINE q == [status |-> "pending", plan |-> PlanOf[r], expires |-> raise[r].time + TTL,
                     approver |-> None, decided |-> 0]
    <3>1. PICK j \in Ids : db.req[j].status = "none" /\ Run([db EXCEPT !.req[j] = q])
      BY <2>2 DEF Create
    <3>2. db \in Stores /\ j # i
      BY <2>1, <3>1 DEF ApprovalInv, TypeOK
    <3>3. [db EXCEPT !.req[j] = q].req[i] = db.req[i]
      BY <3>2 DEF Stores
    <3> QED BY <2>1, <3>1, <3>3 DEF Run
  <2>3. CASE disk' = disk \/ disk' = db
    BY <2>1, <2>3
  <2>4. ASSUME NEW r \in Raises, StartRaise(r) \/ ListPending(r) PROVE disk' = disk
    BY <2>4 DEF StartRaise, ListPending
  <2>5. ASSUME NEW d \in Decisions,
               DecisionStep(d)
                 \/ \E j \in Ids, s \in Subjects, v \in Verdicts : StartDecision(d, j, s, v)
        PROVE  disk' = disk \/ disk' = db
    BY <2>5 DEF DecisionStep, StartDecision, Decide, AppendDecision, CommitDecision, DecisionFails
  <2>6. ASSUME (\E j \in Ids : CollectToken(j)) \/ Tick \/ Crash
                 \/ OtherOpens \/ OtherEnds \/ UNCHANGED vars
        PROVE  disk' = disk \/ disk' = db
    BY <2>6 DEF CollectToken, Tick, Crash, OtherOpens, OtherEnds, vars
  <2> QED BY <2>2, <2>3, <2>4, <2>5, <2>6 DEF Next, RaiseStep
<1> QED BY <1>1, ApprovalInvariance, PTL DEF Spec, DecisionIsFinal
=============================================================================
