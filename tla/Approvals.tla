------------------------------- MODULE Approvals -------------------------------
(***************************************************************************)
(* The approval queue: a plan call raises a request (stage 6g), a human    *)
(* decides it (POST /approvals/{id}/decision), the requester collects the  *)
(* confirm token (status).  What the token is good for is in WritePath.    *)
(*                                                                         *)
(* Every part uses the gateway's single store connection.  A decision is a *)
(* transaction that spans awaits, as is the execute transaction of any     *)
(* other call; the queue's reads, and the insert of a new request, are     *)
(* statements outside a transaction, so they see and join whatever is open.*)
(***************************************************************************)
EXTENDS Integers, FiniteSets

CONSTANTS
  Ids,            \* approval ids
  Plans,          \* a plan: requester, tool version, arguments, plan hash
  Subjects,       \* humans
  CallerOf,       \* [Plans -> Subjects], the requester
  SuperAdmins,    \* those allowed to decide their own requests
  Raises,         \* plan calls that need approval
  PlanOf,         \* [Raises -> Plans]
  Decisions,      \* decision requests
  TTL,            \* the approval window
  MaxTime,        \* bound on the clock
  MaxCrashes,     \* bound on process restarts
  Other,          \* stands for any other call's open transaction
  None

ASSUME ApprovalAssumption ==
  /\ CallerOf \in [Plans -> Subjects]
  /\ SuperAdmins \subseteq Subjects
  /\ PlanOf \in [Raises -> Plans]
  /\ TTL \in Nat \ {0}
  /\ MaxTime \in Nat /\ MaxCrashes \in Nat
  /\ None \notin Ids \cup Plans \cup Subjects \cup Decisions \cup {Other}
  /\ Other \notin Decisions

VARIABLES
  now, crashes,
  db, disk,    \* the connection's view of the store, and the committed store
  txn,         \* the decision whose transaction is open, Other, or None
  raise,       \* each plan call: where it is, when it came, the id it holds
  decision,    \* each decision request: where it is, what it asks, its outcome
  tokens       \* confirm tokens the requester holds

vars == <<now, crashes, db, disk, txn, raise, decision, tokens>>

-----------------------------------------------------------------------------
Verdicts == {"approved", "rejected"}

Requests == [status : {"none", "pending"} \cup Verdicts, plan : Plans \cup {None},
             expires : Nat, approver : Subjects \cup {None}, decided : Nat]

NoRequest == [status |-> "none", plan |-> None, expires |-> 0, approver |-> None, decided |-> 0]

Outcomes == Verdicts \cup {"none", "self_approval", "expired", "not_pending", "refused"}

\* An approve row of the audit trail: the attempt, on which request, by whom.
Rows == [attempt : Decisions, id : Ids, by : Subjects, outcome : Outcomes \ {"none"}]

Stores == [req : [Ids -> Requests], rows : SUBSET Rows]

\* A token minted from a request carries its id as nonce and its window.
TokenTypes == [id : Ids, plan : Plans, exp : Nat]

Raising == [at : {"idle", "list", "create", "returned", "lost"}, time : Nat,
            id : Ids \cup {None}]

Deciding == [at : {"idle", "open", "append", "commit", "done", "failed", "lost"},
             id : Ids \cup {None}, by : Subjects \cup {None},
             verdict : Verdicts \cup {"none"}, outcome : Outcomes,
             time : Nat]  \* the gate's clock when it gave the verdict

PastWindow(r, time) == r.expires <= time

Pending(r) == r.status = "pending"

\* A statement outside a transaction: committed at once if none is open, part
\* of whichever is open otherwise.
Run(s) == db' = s /\ disk' = IF txn = None THEN s ELSE disk

-----------------------------------------------------------------------------
\* raise(): look for a pending request of the same plan, resume it or create.

StartRaise(r) ==
  /\ raise[r].at = "idle"
  /\ raise' = [raise EXCEPT ![r] = [@ EXCEPT !.at = "list", !.time = now]]
  /\ UNCHANGED <<now, crashes, db, disk, txn, decision, tokens>>

Resumable(r) ==
  {i \in Ids : /\ Pending(db.req[i]) /\ db.req[i].plan = PlanOf[r]
               /\ ~PastWindow(db.req[i], raise[r].time)}

\* listPending() answers the oldest first: a request made earlier closes earlier.
ListPending(r) ==
  /\ raise[r].at = "list"
  /\ \/ \E i \in Resumable(r) :
          /\ \A j \in Resumable(r) : db.req[i].expires <= db.req[j].expires
          /\ raise' = [raise EXCEPT ![r] = [@ EXCEPT !.at = "returned", !.id = i]]
     \/ /\ Resumable(r) = {}
        /\ raise' = [raise EXCEPT ![r] = [@ EXCEPT !.at = "create"]]
  /\ UNCHANGED <<now, crashes, db, disk, txn, decision, tokens>>

Create(r) ==
  /\ raise[r].at = "create"
  /\ \E i \in Ids :
       /\ db.req[i].status = "none" /\ disk.req[i].status = "none"
       /\ \A q \in Raises : raise[q].id # i
       /\ Run([db EXCEPT !.req[i] =
                [status |-> "pending", plan |-> PlanOf[r], expires |-> raise[r].time + TTL,
                 approver |-> None, decided |-> 0]])
       /\ raise' = [raise EXCEPT ![r] = [@ EXCEPT !.at = "returned", !.id = i]]
  /\ UNCHANGED <<now, crashes, txn, decision, tokens>>

-----------------------------------------------------------------------------
\* decideApproval(): one transaction, the gate's decision and its audit row.

\* The checks before the transaction: a consumer that may write, a request that
\* is there and that the actor may read, a stored plan that is the one approved.
StartDecision(d, i, s, v) ==
  /\ decision[d].at = "idle"
  /\ \E o \in IF db.req[i].status = "none" THEN {"refused"} ELSE {"none", "refused"} :
       decision' = [decision EXCEPT ![d] =
                     [at |-> "open", id |-> i, by |-> s, verdict |-> v, outcome |-> o, time |-> 0]]
  /\ UNCHANGED <<now, crashes, db, disk, txn, raise, tokens>>

\* What the gate answers, in the order it checks.
AllowSelf(s, r) == TRUE
MayDecide(s, r) == s # CallerOf[r.plan] \/ s \in SuperAdmins

GateIgnoringStatus(r, s, v) ==
  IF r.status = "none" THEN "not_pending"
  ELSE IF ~MayDecide(s, r) THEN "self_approval"
  ELSE IF PastWindow(r, now) THEN "expired" ELSE v
GateIgnoringWindow(r, s, v) ==
  IF r.status = "none" THEN "not_pending"
  ELSE IF ~MayDecide(s, r) THEN "self_approval"
  ELSE IF ~Pending(r) THEN "not_pending" ELSE v
Gate(r, s, v) ==
  IF r.status = "none" THEN "not_pending"
  ELSE IF ~MayDecide(s, r) THEN "self_approval"
  ELSE IF PastWindow(r, now) THEN "expired"
  ELSE IF ~Pending(r) THEN "not_pending" ELSE v

\* The transaction opens; a refused attempt only has its row to append, the
\* others are the gate's to decide.
Decide(d) ==
  LET c == decision[d]
      r == db.req[c.id]
      o == IF c.outcome = "refused" THEN "refused" ELSE Gate(r, c.by, c.verdict)
  IN /\ c.at = "open"
     /\ txn = None
     /\ txn' = d
     /\ decision' = [decision EXCEPT ![d] =
          [@ EXCEPT !.at = "append", !.outcome = o,
                    !.time = IF o \in Verdicts THEN now ELSE c.time]]
     /\ db' = IF o \in Verdicts
                THEN [db EXCEPT !.req[c.id] =
                       [r EXCEPT !.status = o, !.approver = c.by, !.decided = now]]
                ELSE db
     /\ UNCHANGED <<now, crashes, disk, raise, tokens>>

AppendDecision(d) ==
  LET c == decision[d]
  IN /\ c.at = "append"
     /\ db' = [db EXCEPT !.rows = @ \cup
                {[attempt |-> d, id |-> c.id, by |-> c.by, outcome |-> c.outcome]}]
     /\ decision' = [decision EXCEPT ![d] = [@ EXCEPT !.at = "commit"]]
     /\ UNCHANGED <<now, crashes, disk, txn, raise, tokens>>

CommitDecision(d) ==
  /\ decision[d].at = "commit"
  /\ txn' = None
  /\ disk' = db
  /\ decision' = [decision EXCEPT ![d] = [@ EXCEPT !.at = "done"]]
  /\ UNCHANGED <<now, crashes, db, raise, tokens>>

\* The append or the commit fails: everything in the transaction is undone.
KeepDecided == [db EXCEPT !.rows = disk.rows]
KeepRows == [disk EXCEPT !.rows = db.rows]
Undone == disk
DecisionFails(d) ==
  /\ decision[d].at \in {"append", "commit"}
  /\ txn' = None
  /\ db' = Undone
  /\ decision' = [decision EXCEPT ![d] = [@ EXCEPT !.at = "failed"]]
  /\ UNCHANGED <<now, crashes, disk, raise, tokens>>

-----------------------------------------------------------------------------
\* status(): a request read as approved gives its requester the token.

CollectableOnceDecided(r) == r.status \in Verdicts
Collectable(r) == r.status = "approved"

TokenOf(i) == [id |-> i, plan |-> db.req[i].plan, exp |-> db.req[i].expires]

CollectToken(i) ==
  /\ Collectable(db.req[i])
  /\ TokenOf(i) \notin tokens
  /\ tokens' = tokens \cup {TokenOf(i)}
  /\ UNCHANGED <<now, crashes, db, disk, txn, raise, decision>>

-----------------------------------------------------------------------------
\* Any other call's transaction on the connection, and the environment.

OtherOpens ==
  /\ txn = None /\ txn' = Other
  /\ UNCHANGED <<now, crashes, db, disk, raise, decision, tokens>>

OtherEnds ==
  /\ txn = Other /\ txn' = None
  /\ \/ disk' = db /\ UNCHANGED db
     \/ db' = disk /\ UNCHANGED disk
  /\ UNCHANGED <<now, crashes, raise, decision, tokens>>

Tick ==
  /\ now < MaxTime
  /\ now' = now + 1
  /\ UNCHANGED <<crashes, db, disk, txn, raise, decision, tokens>>

Crash ==
  /\ crashes < MaxCrashes
  /\ crashes' = crashes + 1
  /\ db' = disk
  /\ txn' = None
  /\ raise' = [r \in Raises |-> IF raise[r].at \in {"list", "create"}
                                  THEN [raise[r] EXCEPT !.at = "lost"] ELSE raise[r]]
  /\ decision' = [d \in Decisions |-> IF decision[d].at \in {"open", "append", "commit"}
                                        THEN [decision[d] EXCEPT !.at = "lost"] ELSE decision[d]]
  /\ UNCHANGED <<now, disk, tokens>>

Init ==
  /\ now = 0 /\ crashes = 0
  /\ db = [req |-> [i \in Ids |-> NoRequest], rows |-> {}]
  /\ disk = db
  /\ txn = None
  /\ raise = [r \in Raises |-> [at |-> "idle", time |-> 0, id |-> None]]
  /\ decision = [d \in Decisions |->
       [at |-> "idle", id |-> None, by |-> None, verdict |-> "none", outcome |-> "none",
        time |-> 0]]
  /\ tokens = {}

RaiseStep(r) == ListPending(r) \/ Create(r)
DecisionStep(d) == Decide(d) \/ AppendDecision(d) \/ CommitDecision(d) \/ DecisionFails(d)

Next ==
  \/ \E r \in Raises : StartRaise(r) \/ RaiseStep(r)
  \/ \E d \in Decisions :
       \/ \E i \in Ids, s \in Subjects, v \in Verdicts : StartDecision(d, i, s, v)
       \/ DecisionStep(d)
  \/ \E i \in Ids : CollectToken(i)
  \/ OtherOpens \/ OtherEnds
  \/ Tick \/ Crash

Spec == Init /\ [][Next]_vars

-----------------------------------------------------------------------------
\* Every variable stays within its type.
TypeOK ==
  /\ now \in Nat /\ crashes \in Nat
  /\ db \in Stores /\ disk \in Stores
  /\ txn \in Decisions \cup {Other, None}
  /\ raise \in [Raises -> Raising]
  /\ decision \in [Decisions -> Deciding]
  /\ tokens \subseteq TokenTypes

Decided(r) == r.status \in Verdicts

VerdictRows(s, i) == {x \in s.rows : x.id = i /\ x.outcome \in Verdicts}

\* A decision and its evidence commit together (approval-decision.ts, "a
\* decision the trail does not record cannot commit"): a request is decided in
\* the committed store exactly when one row records that verdict by that
\* approver, whatever fails or crashes between.
DecisionIsEvidenced ==
  \A i \in Ids :
    LET r == disk.req[i] IN
    IF Decided(r)
      THEN \E x \in VerdictRows(disk, i) :
             /\ VerdictRows(disk, i) = {x}
             /\ x.outcome = r.status /\ x.by = r.approver
      ELSE VerdictRows(disk, i) = {}

\* Of two decisions at once one wins, and a committed one is never overwritten.
DecisionIsFinal ==
  [][\A i \in Ids : Decided(disk.req[i]) => disk'.req[i] = disk.req[i]]_vars

\* No request is decided by its requester, super admins aside, nor after its
\* window has closed.
DecidedByAnotherInTime ==
  \A i \in Ids : LET r == disk.req[i] IN
    Decided(r) => /\ r.approver # CallerOf[r.plan] \/ r.approver \in SuperAdmins
                  /\ r.decided < r.expires

\* Behind each token is an approval that the gate accepted while the request's
\* window was open, from somebody other than the requester or from a super admin,
\* who may approve his own request (approval/types.ts, "no confirmToken is minted
\* until a human approves").  The approval need not stand: status() reads what the
\* connection shows, so a token may come of a decision that was undone after it.
\* A request has one token, whenever and however often it is asked for.
TokenMeansApproved ==
  \A t \in tokens :
    /\ \E d \in Decisions :
         LET c == decision[d] IN
         /\ c.id = t.id /\ c.outcome = "approved" /\ c.time < t.exp
         /\ c.by # CallerOf[t.plan] \/ c.by \in SuperAdmins
    /\ \A u \in tokens : t.id = u.id => t = u

\* Each decision request that was answered has one row, whatever it came to, and
\* one that failed or was lost has none (approval-decision.ts, "exactly one
\* approve audit row has been committed").
AttemptIsRecorded ==
  \A d \in Decisions :
    LET own == {x \in disk.rows : x.attempt = d}
        c == decision[d]
    IN IF c.at = "done"
         THEN own = {[attempt |-> d, id |-> c.id, by |-> c.by, outcome |-> c.outcome]}
         ELSE own = {}
=============================================================================
