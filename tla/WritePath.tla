------------------------------- MODULE WritePath -------------------------------
(***************************************************************************)
(* The confirmed write: one presentation of a confirm token, from stage 6g *)
(* of the policy chain through the idempotency lookup (6h), the write      *)
(* dispatcher, the execute transaction on the single store connection and  *)
(* the audit row, to the answer.                                           *)
(*                                                                         *)
(* A call is one request: it is presented once.  A client that asks again  *)
(* is another call with the same token.  The tokens are those the plan     *)
(* step has minted; an idempotency key has one token (key.ts hashes the    *)
(* caller, tool, version and arguments the token is already bound to, and  *)
(* the token), so records are indexed by token.                            *)
(*                                                                         *)
(* The gateway is one process with one connection (02 section 10.4).  A    *)
(* transaction spans awaits, so other calls interleave with an open one;   *)
(* a read outside a transaction sees the connection's uncommitted view.    *)
(***************************************************************************)
EXTENDS Integers, FiniteSets

CONSTANTS
  Calls,          \* requests that present a token
  Tokens,         \* confirm tokens the plan step has minted
  Nonces,         \* single-use nonces, the ids inside the tokens
  NonceOf,        \* [Tokens -> Nonces]
  Issued,         \* [Tokens -> Nat], when the token was minted
  Exp,            \* [Tokens -> Nat], when it expires
  Scope,          \* [Tokens -> Nat], idempotency window of the token's tool
  SingleFlight,   \* FALSE: the in-process map of running calls is empty
  MaxTime,        \* bound on the clock
  MaxCrashes,     \* bound on process restarts
  None

ASSUME CallsAssumption == None \notin Calls

ASSUME TokensAssumption ==
  /\ NonceOf \in [Tokens -> Nonces]
  /\ Issued \in [Tokens -> Nat]
  /\ Exp \in [Tokens -> Nat]
  /\ Scope \in [Tokens -> Nat \ {0}]

ASSUME BoundsAssumption ==
  /\ SingleFlight \in BOOLEAN
  /\ MaxTime \in Nat
  /\ MaxCrashes \in Nat

VARIABLES
  now,       \* the gateway's clock
  crashes,   \* restarts so far
  pc,        \* where each call is
  tok,       \* the token each call presents
  at,        \* the time captured when the call arrived (ctx.scope.now)
  out,       \* the outcome each call holds (run()'s, or a stage's), and whose
             \* execution it reports; a call at "threw" answers the catch-all
  flight,    \* the dispatcher's inFlight map: the running call of a token
  peer,      \* the call whose promise a joined call awaits
  txn,       \* the call whose execute transaction is open, or None
  db,        \* the connection's view of the store
  disk,      \* the committed store
  aq,        \* the call whose append holds the audit queue, or None
  sent,      \* calls whose binding was invoked
  applied    \* calls whose write took effect at the target

clock == <<now, crashes>>
input == <<tok>>
target == <<sent, applied>>
vars == <<clock, pc, input, at, out, flight, peer, txn, db, disk, aq, target>>

-----------------------------------------------------------------------------
\* The three tables the path writes: idempotency_record by key, the consumed
\* nonces, and the audit rows (one element per row of a call).

Statuses == {"none", "pending", "completed", "failed"}

Records == [status : Statuses, created : Nat, by : Calls \cup {None}]

NoRecord == [status |-> "none", created |-> 0, by |-> None]

\* An answer that replays a record tells the record's result: the original
\* response, or the error a failed record kept.
Replays == {"replayed", "replayed_failure"}

Refusals == {"PLAN_EXPIRED", "RATE_LIMITED", "TARGET_ERROR", "INTERNAL"}

Codes == {"none", "executed", "threw"} \cup Replays \cup Refusals

Rows == [call : Calls, phase : {"reject", "execute"}, code : Codes]

Stores == [rec : [Tokens -> Records], spent : SUBSET Nonces, rows : SUBSET Rows]

EmptyStore == [rec |-> [t \in Tokens |-> NoRecord], spent |-> {}, rows |-> {}]

Locations == {"idle", "findReplay", "getRecord", "dispatch", "joined", "begin",
              "open", "invoke", "complete", "append", "commit", "settle",
              "record", "insert", "answered", "threw", "lost"}

-----------------------------------------------------------------------------
\* Conditions and effects the handlers are built from.

\* verifyConfirmToken: expired when exp <= now.
Expired(t, time) == Exp[t] <= time

\* A record governs a call for the tool's window, from the claim.
InWindow(r, t, time) == time < r.created + Scope[t]

\* begin(): the UNIQUE insert succeeds on a missing row, and on a stale one
\* after its delete.
ClaimableFailed(r, t, time) == r.status \in {"none", "failed"} \/ ~InWindow(r, t, time)
Claimable(r, t, time) == r.status = "none" \/ ~InWindow(r, t, time)

\* The nonce's UNIQUE insert.
NeverSpent(t) == FALSE
NonceSpent(t) == NonceOf[t] \in db.spent

Claimed(t, c, time) ==
  [db EXCEPT !.rec[t] = [status |-> "pending", created |-> time, by |-> c]]

\* settle(): only a pending record is written.
Settled(s, t, status) ==
  IF s.rec[t].status = "pending" THEN [s EXCEPT !.rec[t].status = status] ELSE s

WithRow(s, c, phase, code) ==
  [s EXCEPT !.rows = @ \cup {[call |-> c, phase |-> phase, code |-> code]}]

\* What the connection shows once a transaction is undone.
NotUndone == db
NonceKept == [disk EXCEPT !.spent = db.spent]
RolledBack == disk

\* The phase the audit row of a call that was not executed carries.
Phase(code) == IF code \in {"PLAN_EXPIRED", "RATE_LIMITED"} THEN "reject" ELSE "execute"

ReplayOfAny(r) == "replayed"
ReplayOf(r) == IF r.status = "completed" THEN "replayed" ELSE "replayed_failure"

\* The refusal a failed execution ends in: invoked is set just before the
\* binding is called, and never claims what the target has done.
AlwaysInternal(invoked) == "INTERNAL"
FailureCode(invoked) == IF invoked THEN "TARGET_ERROR" ELSE "INTERNAL"

\* The audit queue goes on after an append that threw.
QueueStranded(c) == c
QueueAfterThrow(c) == None

Goto(c, loc) == pc' = [pc EXCEPT ![c] = loc]

Hold(c, code, of) == out' = [out EXCEPT ![c] = [code |-> code, of |-> of]]

\* run() settled: its entry leaves the inFlight map.
LeaveFlight(c) == flight' = [t \in Tokens |-> IF flight[t] = c THEN None ELSE flight[t]]

\* A transaction that no other call can observe half done, while the
\* connection is free: committed at once.
NotCommitted(s) == db' = s /\ UNCHANGED disk
Autocommit(s) == db' = s /\ disk' = s

-----------------------------------------------------------------------------
\* Stages 6g and 6h.

\* Stage 6g verifies the token against the time the call arrived.
Present(c) ==
  /\ pc[c] = "idle"
  /\ Issued[tok[c]] <= now
  /\ at' = [at EXCEPT ![c] = now]
  /\ IF Expired(tok[c], now)
       THEN Goto(c, "record") /\ Hold(c, "PLAN_EXPIRED", None)
       ELSE Goto(c, "findReplay") /\ UNCHANGED out
  /\ UNCHANGED <<clock, input, flight, peer, txn, db, disk, aq, target>>

\* Stage 6h, first read: a settled record in its window is replayed.  The read
\* is outside any transaction: it sees what an open one has written.
FindReplay(c) ==
  /\ pc[c] = "findReplay"
  /\ LET t == tok[c]
         r == db.rec[t]
     IN IF r.status \in {"completed", "failed"} /\ InWindow(r, t, at[c])
          THEN Goto(c, "record") /\ Hold(c, ReplayOf(r), r.by)
          ELSE Goto(c, "getRecord") /\ UNCHANGED out
  /\ UNCHANGED <<clock, input, at, flight, peer, txn, db, disk, aq, target>>

\* Stage 6h, second read: a pending record in its window refuses the call.
GetRecord(c) ==
  /\ pc[c] = "getRecord"
  /\ LET r == db.rec[tok[c]]
     IN IF r.status = "pending" /\ InWindow(r, tok[c], at[c])
          THEN Goto(c, "record") /\ Hold(c, "RATE_LIMITED", None)
          ELSE Goto(c, "dispatch") /\ UNCHANGED out
  /\ UNCHANGED <<clock, input, at, flight, peer, txn, db, disk, aq, target>>

-----------------------------------------------------------------------------
\* The write dispatcher.

\* Join the running call of the same key, or register as the running one.
Dispatch(c) ==
  /\ pc[c] = "dispatch"
  /\ LET t == tok[c]
     IN IF flight[t] # None
          THEN Goto(c, "joined") /\ peer' = [peer EXCEPT ![c] = flight[t]] /\ UNCHANGED flight
          ELSE /\ Goto(c, "begin")
               /\ flight' = IF SingleFlight THEN [flight EXCEPT ![t] = c] ELSE flight
               /\ UNCHANGED peer
  /\ UNCHANGED <<clock, input, at, out, txn, db, disk, aq, target>>

\* The joined promise has settled: a result is re-marked replayed, a refusal
\* passes through, a throw is rethrown.
JoinReturns(c) ==
  /\ pc[c] = "joined"
  /\ pc[peer[c]] \in {"record", "insert", "answered", "threw"}
  /\ LET o == out[peer[c]]
     IN \/ o.code = "threw" /\ Goto(c, "threw") /\ Hold(c, "threw", None)
        \/ o.code \in Refusals \cup Replays /\ Goto(c, "record") /\ Hold(c, o.code, o.of)
        \/ o.code = "executed" /\ Goto(c, "record") /\ Hold(c, "replayed", o.of)
  /\ UNCHANGED <<clock, input, at, flight, peer, txn, db, disk, aq, target>>

\* begin(): the claim, committed before the execute transaction opens.
Begin(c) ==
  /\ pc[c] = "begin"
  /\ txn = None
  /\ LET t == tok[c]
         r == db.rec[t]
     IN \/ /\ Claimable(r, t, at[c])
           /\ Autocommit(Claimed(t, c, at[c]))
           /\ Goto(c, "open")
           /\ UNCHANGED <<out, flight>>
        \/ /\ ~Claimable(r, t, at[c])
           /\ IF r.status = "pending" THEN Hold(c, "RATE_LIMITED", None)
                                      ELSE Hold(c, ReplayOf(r), r.by)
           /\ Goto(c, "record")
           /\ LeaveFlight(c)
           /\ UNCHANGED <<db, disk>>
  /\ UNCHANGED <<clock, input, at, peer, txn, aq, target>>

\* The store fails under begin(): the call throws to the served surface, which
\* answers without a row.
BeginThrows(c) ==
  /\ pc[c] = "begin"
  /\ txn = None
  /\ Goto(c, "threw")
  /\ Hold(c, "threw", None)
  /\ LeaveFlight(c)
  /\ UNCHANGED <<clock, input, at, peer, txn, db, disk, aq, target>>

\* The execute transaction opens, spends the nonce and invokes the binding.
Open(c) ==
  /\ pc[c] = "open"
  /\ txn = None
  /\ ~NonceSpent(tok[c])
  /\ txn' = c
  /\ db' = [db EXCEPT !.spent = @ \cup {NonceOf[tok[c]]}]
  /\ sent' = sent \cup {c}
  /\ Goto(c, "invoke")
  /\ UNCHANGED <<clock, input, at, out, flight, peer, disk, aq, applied>>

\* The nonce is already spent, or the store fails before the binding is
\* invoked: the transaction is undone and the claim settled as failed.
OpenFails(c) ==
  /\ pc[c] = "open"
  /\ txn = None
  /\ \/ NonceSpent(tok[c]) /\ Hold(c, "PLAN_EXPIRED", None)
     \/ Hold(c, FailureCode(FALSE), None)
  /\ Goto(c, "settle")
  /\ UNCHANGED <<clock, input, at, flight, peer, txn, db, disk, aq, target>>

\* The target applies a request it was sent, at any time after, whatever the
\* gateway has made of the call since.
TargetApplies(c) ==
  /\ c \in sent \ applied
  /\ applied' = applied \cup {c}
  /\ UNCHANGED <<clock, pc, input, at, out, flight, peer, txn, db, disk, aq, sent>>

\* The binding's answer arrives.
InvokeReturns(c) ==
  /\ pc[c] = "invoke"
  /\ c \in applied
  /\ Goto(c, "complete")
  /\ UNCHANGED <<clock, input, at, out, flight, peer, txn, db, disk, aq, target>>

\* complete(), inside the execute transaction; it throws unless pending.
Complete(c) ==
  /\ pc[c] = "complete"
  /\ db.rec[tok[c]].status = "pending"
  /\ db' = Settled(db, tok[c], "completed")
  /\ Goto(c, "append")
  /\ UNCHANGED <<clock, input, at, out, flight, peer, txn, disk, aq, target>>

\* The audit row of the executed write, inside the execute transaction.  The
\* append waits its turn in the audit queue and then joins the transaction.
Append(c) ==
  /\ pc[c] = "append"
  /\ aq = None
  /\ db' = WithRow(db, c, "execute", "executed")
  /\ Goto(c, "commit")
  /\ UNCHANGED <<clock, input, at, out, flight, peer, txn, disk, aq, target>>

Commit(c) ==
  /\ pc[c] = "commit"
  /\ txn' = None
  /\ disk' = db
  /\ Hold(c, "executed", c)
  /\ LeaveFlight(c)
  /\ Goto(c, "answered")
  /\ UNCHANGED <<clock, input, at, peer, db, aq, target>>

\* The binding times out or answers with an error, or a later step of the
\* transaction fails: everything in it is undone, and the target may or may
\* not have applied the write.
ExecuteFails(c) ==
  /\ \/ pc[c] \in {"invoke", "complete", "commit"}
     \/ pc[c] = "append" /\ aq = None
  /\ txn' = None
  /\ db' = RolledBack
  /\ Hold(c, FailureCode(TRUE), None)
  /\ Goto(c, "settle")
  /\ UNCHANGED <<clock, input, at, flight, peer, disk, aq, target>>

\* settleFailure(): best effort, a failure of its own is swallowed.
Settle(c) ==
  /\ pc[c] = "settle"
  /\ txn = None
  /\ \/ Autocommit(Settled(db, tok[c], "failed"))
     \/ UNCHANGED <<db, disk>>
  /\ LeaveFlight(c)
  /\ Goto(c, "record")
  /\ UNCHANGED <<clock, input, at, out, peer, txn, aq, target>>

-----------------------------------------------------------------------------
\* The audit row of every call that was not executed.

\* append(): take the audit queue, then wait for the connection.
EnterQueue(c) ==
  /\ pc[c] = "record"
  /\ aq = None
  /\ aq' = c
  /\ Goto(c, "insert")
  /\ UNCHANGED <<clock, input, at, out, flight, peer, txn, db, disk, target>>

InsertRow(c) ==
  /\ pc[c] = "insert"
  /\ txn = None
  /\ Autocommit(WithRow(db, c, Phase(out[c].code), out[c].code))
  /\ aq' = None
  /\ Goto(c, "answered")
  /\ UNCHANGED <<clock, input, at, out, flight, peer, txn, target>>

\* The append fails: the throw reaches the served surface's catch-all, which
\* answers INTERNAL whatever run() returned.
InsertFails(c) ==
  /\ pc[c] = "insert"
  /\ txn = None
  /\ aq' = QueueAfterThrow(c)
  /\ Goto(c, "threw")
  /\ UNCHANGED <<clock, input, at, out, flight, peer, txn, db, disk, target>>

-----------------------------------------------------------------------------
\* The environment.

Tick ==
  /\ now < MaxTime
  /\ now' = now + 1
  /\ UNCHANGED <<crashes, pc, input, at, out, flight, peer, txn, db, disk, aq, target>>

\* The process dies and restarts: every running call is lost with the maps and
\* the queues, and an open transaction is undone.
Crash ==
  /\ crashes < MaxCrashes
  /\ crashes' = crashes + 1
  /\ pc' = [c \in Calls |-> IF pc[c] \in {"idle", "answered", "threw"} THEN pc[c] ELSE "lost"]
  /\ flight' = [t \in Tokens |-> None]
  /\ txn' = None
  /\ aq' = None
  /\ db' = RolledBack
  /\ UNCHANGED <<now, input, at, out, peer, disk, target>>

Init ==
  /\ now = 0 /\ crashes = 0
  /\ pc = [c \in Calls |-> "idle"]
  /\ tok \in [Calls -> Tokens]
  /\ at = [c \in Calls |-> 0]
  /\ out = [c \in Calls |-> [code |-> "none", of |-> None]]
  /\ flight = [t \in Tokens |-> None]
  /\ peer = [c \in Calls |-> None]
  /\ txn = None
  /\ db = EmptyStore
  /\ disk = EmptyStore
  /\ aq = None
  /\ sent = {} /\ applied = {}

\* One step of the gateway on behalf of a call it has accepted.
Step(c) ==
  \/ FindReplay(c) \/ GetRecord(c)
  \/ Dispatch(c) \/ JoinReturns(c)
  \/ Begin(c) \/ BeginThrows(c)
  \/ Open(c) \/ OpenFails(c)
  \/ InvokeReturns(c) \/ Complete(c) \/ Append(c) \/ Commit(c) \/ ExecuteFails(c)
  \/ Settle(c)
  \/ EnterQueue(c) \/ InsertRow(c) \/ InsertFails(c)

Next ==
  \/ \E c \in Calls : Present(c) \/ Step(c) \/ TargetApplies(c)
  \/ Tick
  \/ Crash

Spec == Init /\ [][Next]_vars

\* Promise jobs run to completion, store operations settle and a binding has a
\* timeout, so an accepted call keeps taking steps while one is possible.
FairSpec == Spec /\ \A c \in Calls : WF_vars(Step(c))

-----------------------------------------------------------------------------
\* What a deployment must configure for the guarantees that follow.

\* The idempotency window outlasts the token.
ScopeCoversToken == \A t \in Tokens : Issued[t] + Scope[t] >= Exp[t]

-----------------------------------------------------------------------------
\* Every variable stays within its type.
TypeOK ==
  /\ now \in Nat /\ crashes \in Nat
  /\ pc \in [Calls -> Locations]
  /\ tok \in [Calls -> Tokens]
  /\ at \in [Calls -> Nat]
  /\ out \in [Calls -> [code : Codes, of : Calls \cup {None}]]
  /\ flight \in [Tokens -> Calls \cup {None}]
  /\ peer \in [Calls -> Calls \cup {None}]
  /\ \A c \in Calls : pc[c] = "joined" => peer[c] # None
  /\ txn \in Calls \cup {None}
  /\ db \in Stores /\ disk \in Stores
  /\ aq \in Calls \cup {None}
  /\ sent \subseteq Calls /\ applied \subseteq sent

\* The safety claim of the write path: whatever the interleaving, the failures
\* and the restarts, the calls that present one token invoke its binding at
\* most once (dispatch.ts, "must produce ONE target call").
AtMostOneSend == \A c, d \in sent : tok[c] = tok[d] => c = d

ExecutedRows(s) == {r \in s.rows : r.code = "executed"}

\* A nonce pays for one committed execution (nonce.ts: the UNIQUE insert is
\* inside the execute transaction), also across tokens that share it.
OneCommitPerNonce ==
  \A r, s \in ExecutedRows(disk) :
    NonceOf[tok[r.call]] = NonceOf[tok[s.call]] => r = s

\* Nonce, outcome and audit row are committed together or not at all: in the
\* committed store each of the three implies the other two.
CommittedUnit ==
  /\ \A n \in Nonces :
       n \in disk.spent <=> \E r \in ExecutedRows(disk) : NonceOf[tok[r.call]] = n
  /\ \A c \in Calls :
       (\E r \in ExecutedRows(disk) : r.call = c)
         <=> (disk.rec[tok[c]].status = "completed" /\ disk.rec[tok[c]].by = c)

\* A caller told "executed" holds a committed execution the target applied; one
\* given a replayed result is given that of an applied call of its own token.
AnswersAreBacked ==
  \A c \in Calls : pc[c] = "answered" =>
    /\ out[c].code = "executed" =>
         /\ c \in applied
         /\ disk.rec[tok[c]].status = "completed"
         /\ disk.rec[tok[c]].by = c
    /\ out[c].code = "replayed" =>
         /\ out[c].of \in applied
         /\ tok[out[c].of] = tok[c]

\* The outcomes that say the call was not sent.
ToldNotSent == (Refusals \ {"TARGET_ERROR"}) \cup {"threw"}

\* A caller that run() or a stage before it refused without naming the target
\* was not sent; after run()'s INTERNAL ("did not reach the target system") no
\* call of the token was or is ever sent; and a call that threw before its
\* execution, which the served surface answers with the same words, was not sent
\* either.  Outside it is the surface's answer to a call that WAS sent and whose
\* refusal row then failed to append: the catch-all (surface.ts, "Nothing was
\* executed") says of a TARGET_ERROR call too that it was not sent, and may be
\* wrong.
NotSentIsTrue ==
  \A c \in Calls : pc[c] \in {"answered", "threw"} =>
    /\ out[c].code \in ToldNotSent => c \notin sent
    /\ out[c].code = "INTERNAL" => \A d \in sent : tok[d] # tok[c]

\* Every answered call has left one audit row, with the outcome it was given,
\* and no call ever leaves two (dispatch.ts undoes the row of an execution
\* that rolls back, record.ts writes the refusal's).
AnsweredIsRecorded ==
  /\ \A c \in Calls : pc[c] = "answered" =>
       \E r \in disk.rows : r.call = c /\ r.code = out[c].code
  /\ \A r, s \in disk.rows : r.call = s.call => r = s

\* A binding is invoked only under the caller's own committed claim (02
\* section 3.1.2, "written before the binding is invoked").
SendsUnderClaim ==
  [][\A c \in sent' \ sent :
       disk.rec[tok[c]].status = "pending" /\ disk.rec[tok[c]].by = c]_vars

\* An execute transaction waits in the audit queue behind an append that waits
\* for the connection the transaction holds.
CircularWait ==
  /\ aq # None /\ pc[aq] = "insert"
  /\ txn # None /\ pc[txn] = "append"

\* A call the gateway accepted is answered, unless a restart lost it or the
\* audit queue and the connection wait on each other.
AcceptedIsAnswered ==
  \A c \in Calls :
    pc[c] # "idle" ~> \/ pc[c] \in {"answered", "threw", "lost"}
                      \/ CircularWait
=============================================================================
