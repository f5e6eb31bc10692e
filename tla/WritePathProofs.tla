--------------------------- MODULE WritePathProofs ---------------------------
(***************************************************************************)
(* Theorems about WritePath for every set of calls, tokens and nonces and  *)
(* every clock and crash bound, with the map of running calls or without.  *)
(***************************************************************************)
EXTENDS WritePathRefinement, TLAPS

\* Every writer of the store keeps its type.
LEMMA RecWritten ==
  ASSUME NEW s \in Stores, NEW t \in Tokens, NEW r \in Records
  PROVE  [s EXCEPT !.rec[t] = r] \in Stores
  BY DEF Stores

LEMMA ClaimedType ==
  ASSUME db \in Stores, NEW c \in Calls, NEW t \in Tokens, NEW time \in Nat
  PROVE  Claimed(t, c, time) \in Stores
<1>1. [status |-> "pending", created |-> time, by |-> c] \in Records
  BY DEF Records, Statuses
<1> QED BY <1>1, RecWritten DEF Claimed

LEMMA SettledType ==
  ASSUME NEW s \in Stores, NEW t \in Tokens, NEW status \in {"completed", "failed"}
  PROVE  Settled(s, t, status) \in Stores
<1>1. s.rec[t] \in Records
  BY DEF Stores
<1>2. [s.rec[t] EXCEPT !.status = status] \in Records
  BY <1>1 DEF Records, Statuses
<1>3. [s EXCEPT !.rec[t] = [s.rec[t] EXCEPT !.status = status]] \in Stores
  BY <1>2, RecWritten
<1>4. [s EXCEPT !.rec[t].status = status] = [s EXCEPT !.rec[t] = [s.rec[t] EXCEPT !.status = status]]
  BY DEF Stores
<1> QED BY <1>3, <1>4 DEF Settled

\* What each writer changes, and nothing else.
LEMMA ClaimedIs ==
  ASSUME db \in Stores, NEW c \in Calls, NEW t \in Tokens, NEW time \in Nat
  PROVE  /\ Claimed(t, c, time).spent = db.spent /\ Claimed(t, c, time).rows = db.rows
         /\ Claimed(t, c, time).rec[t] = [status |-> "pending", created |-> time, by |-> c]
         /\ \A u \in Tokens \ {t} : Claimed(t, c, time).rec[u] = db.rec[u]
<1>1. db.rec \in [Tokens -> Records] /\ DOMAIN db = {"rec", "spent", "rows"}
  BY DEF Stores
<1> QED BY <1>1 DEF Claimed

LEMMA SettledIs ==
  ASSUME NEW s \in Stores, NEW t \in Tokens, s.rec[t].status = "pending", NEW status
  PROVE  /\ Settled(s, t, status).spent = s.spent /\ Settled(s, t, status).rows = s.rows
         /\ Settled(s, t, status).rec[t] = [s.rec[t] EXCEPT !.status = status]
         /\ \A u \in Tokens \ {t} : Settled(s, t, status).rec[u] = s.rec[u]
<1>1. s.rec \in [Tokens -> Records] /\ DOMAIN s = {"rec", "spent", "rows"}
  BY DEF Stores
<1> QED BY <1>1 DEF Settled

LEMMA WithRowIs ==
  ASSUME NEW s \in Stores, NEW c, NEW phase, NEW code
  PROVE  /\ WithRow(s, c, phase, code).spent = s.spent
         /\ WithRow(s, c, phase, code).rec = s.rec
         /\ WithRow(s, c, phase, code).rows =
              s.rows \cup {[call |-> c, phase |-> phase, code |-> code]}
<1>1. DOMAIN s = {"rec", "spent", "rows"}
  BY DEF Stores
<1> QED BY <1>1 DEF WithRow

\* A settle keeps whose the claim is and when it was made.
LEMMA StatusOnly ==
  ASSUME NEW r \in Records, NEW status
  PROVE  /\ [r EXCEPT !.status = status].status = status
         /\ [r EXCEPT !.status = status].created = r.created
         /\ [r EXCEPT !.status = status].by = r.by
  BY DEF Records

LEMMA WithRowType ==
  ASSUME NEW s \in Stores, NEW c \in Calls, NEW code \in Codes,
         NEW phase \in {"reject", "execute"}
  PROVE  WithRow(s, c, phase, code) \in Stores
<1>1. [call |-> c, phase |-> phase, code |-> code] \in Rows
  BY DEF Rows
<1> QED BY <1>1 DEF WithRow, Stores

LEMMA InitType == Init => TypeOK
  BY CallsAssumption, TokensAssumption
  DEF Init, TypeOK, Locations, Codes, Stores, EmptyStore, NoRecord, Records, Statuses

LEMMA PresentType == ASSUME TypeOK, NEW c \in Calls, Present(c) PROVE TypeOK'
  BY DEF TypeOK, Present, Goto, Hold, Locations, Codes, Refusals, clock, input, target

\* What a settled record is replayed as is an outcome.
LEMMA ReplayType ==
  ASSUME TypeOK, NEW c \in Calls
  PROVE  /\ ReplayOf(db.rec[tok[c]]) \in Codes
         /\ db.rec[tok[c]].by \in Calls \cup {None}
  BY DEF TypeOK, Stores, Records, ReplayOf, Codes, Replays

LEMMA LookupType ==
  ASSUME TypeOK, NEW c \in Calls, FindReplay(c) \/ GetRecord(c) PROVE TypeOK'
<1> USE DEF TypeOK, Goto, Hold, Locations, Codes, Refusals, clock, input, target
<1>1. CASE FindReplay(c)
  BY <1>1, ReplayType DEF FindReplay
<1>2. CASE GetRecord(c)
  BY <1>2 DEF GetRecord
<1> QED BY <1>1, <1>2

LEMMA DispatchType ==
  ASSUME TypeOK, NEW c \in Calls, Dispatch(c) \/ JoinReturns(c) PROVE TypeOK'
<1> USE DEF TypeOK, Goto, Hold, Locations, Codes, Refusals, Replays, clock, input, target
<1>1. CASE Dispatch(c)
  <2>1. /\ peer' \in [Calls -> Calls \cup {None}]
        /\ flight' \in [Tokens -> Calls \cup {None}]
    BY <1>1 DEF Dispatch
  <2> QED BY <1>1, <2>1 DEF Dispatch
<1>2. CASE JoinReturns(c)
  <2>1. PICK code \in Codes, of \in Calls \cup {None} : Hold(c, code, of)
    <3>1. peer[c] \in Calls
      BY <1>2 DEF JoinReturns
    <3> QED BY <1>2, <3>1 DEF JoinReturns
  <2> QED BY <1>2, <2>1 DEF JoinReturns
<1> QED BY <1>1, <1>2

LEMMA BeginType ==
  ASSUME TypeOK, NEW c \in Calls, Begin(c) \/ BeginThrows(c) PROVE TypeOK'
<1>1. CASE Begin(c)
  <2>1. CASE Claimable(db.rec[tok[c]], tok[c], at[c])
    <3>1. Claimed(tok[c], c, at[c]) \in Stores
      BY ClaimedType DEF TypeOK
    <3> QED BY <1>1, <2>1, <3>1 DEF TypeOK, Begin, Goto, Autocommit, Locations, clock, input, target
  <2>2. CASE ~Claimable(db.rec[tok[c]], tok[c], at[c])
    BY <1>1, <2>2, ReplayType
       DEF TypeOK, Begin, Goto, Hold, LeaveFlight, Locations, Codes, Refusals, clock, input, target
  <2> QED BY <2>1, <2>2
<1>2. CASE BeginThrows(c)
  BY <1>2 DEF TypeOK, BeginThrows, Goto, Hold, LeaveFlight, Locations, Codes, clock, input, target
<1> QED BY <1>1, <1>2

LEMMA ExecuteType ==
  ASSUME TypeOK, NEW c \in Calls,
         \/ Open(c) \/ OpenFails(c) \/ TargetApplies(c) \/ InvokeReturns(c)
         \/ Complete(c) \/ Append(c) \/ Commit(c) \/ ExecuteFails(c)
  PROVE  TypeOK'
<1> USE DEF TypeOK, Goto, Hold, Locations, Codes, Refusals, clock, input, target
<1>1. CASE Open(c)
  BY <1>1, TokensAssumption DEF Open, Stores
<1>2. CASE OpenFails(c)
  BY <1>2 DEF OpenFails, FailureCode
<1>3. CASE TargetApplies(c)
  BY <1>3 DEF TargetApplies
<1>4. CASE InvokeReturns(c)
  BY <1>4 DEF InvokeReturns
<1>5. CASE Complete(c)
  <2>1. Settled(db, tok[c], "completed") \in Stores
    BY SettledType
  <2> QED BY <1>5, <2>1 DEF Complete
<1>6. CASE Append(c)
  <2>1. WithRow(db, c, "execute", "executed") \in Stores
    BY WithRowType
  <2> QED BY <1>6, <2>1 DEF Append
<1>7. CASE Commit(c)
  BY <1>7 DEF Commit, LeaveFlight
<1>8. CASE ExecuteFails(c)
  BY <1>8 DEF ExecuteFails, RolledBack, FailureCode
<1> QED BY <1>1, <1>2, <1>3, <1>4, <1>5, <1>6, <1>7, <1>8

LEMMA RecordType ==
  ASSUME TypeOK, NEW c \in Calls,
         Settle(c) \/ EnterQueue(c) \/ InsertRow(c) \/ InsertFails(c)
  PROVE  TypeOK'
<1> USE DEF TypeOK, Goto, Locations, clock, input, target
<1>1. CASE Settle(c)
  <2>1. Settled(db, tok[c], "failed") \in Stores
    BY SettledType
  <2> QED BY <1>1, <2>1 DEF Settle, Autocommit, LeaveFlight
<1>2. CASE EnterQueue(c)
  BY <1>2 DEF EnterQueue
<1>3. CASE InsertRow(c)
  <2>1. out[c].code \in Codes
    OBVIOUS
  <2>2. WithRow(db, c, Phase(out[c].code), out[c].code) \in Stores
    BY <2>1, WithRowType DEF Phase
  <2> QED BY <1>3, <2>2 DEF InsertRow, Autocommit
<1>4. CASE InsertFails(c)
  BY <1>4 DEF InsertFails, QueueAfterThrow
<1> QED BY <1>1, <1>2, <1>3, <1>4

LEMMA EnvironmentType == ASSUME TypeOK, Tick \/ Crash PROVE TypeOK'
  BY DEF TypeOK, Tick, Crash, RolledBack, Locations, input, target

LEMMA TypeStep == TypeOK /\ [Next]_vars => TypeOK'
<1> SUFFICES ASSUME TypeOK, [Next]_vars PROVE TypeOK'
  OBVIOUS
<1>1. CASE UNCHANGED vars
  BY <1>1 DEF vars, TypeOK, clock, input, target
<1>2. CASE Tick \/ Crash
  BY <1>2, EnvironmentType
<1>3. ASSUME NEW c \in Calls, Present(c) \/ Step(c) \/ TargetApplies(c) PROVE TypeOK'
  BY <1>3, PresentType, LookupType, DispatchType, BeginType, ExecuteType, RecordType DEF Step
<1> QED BY <1>1, <1>2, <1>3 DEF Next

\* Every reachable state is well typed.
THEOREM TypeCorrect == Spec => []TypeOK
  BY InitType, TypeStep, PTL DEF Spec

-----------------------------------------------------------------------------
(***************************************************************************)
(* The one connection.  Nothing here needs the tokens' windows.            *)
(***************************************************************************)

LEMMA InitOneTransaction == Init => OneTransaction
<1> SUFFICES ASSUME Init PROVE OneTransaction
  OBVIOUS
<1>1. TypeOK
  BY InitType
<1> QED BY <1>1, CallsAssumption
        DEF Init, OneTransaction, Connection, Uncommitted, InTxn, EmptyStore

\* A step that leaves the store and the transaction alone, and moves no call
\* into it, out of it or past one of its writes.
LEMMA QuietTransaction ==
  ASSUME OneTransaction, UNCHANGED <<db, disk, txn, tok>>, NEW c \in Calls,
         \A d \in Calls \ {c} : pc'[d] = pc[d],
         \/ pc'[c] = pc[c]
         \/ pc[c] \notin InTxn /\ pc'[c] \notin InTxn
         \/ pc[c] = "invoke" /\ pc'[c] = "complete"
  PROVE  Connection' /\ Uncommitted'
<1> USE DEF OneTransaction, InTxn
<1>1. Connection'
  BY DEF Connection
<1>2. \A d \in Calls : txn = d =>
        /\ pc'[d] = "commit" <=> pc[d] = "commit"
        /\ pc'[d] \in {"append", "commit"} <=> pc[d] \in {"append", "commit"}
  BY DEF Connection
<1>3. Uncommitted'
  BY <1>2 DEF Uncommitted
<1> QED BY <1>1, <1>3

LEMMA PolicyTransaction ==
  ASSUME OneTransaction, NEW c \in Calls,
         \/ Present(c) \/ FindReplay(c) \/ GetRecord(c) \/ Dispatch(c) \/ JoinReturns(c)
         \/ BeginThrows(c) \/ OpenFails(c) \/ TargetApplies(c) \/ InvokeReturns(c)
         \/ EnterQueue(c) \/ InsertFails(c)
  PROVE  Connection' /\ Uncommitted'
<1> USE DEF OneTransaction, TypeOK, InTxn, Goto, clock, input, target
<1>1. /\ UNCHANGED <<db, disk, txn, tok>>
      /\ \A d \in Calls \ {c} : pc'[d] = pc[d]
  BY DEF Present, FindReplay, GetRecord, Dispatch, JoinReturns, BeginThrows, OpenFails,
         TargetApplies, InvokeReturns, EnterQueue, InsertFails
<1>2. \/ pc'[c] = pc[c]
      \/ pc[c] \notin InTxn /\ pc'[c] \notin InTxn
      \/ pc[c] = "invoke" /\ pc'[c] = "complete"
  BY DEF Present, FindReplay, GetRecord, Dispatch, JoinReturns, BeginThrows, OpenFails,
         TargetApplies, InvokeReturns, EnterQueue, InsertFails
<1> QED BY <1>1, <1>2, QuietTransaction

\* With the connection free, a write is committed at once.
LEMMA FreeTransaction ==
  ASSUME OneTransaction, NEW c \in Calls, Begin(c) \/ Settle(c) \/ InsertRow(c)
  PROVE  Connection' /\ Uncommitted'
<1> USE DEF OneTransaction, InTxn
<1>1. /\ txn = None /\ db = disk /\ txn' = None /\ db' = disk'
      /\ pc[c] \notin InTxn /\ pc'[c] \notin InTxn
      /\ \A d \in Calls \ {c} : pc'[d] = pc[d]
  BY DEF Begin, Settle, InsertRow, Autocommit, Connection, TypeOK, Goto
<1> QED BY <1>1, CallsAssumption DEF Connection, Uncommitted

LEMMA OpenTransaction ==
  ASSUME OneTransaction, NEW c \in Calls, Open(c)
  PROVE  Connection' /\ Uncommitted'
<1> USE DEF OneTransaction, InTxn
<1>1. /\ txn = None /\ db = disk /\ pc[c] = "open" /\ tok[c] \in Tokens
      /\ NonceOf[tok[c]] \notin disk.spent
  BY DEF Open, Connection, TypeOK, NonceSpent
<1>2. /\ pc' = [pc EXCEPT ![c] = "invoke"] /\ txn' = c
      /\ UNCHANGED <<disk, tok>>
      /\ db'.rec = disk.rec /\ db'.rows = disk.rows
      /\ db'.spent = disk.spent \cup {NonceOf[tok[c]]}
  BY <1>1 DEF Open, Goto, input, TypeOK, Stores
<1>3. Connection'
  BY <1>1, <1>2, CallsAssumption DEF Connection, TypeOK
<1>4. Uncommitted'
  BY <1>1, <1>2 DEF Uncommitted, TypeOK
<1> QED BY <1>3, <1>4

\* The two writes that follow the binding's answer inside the transaction.
LEMMA WriteTransaction ==
  ASSUME OneTransaction, NEW c \in Calls, Complete(c) \/ Append(c)
  PROVE  Connection' /\ Uncommitted'
<1> USE DEF OneTransaction, InTxn
<1>1. /\ txn = c /\ pc[c] \in {"complete", "append"} /\ pc'[c] \in {"append", "commit"}
      /\ \A d \in Calls \ {c} : pc'[d] = pc[d] /\ pc[d] \notin InTxn
      /\ UNCHANGED <<txn, disk, tok>>
  BY CallsAssumption DEF Complete, Append, Connection, TypeOK, Goto, input
<1>2. Connection'
  BY <1>1, CallsAssumption DEF Connection
<1>3. Uncommitted'
  <2>1. CASE Complete(c)
    <3>1. pc[c] = "complete" /\ pc'[c] = "append" /\ db.rec[tok[c]].status = "pending"
      BY <2>1 DEF Complete, Goto, TypeOK
    <3>2. /\ db'.spent = db.spent /\ db'.rows = db.rows
          /\ db'.rec[tok[c]] = [db.rec[tok[c]] EXCEPT !.status = "completed"]
          /\ \A t \in Tokens \ {tok[c]} : db'.rec[t] = db.rec[t]
      BY <2>1, <3>1, SettledIs DEF Complete, TypeOK
    <3> QED BY <1>1, <3>1, <3>2 DEF Uncommitted
  <2>2. CASE Append(c)
    <3>1. pc[c] = "append" /\ pc'[c] = "commit"
      BY <2>2 DEF Append, Goto, TypeOK
    <3>2. /\ db'.spent = db.spent /\ db'.rec = db.rec
          /\ db'.rows = db.rows \cup {ExecutedRow(c)}
      BY <2>2, <3>1, WithRowIs DEF Append, ExecutedRow, TypeOK
    <3>3. /\ pc[c] # "commit" /\ pc[c] \in {"append", "commit"}
          /\ pc'[c] = "commit" /\ pc'[c] \in {"append", "commit"}
      BY <3>1
    <3>4. \A d \in Calls : txn' = d => d = c
      BY <1>1
    <3>5. /\ NonceOf[tok[c]] \notin disk.spent
          /\ db.spent = disk.spent \cup {NonceOf[tok[c]]}
          /\ \A t \in Tokens \ {tok[c]} : db.rec[t] = disk.rec[t]
          /\ db.rec[tok[c]] = [disk.rec[tok[c]] EXCEPT !.status = "completed"]
          /\ db.rows = disk.rows
      BY <1>1, <3>3 DEF Uncommitted
    <3> HIDE DEF OneTransaction
    <3> QED BY <1>1, <3>2, <3>3, <3>4, <3>5 DEF Uncommitted, ExecutedRow
  <2> QED BY <2>1, <2>2
<1> QED BY <1>2, <1>3

\* The transaction ends, committed or undone.
LEMMA EndTransaction ==
  ASSUME OneTransaction, NEW c \in Calls, Commit(c) \/ ExecuteFails(c)
  PROVE  Connection' /\ Uncommitted'
<1> USE DEF OneTransaction, InTxn
<1>1. /\ txn = c /\ txn' = None /\ db' = disk' /\ pc'[c] \notin InTxn
      /\ \A d \in Calls \ {c} : pc'[d] = pc[d] /\ pc[d] \notin InTxn
  BY CallsAssumption DEF Commit, ExecuteFails, RolledBack, Connection, TypeOK, Goto
<1> QED BY <1>1, CallsAssumption DEF Connection, Uncommitted

LEMMA EnvironmentTransaction ==
  ASSUME OneTransaction, Tick \/ Crash \/ UNCHANGED vars
  PROVE  Connection' /\ Uncommitted'
<1> USE DEF OneTransaction, InTxn
<1>1. CASE Tick \/ UNCHANGED vars
  BY <1>1 DEF Tick, vars, input, Connection, Uncommitted, ExecutedRow
<1>2. CASE Crash
  <2>1. txn' = None /\ db' = disk' /\ \A d \in Calls : pc'[d] \notin InTxn
    BY <1>2 DEF Crash, RolledBack
  <2> QED BY <2>1, CallsAssumption DEF Connection, Uncommitted
<1> QED BY <1>1, <1>2

LEMMA OneTransactionStep == OneTransaction /\ [Next]_vars => OneTransaction'
<1> SUFFICES ASSUME OneTransaction, [Next]_vars PROVE OneTransaction'
  OBVIOUS
<1>1. TypeOK'
  BY TypeStep DEF OneTransaction
<1>2. CASE Tick \/ Crash \/ UNCHANGED vars
  BY <1>1, <1>2, EnvironmentTransaction DEF OneTransaction
<1>3. ASSUME NEW c \in Calls, Present(c) \/ Step(c) \/ TargetApplies(c) PROVE OneTransaction'
  <2>1. Connection' /\ Uncommitted'
    BY <1>3, PolicyTransaction, FreeTransaction, OpenTransaction, WriteTransaction,
       EndTransaction DEF Step
  <2> QED BY <1>1, <2>1 DEF OneTransaction
<1> QED BY <1>2, <1>3 DEF Next

-----------------------------------------------------------------------------
(***************************************************************************)
(* At most one send.  While the window covers the token, a call that 6g    *)
(* let through can never find a stale record, so a claim is made only on a *)
(* token nobody has claimed and the claimant is never replaced.            *)
(***************************************************************************)

\* With the window covering the token, only a token never claimed is claimable.
LEMMA NoReclaim ==
  ASSUME ScopeCoversToken, SafetyInv, NEW c \in Calls, pc[c] = "begin", txn = None
  PROVE  Claimable(db.rec[tok[c]], tok[c], at[c]) => db.rec[tok[c]].status = "none"
  BY TokensAssumption
  DEF ScopeCoversToken, SafetyInv, OneTransaction, TypeOK, Connection, LiveToken,
      RecordAfterMint, Claimable, InWindow, Stores, Records

LEMMA InitSafety == Init => SafetyInv
<1> SUFFICES ASSUME Init PROVE SafetyInv
  OBVIOUS
<1>1. OneTransaction
  BY InitOneTransaction
<1> QED BY <1>1, CallsAssumption
        DEF Init, SafetyInv, LiveToken, RecordAfterMint, Holding, Claims,
            InTxn, Before, EmptyStore, NoRecord

\* A step that leaves the store, the transaction and the target alone, and
\* moves one call to a place that asks no more of it.
LEMMA QuietStep ==
  ASSUME SafetyInv, OneTransaction', UNCHANGED <<db, disk, txn, tok, sent>>, NEW c \in Calls,
         \A d \in Calls \ {c} : pc'[d] = pc[d] /\ at'[d] = at[d],
         \/ pc'[c] = pc[c] /\ at'[c] = at[c]
         \/ /\ pc[c] \notin InTxn /\ pc'[c] \in {"record", "insert", "answered", "threw"}
         \/ /\ pc[c] \in Before /\ pc'[c] \in {"findReplay", "getRecord", "dispatch", "begin"}
            /\ Issued[tok[c]] <= at'[c] /\ at'[c] < Exp[tok[c]]
         \/ pc[c] \in Before /\ pc'[c] = "joined"
         \/ pc[c] = "open" /\ pc'[c] = "settle"
         \/ pc[c] = "invoke" /\ pc'[c] = "complete"
  PROVE  SafetyInv'
<1> USE DEF SafetyInv, OneTransaction, InTxn, Before
<1>3. LiveToken'
  BY DEF LiveToken
<1>4. RecordAfterMint'
  BY DEF RecordAfterMint
<1>5. Holding'
  BY DEF Holding
<1>6. Claims'
  BY DEF Claims
<1> QED BY <1>3, <1>4, <1>5, <1>6

LEMMA PolicySafety ==
  ASSUME SafetyInv, OneTransaction', NEW c \in Calls,
         \/ Present(c) \/ FindReplay(c) \/ GetRecord(c) \/ Dispatch(c) \/ JoinReturns(c)
         \/ BeginThrows(c)
  PROVE  SafetyInv'
<1> USE DEF SafetyInv, OneTransaction, TypeOK, InTxn, Before, Goto, Hold, clock, input, target
<1>1. CASE Present(c)
  <2>1. now \in Nat /\ Exp[tok[c]] \in Nat /\ Issued[tok[c]] \in Nat
    BY TokensAssumption
  <2>2. \/ pc'[c] = "findReplay" /\ at'[c] = now /\ Issued[tok[c]] <= now /\ ~(Exp[tok[c]] <= now)
        \/ pc'[c] = "record"
    BY <1>1 DEF Present, Expired
  <2>3. /\ UNCHANGED <<db, disk, txn, tok, sent>> /\ pc[c] = "idle"
        /\ \A d \in Calls \ {c} : pc'[d] = pc[d] /\ at'[d] = at[d]
    BY <1>1 DEF Present
  <2>4. \/ pc'[c] = "findReplay" /\ Issued[tok[c]] <= at'[c] /\ at'[c] < Exp[tok[c]]
        \/ pc'[c] = "record"
    BY <2>1, <2>2
  <2> HIDE DEF SafetyInv, OneTransaction, TypeOK
  <2> QED BY <2>3, <2>4, QuietStep
<1>2. CASE FindReplay(c)
  BY <1>2, QuietStep DEF FindReplay, LiveToken
<1>3. CASE GetRecord(c)
  BY <1>3, QuietStep DEF GetRecord, LiveToken
<1>4. CASE Dispatch(c)
  BY <1>4, QuietStep DEF Dispatch, LiveToken
<1>5. CASE JoinReturns(c)
  <2>1. pc[c] = "joined" /\ pc'[c] \in {"record", "threw"}
        /\ \A d \in Calls \ {c} : pc'[d] = pc[d]
    BY <1>5 DEF JoinReturns
  <2>2. UNCHANGED <<db, disk, txn, tok, sent, at>>
    BY <1>5 DEF JoinReturns
  <2> QED BY <2>1, <2>2, QuietStep
<1>6. CASE BeginThrows(c)
  BY <1>6, QuietStep DEF BeginThrows
<1> QED BY <1>1, <1>2, <1>3, <1>4, <1>5, <1>6

LEMMA QueueSafety ==
  ASSUME SafetyInv, OneTransaction', NEW c \in Calls,
         \/ OpenFails(c) \/ TargetApplies(c) \/ InvokeReturns(c) \/ EnterQueue(c)
         \/ InsertFails(c)
  PROVE  SafetyInv'
<1> USE DEF SafetyInv, OneTransaction, TypeOK, InTxn, Before, Goto, clock, input, target
<1>1. CASE OpenFails(c)
  BY <1>1, QuietStep DEF OpenFails
<1>2. CASE TargetApplies(c)
  BY <1>2, QuietStep DEF TargetApplies
<1>3. CASE InvokeReturns(c)
  BY <1>3, QuietStep DEF InvokeReturns
<1>4. CASE EnterQueue(c)
  BY <1>4, QuietStep DEF EnterQueue
<1>5. CASE InsertFails(c)
  BY <1>5, QuietStep DEF InsertFails
<1> QED BY <1>1, <1>2, <1>3, <1>4, <1>5

LEMMA BeginSafety ==
  ASSUME ScopeCoversToken, SafetyInv, OneTransaction', NEW c \in Calls, Begin(c)
  PROVE  SafetyInv'
<1> DEFINE t == tok[c]
<1> USE DEF SafetyInv, OneTransaction, InTxn, Before
<1>1. txn = None /\ db = disk /\ pc[c] = "begin" /\ t \in Tokens
  BY DEF Begin, Connection, TypeOK
<1>2. CASE Claimable(db.rec[t], t, at[c])
  <2>1. disk.rec[t].status = "none"
    BY <1>1, <1>2, NoReclaim
  <2>2. /\ db' = disk' /\ disk'.spent = disk.spent /\ disk'.rows = disk.rows
        /\ disk'.rec[t] = [status |-> "pending", created |-> at[c], by |-> c]
        /\ \A u \in Tokens \ {t} : disk'.rec[u] = disk.rec[u]
    <3>1. db' = Claimed(t, c, at[c]) /\ disk' = db'
      BY <1>1, <1>2 DEF Begin, Autocommit
    <3>2. db \in Stores /\ at[c] \in Nat
      BY DEF TypeOK
    <3> QED BY <1>1, <3>1, <3>2, ClaimedIs
  <2>3. /\ pc' = [pc EXCEPT ![c] = "open"]
        /\ UNCHANGED <<txn, tok, at, sent>>
    BY <1>1, <1>2 DEF Begin, Goto, input, target
  <2>4. \A d \in Calls : pc[d] \notin InTxn
    BY <1>1, CallsAssumption DEF Connection
  <2>6. LiveToken'
    BY <2>3 DEF LiveToken, TypeOK
  <2>7. RecordAfterMint'
    BY <1>1, <2>2, <2>3 DEF RecordAfterMint, LiveToken
  <2>8. \A d \in Calls \ {c} : tok[d] = t => d \notin sent /\ pc[d] \notin {"open", "settle"}
    BY <2>1 DEF Holding, Claims
  <2>9. c \notin sent
    BY <1>1 DEF Claims
  <2>10. Holding'
    BY <1>1, <2>2, <2>3, <2>4, <2>8 DEF Holding, TypeOK
  <2>11. Claims'
    BY <1>1, <2>2, <2>3, <2>4, <2>8, <2>9 DEF Claims, TypeOK
  <2> QED BY <2>6, <2>7, <2>10, <2>11
<1>3. CASE ~Claimable(db.rec[t], t, at[c])
  <2>1. /\ UNCHANGED <<db, disk, txn, tok, at, sent>>
        /\ pc' = [pc EXCEPT ![c] = "record"]
    BY <1>1, <1>3 DEF Begin, Goto, input, target
  <2> QED BY <1>1, <2>1, QuietStep DEF TypeOK
<1> QED BY <1>2, <1>3

LEMMA OpenSafety ==
  ASSUME SafetyInv, OneTransaction', NEW c \in Calls, Open(c)
  PROVE  SafetyInv'
<1> USE DEF SafetyInv, OneTransaction, InTxn, Before
<1>1. /\ txn = None /\ db = disk /\ pc[c] = "open" /\ tok[c] \in Tokens
      /\ NonceOf[tok[c]] \notin disk.spent
  BY DEF Open, Connection, TypeOK, NonceSpent
<1>2. /\ pc' = [pc EXCEPT ![c] = "invoke"] /\ txn' = c /\ sent' = sent \cup {c}
      /\ UNCHANGED <<disk, tok, at>>
      /\ db'.rec = disk.rec /\ db'.rows = disk.rows
      /\ db'.spent = disk.spent \cup {NonceOf[tok[c]]}
  BY <1>1 DEF Open, Goto, input, TypeOK, Stores
<1>5. LiveToken' /\ RecordAfterMint'
  BY <1>2 DEF LiveToken, RecordAfterMint, TypeOK
<1>6. Holding'
  BY <1>1, <1>2 DEF Holding, TypeOK
<1>7. Claims'
  BY <1>1, <1>2 DEF Claims, Holding, TypeOK
<1> QED BY <1>5, <1>6, <1>7

\* The two writes that follow the binding's answer inside the transaction.
LEMMA WriteSafety ==
  ASSUME SafetyInv, OneTransaction', NEW c \in Calls, Complete(c) \/ Append(c)
  PROVE  SafetyInv'
<1> USE DEF SafetyInv, OneTransaction, InTxn, Before
<1>1. /\ txn = c /\ pc[c] \in {"complete", "append"} /\ pc'[c] \in {"append", "commit"}
      /\ \A d \in Calls \ {c} : pc'[d] = pc[d] /\ pc[d] \notin InTxn
      /\ UNCHANGED <<txn, disk, tok, at, sent>>
  BY CallsAssumption DEF Complete, Append, Connection, TypeOK, Goto, input, target
<1>4. LiveToken' /\ RecordAfterMint'
  BY <1>1 DEF LiveToken, RecordAfterMint
<1>5. Holding' /\ Claims'
  BY <1>1 DEF Holding, Claims
<1> QED BY <1>4, <1>5

\* The transaction ends: committed, undone, or undone by a crash.
LEMMA EndSafety ==
  ASSUME SafetyInv, OneTransaction', NEW c \in Calls, Commit(c) \/ ExecuteFails(c)
  PROVE  SafetyInv'
<1>0. TypeOK /\ Connection /\ Uncommitted
  BY DEF SafetyInv, OneTransaction
<1> USE DEF SafetyInv, InTxn, Before
<1>1. /\ txn = c /\ txn' = None /\ db' = disk' /\ pc[c] \in InTxn
      /\ \A d \in Calls \ {c} : pc'[d] = pc[d] /\ pc[d] \notin InTxn
      /\ UNCHANGED <<tok, at, sent>>
  BY <1>0, CallsAssumption
  DEF Commit, ExecuteFails, RolledBack, Connection, TypeOK, Goto, input, target
<1>2. \/ /\ Commit(c) /\ pc[c] = "commit" /\ pc'[c] = "answered"
         /\ \A t \in Tokens \ {tok[c]} : disk'.rec[t] = disk.rec[t]
         /\ disk'.rec[tok[c]] = [disk.rec[tok[c]] EXCEPT !.status = "completed"]
      \/ pc'[c] = "settle" /\ disk' = disk
  BY <1>0, <1>1 DEF Commit, ExecuteFails, Uncommitted, TypeOK, Goto
<1>4. LiveToken'
  BY <1>1, <1>2 DEF LiveToken
<1>5. disk.rec[tok[c]].status = "pending" /\ disk.rec[tok[c]].by = c /\ tok[c] \in Tokens
  BY <1>0, <1>1 DEF Holding, TypeOK
<1>6. \A d \in Calls \ {c} : tok[d] = tok[c] => d \notin sent /\ pc[d] \notin {"open", "settle"}
  BY <1>5 DEF Holding, Claims
<1>7. \A t \in Tokens :
         /\ disk'.rec[t].created = disk.rec[t].created /\ disk'.rec[t].by = disk.rec[t].by
         /\ disk'.rec[t].status = "none" <=> disk.rec[t].status = "none"
  <2>1. disk.rec[tok[c]] \in Records
    BY <1>0, <1>5 DEF TypeOK, Stores
  <2>2. ASSUME disk'.rec[tok[c]] = [disk.rec[tok[c]] EXCEPT !.status = "completed"]
        PROVE  /\ disk'.rec[tok[c]].created = disk.rec[tok[c]].created
               /\ disk'.rec[tok[c]].by = disk.rec[tok[c]].by
               /\ disk'.rec[tok[c]].status = "completed"
    BY <2>1, <2>2, StatusOnly
  <2> HIDE DEF SafetyInv
  <2> QED BY <1>2, <1>5, <2>2
<1>8. RecordAfterMint'
  BY <1>7 DEF RecordAfterMint
<1>9. Claims'
  BY <1>1, <1>2, <1>7, <1>0 DEF Claims, TypeOK
<1>10. Holding'
  BY <1>1, <1>2, <1>5, <1>6, <1>0 DEF Holding, TypeOK
<1> QED BY <1>4, <1>8, <1>9, <1>10

LEMMA SettleSafety ==
  ASSUME SafetyInv, OneTransaction', NEW c \in Calls, Settle(c) \/ InsertRow(c)
  PROVE  SafetyInv'
<1> USE DEF SafetyInv, OneTransaction, InTxn, Before
<1>1. /\ txn = None /\ db = disk /\ txn' = None /\ db' = disk'
      /\ \A d \in Calls \ {c} : pc'[d] = pc[d]
      /\ \A d \in Calls : pc[d] \notin InTxn
      /\ pc'[c] \in {"record", "answered"}
      /\ UNCHANGED <<tok, at, sent>>
  BY CallsAssumption DEF Settle, InsertRow, Autocommit, Connection, TypeOK, Goto, input, target
<1>2. \/ /\ pc[c] = "settle" /\ disk.rec[tok[c]].status = "pending"
         /\ \A t \in Tokens \ {tok[c]} : disk'.rec[t] = disk.rec[t]
         /\ disk'.rec[tok[c]] = [disk.rec[tok[c]] EXCEPT !.status = "failed"]
      \/ disk'.rec = disk.rec
  <2>1. CASE Settle(c)
    <3>1. tok[c] \in Tokens /\ db \in Stores /\ pc[c] = "settle"
      BY <2>1 DEF TypeOK, Settle
    <3>2. disk' = Settled(db, tok[c], "failed") \/ disk' = disk
      BY <2>1 DEF Settle, Autocommit
    <3>3. CASE db.rec[tok[c]].status = "pending"
      BY <1>1, <3>1, <3>2, <3>3, SettledIs
    <3>4. CASE db.rec[tok[c]].status # "pending"
      BY <1>1, <3>2, <3>4 DEF Settled
    <3> QED BY <3>3, <3>4
  <2>2. CASE InsertRow(c)
    BY <1>1, <2>2, WithRowIs DEF InsertRow, Autocommit, TypeOK
  <2> QED BY <2>1, <2>2
<1>4. LiveToken'
  BY <1>1 DEF LiveToken
<1>5. \A t \in Tokens :
         /\ disk'.rec[t].created = disk.rec[t].created /\ disk'.rec[t].by = disk.rec[t].by
         /\ disk'.rec[t].status = "none" <=> disk.rec[t].status = "none"
  <2>1. tok[c] \in Tokens /\ disk.rec[tok[c]] \in Records
    BY DEF TypeOK, Stores
  <2>2. ASSUME disk'.rec[tok[c]] = [disk.rec[tok[c]] EXCEPT !.status = "failed"]
        PROVE  /\ disk'.rec[tok[c]].created = disk.rec[tok[c]].created
               /\ disk'.rec[tok[c]].by = disk.rec[tok[c]].by
               /\ disk'.rec[tok[c]].status = "failed"
    BY <2>1, <2>2, StatusOnly
  <2> HIDE DEF SafetyInv
  <2> QED BY <1>2, <2>2
<1>6. RecordAfterMint'
  BY <1>5 DEF RecordAfterMint
<1>7. Claims'
  BY <1>1, <1>5 DEF Claims, TypeOK
<1>8. \A d \in Calls \ {c} : pc[d] \in {"open", "settle"} /\ pc[c] = "settle" => tok[d] # tok[c]
  BY DEF Holding
<1>9. Holding'
  BY <1>1, <1>2, <1>8 DEF Holding, TypeOK
<1> QED BY <1>4, <1>6, <1>7, <1>9

LEMMA EnvironmentSafety ==
  ASSUME SafetyInv, OneTransaction', Tick \/ Crash \/ UNCHANGED vars
  PROVE  SafetyInv'
<1> USE DEF SafetyInv, OneTransaction, InTxn, Before
<1>1. CASE Tick \/ UNCHANGED vars
  <2>1. UNCHANGED <<pc, tok, at, txn, db, disk, sent>>
    BY <1>1 DEF Tick, vars, clock, input, target
  <2> QED BY <2>1 DEF LiveToken, RecordAfterMint, Holding, Claims
<1>2. CASE Crash
  <2>1. /\ txn' = None /\ db' = disk /\ UNCHANGED <<tok, at, disk, sent>>
        /\ \A d \in Calls : \/ pc'[d] = pc[d] /\ pc[d] \in {"idle", "answered", "threw"}
                            \/ pc'[d] = "lost"
    BY <1>2 DEF Crash, RolledBack, input, target
  <2> QED BY <2>1, CallsAssumption
          DEF LiveToken, RecordAfterMint, Holding, Claims
<1> QED BY <1>1, <1>2

LEMMA SafetyStep == ScopeCoversToken /\ SafetyInv /\ [Next]_vars => SafetyInv'
<1> SUFFICES ASSUME ScopeCoversToken, SafetyInv, [Next]_vars PROVE SafetyInv'
  OBVIOUS
<1>1. OneTransaction'
  BY OneTransactionStep DEF SafetyInv
<1>2. CASE Tick \/ Crash \/ UNCHANGED vars
  BY <1>1, <1>2, EnvironmentSafety
<1>3. ASSUME NEW c \in Calls, Present(c) \/ Step(c) \/ TargetApplies(c) PROVE SafetyInv'
  BY <1>1, <1>3, PolicySafety, QueueSafety, BeginSafety, OpenSafety, WriteSafety, EndSafety,
     SettleSafety DEF Step
<1> QED BY <1>2, <1>3 DEF Next

LEMMA SafetyInvariant == ASSUME ScopeCoversToken PROVE Spec => []SafetyInv
<1>1. SafetyInv /\ [Next]_vars => SafetyInv'
  BY SafetyStep
<1> QED BY InitSafety, <1>1, PTL DEF Spec

\* The calls of one token reach the target at most once, whatever the number of
\* calls, failures and restarts, with the map of running calls or without it.
THEOREM SendOnce == ASSUME ScopeCoversToken PROVE Spec => []AtMostOneSend
<1>1. SafetyInv => AtMostOneSend
  BY DEF SafetyInv, OneTransaction, Claims, AtMostOneSend, TypeOK
<1> QED BY SafetyInvariant, <1>1, PTL

\* A binding is only ever invoked under the caller's own committed claim.
THEOREM ClaimBeforeSend == ASSUME ScopeCoversToken PROVE Spec => SendsUnderClaim
<1>1. SafetyInv /\ [Next]_vars =>
        [\A c \in sent' \ sent :
           disk.rec[tok[c]].status = "pending" /\ disk.rec[tok[c]].by = c]_vars
  <2> SUFFICES ASSUME SafetyInv, Next, NEW c \in sent' \ sent
               PROVE  disk.rec[tok[c]].status = "pending" /\ disk.rec[tok[c]].by = c
    OBVIOUS
  <2>1. PICK d \in Calls : Open(d)
    BY DEF Next, Step, clock, input, target, Tick, Crash, Present, FindReplay, GetRecord,
           Dispatch, JoinReturns, Begin, BeginThrows, OpenFails, TargetApplies, InvokeReturns,
           Complete, Append, Commit, ExecuteFails, Settle, EnterQueue, InsertRow, InsertFails
  <2> QED BY <2>1 DEF Open, SafetyInv, Holding
<1> QED BY SafetyInvariant, <1>1, PTL DEF Spec, SendsUnderClaim

-----------------------------------------------------------------------------
(***************************************************************************)
(* The write path implements OneTimeWrite.  Four actions change what the   *)
(* promise sees; every other step leaves the committed records and the     *)
(* sent calls alone.                                                       *)
(***************************************************************************)

LEMMA ClaimRefines ==
  ASSUME ScopeCoversToken, SafetyInv, NEW c \in Calls, Begin(c)
  PROVE  [Promise!Next]_(Promise!vars)
<1> DEFINE t == tok[c]
<1>1. txn = None /\ db = disk /\ pc[c] = "begin" /\ t \in Tokens /\ sent' = sent
  BY DEF Begin, SafetyInv, OneTransaction, Connection, TypeOK, target
<1>2. CASE Claimable(db.rec[t], t, at[c])
  <2>1. disk.rec[t].status = "none"
    BY <1>1, <1>2, NoReclaim
  <2>2. db \in Stores /\ at[c] \in Nat /\ disk' = Claimed(t, c, at[c])
    BY <1>1, <1>2 DEF SafetyInv, OneTransaction, TypeOK, Begin, Autocommit
  <2>3. /\ disk'.rec[t].status = "pending" /\ disk'.rec[t].by = c
        /\ \A u \in Tokens \ {t} : disk'.rec[u] = disk.rec[u]
    <3>1. /\ disk'.rec[t] = [status |-> "pending", created |-> at[c], by |-> c]
          /\ \A u \in Tokens \ {t} : disk'.rec[u] = disk.rec[u]
      BY <1>1, <2>2, ClaimedIs
    <3> QED BY <3>1
  <2>4. life[t] = "fresh"
    BY <1>1, <2>1 DEF life, LifeOf
  <2>5. life' = [life EXCEPT ![t] = "claimed"]
    <3>1. LifeOf(disk'.rec[t].status) = "claimed"
      BY <2>3 DEF LifeOf
    <3>2. \A u \in Tokens \ {t} : LifeOf(disk'.rec[u].status) = LifeOf(disk.rec[u].status)
      BY <2>3
    <3> QED BY <3>1, <3>2 DEF life
  <2>6. holder' = [holder EXCEPT ![t] = c]
    BY <1>1, <2>3 DEF holder
  <2> QED BY <1>1, <2>4, <2>5, <2>6 DEF Promise!Next, Promise!Claim
<1>3. CASE ~Claimable(db.rec[t], t, at[c])
  BY <1>1, <1>3 DEF Begin, Promise!vars, life, holder
<1> QED BY <1>2, <1>3

LEMMA SendRefines ==
  ASSUME SafetyInv, NEW c \in Calls, Open(c)
  PROVE  Promise!Next
<1>1. /\ tok[c] \in Tokens /\ pc[c] = "open" /\ disk' = disk /\ sent' = sent \cup {c}
      /\ c \notin sent
  BY DEF Open, SafetyInv, OneTransaction, TypeOK, Claims, Before
<1>2. disk.rec[tok[c]].status = "pending" /\ disk.rec[tok[c]].by = c
  BY <1>1 DEF SafetyInv, Holding
<1>3. life[tok[c]] = "claimed" /\ holder[tok[c]] = c
  BY <1>1, <1>2 DEF life, holder, LifeOf
<1>4. UNCHANGED <<life, holder>>
  BY <1>1 DEF life, holder
<1> QED BY <1>1, <1>3, <1>4 DEF Promise!Next, Promise!Send

\* A settle, either way, moves one claimed token to the status it records.
LEMMA SettleRefines ==
  ASSUME NEW t \in Tokens, disk.rec[t] \in Records, disk.rec[t].status = "pending",
         NEW status \in {"completed", "failed"},
         disk'.rec[t] = [disk.rec[t] EXCEPT !.status = status],
         \A u \in Tokens \ {t} : disk'.rec[u] = disk.rec[u]
  PROVE  /\ life[t] = "claimed"
         /\ life' = [life EXCEPT ![t] = IF status = "completed" THEN "done" ELSE "failed"]
         /\ holder' = holder
<1>1. disk'.rec[t].by = disk.rec[t].by /\ disk'.rec[t].status = status
  BY StatusOnly
<1>2. life[t] = "claimed"
  BY DEF life, LifeOf
<1>3. life' = [life EXCEPT ![t] = IF status = "completed" THEN "done" ELSE "failed"]
  <2> DEFINE final == IF status = "completed" THEN "done" ELSE "failed"
  <2>1. LifeOf(disk'.rec[t].status) = final
    BY <1>1 DEF LifeOf
  <2>2. \A u \in Tokens \ {t} : LifeOf(disk'.rec[u].status) = LifeOf(disk.rec[u].status)
    OBVIOUS
  <2> QED BY <2>1, <2>2 DEF life
<1>4. holder' = holder
  BY <1>1 DEF holder
<1> QED BY <1>2, <1>3, <1>4

LEMMA CommitRefines ==
  ASSUME SafetyInv, NEW c \in Calls, Commit(c)
  PROVE  Promise!Next
<1>1. /\ txn = c /\ pc[c] = "commit" /\ disk' = db /\ sent' = sent /\ tok[c] \in Tokens
      /\ c \in sent
  BY DEF Commit, SafetyInv, OneTransaction, Connection, Claims, InTxn, TypeOK, target
<1>2. /\ disk.rec[tok[c]].status = "pending" /\ disk.rec[tok[c]].by = c
      /\ disk.rec[tok[c]] \in Records
  BY <1>1 DEF SafetyInv, OneTransaction, Holding, InTxn, TypeOK, Stores
<1>3. /\ disk'.rec[tok[c]] = [disk.rec[tok[c]] EXCEPT !.status = "completed"]
      /\ \A u \in Tokens \ {tok[c]} : disk'.rec[u] = disk.rec[u]
  BY <1>1 DEF SafetyInv, OneTransaction, Uncommitted
<1>4. /\ life[tok[c]] = "claimed" /\ life' = [life EXCEPT ![tok[c]] = "done"]
      /\ holder' = holder
  BY <1>1, <1>2, <1>3, SettleRefines
<1>5. holder[tok[c]] \in sent
  BY <1>1, <1>2 DEF holder
<1> QED BY <1>1, <1>4, <1>5 DEF Promise!Next, Promise!Done

LEMMA FailRefines ==
  ASSUME SafetyInv, NEW c \in Calls, Settle(c)
  PROVE  [Promise!Next]_(Promise!vars)
<1>1. /\ db = disk /\ pc[c] = "settle" /\ tok[c] \in Tokens /\ sent' = sent /\ disk \in Stores
  BY DEF Settle, SafetyInv, OneTransaction, Connection, TypeOK, target
<1>2. disk.rec[tok[c]].status = "pending" /\ disk.rec[tok[c]] \in Records
  BY <1>1 DEF SafetyInv, OneTransaction, Holding, Stores
<1>3. CASE disk' = disk
  BY <1>1, <1>3 DEF Promise!vars, life, holder
<1>4. CASE disk' = Settled(disk, tok[c], "failed")
  <2>1. /\ disk'.rec[tok[c]] = [disk.rec[tok[c]] EXCEPT !.status = "failed"]
        /\ \A u \in Tokens \ {tok[c]} : disk'.rec[u] = disk.rec[u]
    BY <1>1, <1>2, <1>4, SettledIs
  <2>2. /\ life[tok[c]] = "claimed" /\ life' = [life EXCEPT ![tok[c]] = "failed"]
        /\ holder' = holder
    BY <1>1, <1>2, <2>1, SettleRefines
  <2> QED BY <1>1, <2>2 DEF Promise!Next, Promise!Fail
<1> QED BY <1>1, <1>3, <1>4 DEF Settle, Autocommit

LEMMA OthersStutter ==
  ASSUME SafetyInv, [Next]_vars,
         \A c \in Calls : ~Begin(c) /\ ~Open(c) /\ ~Commit(c) /\ ~Settle(c)
  PROVE  UNCHANGED Promise!vars
<1>1. sent' = sent
  BY DEF Next, Step, vars, clock, input, target, Tick, Crash, Present, FindReplay, GetRecord,
         Dispatch, JoinReturns, BeginThrows, OpenFails, TargetApplies, InvokeReturns,
         Complete, Append, ExecuteFails, EnterQueue, InsertRow, InsertFails
<1>2. disk'.rec = disk.rec
  <2>1. CASE \E c \in Calls : InsertRow(c)
    <3>1. PICK c \in Calls : InsertRow(c)
      BY <2>1
    <3>2. disk' = WithRow(db, c, Phase(out[c].code), out[c].code) /\ db = disk /\ db \in Stores
      BY <3>1 DEF InsertRow, Autocommit, SafetyInv, OneTransaction, Connection, TypeOK
    <3> QED BY <3>2, WithRowIs
  <2>2. CASE \A c \in Calls : ~InsertRow(c)
    BY <2>2 DEF Next, Step, vars, clock, input, target, Tick, Crash, Present, FindReplay,
           GetRecord, Dispatch, JoinReturns, BeginThrows, OpenFails, TargetApplies, InvokeReturns,
           Complete, Append, ExecuteFails, EnterQueue, InsertFails
  <2> QED BY <2>1, <2>2
<1> QED BY <1>1, <1>2 DEF Promise!vars, life, holder

\* Every behaviour of the write path is one of the promise.
THEOREM WritePathKeepsPromise ==
  ASSUME ScopeCoversToken PROVE Spec => ImplementsOneTimeWrite
<1>1. Init => Promise!Init
  BY DEF Init, Promise!Init, life, holder, LifeOf, EmptyStore, NoRecord
<1>2. SafetyInv /\ [Next]_vars => [Promise!Next]_(Promise!vars)
  <2> SUFFICES ASSUME SafetyInv, [Next]_vars PROVE [Promise!Next]_(Promise!vars)
    OBVIOUS
  <2>1. CASE \E c \in Calls : Begin(c) \/ Open(c) \/ Commit(c) \/ Settle(c)
    BY <2>1, ClaimRefines, SendRefines, CommitRefines, FailRefines
  <2>2. CASE \A c \in Calls : ~Begin(c) /\ ~Open(c) /\ ~Commit(c) /\ ~Settle(c)
    BY <2>2, OthersStutter
  <2> QED BY <2>1, <2>2
<1> QED BY SafetyInvariant, <1>1, <1>2, PTL DEF Spec, ImplementsOneTimeWrite, Promise!Spec

-----------------------------------------------------------------------------
(***************************************************************************)
(* Rows and nonces.  A call's row is written by the step that answers it,  *)
(* and an executed row by the step that commits its nonce.                 *)
(***************************************************************************)

\* Nobody else's outcome changes, and the call's own keeps to where it goes.
LEMMA OutcomeKept ==
  ASSUME Outcomes, NEW c \in Calls,
         \A d \in Calls \ {c} : pc'[d] = pc[d] /\ out'[d] = out[d],
         pc'[c] \in Before \cup InTxn => out'[c].code = "none",
         pc'[c] \in {"settle", "record", "insert"} => out'[c].code \in Refusals \cup Replays,
         out'[c].code = "executed" => pc'[c] = "answered"
  PROVE  Outcomes'
  BY DEF Outcomes

LEMMA PolicyOutcomes ==
  ASSUME TypeOK, Outcomes, NEW c \in Calls,
         \/ Present(c) \/ FindReplay(c) \/ GetRecord(c) \/ Dispatch(c) \/ JoinReturns(c)
         \/ Begin(c) \/ BeginThrows(c) \/ OpenFails(c)
  PROVE  Outcomes'
<1> DEFINE code == out'[c].code
<1>0. out[c].code = "none" /\ pc[c] \in Before
  BY DEF Outcomes, Before, Present, FindReplay, GetRecord, Dispatch, JoinReturns, Begin,
         BeginThrows, OpenFails
<1>1. /\ \A d \in Calls \ {c} : pc'[d] = pc[d] /\ out'[d] = out[d]
      /\ \/ out'[c] = out[c]
         \/ pc'[c] \in {"record", "settle"} /\ code \in Refusals \cup Replays
         \/ pc'[c] = "threw" /\ code = "threw"
      /\ pc'[c] \in {"record", "settle"} => code \in Refusals \cup Replays
  BY DEF TypeOK, Present, FindReplay, GetRecord, Dispatch, JoinReturns, Begin, BeginThrows,
         OpenFails, Goto, Hold, ReplayOf, Replays, Refusals, FailureCode
<1>2. pc'[c] \in (Before \ {"idle"}) \cup {"record", "settle", "threw"}
  BY DEF TypeOK, Present, FindReplay, GetRecord, Dispatch, JoinReturns, Begin, BeginThrows,
         OpenFails, Goto, Before
<1>3. pc'[c] \in Before => out'[c] = out[c]
  BY <1>1 DEF Before
<1> HIDE DEF code
<1> QED BY <1>0, <1>1, <1>2, <1>3, OutcomeKept DEF Before, InTxn, Refusals, Replays, code

LEMMA ExecuteOutcomes ==
  ASSUME TypeOK, Outcomes, NEW c \in Calls,
         \/ Open(c) \/ TargetApplies(c) \/ InvokeReturns(c) \/ Complete(c) \/ Append(c)
         \/ Commit(c) \/ ExecuteFails(c) \/ Settle(c) \/ EnterQueue(c) \/ InsertRow(c)
         \/ InsertFails(c)
  PROVE  Outcomes'
<1> USE DEF TypeOK, Goto, Hold, Before, InTxn
<1>1. CASE Open(c) \/ InvokeReturns(c) \/ Complete(c) \/ Append(c)
  <2>1. /\ \A d \in Calls \ {c} : pc'[d] = pc[d] /\ out'[d] = out[d]
        /\ out'[c] = out[c] /\ pc[c] \in Before \cup InTxn /\ pc'[c] \in InTxn
    BY <1>1 DEF Open, InvokeReturns, Complete, Append
  <2> QED BY <2>1, OutcomeKept DEF Outcomes
<1>2. CASE Commit(c)
  BY <1>2, OutcomeKept DEF Commit
<1>3. CASE ExecuteFails(c)
  BY <1>3, OutcomeKept DEF ExecuteFails, FailureCode, Refusals
<1>4. CASE Settle(c) \/ EnterQueue(c)
  <2>1. /\ \A d \in Calls \ {c} : pc'[d] = pc[d] /\ out'[d] = out[d]
        /\ out'[c] = out[c] /\ pc[c] \in {"settle", "record"} /\ pc'[c] \in {"record", "insert"}
    BY <1>4 DEF Settle, EnterQueue
  <2>2. out[c].code \in Refusals \cup Replays /\ out[c].code # "executed"
    BY <2>1 DEF Outcomes
  <2> QED BY <2>1, <2>2, OutcomeKept
<1>5. CASE InsertRow(c) \/ InsertFails(c)
  <2>1. /\ \A d \in Calls \ {c} : pc'[d] = pc[d] /\ out'[d] = out[d]
        /\ out'[c] = out[c] /\ pc[c] = "insert" /\ pc'[c] \in {"answered", "threw"}
    BY <1>5 DEF InsertRow, InsertFails
  <2>2. out[c].code # "executed"
    BY <2>1 DEF Outcomes
  <2> QED BY <2>1, <2>2, OutcomeKept
<1>6. CASE TargetApplies(c)
  BY <1>6 DEF TargetApplies, Outcomes
<1> QED BY <1>1, <1>2, <1>3, <1>4, <1>5, <1>6

LEMMA EnvironmentOutcomes ==
  ASSUME TypeOK, Outcomes, Tick \/ Crash \/ UNCHANGED vars
  PROVE  Outcomes'
<1>1. CASE Tick \/ UNCHANGED vars
  BY <1>1 DEF Tick, vars, Outcomes
<1>2. CASE Crash
  BY <1>2 DEF Crash, Outcomes, TypeOK, Before, InTxn
<1> QED BY <1>1, <1>2

LEMMA OutcomesStep == TypeOK /\ Outcomes /\ [Next]_vars => Outcomes'
  BY PolicyOutcomes, ExecuteOutcomes, EnvironmentOutcomes DEF Next, Step

\* A step that writes no row and no nonce and answers nobody.
LEMMA QuietRows ==
  ASSUME Trail, Paid, tok' = tok, disk'.rows = disk.rows, disk'.spent = disk.spent,
         TypeOK,
         \A d \in Calls : /\ pc'[d] = "answered" <=> pc[d] = "answered"
                          /\ pc[d] = "answered" => out'[d] = out[d]
  PROVE  Trail' /\ Paid'
<1>1. \A r \in disk.rows : r.call \in Calls
  BY DEF TypeOK, Stores, Rows
<1>2. Trail'
  BY <1>1 DEF Trail, AnsweredIsRecorded
<1>3. Paid'
  BY DEF Paid, OneCommitPerNonce, ExecutedRows
<1> QED BY <1>2, <1>3

\* One row is added, for a call that is answered by it.
LEMMA AddTrail ==
  ASSUME Trail, TypeOK, TypeOK', NEW c \in Calls, NEW phase, pc[c] # "answered",
         \A d \in Calls \ {c} : pc'[d] = pc[d] /\ out'[d] = out[d],
         pc'[c] = "answered",
         disk'.rows = disk.rows \cup {[call |-> c, phase |-> phase, code |-> out'[c].code]}
  PROVE  Trail'
<1> DEFINE new == [call |-> c, phase |-> phase, code |-> out'[c].code]
<1>1. \A r \in disk.rows : r.call \in Calls /\ r.call # c
  BY DEF TypeOK, Stores, Rows, Trail
<1>2. new.call = c /\ new.code = out'[c].code
  OBVIOUS
<1> HIDE DEF new
<1>3. disk'.rows = disk.rows \cup {new}
  BY DEF new
<1>4. \A r \in disk'.rows : pc'[r.call] = "answered" /\ r.code = out'[r.call].code
  BY <1>1, <1>2, <1>3 DEF Trail
<1>5. \A d \in Calls : pc'[d] = "answered" =>
        \E r \in disk'.rows : r.call = d /\ r.code = out'[d].code
  BY <1>1, <1>2, <1>3 DEF Trail, AnsweredIsRecorded
<1>6. \A r, s \in disk'.rows : r.call = s.call => r = s
  BY <1>1, <1>2, <1>3 DEF Trail, AnsweredIsRecorded
<1> QED BY <1>4, <1>5, <1>6 DEF Trail, AnsweredIsRecorded

LEMMA CommitRows ==
  ASSUME RowsInv, TypeOK', NEW c \in Calls, Commit(c)
  PROVE  Trail' /\ Paid'
<1>1. /\ pc[c] = "commit" /\ pc'[c] = "answered" /\ out'[c].code = "executed" /\ tok' = tok
      /\ \A d \in Calls \ {c} : pc'[d] = pc[d] /\ out'[d] = out[d]
      /\ txn = c /\ disk' = db /\ TypeOK /\ Trail /\ Paid /\ tok[c] \in Tokens
  BY DEF Commit, Goto, Hold, RowsInv, OneTransaction, Connection, TypeOK, InTxn, input
<1>2. /\ NonceOf[tok[c]] \notin disk.spent
      /\ disk'.spent = disk.spent \cup {NonceOf[tok[c]]}
      /\ disk'.rows = disk.rows \cup {ExecutedRow(c)}
  BY <1>1 DEF RowsInv, OneTransaction, Uncommitted
<1>3. Trail'
  BY <1>1, <1>2, AddTrail DEF ExecutedRow
<1>4. ExecutedRows(disk)' = ExecutedRows(disk) \cup {ExecutedRow(c)} /\ ExecutedRow(c).call = c
  BY <1>2 DEF ExecutedRows, ExecutedRow
<1>5. \A r \in ExecutedRows(disk) : NonceOf[tok[r.call]] # NonceOf[tok[c]]
  <2>1. NonceOf[tok[c]] \in Nonces
    BY <1>1, TokensAssumption
  <2> QED BY <1>1, <1>2, <2>1 DEF Paid
<1> HIDE DEF RowsInv
<1>6. \A n \in Nonces :
        n \in disk'.spent <=> \E r \in ExecutedRows(disk)' : NonceOf[tok'[r.call]] = n
  BY <1>1, <1>2, <1>4 DEF Paid
<1>7. OneCommitPerNonce'
  <2>1. \A r, s \in ExecutedRows(disk)' : NonceOf[tok[r.call]] = NonceOf[tok[s.call]] => r = s
    BY <1>1, <1>4, <1>5 DEF Paid, OneCommitPerNonce
  <2> QED BY <1>1, <2>1 DEF OneCommitPerNonce
<1> QED BY <1>3, <1>6, <1>7 DEF Paid

LEMMA InsertRows ==
  ASSUME RowsInv, TypeOK', NEW c \in Calls, InsertRow(c)
  PROVE  Trail' /\ Paid'
<1>1. /\ pc[c] = "insert" /\ pc'[c] = "answered" /\ out' = out /\ tok' = tok
      /\ \A d \in Calls \ {c} : pc'[d] = pc[d]
      /\ disk' = WithRow(disk, c, Phase(out[c].code), out[c].code)
      /\ TypeOK /\ Trail /\ Paid /\ disk \in Stores
  BY DEF InsertRow, Goto, RowsInv, OneTransaction, Connection, TypeOK, input, Autocommit
<1>2. /\ disk'.spent = disk.spent
      /\ disk'.rows = disk.rows
           \cup {[call |-> c, phase |-> Phase(out[c].code), code |-> out[c].code]}
  BY <1>1, WithRowIs
<1>3. Trail'
  BY <1>1, <1>2, AddTrail
<1>4. out[c].code # "executed"
  BY <1>1 DEF RowsInv, Outcomes
<1>5. ExecutedRows(disk)' = ExecutedRows(disk)
  BY <1>2, <1>4 DEF ExecutedRows
<1>6. Paid'
  BY <1>1, <1>2, <1>5 DEF Paid, OneCommitPerNonce
<1> QED BY <1>3, <1>6

\* A claim and a settle write the record only.
LEMMA KeepsRows ==
  ASSUME db \in Stores, NEW t \in Tokens, NEW c \in Calls, NEW time \in Nat, NEW status
  PROVE  /\ Claimed(t, c, time).spent = db.spent /\ Claimed(t, c, time).rows = db.rows
         /\ Settled(db, t, status).spent = db.spent /\ Settled(db, t, status).rows = db.rows
<1>1. DOMAIN db = {"rec", "spent", "rows"}
  BY DEF Stores
<1>2. /\ Settled(db, t, status).spent = db.spent
      /\ Settled(db, t, status).rows = db.rows
  BY <1>1 DEF Settled
<1>3. Claimed(t, c, time).spent = db.spent /\ Claimed(t, c, time).rows = db.rows
  BY <1>1 DEF Claimed
<1> QED BY <1>2, <1>3

\* Every other step leaves the committed rows and nonces, and the answers, alone.
LEMMA OtherRows ==
  ASSUME RowsInv, NEW c \in Calls,
         \/ Present(c) \/ TargetApplies(c)
         \/ Step(c) /\ ~Commit(c) /\ ~InsertRow(c)
  PROVE  Trail' /\ Paid'
<1> USE DEF Goto, Hold, input
<1>0. TypeOK /\ Trail /\ Paid /\ Connection
  BY DEF RowsInv, OneTransaction
<1>1. /\ tok' = tok
      /\ \A d \in Calls : /\ pc'[d] = "answered" <=> pc[d] = "answered"
                          /\ pc[d] = "answered" => out'[d] = out[d]
  <2>1. CASE Present(c) \/ FindReplay(c) \/ GetRecord(c) \/ Dispatch(c) \/ JoinReturns(c)
    BY <1>0, <2>1 DEF TypeOK, Present, FindReplay, GetRecord, Dispatch, JoinReturns
  <2>2. CASE Begin(c) \/ BeginThrows(c) \/ Open(c) \/ OpenFails(c)
    BY <1>0, <2>2 DEF TypeOK, Begin, BeginThrows, Open, OpenFails
  <2>3. CASE TargetApplies(c) \/ InvokeReturns(c) \/ Complete(c) \/ Append(c) \/ ExecuteFails(c)
    BY <1>0, <2>3 DEF TypeOK, TargetApplies, InvokeReturns, Complete, Append, ExecuteFails
  <2>4. CASE Settle(c) \/ EnterQueue(c) \/ InsertFails(c)
    BY <1>0, <2>4 DEF TypeOK, Settle, EnterQueue, InsertFails
  <2> QED BY <2>1, <2>2, <2>3, <2>4 DEF Step
<1>2. disk'.rows = disk.rows /\ disk'.spent = disk.spent
  <2>1. CASE Begin(c)
    <3>1. db = disk /\ db \in Stores /\ tok[c] \in Tokens /\ at[c] \in Nat
      BY <2>1, <1>0 DEF Begin, Connection, TypeOK
    <3>2. disk' = disk \/ disk' = Claimed(tok[c], c, at[c])
      BY <2>1 DEF Begin, Autocommit
    <3> QED BY <3>1, <3>2, KeepsRows
  <2>2. CASE Settle(c)
    <3>1. db = disk /\ db \in Stores /\ tok[c] \in Tokens
      BY <2>2, <1>0 DEF Settle, Connection, TypeOK
    <3>2. disk' = disk \/ disk' = Settled(db, tok[c], "failed")
      BY <2>2 DEF Settle, Autocommit
    <3> QED BY <3>1, <3>2, KeepsRows
  <2>3. CASE ~Begin(c) /\ ~Settle(c)
    BY <2>3 DEF Step, Present, TargetApplies, FindReplay, GetRecord, Dispatch, JoinReturns,
            BeginThrows, Open, OpenFails, InvokeReturns, Complete, Append, ExecuteFails,
            EnterQueue, InsertFails
  <2> QED BY <2>1, <2>2, <2>3
<1> QED BY <1>0, <1>1, <1>2, QuietRows

LEMMA RowsStep == RowsInv /\ [Next]_vars => RowsInv'
<1> SUFFICES ASSUME RowsInv, [Next]_vars PROVE RowsInv'
  OBVIOUS
<1>1. OneTransaction' /\ TypeOK'
  BY OneTransactionStep DEF RowsInv, OneTransaction
<1>2. Outcomes'
  BY OutcomesStep DEF RowsInv, OneTransaction
<1>3. Trail' /\ Paid'
  <2>1. CASE Tick \/ Crash \/ UNCHANGED vars
    <3>1. /\ UNCHANGED <<tok, disk, out>> /\ TypeOK /\ Trail /\ Paid
          /\ \A d \in Calls : pc'[d] = "answered" <=> pc[d] = "answered"
      BY <2>1 DEF Tick, Crash, vars, input, RowsInv, OneTransaction, TypeOK
    <3> QED BY <3>1, QuietRows
  <2>2. ASSUME NEW c \in Calls, Present(c) \/ Step(c) \/ TargetApplies(c)
        PROVE  Trail' /\ Paid'
    BY <1>1, <2>2, CommitRows, InsertRows, OtherRows
  <2> QED BY <2>1, <2>2 DEF Next
<1> QED BY <1>1, <1>2, <1>3 DEF RowsInv

LEMMA InitRows == Init => RowsInv
<1> SUFFICES ASSUME Init PROVE RowsInv
  OBVIOUS
<1>1. OneTransaction
  BY InitOneTransaction
<1>2. Outcomes /\ Trail /\ Paid
  BY DEF Init, EmptyStore, Outcomes, Trail, Paid, AnsweredIsRecorded, OneCommitPerNonce,
         ExecutedRows
<1> QED BY <1>1, <1>2 DEF RowsInv

LEMMA RowsInvariant == Spec => []RowsInv
  BY InitRows, RowsStep, PTL DEF Spec

\* A nonce pays for one committed execution, whatever the tokens that share it,
\* the number of calls, the failures, the restarts and the windows.
THEOREM NoncePaysOnce == Spec => []OneCommitPerNonce
<1>1. RowsInv => OneCommitPerNonce
  BY DEF RowsInv, Paid
<1> QED BY RowsInvariant, <1>1, PTL

\* Every answered call has left one audit row with the outcome it was given,
\* and no call leaves two, whatever the windows.
THEOREM AnswerLeavesOneRow == Spec => []AnsweredIsRecorded
<1>1. RowsInv => AnsweredIsRecorded
  BY DEF RowsInv, Trail
<1> QED BY RowsInvariant, <1>1, PTL

-----------------------------------------------------------------------------
(***************************************************************************)
(* Outcomes.  While the window covers the token, a committed record keeps  *)
(* its claimant, and is completed by that claimant's commit alone.         *)
(***************************************************************************)

RecordsAdvance ==
  \A t \in Tokens :
    /\ disk.rec[t].status # "none" =>
         disk'.rec[t].status # "none" /\ disk'.rec[t].by = disk.rec[t].by
    /\ disk'.rec[t].status = "completed"
         <=> (disk.rec[t].status = "completed" \/ \E c \in Calls : Commit(c) /\ tok[c] = t)

LEMMA BeginAdvances ==
  ASSUME ScopeCoversToken, SafetyInv, NEW c \in Calls, Begin(c)
  PROVE  RecordsAdvance
<1> DEFINE t == tok[c]
<1>1. txn = None /\ db = disk /\ pc[c] = "begin" /\ t \in Tokens /\ db \in Stores /\ at[c] \in Nat
  BY DEF Begin, SafetyInv, OneTransaction, Connection, TypeOK
<1>2. \A d \in Calls : ~Commit(d)
  BY <1>1, CallsAssumption DEF Commit, SafetyInv, OneTransaction, Connection, InTxn
<1>3. CASE Claimable(db.rec[t], t, at[c])
  <2>1. disk.rec[t].status = "none"
    BY <1>1, <1>3, NoReclaim
  <2>2. disk' = Claimed(t, c, at[c])
    BY <1>1, <1>3 DEF Begin, Autocommit
  <2>3. /\ disk'.rec[t] = [status |-> "pending", created |-> at[c], by |-> c]
        /\ \A u \in Tokens \ {t} : disk'.rec[u] = disk.rec[u]
    BY <1>1, <2>2, ClaimedIs
  <2>4. disk'.rec[t].status = "pending"
    BY <2>3
  <2> HIDE DEF t
  <2> QED BY <1>2, <2>1, <2>3, <2>4 DEF RecordsAdvance
<1>4. CASE ~Claimable(db.rec[t], t, at[c])
  <2>1. disk' = disk
    BY <1>4 DEF Begin
  <2> QED BY <1>2, <2>1 DEF RecordsAdvance
<1> QED BY <1>3, <1>4

LEMMA SettleAdvances ==
  ASSUME SafetyInv, NEW c \in Calls, Settle(c)
  PROVE  RecordsAdvance
<1> DEFINE t == tok[c]
<1>1. /\ txn = None /\ db = disk /\ pc[c] = "settle" /\ t \in Tokens /\ db \in Stores
      /\ disk.rec[t].status = "pending" /\ disk.rec[t] \in Records
  BY DEF Settle, SafetyInv, OneTransaction, Connection, TypeOK, Holding, Stores
<1>2. \A d \in Calls : ~Commit(d)
  BY <1>1, CallsAssumption DEF Commit, SafetyInv, OneTransaction, Connection, InTxn
<1>3. CASE disk' = Settled(db, t, "failed")
  <2>1. /\ disk'.rec[t] = [disk.rec[t] EXCEPT !.status = "failed"]
        /\ \A u \in Tokens \ {t} : disk'.rec[u] = disk.rec[u]
    BY <1>1, <1>3, SettledIs
  <2>2. disk'.rec[t].status = "failed" /\ disk'.rec[t].by = disk.rec[t].by
    BY <1>1, <2>1, StatusOnly
  <2> HIDE DEF t
  <2> QED BY <1>1, <1>2, <2>1, <2>2 DEF RecordsAdvance
<1>4. CASE disk' = disk
  BY <1>2, <1>4 DEF RecordsAdvance
<1> QED BY <1>3, <1>4 DEF Settle, Autocommit

LEMMA CommitAdvances ==
  ASSUME SafetyInv, NEW c \in Calls, Commit(c)
  PROVE  /\ RecordsAdvance
         /\ disk'.rec[tok[c]].status = "completed" /\ disk'.rec[tok[c]].by = c
<1> DEFINE t == tok[c]
<1>1. /\ txn = c /\ pc[c] = "commit" /\ t \in Tokens /\ disk' = db
      /\ disk.rec[t].status = "pending" /\ disk.rec[t] \in Records /\ disk.rec[t].by = c
  BY DEF Commit, SafetyInv, OneTransaction, Connection, TypeOK, Holding, Stores, InTxn
<1>2. /\ \A u \in Tokens \ {t} : disk'.rec[u] = disk.rec[u]
      /\ disk'.rec[t] = [disk.rec[t] EXCEPT !.status = "completed"]
  BY <1>1 DEF SafetyInv, OneTransaction, Uncommitted
<1>3. disk'.rec[t].status = "completed" /\ disk'.rec[t].by = disk.rec[t].by
  BY <1>1, <1>2, StatusOnly
<1>4. \A d \in Calls : Commit(d) => d = c
  BY <1>1 DEF Commit, SafetyInv, OneTransaction, Connection, InTxn
<1>5. RecordsAdvance
  <2> HIDE DEF SafetyInv
  <2> QED BY <1>1, <1>2, <1>3, <1>4 DEF RecordsAdvance
<1> QED BY <1>1, <1>3, <1>5

LEMMA RecordsStep == ScopeCoversToken /\ SafetyInv /\ [Next]_vars => RecordsAdvance
<1> SUFFICES ASSUME ScopeCoversToken, SafetyInv, [Next]_vars PROVE RecordsAdvance
  OBVIOUS
<1>1. CASE \E c \in Calls : Begin(c) \/ Settle(c) \/ Commit(c)
  BY <1>1, BeginAdvances, SettleAdvances, CommitAdvances
<1>2. CASE \A c \in Calls : ~Begin(c) /\ ~Settle(c) /\ ~Commit(c)
  <2>1. disk'.rec = disk.rec
    <3>1. CASE \E c \in Calls : InsertRow(c)
      <4>1. PICK c \in Calls : InsertRow(c)
        BY <3>1
      <4>2. disk' = WithRow(db, c, Phase(out[c].code), out[c].code) /\ db = disk /\ db \in Stores
        BY <4>1 DEF InsertRow, Autocommit, SafetyInv, OneTransaction, Connection, TypeOK
      <4> QED BY <4>2, WithRowIs
    <3>2. CASE \A c \in Calls : ~InsertRow(c)
      BY <1>2, <3>2
      DEF Next, Step, vars, clock, input, target, Tick, Crash, Present, FindReplay, GetRecord,
          Dispatch, JoinReturns, BeginThrows, Open, OpenFails, TargetApplies, InvokeReturns,
          Complete, Append, ExecuteFails, EnterQueue, InsertFails
    <3> QED BY <3>1, <3>2
  <2> QED BY <1>2, <2>1 DEF RecordsAdvance
<1> QED BY <1>1, <1>2

\* But for a commit, a step changes one outcome at most: one not yet held, and
\* not to "executed".
LEMMA OutcomeMoves ==
  ASSUME TypeOK, NEW d \in Calls, Present(d) \/ Step(d) \/ TargetApplies(d), ~Commit(d)
  PROVE  /\ \A c \in Calls \ {d} : out'[c] = out[c]
         /\ \/ out'[d] = out[d]
            \/ /\ pc[d] \in Before \cup InTxn
               /\ out'[d].code \in {"threw"} \cup Replays \cup Refusals
<1> USE DEF TypeOK, Hold, Before, InTxn
<1>1. CASE \/ Present(d) \/ FindReplay(d) \/ GetRecord(d) \/ BeginThrows(d) \/ OpenFails(d)
           \/ ExecuteFails(d)
  BY <1>1 DEF Present, FindReplay, GetRecord, BeginThrows, OpenFails, ExecuteFails, ReplayOf,
          FailureCode, Replays, Refusals
<1>2. CASE JoinReturns(d)
  BY <1>2 DEF JoinReturns, Replays
<1>3. CASE Begin(d)
  BY <1>3 DEF Begin, ReplayOf, Replays, Refusals
<1>4. CASE \/ Dispatch(d) \/ Open(d) \/ TargetApplies(d) \/ InvokeReturns(d) \/ Complete(d)
           \/ Append(d) \/ Settle(d) \/ EnterQueue(d) \/ InsertRow(d) \/ InsertFails(d)
  BY <1>4 DEF Dispatch, Open, TargetApplies, InvokeReturns, Complete, Append, Settle, EnterQueue,
          InsertRow, InsertFails
<1> QED BY <1>1, <1>2, <1>3, <1>4 DEF Step

\* Only a commit tells a call that it was executed, and nothing takes it back.
LEMMA ToldStep ==
  ASSUME TypeOK, Outcomes, [Next]_vars, NEW c \in Calls
  PROVE  out'[c].code = "executed" <=> (out[c].code = "executed" \/ Commit(c))
<1>1. CASE Tick \/ Crash \/ UNCHANGED vars
  <2>1. ~Commit(c)
    BY <1>1 DEF Tick, Crash, vars, Commit, TypeOK, Goto, clock
  <2> QED BY <1>1, <2>1 DEF Tick, Crash, vars
<1>2. ASSUME NEW d \in Calls, Present(d) \/ Step(d) \/ TargetApplies(d)
      PROVE  out'[c].code = "executed" <=> (out[c].code = "executed" \/ Commit(c))
  <2>1. CASE Commit(d)
    BY <2>1 DEF Commit, Hold, Goto, TypeOK
  <2>2. CASE ~Commit(d)
    <3>1. ~Commit(c)
      BY <1>2, <2>2
      DEF Step, Present, TargetApplies, FindReplay, GetRecord, Dispatch, JoinReturns, Begin,
          BeginThrows, Open, OpenFails, InvokeReturns, Complete, Append, ExecuteFails, Settle,
          EnterQueue, InsertRow, InsertFails, Commit, Goto, TypeOK
    <3>2. out'[c] = out[c] \/ (out[c].code # "executed" /\ out'[c].code # "executed")
      BY <1>2, <2>2, OutcomeMoves DEF Outcomes, Replays, Refusals
    <3> QED BY <3>1, <3>2
  <2> QED BY <2>1, <2>2
<1> QED BY <1>1, <1>2 DEF Next

LEMMA InputKept == [Next]_vars => tok' = tok /\ applied \subseteq applied'
<1> USE DEF input, target
<1>1. Tick \/ Crash \/ UNCHANGED vars => tok' = tok /\ applied \subseteq applied'
  BY DEF Tick, Crash, vars
<1>2. ASSUME NEW c \in Calls, Present(c) \/ TargetApplies(c) \/ Step(c)
      PROVE  tok' = tok /\ applied \subseteq applied'
  <2>1. CASE \/ Present(c) \/ FindReplay(c) \/ GetRecord(c) \/ Dispatch(c) \/ JoinReturns(c)
             \/ Begin(c) \/ BeginThrows(c) \/ Open(c) \/ OpenFails(c)
    BY <2>1 DEF Present, FindReplay, GetRecord, Dispatch, JoinReturns, Begin, BeginThrows, Open,
           OpenFails
  <2>2. CASE \/ TargetApplies(c) \/ InvokeReturns(c) \/ Complete(c) \/ Append(c) \/ Commit(c)
             \/ ExecuteFails(c) \/ Settle(c) \/ EnterQueue(c) \/ InsertRow(c) \/ InsertFails(c)
    BY <2>2 DEF TargetApplies, InvokeReturns, Complete, Append, Commit, ExecuteFails, Settle,
           EnterQueue, InsertRow, InsertFails
  <2> QED BY <1>2, <2>1, <2>2 DEF Step
<1> QED BY <1>1, <1>2 DEF Next

LEMMA ToldIsRecordStep ==
  ASSUME ScopeCoversToken, SafetyInv, Outcomes, ToldIsRecord, [Next]_vars
  PROVE  ToldIsRecord'
<1>0. tok' = tok
  BY InputKept
<1> SUFFICES ASSUME NEW c \in Calls
             PROVE  out'[c].code = "executed"
                      <=> (disk'.rec[tok[c]].status = "completed" /\ disk'.rec[tok[c]].by = c)
  BY <1>0 DEF ToldIsRecord
<1>1. TypeOK /\ tok[c] \in Tokens
  BY DEF SafetyInv, OneTransaction, TypeOK
<1>2. RecordsAdvance
  BY RecordsStep
<1>3. out'[c].code = "executed" <=> (out[c].code = "executed" \/ Commit(c))
  BY <1>1, ToldStep
<1>4. \A d \in Calls : Commit(d) =>
        disk'.rec[tok[d]].status = "completed" /\ disk'.rec[tok[d]].by = d
  BY CommitAdvances
<1> QED BY <1>1, <1>2, <1>3, <1>4 DEF RecordsAdvance, ToldIsRecord

\* Where a step takes the call it runs for.
LEMMA CounterMoves ==
  ASSUME TypeOK, NEW d \in Calls, Present(d) \/ Step(d) \/ TargetApplies(d)
  PROVE  /\ \A c \in Calls \ {d} : pc'[c] = pc[c]
         /\ pc[d] \notin Before => pc'[d] \notin Before
         /\ pc'[d] \in {"complete", "append", "commit"} =>
              pc[d] \in {"complete", "append", "commit"} \/ InvokeReturns(d)
         /\ pc'[d] = "joined" => Dispatch(d) \/ pc'[d] = pc[d]
<1> USE DEF TypeOK, Goto, Before
<1>1. CASE Present(d) \/ FindReplay(d) \/ GetRecord(d) \/ JoinReturns(d)
  BY <1>1 DEF Present, FindReplay, GetRecord, JoinReturns
<1>6. CASE BeginThrows(d) \/ Open(d) \/ OpenFails(d)
  BY <1>6 DEF BeginThrows, Open, OpenFails
<1>2. CASE Dispatch(d)
  BY <1>2 DEF Dispatch
<1>3. CASE Begin(d)
  BY <1>3 DEF Begin
<1>4. CASE InvokeReturns(d) \/ Complete(d) \/ Append(d) \/ Commit(d) \/ ExecuteFails(d)
  BY <1>4 DEF InvokeReturns, Complete, Append, Commit, ExecuteFails
<1>5. CASE \/ Settle(d) \/ EnterQueue(d) \/ InsertRow(d) \/ InsertFails(d) \/ TargetApplies(d)
  BY <1>5 DEF Settle, EnterQueue, InsertRow, InsertFails, TargetApplies
<1> QED BY <1>1, <1>2, <1>3, <1>4, <1>5, <1>6 DEF Step

\* The map and the joined calls.
LEMMA FlightsStep == TypeOK /\ Flights /\ [Next]_vars => Flights'
<1> SUFFICES ASSUME TypeOK, Flights, [Next]_vars PROVE Flights'
  OBVIOUS
<1>1. tok' = tok
  BY InputKept
<1>2. ASSUME NEW t \in Tokens
      PROVE  \/ flight'[t] \in {flight[t], None}
             \/ flight'[t] \in Calls /\ tok[flight'[t]] = t
  <2>1. CASE Tick \/ Crash \/ UNCHANGED vars
    BY <2>1 DEF Tick, Crash, vars
  <2>2. ASSUME NEW c \in Calls, Dispatch(c)
        PROVE  flight'[t] = flight[t] \/ (flight'[t] \in Calls /\ tok[flight'[t]] = t)
    BY <2>2 DEF Dispatch, TypeOK
  <2>3. ASSUME NEW c \in Calls, Present(c) \/ Step(c) \/ TargetApplies(c), ~Dispatch(c)
        PROVE  flight'[t] \in {flight[t], None}
    BY <2>3
    DEF Step, LeaveFlight, Present, FindReplay, GetRecord, JoinReturns, Begin, BeginThrows, Open,
        OpenFails, TargetApplies, InvokeReturns, Complete, Append, Commit, ExecuteFails, Settle,
        EnterQueue, InsertRow, InsertFails
  <2> QED BY <2>1, <2>2, <2>3 DEF Next
<1>3. ASSUME NEW c \in Calls, pc'[c] = "joined"
      PROVE  \/ pc[c] = "joined" /\ peer'[c] = peer[c]
             \/ peer'[c] = flight[tok[c]] /\ flight[tok[c]] # None
  <2>1. CASE Tick \/ Crash \/ UNCHANGED vars
    BY <1>3, <2>1 DEF Tick, Crash, vars
  <2>2. ASSUME NEW d \in Calls, Dispatch(d)
        PROVE  \/ pc[c] = "joined" /\ peer'[c] = peer[c]
               \/ peer'[c] = flight[tok[c]] /\ flight[tok[c]] # None
    BY <1>3, <2>2 DEF Dispatch, Goto, TypeOK
  <2>3. ASSUME NEW d \in Calls, Present(d) \/ Step(d) \/ TargetApplies(d), ~Dispatch(d)
        PROVE  pc[c] = "joined" /\ peer'[c] = peer[c]
    <3>1. pc'[c] = pc[c]
      BY <1>3, <2>3, CounterMoves
    <3>2. peer' = peer
      BY <2>3
      DEF Step, Present, FindReplay, GetRecord, JoinReturns, Begin, BeginThrows, Open,
          OpenFails, TargetApplies, InvokeReturns, Complete, Append, Commit, ExecuteFails, Settle,
          EnterQueue, InsertRow, InsertFails
    <3> QED BY <1>3, <3>1, <3>2
  <2> QED BY <2>1, <2>2, <2>3 DEF Next
<1> QED BY <1>1, <1>2, <1>3 DEF Flights, TypeOK

\* The records an execution is told from, committed or not.
LEMMA RecordsBacked ==
  ASSUME SafetyInv, Backed, BackedBy(db), BackedBy(disk), [Next]_vars
  PROVE  BackedBy(db)' /\ BackedBy(disk)'
<1> USE DEF BackedBy
<1>1. tok' = tok /\ applied \subseteq applied'
  BY InputKept
<1>2. TypeOK /\ Connection /\ Uncommitted
  BY DEF SafetyInv, OneTransaction
<1>3. ASSUME NEW c \in Calls, Begin(c) PROVE BackedBy(db)' /\ BackedBy(disk)'
  <2>1. tok[c] \in Tokens /\ db \in Stores /\ at[c] \in Nat /\ db = disk
    BY <1>2, <1>3 DEF Begin, TypeOK, Connection
  <2>2. db' = disk' /\ (disk' = disk \/ disk' = Claimed(tok[c], c, at[c]))
    BY <1>3, <2>1 DEF Begin, Autocommit
  <2>3. /\ Claimed(tok[c], c, at[c]).rec[tok[c]].status = "pending"
        /\ \A t \in Tokens \ {tok[c]} : Claimed(tok[c], c, at[c]).rec[t] = disk.rec[t]
    <3>1. /\ Claimed(tok[c], c, at[c]).rec[tok[c]] =
               [status |-> "pending", created |-> at[c], by |-> c]
          /\ \A t \in Tokens \ {tok[c]} : Claimed(tok[c], c, at[c]).rec[t] = db.rec[t]
      BY <2>1, ClaimedIs
    <3> QED BY <2>1, <3>1
  <2>4. \A t \in Tokens :
          disk'.rec[t].status = "completed" => disk'.rec[t] = disk.rec[t]
    BY <2>2, <2>3
  <2> QED BY <1>1, <2>1, <2>2, <2>4
<1>4. ASSUME NEW c \in Calls, Settle(c) PROVE BackedBy(db)' /\ BackedBy(disk)'
  <2>1. /\ tok[c] \in Tokens /\ db \in Stores /\ db = disk /\ db.rec[tok[c]].status = "pending"
        /\ db.rec[tok[c]] \in Records
    BY <1>2, <1>4 DEF Settle, TypeOK, Connection, SafetyInv, Holding, Stores
  <2>2. db' = disk' /\ (disk' = disk \/ disk' = Settled(db, tok[c], "failed"))
    BY <1>4, <2>1 DEF Settle, Autocommit
  <2>3. /\ Settled(db, tok[c], "failed").rec[tok[c]].status = "failed"
        /\ \A t \in Tokens \ {tok[c]} : Settled(db, tok[c], "failed").rec[t] = disk.rec[t]
    <3>1. /\ Settled(db, tok[c], "failed").rec[tok[c]] = [db.rec[tok[c]] EXCEPT !.status = "failed"]
          /\ \A t \in Tokens \ {tok[c]} : Settled(db, tok[c], "failed").rec[t] = db.rec[t]
      BY <2>1, SettledIs
    <3>2. [db.rec[tok[c]] EXCEPT !.status = "failed"].status = "failed"
      BY <2>1, StatusOnly
    <3> QED BY <2>1, <3>1, <3>2
  <2>4. \A t \in Tokens :
          disk'.rec[t].status = "completed" => disk'.rec[t] = disk.rec[t]
    BY <2>2, <2>3
  <2> QED BY <1>1, <2>1, <2>2, <2>4
<1>5. ASSUME NEW c \in Calls, Complete(c) PROVE BackedBy(db)' /\ BackedBy(disk)'
  <2>1. /\ pc[c] = "complete" /\ txn = c /\ tok[c] \in Tokens /\ db \in Stores /\ disk' = disk
        /\ db.rec[tok[c]].status = "pending" /\ db.rec[tok[c]] = disk.rec[tok[c]]
        /\ db.rec[tok[c]] \in Records
        /\ disk.rec[tok[c]].by = c /\ c \in applied
    <3>1. pc[c] = "complete" /\ disk' = disk
      BY <1>5 DEF Complete
    <3>2. tok[c] \in Tokens /\ db \in Stores /\ db.rec[tok[c]] \in Records
      BY <1>2 DEF TypeOK, Stores
    <3>3. txn = c
      BY <1>2, <3>1 DEF Connection, InTxn
    <3>4. db.rec[tok[c]] = disk.rec[tok[c]]
      BY <1>2, <3>1, <3>3 DEF Uncommitted
    <3>5. disk.rec[tok[c]].status = "pending" /\ disk.rec[tok[c]].by = c
      BY <3>1 DEF SafetyInv, Holding, InTxn
    <3>6. c \in applied
      BY <3>1 DEF Backed
    <3> QED BY <3>1, <3>2, <3>3, <3>4, <3>5, <3>6
  <2>2. /\ db'.rec[tok[c]] = [db.rec[tok[c]] EXCEPT !.status = "completed"]
        /\ \A t \in Tokens \ {tok[c]} : db'.rec[t] = db.rec[t]
    BY <1>5, <2>1, SettledIs DEF Complete
  <2>3. db'.rec[tok[c]].by = c
    <3>1. [db.rec[tok[c]] EXCEPT !.status = "completed"].by = db.rec[tok[c]].by
      BY <2>1, StatusOnly
    <3> QED BY <2>1, <2>2, <3>1
  <2>4. \A t \in Tokens \ {tok[c]} : db'.rec[t] = db.rec[t]
    BY <2>2
  <2> QED BY <1>1, <2>1, <2>3, <2>4
<1>6. ASSUME NEW c \in Calls, Open(c) \/ Append(c) \/ InsertRow(c)
      PROVE  BackedBy(db)' /\ BackedBy(disk)'
  <2>1. db'.rec = db.rec /\ disk'.rec = disk.rec
    <3>1. CASE Open(c)
      BY <3>1, <1>2 DEF Open, TypeOK, Stores
    <3>2. CASE Append(c)
      BY <3>2, <1>2, WithRowIs DEF Append, TypeOK
    <3>3. CASE InsertRow(c)
      BY <3>3, <1>2, WithRowIs DEF InsertRow, Autocommit, TypeOK, Connection
    <3> QED BY <1>6, <3>1, <3>2, <3>3
  <2> QED BY <1>1, <2>1
<1>7. ASSUME NEW c \in Calls, Commit(c) \/ ExecuteFails(c)
      PROVE  BackedBy(db)' /\ BackedBy(disk)'
  <2>1. /\ db' = db \/ db' = disk
        /\ disk' = db \/ disk' = disk
    BY <1>7 DEF Commit, ExecuteFails, RolledBack
  <2> QED BY <1>1, <2>1
<1>8. ASSUME \A c \in Calls : /\ ~Begin(c) /\ ~Settle(c) /\ ~Complete(c) /\ ~Open(c) /\ ~Append(c)
                              /\ ~InsertRow(c) /\ ~Commit(c) /\ ~ExecuteFails(c)
      PROVE  BackedBy(db)' /\ BackedBy(disk)'
  <2>1. disk' = disk /\ (db' = db \/ db' = disk)
    BY <1>8 DEF Next, Step, vars, Tick, Crash, RolledBack, Present, FindReplay, GetRecord,
           Dispatch, JoinReturns, BeginThrows, OpenFails, TargetApplies, InvokeReturns,
           EnterQueue, InsertFails
  <2> QED BY <1>1, <2>1
<1> QED BY <1>3, <1>4, <1>5, <1>6, <1>7, <1>8

\* The calls that tell of an execution.
LEMMA BackedStep ==
  ASSUME OutcomeInv, [Next]_vars
  PROVE  Backed'
<1>0. /\ TypeOK /\ Outcomes /\ Backed /\ BackedBy(db) /\ Flights
      /\ tok' = tok /\ applied \subseteq applied'
  BY InputKept DEF OutcomeInv, SafetyInv, OneTransaction, RowsInv
<1> SUFFICES ASSUME NEW c \in Calls
             PROVE  /\ pc'[c] \in {"complete", "append", "commit"} => c \in applied'
                    /\ out'[c].code = "executed" => out'[c].of = c /\ c \in applied'
                    /\ out'[c].code = "replayed" =>
                         out'[c].of \in applied' /\ tok[out'[c].of] = tok[c]
  BY <1>0 DEF Backed
<1>1. ASSUME pc'[c] \in {"complete", "append", "commit"} PROVE c \in applied'
  <2>1. pc[c] \in {"complete", "append", "commit"} \/ InvokeReturns(c)
    <3>1. CASE Tick \/ Crash \/ UNCHANGED vars
      BY <1>1, <3>1 DEF Tick, Crash, vars
    <3>2. ASSUME NEW d \in Calls, Present(d) \/ Step(d) \/ TargetApplies(d)
          PROVE  pc[c] \in {"complete", "append", "commit"} \/ InvokeReturns(c)
      BY <1>0, <1>1, <3>2, CounterMoves
    <3> QED BY <3>1, <3>2 DEF Next
  <2> QED BY <1>0, <2>1 DEF Backed, InvokeReturns
<1>2. CASE out'[c] = out[c]
  BY <1>0, <1>1, <1>2 DEF Backed
<1>3. CASE Commit(c)
  <2>1. out'[c].code = "executed" /\ out'[c].of = c /\ c \in applied
    BY <1>0, <1>3 DEF Commit, Hold, TypeOK, Backed
  <2> QED BY <1>0, <1>1, <2>1
<1>4. CASE out'[c] # out[c] /\ ~Commit(c)
  <2>1. /\ FindReplay(c) \/ Begin(c) \/ JoinReturns(c) \/ out'[c].code \notin Replays
        /\ out'[c].code # "executed"
    <3>1. PICK d \in Calls : Present(d) \/ Step(d) \/ TargetApplies(d)
      BY <1>4 DEF Next, Tick, Crash, vars
    <3>2. CASE Commit(d)
      BY <1>0, <1>4, <3>2 DEF Commit, Hold, TypeOK
    <3>3. CASE ~Commit(d)
      <4>1. d = c /\ out'[c].code \in {"threw"} \cup Replays \cup Refusals
        BY <1>0, <1>4, <3>1, <3>3, OutcomeMoves
      <4>2. \/ FindReplay(c) \/ Begin(c) \/ JoinReturns(c)
            \/ Present(c) \/ GetRecord(c) \/ BeginThrows(c) \/ OpenFails(c) \/ ExecuteFails(c)
        BY <1>4, <3>1, <3>3, <4>1
        DEF Step, TargetApplies, Dispatch, Open, InvokeReturns, Complete, Append, Settle,
            EnterQueue, InsertRow, InsertFails
      <4>3. Present(c) \/ GetRecord(c) \/ BeginThrows(c) \/ OpenFails(c) \/ ExecuteFails(c)
              => out'[c].code \notin Replays
        BY <1>0, <1>4 DEF Present, GetRecord, BeginThrows, OpenFails, ExecuteFails, Hold, TypeOK,
                     Replays, FailureCode
      <4> QED BY <4>1, <4>2, <4>3 DEF Replays, Refusals
    <3> QED BY <3>2, <3>3
  <2>2. ASSUME FindReplay(c) \/ Begin(c), out'[c].code = "replayed"
        PROVE  out'[c].of \in applied /\ tok[out'[c].of] = tok[c]
    <3>1. tok[c] \in Tokens
      BY <1>0 DEF TypeOK
    <3>2. out'[c].of = db.rec[tok[c]].by /\ db.rec[tok[c]].status = "completed"
      BY <1>0, <1>4, <2>2 DEF FindReplay, Begin, Hold, TypeOK, ReplayOf
    <3> QED BY <1>0, <3>1, <3>2 DEF BackedBy
  <2>3. ASSUME JoinReturns(c), out'[c].code = "replayed"
        PROVE  out'[c].of \in applied /\ tok[out'[c].of] = tok[c]
    <3>1. peer[c] \in Calls /\ tok[peer[c]] = tok[c]
      BY <1>0, <2>3 DEF JoinReturns, TypeOK, Flights
    <3>2. out'[c].of = out[peer[c]].of /\ out[peer[c]].code \in {"executed", "replayed"}
      BY <1>0, <2>3 DEF JoinReturns, Hold, TypeOK
    <3> QED BY <1>0, <3>1, <3>2 DEF Backed
  <2> QED BY <1>0, <1>1, <2>1, <2>2, <2>3 DEF Replays
<1> QED BY <1>2, <1>3, <1>4

\* A call that has left for an answer never comes back to where it can be sent.
LEMMA PastSending ==
  ASSUME TypeOK, [Next]_vars, NEW c \in Calls, pc[c] \notin Before
  PROVE  pc'[c] \notin Before /\ (c \in sent' => c \in sent)
<1>1. pc'[c] \notin Before
  <2>1. CASE Tick \/ Crash \/ UNCHANGED vars
    BY <2>1 DEF Tick, Crash, vars, Before
  <2>2. ASSUME NEW d \in Calls, Present(d) \/ Step(d) \/ TargetApplies(d)
        PROVE  pc'[c] \notin Before
    BY <2>2, CounterMoves
  <2> QED BY <2>1, <2>2 DEF Next
<1>2. c \in sent' => c \in sent
  <2> USE DEF Before, target, clock
  <2>1. CASE Tick \/ Crash \/ UNCHANGED vars
    BY <2>1 DEF Tick, Crash, vars
  <2>2. ASSUME NEW d \in Calls, Present(d) \/ Step(d) \/ TargetApplies(d)
        PROVE  c \in sent' => c \in sent
    <3>1. CASE \/ Present(d) \/ FindReplay(d) \/ GetRecord(d) \/ Dispatch(d) \/ JoinReturns(d)
               \/ Begin(d) \/ BeginThrows(d) \/ Open(d) \/ OpenFails(d)
      BY <3>1 DEF Present, FindReplay, GetRecord, Dispatch, JoinReturns, Begin, BeginThrows,
             Open, OpenFails
    <3>2. CASE \/ TargetApplies(d) \/ InvokeReturns(d) \/ Complete(d) \/ Append(d) \/ Commit(d)
               \/ ExecuteFails(d) \/ Settle(d) \/ EnterQueue(d) \/ InsertRow(d) \/ InsertFails(d)
      BY <3>2 DEF TargetApplies, InvokeReturns, Complete, Append, Commit, ExecuteFails, Settle,
             EnterQueue, InsertRow, InsertFails
    <3> QED BY <2>2, <3>1, <3>2 DEF Step
  <2> QED BY <2>1, <2>2 DEF Next
<1> QED BY <1>1, <1>2

\* A refusal of the gateway's own is told to a call that was not sent, and with
\* INTERNAL the claimant is one that was not sent either.
LEMMA UnsentStep ==
  ASSUME ScopeCoversToken, OutcomeInv, [Next]_vars
  PROVE  Unsent'
<1>0. /\ TypeOK /\ Outcomes /\ Flights /\ Unsent /\ Claims /\ Holding /\ SafetyInv /\ tok' = tok
      /\ RecordsAdvance
  BY InputKept, RecordsStep DEF OutcomeInv, SafetyInv, OneTransaction, RowsInv
<1> SUFFICES ASSUME NEW c \in Calls
             PROVE  /\ out'[c].code \in ToldNotSent => c \notin sent'
                    /\ out'[c].code = "INTERNAL" =>
                         /\ disk'.rec[tok[c]].status # "none"
                         /\ disk'.rec[tok[c]].by \in Calls \ sent'
                         /\ pc'[disk'.rec[tok[c]].by] \notin Before
  BY <1>0 DEF Unsent
<1> USE DEF ToldNotSent
<1>1. tok[c] \in Tokens
  BY <1>0 DEF TypeOK
\* What was true of the claimant stays true.
<1>2. ASSUME disk.rec[tok[c]].status # "none", disk.rec[tok[c]].by \in Calls \ sent,
             pc[disk.rec[tok[c]].by] \notin Before
      PROVE  /\ disk'.rec[tok[c]].status # "none"
             /\ disk'.rec[tok[c]].by \in Calls \ sent'
             /\ pc'[disk'.rec[tok[c]].by] \notin Before
  BY <1>0, <1>1, <1>2, PastSending DEF RecordsAdvance
<1>3. CASE out'[c] = out[c]
  <2>1. out[c].code \in Refusals \cup {"threw"} => pc[c] \notin Before
    BY <1>0 DEF Outcomes, Refusals
  <2>2. out[c].code \in ToldNotSent => c \notin sent'
    BY <1>0, <2>1, PastSending DEF Unsent
  <2> QED BY <1>0, <1>2, <1>3, <2>2 DEF Unsent
<1>4. CASE Commit(c)
  <2>1. out'[c].code = "executed"
    BY <1>0, <1>4 DEF Commit, Hold, TypeOK
  <2> QED BY <2>1 DEF Refusals
<1>5. CASE out'[c] # out[c] /\ ~Commit(c)
  <2>1. /\ \/ Present(c) \/ FindReplay(c) \/ GetRecord(c) \/ JoinReturns(c) \/ Begin(c)
           \/ BeginThrows(c) \/ OpenFails(c) \/ ExecuteFails(c)
        /\ sent' = sent
    <3>1. PICK d \in Calls : Present(d) \/ Step(d) \/ TargetApplies(d)
      BY <1>5 DEF Next, Tick, Crash, vars
    <3>2. CASE Commit(d)
      BY <1>0, <1>5, <3>2 DEF Commit, Hold, TypeOK
    <3>3. CASE ~Commit(d)
      <4>1. d = c
        BY <1>0, <1>5, <3>1, <3>3, OutcomeMoves
      <4>2. \/ Present(c) \/ FindReplay(c) \/ GetRecord(c) \/ JoinReturns(c) \/ Begin(c)
            \/ BeginThrows(c) \/ OpenFails(c) \/ ExecuteFails(c)
        BY <1>5, <3>1, <3>3, <4>1
        DEF Step, TargetApplies, Dispatch, Open, InvokeReturns, Complete, Append, Settle,
            EnterQueue, InsertRow, InsertFails
      <4> QED BY <4>2 DEF target, Present, FindReplay, GetRecord, JoinReturns, Begin, BeginThrows,
                         OpenFails, ExecuteFails
    <3> QED BY <3>2, <3>3
  <2>2. CASE ExecuteFails(c)
    <3>1. out'[c].code = "TARGET_ERROR"
      BY <1>0, <2>2 DEF ExecuteFails, Hold, TypeOK, FailureCode
    <3> QED BY <3>1
  <2>3. CASE OpenFails(c)
    <3>1. pc[c] = "open" /\ pc'[c] = "settle" /\ disk' = disk
      BY <1>0, <2>3 DEF OpenFails, Goto, TypeOK
    <3>2. c \notin sent /\ disk.rec[tok[c]].status = "pending" /\ disk.rec[tok[c]].by = c
      BY <1>0, <3>1 DEF Claims, Holding, Before
    <3> QED BY <2>1, <3>1, <3>2 DEF Before
  <2>4. CASE JoinReturns(c)
    <3>1. pc[c] = "joined" /\ peer[c] \in Calls /\ tok[peer[c]] = tok[c]
      BY <1>0, <2>4 DEF JoinReturns, TypeOK, Flights
    <3>2. c \notin sent'
      BY <1>0, <2>1, <3>1 DEF Claims, Before
    <3>3. out'[c].code = "INTERNAL" => out[peer[c]].code = "INTERNAL"
      BY <1>0, <2>4 DEF JoinReturns, Hold, TypeOK
    <3> QED BY <1>0, <1>2, <3>1, <3>2, <3>3 DEF Unsent
  <2>5. CASE \/ Present(c) \/ FindReplay(c) \/ GetRecord(c) \/ Begin(c) \/ BeginThrows(c)
    <3>1. pc[c] \in Before
      BY <2>5 DEF Before, Present, FindReplay, GetRecord, Begin, BeginThrows
    <3>2. c \notin sent'
      BY <1>0, <2>1, <3>1 DEF Claims
    <3>3. out'[c].code # "INTERNAL"
      BY <1>0, <1>5, <2>5
      DEF Present, FindReplay, GetRecord, Begin, BeginThrows, Hold, TypeOK, ReplayOf
    <3> QED BY <3>2, <3>3
  <2> QED BY <2>1, <2>2, <2>3, <2>4, <2>5
<1> QED BY <1>3, <1>4, <1>5

LEMMA OutcomeInvariant == ASSUME ScopeCoversToken PROVE Spec => []OutcomeInv
<1>1. Init => OutcomeInv
  <2> SUFFICES ASSUME Init PROVE OutcomeInv
    OBVIOUS
  <2>1. SafetyInv /\ RowsInv
    BY InitSafety, InitRows
  <2>2. Flights /\ Backed /\ BackedBy(db) /\ BackedBy(disk) /\ ToldIsRecord /\ Unsent
    BY DEF Init, EmptyStore, NoRecord, Refusals, Flights, Backed, BackedBy, ToldIsRecord, Unsent,
           ToldNotSent
  <2> QED BY <2>1, <2>2 DEF OutcomeInv
<1>2. OutcomeInv /\ [Next]_vars => OutcomeInv'
  <2> SUFFICES ASSUME OutcomeInv, [Next]_vars PROVE OutcomeInv'
    OBVIOUS
  <2>1. SafetyInv' /\ RowsInv'
    BY SafetyStep, RowsStep DEF OutcomeInv
  <2>2. Flights' /\ BackedBy(db)' /\ BackedBy(disk)' /\ ToldIsRecord'
    BY FlightsStep, RecordsBacked, ToldIsRecordStep
    DEF OutcomeInv, SafetyInv, RowsInv, OneTransaction
  <2>3. Backed' /\ Unsent'
    BY BackedStep, UnsentStep
  <2> QED BY <2>1, <2>2, <2>3 DEF OutcomeInv
<1> QED BY <1>1, <1>2, PTL DEF Spec

\* An executed row is that of a call told "executed", and there is one for each.
LEMMA RowIsOutcome ==
  ASSUME RowsInv, NEW c \in Calls
  PROVE  (\E r \in ExecutedRows(disk) : r.call = c) <=> out[c].code = "executed"
<1>1. \A r \in ExecutedRows(disk) : r.call = c => out[c].code = "executed"
  BY DEF RowsInv, Trail, ExecutedRows
<1>2. ASSUME out[c].code = "executed" PROVE \E r \in ExecutedRows(disk) : r.call = c
  <2>1. pc[c] = "answered"
    BY <1>2 DEF RowsInv, Outcomes
  <2> QED BY <1>2, <2>1 DEF RowsInv, Trail, AnsweredIsRecorded, ExecutedRows
<1> QED BY <1>1, <1>2

\* Nonce, outcome and audit row are committed together or not at all.
THEOREM CommitIsOneUnit == ASSUME ScopeCoversToken PROVE Spec => []CommittedUnit
<1>1. OutcomeInv => CommittedUnit
  BY RowIsOutcome DEF OutcomeInv, RowsInv, Paid, ToldIsRecord, CommittedUnit
<1> QED BY OutcomeInvariant, <1>1, PTL

\* Who is told of an execution is told of a committed one the target applied,
\* and who is given a replayed result is given that of an applied call of its
\* own token.
THEOREM AnswersTellTheTruth == ASSUME ScopeCoversToken PROVE Spec => []AnswersAreBacked
<1>1. OutcomeInv => AnswersAreBacked
  BY DEF OutcomeInv, Backed, ToldIsRecord, AnswersAreBacked
<1> QED BY OutcomeInvariant, <1>1, PTL

\* A call that the gateway refused without naming the target, or that threw
\* before its execution, was not sent; after run()'s INTERNAL no call of the token
\* was or is ever sent.  What the served surface says of a TARGET_ERROR whose row
\* failed to append is not covered.
THEOREM NotSentIsNeverSent == ASSUME ScopeCoversToken PROVE Spec => []NotSentIsTrue
<1>1. OutcomeInv => NotSentIsTrue
  <2> SUFFICES ASSUME OutcomeInv, NEW c \in Calls, NEW d \in sent, out[c].code = "INTERNAL"
               PROVE  tok[d] # tok[c]
    BY DEF OutcomeInv, Unsent, NotSentIsTrue
  <2>1. d \in Calls /\ disk.rec[tok[d]].by = d
    BY DEF OutcomeInv, SafetyInv, OneTransaction, TypeOK, Claims
  <2>2. disk.rec[tok[c]].by \notin sent
    BY DEF OutcomeInv, Unsent
  <2> QED BY <2>1, <2>2
<1> QED BY OutcomeInvariant, <1>1, PTL
=============================================================================
