-------------------------- MODULE WritePathRefinement --------------------------
(***************************************************************************)
(* WritePath implements OneTimeWrite: a token's life is the status of its  *)
(* committed idempotency record.                                           *)
(***************************************************************************)
EXTENDS WritePath

LifeOf(status) ==
  CASE status = "none" -> "fresh"
    [] status = "pending" -> "claimed"
    [] status = "completed" -> "done"
    [] status = "failed" -> "failed"

life == [t \in Tokens |-> LifeOf(disk.rec[t].status)]
holder == [t \in Tokens |-> disk.rec[t].by]

Promise == INSTANCE OneTimeWrite WITH life <- life, holder <- holder

\* Every step of the write path is a step the promise allows, or none: a token
\* is claimed once, sent once by its holder, and settles once.
ImplementsOneTimeWrite == Promise!Spec
-----------------------------------------------------------------------------
(***************************************************************************)
(* What the promise rests on: an inductive invariant, part by part.        *)
(***************************************************************************)

InTxn == {"invoke", "complete", "append", "commit"}

\* A call that has not reached the binding.
Before == {"idle", "findReplay", "getRecord", "dispatch", "joined", "begin", "open"}

\* The open transaction is that of the one call executing; with none open,
\* nothing is uncommitted.
Connection ==
  /\ \A c \in Calls : txn = c <=> pc[c] \in InTxn
  /\ txn = None => db = disk

ExecutedRow(c) == [call |-> c, phase |-> "execute", code |-> "executed"]

\* What an open transaction has written so far, and nobody else's writes.
Uncommitted ==
  \A c \in Calls : txn = c =>
    /\ NonceOf[tok[c]] \notin disk.spent
    /\ db.spent = disk.spent \cup {NonceOf[tok[c]]}
    /\ \A t \in Tokens \ {tok[c]} : db.rec[t] = disk.rec[t]
    /\ db.rec[tok[c]] =
         IF pc[c] \in {"append", "commit"}
           THEN [disk.rec[tok[c]] EXCEPT !.status = "completed"] ELSE disk.rec[tok[c]]
    /\ db.rows = IF pc[c] = "commit" THEN disk.rows \cup {ExecutedRow(c)} ELSE disk.rows

OneTransaction == TypeOK /\ Connection /\ Uncommitted

\* A call past stage 6g arrived within the life of its token.
LiveToken ==
  \A c \in Calls : pc[c] \in {"findReplay", "getRecord", "dispatch", "begin"} =>
    Issued[tok[c]] <= at[c] /\ at[c] < Exp[tok[c]]

\* A record's window starts after its token was minted.
RecordAfterMint ==
  \A t \in Tokens : disk.rec[t].status # "none" => Issued[t] <= disk.rec[t].created

\* A call between its claim and its outcome holds a committed pending claim.
Holding ==
  \A c \in Calls : pc[c] \in InTxn \cup {"open", "settle"} =>
    disk.rec[tok[c]].status = "pending" /\ disk.rec[tok[c]].by = c

\* A call that was sent claimed its token, and the claim is still its own.
Claims ==
  \A c \in Calls :
    /\ c \in sent => disk.rec[tok[c]].status # "none" /\ disk.rec[tok[c]].by = c
    /\ pc[c] \in Before => c \notin sent
    /\ pc[c] \in InTxn => c \in sent

SafetyInv ==
  OneTransaction /\ LiveToken /\ RecordAfterMint /\ Holding /\ Claims

-----------------------------------------------------------------------------
(***************************************************************************)
(* What the outcomes and the rows rest on, in two layers: the first needs  *)
(* nothing of the tokens' windows, the second adds SafetyInv.              *)
(***************************************************************************)

\* A call holds an outcome from the step that ends its run(), and only the
\* commit of its own execution makes that outcome "executed".
Outcomes ==
  \A c \in Calls :
    /\ pc[c] \in Before \cup InTxn => out[c].code = "none"
    /\ pc[c] \in {"settle", "record", "insert"} => out[c].code \in Refusals \cup Replays
    /\ out[c].code = "executed" => pc[c] = "answered"

\* The committed rows are those of the answered calls, one each.
Trail ==
  /\ \A r \in disk.rows : pc[r.call] = "answered" /\ r.code = out[r.call].code
  /\ AnsweredIsRecorded

\* The committed nonces are those of the executed rows, one each.
Paid ==
  /\ \A n \in Nonces :
       n \in disk.spent <=> \E r \in ExecutedRows(disk) : NonceOf[tok[r.call]] = n
  /\ OneCommitPerNonce

RowsInv == OneTransaction /\ Outcomes /\ Trail /\ Paid

\* A running call is in the map under its own token, and whoever joined it has
\* that token too.
Flights ==
  /\ \A t \in Tokens : flight[t] # None => tok[flight[t]] = t
  /\ \A c \in Calls : pc[c] = "joined" => tok[peer[c]] = tok[c]

\* An answer that tells of an execution tells of one the target applied.
Backed ==
  \A c \in Calls :
    /\ pc[c] \in {"complete", "append", "commit"} => c \in applied
    /\ out[c].code = "executed" => out[c].of = c /\ c \in applied
    /\ out[c].code = "replayed" => out[c].of \in applied /\ tok[out[c].of] = tok[c]

\* So does a completed record, committed or not yet.
BackedBy(s) ==
  \A t \in Tokens :
    s.rec[t].status = "completed" => s.rec[t].by \in applied /\ tok[s.rec[t].by] = t

\* A call is told "executed" exactly when the committed record says it was.
ToldIsRecord ==
  \A c \in Calls :
    out[c].code = "executed"
      <=> (disk.rec[tok[c]].status = "completed" /\ disk.rec[tok[c]].by = c)

\* INTERNAL means that the claim is held by a call that was not sent and is past
\* the point where it could be.  The gateway's own refusals were not sent.
Unsent ==
  \A c \in Calls :
    /\ out[c].code \in ToldNotSent => c \notin sent
    /\ out[c].code = "INTERNAL" =>
         LET r == disk.rec[tok[c]]
         IN r.status # "none" /\ r.by \in Calls \ sent /\ pc[r.by] \notin Before

OutcomeInv ==
  /\ SafetyInv /\ RowsInv /\ Flights /\ Backed /\ BackedBy(db) /\ BackedBy(disk)
  /\ ToldIsRecord /\ Unsent
=============================================================================
