-------------------------------- MODULE Sessions --------------------------------
(***************************************************************************)
(* The local provider's sign-in sessions for one enrolled account: the     *)
(* credential check and its lockout, the rotating refresh tokens, sign-out *)
(* and the administrator's commands, on a store with a single connection.  *)
(*                                                                         *)
(* transaction() queues for the connection; a bare statement does not, and *)
(* becomes part of whatever transaction is open when it runs.              *)
(***************************************************************************)
EXTENDS Integers, FiniteSets

CONSTANTS
  Attempts,     \* sign-ins: each opens at most one session, and names it
  Renewals,     \* calls of refresh: each mints at most one token
  SignOuts,     \* calls of signOut
  Threshold,    \* failures that lock the account
  LockFor,      \* how long for
  Idle, Absolute,  \* the limits of a session
  Window,       \* TOTP steps accepted on either side of now
  MaxTime, MaxCommands,  \* bounds: clock, resets and disablings
  None

ASSUME SessionsAssumption ==
  /\ Attempts \cap Renewals = {} /\ Attempts \cap SignOuts = {}
  /\ Renewals \cap SignOuts = {} /\ None \notin Attempts \cup Renewals
  /\ Threshold \in Nat \ {0} /\ LockFor \in Nat \ {0}
  /\ Idle \in Nat \ {0} /\ Absolute \in Nat \ {0} /\ Idle <= Absolute
  /\ Window \in Nat /\ MaxTime \in Nat /\ MaxCommands \in Nat

VARIABLES
  now,        \* the host's clock
  db, disk,   \* the connection's view of the store, and the committed store
  txn,        \* whose transaction is open, or None
  pc,         \* where each call is
  at,         \* the time each call read, until it has written with it
  cred,       \* the credential each sign-in read, and the code it verified
  shown,      \* the token each renewal or sign-out presents
  handed,     \* tokens whose grant has been returned
  undue,      \* those granted on an enabling that was not committed
  opened,     \* the password in force when each session was opened
  commands    \* how many resets and disablings the administrator has asked for

vars == <<now, db, disk, txn, pc, at, cred, shown, handed, undue, opened, commands>>

-----------------------------------------------------------------------------
Calls == Attempts \cup Renewals \cup SignOuts
Tokens == Attempts \cup Renewals
Never == -1

Reasons == {"signed_out", "refresh_reuse", "idle_expired", "absolute_expired",
            "account_unavailable", "credential_reset"}

\* local_user: a password is its version; locked is locked_until.
Accounts == [pwd : Nat, active : BOOLEAN, failed : Nat, locked : Int, counter : Int]

NoSession == [ends |-> Never, reason |-> None]
AuthSessions == [ends : Nat, reason : Reasons \cup {None}] \cup {NoSession}

NoToken == [session |-> None, idle |-> Never, by |-> None]
RefreshTokens == [session : Attempts, idle : Nat, by : Renewals \cup {None}] \cup {NoToken}

Stores == [acct : Accounts, sess : [Attempts -> AuthSessions],
           tok : [Tokens -> RefreshTokens]]

Locations == {"idle", "wrong", "right", "recording", "recorded", "open", "opening",
              "rotate", "rotating", "ending", "issue", "revoke",
              "granted", "refused", "ended", "error", "signedOut"}

\* Whose transaction: a call's, or other work on the same connection.
OtherOwners == {"reset", "deactivate", "enable", "unit"}
Owners == Tokens \cup OtherOwners \cup {None}

\* None and the calls are not among the strings that name reasons and owners.
ASSUME NamesAssumption ==
  /\ None \notin Reasons \cup OtherOwners
  /\ OtherOwners \cap Tokens = {}

Goto(p, loc) == pc' = [pc EXCEPT ![p] = loc]

Live(s, a) == s.sess[a] # NoSession /\ s.sess[a].reason = None

\* revokeSession(): only a session that is not revoked yet.
Tolerated(s, a, why) ==
  IF Live(s, a) /\ why # "refresh_reuse" THEN [s EXCEPT !.sess[a].reason = why] ELSE s
Revoked(s, a, why) == IF Live(s, a) THEN [s EXCEPT !.sess[a].reason = why] ELSE s

\* revokeAllForSubject()
NoneRevoked(s, why) == s
AllRevoked(s, why) ==
  [s EXCEPT !.sess = [a \in Attempts |->
     IF Live(s, a) THEN [s.sess[a] EXCEPT !.reason = why] ELSE s.sess[a]]]

\* transaction(): the work of p, which is committed or undone later.
Work(p, s) == /\ txn = None /\ txn' = p /\ db' = s /\ UNCHANGED disk

\* A bare statement: committed at once unless a transaction is open.
Bare(s) == /\ db' = s /\ disk' = (IF txn = None THEN s ELSE disk) /\ UNCHANGED txn

Commit(p) == /\ txn = p /\ txn' = None /\ disk' = db /\ UNCHANGED db
Undo(p) == /\ txn = p /\ txn' = None /\ db' = disk /\ UNCHANGED disk

-----------------------------------------------------------------------------
\* signIn()

\* The credential and the clock are read; the hash is verified after that.
ReadCredential(a) ==
  /\ pc[a] = "idle"
  /\ \/ /\ ~db.acct.active \/ db.acct.locked > now
        /\ Goto(a, "refused")
        /\ UNCHANGED <<cred, at>>
     \/ /\ db.acct.active /\ db.acct.locked <= now
        /\ at' = [at EXCEPT ![a] = now]
        /\ Goto(a, "wrong")
        /\ UNCHANGED cred
     \/ /\ db.acct.active /\ db.acct.locked <= now
        /\ \E code \in (now - Window)..(now + Window) :
             /\ code >= 0 /\ code > db.acct.counter
             /\ cred' = [cred EXCEPT ![a] = [pwd |-> db.acct.pwd, code |-> code]]
        /\ Goto(a, "right")
        /\ UNCHANGED at
  /\ UNCHANGED <<now, db, disk, txn, shown, handed, undue, opened, commands>>

\* recordAuthAttempt() of a failure, with the lock the attempt's own clock gives.
LockedLate(acct, a) ==
  LET n == acct.failed + 1
  IN [acct EXCEPT !.failed = n,
                  !.locked = IF n > Threshold THEN at[a] + LockFor ELSE Never]
Failed(acct, a) ==
  LET n == acct.failed + 1
  IN [acct EXCEPT !.failed = n,
                  !.locked = IF n >= Threshold THEN at[a] + LockFor ELSE Never]

RecordFailure(a) ==
  /\ pc[a] = "wrong"
  /\ Work(a, [db EXCEPT !.acct = Failed(@, a)])
  /\ Goto(a, "recording")
  /\ at' = [at EXCEPT ![a] = 0]
  /\ UNCHANGED <<now, cred, shown, handed, undue, opened, commands>>

\* recordAuthAttempt() of a success; the counter never moves backwards.
LastCounter(acct, code) == code
GreaterCounter(acct, code) == IF code > acct.counter THEN code ELSE acct.counter

RecordSuccess(a) ==
  /\ pc[a] = "right"
  /\ Work(a, [db EXCEPT !.acct.failed = 0, !.acct.locked = Never,
                        !.acct.counter = GreaterCounter(db.acct, cred[a].code)])
  /\ Goto(a, "recorded")
  /\ UNCHANGED <<now, at, cred, shown, handed, undue, opened, commands>>

CommitRecord(a) ==
  /\ Commit(a)
  /\ \/ pc[a] = "recording" /\ Goto(a, "refused") /\ UNCHANGED at
     \/ pc[a] = "recorded" /\ Goto(a, "open") /\ at' = [at EXCEPT ![a] = now]
  /\ UNCHANGED <<now, cred, shown, handed, undue, opened, commands>>

\* authSessions.open(): the session and its first token.
Open(a) ==
  /\ pc[a] = "open"
  /\ Work(a, [db EXCEPT !.sess[a] = [ends |-> at[a] + Absolute, reason |-> None],
                        !.tok[a] = [session |-> a, idle |-> at[a] + Idle, by |-> None]])
  /\ opened' = [opened EXCEPT ![a] = db.acct.pwd]
  /\ Goto(a, "opening")
  /\ at' = [at EXCEPT ![a] = 0]
  /\ UNCHANGED <<now, cred, shown, handed, undue, commands>>

-----------------------------------------------------------------------------
\* refresh()

Renew(r) ==
  /\ pc[r] = "idle"
  /\ \E t \in handed : shown' = [shown EXCEPT ![r] = t]
  /\ at' = [at EXCEPT ![r] = now]
  /\ Goto(r, "rotate")
  /\ UNCHANGED <<now, db, disk, txn, cred, handed, undue, opened, commands>>

\* Why the presented token buys nothing, in rotate()'s order; None when it does.
RefusalOf(t, session, time) ==
  IF t.by # None THEN "refresh_reuse"
  ELSE IF session.reason # None THEN session.reason
  ELSE IF time >= session.ends THEN "absolute_expired"
  ELSE IF time >= t.idle THEN "idle_expired"
  ELSE None

\* The presented token is spent and its successor inserted.
Unspent(s, r) ==
  [s EXCEPT !.tok[r] = [session |-> s.tok[shown[r]].session, idle |-> at[r] + Idle,
                        by |-> None]]
Rotated(s, r) ==
  LET t == s.tok[shown[r]]
  IN [s EXCEPT !.tok = [@ EXCEPT
        ![shown[r]] = [t EXCEPT !.by = r],
        ![r] = [session |-> t.session, idle |-> at[r] + Idle, by |-> None]]]
Rotate(r) ==
  /\ pc[r] = "rotate"
  /\ LET t == db.tok[shown[r]]
         why == RefusalOf(t, db.sess[t.session], at[r])
     IN \/ /\ why = None
           /\ Work(r, Rotated(db, r))
           /\ Goto(r, "rotating")
        \/ /\ why # None
           /\ Work(r, Revoked(db, t.session, why))
           /\ Goto(r, "ending")
  /\ at' = [at EXCEPT ![r] = 0]
  /\ UNCHANGED <<now, cred, shown, handed, undue, opened, commands>>

CommitSession(p) ==
  /\ Commit(p)
  /\ \/ pc[p] \in {"opening", "rotating"} /\ Goto(p, "issue")
     \/ pc[p] = "ending" /\ Goto(p, "ended")
  /\ UNCHANGED <<now, at, cred, shown, handed, undue, opened, commands>>

\* Any of these transactions may fail, which undoes it and fails the call.
UndoCall(p) ==
  /\ p \in Tokens /\ Undo(p)
  /\ Goto(p, "error")
  /\ opened' = IF pc[p] = "opening" THEN [opened EXCEPT ![p] = Never] ELSE opened
  /\ UNCHANGED <<now, at, cred, shown, handed, undue, commands>>

\* grantFor(): issueToken reads the account and signs.  The read is a bare one: it
\* sees an enabling that is not committed, and may yet be undone.
Uncommitted == db.acct.active /\ ~disk.acct.active
Hand(p) ==
  /\ handed' = handed \cup {p}
  /\ undue' = IF Uncommitted THEN undue \cup {p} ELSE undue

GrantUnchecked(p) ==
  /\ pc[p] = "issue"
  /\ Hand(p)
  /\ Goto(p, "granted")
  /\ UNCHANGED <<now, db, disk, txn, at, cred, shown, opened, commands>>
Grant(p) ==
  /\ pc[p] = "issue" /\ db.acct.active
  /\ Hand(p)
  /\ Goto(p, "granted")
  /\ UNCHANGED <<now, db, disk, txn, at, cred, shown, opened, commands>>

\* An inactive account is refused, and signing may fail.
IssueFails(p) ==
  /\ pc[p] = "issue"
  /\ Goto(p, IF p \in Renewals THEN "revoke" ELSE "error")
  /\ UNCHANGED <<now, db, disk, txn, at, cred, shown, handed, undue, opened, commands>>

RevokeUnavailable(r) ==
  /\ pc[r] = "revoke"
  /\ Bare(Revoked(db, db.tok[shown[r]].session, "account_unavailable"))
  /\ Goto(r, "error")
  /\ UNCHANGED <<now, at, cred, shown, handed, undue, opened, commands>>

-----------------------------------------------------------------------------
\* signOut()
SignOut(o) ==
  /\ pc[o] = "idle"
  /\ \E t \in handed :
       /\ shown' = [shown EXCEPT ![o] = t]
       /\ Bare(Revoked(db, db.tok[t].session, "signed_out"))
  /\ Goto(o, "signedOut")
  /\ UNCHANGED <<now, at, cred, handed, undue, opened, commands>>

-----------------------------------------------------------------------------
\* The administrator.

\* setPassword(): the new hash, no lockout, and the end of every session.
Reset ==
  /\ commands < MaxCommands
  /\ Work("reset", AllRevoked([db EXCEPT !.acct.pwd = @ + 1, !.acct.failed = 0,
                                         !.acct.locked = Never],
                              "credential_reset"))
  /\ commands' = commands + 1
  /\ UNCHANGED <<now, pc, at, cred, shown, handed, undue, opened>>

\* deactivateUser()
Deactivate ==
  /\ commands < MaxCommands
  /\ Work("deactivate", AllRevoked([db EXCEPT !.acct.active = FALSE],
                                   "account_unavailable"))
  /\ commands' = commands + 1
  /\ UNCHANGED <<now, pc, at, cred, shown, handed, undue, opened>>

\* reactivateUser(), inside the unit of the administrator's change, which may be
\* undone.  For an account that is active it is a unit like any other, below.
Reactivate ==
  /\ ~db.acct.active
  /\ Work("enable", [db EXCEPT !.acct.active = TRUE])
  /\ UNCHANGED <<now, pc, at, cred, shown, handed, undue, opened, commands>>

\* Another part of the gateway uses the connection: a write's unit of work.
OpenUnit ==
  /\ Work("unit", db)
  /\ UNCHANGED <<now, pc, at, cred, shown, handed, undue, opened, commands>>

CommitOther ==
  /\ txn \in OtherOwners /\ Commit(txn)
  /\ undue' = IF txn = "enable" THEN {} ELSE undue
  /\ UNCHANGED <<now, pc, at, cred, shown, handed, opened, commands>>

UndoOther ==
  /\ txn \in OtherOwners /\ Undo(txn)
  /\ UNCHANGED <<now, pc, at, cred, shown, handed, undue, opened, commands>>

Tick ==
  /\ now < MaxTime /\ now' = now + 1
  /\ UNCHANGED <<db, disk, txn, pc, at, cred, shown, handed, undue, opened, commands>>

-----------------------------------------------------------------------------
NewStore ==
  [acct |-> [pwd |-> 0, active |-> TRUE, failed |-> 0, locked |-> Never, counter |-> Never],
   sess |-> [a \in Attempts |-> NoSession], tok |-> [t \in Tokens |-> NoToken]]

Init ==
  /\ now = 0 /\ db = NewStore /\ disk = NewStore /\ txn = None
  /\ pc = [p \in Calls |-> "idle"] /\ at = [p \in Calls |-> 0]
  /\ cred = [a \in Attempts |-> [pwd |-> Never, code |-> Never]]
  /\ shown = [p \in Calls |-> None] /\ handed = {} /\ undue = {}
  /\ opened = [a \in Attempts |-> Never] /\ commands = 0

SignIn(a) == ReadCredential(a) \/ RecordFailure(a) \/ RecordSuccess(a) \/ CommitRecord(a)
             \/ Open(a)
Refresh(r) == Renew(r) \/ Rotate(r) \/ RevokeUnavailable(r)
Session(p) == CommitSession(p) \/ UndoCall(p) \/ Grant(p) \/ IssueFails(p)

Next ==
  \/ \E a \in Attempts : SignIn(a)
  \/ \E r \in Renewals : Refresh(r)
  \/ \E p \in Tokens : Session(p)
  \/ \E o \in SignOuts : SignOut(o)
  \/ Reset \/ Deactivate \/ Reactivate
  \/ OpenUnit \/ CommitOther \/ UndoOther \/ Tick

Spec == Init /\ [][Next]_vars

-----------------------------------------------------------------------------
\* Every variable has its type, and the store is the committed one unless a
\* transaction is open.
TypeOK ==
  /\ now \in Nat /\ commands \in Nat /\ txn \in Owners
  /\ db \in Stores /\ disk \in Stores /\ (txn = None => db = disk)
  /\ pc \in [Calls -> Locations] /\ at \in [Calls -> Nat]
  /\ cred \in [Attempts -> [pwd : Int, code : Int]]
  /\ shown \in [Calls -> Tokens \cup {None}] /\ handed \subseteq Tokens
  /\ undue \subseteq handed
  /\ opened \in [Attempts -> Int]

\* A session has one chain of tokens: whatever renewals raced, at most one of
\* its tokens is unspent, and every token that is spent names a distinct
\* successor of the same session (rotate's claim).
OneChain ==
  \A t, u \in Tokens :
    LET x == db.tok[t]  y == db.tok[u]
    IN /\ t # u /\ NoToken \notin {x, y} /\ x.session = y.session => x.by # y.by
       /\ x # NoToken /\ x.by # None => db.tok[x.by].session = x.session

\* Theft detection: once two renewals have answered for one token, the session
\* it belongs to has ended, whatever became of either and whatever else rolled
\* back in between.
ReuseEndsSession ==
  \A r, q \in Renewals :
    /\ r # q /\ shown[r] = shown[q]
    /\ {pc[r], pc[q]} \subseteq {"issue", "granted", "revoke", "ended"}
    => ~Live(disk, disk.tok[shown[r]].session)

\* A reset, and the disabling of an account, end every session that was open:
\* a live one was opened under the password in force (setPassword's comment).
ResetEndsOpenSessions ==
  \A a \in Attempts : Live(disk, a) => opened[a] = disk.acct.pwd

\* While the account is disabled nobody holds a token of a session that could
\* be renewed, sign-ins and renewals racing the command included (sign-in.ts,
\* "issueToken refuses an account that is now disabled").  Not so of a token whose
\* grant read an enabling that was then undone: that one is out, and the code does
\* nothing about it.
DisabledHoldsNothing ==
  ~disk.acct.active => \A t \in handed \ undue : ~Live(disk, disk.tok[t].session)

\* Every code that was accepted is spent: the counter covers it, in whichever
\* order the sign-ins that verified codes were recorded.
AcceptedCodesAreSpent ==
  \A a \in Attempts :
    pc[a] \in {"open", "opening", "issue", "granted"} => cred[a].code <= disk.acct.counter

\* The account is locked exactly when its failures have reached the threshold:
\* no order of failures, successes and resets leaves one without the other.
LockedAtThreshold ==
  disk.acct.failed >= Threshold <=> disk.acct.locked # Never
=============================================================================
