------------------------------- MODULE UserAdmin -------------------------------
(***************************************************************************)
(* The administration of local accounts: /api/v1/admin/users, and the      *)
(* command that makes a deployment's first identity admin.                 *)
(*                                                                         *)
(* Each change and its audit row are one transaction of the gateway's only *)
(* connection; the front door reads on that connection outside of any, and *)
(* the command runs in a process of its own.                               *)
(***************************************************************************)
EXTENDS FiniteSets

CONSTANTS
  Users,        \* subjects of the local accounts there may be
  Requests,     \* POSTs to the two admin routes
  Boots,        \* runs of forge identity bootstrap-admin
  Groups,       \* the groups an account may hold
  AdminGroups,  \* those listed under identityAdmins:
  None

ASSUME UserAdminAssumption ==
  /\ AdminGroups \subseteq Groups
  /\ Requests \cap Boots = {} /\ None \notin Requests

VARIABLES
  db, disk,  \* the connection's view of the store, and the committed store
  txn,       \* the request whose transaction is open, or None
  pc,        \* where each request is
  asked,     \* each request's attempt
  rule,      \* the rule that refuses each request
  boot       \* where each run of the command is

vars == <<db, disk, txn, pc, asked, rule, boot>>

-----------------------------------------------------------------------------
Accounts == [made : BOOLEAN, active : BOOLEAN, groups : SUBSET Groups]
NoAccount == [made |-> FALSE, active |-> FALSE, groups |-> {}]

Rules == {"not_identity_admin", "consumer_write_not_allowed", "last_admin",
          "no_such_user", "invalid_state"}

ASSUME NoneAssumption == None \notin Rules

\* An identity row: whose attempt, and the outcome or the rule that denied it.
Rows == [by : Requests \cup Boots, outcome : {"ok"} \cup Rules]

\* live: whose sign-in sessions have not been ended.
Stores == [acct : [Users -> Accounts], live : SUBSET Users, rows : SUBSET Rows]

Actions == {"create", "enable", "disable", "set_groups", "reset_password"}

\* admin and writes: what the session says of the actor and the consumer.
Attempts == [actor : Users, action : Actions, target : Users,
             groups : SUBSET Groups, admin : BOOLEAN, writes : BOOLEAN]

InTransaction == {"judging", "changing", "changed", "recorded"}
Locations == {"idle", "queued", "refusing", "done", "refused", "failed", "lost"}
               \cup InTransaction

Goto(r, loc) == pc' = [pc EXCEPT ![r] = loc]

\* holdsAdminGroup()
HoldsAdminGroup(groups) == groups \cap AdminGroups # {}

Admins(s) == {u \in Users : /\ s.acct[u].made /\ s.acct[u].active
                            /\ HoldsAdminGroup(s.acct[u].groups)}

LosesAdmin(s, a) ==
  /\ a.target \in Admins(s)
  /\ \/ a.action = "disable"
     \/ a.action = "set_groups" /\ ~HoldsAdminGroup(a.groups)

OthersAndSelf(s, a) == Admins(s)

\* refuseIfLastAdmin()
Others(s, a) == Admins(s) \ {a.target}

\* The rule a change is refused by, inside its transaction.
Denial(s, a) ==
  CASE a.action = "create" /\ s.acct[a.target].made       -> "invalid_state"
    [] a.action # "create" /\ ~s.acct[a.target].made      -> "no_such_user"
    [] LosesAdmin(s, a) /\ Others(s, a) = {}              -> "last_admin"
    [] OTHER -> None

\* authorizeChange()
Unauthorized(a) ==
  CASE ~a.admin  -> "not_identity_admin"
    [] ~a.writes -> "consumer_write_not_allowed"
    [] OTHER     -> None

Created(s, u, groups) ==
  [s EXCEPT !.acct[u] = [made |-> TRUE, active |-> TRUE, groups |-> groups]]

\* A disabled account and one with a new password keep no session.
Deactivated(s, u) ==
  [s EXCEPT !.acct[u].active = FALSE, !.live = @ \ {u}]
PasswordSet(s, u) == [s EXCEPT !.live = @ \ {u}]

Changed(s, a) ==
  CASE a.action = "create"         -> Created(s, a.target, a.groups)
    [] a.action = "enable"         -> [s EXCEPT !.acct[a.target].active = TRUE]
    [] a.action = "disable"        -> Deactivated(s, a.target)
    [] a.action = "set_groups"     -> [s EXCEPT !.acct[a.target].groups = a.groups]
    [] a.action = "reset_password" -> PasswordSet(s, a.target)

\* A refusal leaves no row.
RecordedOk(s, by, outcome) ==
  IF outcome = "ok"
  THEN [s EXCEPT !.rows = @ \cup {[by |-> by, outcome |-> outcome]}] ELSE s

Recorded(s, by, outcome) ==
  [s EXCEPT !.rows = @ \cup {[by |-> by, outcome |-> outcome]}]

-----------------------------------------------------------------------------
NoStore == [acct |-> [u \in Users |-> NoAccount], live |-> {}, rows |-> {}]

Init ==
  /\ db = NoStore /\ disk = NoStore /\ txn = None
  /\ pc = [r \in Requests |-> "idle"]
  /\ asked = [r \in Requests |-> None]
  /\ rule = [r \in Requests |-> None]
  /\ boot = [b \in Boots |-> "idle"]

\* The front door: the actor, who holds a token of an account that exists, is
\* read outside any transaction; then authorizeChange().
Authenticate(r) ==
  /\ pc[r] = "idle"
  /\ \E a \in Attempts :
       /\ disk.acct[a.actor].made /\ db.acct[a.actor].active
       /\ a.action \notin {"create", "set_groups"} => a.groups = {}
       /\ a.admin = HoldsAdminGroup(db.acct[a.actor].groups)
       /\ asked' = [asked EXCEPT ![r] = a]
       /\ rule' = [rule EXCEPT ![r] = Unauthorized(a)]
       /\ Goto(r, IF Unauthorized(a) = None THEN "queued" ELSE "refusing")
  /\ UNCHANGED <<db, disk, txn, boot>>

Begin(r) ==
  /\ pc[r] = "queued" /\ txn = None
  /\ txn' = r
  /\ Goto(r, "judging")
  /\ UNCHANGED <<db, disk, asked, rule, boot>>

Pass(r) ==
  /\ pc[r] = "judging" /\ Denial(db, asked[r]) = None
  /\ Goto(r, "changing")
  /\ UNCHANGED <<db, disk, txn, asked, rule, boot>>

\* DeniedChange: the transaction rolls back and the refusal gets its own.
Deny(r) ==
  /\ pc[r] = "judging" /\ Denial(db, asked[r]) # None
  /\ rule' = [rule EXCEPT ![r] = Denial(db, asked[r])]
  /\ db' = disk /\ txn' = None
  /\ Goto(r, "refusing")
  /\ UNCHANGED <<disk, asked, boot>>

Change(r) ==
  /\ pc[r] = "changing"
  /\ db' = Changed(db, asked[r])
  /\ Goto(r, "changed")
  /\ UNCHANGED <<disk, txn, asked, rule, boot>>

Append(r) ==
  /\ pc[r] = "changed"
  /\ db' = Recorded(db, r, "ok")
  /\ Goto(r, "recorded")
  /\ UNCHANGED <<disk, txn, asked, rule, boot>>

Commit(r) ==
  /\ pc[r] = "recorded"
  /\ disk' = db /\ txn' = None
  /\ Goto(r, "done")
  /\ UNCHANGED <<db, asked, rule, boot>>

\* The error is rethrown before the rollback.
FailKept(r) ==
  /\ pc[r] \in InTransaction
  /\ txn' = None
  /\ Goto(r, "failed")
  /\ UNCHANGED <<db, disk, asked, rule, boot>>

\* A statement of the transaction fails: all of it is undone, and the error
\* is rethrown as it is.
Fail(r) ==
  /\ pc[r] \in InTransaction
  /\ db' = disk /\ txn' = None
  /\ Goto(r, "failed")
  /\ UNCHANGED <<disk, asked, rule, boot>>

\* auditRefusal(), a transaction of one row.
Refuse(r) ==
  /\ pc[r] = "refusing" /\ txn = None
  /\ db' = Recorded(db, r, rule[r]) /\ disk' = db'
  /\ Goto(r, "refused")
  /\ UNCHANGED <<txn, asked, rule, boot>>

RefusalFails(r) ==
  /\ pc[r] = "refusing" /\ txn = None
  /\ Goto(r, "failed")
  /\ UNCHANGED <<db, disk, txn, asked, rule, boot>>

-----------------------------------------------------------------------------
\* sessions.open() ends a sign-in, whatever has become of the account since
\* its password was checked; module Sessions has the steps before.
SignIn(u) ==
  /\ txn = None /\ db.acct[u].made
  /\ db' = [db EXCEPT !.live = @ \cup {u}] /\ disk' = db'
  /\ UNCHANGED <<txn, pc, asked, rule, boot>>

\* The command looks for an admin and then asks for a password.
BootLook(b) ==
  /\ boot[b] = "idle"
  /\ boot' = [boot EXCEPT ![b] = IF Admins(disk) = {} THEN "prompting" ELSE "refused"]
  /\ UNCHANGED <<db, disk, txn, pc, asked, rule>>

BootTaken(b) ==
  /\ boot[b] = "prompting" /\ \E u \in Users : disk.acct[u].made
  /\ boot' = [boot EXCEPT ![b] = "refused"]
  /\ UNCHANGED <<db, disk, txn, pc, asked, rule>>

\* Another process writes only while the gateway has no transaction open.
BootCreate(b) ==
  /\ boot[b] = "prompting" /\ txn = None
  /\ \E u \in Users, g \in AdminGroups :
       /\ ~db.acct[u].made
       /\ db' = Recorded(Created(db, u, {g}), b, "ok") /\ disk' = db'
  /\ boot' = [boot EXCEPT ![b] = "done"]
  /\ UNCHANGED <<txn, pc, asked, rule>>

\* The gateway stops: what was not committed is gone, and its callers with it.
Crash ==
  /\ \E r \in Requests : pc[r] \in InTransaction \cup {"queued", "refusing"}
  /\ db' = disk /\ txn' = None
  /\ pc' = [r \in Requests |->
              IF pc[r] \in InTransaction \cup {"queued", "refusing"} THEN "lost" ELSE pc[r]]
  /\ UNCHANGED <<disk, asked, rule, boot>>

Next ==
  \/ \E r \in Requests :
       \/ Authenticate(r) \/ Begin(r) \/ Pass(r) \/ Deny(r) \/ Change(r)
       \/ Append(r) \/ Commit(r) \/ Fail(r) \/ Refuse(r) \/ RefusalFails(r)
  \/ \E u \in Users : SignIn(u)
  \/ \E b \in Boots : BootLook(b) \/ BootTaken(b) \/ BootCreate(b)
  \/ Crash

Spec == Init /\ [][Next]_vars

-----------------------------------------------------------------------------
\* Every variable keeps its type (store/identity/local-user.ts, user-admin.ts).
TypeOK ==
  /\ db \in Stores /\ disk \in Stores
  /\ txn \in Requests \cup {None}
  /\ pc \in [Requests -> Locations]
  /\ asked \in [Requests -> Attempts \cup {None}]
  /\ rule \in [Requests -> Rules \cup {None}]
  /\ boot \in [Boots -> {"idle", "prompting", "done", "refused"}]

\* Once a deployment has an active identity admin it always has one: no order
\* of changes, failures and crashes takes the last (refuseIfLastAdmin in the
\* transaction of changeAdminUser).
AnAdminRemains == [][Admins(disk) # {} => Admins(disk') # {}]_vars

\* What is committed to an account is one request's change, all of it, sessions
\* ended and ok row included, or the command's first admin (commitOrRefuse).
ChangesAreWhole ==
  [][ \/ disk'.acct = disk.acct
      \/ \E r \in Requests :
           /\ pc[r] = "recorded"
           /\ disk' = Recorded(Changed(disk, asked[r]), r, "ok")
      \/ \E b \in Boots, u \in Users, g \in AdminGroups :
           disk' = Recorded(Created(disk, u, {g}), b, "ok") ]_vars

\* A change that is answered has its ok row, a refusal the row of its rule, and
\* nothing else leaves a row saying it was done (commitOrRefuse, auditRefusal).
AttemptsAreRecorded ==
  \A r \in Requests :
    LET saved == {row \in disk.rows : row.by = r}
    IN  saved = CASE pc[r] = "done"    -> {[by |-> r, outcome |-> "ok"]}
                  [] pc[r] = "refused" -> {[by |-> r, outcome |-> rule[r]]}
                  [] OTHER             -> {}

=============================================================================
