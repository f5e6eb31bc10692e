---------------------------- MODULE UserAdminProofs ----------------------------
(***************************************************************************)
(* What UserAdmin keeps whatever the accounts, the requests and the runs   *)
(* of the command: an open transaction stands between db and disk, and     *)
(* where its request is says by what they differ.                          *)
(***************************************************************************)
EXTENDS UserAdmin, TLAPS

Row(r, outcome) == [by |-> r, outcome |-> outcome]

\* The change of the open transaction as far as it has got.
Doing(r) ==
  CASE pc[r] = "judging"  -> db = disk
    [] pc[r] = "changing" -> db = disk
    [] pc[r] = "changed"  -> db = Changed(disk, asked[r])
    [] OTHER              -> db = Recorded(Changed(disk, asked[r]), r, "ok")

Serial ==
  /\ txn = None => db = disk
  /\ \A r \in Requests : (txn = r) <=> (pc[r] \in InTransaction)
  /\ \A r \in Requests : txn = r => Doing(r)

Permitted ==
  /\ \A r \in Requests : pc[r] \in InTransaction \cup {"queued"} => asked[r] \in Attempts
  /\ \A r \in Requests : pc[r] \in {"changing", "changed", "recorded"}
                           => Denial(disk, asked[r]) = None
  /\ \A r \in Requests : pc[r] \in {"refusing", "refused"} => rule[r] \in Rules

AdminInv == TypeOK /\ Serial /\ Permitted /\ AttemptsAreRecorded

-----------------------------------------------------------------------------
\* A row of a type keeps the store's (store/audit/repository.ts).
LEMMA RecordedType ==
  ASSUME NEW s \in Stores, NEW by \in Requests \cup Boots, NEW outcome \in {"ok"} \cup Rules
  PROVE  /\ Recorded(s, by, outcome) \in Stores
         /\ Recorded(s, by, outcome).acct = s.acct
         /\ Recorded(s, by, outcome).rows = s.rows \cup {Row(by, outcome)}
  BY DEF Stores, Recorded, Rows, Row

\* A new account keeps the store's type, and no row (createUser).
LEMMA CreatedType ==
  ASSUME NEW s \in Stores, NEW u \in Users, NEW groups \in SUBSET Groups
  PROVE  /\ Created(s, u, groups) \in Stores
         /\ Created(s, u, groups).rows = s.rows
  BY DEF Stores, Created, Accounts

\* A change keeps the store's type and writes no row of its own (store.ts).
LEMMA ChangedType ==
  ASSUME NEW s \in Stores, NEW a \in Attempts
  PROVE  /\ Changed(s, a) \in Stores
         /\ Changed(s, a).rows = s.rows
  <1>0. /\ a.target \in Users /\ a.groups \in SUBSET Groups /\ a.action \in Actions
    BY DEF Attempts
  <1> DEFINE x == s.acct[a.target]
  <1>a. /\ s.acct \in [Users -> Accounts] /\ s.live \in SUBSET Users
        /\ s.rows \in SUBSET Rows /\ x \in Accounts
    BY <1>0 DEF Stores
  <1>b. /\ [x EXCEPT !.active = TRUE] \in Accounts
        /\ [x EXCEPT !.active = FALSE] \in Accounts
        /\ [x EXCEPT !.groups = a.groups] \in Accounts
    BY <1>0, <1>a DEF Accounts
  <1>1. CASE a.action = "create"
    BY <1>0, <1>1, CreatedType DEF Changed
  <1>2. CASE a.action = "enable"
    <2>1. PICK y \in Accounts : Changed(s, a) = [s EXCEPT !.acct[a.target] = y]
      BY <1>2, <1>0, <1>a, <1>b DEF Changed, Stores
    <2> QED BY <2>1, <1>0, <1>a DEF Stores
  <1>3. CASE a.action = "disable"
    <2>1. PICK y \in Accounts, l \in SUBSET Users :
            Changed(s, a) = [s EXCEPT !.acct[a.target] = y, !.live = l]
      BY <1>3, <1>0, <1>a, <1>b DEF Changed, Deactivated, Stores
    <2>2. [s.acct EXCEPT ![a.target] = y] \in [Users -> Accounts]
      BY <1>0, <1>a
    <2>3. Changed(s, a) = [s EXCEPT !.acct = [s.acct EXCEPT ![a.target] = y], !.live = l]
      BY <2>1
    <2> QED BY <2>2, <2>3, <1>a DEF Stores
  <1>4. CASE a.action = "set_groups"
    <2>1. PICK y \in Accounts : Changed(s, a) = [s EXCEPT !.acct[a.target] = y]
      BY <1>4, <1>0, <1>a, <1>b DEF Changed, Stores
    <2> QED BY <2>1, <1>0, <1>a DEF Stores
  <1>5. CASE a.action = "reset_password"
    <2>1. Changed(s, a) = [s EXCEPT !.live = @ \ {a.target}]
      BY <1>5 DEF Changed, PasswordSet
    <2> QED BY <2>1, <1>a DEF Stores
  <1> QED BY <1>0, <1>1, <1>2, <1>3, <1>4, <1>5 DEF Actions

\* A new account costs nobody their group.
LEMMA CreatedKeepsAdmins ==
  ASSUME NEW s \in Stores, NEW u \in Users, NEW groups \in SUBSET Groups,
         ~s.acct[u].made
  PROVE  Admins(s) \subseteq Admins(Created(s, u, groups))
  BY DEF Stores, Created, Accounts, Admins, HoldsAdminGroup

\* A change the guard lets pass leaves an admin where there was one.
LEMMA GuardKeepsAdmin ==
  ASSUME NEW s \in Stores, NEW a \in Attempts, Denial(s, a) = None, Admins(s) # {}
  PROVE  Admins(Changed(s, a)) # {}
  <1>0. /\ a.target \in Users /\ a.groups \in SUBSET Groups /\ a.action \in Actions
    BY DEF Attempts
  <1>1. PICK u \in Admins(s) : u # a.target \/ ~LosesAdmin(s, a)
    <2>1. ~LosesAdmin(s, a) \/ Others(s, a) # {}
      <3>1. ~("invalid_state" = None \/ "no_such_user" = None \/ "last_admin" = None)
        BY NoneAssumption DEF Rules
      <3> QED BY <3>1 DEF Denial
    <2> QED BY <2>1 DEF Others
  <1>2. u \in Users /\ s.acct[u].made /\ s.acct[u].active /\ HoldsAdminGroup(s.acct[u].groups)
    BY <1>1 DEF Admins
  <1>3. a.action = "create" => ~s.acct[a.target].made
    <2>1. "invalid_state" # None /\ "no_such_user" # None /\ "last_admin" # None
      BY NoneAssumption DEF Rules
    <2> QED BY <2>1 DEF Denial
  <1>4. SUFFICES u \in Admins(Changed(s, a))
    OBVIOUS
  <1>5. CASE u # a.target
    <2>1. Changed(s, a).acct[u] = s.acct[u]
      BY <1>0, <1>2, <1>5 DEF Changed, Created, Deactivated, PasswordSet, Stores, Actions
    <2> QED BY <2>1, <1>2 DEF Admins
  <1>6. CASE u = a.target
    <2>0. ~LosesAdmin(s, a) /\ a.action # "create"
      BY <1>1, <1>2, <1>3, <1>6
    <2>1. a.action # "disable"
      BY <2>0, <1>1, <1>6 DEF LosesAdmin
    <2>2. CASE a.action = "enable"
      BY <2>2, <1>2, <1>6 DEF Changed, Admins, Stores, Accounts
    <2>3. CASE a.action = "set_groups"
      <3>1. HoldsAdminGroup(a.groups)
        BY <2>0, <2>3, <1>1, <1>6 DEF LosesAdmin
      <3> QED BY <3>1, <2>3, <1>2, <1>6 DEF Changed, Admins, Stores, Accounts
    <2>4. CASE a.action = "reset_password"
      BY <2>4, <1>2, <1>6 DEF Changed, Admins, Stores, PasswordSet
    <2> QED BY <2>0, <2>1, <2>2, <2>3, <2>4, <1>0 DEF Actions
  <1> QED BY <1>5, <1>6

-----------------------------------------------------------------------------
\* A row joins those of its own attempt.
LEMMA RecordedRows ==
  ASSUME NEW s \in Stores, NEW by \in Requests \cup Boots, NEW outcome \in {"ok"} \cup Rules,
         NEW q \in Requests
  PROVE  {row \in Recorded(s, by, outcome).rows : row.by = q}
           = {row \in s.rows : row.by = q}
               \cup (IF q = by THEN {Row(by, outcome)} ELSE {})
  BY RecordedType DEF Row

\* Only the request whose transaction is open is inside one.
LEMMA OneInside ==
  ASSUME AdminInv, NEW r \in Requests, pc[r] \in InTransaction
  PROVE  /\ txn = r /\ asked[r] \in Attempts
         /\ \A q \in Requests \ {r} : pc[q] \notin InTransaction
         /\ Doing(r)
  BY DEF AdminInv, Serial, Permitted

\* The store of an open transaction is the committed one, changed or not.
LEMMA InsideType ==
  ASSUME AdminInv, NEW r \in Requests, pc[r] \in InTransaction
  PROVE  /\ Changed(disk, asked[r]) \in Stores
         /\ Changed(disk, asked[r]).rows = disk.rows
         /\ Recorded(Changed(disk, asked[r]), r, "ok") \in Stores
  BY OneInside, ChangedType, RecordedType DEF AdminInv, TypeOK

\* The empty store.
LEMMA InitInv == Init => AdminInv
  <1> SUFFICES ASSUME Init PROVE AdminInv
    OBVIOUS
  <1>1. NoStore \in Stores
    BY DEF NoStore, Stores, NoAccount, Accounts
  <1>2. TypeOK
    BY <1>1 DEF Init, TypeOK, Locations
  <1>3. Serial
    BY UserAdminAssumption DEF Init, Serial, InTransaction
  <1>4. Permitted
    BY DEF Init, Permitted, InTransaction
  <1>5. AttemptsAreRecorded
    BY DEF Init, AttemptsAreRecorded, NoStore
  <1> QED BY <1>2, <1>3, <1>4, <1>5 DEF AdminInv

\* Steps before a transaction.
LEMMA OutsideInv ==
  ASSUME AdminInv, NEW r \in Requests, Authenticate(r) \/ Begin(r) \/ RefusalFails(r)
  PROVE  AdminInv'
  <1> USE DEF AdminInv
  <1>0. /\ pc \in [Requests -> Locations] /\ TypeOK
        /\ pc[r] \notin InTransaction \cup {"done", "refused"}
    BY DEF TypeOK, Authenticate, Begin, RefusalFails, InTransaction
  <1>1. CASE Authenticate(r)
    <2>1. PICK a \in Attempts :
            /\ asked' = [asked EXCEPT ![r] = a]
            /\ rule' = [rule EXCEPT ![r] = Unauthorized(a)]
            /\ Goto(r, IF Unauthorized(a) = None THEN "queued" ELSE "refusing")
      BY <1>1 DEF Authenticate
    <2>2. Unauthorized(a) \in Rules \cup {None}
      BY DEF Unauthorized, Rules
    <2>3. /\ pc' \in [Requests -> Locations] /\ pc'[r] \in {"queued", "refusing"}
          /\ \A q \in Requests \ {r} : pc'[q] = pc[q] /\ asked'[q] = asked[q] /\ rule'[q] = rule[q]
          /\ asked'[r] = a /\ rule'[r] = Unauthorized(a)
          /\ pc'[r] = "refusing" => Unauthorized(a) # None
          /\ pc[r] = "idle"
      BY <1>1, <2>1, <1>0 DEF Authenticate, Goto, Locations, TypeOK
    <2>4. UNCHANGED <<db, disk, txn, boot>>
      BY <1>1 DEF Authenticate
    <2>5. TypeOK'
      BY <2>1, <2>2, <2>3, <2>4, <1>0 DEF TypeOK
    <2>6. Serial'
      BY <2>3, <2>4, <1>0 DEF Serial, InTransaction, Doing
    <2>7. Permitted'
      BY <2>2, <2>3, <2>4 DEF Permitted, InTransaction
    <2>8. AttemptsAreRecorded'
      BY <2>3, <2>4 DEF AttemptsAreRecorded
    <2> QED BY <2>5, <2>6, <2>7, <2>8
  <1>2. CASE Begin(r)
    <2>1. /\ pc' \in [Requests -> Locations] /\ pc'[r] = "judging"
          /\ \A q \in Requests \ {r} : pc'[q] = pc[q]
          /\ pc[r] = "queued" /\ txn = None /\ txn' = r
          /\ UNCHANGED <<db, disk, asked, rule, boot>>
      BY <1>2, <1>0 DEF Begin, Goto, Locations, InTransaction
    <2>5. TypeOK'
      BY <2>1, <1>0 DEF TypeOK
    <2>6. Serial'
      BY <2>1, <1>0, UserAdminAssumption DEF Serial, InTransaction, Doing
    <2>7. Permitted'
      BY <2>1 DEF Permitted, InTransaction
    <2>8. AttemptsAreRecorded'
      BY <2>1 DEF AttemptsAreRecorded
    <2> QED BY <2>5, <2>6, <2>7, <2>8
  <1>3. CASE RefusalFails(r)
    <2>1. /\ pc' \in [Requests -> Locations] /\ pc'[r] = "failed"
          /\ \A q \in Requests \ {r} : pc'[q] = pc[q]
          /\ pc[r] = "refusing"
          /\ UNCHANGED <<db, disk, txn, asked, rule, boot>>
      BY <1>3, <1>0 DEF RefusalFails, Goto, Locations
    <2>5. TypeOK'
      BY <2>1, <1>0 DEF TypeOK
    <2>6. Serial'
      BY <2>1, <1>0 DEF Serial, InTransaction, Doing
    <2>7. Permitted'
      BY <2>1 DEF Permitted, InTransaction
    <2>8. AttemptsAreRecorded'
      BY <2>1 DEF AttemptsAreRecorded
    <2> QED BY <2>5, <2>6, <2>7, <2>8
  <1> QED BY <1>1, <1>2, <1>3

\* Steps inside a transaction.
LEMMA InsideInv ==
  ASSUME AdminInv, NEW r \in Requests, Pass(r) \/ Change(r) \/ Append(r)
  PROVE  AdminInv'
  <1> USE DEF AdminInv
  <1>0. /\ pc[r] \in {"judging", "changing", "changed"} /\ pc[r] \in InTransaction
        /\ pc'[r] \in {"changing", "changed", "recorded"}
        /\ pc' \in [Requests -> Locations]
        /\ \A q \in Requests \ {r} : pc'[q] = pc[q]
        /\ UNCHANGED <<disk, txn, asked, rule, boot>>
    BY DEF Pass, Change, Append, InTransaction, Goto, TypeOK, Locations
  <1>1. /\ txn = r /\ asked[r] \in Attempts
        /\ \A q \in Requests \ {r} : pc[q] \notin InTransaction
    BY <1>0, OneInside
  <1>5. Doing(r)'
    <2>1. CASE Pass(r)
      BY <2>1, <1>0, OneInside DEF Pass, Goto, TypeOK, Doing
    <2>2. CASE Change(r)
      BY <2>2, <1>0, OneInside DEF Change, Goto, TypeOK, Doing
    <2>3. CASE Append(r)
      BY <2>3, <1>0, OneInside DEF Append, Goto, TypeOK, Doing
    <2> QED BY <2>1, <2>2, <2>3
  <1>6. TypeOK'
    <2>1. db' \in Stores
      BY <1>0, <1>5, InsideType DEF Doing, TypeOK
    <2> QED BY <2>1, <1>0 DEF TypeOK
  <1>7. Serial'
    <2>1. txn' # None
      BY <1>0, <1>1, UserAdminAssumption
    <2>2. \A q \in Requests : (txn' = q) <=> (pc'[q] \in InTransaction)
      BY <1>0, <1>1 DEF InTransaction
    <2> QED BY <2>1, <2>2, <1>0, <1>1, <1>5 DEF Serial
  <1>8. Permitted'
    <2>1. Denial(disk, asked[r]) = None
      BY <1>0, OneInside DEF Pass, Change, Append, Doing, Permitted
    <2> QED BY <2>1, <1>0, <1>1 DEF Permitted, InTransaction
  <1>9. AttemptsAreRecorded'
    BY <1>0 DEF AttemptsAreRecorded
  <1> QED BY <1>6, <1>7, <1>8, <1>9

\* Steps that end a transaction and undo it.
LEMMA UndoneInv ==
  ASSUME AdminInv, NEW r \in Requests, Deny(r) \/ Fail(r)
  PROVE  AdminInv'
  <1> USE DEF AdminInv
  <1>0. /\ pc[r] \in InTransaction
        /\ pc'[r] \in {"refusing", "failed"}
        /\ pc' \in [Requests -> Locations]
        /\ \A q \in Requests \ {r} : pc'[q] = pc[q] /\ rule'[q] = rule[q]
        /\ rule' \in [Requests -> Rules \cup {None}]
        /\ pc'[r] = "refusing" => rule'[r] \in Rules
        /\ db' = disk /\ txn' = None
        /\ UNCHANGED <<disk, asked, boot>>
    <2>1. CASE Deny(r)
      <3>1. Denial(db, asked[r]) \in Rules \cup {None}
        BY DEF Denial, Rules
      <3> QED BY <2>1, <3>1 DEF Deny, InTransaction, Goto, TypeOK, Locations
    <2>2. CASE Fail(r)
      BY <2>2 DEF Fail, Goto, TypeOK, Locations
    <2> QED BY <2>1, <2>2
  <1>1. \A q \in Requests \ {r} : pc[q] \notin InTransaction
    BY <1>0, OneInside
  <1>2. TypeOK'
    BY <1>0 DEF TypeOK
  <1>3. Serial'
    <2>1. \A q \in Requests : pc'[q] \notin InTransaction
      BY <1>0, <1>1 DEF InTransaction
    <2> QED BY <2>1, <1>0, UserAdminAssumption DEF Serial
  <1>4. Permitted'
    BY <1>0 DEF Permitted, InTransaction
  <1>5. AttemptsAreRecorded'
    BY <1>0 DEF AttemptsAreRecorded, InTransaction
  <1> QED BY <1>2, <1>3, <1>4, <1>5

\* The change and its row become committed together.
LEMMA CommitInv ==
  ASSUME AdminInv, NEW r \in Requests, Commit(r)
  PROVE  AdminInv'
  <1> USE DEF AdminInv
  <1>0. /\ pc[r] = "recorded" /\ pc[r] \in InTransaction /\ pc'[r] = "done"
        /\ pc' \in [Requests -> Locations]
        /\ \A q \in Requests \ {r} : pc'[q] = pc[q]
        /\ disk' = db /\ txn' = None
        /\ UNCHANGED <<db, asked, rule, boot>>
    BY DEF Commit, InTransaction, Goto, TypeOK, Locations
  <1>1. /\ \A q \in Requests \ {r} : pc[q] \notin InTransaction
        /\ disk' = Recorded(Changed(disk, asked[r]), r, "ok")
    BY <1>0, OneInside DEF Doing
  <1>2. TypeOK'
    BY <1>0 DEF TypeOK
  <1>3. Serial'
    <2>1. \A q \in Requests : pc'[q] \notin InTransaction
      BY <1>0, <1>1 DEF InTransaction
    <2> QED BY <2>1, <1>0, UserAdminAssumption DEF Serial
  <1>4. Permitted'
    BY <1>0, <1>1 DEF Permitted, InTransaction
  <1>5. AttemptsAreRecorded'
    <2>1. \A q \in Requests : {row \in disk'.rows : row.by = q}
            = {row \in disk.rows : row.by = q} \cup (IF q = r THEN {Row(r, "ok")} ELSE {})
      <3>1. TAKE q \in Requests
      <3>2. disk'.rows = disk.rows \cup {Row(r, "ok")}
        BY <1>0, <1>1, InsideType, RecordedType
      <3> QED BY <3>2 DEF Row
    <2>2. {row \in disk.rows : row.by = r} = {}
      BY <1>0 DEF AttemptsAreRecorded
    <2> QED BY <2>1, <2>2, <1>0 DEF AttemptsAreRecorded, Row
  <1> QED BY <1>2, <1>3, <1>4, <1>5

\* A refusal's row is a transaction of its own.
LEMMA RefuseInv ==
  ASSUME AdminInv, NEW r \in Requests, Refuse(r)
  PROVE  AdminInv'
  <1> USE DEF AdminInv
  <1>0. /\ pc[r] = "refusing" /\ pc'[r] = "refused" /\ txn = None /\ rule[r] \in Rules
        /\ pc' \in [Requests -> Locations]
        /\ \A q \in Requests \ {r} : pc'[q] = pc[q]
        /\ db' = Recorded(disk, r, rule[r]) /\ disk' = db'
        /\ UNCHANGED <<txn, asked, rule, boot>>
    BY DEF Refuse, Goto, TypeOK, Locations, Serial, Permitted
  <1>1. disk' \in Stores /\ disk'.rows = disk.rows \cup {Row(r, rule[r])}
    <2>1. disk \in Stores /\ r \in Requests \cup Boots /\ rule[r] \in {"ok"} \cup Rules
      BY <1>0 DEF TypeOK
    <2>2. disk' = Recorded(disk, r, rule[r])
      BY <1>0
    <2> QED BY <2>1, <2>2 DEF Recorded, Stores, Rows, Row
  <1>2. TypeOK'
    BY <1>0, <1>1 DEF TypeOK
  <1>3. Serial'
    <2>1. \A q \in Requests : pc'[q] \notin InTransaction
      BY <1>0, UserAdminAssumption DEF Serial, InTransaction
    <2> QED BY <2>1, <1>0, UserAdminAssumption DEF Serial
  <1>4. Permitted'
    <2>1. \A q \in Requests : pc[q] \notin InTransaction
      BY <1>0, UserAdminAssumption DEF Serial
    <2> QED BY <2>1, <1>0 DEF Permitted, InTransaction
  <1>5. AttemptsAreRecorded'
    <2>1. \A q \in Requests : {row \in disk'.rows : row.by = q}
            = {row \in disk.rows : row.by = q} \cup (IF q = r THEN {Row(r, rule[r])} ELSE {})
      BY <1>1 DEF Row
    <2>2. {row \in disk.rows : row.by = r} = {}
      BY <1>0 DEF AttemptsAreRecorded
    <2> QED BY <2>1, <2>2, <1>0 DEF AttemptsAreRecorded, Row
  <1> QED BY <1>2, <1>3, <1>4, <1>5

\* A write to accounts and sessions while no transaction is open.
LEMMA WrittenInv ==
  ASSUME AdminInv, txn = None, db' \in Stores, disk' = db',
         \A r \in Requests : {row \in disk'.rows : row.by = r} = {row \in disk.rows : row.by = r},
         boot' \in [Boots -> {"idle", "prompting", "done", "refused"}],
         UNCHANGED <<txn, pc, asked, rule>>
  PROVE  AdminInv'
  <1> USE DEF AdminInv
  <1>1. \A q \in Requests : pc[q] \notin InTransaction
    BY UserAdminAssumption DEF Serial
  <1>2. TypeOK'
    BY DEF TypeOK
  <1>3. Serial'
    BY <1>1, UserAdminAssumption DEF Serial
  <1>4. Permitted'
    BY <1>1 DEF Permitted, InTransaction
  <1>5. AttemptsAreRecorded'
    BY DEF AttemptsAreRecorded
  <1> QED BY <1>2, <1>3, <1>4, <1>5

\* A sign-in writes a session and no row.
LEMMA SignInInv == ASSUME AdminInv, NEW u \in Users, SignIn(u) PROVE AdminInv'
  <1>1. txn = None /\ disk \in Stores /\ db = disk
    BY DEF AdminInv, TypeOK, Serial, SignIn
  <1>2. db' \in Stores /\ db'.rows = disk.rows
    BY <1>1 DEF SignIn, Stores
  <1> QED BY <1>1, <1>2, WrittenInv DEF SignIn, AdminInv, TypeOK

\* The command writes an account and its row while no transaction is open.
LEMMA BootCreateInv == ASSUME AdminInv, NEW b \in Boots, BootCreate(b) PROVE AdminInv'
  <1>1. txn = None /\ disk \in Stores /\ db = disk
    BY DEF AdminInv, TypeOK, Serial, BootCreate
  <1>2. PICK u \in Users, g \in AdminGroups :
          db' = Recorded(Created(disk, u, {g}), b, "ok")
    BY <1>1 DEF BootCreate
  <1>3. Created(disk, u, {g}) \in Stores /\ Created(disk, u, {g}).rows = disk.rows
    BY <1>1, CreatedType, UserAdminAssumption
  <1>4. db' \in Stores /\ db'.rows = disk.rows \cup {Row(b, "ok")}
    <2>1. PICK s \in Stores : s.rows = disk.rows /\ db' = Recorded(s, b, "ok")
      BY <1>2, <1>3
    <2> QED BY <2>1, RecordedType
  <1>5. \A r \in Requests : {row \in db'.rows : row.by = r} = {row \in disk.rows : row.by = r}
    BY <1>4, UserAdminAssumption DEF Row
  <1>6. boot' \in [Boots -> {"idle", "prompting", "done", "refused"}]
    BY DEF BootCreate, AdminInv, TypeOK
  <1> QED BY <1>1, <1>4, <1>5, <1>6, WrittenInv DEF BootCreate

\* The command's other steps write nothing.
LEMMA BootInv == ASSUME AdminInv, NEW b \in Boots, BootLook(b) \/ BootTaken(b) PROVE AdminInv'
  <1>1. /\ UNCHANGED <<db, disk, txn, pc, asked, rule>>
        /\ boot' \in [Boots -> {"idle", "prompting", "done", "refused"}]
    BY DEF BootLook, BootTaken, AdminInv, TypeOK
  <1> QED BY <1>1 DEF AdminInv, TypeOK, Serial, Doing, Permitted, AttemptsAreRecorded

\* A crash leaves what was committed.
LEMMA CrashInv == ASSUME AdminInv, Crash PROVE AdminInv'
  <1> USE DEF AdminInv
  <1>0. /\ pc' \in [Requests -> Locations]
        /\ \A q \in Requests :
             \/ /\ pc[q] \in InTransaction \cup {"queued", "refusing"}
                /\ pc'[q] = "lost"
             \/ /\ pc[q] \notin InTransaction \cup {"queued", "refusing"}
                /\ pc'[q] = pc[q]
        /\ db' = disk /\ txn' = None
        /\ UNCHANGED <<disk, asked, rule, boot>>
    BY DEF Crash, TypeOK, Locations
  <1>2. TypeOK'
    BY <1>0 DEF TypeOK
  <1>3. Serial'
    <2>1. \A q \in Requests : pc'[q] \notin InTransaction
      BY <1>0 DEF InTransaction
    <2> QED BY <2>1, <1>0, UserAdminAssumption DEF Serial
  <1>4. Permitted'
    BY <1>0 DEF Permitted, InTransaction
  <1>5. AttemptsAreRecorded'
    BY <1>0 DEF AttemptsAreRecorded, InTransaction
  <1> QED BY <1>2, <1>3, <1>4, <1>5

\* Where each request is says how far the store has got with it, and what its
\* rows are (user-admin.ts, commitOrRefuse).
THEOREM AdminInvariance == Spec => []AdminInv
  <1>1. AdminInv /\ [Next]_vars => AdminInv'
    <2> SUFFICES ASSUME AdminInv, [Next]_vars PROVE AdminInv'
      OBVIOUS
    <2>1. ASSUME NEW r \in Requests,
                 Authenticate(r) \/ Begin(r) \/ RefusalFails(r)
          PROVE  AdminInv'
      BY <2>1, OutsideInv
    <2>2. ASSUME NEW r \in Requests, Pass(r) \/ Change(r) \/ Append(r)
          PROVE  AdminInv'
      BY <2>2, InsideInv
    <2>3. ASSUME NEW r \in Requests, Deny(r) \/ Fail(r) PROVE AdminInv'
      BY <2>3, UndoneInv
    <2>4. ASSUME NEW r \in Requests, Commit(r) PROVE AdminInv'
      BY <2>4, CommitInv
    <2>5. ASSUME NEW r \in Requests, Refuse(r) PROVE AdminInv'
      BY <2>5, RefuseInv
    <2>6. ASSUME NEW u \in Users, SignIn(u) PROVE AdminInv'
      BY <2>6, SignInInv
    <2>7. ASSUME NEW b \in Boots, BootLook(b) \/ BootTaken(b) PROVE AdminInv'
      BY <2>7, BootInv
    <2>8. ASSUME NEW b \in Boots, BootCreate(b) PROVE AdminInv'
      BY <2>8, BootCreateInv
    <2>9. CASE Crash
      BY <2>9, CrashInv
    <2>10. CASE UNCHANGED vars
      BY <2>10 DEF vars, AdminInv, TypeOK, Serial, Doing, Permitted, AttemptsAreRecorded
    <2> QED
      BY <2>1, <2>2, <2>3, <2>4, <2>5, <2>6, <2>7, <2>8, <2>9, <2>10 DEF Next
  <1> QED BY InitInv, <1>1, PTL DEF Spec

\* Every variable keeps its type.
THEOREM AdminTypeCorrect == Spec => []TypeOK
  BY AdminInvariance, PTL DEF AdminInv

\* What was answered is what was recorded, for any number of requests at once.
THEOREM AttemptsAlwaysRecorded == Spec => []AttemptsAreRecorded
  BY AdminInvariance, PTL DEF AdminInv

\* What a step may do to what is committed.
LEMMA CommittedStep ==
  ASSUME AdminInv, [Next]_vars
  PROVE  \/ disk'.acct = disk.acct
         \/ \E r \in Requests :
              /\ pc[r] = "recorded" /\ asked[r] \in Attempts
              /\ Denial(disk, asked[r]) = None
              /\ disk' = Recorded(Changed(disk, asked[r]), r, "ok")
         \/ \E b \in Boots, u \in Users, g \in AdminGroups :
              /\ ~disk.acct[u].made
              /\ disk' = Recorded(Created(disk, u, {g}), b, "ok")
  <1>0. disk \in Stores /\ (txn = None => db = disk)
    BY DEF AdminInv, TypeOK, Serial
  <1>1. ASSUME NEW r \in Requests, Commit(r)
        PROVE  /\ pc[r] = "recorded" /\ asked[r] \in Attempts
               /\ Denial(disk, asked[r]) = None
               /\ disk' = Recorded(Changed(disk, asked[r]), r, "ok")
    <2>1. pc[r] = "recorded" /\ pc[r] \in InTransaction /\ disk' = db
      BY <1>1 DEF Commit, InTransaction
    <2> QED BY <2>1, OneInside DEF Doing, AdminInv, Permitted
  <1>2. ASSUME NEW r \in Requests, Refuse(r) PROVE disk'.acct = disk.acct
    <2>1. rule[r] \in Rules /\ disk' = Recorded(disk, r, rule[r])
      BY <1>2, <1>0 DEF Refuse, AdminInv, Permitted
    <2> QED BY <2>1, <1>0 DEF Recorded, Stores
  <1>3. ASSUME NEW u \in Users, SignIn(u) PROVE disk'.acct = disk.acct
    BY <1>3, <1>0 DEF SignIn, Stores
  <1>4. ASSUME NEW b \in Boots, BootCreate(b)
        PROVE  \E u \in Users, g \in AdminGroups :
                 /\ ~disk.acct[u].made
                 /\ disk' = Recorded(Created(disk, u, {g}), b, "ok")
    BY <1>4, <1>0 DEF BootCreate
  <1>5. ASSUME UNCHANGED disk PROVE disk'.acct = disk.acct
    BY <1>5
  <1> QED
    BY <1>1, <1>2, <1>3, <1>4, <1>5
    DEF Next, vars, Authenticate, Begin, Pass, Deny, Change, Append, Fail, RefusalFails,
        BootLook, BootTaken, Crash

\* What reaches an account is one request's whole change or a first admin.
THEOREM ChangesAlwaysWhole == Spec => ChangesAreWhole
  <1>1. AdminInv /\ [Next]_vars =>
          \/ disk'.acct = disk.acct
          \/ \E r \in Requests :
               /\ pc[r] = "recorded"
               /\ disk' = Recorded(Changed(disk, asked[r]), r, "ok")
          \/ \E b \in Boots, u \in Users, g \in AdminGroups :
               disk' = Recorded(Created(disk, u, {g}), b, "ok")
    BY CommittedStep
  <1> QED BY AdminInvariance, <1>1, PTL DEF Spec, ChangesAreWhole

\* The last active identity admin is never taken, however many administrators
\* change accounts at once (refuseIfLastAdmin).
THEOREM AnAdminAlwaysRemains == Spec => AnAdminRemains
  <1>1. AdminInv /\ [Next]_vars => (Admins(disk) # {} => Admins(disk') # {})
    <2> SUFFICES ASSUME AdminInv, [Next]_vars, Admins(disk) # {} PROVE Admins(disk') # {}
      OBVIOUS
    <2>0. disk \in Stores
      BY DEF AdminInv, TypeOK
    <2>1. CASE disk'.acct = disk.acct
      BY <2>1 DEF Admins
    <2>2. ASSUME NEW r \in Requests, asked[r] \in Attempts, Denial(disk, asked[r]) = None,
                 disk' = Recorded(Changed(disk, asked[r]), r, "ok")
          PROVE  Admins(disk') # {}
      <3>1. Admins(Changed(disk, asked[r])) # {}
        BY <2>0, <2>2, GuardKeepsAdmin
      <3>2. disk'.acct = Changed(disk, asked[r]).acct
        BY <2>0, <2>2, ChangedType, RecordedType
      <3> QED BY <3>1, <3>2 DEF Admins
    <2>3. ASSUME NEW b \in Boots, NEW u \in Users, NEW g \in AdminGroups,
                 ~disk.acct[u].made, disk' = Recorded(Created(disk, u, {g}), b, "ok")
          PROVE  Admins(disk') # {}
      <3>0. {g} \in SUBSET Groups
        BY UserAdminAssumption
      <3>1. Admins(Created(disk, u, {g})) # {}
        BY <2>0, <2>3, <3>0, CreatedKeepsAdmins
      <3>2. disk'.acct = Created(disk, u, {g}).acct
        BY <2>0, <2>3, <3>0, CreatedType, RecordedType
      <3> QED BY <3>1, <3>2 DEF Admins
    <2> QED BY <2>1, <2>2, <2>3, CommittedStep
  <1> QED BY AdminInvariance, <1>1, PTL DEF Spec, AnAdminRemains
=============================================================================
