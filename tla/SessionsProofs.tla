----------------------------- MODULE SessionsProofs -----------------------------
(***************************************************************************)
(* Theorems about Sessions for any sign-ins, renewals and sign-outs, any   *)
(* limits and any number of commands.                                      *)
(***************************************************************************)
EXTENDS Sessions, TLAPS

-----------------------------------------------------------------------------
(***************************************************************************)
(* The inductive invariant.  Most of it is about a store alone, and is     *)
(* kept by every statement: so it holds of what is committed and of what   *)
(* the connection shows, whichever of the two a transaction ends with.     *)
(***************************************************************************)

Held(s, t) == s.tok[t] # NoToken

Chain(s) ==
  \A t \in Tokens : Held(s, t) =>
    /\ s.sess[s.tok[t].session] # NoSession
    /\ s.tok[t].by # None =>
         Held(s, s.tok[t].by) /\ s.tok[s.tok[t].by].session = s.tok[t].session
    /\ \A u \in Tokens \ {t} :
         Held(s, u) /\ s.tok[u].session = s.tok[t].session => s.tok[u].by # s.tok[t].by

Lockout(s) == s.acct.failed >= Threshold <=> s.acct.locked # Never

\* The tokens handed out while the account was active, by what is committed.
Due == handed \ undue

\* With the passwords that sessions were opened under, the tokens handed out, and
\* those of them that were due.
Sound(s, under, out, due) ==
  /\ Chain(s) /\ Lockout(s)
  /\ \A a \in Attempts : Live(s, a) => under[a] = s.acct.pwd
  /\ \A t \in out : Held(s, t)
  /\ ~s.acct.active => \A t \in due : ~Live(s, s.tok[t].session)

\* A call that has made nothing yet.
Unborn(s, p) == ~Held(s, p) /\ (p \in Attempts => s.sess[p] = NoSession)

Early == {"idle", "wrong", "right", "recording", "recorded", "open", "rotate"}
InTransaction == {"recording", "recorded", "opening", "rotating", "ending"}

\* What any store shows of a call: by where it is, the token it presents, and
\* the code it verified.
Shown(s, p, loc, t, code) ==
  /\ loc \in Early => Unborn(s, p)
  /\ loc = "issue" => Held(s, p)
  /\ p \in Renewals /\ loc \in {"issue", "granted", "revoke"} => s.tok[t].by = p
  /\ p \in Renewals /\ loc = "ended" => ~Live(s, s.tok[t].session)
  /\ p \in Attempts /\ loc \in {"open", "opening", "issue", "granted"} =>
       code <= s.acct.counter

\* What the open transaction has made of the connection's view, d, and not yet
\* of the committed store, k.
Doing(d, k, p, loc, t, code) ==
  /\ p \in Attempts /\ loc = "recorded" => code <= d.acct.counter
  /\ loc = "opening" => Held(d, p) /\ Unborn(k, p)
  /\ loc = "rotating" => Held(d, p) /\ d.tok[t].by = p
  /\ loc = "ending" => ~Live(d, d.tok[t].session)

Known(d, k, p, loc, t, code) ==
  Shown(d, p, loc, t, code) /\ Shown(k, p, loc, t, code) /\ Doing(d, k, p, loc, t, code)

AttemptLocations == {"idle", "wrong", "right", "recording", "recorded", "open", "opening",
                     "issue", "granted", "refused", "error"}
RenewalLocations == {"idle", "rotate", "rotating", "ending", "issue", "revoke", "granted",
                     "ended", "error"}

Placed ==
  /\ \A p \in Tokens : pc[p] \in InTransaction <=> txn = p
  /\ \A a \in Attempts : pc[a] \in AttemptLocations
  /\ \A r \in Renewals : pc[r] \in RenewalLocations
  /\ \A r \in Renewals : pc[r] # "idle" => shown[r] \in handed

SessionsInv ==
  /\ TypeOK /\ Placed
  /\ Sound(db, opened, handed, Due) /\ Sound(disk, opened, handed, Due)
  /\ \A p \in Tokens : Known(db, disk, p, pc[p], shown[p], cred[p].code)
  /\ txn = "enable" => db.acct.active

-----------------------------------------------------------------------------
(***************************************************************************)
(* What the statements do to a store.  A statement of a sign-in's record,  *)
(* of a revocation or of a command only fades it: no token changes, no     *)
(* session begins or comes back.  Opening and rotation make one call's     *)
(* token; everything else grows.                                           *)
(***************************************************************************)

Fades(s, f) ==
  /\ f.tok = s.tok
  /\ \A a \in Attempts : f.sess[a] = NoSession <=> s.sess[a] = NoSession
  /\ \A a \in Attempts : Live(f, a) =>
       Live(s, a) /\ f.acct.pwd = s.acct.pwd /\ (~f.acct.active => ~s.acct.active)
  /\ s.acct.counter <= f.acct.counter
  /\ Lockout(s) => Lockout(f)

Grows(s, g, p) ==
  /\ \A t \in Tokens : Held(s, t) =>
       /\ Held(g, t) /\ g.tok[t].session = s.tok[t].session
       /\ s.tok[t].by # None => g.tok[t].by = s.tok[t].by
  /\ \A a \in Attempts : s.sess[a] # NoSession => (Live(g, a) => Live(s, a))
  /\ s.acct.counter <= g.acct.counter
  /\ \A q \in Tokens \ {p} : Unborn(s, q) => Unborn(g, q)

\* The type of a token and of a session, by their fields.
LEMMA TokenFields ==
  ASSUME NEW s \in Stores, NEW t \in Tokens, Held(s, t)
  PROVE  /\ s.tok[t] \in [session : Attempts, idle : Nat, by : Renewals \cup {None}]
         /\ s.tok[t].session \in Attempts /\ s.tok[t].by \in Renewals \cup {None}
  BY DEF Stores, RefreshTokens, Held

\* A successor is a token only if the token that names it is one.
LEMMA SpentIsHeld ==
  ASSUME NEW s \in Stores, NEW t \in Tokens, s.tok[t].by # None
  PROVE  Held(s, t)
  BY DEF Held, NoToken

\* A store that fades is as sound as before.
LEMMA FadedIsSound ==
  ASSUME NEW s \in Stores, NEW f \in Stores, NEW under, NEW out \in SUBSET Tokens, NEW due \in SUBSET out,
         Sound(s, under, out, due), Fades(s, f)
  PROVE  Sound(f, under, out, due)
<1>1. \A t \in Tokens : Held(f, t) <=> Held(s, t)
  BY DEF Fades, Held
<1>2. \A t \in Tokens : Held(s, t) =>
        s.tok[t].session \in Attempts /\ s.tok[t].by \in Tokens \cup {None}
  BY TokenFields DEF Tokens
<1>3. Chain(f)
  <2>1. Chain(s) /\ f.tok = s.tok
    BY DEF Sound, Fades
  <2>2. \A a \in Attempts : f.sess[a] = NoSession <=> s.sess[a] = NoSession
    BY DEF Fades
  <2>3. QED
    BY <1>1, <1>2, <2>1, <2>2 DEF Chain
<1>4. /\ \A t \in out : Held(f, t)
      /\ ~f.acct.active => \A t \in due : ~Live(f, f.tok[t].session)
  BY <1>1, <1>2 DEF Fades, Sound
<1>5. \A a \in Attempts : Live(f, a) => under[a] = f.acct.pwd
  BY DEF Fades, Sound
<1>6. QED
  BY <1>3, <1>4, <1>5 DEF Fades, Sound

\* To fade is to grow by nothing.
LEMMA FadedGrows ==
  ASSUME NEW s \in Stores, NEW f \in Stores, NEW p, Fades(s, f)
  PROVE  Grows(s, f, p)
<1>1. \A q \in Tokens : Unborn(s, q) => Unborn(f, q)
  BY DEF Fades, Unborn, Held
<1>2. QED
  BY <1>1 DEF Fades, Grows, Held

\* What a store shows of a call, it shows after any other call's growth.
LEMMA GrownShows ==
  ASSUME NEW s \in Stores, NEW g \in Stores, NEW q, Grows(s, g, q), Chain(s),
         NEW p \in Tokens, NEW loc, NEW t, NEW code, p \in Attempts => code \in Int,
         loc \in Early => p # q,
         p \in Renewals /\ loc # "idle" => t \in Tokens /\ Held(s, t),
         Shown(s, p, loc, t, code)
  PROVE  Shown(g, p, loc, t, code)
<1>1. loc \in Early => Unborn(g, p)
  BY DEF Grows, Shown
<1>2. loc = "issue" => Held(g, p)
  BY DEF Grows, Shown
<1>3. p \in Renewals /\ loc \in {"issue", "granted", "revoke"} => g.tok[t].by = p
  BY SessionsAssumption DEF Grows, Shown
<1>4. ASSUME p \in Renewals, loc = "ended"
      PROVE  ~Live(g, g.tok[t].session)
  <2>1. s.tok[t].session \in Attempts /\ s.sess[s.tok[t].session] # NoSession
    BY <1>4, TokenFields DEF Chain
  <2>2. ~Live(s, s.tok[t].session)
    BY <1>4 DEF Shown
  <2>3. g.tok[t].session = s.tok[t].session
    BY <1>4 DEF Grows
  <2>4. QED
    BY <2>1, <2>2, <2>3 DEF Grows
<1>5. p \in Attempts /\ loc \in {"open", "opening", "issue", "granted"} =>
        code <= g.acct.counter
  BY DEF Grows, Shown, Stores, Accounts
<1>6. QED
  BY <1>1, <1>2, <1>3, <1>4, <1>5 DEF Shown

\* Each statement keeps the type of the store and fades it, or grows it.
LEMMA FailedFades ==
  ASSUME NEW s \in Stores, NEW a \in Calls, at[a] \in Nat
  PROVE  LET f == [s EXCEPT !.acct = Failed(@, a)]
         IN f \in Stores /\ Fades(s, f) /\ f.acct.active = s.acct.active
<1> DEFINE f == [s EXCEPT !.acct = Failed(@, a)]
           n == s.acct.failed + 1
           lock == IF n >= Threshold THEN at[a] + LockFor ELSE Never
<1>0. s.acct \in Accounts /\ n \in Nat /\ lock \in Int
      /\ (n >= Threshold <=> lock # Never)
  BY SessionsAssumption DEF Stores, Accounts, Never
<1>a. Failed(s.acct, a) = [s.acct EXCEPT !.failed = n, !.locked = lock]
  BY DEF Failed
<1> HIDE DEF n, lock
<1>1. /\ Failed(s.acct, a) \in Accounts
      /\ Failed(s.acct, a).failed = n /\ Failed(s.acct, a).locked = lock
      /\ Failed(s.acct, a).pwd = s.acct.pwd /\ Failed(s.acct, a).active = s.acct.active
      /\ Failed(s.acct, a).counter = s.acct.counter
  BY <1>0, <1>a DEF Accounts
<1>2. f \in Stores /\ f.acct = Failed(s.acct, a) /\ f.sess = s.sess /\ f.tok = s.tok
  BY <1>1 DEF Stores
<1>3. f.acct.pwd = s.acct.pwd /\ f.acct.active = s.acct.active
      /\ f.acct.counter = s.acct.counter /\ Lockout(f)
  BY <1>0, <1>1, <1>2 DEF Lockout
<1>4. s.acct.counter <= s.acct.counter
  BY DEF Stores, Accounts
<1>5. QED
  BY <1>2, <1>3, <1>4 DEF Fades, Live

LEMMA SuccessFades ==
  ASSUME NEW s \in Stores, NEW code \in Int
  PROVE  LET f == [s EXCEPT !.acct.failed = 0, !.acct.locked = Never,
                            !.acct.counter = GreaterCounter(s.acct, code)]
         IN /\ f \in Stores /\ Fades(s, f) /\ f.acct.active = s.acct.active
            /\ code <= f.acct.counter
<1> DEFINE f == [s EXCEPT !.acct.failed = 0, !.acct.locked = Never,
                          !.acct.counter = GreaterCounter(s.acct, code)]
<1>1. /\ GreaterCounter(s.acct, code) \in Int
      /\ code <= GreaterCounter(s.acct, code)
      /\ s.acct.counter <= GreaterCounter(s.acct, code)
  BY DEF GreaterCounter, Stores, Accounts
<1>2. /\ f \in Stores /\ f.sess = s.sess /\ f.tok = s.tok
      /\ f.acct.pwd = s.acct.pwd /\ f.acct.active = s.acct.active
      /\ f.acct.failed = 0 /\ f.acct.locked = Never
      /\ f.acct.counter = GreaterCounter(s.acct, code)
  <2> DEFINE c == GreaterCounter(s.acct, code)
             acct == [s.acct EXCEPT !.failed = 0, !.locked = Never, !.counter = c]
  <2>1. s.acct \in Accounts /\ c \in Int /\ Never \in Int /\ 0 \in Nat
    BY <1>1 DEF Stores, Never
  <2> HIDE DEF c
  <2>2. /\ acct \in Accounts /\ acct.failed = 0 /\ acct.locked = Never /\ acct.counter = c
        /\ acct.pwd = s.acct.pwd /\ acct.active = s.acct.active
    BY <2>1 DEF Accounts
  <2>3. f = [s EXCEPT !.acct = acct]
    BY DEF Stores, c
  <2> HIDE DEF acct, f
  <2>4. f \in Stores /\ f.acct = acct /\ f.sess = s.sess /\ f.tok = s.tok
    BY <2>2, <2>3 DEF Stores
  <2>5. QED
    BY <2>2, <2>4 DEF c
<1>3. Lockout(f)
  BY <1>2, SessionsAssumption DEF Lockout
<1>4. QED
  BY <1>1, <1>2, <1>3 DEF Fades, Live

LEMMA ReactivatedFades ==
  ASSUME NEW s \in Stores
  PROVE  LET f == [s EXCEPT !.acct.active = TRUE]
         IN f \in Stores /\ Fades(s, f) /\ f.acct.active
<1> DEFINE f == [s EXCEPT !.acct.active = TRUE]
<1>1. /\ f \in Stores /\ f.sess = s.sess /\ f.tok = s.tok
      /\ f.acct.pwd = s.acct.pwd /\ f.acct.active
      /\ f.acct.failed = s.acct.failed /\ f.acct.locked = s.acct.locked
      /\ f.acct.counter = s.acct.counter /\ s.acct.counter <= s.acct.counter
  <2> DEFINE acct == [s.acct EXCEPT !.active = TRUE]
  <2>1. s.acct \in Accounts
    BY DEF Stores
  <2>2. /\ acct \in Accounts /\ acct.active
        /\ acct.failed = s.acct.failed /\ acct.locked = s.acct.locked
        /\ acct.counter = s.acct.counter /\ acct.pwd = s.acct.pwd
        /\ s.acct.counter <= s.acct.counter
    <3>1. s.acct.counter <= s.acct.counter
      BY <2>1 DEF Accounts
    <3>2. acct \in Accounts
      BY <2>1 DEF Accounts
    <3>3. /\ acct.failed = s.acct.failed /\ acct.locked = s.acct.locked
          /\ acct.counter = s.acct.counter /\ acct.pwd = s.acct.pwd
      BY <2>1 DEF Accounts
    <3>4. acct.active
      BY <2>1 DEF Accounts
    <3>5. QED
      BY <3>1, <3>2, <3>3, <3>4
  <2>3. f = [s EXCEPT !.acct = acct]
    BY DEF Stores
  <2> HIDE DEF acct, f
  <2>4. f \in Stores /\ f.acct = acct /\ f.sess = s.sess /\ f.tok = s.tok
    BY <2>2, <2>3 DEF Stores
  <2>5. QED
    BY <2>2, <2>4
<1>2. QED
  BY <1>1 DEF Fades, Live, Lockout

LEMMA RevokedFades ==
  ASSUME NEW s \in Stores, NEW a \in Attempts, NEW why \in Reasons
  PROVE  /\ Revoked(s, a, why) \in Stores /\ Fades(s, Revoked(s, a, why))
         /\ Revoked(s, a, why).acct.active = s.acct.active
         /\ ~Live(Revoked(s, a, why), a)
<1> DEFINE f == Revoked(s, a, why)
<1>1. why # None
  BY NamesAssumption
<1>2. s.acct.counter <= s.acct.counter
  BY DEF Stores, Accounts
<1>3. CASE ~Live(s, a)
  BY <1>2, <1>3 DEF Revoked, Fades
<1>4. CASE Live(s, a)
  <2>1. f = [s EXCEPT !.sess[a].reason = why]
    BY <1>4 DEF Revoked
  <2>2. s.sess[a] \in [ends : Nat, reason : Reasons \cup {None}]
    BY <1>4 DEF Stores, AuthSessions, Live
  <2>3. /\ f \in Stores /\ f.acct = s.acct /\ f.tok = s.tok
        /\ f.sess[a] # NoSession /\ f.sess[a].reason = why
        /\ \A b \in Attempts \ {a} : f.sess[b] = s.sess[b]
    <3>1. [s.sess[a] EXCEPT !.reason = why] \in [ends : Nat, reason : Reasons \cup {None}]
      BY <2>2
    <3>2. f.sess = [s.sess EXCEPT ![a] = [s.sess[a] EXCEPT !.reason = why]]
      BY <2>1 DEF Stores
    <3>3. [s.sess[a] EXCEPT !.reason = why].reason = why
      BY <2>2
    <3>4. [s.sess[a] EXCEPT !.reason = why] \in AuthSessions
          /\ [s.sess[a] EXCEPT !.reason = why] # NoSession
      BY <3>1, <3>3, <1>1 DEF AuthSessions, NoSession
    <3>5. f.sess \in [Attempts -> AuthSessions] /\ f.sess[a] = [s.sess[a] EXCEPT !.reason = why]
          /\ \A b \in Attempts \ {a} : f.sess[b] = s.sess[b]
      BY <3>2, <3>4 DEF Stores
    <3>6. f.acct = s.acct /\ f.tok = s.tok /\ f = [acct |-> f.acct, sess |-> f.sess, tok |-> f.tok]
      BY <2>1 DEF Stores
    <3>7. QED
      BY <3>3, <3>4, <3>5, <3>6 DEF Stores
  <2>4. QED
    BY <1>1, <1>2, <1>4, <2>3 DEF Fades, Live, Lockout
<1>5. QED
  BY <1>3, <1>4

LEMMA AllRevokedFades ==
  ASSUME NEW s \in Stores, NEW why \in Reasons
  PROVE  LET f == AllRevoked(s, why)
         IN /\ f \in Stores /\ f.acct = s.acct /\ f.tok = s.tok
            /\ \A a \in Attempts : /\ f.sess[a] = NoSession <=> s.sess[a] = NoSession
                                   /\ ~Live(f, a)
<1> DEFINE f == AllRevoked(s, why)
           Ended(a) == IF Live(s, a) THEN [s.sess[a] EXCEPT !.reason = why] ELSE s.sess[a]
<1>1. why # None
  BY NamesAssumption
<1>2. ASSUME NEW a \in Attempts
      PROVE  /\ Ended(a) \in AuthSessions
             /\ Ended(a) = NoSession <=> s.sess[a] = NoSession
             /\ Ended(a) = NoSession \/ Ended(a).reason # None
  <2>1. CASE Live(s, a)
    <3>1. s.sess[a] \in [ends : Nat, reason : Reasons \cup {None}]
      BY <2>1 DEF Stores, AuthSessions, Live
    <3>2. /\ Ended(a) \in [ends : Nat, reason : Reasons \cup {None}]
          /\ Ended(a).reason = why
      BY <2>1, <3>1
    <3>3. QED
      BY <1>1, <2>1, <3>2 DEF AuthSessions, NoSession, Live
  <2>2. CASE ~Live(s, a)
    BY <2>2 DEF Stores, Live
  <2>3. QED
    BY <2>1, <2>2
<1>3. f = [s EXCEPT !.sess = [a \in Attempts |-> Ended(a)]]
  BY DEF AllRevoked
<1> HIDE DEF Ended
<1>4. [a \in Attempts |-> Ended(a)] \in [Attempts -> AuthSessions]
  BY <1>2
<1>5. /\ f \in Stores /\ f.acct = s.acct /\ f.tok = s.tok
      /\ f.sess = [a \in Attempts |-> Ended(a)]
  BY <1>3, <1>4 DEF Stores
<1> HIDE DEF f
<1>6. \A a \in Attempts : f.sess[a] = Ended(a)
  BY <1>5
<1>7. QED
  BY <1>2, <1>5, <1>6 DEF Live, f

LEMMA ResetFades ==
  ASSUME NEW s \in Stores
  PROVE  LET f == AllRevoked([s EXCEPT !.acct.pwd = @ + 1, !.acct.failed = 0,
                                       !.acct.locked = Never], "credential_reset")
         IN f \in Stores /\ Fades(s, f) /\ f.acct.active = s.acct.active
<1> DEFINE acct == [s.acct EXCEPT !.pwd = @ + 1, !.failed = 0, !.locked = Never]
           b == [s EXCEPT !.acct.pwd = @ + 1, !.acct.failed = 0, !.acct.locked = Never]
           f == AllRevoked(b, "credential_reset")
           next == s.acct.pwd + 1
<1>1. s.acct \in Accounts /\ Never \in Int /\ 0 \in Nat /\ next \in Nat
  BY DEF Stores, Accounts, Never
<1>a. acct = [s.acct EXCEPT !.pwd = next, !.failed = 0, !.locked = Never]
  OBVIOUS
<1>2. /\ acct \in Accounts /\ acct.failed = 0 /\ acct.locked = Never
      /\ acct.counter = s.acct.counter /\ acct.active = s.acct.active
      /\ s.acct.counter <= s.acct.counter
  <2>1. s.acct.counter <= s.acct.counter
    BY <1>1 DEF Accounts
  <2>2. acct \in Accounts
    <3> HIDE DEF acct, next
    <3>1. QED
      BY <1>1, <1>a DEF Accounts
  <2>3. acct.failed = 0 /\ acct.locked = Never /\ acct.counter = s.acct.counter
    BY <1>1 DEF Accounts
  <2>4. acct.active = s.acct.active
    BY <1>1 DEF Accounts
  <2>5. QED
    BY <2>1, <2>2, <2>3, <2>4
<1>3. b = [s EXCEPT !.acct = acct]
  BY DEF Stores
<1> HIDE DEF acct, b
<1>4. b \in Stores /\ b.acct = acct /\ b.sess = s.sess /\ b.tok = s.tok
  BY <1>2, <1>3 DEF Stores
<1>5. /\ f \in Stores /\ f.acct = b.acct /\ f.tok = b.tok
      /\ \A a \in Attempts : /\ f.sess[a] = NoSession <=> b.sess[a] = NoSession
                             /\ ~Live(f, a)
  BY <1>4, AllRevokedFades DEF Reasons
<1> HIDE DEF f
<1>6. Lockout(f)
  BY <1>2, <1>4, <1>5, SessionsAssumption DEF Lockout
<1>7. Fades(s, f)
  BY <1>2, <1>4, <1>5, <1>6 DEF Fades
<1>8. f.acct.active = s.acct.active
  BY <1>2, <1>4, <1>5
<1>9. QED
  BY <1>5, <1>7, <1>8 DEF f, b

LEMMA DeactivatedFades ==
  ASSUME NEW s \in Stores
  PROVE  LET f == AllRevoked([s EXCEPT !.acct.active = FALSE], "account_unavailable")
         IN f \in Stores /\ Fades(s, f) /\ ~f.acct.active
<1> DEFINE acct == [s.acct EXCEPT !.active = FALSE]
           b == [s EXCEPT !.acct.active = FALSE]
           f == AllRevoked(b, "account_unavailable")
<1>1. s.acct \in Accounts
  BY DEF Stores
<1>2. /\ acct \in Accounts /\ ~acct.active
      /\ acct.failed = s.acct.failed /\ acct.locked = s.acct.locked
      /\ acct.counter = s.acct.counter /\ s.acct.counter <= s.acct.counter
  <2>1. s.acct.counter <= s.acct.counter
    BY <1>1 DEF Accounts
  <2>2. acct \in Accounts
    BY <1>1 DEF Accounts
  <2>3. acct.failed = s.acct.failed /\ acct.locked = s.acct.locked
        /\ acct.counter = s.acct.counter
    BY <1>1 DEF Accounts
  <2>4. ~acct.active
    BY <1>1 DEF Accounts
  <2>5. QED
    BY <2>1, <2>2, <2>3, <2>4
<1>3. b = [s EXCEPT !.acct = acct]
  BY DEF Stores
<1> HIDE DEF acct, b
<1>4. b \in Stores /\ b.acct = acct /\ b.sess = s.sess /\ b.tok = s.tok
  BY <1>2, <1>3 DEF Stores
<1>5. /\ f \in Stores /\ f.acct = b.acct /\ f.tok = b.tok
      /\ \A a \in Attempts : /\ f.sess[a] = NoSession <=> b.sess[a] = NoSession
                             /\ ~Live(f, a)
  BY <1>4, AllRevokedFades DEF Reasons
<1> HIDE DEF f
<1>6. Lockout(s) => Lockout(f)
  BY <1>2, <1>4, <1>5 DEF Lockout
<1>7. Fades(s, f)
  BY <1>2, <1>4, <1>5, <1>6 DEF Fades
<1>8. QED
  BY <1>2, <1>4, <1>5, <1>7 DEF f, b

\* A call that has made nothing is named by no token, and its session by none.
LEMMA UnbornIsUnnamed ==
  ASSUME NEW s \in Stores, Chain(s), NEW p \in Tokens, Unborn(s, p),
         NEW t \in Tokens, Held(s, t)
  PROVE  /\ t # p /\ s.tok[t].by # p
         /\ p \in Attempts => s.tok[t].session # p
<1>1. p # None
  BY SessionsAssumption DEF Tokens
<1>2. QED
  BY <1>1 DEF Unborn, Chain

\* Opening makes the session's first token; the old store does not show it.
LEMMA OpenedGrows ==
  ASSUME NEW s \in Stores, NEW a \in Attempts, NEW time \in Nat, NEW under,
         under \in [Attempts -> Int], NEW out \in SUBSET Tokens, NEW due \in SUBSET out,
         Sound(s, under, out, due), Unborn(s, a)
  PROVE  LET g == [s EXCEPT !.sess[a] = [ends |-> time + Absolute, reason |-> None],
                            !.tok[a] = [session |-> a, idle |-> time + Idle, by |-> None]]
             then == [under EXCEPT ![a] = s.acct.pwd]
         IN /\ g \in Stores /\ Grows(s, g, a) /\ g.acct = s.acct /\ Held(g, a)
            /\ Sound(g, then, out, due) /\ Sound(s, then, out, due)
<1> DEFINE begun == [ends |-> time + Absolute, reason |-> None]
           first == [session |-> a, idle |-> time + Idle, by |-> None]
           g == [s EXCEPT !.sess[a] = begun, !.tok[a] = first]
           then == [under EXCEPT ![a] = s.acct.pwd]
<1>1. begun \in AuthSessions /\ begun # NoSession
  <2>1. time + Absolute \in Nat /\ time + Absolute # Never
    BY SessionsAssumption DEF Never
  <2>2. QED
    BY <2>1 DEF AuthSessions, NoSession
<1>2. first \in RefreshTokens /\ first # NoToken
  <2>1. time + Idle \in Nat /\ a # None
    BY SessionsAssumption
  <2>2. QED
    BY <2>1 DEF RefreshTokens, NoToken
<1>3. first.session = a /\ first.by = None
  OBVIOUS
<1>4. a \in Tokens
  BY DEF Tokens
<1> HIDE DEF begun, first
<1>5. /\ g \in Stores /\ g.acct = s.acct
      /\ g.sess = [s.sess EXCEPT ![a] = begun] /\ g.tok = [s.tok EXCEPT ![a] = first]
  BY <1>1, <1>2, <1>4 DEF Stores
<1> HIDE DEF g
<1>6. /\ g.sess[a] = begun /\ \A b \in Attempts \ {a} : g.sess[b] = s.sess[b]
      /\ g.tok[a] = first /\ \A t \in Tokens \ {a} : g.tok[t] = s.tok[t]
  BY <1>4, <1>5 DEF Stores
<1>7. Chain(s)
  BY DEF Sound
<1>8. \A t \in Tokens : Held(s, t) =>
        /\ t # a /\ s.tok[t].by # a /\ s.tok[t].session \in Attempts \ {a}
        /\ s.tok[t].by \in Tokens \cup {None}
  BY <1>4, <1>7, UnbornIsUnnamed, TokenFields DEF Tokens
<1>9. \A t \in Tokens : Held(g, t) <=> t = a \/ Held(s, t)
  BY <1>2, <1>4, <1>6, <1>8 DEF Held
<1>10. Chain(g)
  <2> SUFFICES ASSUME NEW t \in Tokens, Held(g, t)
               PROVE  /\ g.sess[g.tok[t].session] # NoSession
                      /\ g.tok[t].by # None =>
                           Held(g, g.tok[t].by) /\ g.tok[g.tok[t].by].session = g.tok[t].session
                      /\ \A u \in Tokens \ {t} :
                           Held(g, u) /\ g.tok[u].session = g.tok[t].session =>
                             g.tok[u].by # g.tok[t].by
    BY DEF Chain
  <2>1. CASE t = a
    BY <1>1, <1>3, <1>6, <1>8, <1>9, <2>1
  <2>2. CASE t # a
    BY <1>3, <1>6, <1>7, <1>8, <1>9, <2>2 DEF Chain
  <2>3. QED
    BY <2>1, <2>2
<1>11. Grows(s, g, a)
  <2>1. \A t \in Tokens : Held(s, t) => Held(g, t) /\ g.tok[t] = s.tok[t]
    BY <1>6, <1>8, <1>9
  <2>2. \A b \in Attempts : s.sess[b] # NoSession => (Live(g, b) => Live(s, b))
    BY <1>4, <1>6 DEF Live, Unborn
  <2>3. s.acct.counter <= g.acct.counter
    BY <1>5 DEF Stores, Accounts
  <2>4. \A q \in Tokens \ {a} : Unborn(s, q) => Unborn(g, q)
    BY <1>6 DEF Unborn, Held
  <2>5. QED
    BY <2>1, <2>2, <2>3, <2>4 DEF Grows
<1>12. \A b \in Attempts : then[b] = IF b = a THEN s.acct.pwd ELSE under[b]
  OBVIOUS
<1> HIDE DEF then
<1>13. \A b \in Attempts : Live(s, b) => b # a
  BY <1>4 DEF Live, Unborn
<1>14. /\ \A b \in Attempts : Live(g, b) => then[b] = g.acct.pwd
       /\ \A b \in Attempts : Live(s, b) => then[b] = s.acct.pwd
  BY <1>5, <1>6, <1>12, <1>13 DEF Sound, Live
<1>15. \A t \in out : Held(g, t) /\ g.tok[t] = s.tok[t] /\ s.tok[t].session \in Attempts \ {a}
  BY <1>6, <1>8, <1>9 DEF Sound
<1>16. Lockout(g) /\ Lockout(s)
  BY <1>5 DEF Sound, Lockout
<1>17. ~g.acct.active => \A t \in due : ~Live(g, g.tok[t].session)
  BY <1>5, <1>6, <1>15 DEF Sound, Live
<1>18. Sound(s, then, out, due)
  BY <1>14 DEF Sound
<1>19. Sound(g, then, out, due)
  BY <1>10, <1>14, <1>15, <1>16, <1>17 DEF Sound
<1>20. QED
  BY <1>4, <1>5, <1>9, <1>11, <1>18, <1>19 DEF g, then, begun, first

\* Rotation spends the presented token for one successor in its session.
LEMMA RotatedGrows ==
  ASSUME NEW s \in Stores, NEW r \in Renewals, at[r] \in Nat,
         NEW under, NEW out \in SUBSET Tokens, NEW due \in SUBSET out, Sound(s, under, out, due), Unborn(s, r),
         shown[r] \in Tokens, Held(s, shown[r]), s.tok[shown[r]].by = None
  PROVE  LET g == Rotated(s, r)
         IN /\ g \in Stores /\ Grows(s, g, r) /\ g.acct = s.acct /\ Held(g, r)
            /\ g.tok[shown[r]].by = r /\ Sound(g, under, out, due)
<1> DEFINE t0 == shown[r]
           old == s.tok[t0]
           spent == [old EXCEPT !.by = r]
           next == [session |-> old.session, idle |-> at[r] + Idle, by |-> None]
           g == Rotated(s, r)
<1>1. r \in Tokens /\ t0 \in Tokens /\ r # None /\ Chain(s)
  BY SessionsAssumption DEF Tokens, Sound
<1>2. old \in [session : Attempts, idle : Nat, by : Renewals \cup {None}]
  BY <1>1, TokenFields
<1>3. \A t \in Tokens : Held(s, t) =>
        /\ t # r /\ s.tok[t].by # r /\ s.tok[t].session \in Attempts
        /\ s.tok[t].by \in Tokens \cup {None}
  BY <1>1, UnbornIsUnnamed, TokenFields DEF Tokens
<1>4. /\ spent \in [session : Attempts, idle : Nat, by : Renewals \cup {None}]
      /\ spent.by = r /\ spent.session = old.session
  BY <1>2
<1>5. /\ next \in [session : Attempts, idle : Nat, by : Renewals \cup {None}]
      /\ next.by = None /\ next.session = old.session
  BY <1>2, SessionsAssumption
<1>6. spent # NoToken /\ next # NoToken /\ spent \in RefreshTokens /\ next \in RefreshTokens
  <2>1. spent.session # None /\ next.session # None
    BY <1>2, <1>4, <1>5, SessionsAssumption
  <2>2. QED
    BY <1>4, <1>5, <2>1 DEF NoToken, RefreshTokens
<1>7. g = [s EXCEPT !.tok = [@ EXCEPT ![t0] = spent, ![r] = next]]
  BY DEF Rotated
<1>8. t0 # r /\ old.by = None
  BY <1>1, <1>3
<1> HIDE DEF spent, next, g
<1>9. /\ g \in Stores /\ g.acct = s.acct /\ g.sess = s.sess
      /\ g.tok = [s.tok EXCEPT ![t0] = spent, ![r] = next]
  BY <1>1, <1>6, <1>7 DEF Stores
<1>10. /\ g.tok[t0] = spent /\ g.tok[r] = next
       /\ \A t \in Tokens \ {t0, r} : g.tok[t] = s.tok[t]
  BY <1>1, <1>8, <1>9 DEF Stores
<1> DEFINE S(t) == s.tok[t].session
           G(t) == g.tok[t].session
           old_by(t) == s.tok[t].by
           new_by(t) == g.tok[t].by
<1>11. /\ \A t \in Tokens : Held(g, t) <=> t = r \/ Held(s, t)
       /\ \A t \in Tokens : Held(s, t) => G(t) = S(t)
       /\ G(r) = S(t0) /\ new_by(t0) = r /\ new_by(r) = None
       /\ \A t \in Tokens : Held(s, t) /\ t # t0 => new_by(t) = old_by(t)
  BY <1>1, <1>3, <1>4, <1>5, <1>6, <1>8, <1>10 DEF Held
<1>12. /\ \A t \in Tokens : Held(s, t) => s.sess[S(t)] # NoSession
       /\ \A t \in Tokens : Held(s, t) /\ old_by(t) # None =>
            Held(s, old_by(t)) /\ S(old_by(t)) = S(t)
       /\ \A t, u \in Tokens : t # u /\ Held(s, t) /\ Held(s, u) /\ S(t) = S(u) =>
            old_by(t) # old_by(u)
  BY <1>1 DEF Chain
<1>13. /\ \A t \in Tokens : Held(s, t) => t # r /\ old_by(t) # r
       /\ \A t \in Tokens : Held(s, t) => old_by(t) \in Tokens \cup {None}
       /\ Held(s, t0) /\ old_by(t0) = None
  BY <1>3
<1> HIDE DEF S, G, old_by, new_by
<1>14. \A t \in Tokens : Held(g, t) =>
         /\ g.sess[G(t)] # NoSession
         /\ new_by(t) # None => Held(g, new_by(t)) /\ G(new_by(t)) = G(t)
  BY <1>1, <1>9, <1>11, <1>12, <1>13
<1>15. \A t, u \in Tokens : t # u /\ Held(g, t) /\ Held(g, u) /\ G(t) = G(u) =>
         new_by(t) # new_by(u)
  BY <1>1, <1>11, <1>12, <1>13
<1>16. Chain(g)
  BY <1>14, <1>15 DEF Chain, G, new_by
<1>17. Grows(s, g, r)
  <2>1. \A t \in Tokens : Held(s, t) =>
          /\ Held(g, t) /\ g.tok[t].session = s.tok[t].session
          /\ s.tok[t].by # None => g.tok[t].by = s.tok[t].by
    BY <1>1, <1>11, <1>13 DEF G, S, new_by, old_by
  <2>2. \A a \in Attempts : Live(g, a) => Live(s, a)
    BY <1>9 DEF Live
  <2>3. s.acct.counter <= g.acct.counter
    BY <1>9 DEF Stores, Accounts
  <2>4. \A q \in Tokens \ {r} : Unborn(s, q) => Unborn(g, q)
    BY <1>9, <1>11 DEF Unborn
  <2>5. QED
    BY <2>1, <2>2, <2>3, <2>4 DEF Grows
<1>18. Sound(g, under, out, due)
  <2>1. \A t \in out : Held(g, t) /\ g.tok[t].session = s.tok[t].session
    BY <1>11 DEF Sound, G, S
  <2>2. Lockout(g)
    BY <1>9 DEF Sound, Lockout
  <2>3. QED
    BY <1>9, <1>16, <2>1, <2>2 DEF Sound, Live
<1>19. g.tok[shown[r]].by = r /\ Held(g, r)
  BY <1>1, <1>11 DEF new_by
<1>20. QED
  BY <1>9, <1>17, <1>18, <1>19 DEF g

-----------------------------------------------------------------------------
(***************************************************************************)
(* A step is a call's transaction beginning, a bare statement, a commit,   *)
(* an undoing, or nothing the store sees.  What each does to the calls     *)
(* that do not move, once for all the actions of that kind.                *)
(***************************************************************************)

LEMMA CallFacts ==
  ASSUME SessionsInv, NEW p \in Tokens
  PROVE  /\ Known(db, disk, p, pc[p], shown[p], cred[p].code)
         /\ p \in Attempts => cred[p].code \in Int
         /\ p \in Renewals /\ pc[p] # "idle" =>
              shown[p] \in Tokens /\ Held(db, shown[p]) /\ Held(disk, shown[p])
         /\ pc[p] \in InTransaction <=> txn = p
         /\ p \in Attempts => pc[p] \in AttemptLocations
         /\ p \in Renewals => pc[p] \in RenewalLocations
<1>1. Known(db, disk, p, pc[p], shown[p], cred[p].code)
  BY DEF SessionsInv
<1>2. p \in Attempts => cred[p].code \in Int
  BY DEF SessionsInv, TypeOK
<1>3. p \in Renewals /\ pc[p] # "idle" => shown[p] \in handed
  BY DEF SessionsInv, Placed
<1>4. \A t \in handed : t \in Tokens /\ Held(db, t) /\ Held(disk, t)
  BY DEF SessionsInv, TypeOK, Sound
<1>5. /\ pc[p] \in InTransaction <=> txn = p
      /\ p \in Attempts => pc[p] \in AttemptLocations
      /\ p \in Renewals => pc[p] \in RenewalLocations
  BY DEF SessionsInv, Placed
<1>6. QED
  BY <1>1, <1>2, <1>3, <1>4, <1>5

LEMMA StoreFacts ==
  ASSUME SessionsInv
  PROVE  /\ db \in Stores /\ disk \in Stores /\ handed \in SUBSET Tokens
         /\ opened \in [Attempts -> Int]
         /\ Sound(db, opened, handed, Due) /\ Sound(disk, opened, handed, Due)
         /\ Chain(db) /\ Chain(disk)
         /\ txn = None => db = disk
         /\ Due \in SUBSET handed
         /\ \A t \in handed : t \in Tokens /\ Held(db, t) /\ Held(disk, t)
  BY DEF SessionsInv, TypeOK, Sound, Due

\* A call moves: where it is now agrees with whose transaction is open.
LEMMA MovedIsPlaced ==
  ASSUME SessionsInv, NEW m \in Tokens,
         \A p \in Tokens \ {m} : pc'[p] = pc[p] /\ shown'[p] = shown[p],
         pc'[m] \in InTransaction <=> txn' = m,
         \A p \in Tokens \ {m} : txn' = p <=> txn = p,
         handed \subseteq handed',
         m \in Attempts => pc'[m] \in AttemptLocations,
         m \in Renewals => pc'[m] \in RenewalLocations /\ shown'[m] \in handed'
  PROVE  Placed'
<1>1. Attempts \subseteq Tokens /\ Renewals \subseteq Tokens
  BY DEF Tokens
<1>2. \A p \in Tokens : pc'[p] \in InTransaction <=> txn' = p
  BY DEF SessionsInv, Placed
<1>3. /\ \A a \in Attempts : pc'[a] \in AttemptLocations
      /\ \A r \in Renewals : pc'[r] \in RenewalLocations
      /\ \A r \in Renewals : pc'[r] # "idle" => shown'[r] \in handed'
  BY <1>1 DEF SessionsInv, Placed
<1>4. QED
  BY <1>2, <1>3 DEF Placed

\* A transaction begins and does its work, all of it in one step.
LEMMA WorkKeeps ==
  ASSUME SessionsInv, NEW m, NEW g \in Stores, Work(m, g), Grows(db, g, m),
         Sound(g, opened', handed, Due), Sound(disk, opened', handed, Due),
         m = "enable" => m \in Tokens \/ g.acct.active,
         handed' = handed, undue' = undue, cred' = cred, TypeOK', Placed',
         \A p \in Tokens \ {m} : pc'[p] = pc[p] /\ shown'[p] = shown[p],
         m \in Tokens => Known(g, disk, m, pc'[m], shown'[m], cred[m].code)
  PROVE  SessionsInv'
<1>1. db' = g /\ disk' = disk /\ txn = None
  BY DEF Work
<1>2. \A p \in Tokens : p # None
  BY SessionsAssumption DEF Tokens
<1>3. ASSUME NEW p \in Tokens, p # m
      PROVE  Known(g, disk, p, pc[p], shown[p], cred[p].code)
  <2>1. pc[p] \notin InTransaction
    BY <1>1, <1>2, CallFacts
  <2>2. Shown(db, p, pc[p], shown[p], cred[p].code)
        /\ Shown(disk, p, pc[p], shown[p], cred[p].code)
    BY CallFacts DEF Known
  <2>3. Shown(g, p, pc[p], shown[p], cred[p].code)
    BY <1>3, <2>2, CallFacts, StoreFacts, GrownShows
  <2>4. Doing(g, disk, p, pc[p], shown[p], cred[p].code)
    BY <2>1 DEF Doing, InTransaction
  <2>5. QED
    BY <2>2, <2>3, <2>4 DEF Known
<1>4. \A p \in Tokens : Known(db', disk', p, pc'[p], shown'[p], cred'[p].code)
  BY <1>1, <1>3
<1>5. Due' = Due
  BY DEF Due
<1>6. txn' = "enable" => db'.acct.active
  BY <1>1, NamesAssumption DEF Work, OtherOwners
<1>7. QED
  BY <1>1, <1>4, <1>5, <1>6 DEF SessionsInv

\* A bare statement, which joins whatever transaction is open.
LEMMA BareKeeps ==
  ASSUME SessionsInv, NEW m, NEW f \in Stores, Bare(f), Fades(db, f),
         f.acct.active = db.acct.active,
         handed' = handed, undue' = undue, cred' = cred, opened' = opened, TypeOK', Placed',
         m \in Tokens => pc'[m] = "error",
         \A p \in Tokens \ {m} : pc'[p] = pc[p] /\ shown'[p] = shown[p]
  PROVE  SessionsInv'
<1>1. /\ db' = f /\ txn' = txn
      /\ txn = None => disk' = f
      /\ txn # None => disk' = disk
  BY DEF Bare
<1>2. Sound(f, opened, handed, Due)
  BY StoreFacts, FadedIsSound
<1>3. Sound(db', opened', handed', Due') /\ Sound(disk', opened', handed', Due')
  <2>1. Due' = Due
    BY DEF Due
  <2>2. QED
    BY <1>1, <1>2, <2>1, StoreFacts
<1>4. \A p \in Tokens : p # None
  BY SessionsAssumption DEF Tokens
<1>5. ASSUME NEW p \in Tokens, p # m
      PROVE  Known(db', disk', p, pc[p], shown[p], cred[p].code)
  <2>1. Known(db, disk, p, pc[p], shown[p], cred[p].code)
    BY CallFacts
  <2>2. Grows(db, f, None)
    BY StoreFacts, FadedGrows
  <2>3. Shown(f, p, pc[p], shown[p], cred[p].code)
    BY <1>4, <2>1, <2>2, CallFacts, StoreFacts, GrownShows DEF Known
  <2>4. Shown(disk', p, pc[p], shown[p], cred[p].code)
    BY <1>1, <2>1, <2>3 DEF Known
  <2>5. Doing(f, disk', p, pc[p], shown[p], cred[p].code)
    <3>1. CASE txn = None
      BY <1>4, <3>1, CallFacts DEF Doing, InTransaction
    <3>2. CASE txn # None
      <4>1. disk' = disk /\ Doing(db, disk, p, pc[p], shown[p], cred[p].code)
        BY <1>1, <2>1, <3>2 DEF Known
      <4>2. p \in Attempts /\ pc[p] = "recorded" => cred[p].code <= f.acct.counter
        BY <4>1, CallFacts, StoreFacts DEF Doing, Fades, Stores, Accounts
      <4>3. /\ pc[p] = "opening" => Held(f, p) /\ Unborn(disk', p)
            /\ pc[p] = "rotating" => Held(f, p) /\ f.tok[shown[p]].by = p
        BY <4>1 DEF Doing, Fades, Held
      <4>4. ASSUME pc[p] = "ending"
            PROVE  ~Live(f, f.tok[shown[p]].session)
        <5>1. p \notin Attempts /\ ~Live(db, db.tok[shown[p]].session)
          BY <4>1, <4>4, CallFacts DEF Doing, AttemptLocations
        <5>2. p \in Renewals /\ shown[p] \in Tokens /\ Held(db, shown[p])
          BY <4>4, <5>1, CallFacts DEF Tokens
        <5>3. db.tok[shown[p]].session \in Attempts
          BY <5>2, StoreFacts, TokenFields
        <5>4. QED
          BY <5>1, <5>3 DEF Fades
      <4>5. QED
        BY <4>2, <4>3, <4>4 DEF Doing
    <3>3. QED
      BY <3>1, <3>2
  <2>6. QED
    BY <1>1, <2>3, <2>4, <2>5 DEF Known
<1>6. \A s, t, code : m \in Tokens => Shown(s, m, "error", t, code)
  BY DEF Shown, Early
<1>7. \A t, code : m \in Tokens => Doing(db', disk', m, "error", t, code)
  BY DEF Doing
<1>8. \A p \in Tokens : Known(db', disk', p, pc'[p], shown'[p], cred'[p].code)
  BY <1>5, <1>6, <1>7 DEF Known
<1>9. QED
  BY <1>1, <1>3, <1>8 DEF SessionsInv

\* The open transaction ends: both stores are then what one of them was.
LEMMA EndKeeps ==
  ASSUME SessionsInv, NEW s \in {db, disk}, db' = s, disk' = s,
         Sound(s, opened', handed, Due'), handed' = handed, cred' = cred, TypeOK', Placed',
         txn' = None,
         \A p \in Tokens \ {txn} : pc'[p] = pc[p] /\ shown'[p] = shown[p],
         txn \in Tokens => Known(s, s, txn, pc'[txn], shown'[txn], cred[txn].code)
  PROVE  SessionsInv'
<1>1. ASSUME NEW p \in Tokens, p # txn
      PROVE  Known(s, s, p, pc[p], shown[p], cred[p].code)
  <2>1. pc[p] \notin InTransaction /\ Known(db, disk, p, pc[p], shown[p], cred[p].code)
    BY <1>1, CallFacts
  <2>2. Doing(s, s, p, pc[p], shown[p], cred[p].code)
    BY <2>1 DEF Doing, InTransaction
  <2>3. QED
    BY <2>1, <2>2 DEF Known
<1>2. \A p \in Tokens : Known(db', disk', p, pc'[p], shown'[p], cred'[p].code)
  BY <1>1
<1>3. txn' # "enable"
  BY NamesAssumption DEF OtherOwners
<1>4. QED
  BY <1>2, <1>3 DEF SessionsInv

\* The store does not change; a grant may hand out the token of its call.
LEMMA QuietKeeps ==
  ASSUME SessionsInv, NEW m, UNCHANGED <<db, disk, opened>>, TypeOK', Placed',
         \A p \in Tokens \ {m} :
           pc'[p] = pc[p] /\ shown'[p] = shown[p] /\ (p \in Attempts => cred'[p] = cred[p]),
         txn' = txn,
         \/ handed' = handed /\ undue' = undue
         \/ /\ m \in Tokens /\ Hand(m)
            /\ db.acct.active /\ Held(db, m) /\ Held(disk, m),
         m \in Tokens => Known(db, disk, m, pc'[m], shown'[m], cred'[m].code)
  PROVE  SessionsInv'
<1>1. ASSUME NEW p \in Tokens, p # m
      PROVE  Known(db, disk, p, pc[p], shown[p], cred'[p].code)
  <2>1. Known(db, disk, p, pc[p], shown[p], cred[p].code)
    BY CallFacts
  <2>2. CASE p \in Attempts
    BY <1>1, <2>1, <2>2
  <2>3. CASE p \notin Attempts
    BY <2>1, <2>3 DEF Known, Shown, Doing
  <2>4. QED
    BY <2>2, <2>3
<1>2. \A p \in Tokens : Known(db', disk', p, pc'[p], shown'[p], cred'[p].code)
  BY <1>1
<1>3. Sound(db, opened, handed', Due') /\ Sound(disk, opened, handed', Due')
  <2>1. CASE handed' = handed /\ undue' = undue
    BY <2>1, StoreFacts DEF Due
  <2>2. CASE m \in Tokens /\ Hand(m) /\ db.acct.active /\ Held(db, m) /\ Held(disk, m)
    <3>1. ~disk.acct.active => Due' \subseteq Due
      BY <2>2 DEF Hand, Uncommitted, Due
    <3>2. handed' = handed \cup {m}
      BY <2>2 DEF Hand
    <3>3. Sound(db, opened, handed', Due')
      BY <2>2, <3>2, StoreFacts DEF Sound
    <3>4. Sound(disk, opened, handed', Due')
      BY <2>2, <3>1, <3>2, StoreFacts DEF Sound
    <3>5. QED
      BY <3>3, <3>4
  <2>3. QED
    BY <2>1, <2>2
<1>4. QED
  BY <1>2, <1>3 DEF SessionsInv

-----------------------------------------------------------------------------
(***************************************************************************)
(* Every action keeps the invariant.                                       *)
(***************************************************************************)

LEMMA ReadCredentialKeeps ==
  ASSUME SessionsInv, NEW a \in Attempts, ReadCredential(a)
  PROVE  SessionsInv'
<1>1. a \in Tokens /\ a \in Calls /\ a \notin Renewals
  BY SessionsAssumption DEF Tokens, Calls
<1>2. TypeOK'
  <2>1. TypeOK /\ now \in Nat /\ db.acct.pwd \in Int
    BY DEF SessionsInv, TypeOK, Stores, Accounts
  <2>2. pc' \in [Calls -> Locations]
    BY <1>1, <2>1 DEF TypeOK, ReadCredential, Goto, Locations
  <2>3. at' \in [Calls -> Nat]
    BY <1>1, <2>1 DEF TypeOK, ReadCredential
  <2>4. cred' \in [Attempts -> [pwd : Int, code : Int]]
    BY <1>1, <2>1, SessionsAssumption DEF TypeOK, ReadCredential
  <2>5. QED
    BY <2>1, <2>2, <2>3, <2>4 DEF TypeOK, ReadCredential
<1>3. pc \in [Calls -> Locations] /\ pc[a] = "idle" /\ pc'[a] \in {"refused", "wrong", "right"}
      /\ \A p \in Calls \ {a} : pc'[p] = pc[p]
  BY <1>1 DEF SessionsInv, TypeOK, ReadCredential, Goto
<1>4. Placed'
  <2>1. txn # a
    BY <1>1, <1>3, CallFacts DEF InTransaction
  <2>2. QED
    BY <1>1, <1>3, <2>1, MovedIsPlaced
    DEF ReadCredential, Tokens, Calls, AttemptLocations, InTransaction
<1>5. Known(db, disk, a, pc'[a], shown'[a], cred'[a].code)
  <2>1. Unborn(db, a) /\ Unborn(disk, a)
    BY <1>1, <1>3, CallFacts DEF Known, Shown, Early
  <2>2. QED
    BY <1>1, <1>3, <2>1 DEF Known, Shown, Doing
<1>6. \A p \in Attempts \ {a} : cred'[p] = cred[p]
  BY DEF SessionsInv, TypeOK, ReadCredential
<1>7. QED
  BY <1>1, <1>2, <1>3, <1>4, <1>5, <1>6, QuietKeeps DEF ReadCredential, Tokens, Calls

LEMMA RecordFailureKeeps ==
  ASSUME SessionsInv, NEW a \in Attempts, RecordFailure(a)
  PROVE  SessionsInv'
<1> DEFINE f == [db EXCEPT !.acct = Failed(@, a)]
<1>1. a \in Tokens /\ a \in Calls /\ a \notin Renewals /\ \A p \in Tokens : p # None
  BY SessionsAssumption DEF Tokens, Calls
<1>2. f \in Stores /\ Fades(db, f) /\ f.acct.active = db.acct.active
  BY <1>1, StoreFacts, FailedFades DEF SessionsInv, TypeOK
<1>3. Work(a, f)
  BY DEF RecordFailure
<1> HIDE DEF f
<1>4. TypeOK'
  BY <1>1, <1>2, <1>3 DEF SessionsInv, TypeOK, RecordFailure, Work, Goto, Locations, Owners
<1>5. /\ pc \in [Calls -> Locations] /\ pc[a] = "wrong" /\ pc'[a] = "recording"
      /\ \A p \in Calls \ {a} : pc'[p] = pc[p]
  BY <1>1 DEF SessionsInv, TypeOK, RecordFailure, Goto
<1>6. Placed'
  BY <1>1, <1>3, <1>5, MovedIsPlaced
  DEF RecordFailure, Work, Tokens, Calls, AttemptLocations, InTransaction
<1>7. Grows(db, f, a) /\ Sound(f, opened, handed, Due)
  BY <1>2, StoreFacts, FadedGrows, FadedIsSound
<1>8. Known(f, disk, a, pc'[a], shown'[a], cred[a].code)
  <2>1. Unborn(db, a) /\ Unborn(disk, a)
    BY <1>1, <1>5, CallFacts DEF Known, Shown, Early
  <2>2. Unborn(f, a)
    BY <1>1, <1>2, <2>1 DEF Unborn, Fades, Held
  <2>3. QED
    BY <1>1, <1>5, <2>1, <2>2 DEF Known, Shown, Doing
<1>9. QED
  BY <1>1, <1>2, <1>3, <1>4, <1>5, <1>6, <1>7, <1>8, StoreFacts, WorkKeeps
  DEF RecordFailure, Tokens, Calls

LEMMA RecordSuccessKeeps ==
  ASSUME SessionsInv, NEW a \in Attempts, RecordSuccess(a)
  PROVE  SessionsInv'
<1> DEFINE f == [db EXCEPT !.acct.failed = 0, !.acct.locked = Never,
                           !.acct.counter = GreaterCounter(db.acct, cred[a].code)]
<1>1. a \in Tokens /\ a \in Calls /\ a \notin Renewals /\ \A p \in Tokens : p # None
  BY SessionsAssumption DEF Tokens, Calls
<1>2. /\ f \in Stores /\ Fades(db, f) /\ f.acct.active = db.acct.active
      /\ cred[a].code <= f.acct.counter
  BY <1>1, CallFacts, StoreFacts, SuccessFades
<1>3. Work(a, f)
  BY DEF RecordSuccess
<1> HIDE DEF f
<1>4. TypeOK'
  BY <1>1, <1>2, <1>3 DEF SessionsInv, TypeOK, RecordSuccess, Work, Goto, Locations, Owners
<1>5. /\ pc \in [Calls -> Locations] /\ pc[a] = "right" /\ pc'[a] = "recorded"
      /\ \A p \in Calls \ {a} : pc'[p] = pc[p]
  BY <1>1 DEF SessionsInv, TypeOK, RecordSuccess, Goto
<1>6. Placed'
  BY <1>1, <1>3, <1>5, MovedIsPlaced
  DEF RecordSuccess, Work, Tokens, Calls, AttemptLocations, InTransaction
<1>7. Grows(db, f, a) /\ Sound(f, opened, handed, Due)
  BY <1>2, StoreFacts, FadedGrows, FadedIsSound
<1>8. Known(f, disk, a, pc'[a], shown'[a], cred[a].code)
  <2>1. Unborn(db, a) /\ Unborn(disk, a)
    BY <1>1, <1>5, CallFacts DEF Known, Shown, Early
  <2>2. Unborn(f, a)
    BY <1>1, <1>2, <2>1 DEF Unborn, Fades, Held
  <2>3. QED
    BY <1>1, <1>2, <1>5, <2>1, <2>2 DEF Known, Shown, Doing
<1>9. QED
  BY <1>1, <1>2, <1>3, <1>4, <1>5, <1>6, <1>7, <1>8, StoreFacts, WorkKeeps
  DEF RecordSuccess, Tokens, Calls

LEMMA CommitRecordKeeps ==
  ASSUME SessionsInv, NEW a \in Attempts, CommitRecord(a)
  PROVE  SessionsInv'
<1>1. a \in Tokens /\ a \in Calls /\ a \notin Renewals /\ \A p \in Tokens : p # None
  BY SessionsAssumption DEF Tokens, Calls
<1>0. Due' = Due
  BY DEF Due, CommitRecord
<1>2. txn = a /\ txn' = None /\ disk' = db /\ db' = db
  BY DEF CommitRecord, Commit
<1>3. TypeOK'
  <2>1. TypeOK /\ now \in Nat
    BY DEF SessionsInv, TypeOK
  <2>2. pc' \in [Calls -> Locations] /\ at' \in [Calls -> Nat]
    BY <1>1, <2>1 DEF TypeOK, CommitRecord, Goto, Locations
  <2>3. QED
    BY <1>2, <2>1, <2>2 DEF TypeOK, CommitRecord, Owners
<1>4. /\ pc \in [Calls -> Locations]
      /\ \/ pc[a] = "recording" /\ pc'[a] = "refused"
         \/ pc[a] = "recorded" /\ pc'[a] = "open"
      /\ \A p \in Calls \ {a} : pc'[p] = pc[p]
  BY <1>1 DEF SessionsInv, TypeOK, CommitRecord, Goto
<1>5. Placed'
  BY <1>1, <1>2, <1>4, MovedIsPlaced
  DEF CommitRecord, Tokens, Calls, AttemptLocations, InTransaction
<1>6. Known(db, db, a, pc'[a], shown'[a], cred[a].code)
  <2>1. Unborn(db, a) /\ (pc[a] = "recorded" => cred[a].code <= db.acct.counter)
    BY <1>1, <1>4, CallFacts DEF Known, Shown, Doing, Early
  <2>2. QED
    BY <1>1, <1>4, <2>1 DEF Known, Shown, Doing
<1>7. QED
  BY <1>0, <1>1, <1>2, <1>3, <1>4, <1>5, <1>6, StoreFacts, EndKeeps
  DEF CommitRecord, Tokens, Calls

LEMMA OpenKeeps ==
  ASSUME SessionsInv, NEW a \in Attempts, Open(a)
  PROVE  SessionsInv'
<1> DEFINE g == [db EXCEPT !.sess[a] = [ends |-> at[a] + Absolute, reason |-> None],
                           !.tok[a] = [session |-> a, idle |-> at[a] + Idle, by |-> None]]
           then == [opened EXCEPT ![a] = db.acct.pwd]
<1>1. a \in Tokens /\ a \in Calls /\ a \notin Renewals /\ \A p \in Tokens : p # None
  BY SessionsAssumption DEF Tokens, Calls
<1>2. /\ pc \in [Calls -> Locations] /\ pc[a] = "open" /\ pc'[a] = "opening"
      /\ \A p \in Calls \ {a} : pc'[p] = pc[p]
      /\ at[a] \in Nat
  BY <1>1 DEF SessionsInv, TypeOK, Open, Goto
<1>3. Unborn(db, a) /\ Unborn(disk, a) /\ cred[a].code <= db.acct.counter
  BY <1>1, <1>2, CallFacts DEF Known, Shown, Early
<1>4. /\ g \in Stores /\ Grows(db, g, a) /\ g.acct = db.acct /\ Held(g, a)
      /\ Sound(g, then, handed, Due) /\ Sound(db, then, handed, Due)
  BY <1>2, <1>3, StoreFacts, OpenedGrows
<1>5. Work(a, g) /\ opened' = then
  BY DEF Open
<1>6. disk = db
  BY <1>5, StoreFacts DEF Work
<1>7. then \in [Attempts -> Int]
  BY StoreFacts DEF Stores, Accounts
<1> HIDE DEF g, then
<1>8. TypeOK'
  BY <1>1, <1>4, <1>5, <1>7 DEF SessionsInv, TypeOK, Open, Work, Goto, Locations, Owners
<1>9. Placed'
  BY <1>1, <1>2, <1>5, MovedIsPlaced
  DEF Open, Work, Tokens, Calls, AttemptLocations, InTransaction
<1>10. Known(g, disk, a, pc'[a], shown'[a], cred[a].code)
  BY <1>1, <1>2, <1>3, <1>4, <1>6 DEF Known, Shown, Doing, Early
<1>11. QED
  BY <1>1, <1>2, <1>4, <1>5, <1>6, <1>8, <1>9, <1>10, WorkKeeps DEF Open, Tokens, Calls

LEMMA RenewKeeps ==
  ASSUME SessionsInv, NEW r \in Renewals, Renew(r)
  PROVE  SessionsInv'
<1>1. r \in Tokens /\ r \in Calls /\ r \notin Attempts
  BY SessionsAssumption DEF Tokens, Calls
<1>2. /\ pc \in [Calls -> Locations] /\ pc[r] = "idle" /\ pc'[r] = "rotate"
      /\ \A p \in Calls \ {r} : pc'[p] = pc[p] /\ shown'[p] = shown[p]
      /\ shown'[r] \in handed
  BY <1>1 DEF SessionsInv, TypeOK, Renew, Goto
<1>3. TypeOK'
  <2>1. TypeOK /\ now \in Nat /\ handed \subseteq Tokens
    BY DEF SessionsInv, TypeOK
  <2>2. pc' \in [Calls -> Locations] /\ at' \in [Calls -> Nat]
        /\ shown' \in [Calls -> Tokens \cup {None}]
    BY <1>1, <2>1 DEF TypeOK, Renew, Goto, Locations
  <2>3. QED
    BY <2>1, <2>2 DEF TypeOK, Renew
<1>4. txn # r
  BY <1>1, <1>2, CallFacts DEF InTransaction
<1>5. Placed'
  BY <1>1, <1>2, <1>4, MovedIsPlaced DEF Renew, Tokens, Calls, RenewalLocations, InTransaction
<1>6. Known(db, disk, r, pc'[r], shown'[r], cred'[r].code)
  <2>1. Unborn(db, r) /\ Unborn(disk, r)
    BY <1>1, <1>2, CallFacts DEF Known, Shown, Early
  <2>2. QED
    BY <1>1, <1>2, <2>1 DEF Known, Shown, Doing
<1>7. QED
  BY <1>1, <1>2, <1>3, <1>5, <1>6, QuietKeeps DEF Renew, Tokens, Calls

LEMMA RotateKeeps ==
  ASSUME SessionsInv, NEW r \in Renewals, Rotate(r)
  PROVE  SessionsInv'
<1> DEFINE t == db.tok[shown[r]]
           why == RefusalOf(t, db.sess[t.session], at[r])
<1>1. r \in Tokens /\ r \in Calls /\ r \notin Attempts /\ \A p \in Tokens : p # None
  BY SessionsAssumption DEF Tokens, Calls
<1>2. /\ pc \in [Calls -> Locations] /\ pc[r] = "rotate" /\ at[r] \in Nat /\ txn = None
      /\ db = disk
  BY <1>1, StoreFacts DEF SessionsInv, TypeOK, Rotate, Work
<1>3. Unborn(db, r) /\ Unborn(disk, r) /\ shown[r] \in Tokens /\ Held(db, shown[r])
  BY <1>1, <1>2, CallFacts DEF Known, Shown, Early
<1>4. t.session \in Attempts /\ db.sess[t.session] # NoSession
      /\ db.sess[t.session] \in AuthSessions
  BY <1>3, StoreFacts, TokenFields DEF Chain, Stores
<1>5. shown[r] \in handed
  BY <1>2 DEF SessionsInv, Placed
<1>6. CASE why = None /\ Work(r, Rotated(db, r)) /\ Goto(r, "rotating")
  <2>1. t.by = None
    BY <1>6, NamesAssumption DEF RefusalOf, Reasons
  <2>2. /\ Rotated(db, r) \in Stores /\ Grows(db, Rotated(db, r), r)
        /\ Rotated(db, r).acct = db.acct /\ Held(Rotated(db, r), r)
        /\ Rotated(db, r).tok[shown[r]].by = r /\ Sound(Rotated(db, r), opened, handed, Due)
    BY <1>2, <1>3, <2>1, StoreFacts, RotatedGrows
  <2>3. TypeOK'
    BY <1>1, <1>6, <2>2 DEF SessionsInv, TypeOK, Rotate, Work, Goto, Locations, Owners
  <2>4. pc'[r] = "rotating" /\ \A p \in Calls \ {r} : pc'[p] = pc[p]
    BY <1>1, <1>2, <1>6 DEF Goto
  <2>5. Placed'
    BY <1>1, <1>2, <1>5, <1>6, <2>4, MovedIsPlaced
    DEF Rotate, Work, Tokens, Calls, RenewalLocations, InTransaction
  <2>6. Known(Rotated(db, r), disk, r, pc'[r], shown'[r], cred[r].code)
    BY <1>1, <2>2, <2>4 DEF Rotate, Known, Shown, Doing, Early
  <2>7. QED
    BY <1>1, <1>2, <1>6, <2>2, <2>3, <2>4, <2>5, <2>6, StoreFacts, WorkKeeps
    DEF Rotate, Tokens, Calls
<1>7. CASE why # None /\ Work(r, Revoked(db, t.session, why)) /\ Goto(r, "ending")
  <2> DEFINE f == Revoked(db, t.session, why)
  <2>1. why \in Reasons
    <3>1. db.sess[t.session].reason \in Reasons \cup {None}
      BY <1>4 DEF AuthSessions
    <3>2. QED
      BY <1>7, <3>1 DEF RefusalOf, Reasons
  <2>2. /\ f \in Stores /\ Fades(db, f) /\ f.acct.active = db.acct.active
        /\ ~Live(f, t.session)
    BY <1>4, <2>1, StoreFacts, RevokedFades
  <2>3. Grows(db, f, r) /\ Sound(f, opened, handed, Due)
    BY <2>2, StoreFacts, FadedGrows, FadedIsSound
  <2>4. Work(r, f)
    BY <1>7
  <2>5. f.tok = db.tok
    BY <2>2 DEF Fades
  <2> HIDE DEF f
  <2>6. TypeOK'
    BY <1>1, <1>7, <2>2, <2>4 DEF SessionsInv, TypeOK, Rotate, Work, Goto, Locations, Owners
  <2>7. pc'[r] = "ending" /\ \A p \in Calls \ {r} : pc'[p] = pc[p]
    BY <1>1, <1>2, <1>7 DEF Goto
  <2>8. Placed'
    BY <1>1, <1>2, <1>5, <2>4, <2>7, MovedIsPlaced
    DEF Rotate, Work, Tokens, Calls, RenewalLocations, InTransaction
  <2>9. Known(f, disk, r, pc'[r], shown'[r], cred[r].code)
    BY <1>1, <2>2, <2>5, <2>7 DEF Rotate, Known, Shown, Doing, Early
  <2>10. QED
    BY <1>1, <1>2, <2>2, <2>3, <2>4, <2>6, <2>7, <2>8, <2>9, StoreFacts, WorkKeeps
    DEF Rotate, Tokens, Calls
<1>8. QED
  BY <1>6, <1>7 DEF Rotate

LEMMA CommitSessionKeeps ==
  ASSUME SessionsInv, NEW p \in Tokens, CommitSession(p)
  PROVE  SessionsInv'
<1>1. p \in Calls /\ Attempts \cap Renewals = {} /\ \A q \in Tokens : q # None
  BY SessionsAssumption DEF Tokens, Calls
<1>0. Due' = Due
  BY DEF Due, CommitSession
<1>2. txn = p /\ txn' = None /\ disk' = db /\ db' = db
  BY DEF CommitSession, Commit
<1>3. TypeOK'
  BY <1>1, <1>2 DEF SessionsInv, TypeOK, CommitSession, Goto, Locations, Owners
<1>4. /\ pc \in [Calls -> Locations]
      /\ \/ pc[p] \in {"opening", "rotating"} /\ pc'[p] = "issue"
         \/ pc[p] = "ending" /\ pc'[p] = "ended"
      /\ \A q \in Calls \ {p} : pc'[q] = pc[q]
  BY <1>1 DEF SessionsInv, TypeOK, CommitSession, Goto
<1>5. /\ p \in Attempts => pc[p] = "opening"
      /\ p \in Renewals => pc[p] \in {"rotating", "ending"}
  BY <1>4, CallFacts DEF AttemptLocations, RenewalLocations
<1>6. p \in Renewals => shown[p] \in handed
  BY <1>5 DEF SessionsInv, Placed
<1>7. Placed'
  BY <1>1, <1>2, <1>4, <1>5, <1>6, MovedIsPlaced
  DEF CommitSession, Tokens, Calls, AttemptLocations, RenewalLocations, InTransaction
<1>8. Known(db, db, p, pc'[p], shown'[p], cred[p].code)
  <2>1. shown' = shown /\ Known(db, disk, p, pc[p], shown[p], cred[p].code)
    BY CallFacts DEF CommitSession
  <2>2. CASE p \in Attempts
    BY <1>1, <1>4, <1>5, <2>1, <2>2 DEF Known, Shown, Doing, Early
  <2>3. CASE p \in Renewals
    BY <1>1, <1>4, <1>5, <2>1, <2>3 DEF Known, Shown, Doing, Early
  <2>4. QED
    BY <2>2, <2>3 DEF Tokens
<1>9. QED
  BY <1>0, <1>1, <1>2, <1>3, <1>4, <1>7, <1>8, StoreFacts, EndKeeps
  DEF CommitSession, Tokens, Calls

LEMMA UndoCallKeeps ==
  ASSUME SessionsInv, NEW p \in Tokens, UndoCall(p)
  PROVE  SessionsInv'
<1>1. p \in Calls /\ \A q \in Tokens : q # None
  BY SessionsAssumption DEF Tokens, Calls
<1>0. Due' = Due
  BY DEF Due, UndoCall
<1>2. txn = p /\ txn' = None /\ disk' = disk /\ db' = disk
  BY DEF UndoCall, Undo
<1>3. /\ pc \in [Calls -> Locations] /\ pc'[p] = "error"
      /\ \A q \in Calls \ {p} : pc'[q] = pc[q]
  BY <1>1 DEF SessionsInv, TypeOK, UndoCall, Goto
<1>4. opened' \in [Attempts -> Int] /\ \A a \in Attempts :
        opened'[a] = opened[a] \/ (a = p /\ pc[p] = "opening")
  <2>1. opened \in [Attempts -> Int] /\ Never \in Int
    BY StoreFacts DEF Never
  <2>2. CASE pc[p] = "opening"
    <3>1. opened' = [opened EXCEPT ![p] = Never]
      BY <2>2 DEF UndoCall
    <3>2. QED
      BY <2>1, <2>2, <3>1
  <2>3. CASE pc[p] # "opening"
    <3>1. opened' = opened
      BY <2>3 DEF UndoCall
    <3>2. QED
      BY <2>1, <3>1
  <2>4. QED
    BY <2>2, <2>3
<1>5. TypeOK'
  BY <1>1, <1>2, <1>4 DEF SessionsInv, TypeOK, UndoCall, Goto, Locations, Owners
<1>6. p \in Renewals => shown[p] \in handed
  <2>1. pc[p] # "idle"
    BY <1>2, CallFacts DEF InTransaction
  <2>2. QED
    BY <2>1 DEF SessionsInv, Placed
<1>7. Placed'
  BY <1>1, <1>2, <1>3, <1>6, MovedIsPlaced
  DEF UndoCall, Tokens, Calls, AttemptLocations, RenewalLocations, InTransaction
<1>8. Sound(disk, opened', handed, Due)
  <2>1. \A a \in Attempts : Live(disk, a) => opened'[a] = opened[a]
    BY <1>4, CallFacts DEF Known, Doing, Unborn, Live
  <2>2. QED
    BY <2>1, StoreFacts DEF Sound
<1>9. Known(disk, disk, p, pc'[p], shown'[p], cred[p].code)
  BY <1>3 DEF Known, Shown, Doing, Early
<1>10. QED
  BY <1>0, <1>1, <1>2, <1>3, <1>5, <1>7, <1>8, <1>9, EndKeeps DEF UndoCall, Tokens, Calls

LEMMA GrantKeeps ==
  ASSUME SessionsInv, NEW p \in Tokens, Grant(p)
  PROVE  SessionsInv'
<1>1. p \in Calls /\ Attempts \cap Renewals = {}
  BY SessionsAssumption DEF Tokens, Calls
<1>2. /\ pc \in [Calls -> Locations] /\ pc[p] = "issue" /\ pc'[p] = "granted"
      /\ \A q \in Calls \ {p} : pc'[q] = pc[q]
  BY <1>1 DEF SessionsInv, TypeOK, Grant, Goto
<1>3. TypeOK'
  BY <1>1 DEF SessionsInv, TypeOK, Grant, Hand, Goto, Locations
<1>4. txn # p /\ (p \in Renewals => shown[p] \in handed)
  BY <1>2, CallFacts DEF InTransaction, SessionsInv, Placed
<1>5. Placed'
  BY <1>1, <1>2, <1>4, MovedIsPlaced
  DEF Grant, Hand, Tokens, Calls, AttemptLocations, RenewalLocations, InTransaction
<1>6. Known(db, disk, p, pc[p], shown[p], cred[p].code)
  BY CallFacts
<1>7. Held(db, p) /\ Held(disk, p)
  BY <1>2, <1>6 DEF Known, Shown
<1>8. Known(db, disk, p, pc'[p], shown'[p], cred'[p].code)
  BY <1>2, <1>6 DEF Grant, Known, Shown, Doing, Early
<1>9. QED
  BY <1>1, <1>2, <1>3, <1>5, <1>7, <1>8, QuietKeeps DEF Grant, Tokens, Calls

LEMMA IssueFailsKeeps ==
  ASSUME SessionsInv, NEW p \in Tokens, IssueFails(p)
  PROVE  SessionsInv'
<1>1. p \in Calls /\ Attempts \cap Renewals = {}
  BY SessionsAssumption DEF Tokens, Calls
<1>2. /\ pc \in [Calls -> Locations] /\ pc[p] = "issue"
      /\ pc'[p] = IF p \in Renewals THEN "revoke" ELSE "error"
      /\ \A q \in Calls \ {p} : pc'[q] = pc[q]
  BY <1>1 DEF SessionsInv, TypeOK, IssueFails, Goto
<1>3. TypeOK'
  BY <1>1 DEF SessionsInv, TypeOK, IssueFails, Goto, Locations
<1>4. txn # p /\ (p \in Renewals => shown[p] \in handed)
  BY <1>2, CallFacts DEF InTransaction, SessionsInv, Placed
<1>5. Placed'
  BY <1>1, <1>2, <1>4, MovedIsPlaced
  DEF IssueFails, Tokens, Calls, AttemptLocations, RenewalLocations, InTransaction
<1>6. Known(db, disk, p, pc'[p], shown'[p], cred'[p].code)
  <2>1. shown' = shown /\ cred' = cred /\ Known(db, disk, p, pc[p], shown[p], cred[p].code)
    BY CallFacts DEF IssueFails
  <2>2. QED
    BY <1>1, <1>2, <2>1 DEF Known, Shown, Doing, Early
<1>7. QED
  BY <1>1, <1>2, <1>3, <1>5, <1>6, QuietKeeps DEF IssueFails, Tokens, Calls

LEMMA RevokeUnavailableKeeps ==
  ASSUME SessionsInv, NEW r \in Renewals, RevokeUnavailable(r)
  PROVE  SessionsInv'
<1> DEFINE a == db.tok[shown[r]].session
           f == Revoked(db, a, "account_unavailable")
<1>1. r \in Tokens /\ r \in Calls /\ r \notin Attempts
  BY SessionsAssumption DEF Tokens, Calls
<1>2. /\ pc \in [Calls -> Locations] /\ pc[r] = "revoke" /\ pc'[r] = "error"
      /\ \A p \in Calls \ {r} : pc'[p] = pc[p]
  BY <1>1 DEF SessionsInv, TypeOK, RevokeUnavailable, Goto
<1>3. shown[r] \in handed /\ a \in Attempts
  <2>1. shown[r] \in handed /\ shown[r] \in Tokens /\ Held(db, shown[r])
    BY <1>1, <1>2, CallFacts DEF SessionsInv, Placed
  <2>2. QED
    BY <2>1, StoreFacts, TokenFields
<1>4. f \in Stores /\ Fades(db, f) /\ f.acct.active = db.acct.active
  <2>1. "account_unavailable" \in Reasons
    BY DEF Reasons
  <2> HIDE DEF a
  <2>2. QED
    BY <1>3, <2>1, StoreFacts, RevokedFades
<1>5. Bare(f)
  BY DEF RevokeUnavailable
<1> HIDE DEF f
<1>6. TypeOK'
  BY <1>1, <1>4, <1>5 DEF SessionsInv, TypeOK, RevokeUnavailable, Bare, Goto, Locations
<1>7. txn # r /\ txn' = txn
  BY <1>1, <1>2, <1>5, CallFacts DEF InTransaction, Bare
<1>8. Placed'
  BY <1>1, <1>2, <1>3, <1>7, MovedIsPlaced
  DEF RevokeUnavailable, Tokens, Calls, RenewalLocations, InTransaction
<1>9. QED
  BY <1>1, <1>2, <1>4, <1>5, <1>6, <1>8, BareKeeps
  DEF RevokeUnavailable, Tokens, Calls

LEMMA SignOutKeeps ==
  ASSUME SessionsInv, NEW o \in SignOuts, SignOut(o)
  PROVE  SessionsInv'
<1>1. o \in Calls /\ o \notin Tokens
  BY SessionsAssumption DEF Tokens, Calls
<1>2. PICK t \in handed : /\ shown' = [shown EXCEPT ![o] = t]
                          /\ Bare(Revoked(db, db.tok[t].session, "signed_out"))
  BY DEF SignOut
<1> DEFINE f == Revoked(db, db.tok[t].session, "signed_out")
<1>3. t \in Tokens /\ db.tok[t].session \in Attempts
  BY StoreFacts, TokenFields
<1>4. f \in Stores /\ Fades(db, f) /\ f.acct.active = db.acct.active
  <2>1. "signed_out" \in Reasons
    BY DEF Reasons
  <2> DEFINE a == db.tok[t].session
  <2> HIDE DEF a
  <2>2. f = Revoked(db, a, "signed_out") /\ a \in Attempts
    BY <1>3 DEF a
  <2> HIDE DEF f
  <2>3. QED
    BY <2>1, <2>2, StoreFacts, RevokedFades
<1>5. Bare(f)
  BY <1>2
<1> HIDE DEF f
<1>6. TypeOK'
  <2>1. TypeOK
    BY DEF SessionsInv
  <2>2. shown' \in [Calls -> Tokens \cup {None}] /\ pc' \in [Calls -> Locations]
    BY <1>1, <1>2, <1>3, <2>1 DEF TypeOK, SignOut, Goto, Locations
  <2>3. QED
    BY <1>4, <1>5, <2>1, <2>2 DEF TypeOK, SignOut, Bare
<1>7. \A p \in Tokens : pc'[p] = pc[p] /\ shown'[p] = shown[p]
  BY <1>1, <1>2 DEF SessionsInv, TypeOK, SignOut, Goto, Tokens, Calls
<1>8. Placed'
  BY <1>5, <1>7 DEF SessionsInv, Placed, SignOut, Bare, Tokens
<1>9. QED
  BY <1>1, <1>4, <1>5, <1>6, <1>7, <1>8, BareKeeps DEF SignOut

\* The administrator's commands, and the other work on the connection.
LEMMA CommandKeeps ==
  ASSUME SessionsInv, NEW m \in OtherOwners, NEW f \in Stores, Work(m, f), Fades(db, f),
         m = "enable" => f.acct.active, commands' \in Nat,
         UNCHANGED <<now, pc, at, cred, shown, handed, undue, opened>>
  PROVE  SessionsInv'
<1>1. m \notin Tokens /\ \A p \in Tokens : p # None
  BY NamesAssumption, SessionsAssumption DEF Tokens
<1>2. TypeOK'
  BY <1>1, NamesAssumption DEF SessionsInv, TypeOK, Work, Owners
<1>3. Placed'
  BY <1>1 DEF SessionsInv, Placed, Work
<1>4. Grows(db, f, m) /\ Sound(f, opened, handed, Due)
  BY StoreFacts, FadedGrows, FadedIsSound
<1>5. QED
  BY <1>1, <1>2, <1>3, <1>4, StoreFacts, WorkKeeps

LEMMA AdministratorKeeps ==
  ASSUME SessionsInv, Reset \/ Deactivate \/ Reactivate \/ OpenUnit
  PROVE  SessionsInv'
<1>1. commands \in Nat /\ commands + 1 \in Nat
  BY DEF SessionsInv, TypeOK
<1>2. CASE Reset
  BY <1>1, <1>2, StoreFacts, ResetFades, CommandKeeps DEF Reset, OtherOwners
<1>3. CASE Deactivate
  BY <1>1, <1>3, StoreFacts, DeactivatedFades, CommandKeeps DEF Deactivate, OtherOwners
<1>4. CASE Reactivate
  BY <1>1, <1>4, StoreFacts, ReactivatedFades, CommandKeeps DEF Reactivate, OtherOwners
<1>5. CASE OpenUnit
  <2>1. Fades(db, db)
    BY StoreFacts DEF Fades, Stores, Accounts
  <2>2. QED
    BY <1>1, <1>5, <2>1, StoreFacts, CommandKeeps DEF OpenUnit, OtherOwners
<1>6. QED
  BY <1>2, <1>3, <1>4, <1>5

LEMMA EndOtherKeeps ==
  ASSUME SessionsInv, CommitOther \/ UndoOther
  PROVE  SessionsInv'
<1>1. /\ txn \in OtherOwners /\ txn \notin Tokens /\ txn' = None
      /\ UNCHANGED <<now, pc, at, cred, shown, handed, opened, commands>>
      /\ \A p \in Tokens : p # None
  BY NamesAssumption, SessionsAssumption DEF CommitOther, UndoOther, Commit, Undo, Tokens
<1>2. \/ db' = db /\ disk' = db /\ undue' = IF txn = "enable" THEN {} ELSE undue
      \/ db' = disk /\ disk' = disk /\ undue' = undue
  BY DEF CommitOther, UndoOther, Commit, Undo
<1>3. TypeOK'
  BY <1>1, <1>2 DEF SessionsInv, TypeOK, Owners
<1>4. Placed'
  BY <1>1 DEF SessionsInv, Placed
<1>5. Sound(db', opened', handed, Due')
  <2>1. CASE undue' = undue
    BY <1>1, <1>2, <2>1, StoreFacts DEF Due
  <2>2. CASE undue' # undue
    <3>1. db' = db /\ db.acct.active
      BY <1>2, <2>2 DEF SessionsInv
    <3>2. QED
      BY <1>1, <3>1, StoreFacts DEF Sound
  <2>3. QED
    BY <2>1, <2>2
<1>6. QED
  BY <1>1, <1>2, <1>3, <1>4, <1>5, EndKeeps

LEMMA TickKeeps ==
  ASSUME SessionsInv, UNCHANGED vars \/ Tick
  PROVE  SessionsInv'
<1>1. /\ now' \in Nat
      /\ UNCHANGED <<db, disk, txn, pc, at, cred, shown, handed, undue, opened, commands>>
  BY DEF SessionsInv, TypeOK, vars, Tick
<1>2. TypeOK' /\ Placed'
  BY <1>1 DEF SessionsInv, TypeOK, Placed
<1>3. None \notin Tokens
  BY SessionsAssumption DEF Tokens
<1>4. QED
  BY <1>1, <1>2, <1>3, QuietKeeps

-----------------------------------------------------------------------------
(***************************************************************************)
(* The invariant, and the theorems that follow from it.                    *)
(***************************************************************************)

LEMMA InitEstablishes ==
  Init => SessionsInv
<1> SUFFICES ASSUME Init PROVE SessionsInv
  OBVIOUS
<1>1. NewStore \in Stores
  <2> DEFINE acct == [pwd |-> 0, active |-> TRUE, failed |-> 0, locked |-> Never,
                      counter |-> Never]
  <2>1. acct \in Accounts
    BY DEF Accounts, Never
  <2> HIDE DEF acct
  <2>2. [a \in Attempts |-> NoSession] \in [Attempts -> AuthSessions]
        /\ [t \in Tokens |-> NoToken] \in [Tokens -> RefreshTokens]
    BY DEF AuthSessions, RefreshTokens
  <2>3. NewStore = [acct |-> acct, sess |-> [a \in Attempts |-> NoSession],
                    tok |-> [t \in Tokens |-> NoToken]]
    BY DEF NewStore, acct
  <2>4. QED
    BY <2>1, <2>2, <2>3 DEF Stores
<1>2. /\ \A t \in Tokens : ~Held(NewStore, t)
      /\ \A a \in Attempts : NewStore.sess[a] = NoSession
      /\ NewStore.acct.active /\ NewStore.acct.failed = 0 /\ NewStore.acct.locked = Never
  BY DEF NewStore, Held
<1>3. Sound(NewStore, opened, {}, {})
  <2>1. Lockout(NewStore)
    BY <1>2, SessionsAssumption DEF Lockout
  <2>2. QED
    BY <1>2, <2>1 DEF Sound, Chain, Live
<1>4. TypeOK
  BY <1>1 DEF Init, TypeOK, Locations, Owners, Never
<1>5. /\ Attempts \subseteq Calls /\ Renewals \subseteq Calls /\ Tokens \subseteq Calls
      /\ \A p \in Tokens : p # None
  BY SessionsAssumption DEF Tokens, Calls
<1>6. Placed
  BY <1>5 DEF Init, Placed, AttemptLocations, RenewalLocations, InTransaction
<1>7. \A p \in Tokens : Known(db, disk, p, pc[p], shown[p], cred[p].code)
  BY <1>2, <1>5 DEF Init, Known, Shown, Doing, Unborn
<1>8. Due = {} /\ db.acct.active
  BY <1>2 DEF Init, Due
<1>9. QED
  BY <1>3, <1>4, <1>6, <1>7, <1>8 DEF Init, SessionsInv

LEMMA NextKeeps ==
  SessionsInv /\ [Next]_vars => SessionsInv'
<1> SUFFICES ASSUME SessionsInv, [Next]_vars PROVE SessionsInv'
  OBVIOUS
<1>1. ASSUME NEW a \in Attempts, SignIn(a) PROVE SessionsInv'
  BY <1>1, ReadCredentialKeeps, RecordFailureKeeps, RecordSuccessKeeps, CommitRecordKeeps,
     OpenKeeps DEF SignIn
<1>2. ASSUME NEW r \in Renewals, Refresh(r) PROVE SessionsInv'
  BY <1>2, RenewKeeps, RotateKeeps, RevokeUnavailableKeeps DEF Refresh
<1>3. ASSUME NEW p \in Tokens, Session(p) PROVE SessionsInv'
  BY <1>3, CommitSessionKeeps, UndoCallKeeps, GrantKeeps, IssueFailsKeeps DEF Session
<1>4. ASSUME NEW o \in SignOuts, SignOut(o) PROVE SessionsInv'
  BY <1>4, SignOutKeeps
<1>5. QED
  BY <1>1, <1>2, <1>3, <1>4, AdministratorKeeps, EndOtherKeeps, TickKeeps
  DEF Next

THEOREM SessionsInvariant == Spec => []SessionsInv
<1>1. QED
  BY InitEstablishes, NextKeeps, PTL DEF Spec

\* Every variable has its type, and the connection shows the committed store
\* unless a transaction is open.
THEOREM SessionsTypes == Spec => []TypeOK
<1>1. SessionsInv => TypeOK
  BY DEF SessionsInv
<1>2. QED
  BY <1>1, SessionsInvariant, PTL

\* However many renewals race, rotate() leaves a session one unspent token at
\* most, and every spent token one successor of its own.
THEOREM OneChainHolds == Spec => []OneChain
<1>1. SessionsInv => OneChain
  <2> SUFFICES ASSUME SessionsInv PROVE OneChain
    OBVIOUS
  <2>1. \A t \in Tokens : Held(db, t) <=> db.tok[t] # NoToken
    BY DEF Held
  <2>2. QED
    BY <2>1, StoreFacts DEF OneChain, Chain
<1>2. QED
  BY <1>1, SessionsInvariant, PTL

\* Once two renewals have answered for one token, rotate() has ended its session.
THEOREM ReuseEndsSessionHolds == Spec => []ReuseEndsSession
<1>1. SessionsInv => ReuseEndsSession
  <2> SUFFICES ASSUME SessionsInv, NEW r \in Renewals, NEW q \in Renewals,
                      r # q, shown[r] = shown[q],
                      {pc[r], pc[q]} \subseteq {"issue", "granted", "revoke", "ended"}
               PROVE  ~Live(disk, disk.tok[shown[r]].session)
    BY DEF ReuseEndsSession
  <2>1. /\ Shown(disk, r, pc[r], shown[r], cred[r].code)
        /\ Shown(disk, q, pc[q], shown[q], cred[q].code)
    BY CallFacts DEF Known, Tokens
  <2>2. QED
    BY <2>1 DEF Shown
<1>2. QED
  BY <1>1, SessionsInvariant, PTL

\* setPassword() and deactivateUser() leave no session open that was opened
\* under an earlier password.
THEOREM ResetEndsOpenSessionsHolds == Spec => []ResetEndsOpenSessions
<1>1. SessionsInv => ResetEndsOpenSessions
  BY DEF SessionsInv, Sound, ResetEndsOpenSessions
<1>2. QED
  BY <1>1, SessionsInvariant, PTL

\* While the account is disabled no token that was handed out can be renewed, but
\* for one whose grant read an enabling that was undone.
THEOREM DisabledHoldsNothingHolds == Spec => []DisabledHoldsNothing
<1>1. SessionsInv => DisabledHoldsNothing
  BY DEF SessionsInv, Sound, Due, DisabledHoldsNothing
<1>2. QED
  BY <1>1, SessionsInvariant, PTL

\* A code that opened a session is spent: the counter never falls below it.
THEOREM AcceptedCodesAreSpentHolds == Spec => []AcceptedCodesAreSpent
<1>1. SessionsInv => AcceptedCodesAreSpent
  <2> SUFFICES ASSUME SessionsInv, NEW a \in Attempts,
                      pc[a] \in {"open", "opening", "issue", "granted"}
               PROVE  cred[a].code <= disk.acct.counter
    BY DEF AcceptedCodesAreSpent
  <2>1. QED
    BY CallFacts DEF Known, Shown, Tokens
<1>2. QED
  BY <1>1, SessionsInvariant, PTL

\* recordAuthAttempt() and setPassword() keep the count and the lock together.
THEOREM LockedAtThresholdHolds == Spec => []LockedAtThreshold
<1>1. SessionsInv => LockedAtThreshold
  BY StoreFacts DEF Sound, Lockout, LockedAtThreshold
<1>2. QED
  BY <1>1, SessionsInvariant, PTL
=============================================================================
