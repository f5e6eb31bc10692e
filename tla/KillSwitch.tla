------------------------------- MODULE KillSwitch -------------------------------
(***************************************************************************)
(* Kill switches and secret revocation.  An operator's process writes a    *)
(* flag and then its audit row; the gateway learns of it at a poll, into a *)
(* cache that stage 6b reads.  Revoking a secret kills what depends on it, *)
(* one by one, and then destroys the value, in a vault file that other     *)
(* processes read and write as a whole.                                    *)
(***************************************************************************)
EXTENDS Integers

CONSTANTS
  Kills,        \* a scope, a target and an end
  UntilOf,      \* [Kills -> Nat], the time at which a kill ends
  Dependents,   \* the kills of what depends on the doomed secret
  NamedIn,      \* [Dependents -> {"manifest", "consumer", "targets"}], the file that
                \* names the secret: a tool's manifest, a consumer's record, or the
                \* deployment's list of the servers its tools call
  Doomed, Other,  \* two secrets of one vault: the one revoked, another
  MaxTime       \* bound on the clock; a kill until MaxTime + 1 has no end

ASSUME KillAssumption ==
  /\ UntilOf \in [Kills -> Nat] /\ Dependents \subseteq Kills
  /\ NamedIn \in [Dependents -> {"manifest", "consumer", "targets"}]
  /\ MaxTime \in Nat /\ Doomed # Other

VARIABLES
  now,
  standing,     \* flags in the store
  unrecorded,   \* an operator's kills whose audit row is not written yet
  recorded,     \* kills with an audit row
  up, cache,    \* the gateway process and its poller's cache
  known,        \* what this process has read of the store, by any poll
  revocation,   \* where `forge secrets revoke` is, and what is left to kill
  vault, putting  \* the vault's contents; what a concurrent `put` has read

flagVars == <<standing, unrecorded, recorded>>
gatewayVars == <<up, cache, known>>
secretVars == <<revocation, vault, putting>>
killVars == <<now, flagVars, gatewayVars, secretVars>>

-----------------------------------------------------------------------------
Secrets == {Doomed, Other}

\* The scan reads the manifests and the consumers' records, and nothing else: of
\* the dependents that only the list of servers names, it knows nothing.
Found == {k \in Dependents : NamedIn[k] \in {"manifest", "consumer"}}

\* What is left to kill, the dependent in hand (killed, its row to write), and
\* the vault as it was read before the value is taken out of it.
Revocations == [at : {"idle", "killing", "writing"}, left : SUBSET Found,
                hand : SUBSET Found, read : SUBSET Secrets]

NotRevoking == [at |-> "idle", left |-> {}, hand |-> {}, read |-> {}]

IsFlagActive(k, time) == UntilOf[k] > time

PolledOrNothing(ok) == IF ok THEN standing ELSE {}

\* The cache after a poll: a poll that fails leaves what was there.
Polled(ok) == IF ok THEN standing ELSE cache

-----------------------------------------------------------------------------
(* forge kill *)

\* applyKill writes the flag first ...
Kill(k) ==
  /\ k \notin standing
  /\ standing' = standing \cup {k}
  /\ unrecorded' = unrecorded \cup {k}
  /\ UNCHANGED <<now, recorded, gatewayVars, secretVars>>

\* ... and then appends the row, which may fail: the flag stands all the same.
RecordKill(k) ==
  /\ k \in unrecorded
  /\ unrecorded' = unrecorded \ {k}
  /\ recorded' \in {recorded, recorded \cup {k}}
  /\ UNCHANGED <<now, standing, gatewayVars, secretVars>>

-----------------------------------------------------------------------------
(* forge secrets revoke, and a put of another secret by another process *)

\* The secret must exist; the scan may find any number of dependents, or none.
StartRevocation ==
  /\ revocation.at = "idle" /\ Doomed \in vault
  /\ revocation' = [NotRevoking EXCEPT !.at = "killing", !.left = Found]
  /\ UNCHANGED <<now, flagVars, gatewayVars, vault, putting>>

KillDependent(k) ==
  /\ revocation.at = "killing" /\ revocation.hand = {} /\ k \in revocation.left
  /\ standing' = standing \cup {k}
  /\ revocation' = [revocation EXCEPT !.hand = {k}]
  /\ UNCHANGED <<now, unrecorded, recorded, gatewayVars, vault, putting>>

RecordDependent(k) ==
  /\ revocation.hand = {k}
  /\ recorded' = recorded \cup {k}
  /\ revocation' = [revocation EXCEPT !.hand = {}, !.left = @ \ {k}]
  /\ UNCHANGED <<now, standing, unrecorded, gatewayVars, vault, putting>>

DestroyableAtOnce == revocation.at = "killing" /\ revocation.hand = {}

\* Every dependent that was found is behind a kill with its row: only now the value.
Destroyable == revocation.at = "killing" /\ revocation.left = {}

\* The vault is read, decrypted and rewritten as a whole.
ReadVault ==
  /\ Destroyable /\ Doomed \in vault
  /\ revocation' = [NotRevoking EXCEPT !.at = "writing", !.read = vault]
  /\ UNCHANGED <<now, flagVars, gatewayVars, vault, putting>>

Destroy ==
  /\ revocation.at = "writing"
  /\ vault' = revocation.read \ {Doomed}
  /\ revocation' = NotRevoking
  /\ UNCHANGED <<now, flagVars, gatewayVars, putting>>

\* The store fails, or the operator's process dies: what was killed stays killed,
\* and the command can be run again.
Abandon ==
  /\ revocation.at # "idle"
  /\ revocation' = NotRevoking
  /\ UNCHANGED <<now, flagVars, gatewayVars, vault, putting>>

ReadForPut ==
  /\ putting = {}
  /\ putting' = {vault}
  /\ UNCHANGED <<now, flagVars, gatewayVars, revocation, vault>>

Put ==
  /\ \E read \in putting : vault' = read \cup {Other}
  /\ putting' = {}
  /\ UNCHANGED <<now, flagVars, gatewayVars, revocation>>

-----------------------------------------------------------------------------
(* the gateway *)

\* refreshNow, on the timer.
Refresh(ok) ==
  /\ up
  /\ cache' = Polled(ok)
  /\ known' = IF ok THEN known \cup standing ELSE known
  /\ UNCHANGED <<now, up, flagVars, secretVars>>

\* Launch polls once before it serves; that poll may fail like any other.
Start(ok) ==
  /\ ~up
  /\ up' = TRUE
  /\ cache' = Polled(ok)
  /\ known' = IF ok THEN standing ELSE {}
  /\ UNCHANGED <<now, flagVars, secretVars>>

Stop ==
  /\ up
  /\ up' = FALSE /\ cache' = {} /\ known' = {}
  /\ UNCHANGED <<now, flagVars, secretVars>>

Tick ==
  /\ now < MaxTime
  /\ now' = now + 1
  /\ UNCHANGED <<flagVars, gatewayVars, secretVars>>

KillInit ==
  /\ now = 0 /\ standing = {} /\ unrecorded = {} /\ recorded = {}
  /\ up = FALSE /\ cache = {} /\ known = {}
  /\ revocation = NotRevoking /\ vault = Secrets /\ putting = {}

Operator ==
  \/ \E k \in Kills : Kill(k) \/ RecordKill(k) \/ KillDependent(k) \/ RecordDependent(k)
  \/ StartRevocation \/ ReadVault \/ Destroy \/ Abandon \/ ReadForPut \/ Put

Gateway == (\E ok \in BOOLEAN : Refresh(ok) \/ Start(ok)) \/ Stop

KillNext == Operator \/ Gateway \/ Tick

KillSpec == KillInit /\ [][KillNext]_killVars

-----------------------------------------------------------------------------
KillTypeOK ==
  /\ now \in 0..MaxTime
  /\ standing \subseteq Kills /\ unrecorded \subseteq standing /\ recorded \subseteq standing
  /\ up \in BOOLEAN /\ cache \subseteq standing /\ known \subseteq standing
  /\ revocation \in Revocations /\ revocation.hand \subseteq standing
  /\ vault \subseteq Secrets
  /\ putting \subseteq SUBSET Secrets

\* No dependent of a destroyed secret that the scan finds is left without a
\* standing kill that has its audit row, whatever failed on the way and however
\* often the command was run again (revokeSecret kills and records before it
\* destroys).  It says nothing of what the scan overlooks: a tool whose secret is
\* named in ais-targets.yaml alone may be left unkilled.
DeadSecretIsBehindKills ==
  Doomed \notin vault => Found \subseteq standing \cap recorded
=============================================================================
