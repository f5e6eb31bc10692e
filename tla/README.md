# MCPForge gateway: verification project

MCPForge is a governed gateway between MCP clients (agents acting for a human) and the
systems of an organisation. This directory holds TLA+ models of the gateway's core, the TLC
configurations that check them on small instances, and TLAPS proofs of the results that matter
most. Paths below are relative to `src/core/gateway/` unless they start with `src/`.

## The system

The gateway is one Node.js process with **one store connection** (SQLite, or one Postgres
client). Everything concurrent in it is the interleaving of asynchronous handlers at their
awaits. `store/dialect.ts` gives them transactions: outermost ones queue for the connection,
nested ones become savepoints, and a statement outside any transaction does not queue: it runs
at once, and if a transaction is open on the connection it sees that transaction's uncommitted
rows and is undone with it. Most of the hard behaviour follows from this and from the write
path holding a transaction open while the target system is being called. Around the gateway
are commands that an operator runs in processes of their own, and a portal that turns edits of
the definitions into git branches, which the gateway takes up by a reload.

| Component | State it keeps | Operations | What makes it hard | Correct when | Module |
|---|---|---|---|---|---|
| Confirmed write path (`policy/idempotency`, `store/runtime/{idempotency,nonce}.ts`, `assembly/execute.ts`) | idempotency records, consumed nonces, audit rows, an in-memory map of running calls | lookup, dispatch, claim, execute transaction, settle, record | the target and the store cannot commit together; retries, restarts, expiry, two calls on one token | one send per token, one commit per nonce, truthful and recorded answers | `WritePath` |
| Approval lifecycle (`policy/approval`, `store/runtime/approvals.ts`, `api/v1/approval-decision.ts`) | approval requests, decision rows, confirm tokens | raise, decide, status, mint, expire | concurrent approvers, expiry during a decision, failed evidence | a decision is final, by another human, in time, and has its audit row | `Approvals` |
| Audit trail (`store/audit`, `store/usage`, `store/id.ts`) | hash chain, usage rollup, id generator | append, sweep, verify | appends within other units, rollbacks, clock, deletions | the chain never forks; nothing acknowledged is lost; deletions are attested | `AuditChain` |
| Local sign-in (`identity/local`, `store/identity`) | accounts, sessions, refresh tokens | sign in, renew, sign out, reset, disable, enable | slow password hashes between reads and writes; racing renewals | one token chain per session, reuse ends it, resets and disabling end what is open | `Sessions` |
| User administration (`api/v1/user-admin.ts`, `src/core/cli/src/commands/identity-bootstrap.ts`) | accounts, groups, audit rows | create, enable, disable, set groups, reset; bootstrap | two administrators at once, a failing row, a command beside the gateway | an admin remains; a change is whole, and recorded | `UserAdmin` |
| Kill switches and secrets (`flags`, `store/flags`, `secrets`) | flags, a polled cache, a vault file | kill, poll, revoke a secret, put one | stale cache, failing polls and restarts, abandoned commands, a file rewritten as a whole | no dependent runs on a dead credential; a kill that was read binds | `KillSwitch` |
| Policy chain, scope, caps, meta tools (`policy/chain.ts`, `policy/stages.ts`, `scope`, `caps`, `meta`) | rate windows, slots, the activated set | ten stages in order, activation | stages with side effects before a later refusal, state read at different times | no call goes around a stage; slots and windows agree with the calls | `PolicyChain` |
| Catalogue reload and live sessions (`assembly/reload.ts`, `assembly/session.ts`, `surface.ts`, `launch.ts`) | the served generation, the queue, the session's assembly | ask, build, check, record, swap, notify; re-verify, plan, confirm | a tree read twice, calls planned on one generation and confirmed on another | what the trail says serves; what a human read is what runs | `Reload` |
| Change host of the portal (`src/core/portal/src/lib/change-host`) | git branches, one worktree, review records | draft, propose, approve, merge, discard | overlapping operations in one worktree without a lock | only an approved branch's merge moves the base | `ChangeHost` |
| Transport and consumer authentication (`transport`) | MCP sessions, spent assertions | establish, close | state read at establishment and used later | each request has the authority it has now | re-verification only, in `Reload` |
| Reversal, consumers, OIDC, read and authoring API, telemetry, CLI, adapters | records, caches | see `PROJECT.json` | mostly pure or read-only | | none |

How they interact: an MCP request enters through the transport, is bound to a session, and runs
the policy chain; its confirm stage talks to the approval queue, its execute step is the write
path, and whatever comes of it is a row of the audit trail. Decisions and changes of accounts
come in through the HTTP API and append to the same trail. All of them, and the sign-in routes,
share the connection, so the modules about them have the connection's open transaction (`txn`),
what the connection shows (`db`) and what is committed (`disk`) among their variables. The
chain reads flags that an operator's process writes; `PolicyChain` therefore extends
`KillSwitch` and composes the two.

## The modules

### WritePath

One action per await-delimited step of one request, from the presentation of the token
(`Present`) through the replay lookup (`FindReplay`, `GetRecord`), the dispatcher's map
(`Dispatch`, `JoinReturns`), the claim (`Begin`), the execute transaction (`Open`,
`InvokeReturns`, `Complete`, `Append`, `Commit`, or `ExecuteFails`), the settling of a failure
(`Settle`), to the recorder's audit row behind the audit queue (`EnterQueue`, `InsertRow`,
`InsertFails`). `TargetApplies` is the target, `Tick` the clock, `Crash` a restart that loses
the memory of the process and keeps the committed store. Records are indexed by the token:
`policy/idempotency/key.ts` hashes what the token is bound to together with the token. Results,
arguments and wording are abstracted to the code of the outcome and the call it came from.
`SingleFlight = FALSE` switches the in-process map off.

`OneTimeWrite` is the abstract promise: a token is fresh, claimed by one call, sent by that call
and then done or failed for good. `WritePathRefinement` maps a committed record to that life
(`Promise == INSTANCE OneTimeWrite WITH life <- life, holder <- holder`) and states the parts of
the inductive invariant; `WritePathClaims` states what a comment says and the code does not keep.

### Approvals

`StartRaise`, the listing and the bare insert of a request; `StartDecision`, the decision in its
transaction, its audit row, and commit or undo; `CollectToken`, the status that hands a token
out, which reads what the connection shows and so may mint for an approval that is then undone.
What becomes of the token is `PolicyChain` and `WritePath`. `Other` stands for a transaction of
any other part of the gateway that a bare statement falls into. Requests are named by plan;
arguments, hashes and texts are abstracted to that name.

### AuditChain

Appends in their own transaction or nested in another unit (`Nested`), with the audit queue, the
savepoint and the id generator step by step; retention sweeps; `Verify`, the verification, as an
operator on the rows. A row's content hash is the name of its author, since each author appends
once and the hash covers the row. `Draw` stands for every other id of the process: satellites,
usage buckets, edges and the other tables draw from the same sequence as the rows. Sweeps run
while the gateway is down: they are a command of the CLI, in a process of their own, and the
repository supports one process at a time. The clock advances, and may be set back once
(`StepBack`); properties that need a clock which is never set back say so with `steady`.

### Sessions

One enrolled account. A sign-in reads the credential (`ReadCredential`), records the attempt in
a transaction after the slow hash (`RecordFailure`, `RecordSuccess`), opens a session (`Open`)
and gets a token if the account is still active (`Grant`, `IssueFails`). A renewal reads the
clock, queues for the connection and rotates (`Renew`, `Rotate`). Every transaction may fail at
its end (`UndoCall`, `UndoOther`). Within one transaction the statements are one step: only a
bare revocation could come between them, and it commutes with them, as it touches the session
row under the same guard. Sessions are named by the sign-in that opened them, tokens by the call
that minted them, passwords by their version. Enabling an account (`Reactivate`) is a unit of
work that may be undone, and the bare read before a token is minted sees it while it is open:
`undue` are the tokens that such a read let out before the enabling was committed, and
`DisabledHoldsNothing` leaves them out, as the code does nothing about them.
A crash is left out: it leaves a committed session whose token nobody received, which a renewal
with an older token already covers.

### UserAdmin

One attempt per request: `Authenticate` reads the actor outside any transaction and applies
`authorizeChange`; `Begin`, `Pass` or `Deny`, `Change`, `Append` and `Commit` are the statements
of `commitOrRefuse`, each of which may fail (`Fail`); a refusal is rolled back and gets a
transaction of its own for its row (`Refuse`, `RefusalFails`). `BootLook` and `BootCreate` are
the bootstrap command, a process of its own, with the password prompt between them. `SignIn`
opens sessions that disabling and resets have to end. Passwords, names and TOTP are left out.

### KillSwitch and PolicyChain

`KillSwitch`: an operator's kill is a flag and then a row (`Kill`, `RecordKill`); `forge secrets
revoke` kills and records every dependent that its scan finds (`Found`), one by one, and then
takes the value out of the vault file, which it has read as a whole (`KillDependent`,
`RecordDependent`, `ReadVault`, `Destroy`), and may be abandoned anywhere and run again. The
scan reads the manifests and the consumers' records; a tool whose secret is named only in the
deployment's `ais-targets.yaml` (`NamedIn`) is a dependent that it does not find. `ReadForPut`
and `Put` are another process at the same file; `Refresh` and `Start` are the gateway's polls,
which may fail.

`PolicyChain` has the calls. `Arrive` fixes what a call works from to its end (scope, lens,
time) and applies stages 6a and 6a'; `EnabledStage` is 6b; `CapsStage` 6c, with the windows and
the slots; `CheckRefuses` stands for what 6d to 6f may refuse; `ReadStage`, `PlanStage`,
`DryRunReturns` and `ConfirmStage` are 6g and 6h; `Execute` the binding; `Answer` the record and
the release. A scope is a record of sets of tools, so that packages, roles and deny lists are
reduced to what a predicate answers; it says also which tools require a human's approval on
their own account, besides those that are elevated (`ToolRequires`, `ForcesApproval`); of the
write path only the token is left.

### Reload

`Ask` or `Refuse`, then in turn `LoadCatalogue` and `BuildGeneration`, the two reads of the tree,
`Record`, the audit row, `Commit`, the swap, and `Answer`, after the notifications. `Merge` moves
the tree at any time. The requests of one live session are re-verified (`Reverify`,
`Reverified`), take the snapshot that serves when they are handled (`Handle`), and plan or
confirm (`Plan`, `Confirm`). A tree is one tool (a version and a manifest, or absent) and whether
the session's human and consumer are granted it.

### ChangeHost

Every operation of the portal's change host, one action per git command, in a worktree that all
tabs share: `Checkout` takes the worktree to a branch, `Write` stages a file, `Commit` commits
whatever is staged to whatever is checked out by then, `MergeIn` runs in the definitions clone.
An approval reads the proposal (`ReadProposal`) and then its record (`ReadRecord`), two reads
between which others may check out, write and commit.
A branch has its tip's files and the files it left base with, which is what a three-way merge
needs. Contents are edits from a small set.

## The runs

| Run | Question | Bounds, and why they are enough |
|---|---|---|
| `WritePath` | Is a token sent once and a nonce spent once, are committed units whole, answers true, backed and recorded, in every interleaving with failures and a restart? | Three calls (a runner, a joiner and a late replay), two tokens sharing a nonce, one crash, clock to 2 so that one token expires before the other and the window covers both |
| `WritePathLive` | Is every accepted call answered, and does the path implement `OneTimeWrite`? | Two calls, a nonce each, no symmetry, fairness per call |
| `Approvals` | Does a verdict stand only with its row, once, by another human or a super admin, in time? Was each token's request approved in its window, and has it one token? | Two plan calls, two ids, two concurrent decisions of three people with one super admin, the window of 1 ends within the clock, one crash |
| `AuditChain` | Does the chain verify, are holes found, is nothing acknowledged lost, are deletions attested, does the rollup agree? | Three appends, one nested, two sweeps, restarts, sequences that start at 0 and that other ids move on to 1, one setback of the clock |
| `Sessions` | One chain of tokens per session, reuse ends it, resets and disabling end what is open, codes are spent, the lock and the count agree? | Two sign-ins, two renewals, a sign-out, a reset or a disabling, any number of enablings, committed or undone, lock at two failures, idle limit 1 and absolute limit 2, clock to 2 |
| `UserAdmin` | Does an administrator remain, is a committed change whole, is every attempt recorded as it ended? | Two accounts and two requests, so that two administrators can disable or demote each other at once; two runs of the command; failures and a crash at every statement |
| `KillSwitch` | Is a destroyed secret always behind the kills, with their rows, of the dependents that the scan finds? | Four kills: two dependents that are found, so that one can be killed and the other not yet, one that is not, and a kill that ends; any number of abandoned commands |
| `PolicyChain` | Do slots and windows agree with the calls, does only what is in scope and not killed proceed, are writes consented to? | Three calls of one caller, a plan, its confirmation and a read, on one binding and after a reload on two; limits of 1 and 2, so that each limit refuses while the other admits; the reload also makes the write require an approval of its own; a kill that ends, a window of 1 |
| `Reload` | Does the trail say what serves, does a reload serve what was merged, is a session narrowed, is what was planned executed, is every reload answered? | Two reloads that overlap, two requests at every step of them, three merges: the tool goes, comes back at its version with another manifest, the grant goes |
| `ChangeHost` | Does the base move only by a merge of an approved branch? | Two users, one a super admin, two branches, one edit, seven operations: enough for two operations to send each other's commits astray and for one of the branches to be approved and merged |

In each of these except `UserAdmin` the calls are one-shot and the clock is bounded, so a state
without successor is the end of the instance and not a deadlock of the system: deadlock checking
is off. Waiting in a circle is a property instead (`CircularWait`). Symmetry is used only for
sets whose members are interchangeable in `Init` and `Next`, and in no run with a liveness
property.

Every listed property has a mutant of a mapped definition that breaks it: the action or operator
with a plausible bug, defined just before the definition it replaces.

Two further runs refute a statement of the repository about itself:

| Run | Statement | What happens |
|---|---|---|
| `ClaimCircularWait` | `store/dialect.ts:178`, a nested transaction never waits for the one it is inside of | an append holds the audit queue and waits for the connection; a write's unit holds the connection and waits for the audit queue. Neither moves again |
| `ClaimReviewed` | `src/core/portal/src/lib/change-host/local-git.ts:493`, only an approved change can be merged | a draft that is saved after the approval leaves the review record as it is, and is merged under it |

### Fairness

`FairSpec` of WritePath assumes weak fairness of each call's own steps: the event loop runs
every continuation that is ready, the connection and the audit queue serve in order, and bindings
return or time out. Nothing is assumed of the clock, of the target or of crashes. Under it every
accepted call is answered unless a restart loses it or the circular wait of `ClaimCircularWait`
holds it: the property names that exception because the code has it.

`Reload` assumes weak fairness of each reload's own steps: files are read, and the store answers
or throws. Under it every reload that was asked for is answered, behind one that failed too.

## The proofs

Each proof module extends the module it is about. All proofs hold for any value of the
constants that satisfies the assumptions of that module; none of the bounds above matters.

| Module | Theorems | Inductive invariant, and why the property alone does not do |
|---|---|---|
| `WritePathProofs` | types; one send per token; a send is under the caller's own claim; one commit per nonce; an execution is committed whole; answers agree with what is committed; who was refused as not sent was not sent (but see `surface.ts:487` below); one row per answer; the path implements `OneTimeWrite` | `SafetyInv`: one has to know that the record of a call that was sent is still that call's (`Claims`), hence that nobody can claim the key again, hence that whoever reaches the claim arrived while its token lived (`LiveToken`), and that the window began no earlier than the token (`RecordAfterMint`). Since a rollback restores the committed store, it also says what an open transaction has written (`Connection`, `Uncommitted`) and that a claim is committed before the transaction opens (`Holding`). Beside it, `RowsInv` follows the rows: what a rollback leaves of a call's trail is known from where the call stands (`Trail`), so that an answer never leaves none or two, and the nonces spent are those of the executed rows (`Paid`); and `OutcomeInv` follows what calls were told: whatever result a call carries, its own, a joined one or a replayed one, is already that of a committed record or of a flight that will settle as told (`Flights`, `Backed`, `ToldIsRecord`), and a call told that nothing was sent leaves a record that lets nothing be sent (`Unsent`) |
| `ApprovalsProofs` | types; a verdict has its row; one row per answered decision; decided by another or a super admin, in time; a token's request was approved in its window; decisions are final | `ApprovalInv`: the connection's view and the committed store differ only in requests that a bare insert added (`Fresh`), in the one request that the open transaction ruled on (`Ruled`) and in that decision's row; every verdict that can be seen was given by a decision that passed the gate (`Backed`) |
| `UserAdminProofs` | types; attempts recorded; changes whole; an admin remains | `AdminInv`: where the request of the open transaction is says by what the connection's view differs from the committed store (`Serial`, `Doing`), and what it has judged still holds, because nobody else can commit in between (`Permitted`) |
| `SessionsProofs` | types; one chain; reuse ends the session; resets end what is open; a disabled account holds nothing, undone enablings aside; codes are spent; the lock and the count agree | `SessionsInv`: most of it says what a store alone must satisfy (`Sound`, with `Chain` and `Lockout`) and is claimed of the connection's view and of the committed store alike, so that a commit and a rollback both end in a sound one; the rest says what either store shows of a call where it stands (`Known`): nothing before it has written, its token or its session's end once it has answered. Statements are classed by what they do to a store (`Fades`, `Grows`), and each action is one of five kinds of step |
| `AuditChainProofs` | types; acknowledged rows stay; deletions are attested; the rollup counts the trail; the chain verifies; missing rows show | `TrailInv`: who has the queue and the transaction (`Turns`), whose rows either store has (`Held`), and what a store alone must satisfy (`Sound`), claimed of the connection's view and of the committed store alike: any part of it has a first and a last row (`Ends`: the rows grow one at a time, which is what stands in for an induction over finite sets), ids and hashes are distinct, boundaries name deleted rows, the rollup counts. `ChainInv` adds that every id so far is below the next one (`Passed`), so that the head is the row written last and a sweep takes the oldest rows, hence the rows stay linked (`Linked`) and the first of them starts the chain or follows an attested boundary (`OriginKnown`) |
| `PolicyChainProofs` | types, of the kill switches and of the chain; a dead secret is behind the kills of the dependents that were found; the composition keeps `KillSpec`; slots balance; rates hold; proceeds in scope; kills that were read bind; writes are consented | per theorem: `KillInv` binds what a revocation or a put has read of the vault and will write back like the vault itself; the refinement gives the kill switches' invariants to the chain; `ScopeInv` says which predicates a call has passed where it stands; `ConsentInv` how each token came about; `SlotsInv` counts the holders per binding of their own snapshot; `RateInv` says of every window that it is in the order of time and that, for any moment since its last eviction, it has as many entries after that moment as calls were charged (`Tracks`), so that what the limiter counts in a window it counts of the calls |
| `ReloadProofs` | the trail tells what serves; reloads serve what was merged; scopes are renewed; plans are executed as read | `ReloadInv`: one reload has the turn (`Turns`), so what it compared with the served generation still serves when it swaps (`Built`), and each generation in the rows is versioned against the one before (`History`); `RequestInv` says which assemblies a request and its session may come from |
| `ChangeHostProofs` | types, with a branch that is checked out being one that exists; the base moves by approved merges | `HostInv`: commits go astray, so it is not enough to know of a branch's own tip that its record says approved only if it was: one has to know it of every copy of every record, wherever the worktree put it (`Clear`) |

Two hypotheses are not part of the specifications.

- `ScopeCoversToken`, in `WritePathProofs`: a token does not outlive the idempotency window that
  starts when it is minted. It is a matter of configuration (the default window is longer than the
  default life of a token; a tool can set a shorter one, and an approved token lives longer), and
  without it the statements are false: after the window the record no longer governs and a failed
  write may be sent again. The types, `NoncePaysOnce` and `AnswerLeavesOneRow` do without it: a
  nonce pays once and an answer has its one row whatever the window.
- `[]RoomLeft`, in `ChainsVerify` and `MissingRowsShow`: no millisecond's sequence of ids comes to
  its end. The generator (`store/id.ts:43-58`) starts it in the lower half of its range and relies
  on a burst not filling the rest, in a sequence that every id of the process is drawn from; when
  one does, the sequence wraps, and the ids are out of order. The code has nothing that bounds a
  burst, so this is assumed and not proved. That the clock is not set back is in the properties
  themselves (`steady`). The other theorems about the trail need neither.

`PolicyChain` takes a window's eviction as the code does it, from the front up to the first entry
that has not left it. In the order of time that is every entry that has left, which is what the
proof of `RatesHold` shows on the way (`EvictedIs`, `TracksEvicted`).

Only model-checked: liveness under fairness (`AcceptedIsAnswered`, `AskedIsAnswered`), which is
beyond the prover. Every safety property that a passing run checks is stated
by a theorem.

## Seen while modelling

Behaviour of the code that no run is about; each is worth a decision by whoever owns the code.
Some properties leave a case out because of it, and say so where they are stated, among them
`NotSentIsTrue`, `DisabledHoldsNothing`, `DeadSecretIsBehindKills` and, by `steady` and the bounds
of its run, `ChainVerifies`.

- `policy/idempotency/gate.ts:77`: the replay lookup is a bare read. A key that is looked up while
  its execution is open is answered with a result that a rollback then withdraws.
- `assembly/surface.ts:487-495`: a call that was sent and failed, and whose refusal row fails to
  append, ends in the catch-all that says that nothing was executed, which is then false.
  `NotSentIsTrue` is about every other answer with these words.
- `policy/approval`: the insert of a request is a bare statement and can be undone with another
  call's unit after its id was returned; the same holds for the revocation of a sign-out
  (`identity/local/sign-in.ts:80`).
- `store/audit/repository.ts:455`: the greatest id is the head of the chain as long as the host's
  clock is not set back between two appends. `store/audit/verify.ts:181`: after a sweep of every
  row the chain reads intact, not swept.
- `identity/local/store.ts:259`: a sign-in that verified the old password opens its session after
  the reset, and the reset does not end it.
- `identity/local/sign-in.ts:152`, `identity/local/store.ts:460`: the account is read outside any
  transaction before a token is minted. While an administrator's enabling is open
  (`api/v1/user-admin.ts:341-348`) the read sees it, and if it is then undone, a disabled account
  has a token, and a live session until its next renewal, contrary to `sign-in.ts:220-223`. `DisabledHoldsNothing` is about every other token.
- `identity/local/totp.ts:27-30` and `:113-115` refuse a code that was used within its window; two
  sign-ins at once with one code are both accepted, each having read the counter before either
  recorded. `AcceptedCodesAreSpent` says only that the counter covers both.
- `secrets/dependents.ts:8-9` calls its two fields the exhaustive list of what references a secret;
  the `jde.*` tools take theirs from `clientCredentialRef` in `overlays/<deployment>/ais-targets.yaml`
  (`launch.ts:303-324`), which the scan does not read. Such a secret is destroyed with no kill
  (`secrets/revocation.ts:122-127`). `DeadSecretIsBehindKills` is about what the scan finds.
- `meta/visibility.ts:90`: `forge.activate` takes only what the session sees under the lens it
  already has, so a session that has narrowed itself cannot widen again, though
  `scope/predicates.ts:222` tells it to.
- `launch.ts:422`: a first poll of the flags that fails leaves the cache empty, although
  `flags/poller.ts:84-86` says that a store outage never presents as no kill switch at all.
- `secrets/encrypted-file.ts:224`: two processes that rewrite the vault lose one of the updates,
  and a put can bring a destroyed value back. A gateway learns of a dependent's kill at its next
  poll, which may be after the value is gone.
- `assembly/reload.ts:126`: a tool that one reload removes and another brings back at its version
  with another manifest is not compared; a plan read before both confirms it. `:265`:
  notifications are awaited inside the queue, so one that never returns holds every later reload.
- `launch.ts:522`, `assembly/session.ts:343`: a re-verification that began before a reload and
  ends after it puts the old scope back for the next request. `launch.ts:538`: the consumer
  registry and the identity admins are read once; a suspension there waits for a restart.
- `transport/consumer-auth/authenticate.ts:345`: the clock is read before the signature is
  verified, and `replay.ts:39` forgets spent assertions by the clock of the moment, so an
  assertion presented twice at the instant of its expiry can be accepted twice; a restart forgets
  them all.
- `api/v1/read-api.ts:227`: an administrator's groups are read before the body, so one who is
  disabled meanwhile still makes this change.
- `src/core/cli/src/commands/identity-bootstrap.ts:126`: two runs that wait at the password prompt
  at once both create a first administrator.
- `reversal/reverse.ts:93`: two reversals of one call are not kept apart.

## What is not modelled

- Transport: establishing and closing MCP sessions, and single-use assertions (above). Their
  state is maps in memory that each handler touches once; what is left is cryptography and the
  SDK, whose handling of a session that closes under a request is not in this repository.
- Sign-in: TOTP enrolment and profile changes.
- Reversal: it builds a call and sends it through the write path; it has no production caller.
- The consumer's daily quota, the per-consumer rate limiter and the anomaly runner are not wired
  to the server. The consumer lifecycle writes staged files for a human to review.
- OIDC, the group mapping, catalogue parsing, the read and authoring API, probing, ranking, code
  generation, the adapters and the repository's tooling: pure functions, input and output, or
  batch programs without concurrency or recovery of their own. They are most of the lines of the
  repository, and what of them decides (predicates, mappings, comparisons) is in the models as
  sets and functions that stand for their answers.
- Cryptography and encodings (tokens are model values, a signature is assumed to hold), wording,
  telemetry, the rendering of the portal.
- Housekeeping deletions (`deleteExpired`, `expireDue`), reversal links, a pooled or
  multi-process deployment (the repository excludes it too), and tools whose idempotency window
  is shorter than their tokens.

`PROJECT.json` lists each component with its status, and each hazard of the code with the
properties that cover it or the reason why none does.

## What could come next

1. `McpSessions`: establishment against suspensions and restarts, assertions around their expiry.
2. Reversal and the consumer lifecycle, once they have callers.
3. Abstract specifications beside `OneTimeWrite`, with the refinements proved: for AuditChain a
   trail that grows at its end and loses its oldest rows, for Approvals a request decided once.
