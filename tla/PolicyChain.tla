------------------------------ MODULE PolicyChain ------------------------------
(***************************************************************************)
(* The policy chain: every call, whichever entry point it came through,    *)
(* walks the stages 6a to 6h in order, is refused or answered by one of    *)
(* them, or proceeds to its binding.  Calls interleave at every stage.     *)
(*                                                                         *)
(* A call works from what was there when it arrived: the session's scope,  *)
(* its activation, the time.  It reads live the flags' cache, the rate     *)
(* windows and the concurrency slots.  From 6g on the write path takes     *)
(* over (WritePath), reduced here to the token a call presents.            *)
(***************************************************************************)
EXTENDS KillSwitch, FiniteSets, Sequences, SequencesExt

CONSTANTS
  Calls, Callers, Tools, Bindings,
  CallerOf,     \* [Calls -> Callers]
  ToolOf,       \* [Calls -> Tools]
  Covers,       \* [Kills -> SUBSET Tools], what a kill's target covers
  Writes,       \* write tools
  Elevated,     \* tools whose binding has the elevated posture
  Scopes,       \* the sequence of what sessions are given over time: see Scope
  ToolLimit, CallerLimit, Window,   \* rate limits, calls in a window
  GlobalLimit, BindingLimit,        \* concurrency limits
  TTL,          \* life of a confirm token
  None

\* What a session resolves to: the tools the deployment carries, the held roles
\* grant, the consumer is authorized for and the probe enables; whether the
\* consumer is active; each tool's binding; the tools whose manifest requires a
\* human's approval; and the end of the granting roles' standing authorization for
\* elevated writes.
Scope == [deployed : SUBSET Tools, granted : SUBSET Tools, authorized : SUBSET Tools,
          enabled : SUBSET Tools, active : BOOLEAN, binding : [Tools -> Bindings],
          approvalRequired : SUBSET Tools, standingUntil : Nat]

ASSUME ChainAssumption ==
  /\ IsFiniteSet(Calls) /\ CallerOf \in [Calls -> Callers] /\ ToolOf \in [Calls -> Tools]
  /\ Covers \in [Kills -> SUBSET Tools]
  /\ Writes \subseteq Tools /\ Elevated \subseteq Tools /\ Scopes \in Seq(Scope) \ {<<>>}
  /\ {ToolLimit, CallerLimit, Window, GlobalLimit, BindingLimit, TTL} \subseteq Nat \ {0}
  /\ None \notin Nat

VARIABLES
  scope,        \* what the next request's session resolves to
  lens,         \* [Callers -> SUBSET Tools], the activated set
  call,         \* the calls
  perTool, perCaller,    \* rate windows: the times of the calls charged
  perBinding, global,    \* concurrency slots taken
  tokens,       \* confirm tokens minted
  requests      \* approvals asked for, as the tokens they could become

limiterVars == <<perTool, perCaller, perBinding, global>>
writeVars == <<tokens, requests>>
chainVars == <<scope, lens, call, limiterVars, writeVars>>
vars == <<killVars, chainVars>>

-----------------------------------------------------------------------------
\* How a token came about: no approval is forced on the tool, a standing
\* authorization stood the forced approval down, or a human approved.
Consents == {"unforced", "standing", "approval", "none"}

\* A token remembers whether the tool itself required a human when it was planned.
Tokens == [caller : Callers, tool : Tools, exp : Nat, required : BOOLEAN,
           consent : Consents]

\* A call stands before a stage, in a dry run, before its binding, or before its
\* answer.
CallTypes == [at : {"idle", "6b", "6c", "6d", "dryRun", "proceed", "answer", "done"},
              scope : Range(Scopes) \cup {None}, lens : SUBSET Tools, time : Nat,
              token : Tokens \cup {None}, holds : BOOLEAN,
              charged : Nat \cup {None}, warned : SUBSET Kills]

NoCall == [at |-> "idle", scope |-> None, lens |-> {}, time |-> 0, token |-> None,
           holds |-> FALSE, charged |-> None, warned |-> {}]

Goto(c, stage) == call' = [call EXCEPT ![c].at = stage]

-----------------------------------------------------------------------------
(* scope resolution: the six predicates, in the order refusals take *)

Predicates == <<"Deployed", "Granted", "ConsumerAuthorized", "Activated", "ProbeEnabled",
                "NotKillSwitched">>

Hits(flags, tool, time) == {k \in flags : tool \in Covers[k] /\ IsFlagActive(k, time)}

Admits(predicate, tool, s, ids, time) ==
  CASE predicate = "Deployed" -> tool \in s.deployed
    [] predicate = "Granted" -> tool \in s.granted
    [] predicate = "ConsumerAuthorized" -> s.active /\ tool \in s.authorized
    [] predicate = "Activated" -> tool \in ids
    [] predicate = "ProbeEnabled" -> tool \in s.enabled
    [] predicate = "NotKillSwitched" -> Hits(cache, tool, time) = {}

\* What a session sees: the tools that pass all six.
Visible(u) ==
  {t \in Tools : \A i \in DOMAIN Predicates : Admits(Predicates[i], t, scope, lens[u], now)}

\* The predicate a call's refusal names: the first that fails, 0 if none does.
Refusal(c, ctx) ==
  SelectInSeq(Predicates, LAMBDA p : ~Admits(p, ToolOf[c], ctx.scope, ctx.lens, ctx.time))

OwnsButTheProbe(stage, i) ==
  i # 0 /\ Predicates[i] \in
    IF stage = "6a" THEN {"Deployed", "Granted", "Activated", "ConsumerAuthorized"}
    ELSE {"NotKillSwitched"}

\* Each stage refuses only what it owns, and lets the rest pass to the owner.
Owns(stage, i) ==
  i # 0 /\ Predicates[i] \in
    IF stage = "6a" THEN {"Deployed", "Granted", "Activated", "ConsumerAuthorized"}
    ELSE {"ProbeEnabled", "NotKillSwitched"}

-----------------------------------------------------------------------------
(* stages *)

\* A request arrives: its session is re-verified and the context is fixed.  6a
\* and 6a' need nothing else.
Arrive(c, token) ==
  /\ up /\ call[c].at = "idle"
  /\ token # None => token.caller = CallerOf[c] /\ token.tool = ToolOf[c]
  /\ LET ctx == [NoCall EXCEPT !.scope = scope, !.lens = lens[CallerOf[c]], !.time = now,
                               !.token = token, !.warned = known]
         refused == Owns("6a", Refusal(c, ctx)) \/ ~scope.active
     IN call' = [call EXCEPT ![c] = [ctx EXCEPT !.at = IF refused THEN "answer" ELSE "6b"]]
  /\ UNCHANGED <<killVars, scope, lens, limiterVars, writeVars>>

\* 6b resolves again, and now owns what the probe and the flags say.
EnabledStage(c) ==
  /\ call[c].at = "6b"
  /\ Goto(c, IF Owns("6b", Refusal(c, call[c])) THEN "answer" ELSE "6c")
  /\ UNCHANGED <<killVars, scope, lens, limiterVars, writeVars>>

\* A sliding window without the calls that have left it: from the front, up to
\* the first that has not.
Evicted(window) ==
  LET kept == CHOOSE i \in 1..Len(window) + 1 :
                /\ i <= Len(window) => window[i] > now - Window
                /\ \A j \in 1..i - 1 : window[j] <= now - Window
  IN SubSeq(window, kept, Len(window))

WithinRate(c) ==
  /\ Len(Evicted(perTool[ToolOf[c]])) < ToolLimit
  /\ Len(Evicted(perCaller[CallerOf[c]])) < CallerLimit

ChargeToolAnyway(c, ok) ==
  LET add == IF ok THEN <<now>> ELSE <<>> IN
  /\ perTool' = [perTool EXCEPT ![ToolOf[c]] = Evicted(@) \o <<now>>]
  /\ perCaller' = [perCaller EXCEPT ![CallerOf[c]] = Evicted(@) \o add]

\* Both windows are looked at before either is charged.  (What has left the caller's
\* window stays in the code's when the tool's is full: it is not counted before it
\* is evicted.)
Charge(c, ok) ==
  LET add == IF ok THEN <<now>> ELSE <<>> IN
  /\ perTool' = [perTool EXCEPT ![ToolOf[c]] = Evicted(@) \o add]
  /\ perCaller' = [perCaller EXCEPT ![CallerOf[c]] = Evicted(@) \o add]

CurrentBindingOf(c) == scope.binding[ToolOf[c]]

BindingOf(c) == call[c].scope.binding[ToolOf[c]]

SlotFree(c) == global < GlobalLimit /\ perBinding[BindingOf(c)] < BindingLimit

\* 6c: charged by the rate, the call may still be refused a slot; a global slot
\* taken for a binding that has none left is given back.
CapsStage(c) ==
  /\ call[c].at = "6c"
  /\ Charge(c, WithinRate(c))
  /\ LET admitted == WithinRate(c) /\ SlotFree(c) IN
     /\ call' = [call EXCEPT ![c].at = IF admitted THEN "6d" ELSE "answer",
                             ![c].holds = admitted,
                             ![c].charged = IF WithinRate(c) THEN now ELSE None]
     /\ global' = IF admitted THEN global + 1 ELSE global
     /\ perBinding' = IF admitted THEN [perBinding EXCEPT ![BindingOf(c)] = @ + 1]
                      ELSE perBinding
  /\ UNCHANGED <<killVars, scope, lens, writeVars>>

\* The end is a day of its own: in force until it is over.
StandingInForce(c) == call[c].time < call[c].scope.standingUntil

ToolRequires(c) == ToolOf[c] \in call[c].scope.approvalRequired

StandsDownTheTool(c) ==
  ToolOf[c] \in Writes /\ (ToolRequires(c) \/ ToolOf[c] \in Elevated) /\ ~StandingInForce(c)

\* The tool's own requirement governs although a standing authorization stands down
\* what the elevated posture forces.
ForcesApproval(c) ==
  /\ ToolOf[c] \in Writes
  /\ ToolRequires(c) \/ (ToolOf[c] \in Elevated /\ ~StandingInForce(c))

\* 6d to 6f: arguments, ceilings, binding grants or guardrails refuse.
CheckRefuses(c) ==
  /\ call[c].at = "6d"
  /\ Goto(c, "answer")
  /\ UNCHANGED <<killVars, scope, lens, limiterVars, writeVars>>

\* 6h: for a write an earlier result may be replayed, or the lookup refuse.
Lookup(c) == {"proceed"} \cup IF ToolOf[c] \in Writes THEN {"answer"} ELSE {}

\* 6g has nothing to say of a read.
ReadStage(c) ==
  /\ call[c].at = "6d" /\ ToolOf[c] \notin Writes
  /\ \E next \in Lookup(c) : Goto(c, next)
  /\ UNCHANGED <<killVars, scope, lens, limiterVars, writeVars>>

\* A write without a token is a plan: 6g calls out for a dry run.
PlanStage(c) ==
  /\ call[c].at = "6d" /\ ToolOf[c] \in Writes /\ call[c].token = None
  /\ Goto(c, "dryRun")
  /\ UNCHANGED <<killVars, scope, lens, limiterVars, writeVars>>

TokenFor(c) ==
  [caller |-> CallerOf[c], tool |-> ToolOf[c], exp |-> call[c].time + TTL,
   required |-> ToolRequires(c),
   consent |-> CASE ToolOf[c] \in Elevated /\ ~StandingInForce(c) -> "none"
                 [] ToolOf[c] \in Elevated /\ StandingInForce(c) -> "standing"
                 [] OTHER -> "unforced"]

\* The dry run is back: an approval is asked for (the dry run too may demand
\* one), or a token is minted.  It may also have thrown: a denial.
DryRunReturns(c) ==
  /\ call[c].at = "dryRun"
  /\ Goto(c, "answer")
  /\ \/ requests' = requests \cup {TokenFor(c)} /\ UNCHANGED tokens
     \/ ~ForcesApproval(c) /\ tokens' = tokens \cup {TokenFor(c)} /\ UNCHANGED requests
     \/ UNCHANGED writeVars
  /\ UNCHANGED <<killVars, scope, lens, limiterVars>>

\* A presented token is held against the call and the call's own time; whether
\* an approval is forced is not asked again.
ConfirmStage(c) ==
  /\ call[c].at = "6d" /\ ToolOf[c] \in Writes /\ call[c].token # None
  /\ \E next \in IF call[c].time < call[c].token.exp THEN Lookup(c) ELSE {"answer"} :
       Goto(c, next)
  /\ UNCHANGED <<killVars, scope, lens, limiterVars, writeVars>>

\* The binding is invoked, under the grant minted for this call.
Execute(c) ==
  /\ call[c].at = "proceed"
  /\ Goto(c, "answer")
  /\ UNCHANGED <<killVars, scope, lens, limiterVars, writeVars>>

\* A release without a slot taken is floored at zero.
Down(n) == IF n = 0 THEN 0 ELSE n - 1

\* The answer is recorded, or recording throws: either way, whatever 6c admitted
\* gives its slots back, under the binding of the call's own snapshot.
Answer(c) ==
  /\ call[c].at = "answer"
  /\ call' = [call EXCEPT ![c] = [NoCall EXCEPT !.at = "done", !.charged = call[c].charged]]
  /\ global' = IF call[c].holds THEN Down(global) ELSE global
  /\ perBinding' = IF call[c].holds THEN [perBinding EXCEPT ![BindingOf(c)] = Down(@)]
                   ELSE perBinding
  /\ UNCHANGED <<killVars, scope, lens, perTool, perCaller, writeVars>>

-----------------------------------------------------------------------------
(* around the chain *)

\* A reload, a group change or a probe run: the next request resolves otherwise.
Rescope ==
  /\ \E i \in 2..Len(Scopes) : scope = Scopes[i - 1] /\ scope' = Scopes[i]
  /\ UNCHANGED <<killVars, lens, call, limiterVars, writeVars>>

\* forge.activate: whatever is named, a role, a package or ids, is cut down to (or
\* refused outside) what the session sees, and becomes its lens.
Activate(u) ==
  /\ up
  /\ \E ids \in SUBSET Visible(u) \ {{}} : ids # lens[u] /\ lens' = [lens EXCEPT ![u] = ids]
  /\ UNCHANGED <<killVars, scope, call, limiterVars, writeVars>>

\* A human approves in the request's window, and the requester collects a token
\* that lives as long as the window (Approvals).
Approve ==
  /\ \E r \in requests :
       /\ now < r.exp
       /\ tokens' = tokens \cup {[r EXCEPT !.consent = "approval"]}
  /\ UNCHANGED <<killVars, scope, lens, call, limiterVars, requests>>

\* The process ends: its sessions, calls, windows and slots with it.
Shutdown ==
  /\ Stop
  /\ call' = [c \in Calls |-> IF call[c].at = "idle" THEN NoCall
                              ELSE [NoCall EXCEPT !.at = "done"]]
  /\ lens' = [u \in Callers |-> Tools]
  /\ perTool' = [t \in Tools |-> <<>>] /\ perCaller' = [u \in Callers |-> <<>>]
  /\ perBinding' = [b \in Bindings |-> 0] /\ global' = 0
  /\ UNCHANGED <<scope, writeVars>>

Init ==
  /\ KillInit
  /\ scope = Scopes[1] /\ lens = [u \in Callers |-> Tools]
  /\ call = [c \in Calls |-> NoCall]
  /\ perTool = [t \in Tools |-> <<>>] /\ perCaller = [u \in Callers |-> <<>>]
  /\ perBinding = [b \in Bindings |-> 0] /\ global = 0
  /\ tokens = {} /\ requests = {}

Walk(c) ==
  \/ \E token \in tokens \cup {None} : Arrive(c, token)
  \/ EnabledStage(c) \/ CapsStage(c) \/ CheckRefuses(c) \/ ReadStage(c)
  \/ PlanStage(c) \/ DryRunReturns(c) \/ ConfirmStage(c) \/ Execute(c) \/ Answer(c)

Around == Rescope \/ (\E u \in Callers : Activate(u)) \/ Approve

Flags ==
  /\ (\E k \in Kills : Kill(k)) \/ (\E ok \in BOOLEAN : Refresh(ok) \/ Start(ok)) \/ Tick
  /\ UNCHANGED chainVars

Next == (\E c \in Calls : Walk(c)) \/ Around \/ Flags \/ Shutdown

Spec == Init /\ [][Next]_vars
-----------------------------------------------------------------------------
TypeOK ==
  /\ KillTypeOK
  /\ scope \in Range(Scopes) /\ lens \in [Callers -> SUBSET Tools] /\ call \in [Calls -> CallTypes]
  /\ perTool \in [Tools -> Seq(Nat)] /\ perCaller \in [Callers -> Seq(Nat)]
  /\ perBinding \in [Bindings -> 0..BindingLimit] /\ global \in 0..GlobalLimit
  /\ tokens \subseteq Tokens /\ requests \subseteq Tokens

Holding == {c \in Calls : call[c].holds}

\* The slots taken are those of the admitted calls that are not answered yet, in
\* all and per binding, whichever way a call ends and although its tool's binding
\* may change under it: no slot leaks, none is given back twice, and no more are
\* taken than there are.
SlotsAreHeld ==
  /\ global = Cardinality(Holding) /\ global <= GlobalLimit
  /\ \A b \in Bindings : perBinding[b] = Cardinality({c \in Holding : BindingOf(c) = b})

Charged == {c \in Calls : call[c].charged # None}

\* In no stretch of time as long as the window are more calls of a tool, or of a
\* caller, let through the rate limiter than its limit; and only those take room
\* in a window: a call refused for one limit does not use up the other.
RateHolds ==
  /\ \A c \in Charged :
       LET near == {d \in Charged :
                      call[d].charged - call[c].charged \in 0..Window - 1}
       IN /\ Cardinality({d \in near : ToolOf[d] = ToolOf[c]}) <= ToolLimit
          /\ Cardinality({d \in near : CallerOf[d] = CallerOf[c]}) <= CallerLimit
  /\ \A t \in Tools : Len(perTool[t]) <= Cardinality({c \in Charged : ToolOf[c] = t})
  /\ \A u \in Callers : Len(perCaller[u]) <= Cardinality({c \in Charged : CallerOf[c] = u})

\* Whatever reaches a binding passed all six predicates as the context had them,
\* although each of two stages lets through what the other one refuses.
ProceedsInScope ==
  \A c \in Calls : call[c].at = "proceed" =>
    \A i \in DOMAIN Predicates :
      Predicates[i] # "NotKillSwitched" =>
        Admits(Predicates[i], ToolOf[c], call[c].scope, call[c].lens, call[c].time)

\* A kill that the process had read when a call arrived, by any poll, stops the
\* call, whatever polls failed since.
ReadKillsBind ==
  \A c \in Calls : call[c].at = "proceed" =>
    Hits(call[c].warned, ToolOf[c], call[c].time) = {}

\* A write is executed only on a token of its own caller and tool that had not
\* expired when the call arrived; one whose tool required a human's approval when
\* it was planned only where a human approved; an elevated one only where a human
\* approved, or where a standing authorization was in force when it was planned.
WritesAreConsented ==
  \A c \in Calls : call[c].at = "proceed" /\ ToolOf[c] \in Writes =>
    /\ call[c].token \in tokens /\ call[c].time < call[c].token.exp
    /\ call[c].token.caller = CallerOf[c] /\ call[c].token.tool = ToolOf[c]
    /\ call[c].token.required => call[c].token.consent = "approval"
    /\ ToolOf[c] \in Elevated => call[c].token.consent \in {"standing", "approval"}

=============================================================================
