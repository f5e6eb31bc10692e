--------------------------- MODULE PolicyChainProofs ---------------------------
(***************************************************************************)
(* Theorems about PolicyChain and the KillSwitch it is composed with, for  *)
(* every set of calls, tools and kills, every sequence of scopes, every    *)
(* limit and every number of the processes' failures and repetitions.      *)
(***************************************************************************)
EXTENDS PolicyChain, FiniteSetTheorems, TLAPS

-----------------------------------------------------------------------------
(***************************************************************************)
(* The kill switches on their own.                                         *)
(***************************************************************************)

\* What the destruction of the value waits for.
Behind == Found \subseteq standing \cap recorded

\* The value leaves the vault by a revocation that has read it, and can be kept
\* out by a put that has: so what they hold in hand is bound like the vault is.
KillInv ==
  /\ KillTypeOK
  /\ DeadSecretIsBehindKills
  /\ revocation.at = "killing" => Found \ revocation.left \subseteq standing \cap recorded
  /\ revocation.at = "writing" => Behind
  /\ \A read \in putting : Doomed \notin read => Behind

LEMMA KillInitInv == KillInit => KillInv
<1> SUFFICES ASSUME KillInit PROVE KillInv
  OBVIOUS
<1>1. revocation \in Revocations
  BY DEF KillInit, NotRevoking, Revocations
<1>2. now \in 0..MaxTime
  BY KillAssumption DEF KillInit
<1>3. KillTypeOK
  BY <1>1, <1>2 DEF KillInit, KillTypeOK, NotRevoking
<1> QED BY <1>3 DEF KillInit, KillInv, DeadSecretIsBehindKills, NotRevoking, Secrets

LEMMA KillTypeStep == KillTypeOK /\ [KillNext]_killVars => KillTypeOK'
<1> SUFFICES ASSUME KillTypeOK, [KillNext]_killVars PROVE KillTypeOK'
  OBVIOUS
<1> USE DEF KillTypeOK, flagVars, gatewayVars, secretVars
<1>1. ASSUME NEW k \in Kills, Kill(k) \/ RecordKill(k) PROVE KillTypeOK'
  BY <1>1 DEF Kill, RecordKill
<1>2. ASSUME NEW k \in Kills, KillDependent(k) PROVE KillTypeOK'
  BY <1>2, KillAssumption DEF KillDependent, Revocations
<1>3. ASSUME NEW k \in Kills, RecordDependent(k) PROVE KillTypeOK'
  <2>1. k \in standing
    BY <1>3 DEF RecordDependent
  <2> QED BY <1>3, <2>1 DEF RecordDependent, Revocations
<1>4. CASE StartRevocation
  <2>1. revocation' = [at |-> "killing", left |-> Found, hand |-> {}, read |-> {}]
    BY <1>4 DEF StartRevocation, NotRevoking
  <2>2. revocation' \in Revocations
    BY <2>1 DEF Revocations
  <2>3. revocation'.hand = {}
    BY <2>1
  <2> QED BY <1>4, <2>2, <2>3 DEF StartRevocation
<1>5. CASE ReadVault
  <2>1. revocation' = [at |-> "writing", left |-> {}, hand |-> {}, read |-> vault]
    BY <1>5 DEF ReadVault, NotRevoking
  <2>2. revocation' \in Revocations
    BY <2>1 DEF Revocations
  <2>3. revocation'.hand = {}
    BY <2>1
  <2> QED BY <1>5, <2>2, <2>3 DEF ReadVault
<1>6. CASE Destroy \/ Abandon
  <2>1. revocation' \in Revocations
    BY <1>6 DEF Destroy, Abandon, NotRevoking, Revocations
  <2>2. vault' \subseteq Secrets
    BY <1>6 DEF Destroy, Abandon, Revocations
  <2>3. revocation'.hand = {}
    BY <1>6 DEF Destroy, Abandon, NotRevoking
  <2> QED BY <1>6, <2>1, <2>2, <2>3 DEF Destroy, Abandon
<1>7. CASE ReadForPut
  BY <1>7 DEF ReadForPut
<1>8. CASE Put
  BY <1>8 DEF Put, Secrets
<1>9. CASE Gateway
  BY <1>9 DEF Gateway, Refresh, Start, Stop, Polled
<1>10. CASE Tick
  BY <1>10, KillAssumption DEF Tick
<1>11. CASE UNCHANGED killVars
  BY <1>11 DEF killVars
<1> QED BY <1>1, <1>2, <1>3, <1>4, <1>5, <1>6, <1>7, <1>8, <1>9, <1>10, <1>11 DEF KillNext, Operator

\* The state of the kill-switch machinery is what its types say.
THEOREM KillTypeCorrect == KillSpec => []KillTypeOK
<1>1. KillInit => KillTypeOK
  BY KillInitInv DEF KillInv
<1> QED BY <1>1, KillTypeStep, PTL DEF KillSpec

\* No step takes a kill or its row back.
LEMMA BehindStays ==
  ASSUME KillTypeOK, [KillNext]_killVars
  PROVE  standing \subseteq standing' /\ recorded \subseteq recorded' /\ (Behind => Behind')
<1>1. standing \subseteq standing' /\ recorded \subseteq recorded'
  BY DEF KillNext, Operator, Gateway, Kill, RecordKill, StartRevocation, KillDependent,
     RecordDependent, ReadVault, Destroy, Abandon, ReadForPut, Put, Refresh, Start, Stop, Tick,
     flagVars, gatewayVars, secretVars, killVars
<1> QED BY <1>1 DEF Behind

LEMMA KillInvStep == KillInv /\ [KillNext]_killVars => KillInv'
<1> SUFFICES ASSUME KillInv, [KillNext]_killVars PROVE KillInv'
  OBVIOUS
<1>1. KillTypeOK'
  BY KillTypeStep DEF KillInv
<1>2. standing \subseteq standing' /\ recorded \subseteq recorded' /\ (Behind => Behind')
  BY BehindStays DEF KillInv
<1>3. CASE UNCHANGED secretVars
  BY <1>1, <1>2, <1>3 DEF KillInv, DeadSecretIsBehindKills, Behind, secretVars
<1>4. CASE StartRevocation
  BY <1>1, <1>2, <1>4 DEF StartRevocation, KillInv, DeadSecretIsBehindKills, Behind, NotRevoking
<1>5. ASSUME NEW k \in Kills, KillDependent(k) PROVE KillInv'
  BY <1>1, <1>2, <1>5 DEF KillDependent, KillInv, KillTypeOK, Revocations,
     DeadSecretIsBehindKills, Behind
<1>6. ASSUME NEW k \in Kills, RecordDependent(k) PROVE KillInv'
  <2>1. k \in standing' /\ k \in recorded'
    BY <1>6 DEF RecordDependent, KillInv, KillTypeOK
  <2> QED BY <1>1, <1>2, <1>6, <2>1 DEF RecordDependent, KillInv, KillTypeOK, Revocations,
     DeadSecretIsBehindKills, Behind
<1>7. CASE ReadVault
  <2>1. Behind
    BY <1>7 DEF ReadVault, Destroyable, KillInv, Behind
  <2> QED BY <1>1, <1>2, <1>7, <2>1 DEF ReadVault, KillInv, DeadSecretIsBehindKills, Behind,
     NotRevoking
<1>8. CASE Destroy
  <2>1. Behind
    BY <1>8 DEF Destroy, KillInv
  <2> QED BY <1>1, <1>2, <1>8, <2>1 DEF Destroy, KillInv, DeadSecretIsBehindKills, Behind,
     NotRevoking
<1>9. CASE Abandon
  BY <1>1, <1>2, <1>9 DEF Abandon, KillInv, DeadSecretIsBehindKills, Behind, NotRevoking
<1>10. CASE ReadForPut
  BY <1>1, <1>2, <1>10 DEF ReadForPut, KillInv, DeadSecretIsBehindKills, Behind
<1>11. CASE Put
  BY <1>1, <1>2, <1>11 DEF Put, KillInv, DeadSecretIsBehindKills, Behind
<1>12. (\E k \in Kills : Kill(k) \/ RecordKill(k)) \/ Gateway \/ Tick \/ UNCHANGED killVars
         => UNCHANGED secretVars
  BY DEF Kill, RecordKill, Gateway, Refresh, Start, Stop, Tick, killVars, gatewayVars, secretVars
<1> QED BY <1>3, <1>4, <1>5, <1>6, <1>7, <1>8, <1>9, <1>10, <1>11, <1>12 DEF KillNext, Operator

\* A destroyed secret leaves nothing that the scan finds to depend on it without a
\* standing kill and its row, for any number of dependents, of revocations abandoned
\* and run again, and of other processes' writes to the vault in between.
THEOREM DestroyedAfterKills == KillSpec => []DeadSecretIsBehindKills
<1>1. KillInv => DeadSecretIsBehindKills
  BY DEF KillInv
<1> QED BY KillInitInv, KillInvStep, <1>1, PTL DEF KillSpec

-----------------------------------------------------------------------------
(***************************************************************************)
(* The chain and the kill switches together: whatever the chain does, the  *)
(* flags move as KillSwitch has them move.                                 *)
(***************************************************************************)

\* Every step of the composition is a step of the kill switches, or leaves them.
LEMMA KillPart == [Next]_vars => [KillNext]_killVars
<1> SUFFICES ASSUME [Next]_vars PROVE [KillNext]_killVars
  OBVIOUS
<1>1. ASSUME NEW c \in Calls, Walk(c) PROVE UNCHANGED killVars
  BY <1>1 DEF Walk, Arrive, EnabledStage, CapsStage, CheckRefuses, ReadStage, PlanStage,
     DryRunReturns, ConfirmStage, Execute, Answer
<1>2. CASE Around
  BY <1>2 DEF Around, Rescope, Activate, Approve
<1>3. CASE Flags
  BY <1>3 DEF Flags, KillNext, Operator, Gateway
<1>4. CASE Shutdown
  BY <1>4 DEF Shutdown, KillNext, Gateway
<1>5. CASE UNCHANGED vars
  BY <1>5 DEF vars
<1> QED BY <1>1, <1>2, <1>3, <1>4, <1>5 DEF Next

\* The chain does nothing to the kill switches that their specification does not
\* allow (the flags are read by the chain, and written by nobody it calls).
THEOREM ChainKeepsKillSpec == Spec => KillSpec
<1>1. Init => KillInit
  BY DEF Init
<1> QED BY <1>1, KillPart, PTL DEF Spec, KillSpec

-----------------------------------------------------------------------------
(* types, of what the theorems below read *)

ChainType ==
  /\ KillTypeOK
  /\ scope \in Range(Scopes) /\ lens \in [Callers -> SUBSET Tools]
  /\ call \in [Calls -> CallTypes]
  /\ tokens \subseteq Tokens /\ requests \subseteq Tokens

Stages == {"idle", "6b", "6c", "6d", "dryRun", "proceed", "answer", "done"}

LEMMA ScopeIsScope == \A s \in Range(Scopes) : s \in Scope
  BY ChainAssumption DEF Range

LEMMA TimeIsNat == KillTypeOK => now \in Nat
  BY KillAssumption DEF KillTypeOK

LEMMA NoCallType == NoCall \in CallTypes
  BY DEF NoCall, CallTypes

\* A call that goes to another stage changes in nothing else.
LEMMA GotoIs ==
  ASSUME call \in [Calls -> CallTypes], NEW c \in Calls, NEW stage \in Stages, Goto(c, stage)
  PROVE  /\ call' \in [Calls -> CallTypes]
         /\ call'[c].at = stage
         /\ \A d \in Calls \ {c} : call'[d] = call[d]
         /\ \A d \in Calls :
              /\ call'[d].scope = call[d].scope /\ call'[d].lens = call[d].lens
              /\ call'[d].time = call[d].time /\ call'[d].token = call[d].token
              /\ call'[d].holds = call[d].holds /\ call'[d].warned = call[d].warned
<1> DEFINE r == [call[c] EXCEPT !.at = stage]
<1>1. r \in CallTypes
  BY DEF CallTypes, Stages
<1>2. call' = [call EXCEPT ![c] = r]
  BY DEF Goto
<1>3. r.at = stage /\ r.scope = call[c].scope /\ r.lens = call[c].lens /\ r.time = call[c].time
        /\ r.token = call[c].token /\ r.holds = call[c].holds /\ r.warned = call[c].warned
  BY DEF CallTypes
<1> HIDE DEF r
<1> QED BY <1>1, <1>2, <1>3

LEMMA TokenForType ==
  ASSUME call \in [Calls -> CallTypes], NEW c \in Calls
  PROVE  TokenFor(c) \in Tokens
<1>1. call[c].time + TTL \in Nat
  BY ChainAssumption DEF CallTypes
<1>2. CallerOf[c] \in Callers /\ ToolOf[c] \in Tools
  BY ChainAssumption
<1>3. ToolRequires(c) \in BOOLEAN
  BY DEF ToolRequires
<1> QED BY <1>1, <1>2, <1>3 DEF TokenFor, Tokens, Consents

\* What Arrive makes of a call.
Context(c, token) ==
  [NoCall EXCEPT !.scope = scope, !.lens = lens[CallerOf[c]], !.time = now,
                 !.token = token, !.warned = known]

Arrived(c, token) ==
  [Context(c, token) EXCEPT
     !.at = IF Owns("6a", Refusal(c, Context(c, token))) \/ ~scope.active THEN "answer" ELSE "6b"]

LEMMA ArrivedIs ==
  ASSUME ChainType, NEW c \in Calls, NEW token \in Tokens \cup {None}, Arrive(c, token)
  PROVE  /\ call' = [call EXCEPT ![c] = Arrived(c, token)]
         /\ Arrived(c, token) \in CallTypes
         /\ Arrived(c, token).at \in {"6b", "answer"}
         /\ Arrived(c, token).scope = scope /\ Arrived(c, token).lens = lens[CallerOf[c]]
         /\ Arrived(c, token).time = now /\ Arrived(c, token).token = token
         /\ Arrived(c, token).holds = FALSE /\ Arrived(c, token).warned = known
         /\ Arrived(c, token).charged = None
<1>1. call' = [call EXCEPT ![c] = Arrived(c, token)]
  BY DEF Arrive, Arrived, Context
<1> DEFINE ctx == Context(c, token)
           at == IF Owns("6a", Refusal(c, ctx)) \/ ~scope.active THEN "answer" ELSE "6b"
<1>2. at \in {"6b", "answer"}
  OBVIOUS
<1>3. lens[CallerOf[c]] \in SUBSET Tools /\ now \in Nat /\ known \in SUBSET Kills
        /\ scope \in Range(Scopes)
  BY ChainAssumption, TimeIsNat DEF ChainType, KillTypeOK
<1>4. ctx \in CallTypes
  BY <1>3, NoCallType DEF Context, CallTypes
<1>5. /\ ctx.scope = scope /\ ctx.lens = lens[CallerOf[c]] /\ ctx.time = now /\ ctx.token = token
      /\ ctx.holds = FALSE /\ ctx.warned = known /\ ctx.charged = None
  BY DEF Context, NoCall
<1>6. Arrived(c, token) = [ctx EXCEPT !.at = at]
  BY DEF Arrived
<1> HIDE DEF ctx, at
<1> QED BY <1>1, <1>2, <1>4, <1>5, <1>6 DEF CallTypes

\* What 6c makes of a call.
LEMMA CapsIs ==
  ASSUME ChainType, NEW c \in Calls, CapsStage(c)
  PROVE  /\ call' \in [Calls -> CallTypes]
         /\ call'[c].holds = (WithinRate(c) /\ SlotFree(c))
         /\ call'[c].at = IF WithinRate(c) /\ SlotFree(c) THEN "6d" ELSE "answer"
         /\ \A d \in Calls \ {c} : call'[d] = call[d]
         /\ call'[c].scope = call[c].scope /\ call'[c].lens = call[c].lens
         /\ call'[c].time = call[c].time /\ call'[c].token = call[c].token
         /\ call'[c].warned = call[c].warned
<1> DEFINE ok == WithinRate(c) /\ SlotFree(c)
           charged == IF WithinRate(c) THEN now ELSE None
           at == IF ok THEN "6d" ELSE "answer"
           r == [call[c] EXCEPT !.at = at, !.holds = ok, !.charged = charged]
<1>1. call' = [call EXCEPT ![c].at = at, ![c].holds = ok, ![c].charged = charged]
  BY DEF CapsStage
<1>2. charged \in Nat \cup {None} /\ ok \in BOOLEAN /\ at \in {"6d", "answer"}
  BY TimeIsNat DEF ChainType, WithinRate, SlotFree
<1>3. call[c] \in CallTypes /\ call \in [Calls -> CallTypes]
  BY DEF ChainType
<1> HIDE DEF ok, charged, at
<1>4. call' = [call EXCEPT ![c] = r]
  BY <1>1, <1>3
<1>5. r \in CallTypes
  BY <1>2, <1>3 DEF CallTypes
<1>6. /\ r.holds = ok /\ r.at = at /\ r.scope = call[c].scope /\ r.lens = call[c].lens
      /\ r.time = call[c].time /\ r.token = call[c].token /\ r.warned = call[c].warned
  BY <1>3 DEF CallTypes
<1> HIDE DEF r
<1> QED BY <1>3, <1>4, <1>5, <1>6 DEF ok, at

\* What an answer, or the end of the process, leaves of a call.
Finished(c) == [NoCall EXCEPT !.at = "done", !.charged = call[c].charged]

LEMMA AnswerIs ==
  ASSUME call \in [Calls -> CallTypes], NEW c \in Calls, Answer(c)
  PROVE  /\ call' \in [Calls -> CallTypes]
         /\ call'[c].at = "done" /\ call'[c].holds = FALSE /\ call'[c].warned = {}
         /\ call'[c].token = None
         /\ \A d \in Calls \ {c} : call'[d] = call[d]
<1>1. call' = [call EXCEPT ![c] = Finished(c)]
  BY DEF Answer, Finished
<1>2. Finished(c) \in CallTypes
  BY NoCallType DEF Finished, CallTypes
<1>3. /\ Finished(c).at = "done" /\ Finished(c).holds = FALSE /\ Finished(c).warned = {}
      /\ Finished(c).token = None
  BY DEF Finished, NoCall
<1> QED BY <1>1, <1>2, <1>3

LEMMA ShutdownIs ==
  ASSUME Shutdown
  PROVE  /\ call' \in [Calls -> CallTypes]
         /\ \A c \in Calls : /\ call'[c].at \in {"idle", "done"} /\ call'[c].holds = FALSE
                             /\ call'[c].warned = {} /\ call'[c].token = None
<1>1. [NoCall EXCEPT !.at = "done"] \in CallTypes
  BY NoCallType DEF CallTypes
<1>2. /\ NoCall.at = "idle" /\ NoCall.holds = FALSE /\ NoCall.warned = {} /\ NoCall.token = None
      /\ [NoCall EXCEPT !.at = "done"].at = "done" /\ [NoCall EXCEPT !.at = "done"].holds = FALSE
      /\ [NoCall EXCEPT !.at = "done"].warned = {} /\ [NoCall EXCEPT !.at = "done"].token = None
  BY DEF NoCall
<1>3. \A c \in Calls : call'[c] \in {NoCall, [NoCall EXCEPT !.at = "done"]}
  BY DEF Shutdown
<1>4. call' \in [Calls -> CallTypes]
  BY <1>1, NoCallType DEF Shutdown
<1> QED BY <1>2, <1>3, <1>4

LEMMA ChainTypeInit == Init => ChainType
<1> SUFFICES ASSUME Init PROVE ChainType
  OBVIOUS
<1>1. KillTypeOK
  BY KillInitInv DEF Init, KillInv
<1>2. Scopes[1] \in Range(Scopes)
  BY ChainAssumption DEF Range
<1> QED BY <1>1, <1>2, NoCallType DEF Init, ChainType

\* The steps that take a call to another stage and do nothing else to it.
Moves(c) ==
  EnabledStage(c) \/ CheckRefuses(c) \/ ReadStage(c) \/ PlanStage(c) \/ DryRunReturns(c)
    \/ ConfirmStage(c) \/ Execute(c)

LEMMA MovesGoto ==
  ASSUME NEW c \in Calls, Moves(c)
  PROVE  /\ \E stage \in {"6c", "6d", "dryRun", "proceed", "answer"} : Goto(c, stage)
         /\ UNCHANGED <<killVars, scope, lens, limiterVars>>
  BY DEF Moves, EnabledStage, CheckRefuses, ReadStage, PlanStage, DryRunReturns, ConfirmStage,
     Execute, Lookup

LEMMA MovesIs ==
  ASSUME ChainType, NEW c \in Calls, Moves(c)
  PROVE  /\ call' \in [Calls -> CallTypes]
         /\ call'[c].at \in {"6c", "6d", "dryRun", "proceed", "answer"}
         /\ \A d \in Calls \ {c} : call'[d] = call[d]
         /\ \A d \in Calls :
              /\ call'[d].scope = call[d].scope /\ call'[d].lens = call[d].lens
              /\ call'[d].time = call[d].time /\ call'[d].token = call[d].token
              /\ call'[d].holds = call[d].holds /\ call'[d].warned = call[d].warned
         /\ UNCHANGED <<killVars, scope, lens, limiterVars>>
<1>1. PICK stage \in {"6c", "6d", "dryRun", "proceed", "answer"} : Goto(c, stage)
  BY MovesGoto
<1>2. stage \in Stages /\ call \in [Calls -> CallTypes]
  BY DEF Stages, ChainType
<1> QED BY <1>1, <1>2, GotoIs, MovesGoto

LEMMA ChainTypeStep == ChainType /\ [Next]_vars => ChainType'
<1> SUFFICES ASSUME ChainType, [Next]_vars PROVE ChainType'
  OBVIOUS
<1>1. KillTypeOK'
  BY KillTypeStep, KillPart DEF ChainType
<1>2. ASSUME NEW c \in Calls, NEW token \in tokens \cup {None}, Arrive(c, token) PROVE ChainType'
  <2>1. token \in Tokens \cup {None}
    BY DEF ChainType
  <2>2. call' = [call EXCEPT ![c] = Arrived(c, token)] /\ Arrived(c, token) \in CallTypes
    BY <1>2, <2>1, ArrivedIs
  <2>3. call' \in [Calls -> CallTypes]
    BY <2>2 DEF ChainType
  <2> QED BY <1>1, <1>2, <2>3 DEF Arrive, ChainType, writeVars
<1>3. ASSUME NEW c \in Calls, Moves(c) PROVE ChainType'
  <2>1. tokens' \subseteq Tokens /\ requests' \subseteq Tokens
    BY <1>3, TokenForType DEF ChainType, Moves, EnabledStage, CheckRefuses, ReadStage, PlanStage,
       DryRunReturns, ConfirmStage, Execute, writeVars
  <2> QED BY <1>1, <1>3, <2>1, MovesIs DEF ChainType
<1>4. ASSUME NEW c \in Calls, CapsStage(c) PROVE ChainType'
  BY <1>1, <1>4, CapsIs DEF CapsStage, ChainType, writeVars
<1>5. ASSUME NEW c \in Calls, Answer(c) PROVE ChainType'
  BY <1>1, <1>5, AnswerIs DEF Answer, ChainType, writeVars
<1>6. CASE Rescope
  <2>1. scope' \in Range(Scopes)
    BY <1>6, ChainAssumption DEF Rescope, Range
  <2> QED BY <1>1, <1>6, <2>1 DEF Rescope, ChainType, writeVars
<1>7. ASSUME NEW u \in Callers, Activate(u) PROVE ChainType'
  BY <1>1, <1>7 DEF Activate, Visible, ChainType, writeVars
<1>8. CASE Approve
  BY <1>1, <1>8 DEF Approve, ChainType, Tokens, Consents
<1>9. CASE Flags
  BY <1>1, <1>9 DEF Flags, chainVars, ChainType, writeVars
<1>10. CASE Shutdown
  BY <1>1, <1>10, ShutdownIs DEF Shutdown, ChainType, writeVars
<1>11. CASE UNCHANGED vars
  BY <1>1, <1>11 DEF vars, chainVars, ChainType, writeVars
<1> QED BY <1>2, <1>3, <1>4, <1>5, <1>6, <1>7, <1>8, <1>9, <1>10, <1>11 DEF Next, Walk, Moves, Around

-----------------------------------------------------------------------------
(***************************************************************************)
(* Two stages, one decision.  6a refuses by the first four predicates and  *)
(* lets the others pass; 6b resolves again and refuses by the last two.    *)
(* The first four read nothing but what the call arrived with, so they     *)
(* still hold at 6b, and what 6b lets pass has all six.                    *)
(***************************************************************************)

\* The first predicate that fails, and none before it.
LEMMA RefusalIs ==
  ASSUME NEW c, NEW ctx
  PROVE  LET i == Refusal(c, ctx)
             admits(j) == Admits(Predicates[j], ToolOf[c], ctx.scope, ctx.lens, ctx.time)
         IN /\ i \in 0..6
            /\ i = 0 => \A j \in 1..6 : admits(j)
            /\ i # 0 => ~admits(i) /\ \A j \in 1..i - 1 : admits(j)
<1> DEFINE admits(j) == Admits(Predicates[j], ToolOf[c], ctx.scope, ctx.lens, ctx.time)
           fails == {j \in 1..6 : ~admits(j)}
           i == Refusal(c, ctx)
<1>1. Len(Predicates) = 6
  BY DEF Predicates
<1>2. i = IF fails # {} THEN Min(fails) ELSE 0
  BY <1>1 DEF Refusal, SelectInSeq
<1> HIDE DEF admits
<1>3. fails # {} => Min(fails) \in fails /\ \A j \in fails : Min(fails) <= j
  <2> SUFFICES ASSUME fails # {} PROVE \E x \in fails : \A j \in fails : x <= j
    BY DEF Min
  <2> QED BY SMT
<1> HIDE DEF i
<1> QED BY <1>2, <1>3 DEF admits, i

\* What 6a has made sure of.
FirstFour(s, ids, tool) ==
  tool \in s.deployed /\ tool \in s.granted /\ s.active /\ tool \in s.authorized /\ tool \in ids

\* What 6b adds.
LastTwo(c) ==
  ToolOf[c] \in call[c].scope.enabled /\ Hits(call[c].warned, ToolOf[c], call[c].time) = {}

\* What a process has read is in its cache, and a process that is not up has read
\* nothing.
CacheInv == known \subseteq cache /\ (~up => known = {})

ScopeInv ==
  /\ ChainType /\ CacheInv
  /\ \A c \in Calls :
       /\ call[c].warned \subseteq known
       /\ call[c].at \in {"6b", "6c", "6d", "dryRun", "proceed"} =>
            FirstFour(call[c].scope, call[c].lens, ToolOf[c])
       /\ call[c].at \in {"6c", "6d", "dryRun", "proceed"} => LastTwo(c)

LEMMA SixALetsPass ==
  ASSUME NEW c, NEW ctx, ~Owns("6a", Refusal(c, ctx))
  PROVE  FirstFour(ctx.scope, ctx.lens, ToolOf[c])
<1> DEFINE i == Refusal(c, ctx)
           admits(j) == Admits(Predicates[j], ToolOf[c], ctx.scope, ctx.lens, ctx.time)
<1>1. i \in 0..6 /\ (i = 0 => \A j \in 1..6 : admits(j))
        /\ (i # 0 => ~admits(i) /\ \A j \in 1..i - 1 : admits(j))
  BY RefusalIs
<1> HIDE DEF i
<1>2. i \notin {1, 2, 3, 4}
  BY DEF Owns, Predicates, i
<1> HIDE DEF admits
<1>3. admits(1) /\ admits(2) /\ admits(3) /\ admits(4)
  BY <1>1, <1>2
<1> USE DEF admits
<1> QED BY <1>3 DEF Admits, Predicates, FirstFour

LEMMA SixBLetsPass ==
  ASSUME NEW c, NEW ctx, FirstFour(ctx.scope, ctx.lens, ToolOf[c]), ~Owns("6b", Refusal(c, ctx))
  PROVE  ToolOf[c] \in ctx.scope.enabled /\ Hits(cache, ToolOf[c], ctx.time) = {}
<1> DEFINE i == Refusal(c, ctx)
           admits(j) == Admits(Predicates[j], ToolOf[c], ctx.scope, ctx.lens, ctx.time)
<1>1. i \in 0..6 /\ (i = 0 => \A j \in 1..6 : admits(j)) /\ (i # 0 => ~admits(i))
  BY RefusalIs
<1>2. admits(1) /\ admits(2) /\ admits(3) /\ admits(4)
  BY DEF Admits, Predicates, FirstFour
<1> HIDE DEF i
<1>3. i \notin {5, 6}
  BY DEF Owns, Predicates, i
<1> HIDE DEF admits
<1>4. admits(5) /\ admits(6)
  BY <1>1, <1>2, <1>3
<1> USE DEF admits
<1> QED BY <1>4 DEF Admits, Predicates

LEMMA FewerHits ==
  ASSUME NEW few, NEW many, few \subseteq many, NEW tool, NEW time, Hits(many, tool, time) = {}
  PROVE  Hits(few, tool, time) = {}
  BY DEF Hits

LEMMA ScopeInvInit == Init => ScopeInv
  BY ChainTypeInit DEF Init, KillInit, NoCall, ScopeInv, CacheInv

\* A cache that a failing poll leaves alone holds all that was ever read.
LEMMA CacheKeepsKnown ==
  ASSUME ChainType, CacheInv, [Next]_vars
  PROVE  CacheInv' /\ (known \subseteq known' \/ Shutdown)
<1> USE DEF CacheInv
<1>1. known \subseteq standing /\ cache \subseteq standing
  BY DEF ChainType, KillTypeOK
<1>2. CASE UNCHANGED killVars
  BY <1>2 DEF killVars, gatewayVars
<1>3. CASE Flags
  <2>1. ASSUME NEW ok \in BOOLEAN, Start(ok) PROVE known \subseteq known'
    BY <2>1 DEF Start
  <2> QED BY <1>1, <1>3, <2>1 DEF Flags, Kill, Refresh, Start, Polled, Tick, gatewayVars
<1>4. CASE Shutdown
  BY <1>4 DEF Shutdown, Stop
<1>5. (\E c \in Calls : Walk(c)) \/ Around \/ UNCHANGED vars => UNCHANGED killVars
  BY DEF vars, Walk, Arrive, EnabledStage, CapsStage, CheckRefuses, ReadStage, PlanStage,
     DryRunReturns, ConfirmStage, Execute, Answer, Around, Rescope, Activate, Approve
<1> QED BY <1>2, <1>3, <1>4, <1>5 DEF Next

LEMMA ScopeInvStep == ScopeInv /\ [Next]_vars => ScopeInv'
<1> SUFFICES ASSUME ScopeInv, [Next]_vars PROVE ScopeInv'
  OBVIOUS
<1>1. ChainType /\ ChainType' /\ CacheInv' /\ (known \subseteq known' \/ Shutdown)
  BY ChainTypeStep, CacheKeepsKnown DEF ScopeInv
<1>2. CASE UNCHANGED call /\ known \subseteq known'
  BY <1>1, <1>2 DEF ScopeInv, LastTwo
<1>3. ASSUME NEW c \in Calls, NEW token \in tokens \cup {None}, Arrive(c, token) PROVE ScopeInv'
  <2>1. token \in Tokens \cup {None}
    BY <1>1 DEF ChainType
  <2>2. known' = known
    BY <1>3 DEF Arrive, killVars, gatewayVars
  <2>3. /\ call' = [call EXCEPT ![c] = Arrived(c, token)]
        /\ Arrived(c, token).at \in {"6b", "answer"} /\ Arrived(c, token).warned = known
    BY <1>1, <1>3, <2>1, ArrivedIs
  <2>4. Arrived(c, token).at = "6b" =>
          FirstFour(Arrived(c, token).scope, Arrived(c, token).lens, ToolOf[c])
    <3>1. Arrived(c, token).at = "6b" => ~Owns("6a", Refusal(c, Context(c, token)))
      BY DEF Arrived, Context, NoCall
    <3>2. /\ Context(c, token).scope = Arrived(c, token).scope
          /\ Context(c, token).lens = Arrived(c, token).lens
      BY DEF Arrived, Context, NoCall
    <3> QED BY <3>1, <3>2, SixALetsPass
  <2> QED BY <1>1, <2>2, <2>3, <2>4 DEF ScopeInv, ChainType, LastTwo
<1>4. ASSUME NEW c \in Calls, Moves(c) PROVE ScopeInv'
  <2>1. /\ known' = known /\ cache' = cache
        /\ call'[c].at \in {"6c", "6d", "dryRun", "proceed", "answer"}
        /\ \A d \in Calls \ {c} : call'[d] = call[d]
        /\ \A d \in Calls :
             /\ call'[d].scope = call[d].scope /\ call'[d].lens = call[d].lens
             /\ call'[d].time = call[d].time /\ call'[d].warned = call[d].warned
    BY <1>1, <1>4, MovesIs DEF killVars, gatewayVars
  <2>2. CASE call[c].at # "6b" \/ call'[c].at = "answer"
    <3>1. call'[c].at # "answer" => call[c].at \in {"6d", "dryRun", "proceed"}
      BY <1>4, <2>2 DEF Moves, EnabledStage, CheckRefuses, ReadStage, PlanStage, DryRunReturns,
         ConfirmStage, Execute
    <3> QED BY <1>1, <2>1, <3>1 DEF ScopeInv, LastTwo
  <2>3. CASE call[c].at = "6b" /\ call'[c].at # "answer"
    <3>1. ~Owns("6b", Refusal(c, call[c]))
      BY <1>1, <1>4, <2>3 DEF Moves, EnabledStage, CheckRefuses, ReadStage, PlanStage,
         DryRunReturns, ConfirmStage, Execute, Goto, ChainType, CallTypes
    <3>2. FirstFour(call[c].scope, call[c].lens, ToolOf[c])
      BY <2>3 DEF ScopeInv
    <3>3. ToolOf[c] \in call[c].scope.enabled /\ Hits(cache, ToolOf[c], call[c].time) = {}
      BY <3>1, <3>2, SixBLetsPass
    <3>4. LastTwo(c)
      BY <3>3, FewerHits DEF ScopeInv, CacheInv, LastTwo
    <3> QED BY <1>1, <2>1, <3>2, <3>4 DEF ScopeInv, LastTwo
  <2> QED BY <2>2, <2>3
<1>5. ASSUME NEW c \in Calls, CapsStage(c) PROVE ScopeInv'
  <2>1. known' = known /\ call[c].at = "6c"
    BY <1>5 DEF CapsStage, killVars, gatewayVars
  <2>2. /\ call'[c].at \in {"6d", "answer"} /\ \A d \in Calls \ {c} : call'[d] = call[d]
        /\ call'[c].scope = call[c].scope /\ call'[c].lens = call[c].lens
        /\ call'[c].time = call[c].time /\ call'[c].warned = call[c].warned
    BY <1>1, <1>5, CapsIs
  <2> QED BY <1>1, <2>1, <2>2 DEF ScopeInv, LastTwo
<1>6. ASSUME NEW c \in Calls, Answer(c) PROVE ScopeInv'
  <2>1. known' = known
    BY <1>6 DEF Answer, killVars, gatewayVars
  <2>2. call'[c].at = "done" /\ call'[c].warned = {} /\ \A d \in Calls \ {c} : call'[d] = call[d]
    BY <1>1, <1>6, AnswerIs DEF ChainType
  <2> QED BY <1>1, <2>1, <2>2 DEF ScopeInv, LastTwo
<1>7. CASE Shutdown
  BY <1>1, <1>7, ShutdownIs DEF ScopeInv, LastTwo
<1>8. CASE Around \/ Flags \/ UNCHANGED vars
  <2>1. UNCHANGED call
    BY <1>8 DEF Around, Rescope, Activate, Approve, Flags, vars, chainVars
  <2> QED BY <1>1, <1>2, <1>7, <2>1
<1> QED BY <1>3, <1>4, <1>5, <1>6, <1>7, <1>8 DEF Next, Walk, Moves

\* Whatever reaches a binding passed the six predicates as its context had them,
\* for every sequence of scopes and lenses it may have met on the way.
THEOREM ProceedsOnlyInScope == Spec => []ProceedsInScope
<1>1. ScopeInv => ProceedsInScope
  <2> SUFFICES ASSUME ScopeInv, NEW c \in Calls, call[c].at = "proceed",
                      NEW i \in DOMAIN Predicates, Predicates[i] # "NotKillSwitched"
               PROVE Admits(Predicates[i], ToolOf[c], call[c].scope, call[c].lens, call[c].time)
    BY DEF ProceedsInScope
  <2>1. FirstFour(call[c].scope, call[c].lens, ToolOf[c]) /\ ToolOf[c] \in call[c].scope.enabled
    BY DEF ScopeInv, LastTwo
  <2> DEFINE admits(j) ==
               Admits(Predicates[j], ToolOf[c], call[c].scope, call[c].lens, call[c].time)
  <2>2. admits(1) /\ admits(2) /\ admits(3) /\ admits(4)
    BY <2>1 DEF Admits, Predicates, FirstFour
  <2>3. admits(5)
    BY <2>1 DEF Admits, Predicates
  <2>4. i \in {1, 2, 3, 4, 5}
    BY DEF Predicates
  <2> HIDE DEF admits
  <2>5. admits(i)
    BY <2>2, <2>3, <2>4
  <2> QED BY <2>5 DEF admits
<1> QED BY ScopeInvInit, ScopeInvStep, <1>1, PTL DEF Spec

\* A kill that the process had read when a call arrived stops the call, however
\* many polls failed since.
THEOREM KnownKillsBind == Spec => []ReadKillsBind
<1>1. ScopeInv => ReadKillsBind
  BY DEF ScopeInv, LastTwo, ReadKillsBind
<1> QED BY ScopeInvInit, ScopeInvStep, <1>1, PTL DEF Spec

-----------------------------------------------------------------------------
(***************************************************************************)
(* Writes.  Whether an approval is forced is asked when a token is made,   *)
(* and not again when it is presented: what holds at the binding is what   *)
(* the token says of its making.                                           *)
(***************************************************************************)

Consented(token) ==
  token.tool \in Writes =>
    /\ token.required => token.consent = "approval"
    /\ token.tool \in Elevated => token.consent \in {"standing", "approval"}

Presents(c) ==
  /\ call[c].token \in tokens \cup {None}
  /\ call[c].token # None =>
       call[c].token.caller = CallerOf[c] /\ call[c].token.tool = ToolOf[c]
  /\ call[c].at = "dryRun" => ToolOf[c] \in Writes
  /\ call[c].at = "proceed" /\ ToolOf[c] \in Writes =>
       call[c].token # None /\ call[c].time < call[c].token.exp

ConsentInv ==
  /\ ChainType
  /\ \A token \in tokens : Consented(token)
  /\ \A c \in Calls : Presents(c)

LEMMA ConsentInvInit == Init => ConsentInv
  BY ChainTypeInit DEF Init, NoCall, ConsentInv, Presents

\* A dry run mints a token outright only where no approval is forced.
LEMMA MintedIsConsented ==
  ASSUME NEW c \in Calls, ToolOf[c] \in Writes, ~ForcesApproval(c)
  PROVE  Consented(TokenFor(c))
<1>1. TokenFor(c).tool = ToolOf[c] /\ TokenFor(c).required = ToolRequires(c)
  BY DEF TokenFor
<1>2. ~ToolRequires(c)
  BY DEF ForcesApproval
<1>3. ToolOf[c] \in Elevated => TokenFor(c).consent = "standing"
  BY DEF TokenFor, ForcesApproval
<1> QED BY <1>1, <1>2, <1>3 DEF Consented

LEMMA ConsentInvStep == ConsentInv /\ [Next]_vars => ConsentInv'
<1> SUFFICES ASSUME ConsentInv, [Next]_vars PROVE ConsentInv'
  OBVIOUS
<1>1. ChainType /\ ChainType'
  BY ChainTypeStep DEF ConsentInv
<1>2. CASE UNCHANGED <<call, tokens>>
  BY <1>1, <1>2 DEF ConsentInv, Presents, Consented
<1>3. ASSUME NEW c \in Calls, NEW token \in tokens \cup {None}, Arrive(c, token) PROVE ConsentInv'
  <2>1. token \in Tokens \cup {None} /\ tokens' = tokens
    BY <1>1, <1>3 DEF ChainType, Arrive, writeVars
  <2>2. /\ call' = [call EXCEPT ![c] = Arrived(c, token)]
        /\ Arrived(c, token).at \in {"6b", "answer"} /\ Arrived(c, token).token = token
    BY <1>1, <1>3, <2>1, ArrivedIs
  <2>3. call'[c].at \in {"6b", "answer"} /\ call'[c].token = token
          /\ \A d \in Calls \ {c} : call'[d] = call[d]
    BY <1>1, <2>2 DEF ChainType
  <2>4. token # None => token.caller = CallerOf[c] /\ token.tool = ToolOf[c]
    BY <1>3 DEF Arrive
  <2>5. Presents(c)'
    BY <2>1, <2>3, <2>4 DEF Presents
  <2>6. \A d \in Calls \ {c} : Presents(d)'
    BY <2>1, <2>3 DEF ConsentInv, Presents
  <2> QED BY <1>1, <2>1, <2>5, <2>6 DEF ConsentInv, Consented
<1>4. ASSUME NEW c \in Calls, Moves(c) PROVE ConsentInv'
  <2>1. /\ \A d \in Calls \ {c} : call'[d] = call[d]
        /\ call'[c].time = call[c].time /\ call'[c].token = call[c].token
    BY <1>1, <1>4, MovesIs
  <2>2. tokens \subseteq tokens' /\ \A token \in tokens' : Consented(token)
    <3>1. CASE DryRunReturns(c)
      <4>1. tokens' = tokens \/ (tokens' = tokens \cup {TokenFor(c)} /\ ~ForcesApproval(c))
        BY <3>1 DEF DryRunReturns, writeVars
      <4>2. ToolOf[c] \in Writes
        BY <3>1 DEF DryRunReturns, ConsentInv, Presents
      <4> QED BY <4>1, <4>2, MintedIsConsented DEF ConsentInv
    <3>2. CASE ~DryRunReturns(c)
      BY <1>4, <3>2 DEF Moves, EnabledStage, CheckRefuses, ReadStage, PlanStage, ConfirmStage,
         Execute, writeVars, ConsentInv
    <3> QED BY <3>1, <3>2
  <2>3. call'[c].at = "dryRun" => ToolOf[c] \in Writes
    BY <1>1, <1>4 DEF Moves, EnabledStage, CheckRefuses, ReadStage, PlanStage, DryRunReturns,
       ConfirmStage, Execute, Goto, Lookup, ChainType, CallTypes
  <2>4. call'[c].at = "proceed" /\ ToolOf[c] \in Writes =>
          call[c].token # None /\ call[c].time < call[c].token.exp
    BY <1>1, <1>4 DEF Moves, EnabledStage, CheckRefuses, ReadStage, PlanStage, DryRunReturns,
       ConfirmStage, Execute, Goto, Lookup, ChainType, CallTypes
  <2>5. Presents(c)'
    BY <2>1, <2>2, <2>3, <2>4 DEF ConsentInv, Presents
  <2>6. \A d \in Calls \ {c} : Presents(d)'
    BY <2>1, <2>2 DEF ConsentInv, Presents
  <2> QED BY <1>1, <2>2, <2>5, <2>6 DEF ConsentInv, Consented
<1>5. ASSUME NEW c \in Calls, CapsStage(c) PROVE ConsentInv'
  <2>1. tokens' = tokens /\ call'[c].at \in {"6d", "answer"} /\ call'[c].token = call[c].token
          /\ \A d \in Calls \ {c} : call'[d] = call[d]
    BY <1>1, <1>5, CapsIs DEF CapsStage, writeVars
  <2> QED BY <1>1, <2>1 DEF ConsentInv, Presents, Consented
<1>6. ASSUME NEW c \in Calls, Answer(c) PROVE ConsentInv'
  <2>1. tokens' = tokens /\ call'[c].at = "done" /\ call'[c].token = None
          /\ \A d \in Calls \ {c} : call'[d] = call[d]
    BY <1>1, <1>6, AnswerIs DEF Answer, ChainType, writeVars
  <2> QED BY <1>1, <2>1 DEF ConsentInv, Presents, Consented
<1>7. CASE Shutdown
  <2>1. tokens' = tokens
          /\ \A c \in Calls : call'[c].at \in {"idle", "done"} /\ call'[c].token = None
    BY <1>7, ShutdownIs DEF Shutdown, writeVars
  <2> QED BY <1>1, <2>1 DEF ConsentInv, Presents, Consented
<1>8. CASE Approve
  <2>1. PICK r \in requests :
          tokens' = tokens \cup {[r EXCEPT !.consent = "approval"]}
    BY <1>8 DEF Approve
  <2>2. UNCHANGED call
    BY <1>8 DEF Approve
  <2>3. r \in Tokens
    BY <1>1 DEF ChainType
  <2>4. Consented([r EXCEPT !.consent = "approval"])
    BY <2>3 DEF Consented, Tokens
  <2>5. \A token \in tokens' : Consented(token)
    BY <2>1, <2>4 DEF ConsentInv
  <2> QED BY <1>1, <2>1, <2>2, <2>5 DEF ConsentInv, Presents
<1>9. CASE Rescope \/ (\E u \in Callers : Activate(u)) \/ Flags \/ UNCHANGED vars
  <2>1. UNCHANGED <<call, tokens>>
    BY <1>9 DEF Rescope, Activate, Flags, vars, chainVars, writeVars
  <2> QED BY <1>2, <2>1
<1> QED BY <1>3, <1>4, <1>5, <1>6, <1>7, <1>8, <1>9 DEF Next, Walk, Moves, Around

\* No write runs without a live token of its own caller and tool; none whose tool
\* required it without a human's approval; and no elevated one without an approval
\* or a standing authorization that was in force.
THEOREM WritesNeedConsent == Spec => []WritesAreConsented
<1>1. ConsentInv => WritesAreConsented
  <2> SUFFICES ASSUME ConsentInv, NEW c \in Calls, call[c].at = "proceed", ToolOf[c] \in Writes
               PROVE  /\ call[c].token \in tokens /\ call[c].time < call[c].token.exp
                      /\ call[c].token.caller = CallerOf[c] /\ call[c].token.tool = ToolOf[c]
                      /\ call[c].token.required => call[c].token.consent = "approval"
                      /\ ToolOf[c] \in Elevated =>
                           call[c].token.consent \in {"standing", "approval"}
    BY DEF WritesAreConsented
  <2>1. call[c].token \in tokens /\ call[c].time < call[c].token.exp
          /\ call[c].token.caller = CallerOf[c] /\ call[c].token.tool = ToolOf[c]
    BY DEF ConsentInv, Presents
  <2>2. Consented(call[c].token)
    BY <2>1 DEF ConsentInv
  <2> QED BY <2>1, <2>2 DEF Consented
<1> QED BY ConsentInvInit, ConsentInvStep, <1>1, PTL DEF Spec

-----------------------------------------------------------------------------
(***************************************************************************)
(* Slots.  Two counters, and a flag in each call that says whether 6c took *)
(* a slot for it: they agree because only 6c raises the flag, only the     *)
(* answer lowers it, and the binding is read from the call's own snapshot  *)
(* both times.                                                             *)
(***************************************************************************)

HoldingOn(b) == {c \in Holding : BindingOf(c) = b}

SlotsInv ==
  /\ ChainType
  /\ global = Cardinality(Holding) /\ global <= GlobalLimit
  /\ perBinding \in [Bindings -> 0..BindingLimit]
  /\ \A b \in Bindings : perBinding[b] = Cardinality(HoldingOn(b))
  /\ \A c \in Calls :
       /\ call[c].holds => call[c].at \in {"6d", "dryRun", "proceed", "answer"}
       /\ call[c].at \notin {"idle", "done"} => call[c].scope \in Range(Scopes)

LEMMA HoldingIsFinite == IsFiniteSet(Holding) /\ \A b : IsFiniteSet(HoldingOn(b))
<1>1. Holding \subseteq Calls /\ \A b : HoldingOn(b) \subseteq Calls
  BY DEF Holding, HoldingOn
<1> QED BY <1>1, FS_Subset, ChainAssumption

LEMMA BindingIsBinding ==
  ASSUME NEW c \in Calls, call[c].scope \in Range(Scopes)
  PROVE  BindingOf(c) \in Bindings
<1>1. call[c].scope.binding \in [Tools -> Bindings]
  BY ScopeIsScope DEF Scope
<1> QED BY <1>1, ChainAssumption DEF BindingOf

\* Calls that keep their slots leave the counts alone.
LEMMA SameHolders ==
  ASSUME \A c \in Calls : call'[c].holds = call[c].holds /\ call'[c].scope = call[c].scope
  PROVE  Holding' = Holding /\ \A b : HoldingOn(b)' = HoldingOn(b)
  BY DEF Holding, HoldingOn, BindingOf

LEMMA SlotsInvInit == Init => SlotsInv
<1> SUFFICES ASSUME Init PROVE SlotsInv
  OBVIOUS
<1>1. \A c \in Calls : call[c].holds = FALSE /\ call[c].at = "idle"
  BY DEF Init, NoCall
<1>2. Holding = {} /\ \A b : HoldingOn(b) = {}
  BY <1>1 DEF Holding, HoldingOn
<1>3. 0 <= GlobalLimit /\ 0 \in 0..BindingLimit
  BY ChainAssumption
<1> QED BY <1>1, <1>2, <1>3, ChainTypeInit, FS_EmptySet DEF Init, SlotsInv

\* A slot taken: one more holder, of its own binding only.
LEMMA SlotTaken ==
  ASSUME SlotsInv, NEW c \in Calls, CapsStage(c), WithinRate(c) /\ SlotFree(c)
  PROVE  /\ global' = Cardinality(Holding') /\ global' <= GlobalLimit
         /\ perBinding' \in [Bindings -> 0..BindingLimit]
         /\ \A b \in Bindings : perBinding'[b] = Cardinality(HoldingOn(b)')
<1>1. call[c].at = "6c" /\ ~call[c].holds /\ call[c].scope \in Range(Scopes)
  BY DEF CapsStage, SlotsInv
<1>2. PICK own \in Bindings : own = BindingOf(c)
  BY <1>1, BindingIsBinding
<1>3. /\ call'[c].holds /\ \A d \in Calls \ {c} : call'[d] = call[d]
      /\ call'[c].scope = call[c].scope
  BY CapsIs DEF SlotsInv
<1>4. Holding' = Holding \cup {c} /\ c \notin Holding
  BY <1>1, <1>3 DEF Holding
<1>5. \A d \in Calls : BindingOf(d)' = BindingOf(d)
  BY <1>3 DEF BindingOf
<1>6. HoldingOn(own)' = HoldingOn(own) \cup {c} /\ c \notin HoldingOn(own)
  BY <1>2, <1>4, <1>5 DEF HoldingOn, Holding
<1>7. \A b \in Bindings \ {own} : HoldingOn(b)' = HoldingOn(b)
  BY <1>2, <1>4, <1>5 DEF HoldingOn, Holding
<1>8. global' = global + 1 /\ perBinding' = [perBinding EXCEPT ![own] = @ + 1]
  BY <1>2 DEF CapsStage
<1>9. /\ Cardinality(Holding') = Cardinality(Holding) + 1
      /\ Cardinality(HoldingOn(own)') = Cardinality(HoldingOn(own)) + 1
  BY <1>4, <1>6, HoldingIsFinite, FS_AddElement
<1>10. /\ global < GlobalLimit /\ global \in Nat /\ GlobalLimit \in Nat
       /\ perBinding[own] < BindingLimit /\ BindingLimit \in Nat
  BY <1>2, HoldingIsFinite, FS_CardinalityType, ChainAssumption DEF SlotFree, SlotsInv
<1>11. perBinding' \in [Bindings -> 0..BindingLimit]
         /\ \A b \in Bindings : perBinding'[b] = IF b = own THEN perBinding[b] + 1
                                                 ELSE perBinding[b]
  BY <1>8, <1>10 DEF SlotsInv
<1>12. ASSUME NEW b \in Bindings PROVE perBinding'[b] = Cardinality(HoldingOn(b)')
  <2>1. perBinding[b] = Cardinality(HoldingOn(b))
    BY DEF SlotsInv
  <2>2. CASE b = own
    BY <1>9, <1>11, <2>1, <2>2
  <2>3. CASE b # own
    BY <1>7, <1>11, <2>1, <2>3
  <2> QED BY <2>2, <2>3
<1> QED BY <1>8, <1>9, <1>10, <1>11, <1>12 DEF SlotsInv

\* A slot given back: one holder less, and the floor at zero is never met.
LEMMA SlotGivenBack ==
  ASSUME SlotsInv, NEW c \in Calls, Answer(c), call[c].holds
  PROVE  /\ global' = Cardinality(Holding') /\ global' <= GlobalLimit
         /\ perBinding' \in [Bindings -> 0..BindingLimit]
         /\ \A b \in Bindings : perBinding'[b] = Cardinality(HoldingOn(b)')
<1>1. call[c].scope \in Range(Scopes)
  BY DEF Answer, SlotsInv
<1>2. PICK own \in Bindings : own = BindingOf(c)
  BY <1>1, BindingIsBinding
<1>3. ~call'[c].holds /\ \A d \in Calls \ {c} : call'[d] = call[d]
  BY AnswerIs DEF SlotsInv, ChainType
<1>4. Holding' = Holding \ {c} /\ c \in Holding
  BY <1>3 DEF Holding
<1>5. \A d \in Calls \ {c} : BindingOf(d)' = BindingOf(d)
  BY <1>3 DEF BindingOf
<1>6. HoldingOn(own)' = HoldingOn(own) \ {c} /\ c \in HoldingOn(own)
  BY <1>2, <1>4, <1>5 DEF HoldingOn, Holding
<1>7. \A b \in Bindings \ {own} : HoldingOn(b)' = HoldingOn(b)
  BY <1>2, <1>4, <1>5 DEF HoldingOn, Holding
<1>8. /\ Cardinality(Holding') = Cardinality(Holding) - 1
      /\ Cardinality(HoldingOn(own)') = Cardinality(HoldingOn(own)) - 1
  BY <1>4, <1>6, HoldingIsFinite, FS_RemoveElement
<1>9. Cardinality(Holding) \in Nat \ {0} /\ Cardinality(HoldingOn(own)) \in Nat \ {0}
  BY <1>4, <1>6, HoldingIsFinite, FS_CardinalityType, FS_EmptySet
<1>10. global' = global - 1
  BY <1>9 DEF Answer, Down, SlotsInv
<1>11. perBinding' = [perBinding EXCEPT ![own] = Down(@)] /\ perBinding[own] \in Nat \ {0}
         /\ BindingLimit \in Nat
  BY <1>2, <1>9, ChainAssumption DEF Answer, SlotsInv
<1>12. perBinding' \in [Bindings -> 0..BindingLimit]
         /\ \A b \in Bindings : perBinding'[b] = IF b = own THEN perBinding[b] - 1
                                                 ELSE perBinding[b]
  BY <1>11 DEF SlotsInv, Down
<1>13. ASSUME NEW b \in Bindings PROVE perBinding'[b] = Cardinality(HoldingOn(b)')
  <2>1. perBinding[b] = Cardinality(HoldingOn(b))
    BY DEF SlotsInv
  <2>2. CASE b = own
    BY <1>8, <1>12, <2>1, <2>2
  <2>3. CASE b # own
    BY <1>7, <1>12, <2>1, <2>3
  <2> QED BY <2>2, <2>3
<1>14. GlobalLimit \in Nat
  BY ChainAssumption
<1> QED BY <1>8, <1>9, <1>10, <1>12, <1>13, <1>14 DEF SlotsInv

LEMMA SlotsInvStep == SlotsInv /\ [Next]_vars => SlotsInv'
<1> SUFFICES ASSUME SlotsInv, [Next]_vars PROVE SlotsInv'
  OBVIOUS
<1>1. ChainType /\ ChainType'
  BY ChainTypeStep DEF SlotsInv
<1>2. ASSUME UNCHANGED <<perBinding, global>>,
             \A c \in Calls : /\ call'[c].holds = call[c].holds
                              /\ call'[c].scope = call[c].scope /\ call'[c].at = call[c].at
      PROVE  SlotsInv'
  <2>1. Holding' = Holding /\ \A b \in Bindings : HoldingOn(b)' = HoldingOn(b)
    BY <1>2, SameHolders
  <2> QED BY <1>1, <1>2, <2>1 DEF SlotsInv
<1>3. ASSUME NEW c \in Calls, NEW token \in tokens \cup {None}, Arrive(c, token) PROVE SlotsInv'
  <2>1. token \in Tokens \cup {None} /\ call[c].at = "idle"
    BY <1>1, <1>3 DEF ChainType, Arrive
  <2>2. UNCHANGED <<perBinding, global>>
    BY <1>3 DEF Arrive, limiterVars
  <2>3. /\ call'[c].at \in {"6b", "answer"} /\ call'[c].holds = FALSE
        /\ call'[c].scope \in Range(Scopes) /\ \A d \in Calls \ {c} : call'[d] = call[d]
    <3>1. call' = [call EXCEPT ![c] = Arrived(c, token)] /\ call \in [Calls -> CallTypes]
      BY <1>1, <1>3, <2>1, ArrivedIs DEF ChainType
    <3>2. scope \in Range(Scopes)
      BY <1>1 DEF ChainType
    <3>3. /\ Arrived(c, token).at \in {"6b", "answer"} /\ Arrived(c, token).holds = FALSE
          /\ Arrived(c, token).scope = scope
      BY <1>1, <1>3, <2>1, ArrivedIs
    <3> QED BY <3>1, <3>2, <3>3
  <2>4. ~call[c].holds
    BY <1>1, <2>1 DEF SlotsInv, ChainType, CallTypes
  <2>5. Holding' = Holding
    BY <2>3, <2>4 DEF Holding
  <2>6. \A b \in Bindings : HoldingOn(b)' = HoldingOn(b)
    BY <2>3, <2>4, <2>5 DEF HoldingOn, Holding, BindingOf
  <2> QED BY <1>1, <2>2, <2>3, <2>5, <2>6 DEF SlotsInv
<1>4. ASSUME NEW c \in Calls, Moves(c) PROVE SlotsInv'
  <2>1. /\ UNCHANGED <<perBinding, global>>
        /\ \A d \in Calls \ {c} : call'[d] = call[d]
        /\ \A d \in Calls : call'[d].holds = call[d].holds /\ call'[d].scope = call[d].scope
    BY <1>1, <1>4, MovesIs DEF limiterVars
  <2>2. /\ call[c].at = "6b" /\ call'[c].at \in {"6c", "answer"}
        \/ /\ call[c].at \in {"6d", "dryRun", "proceed"}
           /\ call'[c].at \in {"dryRun", "proceed", "answer"}
    BY <1>1, <1>4 DEF Moves, EnabledStage, CheckRefuses, ReadStage, PlanStage, DryRunReturns,
       ConfirmStage, Execute, Goto, Lookup, ChainType, CallTypes
  <2>3. Holding' = Holding /\ \A b \in Bindings : HoldingOn(b)' = HoldingOn(b)
    BY <2>1, SameHolders
  <2> QED BY <1>1, <2>1, <2>2, <2>3 DEF SlotsInv
<1>5. ASSUME NEW c \in Calls, CapsStage(c) PROVE SlotsInv'
  <2>1. /\ call'[c].holds = (WithinRate(c) /\ SlotFree(c))
        /\ call'[c].at = IF WithinRate(c) /\ SlotFree(c) THEN "6d" ELSE "answer"
        /\ \A d \in Calls \ {c} : call'[d] = call[d]
        /\ call'[c].scope = call[c].scope
    BY <1>1, <1>5, CapsIs
  <2>2. call[c].at = "6c" /\ ~call[c].holds /\ call[c].scope \in Range(Scopes)
    BY <1>5 DEF CapsStage, SlotsInv
  <2>3. /\ global' = Cardinality(Holding') /\ global' <= GlobalLimit
        /\ perBinding' \in [Bindings -> 0..BindingLimit]
        /\ \A b \in Bindings : perBinding'[b] = Cardinality(HoldingOn(b)')
    <3>1. CASE WithinRate(c) /\ SlotFree(c)
      BY <1>5, <3>1, SlotTaken
    <3>2. CASE ~(WithinRate(c) /\ SlotFree(c))
      <4>1. Holding' = Holding
        BY <2>1, <2>2, <3>2 DEF Holding
      <4>2. \A b \in Bindings : HoldingOn(b)' = HoldingOn(b)
        BY <2>1, <2>2, <4>1 DEF HoldingOn, Holding, BindingOf
      <4>3. UNCHANGED <<global, perBinding>>
        BY <1>5, <3>2 DEF CapsStage
      <4> QED BY <4>1, <4>2, <4>3 DEF SlotsInv
    <3> QED BY <3>1, <3>2
  <2> QED BY <1>1, <2>1, <2>2, <2>3 DEF SlotsInv
<1>6. ASSUME NEW c \in Calls, Answer(c) PROVE SlotsInv'
  <2>1. call'[c].at = "done" /\ ~call'[c].holds /\ \A d \in Calls \ {c} : call'[d] = call[d]
    BY <1>1, <1>6, AnswerIs DEF ChainType
  <2>2. /\ global' = Cardinality(Holding') /\ global' <= GlobalLimit
        /\ perBinding' \in [Bindings -> 0..BindingLimit]
        /\ \A b \in Bindings : perBinding'[b] = Cardinality(HoldingOn(b)')
    <3>1. CASE call[c].holds
      BY <1>6, <3>1, SlotGivenBack
    <3>2. CASE ~call[c].holds
      <4>1. Holding' = Holding
        BY <2>1, <3>2 DEF Holding
      <4>2. \A b \in Bindings : HoldingOn(b)' = HoldingOn(b)
        BY <2>1, <3>2, <4>1 DEF HoldingOn, Holding, BindingOf
      <4>3. UNCHANGED <<global, perBinding>>
        BY <1>6, <3>2 DEF Answer
      <4> QED BY <4>1, <4>2, <4>3 DEF SlotsInv
    <3> QED BY <3>1, <3>2
  <2> QED BY <1>1, <2>1, <2>2 DEF SlotsInv
<1>7. CASE Shutdown
  <2>1. \A c \in Calls : call'[c].at \in {"idle", "done"} /\ call'[c].holds = FALSE
    BY <1>7, ShutdownIs
  <2>2. Holding' = {} /\ \A b \in Bindings : HoldingOn(b)' = {}
    BY <2>1 DEF Holding, HoldingOn
  <2>3. global' = 0 /\ perBinding' = [b \in Bindings |-> 0] /\ 0 <= GlobalLimit
        /\ 0 \in 0..BindingLimit
    BY <1>7, ChainAssumption DEF Shutdown
  <2> QED BY <1>1, <2>1, <2>2, <2>3, FS_EmptySet DEF SlotsInv
<1>8. CASE Around \/ Flags \/ UNCHANGED vars
  <2>1. UNCHANGED <<call, perBinding, global>>
    BY <1>8 DEF Around, Rescope, Activate, Approve, Flags, vars, chainVars, limiterVars
  <2> QED BY <1>2, <2>1
<1> QED BY <1>3, <1>4, <1>5, <1>6, <1>7, <1>8 DEF Next, Walk, Moves

\* No slot leaks and none is given back twice, for any number of calls and any
\* limits, although the binding of a tool may change while a call holds its slot.
THEOREM SlotsBalance == Spec => []SlotsAreHeld
<1>1. SlotsInv => SlotsAreHeld
  BY DEF SlotsInv, SlotsAreHeld, HoldingOn
<1> QED BY SlotsInvInit, SlotsInvStep, <1>1, PTL DEF Spec

-----------------------------------------------------------------------------
(***************************************************************************)
(* The rate.  A window is in the order of time, so that what has left it   *)
(* is at its front, and from the last eviction on it says how many calls   *)
(* were charged after any moment: whatever is counted in it, then, is      *)
(* counted of the calls.                                                   *)
(***************************************************************************)

\* Of some calls and their times, those after a moment, and those within a
\* window's length from it on.
Since(calls, times, x) == {c \in calls : times[c] > x}
Within(calls, times, x) == {c \in calls : times[c] - x \in 0..Window - 1}

\* Up to the j-th the window is not after the moment, and from there on it is.
Splits(window, x, j) ==
  /\ j \in 0..Len(window)
  /\ \A i \in 1..j : window[i] <= x
  /\ \A i \in j + 1..Len(window) : window[i] > x

Tracks(window, calls, times, time) ==
  /\ window \in Seq(Nat) /\ \A i \in 1..Len(window) : window[i] <= time
  /\ IsFiniteSet(calls) /\ \A c \in calls : times[c] \in Nat /\ times[c] <= time
  /\ Len(window) <= Cardinality(calls)
  /\ \A x \in Int : x >= time - Window =>
       \E j \in 0..Len(window) :
         Splits(window, x, j) /\ Cardinality(Since(calls, times, x)) = Len(window) - j

Limits(limit, calls, times) == \A x \in Nat : Cardinality(Within(calls, times, x)) <= limit

OfTool(t) == {c \in Charged : ToolOf[c] = t}
OfCaller(u) == {c \in Charged : CallerOf[c] = u}
Times == [c \in Calls |-> call[c].charged]

RateInv ==
  /\ ChainType
  /\ \A c \in Calls : call[c].at \in {"idle", "6b", "6c"} => call[c].charged = None
  /\ perTool \in [Tools -> Seq(Nat)] /\ perCaller \in [Callers -> Seq(Nat)]
  /\ \A t \in Tools : /\ Tracks(perTool[t], OfTool(t), Times, now)
                      /\ Limits(ToolLimit, OfTool(t), Times)
  /\ \A u \in Callers : /\ Tracks(perCaller[u], OfCaller(u), Times, now)
                        /\ Limits(CallerLimit, OfCaller(u), Times)

\* Eviction drops what has left the window, and nothing else.
LEMMA EvictedIs ==
  ASSUME now \in Nat, NEW window \in Seq(Nat), NEW j, Splits(window, now - Window, j)
  PROVE  /\ Evicted(window) \in Seq(Nat) /\ Len(Evicted(window)) = Len(window) - j
         /\ \A i \in 1..Len(window) - j : Evicted(window)[i] = window[i + j]
<1> DEFINE cut == now - Window
           IsKept(i) == /\ i <= Len(window) => window[i] > cut
                        /\ \A k \in 1..i - 1 : window[k] <= cut
           kept == CHOOSE i \in 1..Len(window) + 1 : IsKept(i)
<1>0. /\ Len(window) \in Nat /\ j \in 0..Len(window) /\ cut \in Int
      /\ \A i \in 1..Len(window) : window[i] \in Nat
  <2>1. Window \in Nat
    BY ChainAssumption
  <2>2. j \in 0..Len(window)
    BY DEF Splits
  <2> QED BY <2>1, <2>2
<1>1. (\A i \in 1..j : window[i] <= cut) /\ \A i \in j + 1..Len(window) : window[i] > cut
  BY DEF Splits
<1>2. Evicted(window) = SubSeq(window, kept, Len(window))
  BY DEF Evicted
<1> HIDE DEF cut
<1>3. j + 1 \in 1..Len(window) + 1 /\ IsKept(j + 1)
  BY <1>0, <1>1
<1>4. kept \in 1..Len(window) + 1 /\ IsKept(kept)
  BY <1>3
<1> HIDE DEF kept
<1>5. kept = j + 1
  <2>1. CASE kept <= j
    <3>1. kept \in 1..j /\ kept <= Len(window)
      BY <1>0, <1>4, <2>1
    <3> QED BY <1>0, <1>1, <1>4, <3>1
  <2>2. CASE kept > j + 1
    <3>1. j + 1 \in 1..kept - 1 /\ j + 1 \in j + 1..Len(window) /\ j + 1 \in 1..Len(window)
      BY <1>0, <1>4, <2>2
    <3> QED BY <1>0, <1>1, <1>4, <3>1
  <2> QED BY <1>0, <1>4, <2>1, <2>2
<1> QED BY <1>0, <1>2, <1>5

LEMMA TracksEvicted ==
  ASSUME now \in Nat, NEW window, NEW calls, NEW times, Tracks(window, calls, times, now)
  PROVE  /\ Tracks(Evicted(window), calls, times, now)
         /\ Len(Evicted(window)) = Cardinality(Since(calls, times, now - Window))
<1>0. window \in Seq(Nat) /\ now - Window \in Int /\ now - Window >= now - Window /\ Window \in Nat
  BY ChainAssumption DEF Tracks
<1>1. PICK j \in 0..Len(window) :
        /\ Splits(window, now - Window, j)
        /\ Cardinality(Since(calls, times, now - Window)) = Len(window) - j
  BY <1>0 DEF Tracks
<1> DEFINE rest == Evicted(window)
<1>2. /\ rest \in Seq(Nat) /\ Len(rest) = Len(window) - j
      /\ \A i \in 1..Len(window) - j : rest[i] = window[i + j]
  BY <1>0, <1>1, EvictedIs
<1> HIDE DEF rest
<1>3. Len(window) \in Nat /\ j \in Nat /\ j <= Len(window) /\ Len(rest) \in Nat
  BY <1>0, <1>2
<1>4. \A i \in 1..Len(rest) : i + j \in 1..Len(window) /\ rest[i] = window[i + j]
  BY <1>2, <1>3
<1>5. \A i \in 1..Len(rest) : rest[i] <= now
  BY <1>4 DEF Tracks
<1>6. Len(rest) <= Cardinality(calls)
  <2>1. Cardinality(calls) \in Nat /\ Len(window) <= Cardinality(calls)
    BY FS_CardinalityType DEF Tracks
  <2> QED BY <1>2, <1>3, <2>1
<1>7. ASSUME NEW x \in Int, x >= now - Window
      PROVE  \E k \in 0..Len(rest) :
               Splits(rest, x, k) /\ Cardinality(Since(calls, times, x)) = Len(rest) - k
  <2>1. PICK l \in 0..Len(window) :
          Splits(window, x, l) /\ Cardinality(Since(calls, times, x)) = Len(window) - l
    BY <1>7 DEF Tracks
  <2>2. l >= j
    <3> SUFFICES ASSUME l < j PROVE FALSE
      BY <1>3, <2>1
    <3>1. j \in 1..j /\ j \in l + 1..Len(window) /\ window[j] \in Nat
      BY <1>0, <1>3, <2>1
    <3>2. window[j] <= now - Window /\ window[j] > x
      BY <1>1, <2>1, <3>1 DEF Splits
    <3> QED BY <1>0, <1>7, <3>1, <3>2
  <2>3. l - j \in 0..Len(rest) /\ Len(rest) - (l - j) = Len(window) - l
    BY <1>2, <1>3, <2>1, <2>2
  <2>4. Splits(rest, x, l - j)
    <3>1. ASSUME NEW i \in 1..l - j PROVE rest[i] <= x
      <4>1. i + j \in 1..l /\ i \in 1..Len(rest)
        BY <1>3, <2>1, <2>2, <2>3
      <4> QED BY <1>4, <2>1, <4>1 DEF Splits
    <3>2. ASSUME NEW i \in (l - j) + 1..Len(rest) PROVE rest[i] > x
      <4>1. i + j \in l + 1..Len(window) /\ i \in 1..Len(rest)
        BY <1>2, <1>3, <2>1, <2>2, <2>3
      <4> QED BY <1>4, <2>1, <4>1 DEF Splits
    <3> QED BY <2>3, <3>1, <3>2 DEF Splits
  <2> QED BY <2>1, <2>3, <2>4
<1>8. Tracks(rest, calls, times, now)
  BY <1>2, <1>5, <1>6, <1>7 DEF Tracks
<1> QED BY <1>1, <1>2, <1>8 DEF rest

\* A call charged now is the last of the window.
LEMMA TracksMore ==
  ASSUME now \in Nat, NEW window, NEW calls, NEW times, Tracks(window, calls, times, now),
         NEW c, c \notin calls, NEW after, after[c] = now, \A d \in calls : after[d] = times[d]
  PROVE  Tracks(window \o <<now>>, calls \cup {c}, after, now)
<1> DEFINE more == window \o <<now>>
           all == calls \cup {c}
<1>0. window \in Seq(Nat) /\ Len(window) \in Nat
  BY DEF Tracks
<1>1. /\ more \in Seq(Nat) /\ Len(more) = Len(window) + 1 /\ more[Len(window) + 1] = now
      /\ \A i \in 1..Len(window) : more[i] = window[i]
  BY <1>0
<1> HIDE DEF more
<1>2. \A i \in 1..Len(more) : more[i] <= now
  <2>1. \A i \in 1..Len(more) : i \in 1..Len(window) \/ i = Len(window) + 1
    BY <1>0, <1>1
  <2> QED BY <1>1, <2>1 DEF Tracks
<1>3. IsFiniteSet(all) /\ Cardinality(all) = Cardinality(calls) + 1 /\ Cardinality(calls) \in Nat
  BY FS_AddElement, FS_CardinalityType DEF Tracks
<1>4. \A d \in all : after[d] \in Nat /\ after[d] <= now
  BY DEF Tracks
<1>5. Len(more) <= Cardinality(all)
  BY <1>0, <1>1, <1>3 DEF Tracks
<1>6. ASSUME NEW x \in Int, x >= now - Window
      PROVE  \E k \in 0..Len(more) :
               Splits(more, x, k) /\ Cardinality(Since(all, after, x)) = Len(more) - k
  <2>1. PICK j \in 0..Len(window) :
          Splits(window, x, j) /\ Cardinality(Since(calls, times, x)) = Len(window) - j
    BY <1>6 DEF Tracks
  <2>2. CASE x < now
    <3>1. Since(all, after, x) = Since(calls, times, x) \cup {c} /\ c \notin Since(calls, times, x)
      BY <2>2 DEF Since
    <3>2. IsFiniteSet(Since(calls, times, x))
      BY FS_Subset DEF Since, Tracks
    <3>3. Cardinality(Since(all, after, x)) = (Len(window) - j) + 1
      BY <2>1, <3>1, <3>2, FS_AddElement
    <3>4. Splits(more, x, j)
      <4>1. \A i \in j + 1..Len(more) : i \in j + 1..Len(window) \/ i = Len(window) + 1
        BY <1>0, <1>1, <2>1
      <4>2. j \in 0..Len(more) /\ \A i \in 1..j : i \in 1..Len(window)
        BY <1>0, <1>1, <2>1
      <4>3. \A i \in j + 1..Len(window) : i \in 1..Len(window)
        BY <1>0, <2>1
      <4> QED BY <1>1, <2>1, <2>2, <4>1, <4>2, <4>3 DEF Splits
    <3>5. j \in 0..Len(more) /\ Len(more) - j = (Len(window) - j) + 1
      BY <1>0, <1>1, <2>1
    <3> QED BY <3>3, <3>4, <3>5
  <2>3. CASE x >= now
    <3>1. Since(all, after, x) = {}
      <4>1. \A d \in all : ~(after[d] > x)
        BY <1>4, <2>3
      <4> QED BY <4>1 DEF Since
    <3>2. Cardinality(Since(all, after, x)) = 0
      BY <3>1, FS_EmptySet
    <3>3. Splits(more, x, Len(more))
      <4>1. \A i \in 1..Len(more) : more[i] \in Nat /\ more[i] <= now
        BY <1>1, <1>2
      <4>2. \A i \in 1..Len(more) : more[i] <= x
        BY <2>3, <4>1
      <4>3. Len(more) \in Nat
        BY <1>0, <1>1
      <4> QED BY <4>2, <4>3 DEF Splits
    <3>4. Len(more) \in 0..Len(more) /\ Len(more) - Len(more) = 0
      BY <1>0, <1>1
    <3> QED BY <3>2, <3>3, <3>4
  <2>4. x < now \/ x >= now
    OBVIOUS
  <2> QED BY <2>2, <2>3, <2>4
<1>7. Tracks(more, all, after, now)
  BY <1>1, <1>2, <1>3, <1>4, <1>5, <1>6 DEF Tracks
<1> QED BY <1>7 DEF more

\* A limit that the calls since the window's start had not reached is not
\* exceeded by one more: a stretch of time with the new call starts after that.
LEMMA LimitsMore ==
  ASSUME now \in Nat, NEW window, NEW calls, NEW times, Tracks(window, calls, times, now),
         NEW limit \in Nat, Limits(limit, calls, times),
         Cardinality(Since(calls, times, now - Window)) < limit,
         NEW c, c \notin calls, NEW after, after[c] = now, \A d \in calls : after[d] = times[d]
  PROVE  Limits(limit, calls \cup {c}, after)
<1> SUFFICES ASSUME NEW x \in Nat PROVE Cardinality(Within(calls \cup {c}, after, x)) <= limit
  BY DEF Limits
<1>0. Window \in Nat
  BY ChainAssumption
<1>1. CASE now - x \in 0..Window - 1
  <2> DEFINE old == Within(calls, times, x)
             recent == Since(calls, times, now - Window)
  <2>1. \A d \in calls : times[d] \in Nat /\ (times[d] - x \in 0..Window - 1 => times[d] > now - Window)
    <3>1. \A d \in calls : times[d] \in Nat
      BY DEF Tracks
    <3> QED BY <1>0, <1>1, <3>1
  <2>2. old \subseteq recent
    BY <2>1 DEF Within, Since
  <2>3. IsFiniteSet(recent) /\ IsFiniteSet(old)
    BY FS_Subset DEF Tracks, Since, Within
  <2>4. Cardinality(old) <= Cardinality(recent) /\ Cardinality(old) \in Nat /\ Cardinality(recent) \in Nat
    BY <2>2, <2>3, FS_Subset, FS_CardinalityType
  <2>5. Within(calls \cup {c}, after, x) = old \cup {c} /\ c \notin old
    BY <1>1 DEF Within
  <2>6. Cardinality(old \cup {c}) = Cardinality(old) + 1
    BY <2>3, <2>5, FS_AddElement
  <2>7. Cardinality(recent) < limit
    OBVIOUS
  <2>8. Cardinality(Within(calls \cup {c}, after, x)) = Cardinality(old) + 1
    BY <2>5, <2>6
  <2> HIDE DEF old, recent
  <2> QED BY <2>4, <2>7, <2>8
<1>2. CASE now - x \notin 0..Window - 1
  <2>1. Within(calls \cup {c}, after, x) = Within(calls, times, x)
    BY <1>2 DEF Within
  <2> QED BY <2>1 DEF Limits
<1> QED BY <1>1, <1>2

\* Time passes, and the calls charged stay charged.
LEMMA TracksLater ==
  ASSUME NEW time \in Nat, NEW later \in Nat, time <= later,
         NEW window, NEW calls, NEW times, Tracks(window, calls, times, time),
         NEW after, \A d \in calls : after[d] = times[d]
  PROVE  /\ Tracks(window, calls, after, later)
         /\ \A limit : Limits(limit, calls, times) => Limits(limit, calls, after)
<1>0. Window \in Nat /\ window \in Seq(Nat)
  BY ChainAssumption DEF Tracks
<1>1. \A x : /\ Since(calls, after, x) = Since(calls, times, x)
             /\ Within(calls, after, x) = Within(calls, times, x)
  BY DEF Since, Within
<1>2. \A x \in Int : x >= later - Window => x >= time - Window
  BY <1>0
<1>3. \A n \in Nat : n <= time => n <= later
  OBVIOUS
<1>4. \A i \in 1..Len(window) : window[i] \in Nat
  BY <1>0
<1>5. Tracks(window, calls, after, later)
  BY <1>0, <1>1, <1>2, <1>3, <1>4 DEF Tracks
<1> QED BY <1>1, <1>5 DEF Limits

\* The steps that leave what is charged, and the windows, as they are: time may
\* have passed.
LEMMA RateKept ==
  ASSUME RateInv, ChainType', now <= now', UNCHANGED <<perTool, perCaller>>,
         \A c \in Calls : /\ call'[c].charged = call[c].charged
                          /\ call'[c].at \in {"idle", "6b", "6c"} => call[c].at \in {"idle", "6b", "6c"}
  PROVE  RateInv'
<1>0. now \in Nat /\ now' \in Nat
  BY TimeIsNat DEF RateInv, ChainType, KillTypeOK
<1>1. Charged' = Charged
  BY DEF Charged
<1>2. \A t, u : OfTool(t)' = OfTool(t) /\ OfCaller(u)' = OfCaller(u)
  BY <1>1 DEF OfTool, OfCaller
<1>3. \A c \in Calls : Times'[c] = Times[c]
  BY DEF Times
<1>4. \A t, u : OfTool(t) \subseteq Calls /\ OfCaller(u) \subseteq Calls
  BY DEF OfTool, OfCaller, Charged
<1>5. ASSUME NEW t \in Tools
      PROVE  Tracks(perTool[t], OfTool(t), Times', now') /\ Limits(ToolLimit, OfTool(t), Times')
  BY <1>0, <1>3, <1>4, TracksLater DEF RateInv
<1>6. ASSUME NEW u \in Callers
      PROVE  /\ Tracks(perCaller[u], OfCaller(u), Times', now')
             /\ Limits(CallerLimit, OfCaller(u), Times')
  BY <1>0, <1>3, <1>4, TracksLater DEF RateInv
<1>7. ASSUME NEW t \in Tools
      PROVE  Tracks(perTool[t], OfTool(t), Times, now)' /\ Limits(ToolLimit, OfTool(t), Times)'
  BY <1>2, <1>5
<1>8. ASSUME NEW u \in Callers
      PROVE  /\ Tracks(perCaller[u], OfCaller(u), Times, now)'
             /\ Limits(CallerLimit, OfCaller(u), Times)'
  BY <1>2, <1>6
<1> QED BY <1>7, <1>8 DEF RateInv

\* Steps of the calls, by what they charge.
LEMMA MovesCharged ==
  ASSUME ChainType, NEW c \in Calls, Moves(c)
  PROVE  \A d \in Calls : call'[d].charged = call[d].charged
<1>1. PICK stage \in {"6c", "6d", "dryRun", "proceed", "answer"} : Goto(c, stage)
  BY MovesGoto
<1>2. call' = [call EXCEPT ![c] = [call[c] EXCEPT !.at = stage]] /\ call \in [Calls -> CallTypes]
  BY <1>1 DEF Goto, ChainType
<1>3. [call[c] EXCEPT !.at = stage].charged = call[c].charged
  BY <1>2 DEF CallTypes
<1> QED BY <1>2, <1>3

LEMMA CapsCharged ==
  ASSUME ChainType, NEW c \in Calls, CapsStage(c)
  PROVE  /\ call'[c].charged = IF WithinRate(c) THEN now ELSE None
         /\ \A d \in Calls \ {c} : call'[d].charged = call[d].charged
<1> DEFINE ok == WithinRate(c) /\ SlotFree(c)
           charged == IF WithinRate(c) THEN now ELSE None
           at == IF ok THEN "6d" ELSE "answer"
<1>1. call' = [call EXCEPT ![c].at = at, ![c].holds = ok, ![c].charged = charged]
  BY DEF CapsStage
<1>2. call[c] \in CallTypes /\ call \in [Calls -> CallTypes]
  BY DEF ChainType
<1> HIDE DEF ok, charged, at
<1>3. call' = [call EXCEPT ![c] = [call[c] EXCEPT !.at = at, !.holds = ok, !.charged = charged]]
  BY <1>1, <1>2
<1>4. [call[c] EXCEPT !.at = at, !.holds = ok, !.charged = charged].charged = charged
  BY <1>2 DEF CallTypes
<1> QED BY <1>2, <1>3, <1>4 DEF charged

LEMMA AnswerCharged ==
  ASSUME ChainType, NEW c \in Calls, Answer(c)
  PROVE  \A d \in Calls : call'[d].charged = call[d].charged
<1>1. call' = [call EXCEPT ![c] = Finished(c)] /\ call \in [Calls -> CallTypes]
  BY DEF Answer, Finished, ChainType
<1>2. Finished(c).charged = call[c].charged
  BY DEF Finished, NoCall
<1> QED BY <1>1, <1>2

\* The windows and the calls of 6c, for the tool or the caller the call is of.
LEMMA ChargedOne ==
  ASSUME now \in Nat, NEW c, NEW window, NEW calls, NEW times, NEW limit \in Nat,
         Tracks(window, calls, times, now), Limits(limit, calls, times),
         WithinRate(c) => Len(Evicted(window)) < limit,
         c \notin calls, NEW after, WithinRate(c) => after[c] = now,
         \A d \in calls : after[d] = times[d],
         NEW add, add = IF WithinRate(c) THEN <<now>> ELSE <<>>,
         NEW all, all = IF WithinRate(c) THEN calls \cup {c} ELSE calls
  PROVE  Tracks(Evicted(window) \o add, all, after, now) /\ Limits(limit, all, after)
<1>1. /\ Tracks(Evicted(window), calls, times, now)
      /\ Len(Evicted(window)) = Cardinality(Since(calls, times, now - Window))
  BY TracksEvicted
<1>2. CASE WithinRate(c)
  <2>1. Tracks(Evicted(window) \o <<now>>, calls \cup {c}, after, now)
    BY <1>1, <1>2, TracksMore
  <2>2. Limits(limit, calls \cup {c}, after)
    BY <1>1, <1>2, LimitsMore
  <2> QED BY <1>2, <2>1, <2>2
<1>3. CASE ~WithinRate(c)
  <2>1. Tracks(Evicted(window), calls, after, now) /\ Limits(limit, calls, after)
    BY <1>1, TracksLater
  <2>2. Evicted(window) \o <<>> = Evicted(window)
    BY <1>1 DEF Tracks
  <2> QED BY <1>3, <2>1, <2>2
<1> QED BY <1>2, <1>3

LEMMA RateCaps ==
  ASSUME RateInv, ChainType', NEW c \in Calls, CapsStage(c)
  PROVE  RateInv'
<1>0. now \in Nat /\ now' = now /\ ChainType /\ call[c].at = "6c" /\ call[c].charged = None
  BY TimeIsNat DEF RateInv, ChainType, CapsStage, killVars
<1> DEFINE add == IF WithinRate(c) THEN <<now>> ELSE <<>>
           tool == ToolOf[c]
           caller == CallerOf[c]
<1>1. tool \in Tools /\ caller \in Callers /\ WithinRate(c) \in BOOLEAN
      /\ ToolLimit \in Nat /\ CallerLimit \in Nat /\ None \notin Nat
  BY ChainAssumption DEF WithinRate
<1>2. /\ call'[c].charged = IF WithinRate(c) THEN now ELSE None
      /\ \A d \in Calls \ {c} : call'[d].charged = call[d].charged
  BY <1>0, CapsCharged
<1>3. /\ perTool' = [perTool EXCEPT ![tool] = Evicted(perTool[tool]) \o add]
      /\ perCaller' = [perCaller EXCEPT ![caller] = Evicted(perCaller[caller]) \o add]
      /\ perTool \in [Tools -> Seq(Nat)] /\ perCaller \in [Callers -> Seq(Nat)]
  BY DEF CapsStage, Charge, RateInv
<1>4. Charged' = (IF WithinRate(c) THEN Charged \cup {c} ELSE Charged) /\ c \notin Charged
  BY <1>0, <1>1, <1>2 DEF Charged
<1>5. /\ OfTool(tool)' = (IF WithinRate(c) THEN OfTool(tool) \cup {c} ELSE OfTool(tool))
      /\ OfCaller(caller)' = (IF WithinRate(c) THEN OfCaller(caller) \cup {c} ELSE OfCaller(caller))
      /\ c \notin OfTool(tool) /\ c \notin OfCaller(caller)
      /\ \A t \in Tools \ {tool} : OfTool(t)' = OfTool(t)
      /\ \A u \in Callers \ {caller} : OfCaller(u)' = OfCaller(u)
  BY <1>4 DEF OfTool, OfCaller
<1>6. /\ WithinRate(c) => Times'[c] = now
      /\ \A d \in Charged : Times'[d] = Times[d]
      /\ \A t, u : OfTool(t) \subseteq Charged /\ OfCaller(u) \subseteq Charged
  BY <1>2, <1>4 DEF Times, Charged, OfTool, OfCaller
<1>7. WithinRate(c) => /\ Len(Evicted(perTool[tool])) < ToolLimit
                       /\ Len(Evicted(perCaller[caller])) < CallerLimit
  BY DEF WithinRate
<1>8. /\ Tracks(perTool[tool], OfTool(tool), Times, now) /\ Limits(ToolLimit, OfTool(tool), Times)
      /\ Tracks(perCaller[caller], OfCaller(caller), Times, now)
      /\ Limits(CallerLimit, OfCaller(caller), Times)
  BY <1>1 DEF RateInv
<1>9. /\ Tracks(Evicted(perTool[tool]) \o add, OfTool(tool)', Times', now)
      /\ Limits(ToolLimit, OfTool(tool)', Times')
  <2>1. \A d \in OfTool(tool) : Times'[d] = Times[d]
    BY <1>6
  <2>2. PICK all : all = OfTool(tool)'
    OBVIOUS
  <2>3. PICK after : after = Times'
    OBVIOUS
  <2>4. /\ now \in Nat /\ ToolLimit \in Nat /\ c \notin OfTool(tool)
        /\ Tracks(perTool[tool], OfTool(tool), Times, now) /\ Limits(ToolLimit, OfTool(tool), Times)
        /\ WithinRate(c) => Len(Evicted(perTool[tool])) < ToolLimit
        /\ all = IF WithinRate(c) THEN OfTool(tool) \cup {c} ELSE OfTool(tool)
    BY <1>0, <1>1, <1>5, <1>7, <1>8, <2>2
  <2>5. /\ WithinRate(c) => after[c] = now
        /\ \A d \in OfTool(tool) : after[d] = Times[d]
        /\ add = IF WithinRate(c) THEN <<now>> ELSE <<>>
    BY <1>6, <2>1, <2>3
  <2> HIDE DEF tool, add
  <2>6. Tracks(Evicted(perTool[tool]) \o add, all, after, now) /\ Limits(ToolLimit, all, after)
    BY <2>4, <2>5, ChargedOne
  <2> QED BY <2>2, <2>3, <2>6
<1>10. /\ Tracks(Evicted(perCaller[caller]) \o add, OfCaller(caller)', Times', now)
       /\ Limits(CallerLimit, OfCaller(caller)', Times')
  <2>1. \A d \in OfCaller(caller) : Times'[d] = Times[d]
    BY <1>6
  <2>2. PICK all : all = OfCaller(caller)'
    OBVIOUS
  <2>3. PICK after : after = Times'
    OBVIOUS
  <2>4. /\ now \in Nat /\ CallerLimit \in Nat /\ c \notin OfCaller(caller)
        /\ Tracks(perCaller[caller], OfCaller(caller), Times, now) /\ Limits(CallerLimit, OfCaller(caller), Times)
        /\ WithinRate(c) => Len(Evicted(perCaller[caller])) < CallerLimit
        /\ all = IF WithinRate(c) THEN OfCaller(caller) \cup {c} ELSE OfCaller(caller)
    BY <1>0, <1>1, <1>5, <1>7, <1>8, <2>2
  <2>5. /\ WithinRate(c) => after[c] = now
        /\ \A d \in OfCaller(caller) : after[d] = Times[d]
        /\ add = IF WithinRate(c) THEN <<now>> ELSE <<>>
    BY <1>6, <2>1, <2>3
  <2> HIDE DEF caller, add
  <2>6. Tracks(Evicted(perCaller[caller]) \o add, all, after, now) /\ Limits(CallerLimit, all, after)
    BY <2>4, <2>5, ChargedOne
  <2> QED BY <2>2, <2>3, <2>6
<1>11. /\ Evicted(perTool[tool]) \o add \in Seq(Nat)
       /\ Evicted(perCaller[caller]) \o add \in Seq(Nat)
  BY <1>9, <1>10 DEF Tracks
<1> HIDE DEF add
<1>12. ASSUME NEW t \in Tools
       PROVE  Tracks(perTool[t], OfTool(t), Times, now)' /\ Limits(ToolLimit, OfTool(t), Times)'
  <2>1. CASE t = tool
    <3>1. perTool'[t] = Evicted(perTool[tool]) \o add
      BY <1>1, <1>3, <2>1
    <3> QED BY <1>0, <1>9, <2>1, <3>1
  <2>2. CASE t # tool
    <3>1. perTool'[t] = perTool[t] /\ OfTool(t)' = OfTool(t)
      BY <1>1, <1>3, <1>5, <2>2
    <3>2. Tracks(perTool[t], OfTool(t), Times, now) /\ Limits(ToolLimit, OfTool(t), Times)
      BY DEF RateInv
    <3>3. \A d \in OfTool(t) : Times'[d] = Times[d]
      BY <1>6
    <3>4. Tracks(perTool[t], OfTool(t), Times', now) /\ Limits(ToolLimit, OfTool(t), Times')
      BY <1>0, <3>2, <3>3, TracksLater
    <3> QED BY <1>0, <3>1, <3>4
  <2> QED BY <2>1, <2>2
<1>13. ASSUME NEW u \in Callers
       PROVE  /\ Tracks(perCaller[u], OfCaller(u), Times, now)'
              /\ Limits(CallerLimit, OfCaller(u), Times)'
  <2>1. CASE u = caller
    <3>1. perCaller'[u] = Evicted(perCaller[caller]) \o add
      BY <1>1, <1>3, <2>1
    <3> QED BY <1>0, <1>10, <2>1, <3>1
  <2>2. CASE u # caller
    <3>1. perCaller'[u] = perCaller[u] /\ OfCaller(u)' = OfCaller(u)
      BY <1>1, <1>3, <1>5, <2>2
    <3>2. Tracks(perCaller[u], OfCaller(u), Times, now) /\ Limits(CallerLimit, OfCaller(u), Times)
      BY DEF RateInv
    <3>3. \A d \in OfCaller(u) : Times'[d] = Times[d]
      BY <1>6
    <3>4. Tracks(perCaller[u], OfCaller(u), Times', now) /\ Limits(CallerLimit, OfCaller(u), Times')
      BY <1>0, <3>2, <3>3, TracksLater
    <3> QED BY <1>0, <3>1, <3>4
  <2> QED BY <2>1, <2>2
<1>14. perTool' \in [Tools -> Seq(Nat)] /\ perCaller' \in [Callers -> Seq(Nat)]
  BY <1>3, <1>11
<1>15. \A d \in Calls : call'[d].at \in {"idle", "6b", "6c"} => call'[d].charged = None
  <2>1. call'[c].at \notin {"idle", "6b", "6c"} /\ \A d \in Calls \ {c} : call'[d] = call[d]
    BY <1>0, CapsIs
  <2> QED BY <2>1 DEF RateInv
<1> QED BY <1>12, <1>13, <1>14, <1>15 DEF RateInv

\* With no calls there is nothing to track.
LEMMA NothingTracked ==
  ASSUME NEW times, NEW time
  PROVE  /\ Tracks(<<>>, {}, times, time)
         /\ \A limit \in Nat : Limits(limit, {}, times)
<1>1. IsFiniteSet({}) /\ Cardinality({}) = 0
  BY FS_EmptySet
<1>2. \A x : Since({}, times, x) = {} /\ Within({}, times, x) = {}
  BY DEF Since, Within
<1>3. <<>> \in Seq(Nat) /\ Len(<<>>) = 0 /\ 0 <= 0 /\ 0 \in 0..0 /\ 0 - 0 = 0
  OBVIOUS
<1>4. \A x : Splits(<<>>, x, 0)
  BY <1>3 DEF Splits
<1>5. ASSUME NEW x
      PROVE  \E j \in 0..Len(<<>>) :
               Splits(<<>>, x, j) /\ Cardinality(Since({}, times, x)) = Len(<<>>) - j
  <2>1. 0 \in 0..Len(<<>>) /\ Cardinality(Since({}, times, x)) = Len(<<>>) - 0
    BY <1>1, <1>2, <1>3
  <2> QED BY <1>4, <2>1
<1>6. Tracks(<<>>, {}, times, time)
  BY <1>1, <1>3, <1>5 DEF Tracks
<1>7. \A limit \in Nat : Limits(limit, {}, times)
  BY <1>1, <1>2 DEF Limits
<1> QED BY <1>6, <1>7

\* The process ends: nothing is charged any more, and the windows are empty.
LEMMA RateShutdown ==
  ASSUME RateInv, ChainType', Shutdown
  PROVE  RateInv'
<1>1. \A c \in Calls : call'[c].charged = None
  <2>1. NoCall.charged = None /\ [NoCall EXCEPT !.at = "done"].charged = None
    BY DEF NoCall
  <2>2. \A c \in Calls : call'[c] \in {NoCall, [NoCall EXCEPT !.at = "done"]}
    BY DEF Shutdown
  <2> QED BY <2>1, <2>2
<1>2. Charged' = {}
  BY <1>1 DEF Charged
<1>3. (\A t : OfTool(t)' = {}) /\ \A u : OfCaller(u)' = {}
  BY <1>2 DEF OfTool, OfCaller
<1>4. /\ perTool' = [t \in Tools |-> <<>>] /\ perCaller' = [u \in Callers |-> <<>>]
  BY DEF Shutdown
<1>6. ToolLimit \in Nat /\ CallerLimit \in Nat
  BY ChainAssumption
<1>7. ASSUME NEW t \in Tools
      PROVE  Tracks(perTool[t], OfTool(t), Times, now)' /\ Limits(ToolLimit, OfTool(t), Times)'
  BY <1>3, <1>4, <1>6, NothingTracked
<1>8. ASSUME NEW u \in Callers
      PROVE  /\ Tracks(perCaller[u], OfCaller(u), Times, now)'
             /\ Limits(CallerLimit, OfCaller(u), Times)'
  BY <1>3, <1>4, <1>6, NothingTracked
<1> QED BY <1>1, <1>4, <1>7, <1>8 DEF RateInv

LEMMA RateInvInit == Init => RateInv
<1> SUFFICES ASSUME Init PROVE RateInv
  OBVIOUS
<1>1. \A c \in Calls : call[c].charged = None
  BY DEF Init, NoCall
<1>2. Charged = {}
  BY <1>1 DEF Charged
<1>3. (\A t : OfTool(t) = {}) /\ \A u : OfCaller(u) = {}
  BY <1>2 DEF OfTool, OfCaller
<1>4. /\ perTool = [t \in Tools |-> <<>>] /\ perCaller = [u \in Callers |-> <<>>]
  BY DEF Init
<1>5. ToolLimit \in Nat /\ CallerLimit \in Nat
  BY ChainAssumption
<1>6. ASSUME NEW t \in Tools
      PROVE  Tracks(perTool[t], OfTool(t), Times, now) /\ Limits(ToolLimit, OfTool(t), Times)
  BY <1>3, <1>4, <1>5, NothingTracked
<1>7. ASSUME NEW u \in Callers
      PROVE  /\ Tracks(perCaller[u], OfCaller(u), Times, now)
             /\ Limits(CallerLimit, OfCaller(u), Times)
  BY <1>3, <1>4, <1>5, NothingTracked
<1>8. perTool \in [Tools -> Seq(Nat)] /\ perCaller \in [Callers -> Seq(Nat)]
  BY <1>4
<1> QED BY <1>1, <1>6, <1>7, <1>8, ChainTypeInit DEF RateInv

LEMMA RateInvStep == RateInv /\ [Next]_vars => RateInv'
<1> SUFFICES ASSUME RateInv, [Next]_vars PROVE RateInv'
  OBVIOUS
<1>1. ChainType /\ ChainType' /\ now \in Nat
  BY ChainTypeStep, TimeIsNat DEF RateInv, ChainType
<1>2. ASSUME NEW c \in Calls, NEW token \in tokens \cup {None}, Arrive(c, token) PROVE RateInv'
  <2>1. token \in Tokens \cup {None} /\ call[c].at = "idle" /\ call[c].charged = None
    BY <1>1, <1>2 DEF ChainType, Arrive, RateInv
  <2>2. UNCHANGED <<now, perTool, perCaller>>
    BY <1>2 DEF Arrive, killVars, limiterVars
  <2>3. call' = [call EXCEPT ![c] = Arrived(c, token)] /\ call \in [Calls -> CallTypes]
        /\ Arrived(c, token).charged = None
    <3>1. call \in [Calls -> CallTypes]
      BY <1>1 DEF ChainType
    <3> QED BY <1>1, <1>2, <2>1, <3>1, ArrivedIs
  <2>4. \A d \in Calls : /\ call'[d].charged = call[d].charged
                         /\ call'[d].at \in {"idle", "6b", "6c"} => call[d].at \in {"idle", "6b", "6c"}
    BY <2>1, <2>3
  <2> QED BY <1>1, <2>2, <2>4, RateKept
<1>3. ASSUME NEW c \in Calls, Moves(c) PROVE RateInv'
  <2>1. UNCHANGED <<now, perTool, perCaller>> /\ \A d \in Calls \ {c} : call'[d] = call[d]
    BY <1>1, <1>3, MovesIs DEF killVars, limiterVars
  <2>2. call'[c].at \in {"idle", "6b", "6c"} => call[c].at \in {"idle", "6b", "6c"}
    BY <1>1, <1>3 DEF Moves, EnabledStage, CheckRefuses, ReadStage, PlanStage, DryRunReturns,
       ConfirmStage, Execute, Goto, Lookup, ChainType, CallTypes
  <2>3. \A d \in Calls : call'[d].charged = call[d].charged
    BY <1>1, <1>3, MovesCharged
  <2> QED BY <1>1, <2>1, <2>2, <2>3, RateKept
<1>4. ASSUME NEW c \in Calls, CapsStage(c) PROVE RateInv'
  BY <1>1, <1>4, RateCaps
<1>5. ASSUME NEW c \in Calls, Answer(c) PROVE RateInv'
  <2>1. UNCHANGED <<now, perTool, perCaller>>
    BY <1>5 DEF Answer, killVars
  <2>2. call'[c].at = "done" /\ \A d \in Calls \ {c} : call'[d] = call[d]
    BY <1>1, <1>5, AnswerIs DEF ChainType
  <2>3. \A d \in Calls : call'[d].charged = call[d].charged
    BY <1>1, <1>5, AnswerCharged
  <2> QED BY <1>1, <2>1, <2>2, <2>3, RateKept
<1>6. CASE Shutdown
  BY <1>1, <1>6, RateShutdown
<1>7. CASE Around \/ Flags \/ UNCHANGED vars
  <2>1. UNCHANGED <<call, perTool, perCaller>>
    BY <1>7 DEF Around, Rescope, Activate, Approve, Flags, vars, chainVars, limiterVars
  <2>2. now' = now \/ now' = now + 1
    BY <1>7 DEF Around, Rescope, Activate, Approve, Flags, vars, killVars, Kill, Refresh, Start, Tick
  <2>3. now <= now'
    BY <1>1, <2>2
  <2> QED BY <1>1, <2>1, <2>3, RateKept
<1> QED BY <1>2, <1>3, <1>4, <1>5, <1>6, <1>7 DEF Next, Walk, Moves

\* In no stretch of time as long as the window does the limiter let more calls of
\* a tool, or of a caller, through than its limit, for any window and limits and
\* any number of calls; and only those it lets through take room in a window.
THEOREM RatesHold == Spec => []RateHolds
<1>1. RateInv => RateHolds
  <2> SUFFICES ASSUME RateInv PROVE RateHolds
    OBVIOUS
  <2>1. ASSUME NEW c \in Charged
        PROVE  LET near == {d \in Charged : call[d].charged - call[c].charged \in 0..Window - 1}
               IN /\ Cardinality({d \in near : ToolOf[d] = ToolOf[c]}) <= ToolLimit
                  /\ Cardinality({d \in near : CallerOf[d] = CallerOf[c]}) <= CallerLimit
    <3>1. call[c].charged \in Nat /\ ToolOf[c] \in Tools /\ CallerOf[c] \in Callers
      BY ChainAssumption DEF Charged, RateInv, ChainType, CallTypes
    <3> DEFINE x == call[c].charged
               near == {d \in Charged : call[d].charged - x \in 0..Window - 1}
    <3>2. /\ {d \in near : ToolOf[d] = ToolOf[c]} = Within(OfTool(ToolOf[c]), Times, x)
          /\ {d \in near : CallerOf[d] = CallerOf[c]} = Within(OfCaller(CallerOf[c]), Times, x)
      BY DEF Within, OfTool, OfCaller, Times, Charged
    <3> QED BY <3>1, <3>2 DEF RateInv, Limits
  <2>2. /\ \A t \in Tools : Len(perTool[t]) <= Cardinality({c \in Charged : ToolOf[c] = t})
        /\ \A u \in Callers : Len(perCaller[u]) <= Cardinality({c \in Charged : CallerOf[c] = u})
    BY DEF RateInv, Tracks, OfTool, OfCaller
  <2> QED BY <2>1, <2>2 DEF RateHolds
<1> QED BY RateInvInit, RateInvStep, <1>1, PTL DEF Spec

-----------------------------------------------------------------------------
\* Every reachable state of the chain is well typed, its windows and slots too.
THEOREM ChainTypeCorrect == Spec => []TypeOK
<1>1. RateInv /\ SlotsInv => TypeOK
  <2> SUFFICES ASSUME RateInv, SlotsInv PROVE TypeOK
    OBVIOUS
  <2>1. global \in 0..GlobalLimit
    BY HoldingIsFinite, FS_CardinalityType, ChainAssumption DEF SlotsInv
  <2> QED BY <2>1 DEF RateInv, SlotsInv, ChainType, TypeOK
<1> QED BY RateInvInit, RateInvStep, SlotsInvInit, SlotsInvStep, <1>1, PTL DEF Spec
=============================================================================
