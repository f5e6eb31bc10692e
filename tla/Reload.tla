-------------------------------- MODULE Reload --------------------------------
(***************************************************************************)
(* Catalogue reloads against live traffic.  A merge moves the definitions  *)
(* tree.  A reload takes its turn, reads the tree twice (the catalogue,    *)
(* then the session assembly and the artefacts), compares the catalogue    *)
(* with the served one, records its outcome, and only then swaps.          *)
(* Meanwhile the requests of one MCP session are re-verified by the        *)
(* assembly that serves when they arrive, and handled by the catalogue     *)
(* that serves when they are handled; plans made on one generation are     *)
(* confirmed on another.                                                   *)
(***************************************************************************)
EXTENDS Integers, Sequences, SequencesExt

CONSTANTS
  Reloads, Requests,
  Trees,        \* the sequence of definitions trees that merges produce
  Absent

\* Of a tree: one tool as the catalogue has it, or its absence; and whether the
\* human and the consumer of the session are granted it.
Tool == [version : Nat, manifest : Nat]
Tree == [tool : Tool \cup {Absent}, grants : BOOLEAN, active : BOOLEAN]

ASSUME ReloadAssumption == Trees \in Seq(Tree) \ {<<>>} /\ Absent \notin Tool

VARIABLES
  tree,         \* the tree on disk, an index into Trees
  current,      \* the serving generation: its number and the trees it was read from
  reload, queue,  \* the reloads, and those waiting for or having their turn
  rows,         \* audit rows of reloads that were recorded as done
  session,      \* the assembly that the live session was last built by
  request,      \* the requests of that session
  plans         \* confirm tokens: the tool as it was planned on, and the generation

reloadVars == <<current, reload, queue, rows>>
requestVars == <<session, request, plans>>
vars == <<tree, reloadVars, requestVars>>

-----------------------------------------------------------------------------
Generations == [number : Nat, catalogue : DOMAIN Trees, assembly : DOMAIN Trees]

ReloadTypes == [at : {"idle", "queued", "building", "recording", "committing", "notifying",
                      "refused", "failed", "swapped"},
                asked : Nat, next : Generations]

RequestTypes == [at : {"idle", "identity", "verified", "handling", "done"},
                 assembly : Nat, inUse : SUBSET Nat,
                 with : Generations, executed : {Absent} \cup Tool,
                 plan : {Absent} \cup [tool : Tool, number : Nat]]

First == [number |-> 1, catalogue |-> 1, assembly |-> 1]

NoRequest == [at |-> "idle", assembly |-> 0, inUse |-> {}, with |-> First,
              executed |-> Absent, plan |-> Absent]

ToolOf(g) == Trees[g.catalogue].tool

-----------------------------------------------------------------------------
(* reloads *)

\* A change is merged, and the clone that the gateway reads has it.
Merge ==
  /\ tree < Len(Trees)
  /\ tree' = tree + 1
  /\ UNCHANGED <<reloadVars, requestVars>>

\* A super admin's request, behind those that are waiting.
Ask(r) ==
  /\ reload[r].at = "idle"
  /\ reload' = [reload EXCEPT ![r].at = "queued", ![r].asked = tree]
  /\ queue' = Append(queue, r)
  /\ UNCHANGED <<tree, current, rows, requestVars>>

\* Anybody else's: refused before the queue, with a row.
Refuse(r) ==
  /\ reload[r].at = "idle"
  /\ reload' = [reload EXCEPT ![r].at = "refused"]
  /\ UNCHANGED <<tree, current, queue, rows, requestVars>>

Turn(r) == queue # <<>> /\ Head(queue) = r

OnlyAfterSuccess(r) == IF reload[r].at = "swapped" THEN Tail(queue) ELSE queue

\* The next in the queue starts whether or not this one failed.
Leaves(r) == Tail(queue)

LoadCatalogue(r) ==
  /\ reload[r].at = "queued" /\ Turn(r)
  /\ \/ reload' = [reload EXCEPT ![r].at = "building", ![r].next =
                     [number |-> current.number + 1, catalogue |-> tree, assembly |-> tree]]
     \/ reload' = [reload EXCEPT ![r].at = "recording", ![r].next = current]
  /\ UNCHANGED <<tree, current, queue, rows, requestVars>>

NoneUnversioned(before, after) == {}

\* A tool of both catalogues whose manifest changed and whose version did not.
UnversionedChanges(before, after) ==
  {t \in {after} \ {Absent} :
     before # Absent /\ before.manifest # t.manifest /\ before.version = t.version}

\* The session assembly and the discovery artefacts are read from the tree as it
\* is by now; artefacts that do not list exactly the catalogue's tools throw.  A
\* refused attempt goes on to be recorded, with nothing to swap in.
BuildGeneration(r) ==
  LET next == [reload[r].next EXCEPT !.assembly = tree]
      listed == (ToolOf(next) = Absent) <=> (Trees[tree].tool = Absent)
      passes == listed /\ UnversionedChanges(ToolOf(current), ToolOf(next)) = {}
  IN /\ reload[r].at = "building"
     /\ \E built \in {passes, FALSE} :
          reload' = [reload EXCEPT ![r].at = "recording",
                                   ![r].next = IF built THEN next ELSE current]
     /\ UNCHANGED <<tree, current, queue, rows, requestVars>>

Refused(r) == reload[r].next = current

\* Evidence first: a reload whose row cannot be appended swaps nothing.
Record(r) ==
  /\ reload[r].at = "recording"
  /\ \/ /\ ~Refused(r)
        /\ rows' = Append(rows, reload[r].next)
        /\ reload' = [reload EXCEPT ![r].at = "committing"]
        /\ UNCHANGED queue
     \/ /\ reload' = [reload EXCEPT ![r].at = IF Refused(r) THEN "refused" ELSE "failed"]
        /\ queue' = Leaves(r)
        /\ UNCHANGED rows
  /\ UNCHANGED <<tree, current, requestVars>>

CommitUnrecorded(r) ==
  /\ reload[r].at \in {"recording", "committing"} /\ ~Refused(r)
  /\ current' = reload[r].next
  /\ reload' = [reload EXCEPT ![r].at = "notifying"]
  /\ UNCHANGED <<tree, queue, rows, requestVars>>

\* One assignment each: the surface's snapshot, the reloader's current generation.
Commit(r) ==
  /\ reload[r].at = "committing"
  /\ current' = reload[r].next
  /\ reload' = [reload EXCEPT ![r].at = "notifying"]
  /\ UNCHANGED <<tree, queue, rows, requestVars>>

AnswerAll(r) ==
  /\ reload[r].at = "notifying"
  /\ reload' = [x \in Reloads |-> IF x \in Range(queue) THEN [reload[x] EXCEPT !.at = "swapped"]
                                  ELSE reload[x]]
  /\ queue' = <<>>
  /\ UNCHANGED <<tree, current, rows, requestVars>>

\* The sessions have been told, or could not be.
Answer(r) ==
  /\ reload[r].at = "notifying"
  /\ reload' = [reload EXCEPT ![r].at = "swapped"]
  /\ queue' = Leaves(r)
  /\ UNCHANGED <<tree, current, rows, requestVars>>

-----------------------------------------------------------------------------
(* requests of one live session *)

InVerification == {q \in Requests : request[q].at = "identity"}

\* The human is authenticated again, by the assembly that serves now.  (inUse is
\* kept for the properties: that assembly, and those that the requests now in
\* verification were given.)
Reverify(q) ==
  /\ request[q].at = "idle"
  /\ request' = [request EXCEPT ![q] =
       [NoRequest EXCEPT !.at = "identity", !.assembly = current.assembly,
          !.inUse = {current.assembly} \cup {request[p].assembly : p \in InVerification}]]
  /\ UNCHANGED <<tree, reloadVars, session, plans>>

CarriedAssembly(q) == session

\* The mapping, the role scopes and the compiled consumer of that assembly.
AssemblyFor(q) == request[q].assembly

\* The identity provider has answered: the session is replaced whole, whatever a
\* later request has made of it meanwhile.  A human who is not resolved, or a
\* consumer that is suspended, is refused and leaves the session as it was.
Reverified(q) ==
  /\ request[q].at = "identity"
  /\ \/ /\ Trees[AssemblyFor(q)].active
        /\ session' = AssemblyFor(q)
        /\ request' = [request EXCEPT ![q].at = "verified"]
     \/ /\ request' = [request EXCEPT ![q].at = "done"]
        /\ UNCHANGED session
  /\ UNCHANGED <<tree, reloadVars, plans>>

\* Its body read, the request takes the served snapshot and the session as they
\* are now, and works from them to its end; it plans, or presents a plan.
Handle(q) ==
  /\ request[q].at = "verified"
  /\ \E plan \in plans \cup {Absent} :
       request' = [request EXCEPT ![q] = [@ EXCEPT
         !.at = IF ToolOf(current) = Absent \/ ~Trees[session].grants THEN "done" ELSE "handling",
         !.assembly = session, !.with = current, !.plan = plan]]
  /\ UNCHANGED <<tree, reloadVars, session, plans>>

Plan(q) ==
  /\ request[q].at = "handling" /\ request[q].plan = Absent
  /\ request' = [request EXCEPT ![q].at = "done"]
  /\ \/ plans' = plans \cup {[tool |-> ToolOf(request[q].with), number |-> request[q].with.number]}
     \/ UNCHANGED plans
  /\ UNCHANGED <<tree, reloadVars, session>>

\* A token is good for the version it was minted for, not for a manifest.
Confirm(q) ==
  /\ request[q].at = "handling" /\ request[q].plan # Absent
  /\ LET tool == ToolOf(request[q].with) IN
     request' = [request EXCEPT ![q].at = "done", ![q].executed =
                   IF request[q].plan.tool.version = tool.version THEN tool ELSE Absent]
  /\ UNCHANGED <<tree, reloadVars, session, plans>>

Init ==
  /\ tree = 1 /\ current = First /\ queue = <<>> /\ rows = <<>>
  /\ reload = [r \in Reloads |-> [at |-> "idle", asked |-> 0, next |-> First]]
  /\ session = 1 /\ request = [q \in Requests |-> NoRequest] /\ plans = {}

Run(r) ==
  LoadCatalogue(r) \/ BuildGeneration(r) \/ Record(r) \/ Commit(r) \/ Answer(r)

Serve(q) == Reverify(q) \/ Reverified(q) \/ Handle(q) \/ Plan(q) \/ Confirm(q)

Next ==
  \/ Merge
  \/ \E r \in Reloads : Ask(r) \/ Refuse(r) \/ Run(r)
  \/ \E q \in Requests : Serve(q)

\* Every await of a reload comes back: files are read, the store answers or throws.
Fairness == \A r \in Reloads : WF_vars(Run(r))

Spec == Init /\ [][Next]_vars /\ Fairness
-----------------------------------------------------------------------------
TypeOK ==
  /\ tree \in DOMAIN Trees /\ current \in Generations /\ session \in DOMAIN Trees
  /\ reload \in [Reloads -> ReloadTypes] /\ queue \in Seq(Reloads) /\ rows \in Seq(Generations)
  /\ request \in [Requests -> RequestTypes]
  /\ plans \subseteq [tool : Tool, number : Nat]

\* What the trail says is serving is what serves: but for the instant between a
\* reload's row and its swap, the last row names the generation that serves, and
\* the numbers in the rows count up from the first generation without a gap
\* (reloadOnce records before it commits, and a throw leaves the old one).
RowsTellServed ==
  /\ (\A r \in Reloads : reload[r].at # "committing") =>
        current = IF rows = <<>> THEN First ELSE Last(rows)
  /\ \A i \in DOMAIN rows : rows[i].number = i + 1

\* From the answer to a reload on, what serves was read no earlier than the reload
\* was asked for: no reload is answered with another's older generation, and none
\* that read the tree earlier swaps in later (the promise queue of reload()).
ReloadsServeWhatWasMerged ==
  \A r \in Reloads : reload[r].at \in {"notifying", "swapped"} =>
    current.catalogue >= reload[r].asked /\ current.assembly >= reload[r].asked

\* A request is scoped by an assembly no older than all of those in use when the
\* request arrived: neither the session's establishment nor its earlier requests
\* hold an old scope in place once their verifications have ended (reverify reads
\* the consumer again and does not carry it).
ScopeIsRenewed ==
  \A q \in Requests : request[q].at = "handling" =>
    \E a \in request[q].inUse : request[q].assembly >= a

\* A plan is executed as it was read when no more than one reload has come
\* between: the comparison of unversionedChanges sees the served catalogue only.
PlannedIsExecuted ==
  \A q \in Requests :
    request[q].executed # Absent /\ request[q].with.number <= request[q].plan.number + 1 =>
      request[q].executed = request[q].plan.tool

\* Every reload that was asked for is answered, also behind one that failed.
AskedIsAnswered ==
  \A r \in Reloads :
    reload[r].at = "queued" ~> reload[r].at \in {"refused", "failed", "swapped"}
=============================================================================
