------------------------------ MODULE ReloadProofs ------------------------------
(***************************************************************************)
(* Theorems about Reload for any reloads and requests and any sequence of  *)
(* trees that merges produce.                                              *)
(***************************************************************************)
EXTENDS Reload, TLAPS

\* A reload in one of these has the turn.
Active == {"building", "recording", "committing", "notifying"}

\* The generation with a number: the first, or the one that a row was written for.
Gen(n) == IF n = 1 THEN First ELSE rows[n - 1]

-----------------------------------------------------------------------------
(***************************************************************************)
(* The reloads.  One at a time is building, recorded or swapped in: the    *)
(* head of the queue (Turns).  So what it compared with the served         *)
(* generation still serves when it swaps, and the row it wrote is still    *)
(* the last one (History).  Each read of the tree comes after the request  *)
(* and after the reads of what serves (Newer, Answered).                   *)
(***************************************************************************)

ReloadType ==
  /\ tree \in DOMAIN Trees /\ current \in Generations
  /\ reload \in [Reloads -> ReloadTypes] /\ queue \in Seq(Reloads) /\ rows \in Seq(Generations)

Turns == \A r \in Reloads : reload[r].at \in Active => queue # <<>> /\ Head(queue) = r

\* Of a generation read for r, that it follows the served one and was read in time.
Follows(r, next) ==
  /\ next.number = current.number + 1
  /\ reload[r].asked <= next.catalogue /\ reload[r].asked <= next.assembly
  /\ current.catalogue <= next.catalogue /\ current.assembly <= next.assembly
  /\ next.catalogue <= tree /\ next.assembly <= tree

Versioned(before, after) == UnversionedChanges(ToolOf(before), ToolOf(after)) = {}

Built(r) ==
  /\ reload[r].at = "building" => Follows(r, reload[r].next)
  /\ reload[r].at = "recording" =>
       reload[r].next = current
         \/ (Follows(r, reload[r].next) /\ Versioned(current, reload[r].next))
  /\ reload[r].at = "committing" =>
       /\ Follows(r, reload[r].next)
       /\ rows # <<>> /\ reload[r].next = Gen(Len(rows) + 1) /\ current = Gen(Len(rows))

Answered(r) ==
  /\ reload[r].asked <= tree
  /\ reload[r].at \in {"notifying", "swapped"} =>
       reload[r].asked <= current.catalogue /\ reload[r].asked <= current.assembly

History ==
  /\ \A i \in DOMAIN rows : rows[i].number = i + 1
  /\ \A i \in DOMAIN rows : Versioned(Gen(i), Gen(i + 1))
  /\ (\A r \in Reloads : reload[r].at # "committing") => current = Gen(Len(rows) + 1)
  /\ current.number \in 1..Len(rows) + 1 /\ current = Gen(current.number)

ReloadInv ==
  /\ ReloadType /\ Turns /\ History
  /\ current.catalogue <= tree /\ current.assembly <= tree
  /\ \A r \in Reloads : Built(r) /\ Answered(r)

LEMMA TreesDomain == DOMAIN Trees = 1..Len(Trees) /\ Len(Trees) \in Nat \ {0}
  BY ReloadAssumption

LEMMA ReloadInvInit == Init => ReloadInv
<1> SUFFICES ASSUME Init PROVE ReloadInv
  OBVIOUS
<1>1. First \in Generations /\ First.number = 1 /\ First.catalogue = 1 /\ First.assembly = 1
  BY TreesDomain DEF First, Generations
<1>2. ReloadType
  BY <1>1, TreesDomain DEF Init, ReloadType, ReloadTypes
<1>3. Turns /\ \A r \in Reloads : Built(r) /\ Answered(r)
  BY DEF Init, Turns, Active, Built, Answered
<1>4. History
  BY <1>1 DEF Init, History, Gen
<1> QED BY <1>1, <1>2, <1>3, <1>4 DEF Init, ReloadInv

\* Requests and merges leave the reloads as they are; a merge makes the tree newer.
LEMMA TrafficKeepsReloads ==
  ASSUME ReloadInv, tree' \in DOMAIN Trees, tree <= tree', UNCHANGED reloadVars
  PROVE  ReloadInv'
<1>1. ReloadType' /\ Turns' /\ History'
  BY DEF ReloadInv, ReloadType, Turns, History, Gen, Versioned, reloadVars
<1>2. current.catalogue \in Nat /\ current.assembly \in Nat /\ tree \in Nat /\ tree' \in Nat
        /\ \A r \in Reloads : /\ reload[r].asked \in Nat /\ reload[r].next.catalogue \in Nat
                              /\ reload[r].next.assembly \in Nat
  BY TreesDomain DEF ReloadInv, ReloadType, ReloadTypes, Generations
<1>3. ASSUME NEW r \in Reloads PROVE Built(r)' /\ Answered(r)'
  <2>1. Built(r) /\ Answered(r) /\ UNCHANGED <<current, reload, rows>>
    BY DEF ReloadInv, reloadVars
  <2>2. Follows(r, reload[r].next) => Follows(r, reload[r].next)'
    BY <1>2, <2>1 DEF Follows
  <2>3. \A n : Gen(n)' = Gen(n)
    BY <2>1 DEF Gen
  <2>4. Versioned(current, reload[r].next)' = Versioned(current, reload[r].next)
    BY <2>1 DEF Versioned
  <2>5. Built(r)'
    BY <2>1, <2>2, <2>3, <2>4 DEF Built
  <2>6. Answered(r)'
    BY <1>2, <2>1 DEF Answered
  <2> QED BY <2>5, <2>6
<1> QED BY <1>1, <1>2, <1>3 DEF ReloadInv, reloadVars

\* What a step of the reload with the turn does to the others: nothing.
LEMMA OthersWait ==
  ASSUME ReloadInv, NEW r \in Reloads, reload[r].at \in Active \/ (reload[r].at = "queued" /\ Turn(r))
  PROVE  \A x \in Reloads \ {r} : reload[x].at \notin Active
  BY DEF ReloadInv, Turns, Turn

\* Written out for one reload, and left to hold of the others.
LEMMA OneMoves ==
  ASSUME ReloadInv, NEW r \in Reloads, tree' = tree,
         reload[r].at \in Active \/ (reload[r].at = "queued" /\ Turn(r)),
         \A x \in Reloads \ {r} : reload'[x] = reload[x],
         current' \in Generations,
         current.catalogue <= current'.catalogue /\ current'.catalogue <= tree,
         current.assembly <= current'.assembly /\ current'.assembly <= tree
  PROVE  \A x \in Reloads \ {r} : Built(x)' /\ Answered(x)'
<1> SUFFICES ASSUME NEW x \in Reloads \ {r} PROVE Built(x)' /\ Answered(x)'
  OBVIOUS
<1>1. reload[x].at \notin Active /\ reload'[x] = reload[x]
  BY OthersWait
<1>2. Built(x)'
  BY <1>1 DEF Built, Active
<1>3. reload[x].asked \in Nat /\ tree \in Nat
        /\ current.catalogue \in Nat /\ current.assembly \in Nat
        /\ current'.catalogue \in Nat /\ current'.assembly \in Nat
  <2>1. reload[x].asked \in Nat
    BY DEF ReloadInv, ReloadType, ReloadTypes
  <2>2. current \in Generations /\ tree \in DOMAIN Trees
    BY DEF ReloadInv, ReloadType
  <2>3. \A g \in Generations : g.catalogue \in Nat /\ g.assembly \in Nat
    BY TreesDomain DEF Generations
  <2> QED BY <2>1, <2>2, <2>3, TreesDomain
<1>4. Answered(x)'
  <2>1. Answered(x)
    BY DEF ReloadInv
  <2> QED BY <1>1, <1>3, <2>1 DEF Answered
<1> QED BY <1>2, <1>4

LEMMA OneMovesOnly ==
  ASSUME ReloadInv, NEW r \in Reloads, UNCHANGED <<tree, current>>,
         reload[r].at \in Active \/ (reload[r].at = "queued" /\ Turn(r)),
         \A x \in Reloads \ {r} : reload'[x] = reload[x]
  PROVE  \A x \in Reloads \ {r} : Built(x)' /\ Answered(x)'
<1>1. /\ current \in Generations /\ current.catalogue <= tree /\ current.assembly <= tree
      /\ current.catalogue <= current.catalogue /\ current.assembly <= current.assembly
  BY TreesDomain DEF ReloadInv, ReloadType, Generations
<1> QED BY <1>1, OneMoves

LEMMA AskStep ==
  ASSUME ReloadInv, NEW r \in Reloads, Ask(r)
  PROVE  ReloadInv'
<1>1. /\ reload'[r].at = "queued" /\ reload'[r].asked = tree /\ reload'[r].next = reload[r].next
      /\ \A x \in Reloads \ {r} : reload'[x] = reload[x]
      /\ reload' \in [Reloads -> ReloadTypes]
  <2> DEFINE asking == [reload[r] EXCEPT !.at = "queued", !.asked = tree]
  <2>1. reload[r] \in ReloadTypes /\ reload \in [Reloads -> ReloadTypes] /\ tree \in Nat
    BY TreesDomain DEF ReloadInv, ReloadType
  <2>2. asking \in ReloadTypes /\ asking.at = "queued" /\ asking.asked = tree
          /\ asking.next = reload[r].next
    BY <2>1 DEF ReloadTypes
  <2>3. reload' = [reload EXCEPT ![r] = asking]
    BY <2>1 DEF Ask
  <2> HIDE DEF asking
  <2> QED BY <2>1, <2>2, <2>3
<1>2. ReloadType'
  BY <1>1 DEF Ask, ReloadInv, ReloadType
<1>3. Turns'
  <2>1. queue # <<>> => queue' # <<>> /\ Head(queue') = Head(queue)
    BY DEF Ask, ReloadInv, ReloadType
  <2> QED BY <1>1, <2>1 DEF ReloadInv, Turns, Active
<1>4. History'
  BY <1>1 DEF Ask, ReloadInv, History, Gen, Versioned
<1>5. ASSUME NEW x \in Reloads PROVE Built(x)' /\ Answered(x)'
  <2>1. UNCHANGED <<tree, current, rows>> /\ tree \in Nat
    BY TreesDomain DEF Ask, ReloadInv, ReloadType
  <2>2. CASE x = r
    BY <1>1, <2>1, <2>2 DEF Built, Answered
  <2>3. CASE x # r
    BY <1>1, <2>1, <2>3 DEF ReloadInv, Built, Answered, Follows, Gen, Versioned
  <2> QED BY <2>2, <2>3
<1> QED BY <1>2, <1>3, <1>4, <1>5 DEF Ask, ReloadInv

LEMMA RefuseStep ==
  ASSUME ReloadInv, NEW r \in Reloads, Refuse(r)
  PROVE  ReloadInv'
<1>1. /\ reload'[r].at = "refused" /\ reload'[r].asked = reload[r].asked
      /\ \A x \in Reloads \ {r} : reload'[x] = reload[x]
      /\ reload' \in [Reloads -> ReloadTypes]
  BY DEF Refuse, ReloadInv, ReloadType, ReloadTypes
<1>2. ReloadType' /\ Turns'
  BY <1>1 DEF Refuse, ReloadInv, ReloadType, Turns, Active
<1>3. History'
  BY <1>1 DEF Refuse, ReloadInv, History, Gen, Versioned
<1>4. ASSUME NEW x \in Reloads PROVE Built(x)' /\ Answered(x)'
  <2>1. UNCHANGED <<tree, current, rows>> /\ Built(x) /\ Answered(x)
    BY DEF Refuse, ReloadInv
  <2>2. CASE x = r
    BY <1>1, <2>1, <2>2 DEF Built, Answered, Active
  <2>3. CASE x # r
    BY <1>1, <2>1, <2>3 DEF Built, Answered, Follows, Gen, Versioned
  <2> QED BY <2>2, <2>3
<1> QED BY <1>2, <1>3, <1>4 DEF Refuse, ReloadInv

LEMMA LoadStep ==
  ASSUME ReloadInv, NEW r \in Reloads, LoadCatalogue(r)
  PROVE  ReloadInv'
<1> DEFINE read == [number |-> current.number + 1, catalogue |-> tree, assembly |-> tree]
<1>1. read \in Generations /\ read.number = current.number + 1 /\ read.catalogue = tree
        /\ read.assembly = tree
  BY TreesDomain DEF ReloadInv, ReloadType, Generations
<1> HIDE DEF read
<1>2. \/ reload' = [reload EXCEPT ![r].at = "building", ![r].next = read]
      \/ reload' = [reload EXCEPT ![r].at = "recording", ![r].next = current]
  BY DEF LoadCatalogue, read
<1>3. /\ reload' \in [Reloads -> ReloadTypes]
      /\ \A x \in Reloads \ {r} : reload'[x] = reload[x]
      /\ reload'[r].asked = reload[r].asked
      /\ \/ reload'[r].at = "building" /\ reload'[r].next = read
         \/ reload'[r].at = "recording" /\ reload'[r].next = current
  BY <1>1, <1>2 DEF ReloadInv, ReloadType, ReloadTypes
<1>4. UNCHANGED <<tree, current, queue, rows>> /\ reload[r].at = "queued" /\ Turn(r)
  BY DEF LoadCatalogue
<1>5. ReloadType'
  BY <1>3, <1>4 DEF ReloadInv, ReloadType
<1>6. Turns'
  BY <1>3, <1>4, OthersWait DEF Turns, Turn
<1>7. History'
  BY <1>3, <1>4, OthersWait DEF ReloadInv, History, Gen, Versioned, Active
<1>8. \A x \in Reloads \ {r} : Built(x)' /\ Answered(x)'
  BY <1>3, <1>4, OneMovesOnly
<1>9. Built(r)' /\ Answered(r)'
  BY <1>1, <1>3, <1>4, TreesDomain DEF ReloadInv, ReloadType, Generations, Built, Answered, Follows
<1> QED BY <1>4, <1>5, <1>6, <1>7, <1>8, <1>9 DEF ReloadInv

LEMMA BuildStep ==
  ASSUME ReloadInv, NEW r \in Reloads, BuildGeneration(r)
  PROVE  ReloadInv'
<1> DEFINE next == [reload[r].next EXCEPT !.assembly = tree]
<1>1. /\ next \in Generations /\ next.number = reload[r].next.number
      /\ next.catalogue = reload[r].next.catalogue /\ next.assembly = tree
  BY DEF ReloadInv, ReloadType, ReloadTypes, Generations
<1>2. PICK result \in Generations :
        /\ reload' = [reload EXCEPT ![r].at = "recording", ![r].next = result]
        /\ result = current \/ (result = next /\ Versioned(current, next))
  <2>1. current \in Generations
    BY DEF ReloadInv, ReloadType
  <2> QED BY <1>1, <2>1 DEF BuildGeneration, Versioned
<1> HIDE DEF next
<1>3. /\ reload' \in [Reloads -> ReloadTypes]
      /\ \A x \in Reloads \ {r} : reload'[x] = reload[x]
      /\ reload'[r].asked = reload[r].asked
      /\ reload'[r].at = "recording" /\ reload'[r].next = result
  BY <1>2 DEF ReloadInv, ReloadType, ReloadTypes
<1>4. UNCHANGED <<tree, current, queue, rows>> /\ reload[r].at = "building"
  BY DEF BuildGeneration
<1>5. ReloadType'
  BY <1>3, <1>4 DEF ReloadInv, ReloadType
<1>6. Turns'
  BY <1>3, <1>4 DEF ReloadInv, Turns, Active
<1>7. History'
  BY <1>3, <1>4, OthersWait DEF ReloadInv, History, Gen, Versioned, Active
<1>8. \A x \in Reloads \ {r} : Built(x)' /\ Answered(x)'
  <2>1. reload[r].at \in Active
    BY <1>4 DEF Active
  <2> QED BY <1>3, <1>4, <2>1, OneMovesOnly
<1>9. Follows(r, next)
  BY <1>1, <1>4, TreesDomain DEF ReloadInv, ReloadType, Built, Answered, Follows
<1>10. Built(r)' /\ Answered(r)'
  BY <1>2, <1>3, <1>4, <1>9 DEF ReloadInv, Built, Answered, Follows, Versioned, ToolOf,
     UnversionedChanges
<1> QED BY <1>4, <1>5, <1>6, <1>7, <1>8, <1>10 DEF ReloadInv

\* A row is written for a built generation, and nothing else happens to it; an
\* attempt that was refused, or whose row is refused, gives up the turn.
LEMMA RecordStep ==
  ASSUME ReloadInv, NEW r \in Reloads, Record(r)
  PROVE  ReloadInv'
<1>1. reload[r].at = "recording" /\ reload[r].at \in Active /\ UNCHANGED <<tree, current>>
  BY DEF Record, Active
<1>2. queue # <<>> /\ \A x \in Reloads \ {r} : reload[x].at \notin Active
  BY <1>1, OthersWait DEF ReloadInv, Turns
<1>3. PICK stage \in {"committing", "refused", "failed"} :
        /\ reload' = [reload EXCEPT ![r].at = stage]
        /\ IF stage = "committing"
           THEN ~Refused(r) /\ rows' = Append(rows, reload[r].next) /\ queue' = queue
           ELSE queue' = Tail(queue) /\ rows' = rows
  BY DEF Record, Leaves
<1>4. /\ reload' \in [Reloads -> ReloadTypes]
      /\ \A x \in Reloads \ {r} : reload'[x] = reload[x]
      /\ reload'[r].asked = reload[r].asked
      /\ reload'[r].at = stage /\ reload'[r].next = reload[r].next
  BY <1>3 DEF ReloadInv, ReloadType, ReloadTypes
<1>5. reload[r].next \in Generations /\ rows \in Seq(Generations) /\ queue \in Seq(Reloads)
  BY DEF ReloadInv, ReloadType, ReloadTypes
<1>6. ReloadType'
  <2>1. Tail(queue) \in Seq(Reloads) /\ Append(rows, reload[r].next) \in Seq(Generations)
    BY <1>2, <1>5
  <2>2. queue' \in Seq(Reloads) /\ rows' \in Seq(Generations)
    BY <1>3, <1>5, <2>1
  <2> QED BY <1>1, <1>4, <2>2 DEF ReloadInv, ReloadType
<1>7. Turns'
  BY <1>1, <1>2, <1>3, <1>4 DEF ReloadInv, Turns, Active
<1>8. \A x \in Reloads \ {r} : Built(x)' /\ Answered(x)'
  BY <1>1, <1>4, OneMovesOnly
<1>9. \A x \in Reloads : reload[x].at # "committing"
  BY <1>1, <1>2 DEF Active
<1>10. CASE stage = "committing"
  <2> DEFINE next == reload[r].next
  <2> PICK n \in Nat : n = Len(rows)
    BY <1>5
  <2>1. rows' = Append(rows, next) /\ next # current
    BY <1>3, <1>10 DEF Refused
  <2>2. Follows(r, next) /\ Versioned(current, next)
    BY <1>1, <2>1 DEF ReloadInv, Built
  <2>3. current = Gen(n + 1) /\ current.number = n + 1
    <3>1. current = Gen(n + 1) /\ current.number \in 1..n + 1
      BY <1>9 DEF ReloadInv, History
    <3>2. \A i \in DOMAIN rows : rows[i].number = i + 1
      BY DEF ReloadInv, History
    <3>3. Len(rows) \in Nat /\ (n > 0 => n \in DOMAIN rows)
      BY <1>5
    <3> QED BY <3>1, <3>2, <3>3 DEF Gen, First
  <2>4. /\ Len(rows') = n + 1 /\ rows'[n + 1] = next
        /\ \A i \in 1..n : rows'[i] = rows[i]
        /\ DOMAIN rows = 1..n /\ DOMAIN rows' = 1..n + 1
    BY <1>5, <2>1
  <2>5. \A m \in 1..n + 1 : Gen(m)' = Gen(m)
    BY <2>4 DEF Gen
  <2>6. Gen(n + 2)' = next
    BY <2>4 DEF Gen
  <2>7. next.number = n + 2
    BY <2>2, <2>3, <2>4 DEF Follows
  <2>8. History'
    <3>1. \A i \in DOMAIN rows' : rows'[i].number = i + 1
      BY <2>4, <2>7 DEF ReloadInv, History
    <3>2. ASSUME NEW i \in DOMAIN rows' PROVE Versioned(Gen(i), Gen(i + 1))'
      <4>1. CASE i = n + 1
        <5>1. Gen(i)' = current /\ Gen(i + 1)' = next
          BY <2>3, <2>4, <2>5, <2>6, <4>1
        <5> QED BY <2>2, <5>1 DEF Versioned
      <4>2. CASE i \in DOMAIN rows
        <5>1. Gen(i)' = Gen(i) /\ Gen(i + 1)' = Gen(i + 1) /\ Versioned(Gen(i), Gen(i + 1))
          BY <2>4, <2>5, <4>2 DEF ReloadInv, History
        <5> QED BY <5>1 DEF Versioned
      <4> QED BY <2>4, <4>1, <4>2
    <3>3. current'.number \in 1..Len(rows') + 1 /\ current' = Gen(current.number)'
      BY <1>1, <2>3, <2>4, <2>5
    <3> QED BY <1>1, <1>4, <1>10, <3>1, <3>2, <3>3 DEF History
  <2>9. Built(r)'
    <3>1. Follows(r, reload[r].next)'
      BY <1>1, <1>4, <2>2 DEF Follows
    <3>2. rows' # <<>> /\ reload'[r].next = Gen(n + 2)' /\ current' = Gen(n + 1)'
      BY <1>1, <1>4, <2>3, <2>4, <2>5, <2>6
    <3> QED BY <1>4, <1>10, <2>4, <3>1, <3>2 DEF Built
  <2>10. Answered(r)'
    BY <1>1, <1>4, <1>10 DEF ReloadInv, Answered
  <2> QED BY <1>1, <1>6, <1>7, <1>8, <2>8, <2>9, <2>10 DEF ReloadInv
<1>11. CASE stage # "committing"
  <2>1. rows' = rows
    BY <1>3, <1>11
  <2>2. History'
    BY <1>1, <1>9, <2>1 DEF ReloadInv, History, Gen, Versioned
  <2>3. Built(r)' /\ Answered(r)'
    BY <1>1, <1>4, <1>11 DEF ReloadInv, Built, Answered
  <2> QED BY <1>1, <1>6, <1>7, <1>8, <2>2, <2>3 DEF ReloadInv
<1> QED BY <1>10, <1>11

LEMMA CommitStep ==
  ASSUME ReloadInv, NEW r \in Reloads, Commit(r)
  PROVE  ReloadInv'
<1>1. reload[r].at = "committing" /\ reload[r].at \in Active /\ UNCHANGED <<tree, queue, rows>>
        /\ current' = reload[r].next
  BY DEF Commit, Active
<1>2. \A x \in Reloads \ {r} : reload[x].at \notin Active
  BY <1>1, OthersWait
<1>3. /\ reload' \in [Reloads -> ReloadTypes]
      /\ \A x \in Reloads \ {r} : reload'[x] = reload[x]
      /\ reload'[r].asked = reload[r].asked
      /\ reload'[r].at = "notifying"
  BY DEF Commit, ReloadInv, ReloadType, ReloadTypes
<1>4. /\ Follows(r, current') /\ rows # <<>>
      /\ current' = Gen(Len(rows) + 1) /\ current = Gen(Len(rows))
  BY <1>1 DEF ReloadInv, Built
<1>5. ReloadType' /\ current' \in Generations
  BY <1>1, <1>3 DEF ReloadInv, ReloadType, ReloadTypes
<1>6. Turns'
  BY <1>1, <1>3 DEF ReloadInv, Turns, Active
<1>7. /\ current.catalogue <= current'.catalogue /\ current'.catalogue <= tree
      /\ current.assembly <= current'.assembly /\ current'.assembly <= tree
      /\ reload[r].asked <= current'.catalogue /\ reload[r].asked <= current'.assembly
  BY <1>4 DEF Follows
<1>8. \A x \in Reloads \ {r} : Built(x)' /\ Answered(x)'
  BY <1>1, <1>3, <1>5, <1>7, OneMoves
<1>9. Built(r)' /\ Answered(r)'
  BY <1>1, <1>3, <1>7 DEF ReloadInv, Built, Answered
<1>10. History'
  <2>1. Len(rows) \in Nat \ {0} /\ DOMAIN rows = 1..Len(rows)
    BY <1>4 DEF ReloadInv, ReloadType
  <2>2. \A n : Gen(n)' = Gen(n)
    BY <1>1 DEF Gen
  <2>3. \A i \in DOMAIN rows : Versioned(Gen(i), Gen(i + 1))'
    BY <2>2 DEF ReloadInv, History, Versioned
  <2>4. current' = rows[Len(rows)]
    BY <1>4, <2>1 DEF Gen
  <2>5. current'.number = Len(rows) + 1
    BY <2>1, <2>4 DEF ReloadInv, History
  <2> QED BY <1>1, <1>4, <2>1, <2>2, <2>3, <2>5 DEF ReloadInv, History
<1> QED BY <1>1, <1>5, <1>6, <1>7, <1>8, <1>9, <1>10 DEF ReloadInv

LEMMA AnswerStep ==
  ASSUME ReloadInv, NEW r \in Reloads, Answer(r)
  PROVE  ReloadInv'
<1>1. reload[r].at = "notifying" /\ reload[r].at \in Active /\ UNCHANGED <<tree, current, rows>>
        /\ queue' = Tail(queue)
  BY DEF Answer, Active, Leaves
<1>2. queue # <<>> /\ \A x \in Reloads \ {r} : reload[x].at \notin Active
  BY <1>1, OthersWait DEF ReloadInv, Turns
<1>3. /\ reload' \in [Reloads -> ReloadTypes]
      /\ \A x \in Reloads \ {r} : reload'[x] = reload[x]
      /\ reload'[r].asked = reload[r].asked
      /\ reload'[r].at = "swapped"
  BY DEF Answer, ReloadInv, ReloadType, ReloadTypes
<1>4. ReloadType'
  BY <1>1, <1>2, <1>3 DEF ReloadInv, ReloadType
<1>5. Turns'
  BY <1>2, <1>3 DEF Turns, Active
<1>6. History'
  BY <1>1, <1>2, <1>3 DEF ReloadInv, History, Gen, Versioned, Active
<1>7. \A x \in Reloads \ {r} : Built(x)' /\ Answered(x)'
  BY <1>1, <1>3, OneMovesOnly
<1>8. Built(r)' /\ Answered(r)'
  BY <1>1, <1>3 DEF ReloadInv, Built, Answered
<1> QED BY <1>1, <1>4, <1>5, <1>6, <1>7, <1>8 DEF ReloadInv

LEMMA ReloadInvStep == ReloadInv /\ [Next]_vars => ReloadInv'
<1> SUFFICES ASSUME ReloadInv, [Next]_vars PROVE ReloadInv'
  OBVIOUS
<1>1. CASE Merge
  BY <1>1, TrafficKeepsReloads, TreesDomain DEF Merge, ReloadInv, ReloadType
<1>2. ASSUME NEW r \in Reloads, Ask(r) \/ Refuse(r) \/ Run(r) PROVE ReloadInv'
  BY <1>2, AskStep, RefuseStep, LoadStep, BuildStep, RecordStep, CommitStep, AnswerStep DEF Run
<1>3. CASE (\E q \in Requests : Serve(q)) \/ UNCHANGED vars
  <2>1. UNCHANGED <<tree, reloadVars>>
    BY <1>3 DEF Serve, Reverify, Reverified, Handle, Plan, Confirm, vars
  <2> QED BY <2>1, TrafficKeepsReloads, TreesDomain DEF ReloadInv, ReloadType
<1> QED BY <1>1, <1>2, <1>3 DEF Next

\* The trail tells what serves, whatever reloads overlap and whatever of them fail.
THEOREM TrailTellsServed == Spec => []RowsTellServed
<1>1. ReloadInv => RowsTellServed
  <2> SUFFICES ASSUME ReloadInv PROVE RowsTellServed
    OBVIOUS
  <2>1. rows \in Seq(Generations)
    BY DEF ReloadInv, ReloadType
  <2>2. Gen(Len(rows) + 1) = IF rows = <<>> THEN First ELSE Last(rows)
    BY <2>1 DEF Gen, Last
  <2> QED BY <2>2 DEF ReloadInv, History, RowsTellServed
<1> QED BY ReloadInvInit, ReloadInvStep, <1>1, PTL DEF Spec

\* An answered reload serves what had been merged when it was asked for.
THEOREM ServesWhatWasMerged == Spec => []ReloadsServeWhatWasMerged
<1>1. ReloadInv => ReloadsServeWhatWasMerged
  <2>1. ReloadInv => /\ current.catalogue \in Nat /\ current.assembly \in Nat
                     /\ \A r \in Reloads : reload[r].asked \in Nat
    BY TreesDomain DEF ReloadInv, ReloadType, ReloadTypes, Generations
  <2> QED BY <2>1 DEF ReloadInv, Answered, ReloadsServeWhatWasMerged
<1> QED BY ReloadInvInit, ReloadInvStep, <1>1, PTL DEF Spec

-----------------------------------------------------------------------------
(***************************************************************************)
(* The requests.  A session is replaced by what a verification was given   *)
(* when it began, so the session is as new as the oldest verification in   *)
(* progress was then (Scoped).  A plan and a snapshot each name a          *)
(* generation of the history, and two neighbours there differ in no tool   *)
(* of one version (Planned).                                               *)
(***************************************************************************)

RequestType ==
  /\ session \in DOMAIN Trees /\ request \in [Requests -> RequestTypes]
  /\ plans \subseteq [tool : Tool, number : Nat]
  /\ \A q \in Requests : request[q].at = "identity" => request[q].assembly \in DOMAIN Trees

NotBefore(assembly, inUse) == \E a \in inUse : assembly >= a

Scoped ==
  \A q \in Requests :
    /\ request[q].at \in {"identity", "verified"} =>
         /\ NotBefore(current.assembly, request[q].inUse)
         /\ \A p \in InVerification : NotBefore(request[p].assembly, request[q].inUse)
    /\ request[q].at = "verified" => NotBefore(session, request[q].inUse)
    /\ request[q].at = "handling" => NotBefore(request[q].assembly, request[q].inUse)

\* A plan is of a generation no newer than number.
PlanOf(plan, number) == plan.number \in 1..number /\ plan.tool = ToolOf(Gen(plan.number))

Read(q) ==
  request[q].executed # Absent /\ request[q].with.number <= request[q].plan.number + 1 =>
    request[q].executed = request[q].plan.tool

Planned ==
  /\ \A plan \in plans : PlanOf(plan, current.number)
  /\ \A q \in Requests :
       /\ Read(q) /\ (request[q].at # "done" => request[q].executed = Absent)
       /\ request[q].at = "handling" =>
            /\ request[q].with.number \in 1..current.number
            /\ request[q].with = Gen(request[q].with.number)
            /\ ToolOf(request[q].with) # Absent
            /\ request[q].plan # Absent => PlanOf(request[q].plan, request[q].with.number)

RequestInv == ReloadInv /\ RequestType /\ Scoped /\ Planned

LEMMA NoRequestType == NoRequest \in RequestTypes
<1>1. First \in Generations
  BY TreesDomain DEF First, Generations
<1> QED BY <1>1 DEF NoRequest, RequestTypes

LEMMA RequestInvInit == Init => RequestInv
<1> SUFFICES ASSUME Init PROVE RequestInv
  OBVIOUS
<1>1. NoRequest.at = "idle" /\ NoRequest.executed = Absent
  BY DEF NoRequest
<1>2. RequestType
  BY <1>1, NoRequestType, TreesDomain DEF Init, RequestType
<1>3. Scoped /\ Planned
  BY <1>1 DEF Init, Scoped, Planned, Read
<1> QED BY <1>2, <1>3, ReloadInvInit DEF RequestInv

\* Generations are added to the history, and what serves only gets newer.
LEMMA HistoryGrows ==
  ASSUME ReloadInv, [Next]_vars
  PROVE  /\ current.number <= current'.number /\ current.assembly <= current'.assembly
         /\ current.number \in Nat /\ current'.number \in Nat
         /\ current.assembly \in Nat /\ current'.assembly \in Nat
         /\ \A n \in 1..current.number : Gen(n)' = Gen(n)
<1>1. ReloadInv'
  BY ReloadInvStep
<1>2. /\ current.number \in Nat /\ current'.number \in Nat
      /\ current.assembly \in Nat /\ current'.assembly \in Nat
  BY <1>1, TreesDomain DEF ReloadInv, ReloadType, Generations
<1>3. CASE UNCHANGED <<current, rows>>
  BY <1>2, <1>3 DEF Gen
<1>4. ASSUME NEW r \in Reloads, Record(r), rows' = Append(rows, reload[r].next)
      PROVE  UNCHANGED current /\ \A n \in 1..current.number : Gen(n)' = Gen(n)
  <2>1. rows \in Seq(Generations) /\ reload[r].next \in Generations
          /\ current.number \in 1..Len(rows) + 1
    BY DEF ReloadInv, ReloadType, ReloadTypes, History
  <2>2. Len(rows) \in Nat /\ \A i \in 1..Len(rows) : rows'[i] = rows[i]
    BY <1>4, <2>1
  <2>3. ASSUME NEW n \in 1..current.number PROVE Gen(n)' = Gen(n)
    <3>1. n = 1 \/ n - 1 \in 1..Len(rows)
      BY <2>1, <2>2
    <3> QED BY <2>2, <3>1 DEF Gen
  <2> QED BY <1>4, <2>3 DEF Record
<1>5. ASSUME NEW r \in Reloads, Commit(r)
      PROVE  /\ current.number <= current'.number /\ current.assembly <= current'.assembly
             /\ \A n \in 1..current.number : Gen(n)' = Gen(n)
  <2>1. Follows(r, current') /\ UNCHANGED rows
    BY <1>5 DEF Commit, ReloadInv, Built
  <2> QED BY <1>2, <2>1 DEF Follows, Gen
<1>6. ASSUME NEW r \in Reloads, Ask(r) \/ Refuse(r) \/ Run(r),
             ~(Record(r) /\ rows' = Append(rows, reload[r].next)), ~Commit(r)
      PROVE  UNCHANGED <<current, rows>>
  BY <1>6 DEF Ask, Refuse, Run, LoadCatalogue, BuildGeneration, Record, Answer
<1>7. Merge \/ (\E q \in Requests : Serve(q)) \/ UNCHANGED vars => UNCHANGED <<current, rows>>
  BY DEF Merge, Serve, Reverify, Reverified, Handle, Plan, Confirm, vars, reloadVars
<1> QED BY <1>2, <1>3, <1>4, <1>5, <1>6, <1>7 DEF Next

\* What held of an older history holds of a newer one.
LEMMA NewerHistory ==
  ASSUME RequestInv, [Next]_vars, UNCHANGED requestVars
  PROVE  RequestInv'
<1>1. ReloadInv'
  BY ReloadInvStep DEF RequestInv
<1>2. /\ current.number <= current'.number /\ current.assembly <= current'.assembly
      /\ current.number \in Nat /\ current'.number \in Nat
      /\ current.assembly \in Nat /\ current'.assembly \in Nat
      /\ \A n \in 1..current.number : Gen(n)' = Gen(n)
  BY HistoryGrows DEF RequestInv
<1>3. UNCHANGED <<session, request, plans>>
  BY DEF requestVars
<1>4. RequestType'
  BY <1>3 DEF RequestInv, RequestType
<1>5. \A q \in Requests : request[q].inUse \subseteq Nat
  BY DEF RequestInv, RequestType, RequestTypes
<1>6. ASSUME NEW q \in Requests, NotBefore(current.assembly, request[q].inUse)
      PROVE  NotBefore(current.assembly, request[q].inUse)'
  BY <1>2, <1>3, <1>5, <1>6 DEF NotBefore
<1>7. Scoped'
  BY <1>3, <1>6 DEF RequestInv, Scoped, NotBefore, InVerification
<1>8. \A plan \in plans' : PlanOf(plan, current.number)'
  <2> SUFFICES ASSUME NEW plan \in plans PROVE PlanOf(plan, current.number)'
    BY <1>3
  <2>1. PlanOf(plan, current.number)
    BY DEF RequestInv, Planned
  <2> QED BY <1>2, <2>1 DEF PlanOf, ToolOf
<1>9. ASSUME NEW q \in Requests, request[q].at = "handling"
       PROVE  /\ request[q].with.number \in 1..current'.number
              /\ request[q].with = Gen(request[q].with.number)'
              /\ ToolOf(request[q].with) # Absent
              /\ request[q].plan # Absent => PlanOf(request[q].plan, request[q].with.number)'
  <2>1. /\ request[q].with.number \in 1..current.number
        /\ request[q].with = Gen(request[q].with.number)
        /\ ToolOf(request[q].with) # Absent
        /\ request[q].plan # Absent => PlanOf(request[q].plan, request[q].with.number)
    BY <1>9 DEF RequestInv, Planned
  <2>2. Gen(request[q].with.number)' = Gen(request[q].with.number)
    BY <1>2, <1>3, <2>1
  <2>3. request[q].plan # Absent => PlanOf(request[q].plan, request[q].with.number)'
    BY <1>2, <1>3, <2>1 DEF PlanOf, ToolOf
  <2> QED BY <1>2, <2>1, <2>2, <2>3
<1>10. Planned'
  BY <1>3, <1>8, <1>9 DEF RequestInv, Planned, Read, ToolOf
<1> QED BY <1>1, <1>4, <1>7, <1>10 DEF RequestInv

\* What each step makes of the request, for the lemma that follows.
LEMMA OneServed ==
  ASSUME RequestInv, NEW q \in Requests, UNCHANGED <<tree, reloadVars>>,
         request' \in [Requests -> RequestTypes],
         \A p \in Requests \ {q} : request'[p] = request[p],
         session' \in DOMAIN Trees,
         plans' \subseteq [tool : Tool, number : Nat],
         request'[q].at = "identity" => request'[q].assembly \in DOMAIN Trees,
         Scoped',
         \A plan \in plans' : PlanOf(plan, current.number),
         Read(q)' /\ (request'[q].at # "done" => request'[q].executed = Absent),
         request'[q].at = "handling" =>
            /\ request'[q].with.number \in 1..current.number
            /\ request'[q].with = Gen(request'[q].with.number)
            /\ ToolOf(request'[q].with) # Absent
            /\ request'[q].plan # Absent => PlanOf(request'[q].plan, request'[q].with.number)
  PROVE  RequestInv'
<1>1. ReloadInv'
  BY TrafficKeepsReloads, TreesDomain DEF RequestInv, ReloadInv, ReloadType
<1>2. RequestType'
  BY DEF RequestInv, RequestType
<1>3. \A n : Gen(n)' = Gen(n)
  BY DEF Gen, reloadVars
<1>4. UNCHANGED current
  BY DEF reloadVars
<1>5. \A plan \in plans' : PlanOf(plan, current.number)'
  BY <1>3, <1>4 DEF PlanOf, ToolOf
<1>6. ASSUME NEW p \in Requests
      PROVE  /\ Read(p)' /\ (request'[p].at # "done" => request'[p].executed = Absent)
             /\ request'[p].at = "handling" =>
                  /\ request'[p].with.number \in 1..current'.number
                  /\ request'[p].with = Gen(request[p].with.number)'
                  /\ ToolOf(request'[p].with) # Absent
                  /\ request'[p].plan # Absent => PlanOf(request[p].plan, request[p].with.number)'
  <2>1. CASE p = q
    BY <1>3, <1>4, <2>1 DEF PlanOf, ToolOf, Gen, reloadVars
  <2>2. CASE p # q
    <3>1. request'[p] = request[p] /\ UNCHANGED <<tree, current, rows>>
      BY <2>2 DEF reloadVars
    <3> QED BY <1>3, <3>1 DEF RequestInv, Planned, Read, PlanOf, ToolOf
  <2> QED BY <2>1, <2>2
<1>7. Planned'
  BY <1>5, <1>6 DEF Planned, ToolOf
<1> QED BY <1>1, <1>2, <1>7 DEF RequestInv

\* A verification begins: all that is in use by then is on record.
LEMMA ReverifyStep ==
  ASSUME RequestInv, NEW q \in Requests, Reverify(q)
  PROVE  RequestInv'
<1> DEFINE inUse == {current.assembly} \cup {request[p].assembly : p \in InVerification}
           begun == [NoRequest EXCEPT !.at = "identity", !.assembly = current.assembly,
                                      !.inUse = inUse]
<1>1. request' = [request EXCEPT ![q] = begun] /\ request[q].at = "idle"
  BY DEF Reverify
<1>2. current.assembly \in DOMAIN Trees /\ current.assembly \in Nat /\ inUse \in SUBSET Nat
  <2>1. current.assembly \in DOMAIN Trees /\ current.assembly \in Nat
    BY TreesDomain DEF RequestInv, ReloadInv, ReloadType, Generations
  <2>2. \A p \in Requests : request[p].assembly \in Nat
    BY DEF RequestInv, RequestType, RequestTypes
  <2> QED BY <2>1, <2>2 DEF InVerification
<1>3. \A p \in InVerification : request[p].assembly \in inUse
  OBVIOUS
<1>4. current.assembly \in inUse
  OBVIOUS
<1> HIDE DEF inUse
<1>5. begun \in RequestTypes
  BY <1>2, NoRequestType DEF RequestTypes
<1>6. /\ begun.at = "identity" /\ begun.assembly = current.assembly /\ begun.inUse = inUse
      /\ begun.executed = Absent
  BY DEF NoRequest
<1> HIDE DEF begun
<1>7. /\ request' \in [Requests -> RequestTypes] /\ request'[q] = begun
      /\ \A p \in Requests \ {q} : request'[p] = request[p]
  BY <1>1, <1>5 DEF RequestInv, RequestType
<1>8. UNCHANGED <<tree, reloadVars, session, plans, current>>
  BY DEF Reverify, reloadVars
<1>9. InVerification' = InVerification \cup {q}
  BY <1>6, <1>7 DEF InVerification
<1>10. ASSUME NEW p \in Requests
       PROVE  /\ request'[p].at \in {"identity", "verified"} =>
                   /\ NotBefore(current.assembly, request'[p].inUse)
                   /\ \A x \in InVerification' :
                        NotBefore(request'[x].assembly, request'[p].inUse)
              /\ request'[p].at = "verified" => NotBefore(session, request'[p].inUse)
              /\ request'[p].at = "handling" =>
                   NotBefore(request'[p].assembly, request'[p].inUse)
  <2>1. CASE p = q
    <3>1. ASSUME NEW x \in InVerification' PROVE NotBefore(request'[x].assembly, inUse)
      <4>1. request'[x].assembly \in inUse
        <5>1. CASE x = q
          BY <1>4, <1>6, <1>7, <5>1
        <5>2. CASE x # q
          <6>1. x \in InVerification /\ request'[x] = request[x]
            BY <1>7, <1>9, <5>2 DEF InVerification
          <6> QED BY <1>3, <6>1
        <5> QED BY <5>1, <5>2
      <4>2. request'[x].assembly \in Nat
        BY <1>2, <4>1
      <4>3. request'[x].assembly >= request'[x].assembly
        BY <4>2
      <4> QED BY <4>1, <4>3 DEF NotBefore
    <3>2. NotBefore(current.assembly, inUse)
      BY <1>2, <1>4 DEF NotBefore
    <3> QED BY <1>6, <1>7, <2>1, <3>1, <3>2
  <2>2. CASE p # q
    BY <1>6, <1>7, <1>9, <2>2 DEF RequestInv, Scoped, InVerification
  <2> QED BY <2>1, <2>2
<1>11. Scoped'
  BY <1>8, <1>10 DEF Scoped, NotBefore
<1>12. Read(q)'
  BY <1>6, <1>7 DEF Read
<1> QED BY <1>2, <1>6, <1>7, <1>8, <1>11, <1>12, OneServed DEF RequestInv, RequestType, Planned

\* A verification ends, in whatever order the identity provider answers.
LEMMA ReverifiedStep ==
  ASSUME RequestInv, NEW q \in Requests, Reverified(q)
  PROVE  RequestInv'
<1>1. request[q].at = "identity" /\ request[q].assembly \in DOMAIN Trees
  BY DEF Reverified, RequestInv, RequestType
<1>2. PICK stage \in {"verified", "done"} :
        /\ request' = [request EXCEPT ![q].at = stage]
        /\ IF stage = "verified" THEN session' = request[q].assembly ELSE session' = session
  BY DEF Reverified, AssemblyFor
<1>3. /\ request' \in [Requests -> RequestTypes]
      /\ \A p \in Requests \ {q} : request'[p] = request[p]
      /\ request'[q].at = stage /\ request'[q].inUse = request[q].inUse
      /\ request'[q].executed = request[q].executed /\ request'[q].with = request[q].with
      /\ request'[q].plan = request[q].plan
  BY <1>2 DEF RequestInv, RequestType, RequestTypes
<1>4. UNCHANGED <<tree, reloadVars, plans, current>>
  BY DEF Reverified, reloadVars
<1>5. session' \in DOMAIN Trees
  BY <1>1, <1>2 DEF RequestInv, RequestType
<1>6. InVerification' \subseteq InVerification \ {q} /\ q \in InVerification
  BY <1>1, <1>3 DEF InVerification
<1>7. ASSUME NEW p \in Requests
      PROVE  /\ request'[p].at \in {"identity", "verified"} =>
                  /\ NotBefore(current.assembly, request'[p].inUse)
                  /\ \A x \in InVerification' : NotBefore(request'[x].assembly, request'[p].inUse)
             /\ request'[p].at = "verified" => NotBefore(session', request'[p].inUse)
             /\ request'[p].at = "handling" => NotBefore(request'[p].assembly, request'[p].inUse)
  <2>1. request[p].at \in {"identity", "verified"} =>
          /\ NotBefore(current.assembly, request[p].inUse)
          /\ \A x \in InVerification : NotBefore(request[x].assembly, request[p].inUse)
    BY DEF RequestInv, Scoped
  <2>2. \A x \in InVerification' : request'[x] = request[x]
    BY <1>3, <1>6 DEF InVerification
  <2>3. request'[p].inUse = request[p].inUse
    BY <1>3
  <2>4. request'[p].at \in {"identity", "verified"} => request[p].at \in {"identity", "verified"}
    BY <1>1, <1>3
  <2>5. request'[p].at = "verified" => NotBefore(session', request'[p].inUse)
    <3>1. CASE stage = "verified"
      BY <1>2, <1>6, <2>1, <2>3, <2>4, <3>1
    <3>2. CASE stage # "verified"
      BY <1>2, <1>3, <2>3, <3>2 DEF RequestInv, Scoped
    <3> QED BY <3>1, <3>2
  <2>6. request'[p].at = "handling" => NotBefore(request'[p].assembly, request'[p].inUse)
    BY <1>3 DEF RequestInv, Scoped
  <2> QED BY <1>6, <2>1, <2>2, <2>3, <2>4, <2>5, <2>6
<1>8. Scoped'
  BY <1>4, <1>7 DEF Scoped, NotBefore
<1>9. Read(q)' /\ request'[q].executed = Absent
  BY <1>1, <1>3 DEF RequestInv, Planned, Read
<1> QED BY <1>3, <1>4, <1>5, <1>8, <1>9, OneServed DEF RequestInv, RequestType, Planned

\* The request takes the session and the served generation as they are by now.
LEMMA HandleStep ==
  ASSUME RequestInv, NEW q \in Requests, Handle(q)
  PROVE  RequestInv'
<1> DEFINE stage == IF ToolOf(current) = Absent \/ ~Trees[session].grants THEN "done"
                    ELSE "handling"
<1>1. PICK plan \in plans \cup {Absent} :
        request' = [request EXCEPT ![q] = [@ EXCEPT !.at = stage, !.assembly = session,
                                                    !.with = current, !.plan = plan]]
  BY DEF Handle
<1>2. request[q].at = "verified" /\ UNCHANGED <<tree, reloadVars, session, plans, current>>
  BY DEF Handle, reloadVars
<1>3. /\ stage \in {"done", "handling"} /\ (stage = "handling" => ToolOf(current) # Absent)
      /\ session \in Nat /\ current \in Generations
      /\ plan \in {Absent} \cup [tool : Tool, number : Nat]
  BY TreesDomain DEF RequestInv, RequestType, ReloadInv, ReloadType
<1> HIDE DEF stage
<1> DEFINE taken == [request[q] EXCEPT !.at = stage, !.assembly = session,
                                       !.with = current, !.plan = plan]
<1>4. taken \in RequestTypes
  BY <1>3 DEF RequestInv, RequestType, RequestTypes
<1>5. /\ taken.at = stage /\ taken.assembly = session /\ taken.with = current
      /\ taken.plan = plan /\ taken.inUse = request[q].inUse
      /\ taken.executed = request[q].executed
  BY DEF RequestInv, RequestType, RequestTypes
<1>6. request' = [request EXCEPT ![q] = taken]
  BY <1>1
<1> HIDE DEF taken
<1>7. /\ request' \in [Requests -> RequestTypes] /\ request'[q] = taken
      /\ \A p \in Requests \ {q} : request'[p] = request[p]
  BY <1>4, <1>6 DEF RequestInv, RequestType
<1>8. InVerification' = InVerification /\ \A p \in InVerification : request'[p] = request[p]
  BY <1>2, <1>3, <1>5, <1>7 DEF InVerification
<1>9. NotBefore(session, request[q].inUse)
  BY <1>2 DEF RequestInv, Scoped
<1>10. ASSUME NEW p \in Requests
       PROVE  /\ request'[p].at \in {"identity", "verified"} =>
                   /\ NotBefore(current.assembly, request'[p].inUse)
                   /\ \A x \in InVerification' :
                        NotBefore(request'[x].assembly, request'[p].inUse)
              /\ request'[p].at = "verified" => NotBefore(session, request'[p].inUse)
              /\ request'[p].at = "handling" =>
                   NotBefore(request'[p].assembly, request'[p].inUse)
  <2>1. CASE p = q
    BY <1>3, <1>5, <1>7, <1>9, <2>1
  <2>2. CASE p # q
    BY <1>7, <1>8, <2>2 DEF RequestInv, Scoped
  <2> QED BY <2>1, <2>2
<1>11. Scoped'
  BY <1>2, <1>10 DEF Scoped, NotBefore
<1>12. request[q].executed = Absent
  BY <1>2 DEF RequestInv, Planned
<1>13. Read(q)'
  BY <1>5, <1>7, <1>12 DEF Read
<1>14. current.number \in 1..current.number /\ current = Gen(current.number)
  BY DEF RequestInv, ReloadInv, ReloadType, Generations, History
<1>15. plan # Absent => PlanOf(plan, current.number)
  BY DEF RequestInv, Planned
<1> QED BY <1>2, <1>3, <1>5, <1>7, <1>11, <1>12, <1>13, <1>14, <1>15, OneServed
        DEF RequestInv, RequestType, Planned

\* A handled request ends, as a plan or a confirmation.
LEMMA HandledIs ==
  ASSUME RequestInv, NEW q \in Requests, request[q].at = "handling",
         \A p \in Requests \ {q} : request'[p] = request[p], request'[q].at = "done",
         UNCHANGED <<tree, reloadVars, session>>
  PROVE  Scoped'
<1>1. InVerification' = InVerification /\ \A p \in InVerification : request'[p] = request[p]
  BY DEF InVerification
<1>2. UNCHANGED current
  BY DEF reloadVars
<1>3. ASSUME NEW p \in Requests
      PROVE  /\ request'[p].at \in {"identity", "verified"} =>
                  /\ NotBefore(current.assembly, request'[p].inUse)
                  /\ \A x \in InVerification' : NotBefore(request'[x].assembly, request'[p].inUse)
             /\ request'[p].at = "verified" => NotBefore(session, request'[p].inUse)
             /\ request'[p].at = "handling" => NotBefore(request'[p].assembly, request'[p].inUse)
  BY <1>1 DEF RequestInv, Scoped
<1> QED BY <1>2, <1>3 DEF Scoped, NotBefore

LEMMA PlanStep ==
  ASSUME RequestInv, NEW q \in Requests, Plan(q)
  PROVE  RequestInv'
<1>1. request[q].at = "handling" /\ UNCHANGED <<tree, reloadVars, session>>
  BY DEF Plan
<1>2. /\ request' \in [Requests -> RequestTypes]
      /\ \A p \in Requests \ {q} : request'[p] = request[p]
      /\ request'[q].at = "done" /\ request'[q].executed = request[q].executed
  BY DEF Plan, RequestInv, RequestType, RequestTypes
<1>3. Scoped'
  BY <1>1, <1>2, HandledIs
<1> DEFINE made == [tool |-> ToolOf(request[q].with), number |-> request[q].with.number]
<1>4. plans' \subseteq plans \cup {made}
  BY DEF Plan
<1>5. /\ request[q].with.number \in 1..current.number
      /\ request[q].with = Gen(request[q].with.number) /\ ToolOf(request[q].with) # Absent
      /\ request[q].executed = Absent
  BY <1>1 DEF RequestInv, Planned
<1>6. PlanOf(made, current.number)
  BY <1>5 DEF PlanOf
<1>7. made \in [tool : Tool, number : Nat]
  <2>1. request[q].with \in Generations
    BY DEF RequestInv, RequestType, RequestTypes
  <2>2. Trees[request[q].with.catalogue] \in Tree /\ request[q].with.number \in Nat
    BY <2>1, ReloadAssumption DEF Generations
  <2> QED BY <1>5, <2>2 DEF ToolOf, Tree
<1> HIDE DEF made
<1>8. plans' \subseteq [tool : Tool, number : Nat]
        /\ \A plan \in plans' : PlanOf(plan, current.number)
  BY <1>4, <1>6, <1>7 DEF RequestInv, RequestType, Planned
<1>9. Read(q)'
  BY <1>2, <1>5 DEF Read
<1> QED BY <1>1, <1>2, <1>3, <1>5, <1>8, <1>9, OneServed DEF RequestInv, RequestType

\* Two generations in a row differ in no tool of one version.
LEMMA OneReloadBetween ==
  ASSUME RequestInv, NEW plan \in [tool : Tool, number : Nat], NEW number \in 1..current.number,
         PlanOf(plan, number), number <= plan.number + 1,
         ToolOf(Gen(number)) \in Tool, plan.tool.version = ToolOf(Gen(number)).version
  PROVE  ToolOf(Gen(number)) = plan.tool
<1> DEFINE tool == ToolOf(Gen(number))
<1>1. plan.number \in 1..number /\ plan.tool = ToolOf(Gen(plan.number)) /\ plan.tool \in Tool
  BY DEF PlanOf
<1>2. CASE number = plan.number
  BY <1>1, <1>2
<1>3. CASE number = plan.number + 1
  <2>1. plan.number \in DOMAIN rows
    BY <1>1, <1>3 DEF RequestInv, ReloadInv, ReloadType, History
  <2>2. Versioned(Gen(plan.number), Gen(plan.number + 1))
    BY <2>1 DEF RequestInv, ReloadInv, History
  <2>3. UnversionedChanges(plan.tool, tool) = {}
    BY <1>1, <1>3, <2>2 DEF Versioned
  <2>4. plan.tool # Absent /\ tool # Absent
    BY <1>1, ReloadAssumption
  <2>5. plan.tool.manifest = tool.manifest
    BY <2>3, <2>4 DEF UnversionedChanges
  <2>6. /\ plan.tool = [version |-> plan.tool.version, manifest |-> plan.tool.manifest]
        /\ tool = [version |-> tool.version, manifest |-> tool.manifest]
    BY <1>1 DEF Tool
  <2> HIDE DEF tool
  <2> QED BY <2>5, <2>6 DEF tool
<1>4. number = plan.number \/ number = plan.number + 1
  BY <1>1 DEF RequestInv, ReloadInv, ReloadType, Generations
<1> QED BY <1>2, <1>3, <1>4

LEMMA ConfirmStep ==
  ASSUME RequestInv, NEW q \in Requests, Confirm(q)
  PROVE  RequestInv'
<1> DEFINE tool == ToolOf(request[q].with)
           executed == IF request[q].plan.tool.version = tool.version THEN tool ELSE Absent
<1>1. request[q].at = "handling" /\ request[q].plan # Absent
        /\ UNCHANGED <<tree, reloadVars, session, plans>>
  BY DEF Confirm
<1>2. request' = [request EXCEPT ![q].at = "done", ![q].executed = executed]
  BY DEF Confirm
<1>3. /\ request[q].with.number \in 1..current.number
      /\ request[q].with = Gen(request[q].with.number) /\ tool # Absent
      /\ PlanOf(request[q].plan, request[q].with.number)
  BY <1>1 DEF RequestInv, Planned
<1>4. tool \in Tool
  <2>1. request[q].with \in Generations
    BY DEF RequestInv, RequestType, RequestTypes
  <2>2. Trees[request[q].with.catalogue] \in Tree
    BY <2>1, ReloadAssumption DEF Generations
  <2> QED BY <1>3, <2>2 DEF ToolOf, Tree
<1>5. request[q].plan \in [tool : Tool, number : Nat]
  BY <1>1 DEF RequestInv, RequestType, RequestTypes
<1>6. /\ executed \in {Absent} \cup Tool
      /\ executed # Absent /\ request[q].with.number <= request[q].plan.number + 1 =>
           executed = request[q].plan.tool
  BY <1>3, <1>4, <1>5, OneReloadBetween
<1> HIDE DEF executed, tool
<1>7. /\ request' \in [Requests -> RequestTypes]
      /\ \A p \in Requests \ {q} : request'[p] = request[p]
      /\ request'[q].at = "done" /\ request'[q].executed = executed
      /\ request'[q].with = request[q].with /\ request'[q].plan = request[q].plan
  <2> DEFINE done == [request[q] EXCEPT !.at = "done", !.executed = executed]
  <2>1. request \in [Requests -> RequestTypes]
    BY DEF RequestInv, RequestType
  <2>2. /\ done \in RequestTypes /\ done.at = "done" /\ done.executed = executed
        /\ done.with = request[q].with /\ done.plan = request[q].plan
    BY <1>6, <2>1 DEF RequestTypes
  <2>3. request' = [request EXCEPT ![q] = done]
    BY <1>2
  <2> HIDE DEF done
  <2> QED BY <2>1, <2>2, <2>3
<1>8. Scoped'
  BY <1>1, <1>7, HandledIs
<1>9. Read(q)'
  BY <1>6, <1>7 DEF Read
<1> QED BY <1>1, <1>7, <1>8, <1>9, OneServed DEF RequestInv, RequestType, Planned

LEMMA RequestInvStep == RequestInv /\ [Next]_vars => RequestInv'
<1> SUFFICES ASSUME RequestInv, [Next]_vars PROVE RequestInv'
  OBVIOUS
<1>1. ASSUME NEW q \in Requests, Serve(q) PROVE RequestInv'
  BY <1>1, ReverifyStep, ReverifiedStep, HandleStep, PlanStep, ConfirmStep DEF Serve
<1>2. Merge \/ (\E r \in Reloads : Ask(r) \/ Refuse(r) \/ Run(r)) \/ UNCHANGED vars
        => UNCHANGED requestVars
  BY DEF Merge, Ask, Refuse, Run, LoadCatalogue, BuildGeneration, Record, Commit, Answer, vars
<1> QED BY <1>1, <1>2, NewerHistory DEF Next

\* A narrowed scope is in force from the next request on, but for verifications
\* that were in progress.
THEOREM ScopesAreRenewed == Spec => []ScopeIsRenewed
<1>1. RequestInv => ScopeIsRenewed
  BY DEF RequestInv, Scoped, NotBefore, ScopeIsRenewed
<1> QED BY RequestInvInit, RequestInvStep, <1>1, PTL DEF Spec

\* A plan is executed as it was read, if at most one reload came between.
THEOREM ExecutedAsPlanned == Spec => []PlannedIsExecuted
<1>1. RequestInv => PlannedIsExecuted
  BY DEF RequestInv, Planned, Read, PlannedIsExecuted
<1> QED BY RequestInvInit, RequestInvStep, <1>1, PTL DEF Spec
=============================================================================
