---------------------------- MODULE ChangeHostProofs ----------------------------
(***************************************************************************)
(* Theorems about ChangeHost for any tabs, users and branches.             *)
(*                                                                         *)
(* Commits go astray: what a tab writes may end up on any branch that      *)
(* another tab has checked out.  So it is not enough to know of a branch's *)
(* own tip that its record says approved only if it was; one has to know   *)
(* it of every copy of every record, wherever the worktree put it (Clear). *)
(***************************************************************************)
EXTENDS ChangeHost, TLAPS

\* Of a record of branch b: it says approved only if somebody entitled did.
Cleared(b, record) == record # None /\ record.decision = "approved" => b \in Approved

ClearFiles(files) == \A b \in Branches : Cleared(b, files.record[b])

ClearChange(change) == change.what = "record" => Cleared(change.branch, change.to)

Clear ==
  /\ ClearFiles(base.files) /\ ClearFiles(base.fork)
  /\ \A b \in Branches : tip[b] # None => ClearFiles(tip[b].files) /\ ClearFiles(tip[b].fork)
  /\ \A c \in staged : ClearChange(c)

\* Of what a tab is doing.
Sound(t) ==
  op[t] # None =>
    /\ op[t].kind = "merge" => op[t].branch \in Approved
    /\ op[t].at = "merge" => op[t].kind = "merge"
    /\ op[t].at \in {"checkout", "write"} /\ op[t].kind # "merge" =>
         op[t].change \in Changes /\ ClearChange(op[t].change)
    /\ op[t].at = "write" => op[t].kind # "merge"

\* What is checked out exists.
HeadExists == head \in Branches => Exists(head)

HostInv == TypeOK /\ Clear /\ HeadExists /\ \A t \in Tabs : Sound(t)

-----------------------------------------------------------------------------
LEMMA HostInvInit == Init => HostInv
<1> SUFFICES ASSUME Init PROVE HostInv
  OBVIOUS
<1>1. NoFiles \in Files /\ NoFiles.record = [b \in Branches |-> None]
  BY DEF NoFiles, Files
<1>2. base \in Tips /\ base.files = NoFiles /\ base.fork = NoFiles
  BY <1>1 DEF Init, Tips
<1>3. TypeOK
  BY <1>2, HostAssumption DEF Init, TypeOK
<1>4. Clear
  BY <1>1, <1>2 DEF Init, Clear, ClearFiles, Cleared
<1> QED BY <1>3, <1>4, NoneAssumption DEF Init, HostInv, Sound, HeadExists

\* Approvals are never taken back.
LEMMA ApprovedGrows == approvals \subseteq approvals' => Approved \subseteq Approved'
  BY DEF Approved

LEMMA StillCleared ==
  ASSUME approvals \subseteq approvals', NEW b, NEW record, Cleared(b, record)
  PROVE  Cleared(b, record)'
  BY ApprovedGrows DEF Cleared

\* What a tab does to itself leaves the others sound.
LEMMA OthersSound ==
  ASSUME HostInv, NEW t \in Tabs, approvals \subseteq approvals',
         \A x \in Tabs \ {t} : op'[x] = op[x]
  PROVE  \A x \in Tabs \ {t} : Sound(x)'
<1>1. Approved \subseteq Approved'
  BY ApprovedGrows
<1>2. ASSUME NEW c, ClearChange(c) PROVE ClearChange(c)'
  BY <1>1, <1>2 DEF ClearChange, Cleared
<1> QED BY <1>1, <1>2 DEF HostInv, Sound

\* Git left alone, records stay clear.
LEMMA GitClear ==
  ASSUME Clear, approvals \subseteq approvals', UNCHANGED gitVars
  PROVE  Clear'
<1>1. Approved \subseteq Approved'
  BY ApprovedGrows
<1> QED BY <1>1 DEF Clear, ClearFiles, ClearChange, Cleared, gitVars

LEMMA GitHead == HeadExists /\ UNCHANGED gitVars => HeadExists'
  BY DEF HeadExists, Exists, gitVars

\* Only a record that says approved makes a proposal approved.
LEMMA StateIs ==
  ASSUME NEW b \in Branches
  PROVE  /\ State(b) = "approved" => RecordOf(b) # None /\ RecordOf(b).decision = "approved"
         /\ State(b) = "in_review" => RecordOf(b) # None
  BY DEF State

LEMMA RecordOfType ==
  ASSUME TypeOK, NEW b \in Branches, Exists(b)
  PROVE  RecordOf(b) \in Records \cup {None} /\ tip[b].files.file[b] \in Edits \cup {Original}
<1>1. tip[b] \in Tips
  BY DEF TypeOK, Exists
<1>2. tip[b].files \in Files
  BY <1>1 DEF Tips
<1> QED BY <1>2 DEF RecordOf, Files

-----------------------------------------------------------------------------
(* the operations begin *)

LEMMA BeginIs ==
  ASSUME HostInv, NEW t \in Tabs, NEW kind \in Kinds, NEW b \in Branches,
         NEW change \in Changes \cup {None}, Begin(t, kind, b, change),
         UNCHANGED <<gitVars, approvals>>,
         kind = "merge" => b \in Approved,
         kind \in {"saveDraft", "propose"} => change \in Changes /\ ClearChange(change)
  PROVE  HostInv'
<1> DEFINE at == CASE kind = "approve" -> "read" [] kind = "discard" -> "delete"
                   [] OTHER -> "checkout"
           new == [kind |-> kind, branch |-> b, change |-> change, at |-> at]
<1>1. at \in {"read", "delete", "checkout"} /\ (at = "checkout" => kind \notin {"approve", "discard"})
  OBVIOUS
<1>2. op' = [op EXCEPT ![t] = new] /\ begun' = begun + 1 /\ begun < MaxOps
  <2>1. op' = [op EXCEPT ![t] = [kind |-> kind, branch |-> b, change |-> change,
                                 at |-> CASE kind = "approve" -> "read"
                                          [] kind = "discard" -> "delete"
                                          [] OTHER -> "checkout"]]
    BY DEF Begin
  <2> QED BY <2>1 DEF Begin
<1> HIDE DEF at
<1>3. /\ new \in Ops /\ new.kind = kind /\ new.branch = b /\ new.change = change
      /\ new.at = at
  BY <1>1 DEF Ops
<1> HIDE DEF new
<1>4. /\ op' \in [Tabs -> Ops \cup {None}] /\ op'[t] = new
      /\ \A x \in Tabs \ {t} : op'[x] = op[x]
  BY <1>2, <1>3 DEF HostInv, TypeOK
<1>5. TypeOK'
  <2>1. begun' \in 0..MaxOps
    BY <1>2, HostAssumption DEF HostInv, TypeOK
  <2> QED BY <1>4, <2>1 DEF HostInv, TypeOK, gitVars
<1>6. Clear'
  BY GitClear DEF HostInv
<1>7. \A x \in Tabs \ {t} : Sound(x)'
  BY <1>4, OthersSound
<1>8. Sound(t)'
  <2>1. Approved' = Approved
    BY DEF Approved
  <2>2. kind \in {"saveDraft", "propose"} => ClearChange(change)'
    BY <2>1 DEF ClearChange, Cleared
  <2>3. at = "checkout" /\ kind # "merge" => kind \in {"saveDraft", "propose"}
    BY <1>1 DEF Kinds
  <2> QED BY <1>1, <1>3, <1>4, <2>1, <2>2, <2>3 DEF Sound
<1> QED BY <1>5, <1>6, <1>7, <1>8, GitHead DEF HostInv

LEMMA StartStep ==
  ASSUME HostInv, NEW t \in Tabs, Start(t)
  PROVE  HostInv'
<1>1. PICK b \in Branches : (\E e \in Edits : SaveDraft(t, b, e)) \/ Propose(t, b)
                              \/ Approve(t, b) \/ Merge(t, b) \/ Discard(t, b)
  BY DEF Start
<1>2. ASSUME NEW e \in Edits, SaveDraft(t, b, e) PROVE HostInv'
  <2> DEFINE change == [what |-> "file", branch |-> b, to |-> e]
  <2>1. change \in Changes /\ change.what = "file"
    BY DEF Changes
  <2>2. Begin(t, "saveDraft", b, change) /\ UNCHANGED <<gitVars, approvals>>
    BY <1>2 DEF SaveDraft
  <2> HIDE DEF change
  <2>3. ClearChange(change)
    BY <2>1 DEF ClearChange
  <2> QED BY <2>1, <2>2, <2>3, BeginIs DEF Kinds
<1>3. CASE Propose(t, b)
  <2> DEFINE record == [requestedBy |-> UserOf[t], decision |-> "proposed"]
             change == [what |-> "record", branch |-> b, to |-> record]
  <2>1. record \in Records /\ record.decision = "proposed"
    BY HostAssumption DEF Records
  <2>2. Begin(t, "propose", b, change) /\ UNCHANGED <<gitVars, approvals>>
    BY <1>3 DEF Propose
  <2> HIDE DEF record
  <2>3. change \in Changes /\ change.to = record /\ change.branch = b
    BY <2>1 DEF Changes
  <2> HIDE DEF change
  <2>4. ClearChange(change)
    BY <2>1, <2>3 DEF ClearChange, Cleared
  <2> QED BY <2>2, <2>3, <2>4, BeginIs DEF Kinds
<1>4. CASE Approve(t, b)
  BY <1>4, BeginIs DEF Approve, Kinds
<1>5. CASE Merge(t, b)
  <2>1. Begin(t, "merge", b, None) /\ UNCHANGED <<gitVars, approvals>> /\ Exists(b)
          /\ State(b) = "approved"
    BY <1>5 DEF Merge, Mergeable
  <2>2. b \in Approved
    BY <2>1, StateIs DEF HostInv, Clear, ClearFiles, Cleared, RecordOf, Exists
  <2> QED BY <2>1, <2>2, BeginIs DEF Kinds
<1>6. CASE Discard(t, b)
  BY <1>6, BeginIs DEF Discard, Kinds
<1> QED BY <1>1, <1>2, <1>3, <1>4, <1>5, <1>6

-----------------------------------------------------------------------------
(* and go on *)

Steps == {"read", "record", "checkout", "write", "commit", "merge", "delete"}

\* An operation goes to its next step, or ends.
LEMMA Moved ==
  ASSUME HostInv, NEW t \in Tabs, op[t] # None, NEW step \in Steps, Goto(t, step)
  PROVE  /\ op' \in [Tabs -> Ops \cup {None}]
         /\ op'[t].at = step /\ op'[t].kind = op[t].kind /\ op'[t].branch = op[t].branch
         /\ op'[t].change = op[t].change
         /\ \A x \in Tabs \ {t} : op'[x] = op[x]
<1> DEFINE moved == [op[t] EXCEPT !.at = step]
<1>1. op \in [Tabs -> Ops \cup {None}] /\ op[t] \in Ops
  BY DEF HostInv, TypeOK
<1>2. op' = [op EXCEPT ![t] = moved]
  BY DEF Goto
<1>3. /\ moved \in Ops /\ moved.at = step /\ moved.kind = op[t].kind
      /\ moved.branch = op[t].branch /\ moved.change = op[t].change
  BY <1>1 DEF Ops, Steps
<1> HIDE DEF moved
<1> QED BY <1>1, <1>2, <1>3

LEMMA Ended ==
  ASSUME HostInv, NEW t \in Tabs, Done(t)
  PROVE  /\ op' \in [Tabs -> Ops \cup {None}] /\ op'[t] = None
         /\ \A x \in Tabs \ {t} : op'[x] = op[x]
  BY DEF HostInv, TypeOK, Done

LEMMA ProposalStep ==
  ASSUME HostInv, NEW t \in Tabs, ReadProposal(t)
  PROVE  HostInv'
<1>1. op[t] # None /\ UNCHANGED <<gitVars, begun, approvals>> /\ HeadExists'
  BY GitHead DEF ReadProposal, HostInv
<1>2. Clear'
  BY <1>1, GitClear DEF HostInv
<1>3. Goto(t, "record") \/ Done(t)
  BY DEF ReadProposal, Fail
<1>4. CASE Goto(t, "record")
  <2>1. /\ op' \in [Tabs -> Ops \cup {None}]
        /\ op'[t].at = "record" /\ op'[t].kind = op[t].kind /\ op'[t].branch = op[t].branch
        /\ \A x \in Tabs \ {t} : op'[x] = op[x]
    BY <1>1, <1>4, Moved DEF Steps
  <2>2. Approved' = Approved /\ \A x \in Tabs \ {t} : Sound(x)'
    BY <1>1, <2>1, OthersSound DEF Approved
  <2>3. Sound(t)'
    BY <1>1, <2>1, <2>2 DEF HostInv, Sound
  <2> QED BY <1>1, <1>2, <2>1, <2>2, <2>3 DEF HostInv, TypeOK, gitVars
<1>5. CASE Done(t)
  <2>1. \A x \in Tabs \ {t} : Sound(x)'
    BY <1>1, <1>5, Ended, OthersSound
  <2> QED BY <1>1, <1>2, <1>5, <2>1, Ended DEF HostInv, TypeOK, gitVars, Sound
<1> QED BY <1>3, <1>4, <1>5

LEMMA ReadStep ==
  ASSUME HostInv, NEW t \in Tabs, ReadRecord(t)
  PROVE  HostInv'
<1>1. op[t] # None /\ op[t] \in Ops /\ UNCHANGED <<gitVars, begun>> /\ HeadExists'
  BY GitHead DEF ReadRecord, HostInv, TypeOK
<1> PICK b \in Branches : b = op[t].branch
  BY <1>1 DEF Ops
<1>2. approvals \subseteq approvals'
  BY DEF ReadRecord
<1>3. Clear'
  BY <1>1, <1>2, GitClear DEF HostInv
<1>4. CASE Exists(b) /\ RecordOf(b) # None
  <2> DEFINE record == [RecordOf(b) EXCEPT !.decision = "approved"]
             change == [what |-> "record", branch |-> b, to |-> record]
             next == [op[t] EXCEPT !.at = "checkout", !.change = change]
  <2>1. record \in Records
    BY <1>1, <1>4, RecordOfType DEF HostInv, Records
  <2>2. /\ op' = [op EXCEPT ![t].at = "checkout", ![t].change = change]
        /\ approvals' = approvals \cup {[branch |-> b, file |-> tip[b].files.file[b]]}
    BY <1>4 DEF ReadRecord
  <2> HIDE DEF record
  <2>3. change \in Changes /\ change.branch = b
    BY <1>1, <2>1 DEF Changes
  <2> HIDE DEF change
  <2>4. next \in Ops /\ next.at = "checkout" /\ next.change = change /\ next.kind = op[t].kind
          /\ next.branch = b
    BY <1>1, <2>3 DEF Ops
  <2>5. op' = [op EXCEPT ![t] = next]
    BY <2>2
  <2> HIDE DEF next
  <2>6. /\ op' \in [Tabs -> Ops \cup {None}] /\ op'[t] = next
        /\ \A x \in Tabs \ {t} : op'[x] = op[x]
    BY <2>4, <2>5 DEF HostInv, TypeOK
  <2>7. approvals' \subseteq [branch : Branches, file : Edits \cup {Original}]
    BY <1>1, <1>4, <2>2, RecordOfType DEF HostInv, TypeOK
  <2>8. b \in Approved'
    <3>1. PICK a \in approvals' : a = [branch |-> b, file |-> tip[b].files.file[b]]
      BY <2>2
    <3>2. a.branch = b
      BY <3>1
    <3> QED BY <3>2 DEF Approved
  <2>9. Sound(t)'
    <3>1. op'[t].change.branch \in Approved' /\ op'[t].branch \in Approved'
      BY <2>3, <2>4, <2>6, <2>8
    <3>2. ClearChange(op[t].change)'
      BY <3>1 DEF ClearChange, Cleared
    <3> QED BY <2>3, <2>4, <2>6, <3>1, <3>2 DEF Sound
  <2>10. \A x \in Tabs \ {t} : Sound(x)'
    BY <1>2, <2>6, OthersSound
  <2>11. TypeOK'
    BY <1>1, <2>6, <2>7 DEF HostInv, TypeOK, gitVars
  <2> QED BY <1>1, <1>3, <2>9, <2>10, <2>11 DEF HostInv
<1>5. CASE ~(Exists(b) /\ RecordOf(b) # None)
  <2>1. Done(t) /\ UNCHANGED approvals
    BY <1>5 DEF ReadRecord, Fail
  <2>2. \A x \in Tabs \ {t} : Sound(x)'
    BY <1>2, <2>1, Ended, OthersSound
  <2> QED BY <1>1, <1>3, <2>1, <2>2, Ended DEF HostInv, TypeOK, gitVars, Sound
<1> QED BY <1>4, <1>5

LEMMA CheckoutStep ==
  ASSUME HostInv, NEW t \in Tabs, Checkout(t)
  PROVE  HostInv'
<1>1. /\ op[t] # None /\ op[t] \in Ops /\ op[t].at = "checkout"
      /\ UNCHANGED <<base, staged, begun, approvals>>
  BY DEF Checkout, HostInv, TypeOK
<1> PICK b \in Branches : b = op[t].branch
  BY <1>1 DEF Ops
<1> PICK fresh : fresh = [base EXCEPT !.fork = base.files]
  OBVIOUS
<1>2. /\ fresh \in Tips /\ fresh.files = base.files /\ fresh.fork = base.files
  BY DEF HostInv, TypeOK, Tips
<1>3. Approved' = Approved
  BY <1>1 DEF Approved
<1>4. /\ head' \in Branches \cup {None}
      /\ tip' = tip \/ tip' = [tip EXCEPT ![b] = fresh]
  BY <1>1 DEF Checkout, HostInv, TypeOK
<1>5. Clear'
  <2>1. \A x \in Branches : tip'[x] = tip[x] \/ tip'[x] = fresh
    BY <1>4 DEF HostInv, TypeOK
  <2>2. ClearFiles(fresh.files) /\ ClearFiles(fresh.fork)
    BY <1>2 DEF HostInv, Clear
  <2>3. \A x \in Branches :
          tip'[x] # None => ClearFiles(tip'[x].files) /\ ClearFiles(tip'[x].fork)
    BY <2>1, <2>2 DEF HostInv, Clear
  <2>4. \A f : ClearFiles(f)' <=> ClearFiles(f)
    BY <1>3 DEF ClearFiles, Cleared
  <2>5. \A c : ClearChange(c)' <=> ClearChange(c)
    BY <1>3 DEF ClearChange, Cleared
  <2> QED BY <1>1, <1>3, <2>3 DEF HostInv, Clear, ClearFiles, ClearChange, Cleared
<1>10. HeadExists'
  <2>1. CASE Exists(b) \/ op[t].kind = "saveDraft"
    <3>1. head' = b => tip'[b] # None
      <4>1. CASE Exists(b)
        <5>1. tip[b] # None
          BY <4>1 DEF Exists
        <5>2. tip'[b] = tip[b] \/ tip'[b] = fresh
          BY <1>4 DEF HostInv, TypeOK
        <5> QED BY <1>2, <5>1, <5>2, NoneAssumption
      <4>2. CASE ~Exists(b)
        <5>1. head' = b => tip'[b] = fresh \/ (tip' = tip /\ head' = head)
          BY <2>1, <4>2 DEF Checkout, HostInv, TypeOK
        <5> QED BY <1>2, <5>1, NoneAssumption DEF HostInv, HeadExists, Exists
      <4> QED BY <4>1, <4>2
    <3>2. head' = b \/ (head' = head /\ tip' = tip)
      BY DEF Checkout
    <3> QED BY <3>1, <3>2 DEF HostInv, HeadExists, Exists
  <2>2. CASE ~(Exists(b) \/ op[t].kind = "saveDraft")
    BY <2>2 DEF Checkout, HostInv, HeadExists, Exists
  <2> QED BY <2>1, <2>2
<1>6. tip' \in [Branches -> Tips \cup {None}]
  BY <1>2, <1>4 DEF HostInv, TypeOK
<1>7. Done(t) \/ Goto(t, IF op[t].kind = "merge" THEN "commit" ELSE "write")
  BY DEF Checkout, Fail
<1>8. CASE Done(t)
  <2>1. \A x \in Tabs \ {t} : Sound(x)'
    BY <1>1, <1>8, Ended, OthersSound
  <2> QED BY <1>1, <1>4, <1>5, <1>6, <1>8, <1>10, <2>1, Ended DEF HostInv, TypeOK, Sound
<1>9. CASE Goto(t, IF op[t].kind = "merge" THEN "commit" ELSE "write")
  <2>1. PICK step \in {"commit", "write"} :
          Goto(t, step) /\ (step = "write" => op[t].kind # "merge")
    BY <1>9
  <2>2. /\ op' \in [Tabs -> Ops \cup {None}]
        /\ op'[t].at = step /\ op'[t].kind = op[t].kind /\ op'[t].branch = op[t].branch
        /\ op'[t].change = op[t].change
        /\ \A x \in Tabs \ {t} : op'[x] = op[x]
    BY <1>1, <2>1, Moved DEF Steps
  <2>3. \A x \in Tabs \ {t} : Sound(x)'
    BY <1>1, <2>2, OthersSound
  <2>4. Sound(t)'
    BY <1>1, <1>3, <2>1, <2>2 DEF HostInv, Sound, ClearChange, Cleared
  <2>5. TypeOK'
    BY <1>1, <1>4, <1>6, <2>2 DEF HostInv, TypeOK
  <2> QED BY <1>5, <1>10, <2>3, <2>4, <2>5 DEF HostInv
<1> QED BY <1>7, <1>8, <1>9

LEMMA WriteStep ==
  ASSUME HostInv, NEW t \in Tabs, Write(t)
  PROVE  HostInv'
<1>1. /\ op[t] # None /\ op[t] \in Ops /\ op[t].at = "write" /\ Goto(t, "commit")
      /\ UNCHANGED <<base, tip, head, begun, approvals>>
  BY DEF Write, HostInv, TypeOK
<1>2. op[t].change \in Changes /\ ClearChange(op[t].change)
  BY <1>1 DEF HostInv, Sound
<1>3. staged' \subseteq staged \cup {op[t].change}
  BY DEF Write
<1>4. Approved' = Approved
  BY <1>1 DEF Approved
<1>5. Clear'
  BY <1>1, <1>2, <1>3, <1>4 DEF HostInv, Clear, ClearFiles, ClearChange, Cleared
<1>6. /\ op' \in [Tabs -> Ops \cup {None}]
      /\ op'[t].at = "commit" /\ op'[t].kind = op[t].kind /\ op'[t].branch = op[t].branch
      /\ \A x \in Tabs \ {t} : op'[x] = op[x]
  BY <1>1, Moved DEF Steps
<1>7. \A x \in Tabs \ {t} : Sound(x)'
  BY <1>1, <1>6, OthersSound
<1>8. Sound(t)'
  BY <1>1, <1>4, <1>6 DEF HostInv, Sound
<1>9. TypeOK'
  BY <1>1, <1>2, <1>3, <1>6 DEF HostInv, TypeOK
<1> QED BY <1>1, <1>5, <1>7, <1>8, <1>9 DEF HostInv, HeadExists, Exists

\* What is staged is clear, whoever staged it, and so is what it is committed to.
LEMMA CommittedIs ==
  ASSUME HostInv, NEW old \in Tips, ClearFiles(old.files), ClearFiles(old.fork), NEW u \in Users
  PROVE  /\ Committed(old, u) \in Tips
         /\ ClearFiles(Committed(old, u).files) /\ ClearFiles(Committed(old, u).fork)
<1> DEFINE file == Changed(old.files.file, "file")
           record == Changed(old.files.record, "record")
           files == [file |-> file, record |-> record]
<1>1. staged \subseteq Changes /\ \A c \in staged : ClearChange(c)
  BY DEF HostInv, TypeOK, Clear
<1>2. /\ old.files.file \in [Branches -> Edits \cup {Original}]
      /\ old.files.record \in [Branches -> Records \cup {None}]
      /\ old.files \in Files /\ old.fork \in Files
  BY DEF Tips, Files
<1>3. ASSUME NEW b \in Branches PROVE file[b] \in Edits \cup {Original}
  <2>1. CASE \E c \in staged : c.what = "file" /\ c.branch = b
    <3> DEFINE c == CHOOSE c \in staged : c.what = "file" /\ c.branch = b
    <3>1. c \in staged /\ c.what = "file"
      BY <2>1
    <3> HIDE DEF c
    <3>2. c.to \in Edits
      BY <1>1, <3>1 DEF Changes
    <3> QED BY <2>1, <3>2 DEF Changed, c
  <2>2. CASE ~\E c \in staged : c.what = "file" /\ c.branch = b
    BY <1>2, <2>2 DEF Changed
  <2> QED BY <2>1, <2>2
<1>4. ASSUME NEW b \in Branches
      PROVE  record[b] \in Records \cup {None} /\ Cleared(b, record[b])
  <2>1. CASE \E c \in staged : c.what = "record" /\ c.branch = b
    <3> DEFINE c == CHOOSE c \in staged : c.what = "record" /\ c.branch = b
    <3>1. c \in staged /\ c.what = "record" /\ c.branch = b
      BY <2>1
    <3> HIDE DEF c
    <3>2. c.to \in Records /\ Cleared(b, c.to)
      BY <1>1, <3>1 DEF Changes, ClearChange
    <3> QED BY <2>1, <3>2 DEF Changed, c
  <2>2. CASE ~\E c \in staged : c.what = "record" /\ c.branch = b
    BY <1>2, <2>2 DEF Changed, ClearFiles
  <2> QED BY <2>1, <2>2
<1>5. file = [b \in Branches |-> file[b]] /\ record = [b \in Branches |-> record[b]]
  BY DEF Changed
<1> HIDE DEF file, record
<1>6. files \in Files /\ files.record = record
  BY <1>3, <1>4, <1>5 DEF Files
<1>7. Committed(old, u) = [old EXCEPT !.ahead = TRUE, !.by = u, !.files = files]
  BY DEF Committed, file, record
<1> HIDE DEF files
<1>8. /\ Committed(old, u) \in Tips /\ Committed(old, u).files = files
      /\ Committed(old, u).fork = old.fork
  BY <1>6, <1>7 DEF Tips
<1> QED BY <1>4, <1>6, <1>8 DEF ClearFiles

LEMMA CommitStep ==
  ASSUME HostInv, NEW t \in Tabs, Commit(t)
  PROVE  HostInv'
<1>1. /\ op[t] # None /\ op[t] \in Ops /\ op[t].at = "commit"
      /\ UNCHANGED <<base, head, begun, approvals>>
  BY DEF Commit, HostInv, TypeOK
<1>2. Approved' = Approved
  BY <1>1 DEF Approved
<1>3. tip' \in [Branches -> Tips \cup {None}] /\ staged' \subseteq staged
        /\ \A b \in Branches : tip'[b] # None => ClearFiles(tip'[b].files) /\ ClearFiles(tip'[b].fork)
  <2>1. CASE UNCHANGED <<tip, staged>>
    BY <2>1 DEF HostInv, TypeOK, Clear
  <2>2. CASE head \in Branches /\ tip' = [tip EXCEPT ![head] = Committed(@, UserOf[t])]
               /\ staged' = {}
    <3>1. tip'[head] = Committed(tip[head], UserOf[t])
            /\ \A b \in Branches \ {head} : tip'[b] = tip[b]
      BY <2>2 DEF HostInv, TypeOK
    <3>2. tip[head] \in Tips /\ ClearFiles(tip[head].files) /\ ClearFiles(tip[head].fork)
      BY <2>2 DEF HostInv, TypeOK, Clear, HeadExists, Exists
    <3>3. UserOf[t] \in Users
      BY HostAssumption
    <3>4. /\ Committed(tip[head], UserOf[t]) \in Tips
          /\ ClearFiles(Committed(tip[head], UserOf[t]).files)
          /\ ClearFiles(Committed(tip[head], UserOf[t]).fork)
      BY <3>2, <3>3, CommittedIs
    <3>5. \A b \in Branches : b # head => tip'[b] = tip[b]
      BY <3>1
    <3>6. tip' \in [Branches -> Tips \cup {None}]
      BY <2>2, <3>4 DEF HostInv, TypeOK
    <3>7. ASSUME NEW b \in Branches, tip'[b] # None
          PROVE  ClearFiles(tip'[b].files) /\ ClearFiles(tip'[b].fork)
      <4>1. CASE b = head
        BY <3>1, <3>4, <4>1
      <4>2. CASE b # head
        BY <3>5, <3>7, <4>2 DEF HostInv, Clear
      <4> QED BY <4>1, <4>2
    <3> QED BY <2>2, <3>6, <3>7
  <2>3. CASE head \notin Branches /\ tip' = tip /\ staged' = {}
    BY <2>3 DEF HostInv, TypeOK, Clear
  <2> QED BY <2>1, <2>2, <2>3 DEF Commit
<1>4. HeadExists'
  <2>1. CASE head \in Branches /\ tip' = [tip EXCEPT ![head] = Committed(@, UserOf[t])]
    <3>1. tip[head] \in Tips /\ ClearFiles(tip[head].files) /\ ClearFiles(tip[head].fork)
      BY <2>1 DEF HostInv, TypeOK, Clear, HeadExists, Exists
    <3>2. Committed(tip[head], UserOf[t]) \in Tips
      BY <3>1, HostAssumption, CommittedIs
    <3>3. tip'[head] # None
      BY <2>1, <3>2, NoneAssumption DEF HostInv, TypeOK
    <3> QED BY <1>1, <3>3 DEF HeadExists, Exists
  <2>2. CASE tip' = tip
    BY <1>1, <2>2 DEF HostInv, HeadExists, Exists
  <2> QED BY <2>1, <2>2 DEF Commit
<1>5. Clear'
  <2>1. \A f : ClearFiles(f)' <=> ClearFiles(f)
    BY <1>2 DEF ClearFiles, Cleared
  <2>2. \A c : ClearChange(c)' <=> ClearChange(c)
    BY <1>2 DEF ClearChange, Cleared
  <2> QED BY <1>1, <1>2, <1>3 DEF HostInv, Clear, ClearFiles, ClearChange, Cleared
<1>6. (op[t].kind = "merge" /\ Goto(t, "merge")) \/ Done(t)
  BY DEF Commit, Fail
<1>7. TypeOK' /\ Sound(t)' /\ \A x \in Tabs \ {t} : Sound(x)'
  <2>1. CASE op[t].kind = "merge" /\ Goto(t, "merge")
    <3>1. /\ op' \in [Tabs -> Ops \cup {None}]
          /\ op'[t].at = "merge" /\ op'[t].kind = "merge" /\ op'[t].branch = op[t].branch
          /\ \A x \in Tabs \ {t} : op'[x] = op[x]
      BY <1>1, <2>1, Moved DEF Steps
    <3>2. \A x \in Tabs \ {t} : Sound(x)'
      BY <1>1, <3>1, OthersSound
    <3>3. Sound(t)'
      BY <1>1, <1>2, <2>1, <3>1 DEF HostInv, Sound
    <3> QED BY <1>1, <1>3, <3>1, <3>2, <3>3 DEF HostInv, TypeOK
  <2>2. CASE Done(t)
    <3>1. \A x \in Tabs \ {t} : Sound(x)'
      BY <1>1, <2>2, Ended, OthersSound
    <3> QED BY <1>1, <1>3, <2>2, <3>1, Ended DEF HostInv, TypeOK, Sound
  <2> QED BY <1>6, <2>1, <2>2
<1> QED BY <1>4, <1>5, <1>7 DEF HostInv

\* A file-by-file merge takes each record from one side or the other.
LEMMA TakeIs ==
  ASSUME NEW f, NEW S, NEW ours \in [Branches -> S], NEW theirs \in [Branches -> S]
  PROVE  /\ Take(f, ours, theirs) \in [Branches -> S]
         /\ \A b \in Branches : Take(f, ours, theirs)[b] \in {ours[b], theirs[b]}
  BY DEF Take

LEMMA MergedIs ==
  ASSUME HostInv, NEW b \in Branches, Exists(b)
  PROVE  MergedFiles(b) \in Files /\ ClearFiles(MergedFiles(b))
<1>1. tip[b] \in Tips /\ base \in Tips /\ ClearFiles(base.files) /\ ClearFiles(tip[b].files)
  BY DEF HostInv, TypeOK, Clear, Exists
<1> DEFINE file == Take(tip[b].fork.file, base.files.file, tip[b].files.file)
           record == Take(tip[b].fork.record, base.files.record, tip[b].files.record)
<1>2. /\ base.files.file \in [Branches -> Edits \cup {Original}]
      /\ tip[b].files.file \in [Branches -> Edits \cup {Original}]
      /\ base.files.record \in [Branches -> Records \cup {None}]
      /\ tip[b].files.record \in [Branches -> Records \cup {None}]
  BY <1>1 DEF Tips, Files
<1>3. file \in [Branches -> Edits \cup {Original}] /\ record \in [Branches -> Records \cup {None}]
        /\ \A c \in Branches : record[c] \in {base.files.record[c], tip[b].files.record[c]}
  BY <1>2, TakeIs
<1>4. MergedFiles(b) = [file |-> file, record |-> record]
  BY DEF MergedFiles
<1> HIDE DEF file, record
<1>5. MergedFiles(b) \in Files /\ MergedFiles(b).record = record
  BY <1>3, <1>4 DEF Files
<1> QED BY <1>1, <1>3, <1>5 DEF ClearFiles

LEMMA MergeStep ==
  ASSUME HostInv, NEW t \in Tabs, MergeIn(t)
  PROVE  HostInv' /\ (base' # base => op[t].branch \in Approved)
<1>1. /\ op[t] # None /\ op[t] \in Ops /\ op[t].at = "merge" /\ Done(t)
      /\ UNCHANGED <<staged, begun, approvals>>
  BY DEF MergeIn, HostInv, TypeOK
<1> PICK b \in Branches : b = op[t].branch
  BY <1>1 DEF Ops
<1>2. b \in Approved
  BY <1>1 DEF HostInv, Sound
<1>3. Approved' = Approved
  BY <1>1 DEF Approved
<1>4. \A f : ClearFiles(f)' <=> ClearFiles(f)
  BY <1>3 DEF ClearFiles, Cleared
<1>5. \A x \in Tabs \ {t} : Sound(x)'
  BY <1>1, Ended, OthersSound
<1>6. CASE Exists(b) /\ ~Conflicts(b)
  <2> DEFINE moved == [base EXCEPT !.by = UserOf[t], !.files = MergedFiles(b)]
             left == [tip[b] EXCEPT !.fork = tip[b].files, !.ahead = FALSE]
  <2>1. MergedFiles(b) \in Files /\ ClearFiles(MergedFiles(b))
    BY <1>6, MergedIs
  <2>2. base \in Tips /\ tip[b] \in Tips /\ UserOf[t] \in Users
          /\ ClearFiles(base.fork) /\ ClearFiles(tip[b].files)
    BY <1>6, HostAssumption DEF HostInv, TypeOK, Exists, Clear
  <2>3. moved \in Tips /\ moved.files = MergedFiles(b) /\ moved.fork = base.fork
    BY <2>1, <2>2 DEF Tips
  <2>4. left \in Tips /\ left.files = tip[b].files /\ left.fork = tip[b].files
    BY <2>2 DEF Tips
  <2>5. base' = moved /\ head' = None
          /\ tip' = [tip EXCEPT ![b].fork = tip[b].files, ![b].ahead = FALSE]
    BY <1>6 DEF MergeIn
  <2>6. tip' = [tip EXCEPT ![b] = left]
    BY <2>5
  <2> HIDE DEF moved, left
  <2>7. /\ tip' \in [Branches -> Tips \cup {None}] /\ tip'[b] = left
        /\ \A x \in Branches : x # b => tip'[x] = tip[x]
    BY <2>4, <2>6 DEF HostInv, TypeOK
  <2>8. TypeOK'
    BY <1>1, <2>3, <2>5, <2>7, Ended DEF HostInv, TypeOK
  <2>9. ASSUME NEW x \in Branches, tip'[x] # None
        PROVE  ClearFiles(tip'[x].files) /\ ClearFiles(tip'[x].fork)
    <3>1. CASE x = b
      BY <2>2, <2>4, <2>7, <3>1
    <3>2. CASE x # b
      BY <2>7, <2>9, <3>2 DEF HostInv, Clear
    <3> QED BY <3>1, <3>2
  <2>10. ClearFiles(base'.files) /\ ClearFiles(base'.fork)
    BY <2>1, <2>2, <2>3, <2>5
  <2>11. Clear'
    BY <1>1, <1>3, <2>9, <2>10 DEF HostInv, Clear, ClearFiles, ClearChange, Cleared
  <2>12. HeadExists'
    BY <2>5, NoneAssumption DEF HeadExists
  <2> QED BY <1>1, <1>2, <1>5, <2>8, <2>11, <2>12, Ended DEF HostInv, Sound
<1>7. CASE ~(Exists(b) /\ ~Conflicts(b))
  <2>1. UNCHANGED gitVars /\ approvals \subseteq approvals'
    BY <1>1, <1>7 DEF MergeIn, gitVars
  <2>2. Clear' /\ HeadExists'
    BY <2>1, GitClear, GitHead DEF HostInv
  <2> QED BY <1>1, <1>2, <1>5, <2>1, <2>2, Ended DEF HostInv, TypeOK, Sound, gitVars
<1> QED BY <1>6, <1>7

LEMMA DeleteStep ==
  ASSUME HostInv, NEW t \in Tabs, Delete(t)
  PROVE  HostInv'
<1>1. /\ op[t] # None /\ op[t] \in Ops /\ Done(t)
      /\ UNCHANGED <<base, staged, begun, approvals>>
  BY DEF Delete, HostInv, TypeOK
<1> PICK b \in Branches : b = op[t].branch
  BY <1>1 DEF Ops
<1>2. Approved' = Approved
  BY <1>1 DEF Approved
<1>3. /\ tip' \in [Branches -> Tips \cup {None}] /\ tip'[b] = None
      /\ \A x \in Branches : x # b => tip'[x] = tip[x]
      /\ head' = IF head = b THEN None ELSE head
  BY DEF Delete, HostInv, TypeOK
<1>4. Clear'
  <2>1. \A f : ClearFiles(f)' <=> ClearFiles(f)
    BY <1>2 DEF ClearFiles, Cleared
  <2>2. \A x \in Branches : tip'[x] # None =>
          ClearFiles(tip'[x].files) /\ ClearFiles(tip'[x].fork)
    BY <1>3 DEF HostInv, Clear
  <2> QED BY <1>1, <1>2, <2>2 DEF HostInv, Clear, ClearFiles, ClearChange, Cleared
<1>5. HeadExists'
  BY <1>3, NoneAssumption DEF HostInv, HeadExists, Exists
<1>6. \A x \in Tabs \ {t} : Sound(x)'
  BY <1>1, Ended, OthersSound
<1>7. TypeOK'
  BY <1>1, <1>3, Ended DEF HostInv, TypeOK
<1> QED BY <1>1, <1>4, <1>5, <1>6, <1>7, Ended DEF HostInv, Sound

LEMMA HostInvStep == HostInv /\ [Next]_vars => HostInv'
<1> SUFFICES ASSUME HostInv, [Next]_vars PROVE HostInv'
  OBVIOUS
<1>1. ASSUME NEW t \in Tabs, Start(t) \/ Work(t) PROVE HostInv'
  BY <1>1, StartStep, ProposalStep, ReadStep, CheckoutStep, WriteStep, CommitStep, MergeStep, DeleteStep DEF Work
<1>2. CASE UNCHANGED vars
  <2>1. UNCHANGED <<gitVars, op, begun, approvals>>
    BY <1>2 DEF vars, opVars
  <2>2. Clear' /\ HeadExists'
    BY <2>1, GitClear, GitHead DEF HostInv
  <2>3. Approved' = Approved
    BY <2>1 DEF Approved
  <2> QED BY <2>1, <2>2, <2>3 DEF HostInv, TypeOK, Sound, ClearChange, Cleared, gitVars
<1> QED BY <1>1, <1>2 DEF Next

\* The worktree and its records are well typed, and a branch that is checked out
\* exists, whatever is discarded meanwhile: what is committed has a tip to go to.
THEOREM HostTypeCorrect == Spec => [](TypeOK /\ HeadExists)
<1>1. HostInv => TypeOK /\ HeadExists
  BY DEF HostInv
<1> QED BY HostInvInit, HostInvStep, <1>1, PTL DEF Spec

\* Whatever lands in the wrong place in the shared worktree, the base branch moves
\* only by a merge of a branch that was approved.
THEOREM BaseMovesByApprovedMerges == Spec => OnlyMergesMoveBase
<1>1. HostInv /\ [Next]_vars =>
        [base' # base =>
           \E t \in Tabs : /\ op[t] # None /\ op[t].at = "merge" /\ op[t].branch \in Approved]_vars
  <2> SUFFICES ASSUME HostInv, Next, base' # base
               PROVE  \E t \in Tabs : /\ op[t] # None /\ op[t].at = "merge"
                                      /\ op[t].branch \in Approved
    OBVIOUS
  <2>1. PICK t \in Tabs : Start(t) \/ Work(t)
    BY DEF Next, vars, gitVars
  <2>2. MergeIn(t)
    BY <2>1 DEF Start, SaveDraft, Propose, Approve, Merge, Discard, Work, ReadProposal, ReadRecord, Checkout,
       Write, Commit, Delete, gitVars
  <2>3. op[t].branch \in Approved
    BY <2>2, MergeStep
  <2> QED BY <2>2, <2>3 DEF MergeIn
<1> QED BY HostInvInit, HostInvStep, <1>1, PTL DEF Spec, OnlyMergesMoveBase
=============================================================================
