------------------------------ MODULE ChangeHost ------------------------------
(***************************************************************************)
(* The portal's change host: definitional changes as git branches, drafted,*)
(* proposed, approved, merged or discarded.  All of it happens in one      *)
(* worktree, which every operation checks its branch out in, writes to,    *)
(* and commits from, one awaited git command after the other; operations   *)
(* of several tabs overlap.  The base branch is checked out elsewhere, in  *)
(* the definitions clone that the gateway reads: a merge runs there.       *)
(***************************************************************************)
EXTENDS Integers, FiniteSets

CONSTANTS
  Tabs, Users, UserOf,     \* [Tabs -> Users]
  Admins, SuperAdmins,
  Branches,     \* one per role, consumer or tool that is edited
  Edits,        \* contents of the file that a branch is about
  Original,     \* its content before any of them
  MaxOps,       \* bound on the operations begun
  None

ASSUME HostAssumption ==
  /\ UserOf \in [Tabs -> Users] /\ Admins \subseteq Users /\ SuperAdmins \subseteq Users
  /\ MaxOps \in Nat /\ Original \notin Edits

VARIABLES
  base,         \* the tip of the base branch
  tip,          \* [Branches -> tips], None where there is no such branch
  head, staged, \* the worktree: what is checked out, and the index
  op,           \* what each tab is doing
  begun,        \* how many operations there were
  approvals     \* the approvals decided: the branch, and its file as it was then

gitVars == <<base, tip, head, staged>>
opVars == <<op, begun>>
vars == <<gitVars, opVars, approvals>>

-----------------------------------------------------------------------------
\* What a review record decides by; the approver it names is left out.
Records == [requestedBy : Users, decision : {"proposed", "approved"}]

\* The files a change is about: for each branch its definitional file, and the
\* review record of its proposal.
Files == [file : [Branches -> Edits \cup {Original}], record : [Branches -> Records \cup {None}]]

\* A branch's tip: whether it has commits that base has not, its files, its last
\* author, and the files of the commit where it left base or was last merged.
Tips == [ahead : BOOLEAN, files : Files, by : Users \cup {None}, fork : Files]

ASSUME NoneAssumption == None \notin Branches /\ None \notin Tips

\* A change to one file, to be staged.
Changes == [what : {"file"}, branch : Branches, to : Edits]
             \cup [what : {"record"}, branch : Branches, to : Records]

Kinds == {"saveDraft", "propose", "approve", "merge", "discard"}

Ops == [kind : Kinds, branch : Branches,
        at : {"read", "record", "checkout", "write", "commit", "merge", "delete"},
        change : Changes \cup {None}]

NoFiles == [file |-> [b \in Branches |-> Original], record |-> [b \in Branches |-> None]]

Goto(t, step) == op' = [op EXCEPT ![t].at = step]
Done(t) == op' = [op EXCEPT ![t] = None]
Fail(t) == Done(t)

-----------------------------------------------------------------------------
(* what git tells of a proposal *)

Exists(b) == tip[b] # None
RecordOf(b) == tip[b].files.record[b]

\* Merged, if base holds all its commits; then whatever its review record says.
State(b) ==
  IF ~tip[b].ahead THEN "merged"
  ELSE IF RecordOf(b) = None THEN "draft"
  ELSE IF RecordOf(b).decision = "approved" THEN "approved"
  ELSE "in_review"

\* The requester on the record, or else the last one to commit.
AuthorOf(b) == IF RecordOf(b) = None THEN tip[b].by ELSE RecordOf(b).requestedBy

\* An admin approves another's proposal, a super admin also their own.
MayApprove(u, b) == IF u = AuthorOf(b) THEN u \in SuperAdmins ELSE u \in Admins

-----------------------------------------------------------------------------
(* the operations begin *)

Begin(t, kind, b, change) ==
  /\ op[t] = None /\ begun < MaxOps
  /\ begun' = begun + 1
  /\ op' = [op EXCEPT ![t] = [kind |-> kind, branch |-> b, change |-> change,
                              at |-> CASE kind = "approve" -> "read"
                                       [] kind = "discard" -> "delete"
                                       [] OTHER -> "checkout"]]

\* Any signed-in user may save a draft, on any branch.
SaveDraft(t, b, e) ==
  /\ Begin(t, "saveDraft", b, [what |-> "file", branch |-> b, to |-> e])
  /\ UNCHANGED <<gitVars, approvals>>

\* Propose writes a new review record, whatever was there.
Propose(t, b) ==
  /\ Exists(b)
  /\ Begin(t, "propose", b, [what |-> "record", branch |-> b, to |->
       [requestedBy |-> UserOf[t], decision |-> "proposed"]])
  /\ UNCHANGED <<gitVars, approvals>>

\* The gate reads the proposal first ...
Approve(t, b) ==
  /\ Exists(b) /\ MayApprove(UserOf[t], b)
  /\ Begin(t, "approve", b, None)
  /\ UNCHANGED <<gitVars, approvals>>

\* ... the host reads it again, to see that it is in review ...
ReadProposal(t) ==
  /\ op[t] # None /\ op[t].at = "read"
  /\ LET b == op[t].branch IN
     IF Exists(b) /\ State(b) = "in_review" THEN Goto(t, "record") ELSE Fail(t)
  /\ UNCHANGED <<gitVars, begun, approvals>>

\* ... and then the record, which it approves whatever that says by now.
ReadRecord(t) ==
  /\ op[t] # None /\ op[t].at = "record"
  /\ LET b == op[t].branch IN
     \/ /\ Exists(b) /\ RecordOf(b) # None
        /\ op' = [op EXCEPT ![t].at = "checkout", ![t].change =
             [what |-> "record", branch |-> b, to |->
               [RecordOf(b) EXCEPT !.decision = "approved"]]]
        /\ approvals' = approvals \cup {[branch |-> b, file |-> tip[b].files.file[b]]}
     \/ /\ ~(Exists(b) /\ RecordOf(b) # None)
        /\ Fail(t) /\ UNCHANGED approvals
  /\ UNCHANGED <<gitVars, begun>>

MergeableProposed(b) == State(b) \in {"in_review", "approved"}

Mergeable(b) == State(b) = "approved"

\* The clone is always clean and on the base branch: only merges touch it.
Merge(t, b) ==
  /\ UserOf[t] \in SuperAdmins /\ Exists(b) /\ Mergeable(b)
  /\ Begin(t, "merge", b, None)
  /\ UNCHANGED <<gitVars, approvals>>

\* Discard is refused to others than the author.
Discard(t, b) ==
  /\ Exists(b) /\ UserOf[t] = AuthorOf(b)
  /\ Begin(t, "discard", b, None)
  /\ UNCHANGED <<gitVars, approvals>>

-----------------------------------------------------------------------------
(* and go on in the worktree *)

\* A branch that does not exist yet is made from base, where it is a draft's.
\* What others have staged is carried along, or git refuses.
Checkout(t) ==
  /\ op[t] # None /\ op[t].at = "checkout"
  /\ LET b == op[t].branch IN
     \/ /\ Exists(b) \/ op[t].kind = "saveDraft"
        /\ head' = b
        /\ tip' = IF Exists(b) THEN tip
                  ELSE [tip EXCEPT ![b] = [base EXCEPT !.fork = base.files]]
        /\ Goto(t, IF op[t].kind = "merge" THEN "commit" ELSE "write")
     \/ /\ staged # {} \/ ~(Exists(b) \/ op[t].kind = "saveDraft")
        /\ Fail(t) /\ UNCHANGED <<head, tip>>
  /\ UNCHANGED <<base, staged, begun, approvals>>

\* The files of what is checked out; a detached head is at base.
HeadFiles == IF head \in Branches THEN tip[head].files ELSE base.files

Stages(c) ==
  IF c.what = "file" THEN HeadFiles.file[c.branch] # c.to
  ELSE HeadFiles.record[c.branch] # c.to

Write(t) ==
  /\ op[t] # None /\ op[t].at = "write"
  /\ LET c == op[t].change
         others == {d \in staged : d.what # c.what \/ d.branch # c.branch}
     IN staged' = others \cup IF Stages(c) THEN {c} ELSE {}
  /\ Goto(t, "commit")
  /\ UNCHANGED <<base, tip, head, begun, approvals>>

Changed(f, what) ==
  [b \in Branches |->
     IF \E c \in staged : c.what = what /\ c.branch = b
     THEN (CHOOSE c \in staged : c.what = what /\ c.branch = b).to ELSE f[b]]

Committed(old, u) ==
  [old EXCEPT !.ahead = TRUE, !.by = u,
              !.files = [file |-> Changed(@.file, "file"), record |-> Changed(@.record, "record")]]

\* Whatever is staged is committed to whatever is checked out by now.  A merge
\* first runs its check, which may refuse and drop nothing that is staged; with
\* nothing staged it goes on, and the others fail.
Commit(t) ==
  /\ op[t] # None /\ op[t].at = "commit"
  /\ \/ /\ staged # {}
        /\ tip' = IF head \in Branches THEN [tip EXCEPT ![head] = Committed(@, UserOf[t])] ELSE tip
        /\ staged' = {}
        /\ IF op[t].kind = "merge" THEN Goto(t, "merge") ELSE Done(t)
     \/ /\ staged = {} \/ op[t].kind = "merge"
        /\ IF op[t].kind = "merge" /\ staged = {} THEN Goto(t, "merge") ELSE Fail(t)
        /\ UNCHANGED <<tip, staged>>
  /\ UNCHANGED <<base, head, begun, approvals>>

\* A three-way merge, file by file.
Differ(f, ours, theirs, b) == ours[b] # f[b] /\ theirs[b] # f[b] /\ ours[b] # theirs[b]
Take(f, ours, theirs) == [b \in Branches |-> IF theirs[b] = f[b] THEN ours[b] ELSE theirs[b]]

Conflicts(b) ==
  LET f == tip[b].fork   new == tip[b].files IN
  \E c \in Branches : \/ Differ(f.file, base.files.file, new.file, c)
                      \/ Differ(f.record, base.files.record, new.record, c)

MergedFiles(b) ==
  LET f == tip[b].fork   new == tip[b].files IN
  [file |-> Take(f.file, base.files.file, new.file),
   record |-> Take(f.record, base.files.record, new.record)]

\* The merge itself runs in the clone, after which the worktree is left detached.
MergeIn(t) ==
  /\ op[t] # None /\ op[t].at = "merge"
  /\ LET b == op[t].branch IN
     IF Exists(b) /\ ~Conflicts(b)
     THEN /\ base' = [base EXCEPT !.by = UserOf[t], !.files = MergedFiles(b)]
          /\ tip' = [tip EXCEPT ![b].fork = tip[b].files, ![b].ahead = FALSE]
          /\ head' = None
     ELSE UNCHANGED <<base, tip, head>>
  /\ Done(t)
  /\ UNCHANGED <<staged, begun, approvals>>

\* Git deletes no branch that is checked out: the worktree leaves it first.
Delete(t) ==
  /\ op[t] # None /\ op[t].at = "delete"
  /\ LET b == op[t].branch IN
     /\ tip' = [tip EXCEPT ![b] = None]
     /\ head' = IF head = b THEN None ELSE head
  /\ Done(t)
  /\ UNCHANGED <<base, staged, begun, approvals>>

Init ==
  /\ base = [ahead |-> FALSE, files |-> NoFiles, by |-> None, fork |-> NoFiles]
  /\ tip = [b \in Branches |-> None]
  /\ head = None /\ staged = {} /\ begun = 0
  /\ op = [t \in Tabs |-> None] /\ approvals = {}

Start(t) ==
  \E b \in Branches :
    \/ \E e \in Edits : SaveDraft(t, b, e)
    \/ Propose(t, b) \/ Approve(t, b) \/ Merge(t, b) \/ Discard(t, b)

Work(t) ==
  \/ ReadProposal(t) \/ ReadRecord(t)
  \/ Checkout(t) \/ Write(t) \/ Commit(t) \/ MergeIn(t) \/ Delete(t)

Next == \E t \in Tabs : Start(t) \/ Work(t)

Spec == Init /\ [][Next]_vars
-----------------------------------------------------------------------------
TypeOK ==
  /\ base \in Tips /\ tip \in [Branches -> Tips \cup {None}]
  /\ head \in Branches \cup {None} /\ staged \subseteq Changes
  /\ op \in [Tabs -> Ops \cup {None}] /\ begun \in 0..MaxOps
  /\ approvals \subseteq [branch : Branches, file : Edits \cup {Original}]

Approved == {a.branch : a \in approvals}

\* The base branch, which the gateway reads, moves only by a merge of a branch
\* that an entitled user has approved, at that time or earlier; no commit that
\* goes astray in the shared worktree ends up on it.
OnlyMergesMoveBase ==
  [][base' # base =>
       \E t \in Tabs : /\ op[t] # None /\ op[t].at = "merge" /\ op[t].branch \in Approved]_vars
=============================================================================
