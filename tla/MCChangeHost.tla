------------------------------ MODULE MCChangeHost ------------------------------
(***************************************************************************)
(* Instances of ChangeHost for TLC, and what the code says that it does    *)
(* not keep.                                                               *)
(***************************************************************************)
EXTENDS ChangeHost, TLC

CONSTANTS t1, t2, ann, root

MCUserOf == [t \in Tabs |-> IF t = t1 THEN ann ELSE root]

Symmetry == Permutations(Branches)

\* approve() and merge(): only a proposed change is approved, only an approved one
\* is merged.  So what base has of a branch's file was approved as it is.
MergedAsApproved ==
  \A b \in Branches : base.files.file[b] # Original =>
    [branch |-> b, file |-> base.files.file[b]] \in approvals
=============================================================================
