----------------------------- MODULE MCApprovals -----------------------------
(***************************************************************************)
(* Instances of Approvals for TLC: a plan of a requester and one of a      *)
(* super admin, and a third human.                                         *)
(***************************************************************************)
EXTENDS Approvals, TLC

CONSTANTS i1, i2, p1, p2, alice, bob, root, r1, r2, d1, d2

MCPlanOf == [r \in Raises |-> IF r = r1 THEN p1 ELSE p2]
MCCallerOf == [p \in Plans |-> IF p = p1 THEN alice ELSE root]

Symmetry == Permutations(Ids) \cup Permutations(Decisions)
=============================================================================
