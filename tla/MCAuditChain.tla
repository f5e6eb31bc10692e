----------------------------- MODULE MCAuditChain -----------------------------
(***************************************************************************)
(* Instances of AuditChain for TLC: appends on their own and inside a unit *)
(* of work, and two sweeps.                                                *)
(***************************************************************************)
EXTENDS AuditChain, TLC

CONSTANTS a1, a2, a3, alice, bob

MCSubjectOf == [a \in Appenders |-> IF a = a1 THEN alice ELSE bob]

Symmetry == Permutations(Sweeps) \cup Permutations({a2, a3})
=============================================================================
