----------------------------- MODULE MCWritePath -----------------------------
(***************************************************************************)
(* Instances of WritePath for TLC: two tokens of which the second expires  *)
(* first, the window covering both.  They have a nonce each, or share one, *)
(* as two mints of one approval under different keys do.                   *)
(***************************************************************************)
EXTENDS WritePathRefinement, TLC

CONSTANTS c1, c2, c3, t1, t2, n1, n2

MCIssued == [t \in Tokens |-> 0]
MCExp == [t \in Tokens |-> IF t = t1 THEN 2 ELSE 1]
MCNonceOf == [t \in Tokens |-> IF t = t1 THEN n1 ELSE n2]
MCScope == [t \in Tokens |-> 2]
MCSharedNonce == [t \in Tokens |-> n1]

Symmetry == Permutations(Calls)

=============================================================================
