------------------------------ MODULE MCUserAdmin ------------------------------
(***************************************************************************)
(* Small instances of UserAdmin.                                           *)
(***************************************************************************)
EXTENDS UserAdmin, TLC

Symmetry == Permutations(Users) \cup Permutations(Requests) \cup Permutations(Boots)
=============================================================================
