-------------------------------- MODULE MCReload --------------------------------
(***************************************************************************)
(* An instance of Reload for TLC: the tool is removed and comes back at    *)
(* the same version with another manifest, while the grant goes.           *)
(***************************************************************************)
EXTENDS Reload, TLC

V1 == [version |-> 1, manifest |-> 1]
MCTrees == <<[tool |-> V1, grants |-> TRUE, active |-> TRUE],
             [tool |-> Absent, grants |-> TRUE, active |-> FALSE],
             [tool |-> [V1 EXCEPT !.manifest = 2], grants |-> TRUE, active |-> TRUE],
             [tool |-> [V1 EXCEPT !.manifest = 2], grants |-> FALSE, active |-> TRUE]>>
=============================================================================
