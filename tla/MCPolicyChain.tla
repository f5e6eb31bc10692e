------------------------------ MODULE MCPolicyChain ------------------------------
(***************************************************************************)
(* An instance of PolicyChain for TLC.                                     *)
(***************************************************************************)
EXTENDS PolicyChain, TLC

CONSTANTS c1, c2, c3, alice, read, write, b1, b2, k1

MCUntilOf == [k \in Kills |-> 1]
MCNamedIn == [k \in Dependents |-> "manifest"]
MCCovers == [k \in Kills |-> Tools]
MCCallerOf == [c \in Calls |-> alice]
MCToolOf == [c \in Calls |-> IF c = c3 THEN read ELSE write]

\* Everything open, both tools on one binding, and a standing authorization for the
\* write that ends at time 1; and, after a reload, the write on a binding of its own
\* and with an approval of its own required, and the read not enabled.
Open == [deployed |-> Tools, granted |-> Tools, authorized |-> Tools, enabled |-> Tools,
         active |-> TRUE, binding |-> [t \in Tools |-> b1],
         approvalRequired |-> {}, standingUntil |-> 1]
Later == [Open EXCEPT !.enabled = {write}, !.approvalRequired = {write},
                      !.binding = [t \in Tools |-> IF t = write THEN b2 ELSE b1]]
MCScopes == <<Open, Later>>

Symmetry == Permutations({c1, c2})

=============================================================================
