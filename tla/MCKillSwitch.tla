------------------------------- MODULE MCKillSwitch -------------------------------
(***************************************************************************)
(* An instance of KillSwitch for TLC.                                      *)
(***************************************************************************)
EXTENDS KillSwitch

CONSTANTS k1, k2, k3, k4

MCUntilOf == [k \in Kills |-> IF k = k1 THEN 1 ELSE MaxTime + 1]

\* A tool and a consumer that the scan finds, and a tool that it does not.
MCNamedIn == [k \in Dependents |-> CASE k = k2 -> "manifest" [] k = k3 -> "consumer"
                                     [] k = k4 -> "targets"]
=============================================================================
