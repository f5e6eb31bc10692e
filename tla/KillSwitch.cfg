\* A kill that ends and three dependents of a secret, one of which the scan does
\* not find, with failing stores, failing polls, restarts, and another process at
\* the vault.
CONSTANTS
  k1 = k1  k2 = k2  k3 = k3  k4 = k4
  Kills = {k1, k2, k3, k4}
  UntilOf <- MCUntilOf
  Dependents = {k2, k3, k4}
  NamedIn <- MCNamedIn
  Doomed = Doomed
  Other = Other
  MaxTime = 1
SPECIFICATION KillSpec
INVARIANTS
  DeadSecretIsBehindKills
CHECK_DEADLOCK FALSE
