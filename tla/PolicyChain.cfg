\* Three calls of one caller, two of a write and one of a read, on one binding and
\* later on two; limits of one and two; a kill of everything that ends.
CONSTANTS
  c1 = c1  c2 = c2  c3 = c3
  alice = alice  read = read  write = write
  b1 = b1  b2 = b2  k1 = k1
  Calls = {c1, c2, c3}
  Callers = {alice}
  Tools = {read, write}
  Bindings = {b1, b2}
  CallerOf <- MCCallerOf
  ToolOf <- MCToolOf
  Kills = {k1}
  UntilOf <- MCUntilOf
  Covers <- MCCovers
  Dependents = {}
  NamedIn <- MCNamedIn
  Doomed = Doomed
  Other = Other
  Writes = {write}
  Elevated = {write}
  Scopes <- MCScopes
  ToolLimit = 2
  CallerLimit = 2
  Window = 1
  GlobalLimit = 2
  BindingLimit = 1
  TTL = 1
  MaxTime = 1
  None = None
SPECIFICATION Spec
SYMMETRY Symmetry
INVARIANTS
  SlotsAreHeld
  RateHolds
  ProceedsInScope
  ReadKillsBind
  WritesAreConsented
CHECK_DEADLOCK FALSE
