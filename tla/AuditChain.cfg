\* Three appends, one of them in a unit of work, two sweeps, restarts.
CONSTANTS
  Appenders = {a1, a2, a3}
  Nested = {a1}
  Subjects = {alice, bob}
  a1 = a1  a2 = a2  a3 = a3
  alice = alice  bob = bob
  SubjectOf <- MCSubjectOf
  Sweeps = {w1, w2}
  Operator = bob
  Seeds = {0}
  SeqSize = 8
  MaxTime = 3
  LastDrawn = 1
  Genesis = Genesis
  None = None
SPECIFICATION Spec
SYMMETRY Symmetry
INVARIANTS
  ChainVerifies
  HolesAreFound
  AcknowledgedIsKept
  DeletionIsAttested
  UsageMatchesTrail
CHECK_DEADLOCK FALSE
