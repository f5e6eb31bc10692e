\* Two requests, two concurrent decisions, failing appends and a crash.
CONSTANTS
  Ids = {i1, i2}
  Plans = {p1, p2}
  Subjects = {alice, bob, root}
  SuperAdmins = {root}
  Raises = {r1, r2}
  Decisions = {d1, d2}
  i1 = i1  i2 = i2  p1 = p1  p2 = p2
  alice = alice  bob = bob  root = root
  r1 = r1  r2 = r2  d1 = d1  d2 = d2
  CallerOf <- MCCallerOf
  PlanOf <- MCPlanOf
  TTL = 1
  MaxTime = 1
  MaxCrashes = 1
  Other = Other
  None = None
SPECIFICATION Spec
SYMMETRY Symmetry
INVARIANTS
  DecisionIsEvidenced
  AttemptIsRecorded
  DecidedByAnotherInTime
  TokenMeansApproved
PROPERTIES
  DecisionIsFinal
CHECK_DEADLOCK FALSE
