\* Two sign-ins, two renewals, a sign-out, a reset or a disabling.
CONSTANTS
  Attempts = {a1, a2}
  Renewals = {r1, r2}
  SignOuts = {o1}
  a1 = a1  a2 = a2  r1 = r1  r2 = r2  o1 = o1
  Threshold = 2
  LockFor = 1
  Idle = 1
  Absolute = 2
  Window = 0
  MaxTime = 2
  MaxCommands = 1
  None = None
SPECIFICATION Spec
SYMMETRY Symmetry
INVARIANTS
  OneChain
  ReuseEndsSession
  ResetEndsOpenSessions
  DisabledHoldsNothing
  AcceptedCodesAreSpent
  LockedAtThreshold
CHECK_DEADLOCK FALSE
