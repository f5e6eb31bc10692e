\* dialect.ts:178, no transaction waits for itself: refuted.
CONSTANTS
  Calls = {c1, c2, c3}
  Tokens = {t1, t2}
  Nonces = {n1, n2}
  c1 = c1  c2 = c2  c3 = c3
  t1 = t1  t2 = t2
  n1 = n1  n2 = n2
  None = None
  NonceOf <- MCNonceOf
  Issued <- MCIssued
  Exp <- MCExp
  Scope <- MCScope
  SingleFlight = TRUE
  MaxTime = 2
  MaxCrashes = 0
SPECIFICATION Spec
INVARIANTS
  NoCircularWait
CHECK_DEADLOCK FALSE
