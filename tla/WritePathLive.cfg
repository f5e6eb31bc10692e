\* Two calls, with fairness: every accepted call is answered.
CONSTANTS
  Calls = {c1, c2}
  Tokens = {t1, t2}
  Nonces = {n1, n2}
  c1 = c1  c2 = c2  c3 = c3
  t1 = t1  t2 = t2
  n1 = n1  n2 = n2
  None = None
  NonceOf <- MCNonceOf
  Issued <- MCIssued
  Exp <- MCExp
  Scope <- MCScope
  SingleFlight = TRUE
  MaxTime = 2
  MaxCrashes = 1
SPECIFICATION FairSpec
PROPERTIES
  AcceptedIsAnswered
  ImplementsOneTimeWrite
CHECK_DEADLOCK FALSE
