\* Three calls on two tokens of one nonce, the window covering every token.
CONSTANTS
  Calls = {c1, c2, c3}
  Tokens = {t1, t2}
  Nonces = {n1, n2}
  c1 = c1  c2 = c2  c3 = c3
  t1 = t1  t2 = t2
  n1 = n1  n2 = n2
  None = None
  NonceOf <- MCSharedNonce
  Issued <- MCIssued
  Exp <- MCExp
  Scope <- MCScope
  SingleFlight = TRUE
  MaxTime = 2
  MaxCrashes = 1
SPECIFICATION Spec
SYMMETRY Symmetry
INVARIANTS
  AtMostOneSend
  OneCommitPerNonce
  CommittedUnit
  AnswersAreBacked
  NotSentIsTrue
  AnsweredIsRecorded
PROPERTIES
  SendsUnderClaim
CHECK_DEADLOCK FALSE
