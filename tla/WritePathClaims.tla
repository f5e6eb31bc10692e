--------------------------- MODULE WritePathClaims ---------------------------
(***************************************************************************)
(* What a comment of the repository says of the write path and the code    *)
(* does not keep: the property of a run in which TLC shows a behaviour     *)
(* against it.                                                             *)
(***************************************************************************)
EXTENDS MCWritePath

\* dialect.ts:178: a nested transaction never waits for the one it is inside
\* of.  Through the audit queue it does: a refusal's append holds the queue and
\* waits for the connection, which the transaction waiting in the queue holds.
NoCircularWait == ~CircularWait
=============================================================================
