----------------------------- MODULE OneTimeWrite -----------------------------
(***************************************************************************)
(* What the write path promises of a confirm token: one call claims it, no *)
(* other ever does, only the holder invokes the target, and at most once;  *)
(* the token then ends done or failed, for good, or stays claimed when the *)
(* holder's outcome is not known.                                          *)
(***************************************************************************)
CONSTANTS Calls, Tokens, None

VARIABLES
  life,     \* what has become of each token
  holder,   \* the call that claimed it
  sent      \* calls that reached the target

vars == <<life, holder, sent>>

Init ==
  /\ life = [t \in Tokens |-> "fresh"]
  /\ holder = [t \in Tokens |-> None]
  /\ sent = {}

Claim(c, t) ==
  /\ life[t] = "fresh"
  /\ life' = [life EXCEPT ![t] = "claimed"]
  /\ holder' = [holder EXCEPT ![t] = c]
  /\ UNCHANGED sent

Send(t) ==
  /\ life[t] = "claimed"
  /\ holder[t] \notin sent
  /\ sent' = sent \cup {holder[t]}
  /\ UNCHANGED <<life, holder>>

Done(t) ==
  /\ life[t] = "claimed"
  /\ holder[t] \in sent
  /\ life' = [life EXCEPT ![t] = "done"]
  /\ UNCHANGED <<holder, sent>>

Fail(t) ==
  /\ life[t] = "claimed"
  /\ life' = [life EXCEPT ![t] = "failed"]
  /\ UNCHANGED <<holder, sent>>

Next == \E t \in Tokens :
  \/ \E c \in Calls : Claim(c, t)
  \/ Send(t) \/ Done(t) \/ Fail(t)

Spec == Init /\ [][Next]_vars
=============================================================================
