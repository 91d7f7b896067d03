----------------------------- MODULE DecidedOnce -----------------------------
(***************************************************************************)
(* What POST /antifraud/evaluate promises: a transaction is decided once,  *)
(* for good, whoever asks and however often; and a caller is told the      *)
(* decision once there is one, and nothing else.                           *)
(***************************************************************************)
CONSTANTS
  Callers,   \* those who ask
  Nothing    \* what a caller has before it is told a decision

VARIABLES
  asked,     \* caller -> the transaction it asks about
  decided,   \* transaction -> its decision, for those that have one
  told       \* caller -> the decision it was told

vars == <<asked, decided, told>>

Init ==
  /\ DOMAIN asked = Callers
  /\ DOMAIN decided = {}
  /\ told = [c \in Callers |-> Nothing]

\* A decision is taken; what was decided before stays as it is.
Decide(tx) ==
  /\ tx \notin DOMAIN decided
  /\ DOMAIN decided' = DOMAIN decided \cup {tx}
  /\ decided'[tx] # Nothing
  /\ \A t \in DOMAIN decided : decided'[t] = decided[t]

\* A caller is told what is decided by now.
Tell(c) ==
  /\ told[c] = Nothing
  /\ asked[c] \in DOMAIN decided'
  /\ told' = [told EXCEPT ![c] = decided'[asked[c]]]

Next ==
  /\ UNCHANGED asked
  /\ \E c \in Callers :
       \/ Decide(asked[c]) /\ UNCHANGED told
       \/ Decide(asked[c]) /\ Tell(c)
       \/ Tell(c) /\ UNCHANGED decided

Spec == Init /\ [][Next]_vars
=============================================================================
