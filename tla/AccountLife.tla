----------------------------- MODULE AccountLife -----------------------------
(***************************************************************************)
(* What the accounts service promises of the table accounts, whoever calls *)
(* it and however calls overlap: a row is there for good once it is there, *)
(* and its deactivated_at is set once and keeps its value.                 *)
(***************************************************************************)
CONSTANTS
  Ids,      \* the ids accounts may have
  Stamps,   \* values of deactivated_at
  Never     \* deactivated_at IS NULL

VARIABLES
  rows,            \* the ids that have a row
  deactivated_at   \* id -> when it was deactivated

vars == <<rows, deactivated_at>>

Init ==
  /\ rows \subseteq Ids
  /\ deactivated_at \in [Ids -> Stamps \cup {Never}]
  /\ \A id \in Ids \ rows : deactivated_at[id] = Never

\* Rows come and stay.
Create ==
  /\ rows \subseteq rows'
  /\ rows' \subseteq Ids

\* What changes is an account that is there and is not deactivated yet.
Deactivate ==
  /\ deactivated_at' \in [Ids -> Stamps \cup {Never}]
  /\ \A id \in Ids :
       deactivated_at'[id] # deactivated_at[id] => id \in rows /\ deactivated_at[id] = Never

\* One step may hold transactions of several callers: when the process that sent them
\* ends, the database may execute them all.
Next == Create /\ Deactivate

Spec == Init /\ [][Next]_vars
=============================================================================
