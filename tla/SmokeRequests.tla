---------------------------- MODULE SmokeRequests ----------------------------
(***************************************************************************)
(* What the four smoke scripts of src/accounts/smokes have in common: the  *)
(* requests they make.  A request carries the statuses its executor counts *)
(* as ok and the list it files the account under when it was ok.           *)
(***************************************************************************)
EXTENDS Naturals, FiniteSets

CONSTANT NoId   \* a request that names no account

Fetch(endpoint, expected) ==
  [endpoint |-> endpoint, id |-> NoId, valid |-> TRUE,
   expected |-> expected, keep |-> "nowhere"]

\* res.ok is any 2xx; the service answers with these two.
Fine == {200, 201}

\* A payload the schemas reject; the script expects to be told.
Bad(endpoint) == [Fetch(endpoint, {400}) EXCEPT !.valid = FALSE]

\* The iteration makes no request: { skipped: true }.
Skipped == Fetch("skipped", {})

\* An account the script believes deactivated is deactivated again.
Again(ids) == {[Fetch("deactivate", {200, 409}) EXCEPT !.id = id] : id \in ids}

\* An account is taken out of the script's active list, for good if the request
\* is not ok.
Taken(ids) == {[r EXCEPT !.keep = "deactivated"] : r \in Again(ids)}
=============================================================================
