---------------------------- MODULE SmokeCreation ----------------------------
(***************************************************************************)
(* smokes/account_creation.js: each user makes ITERATIONS requests, with   *)
(* no deadline, and keeps nothing of what it created.                      *)
(***************************************************************************)
EXTENDS SmokeRequests

\* The query does not ask for deactivated_at IS NULL.
seed(live, gone) ==
  {[active |-> ids, deactivated |-> {}] : ids \in SUBSET (live \cup gone)}

doHealth == {Fetch("health", Fine)}

doCreateAccount(state) == {[Fetch("create", {201}) EXCEPT !.id = state.new]}

doSend(state) ==
  IF Cardinality(state.active) < 2 THEN {Skipped} ELSE {Fetch("send", Fine)}

\* The requests the loop may make next, none when it is over.
runUser(state) ==
  IF state.left = 0
  THEN {}
  ELSE doHealth \cup doCreateAccount(state) \cup doSend(state)

\* The exit code.
report(failures) == IF failures = {} THEN 0 ELSE 1

\* The ramp launches every user.
ramp(over) == TRUE
=============================================================================
