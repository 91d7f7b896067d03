---------------------------- MODULE SmokeFolders -----------------------------
(***************************************************************************)
(* smokes/folder_structure_refactor.js: the ramp stops at the deadline and *)
(* a 4xx does not fail the run.                                            *)
(***************************************************************************)
EXTENDS SmokeRequests

\* LIMIT and balance > 0 leave some out, a failed query all of them.
seed(live, gone) ==
  {[active |-> a, deactivated |-> d] : a \in SUBSET live, d \in SUBSET gone}

doHealth == {Fetch("health", Fine)}

doCreateAccount(state) ==
  {[Fetch("create", {201}) EXCEPT !.id = state.new, !.keep = "active"]}

doSend(state) ==
  IF Cardinality(state.active) < 2 THEN {Skipped} ELSE {Fetch("send", Fine)}

doDeactivate(state) ==
  Again(state.deactivated)
    \cup (IF state.active = {} THEN {Skipped} ELSE Taken(state.active))

\* The requests the loop may make next, none when it is over.
runUser(state) ==
  IF state.over \/ state.left = 0
  THEN {}
  ELSE doHealth \cup doCreateAccount(state) \cup doSend(state) \cup doDeactivate(state)

\* Of a result that is not ok.
classify(r) == IF r.status \in 400..499 THEN "bizFail" ELSE "serverError"

\* The exit code.
report(failures) ==
  IF \E r \in failures : classify(r) = "serverError" THEN 1 ELSE 0

\* The ramp launches no user past the deadline.
ramp(over) == ~ over
=============================================================================
