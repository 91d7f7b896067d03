-------------------------- MODULE SmokeDeactivation --------------------------
(***************************************************************************)
(* smokes/account_deactivation.js: until a deadline, with PATCH /accounts/ *)
(* :id/deactivate among the requests.                                      *)
(***************************************************************************)
EXTENDS SmokeRequests

\* LIMIT and balance > 0 leave some out, a failed query all of them.
seed(live, gone) ==
  {[active |-> a, deactivated |-> d] : a \in SUBSET live, d \in SUBSET gone}

doHealth == {Fetch("health", Fine)}

doCreateAccount(state) ==
  {[Fetch("create", {201}) EXCEPT !.id = state.new, !.keep = "active"]}

doSend(state) ==
  IF Cardinality(state.active) < 2 THEN {Skipped} ELSE {Fetch("send", Fine)}

\* Mutant: a 409 does not count as ok.
doDeactivate_No409(state) ==
  {[Fetch("deactivate", {200}) EXCEPT !.id = id, !.keep = "deactivated"] :
     id \in state.active}

doDeactivate(state) ==
  Again(state.deactivated)
    \cup (IF state.active = {} THEN {Skipped} ELSE Taken(state.active))

\* The requests the loop may make next, none when it is over.
runUser(state) ==
  IF state.over \/ state.left = 0
  THEN {}
  ELSE doHealth \cup doCreateAccount(state) \cup doSend(state) \cup doDeactivate(state)

\* The exit code.
report(failures) == IF failures = {} THEN 0 ELSE 1

\* The ramp launches every user, those past the deadline to return at once.
ramp(over) == TRUE
=============================================================================
