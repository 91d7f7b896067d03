------------------------------ MODULE SmokeZod -------------------------------
(***************************************************************************)
(* smokes/zod_validation.js: besides the requests of the other scripts,    *)
(* payloads the schemas reject, for which 400 is the only ok.              *)
(***************************************************************************)
EXTENDS SmokeRequests

\* LIMIT and balance > 0 leave some out, a failed query all of them.
seed(live, gone) ==
  {[active |-> a, deactivated |-> d] : a \in SUBSET live, d \in SUBSET gone}

doHealth == {Fetch("health", Fine)}

doCreateAcctValid(state) ==
  {[Fetch("create", {201}) EXCEPT !.id = state.new, !.keep = "active"]}

doCreateAcctBad == {Bad("create")}

doSendValid(state) ==
  IF Cardinality(state.active) < 2 THEN {Skipped} ELSE {Fetch("send", Fine)}

doSendBad == {Bad("send")}

doDeactivateValid(state) ==
  Again(state.deactivated)
    \cup (IF state.active = {} THEN {Skipped} ELSE Taken(state.active))

doDeactivateBadUUID == {Bad("deactivate")}

\* The requests the loop may make next, none when it is over.
runUser(state) ==
  IF state.over \/ state.left = 0
  THEN {}
  ELSE doHealth \cup doCreateAcctValid(state) \cup doCreateAcctBad
         \cup doSendValid(state) \cup doSendBad
         \cup doDeactivateValid(state) \cup doDeactivateBadUUID

\* The exit code.
report(failures) == IF failures = {} THEN 0 ELSE 1

\* The ramp launches every user, those past the deadline to return at once.
ramp(over) == TRUE
=============================================================================
