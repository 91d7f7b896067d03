-------------------------------- MODULE Smoke --------------------------------
(***************************************************************************)
(* A smoke script of src/accounts/smokes against the accounts service.     *)
(* The script keeps a belief about the accounts, which ones are active and *)
(* which are deactivated, that it copies to every virtual user, and each   *)
(* user then goes on from its copy without the others: what one does makes *)
(* another's list stale.  The verdict is the exit code.                    *)
(***************************************************************************)
EXTENDS AccountsApi

CONSTANTS
  USERS,       \* virtual users
  ITERATIONS,  \* script -> requests per user; where the script has 0, which leaves
               \* only the deadline, a bound for TLC
  NoId

Users == 1..USERS
Main == 0    \* main() makes the health check itself
NoCode == 2
Scripts == {"creation", "deactivation", "folders", "zod"}

ASSUME UsersAssumption == USERS \in Nat \ {0}
ASSUME CallersAssumption == Callers = 0..USERS
ASSUME IterationsAssumption == ITERATIONS \in [Scripts -> Nat]

\* The ids of the accounts the users create, and those in the table before.
Drawn == Users \X UNION {1..ITERATIONS[s] : s \in Scripts}
Seeds == Ids \ Drawn
ASSUME IdsAssumption == Drawn \subseteq Ids

VARIABLES
  script,    \* the script that runs
  phase,     \* where main() is
  launched,  \* users launched so far
  state,     \* user -> its copy of the lists, and the iterations it has left
  over,      \* has the deadline passed?
  failures,  \* the results that are not ok: endpoint and status
  exit       \* the exit code, NoCode until there is one

scriptVars == <<script, phase, launched, state, over, failures, exit>>
vars == <<apiVars, scriptVars>>

Creation == INSTANCE SmokeCreation
Deactivation == INSTANCE SmokeDeactivation
Folders == INSTANCE SmokeFolders
Zod == INSTANCE SmokeZod

seed(live, gone) ==
  CASE script = "creation" -> Creation!seed(live, gone)
    [] script = "deactivation" -> Deactivation!seed(live, gone)
    [] script = "folders" -> Folders!seed(live, gone)
    [] script = "zod" -> Zod!seed(live, gone)

runUser(s) ==
  CASE script = "creation" -> Creation!runUser(s)
    [] script = "deactivation" -> Deactivation!runUser(s)
    [] script = "folders" -> Folders!runUser(s)
    [] script = "zod" -> Zod!runUser(s)

report ==
  CASE script = "creation" -> Creation!report(failures)
    [] script = "deactivation" -> Deactivation!report(failures)
    [] script = "folders" -> Folders!report(failures)
    [] script = "zod" -> Zod!report(failures)

MayLaunch ==
  CASE script = "creation" -> Creation!ramp(over)
    [] script = "deactivation" -> Deactivation!ramp(over)
    [] script = "folders" -> Folders!ramp(over)
    [] script = "zod" -> Zod!ramp(over)

-----------------------------------------------------------------------------
Probe == Creation!Fetch("health", Creation!Fine)

NoLists == [active |-> {}, deactivated |-> {}]

Init ==
  /\ script \in Scripts
  /\ rows = Seeds
  /\ \E gone \in SUBSET Seeds :
       deactivated_at = [id \in Ids |-> IF id \in gone THEN Main ELSE Never]
  /\ at = [c \in Callers |-> IF c = Main THEN "sent" ELSE "none"]
  /\ req = [c \in Callers |-> Probe]
  /\ answer = [c \in Callers |-> 0]
  /\ held = {}
  /\ queue = << >>
  /\ up = TRUE
  /\ broken = FALSE
  /\ faults = 0
  /\ phase = "health"
  /\ launched = 0
  /\ state = [u \in Users |-> [active |-> {}, deactivated |-> {}, left |-> ITERATIONS[script]]]
  /\ over = FALSE
  /\ failures = {}
  /\ exit = NoCode

\* The response has been read, and is dropped with the request.
Settled(c) ==
  /\ at' = [at EXCEPT ![c] = "none"]
  /\ req' = [req EXCEPT ![c] = Probe]
  /\ answer' = [answer EXCEPT ![c] = 0]

\* [ABORT] unless the service is healthy.
Checked ==
  /\ phase = "health"
  /\ at[Main] = "answered"
  /\ Settled(Main)
  /\ \/ answer[Main] \in req[Main].expected /\ phase' = "seed" /\ UNCHANGED exit
     \/ answer[Main] \notin req[Main].expected /\ phase' = "exit" /\ exit' = 1
  /\ UNCHANGED <<table, pool, up, broken, faults>>
  /\ UNCHANGED <<script, launched, state, over, failures>>

\* The lists are read from the table itself, and copied to every user.
Seed ==
  /\ phase = "seed"
  /\ \E lists \in seed({id \in rows : deactivated_at[id] = Never},
                       {id \in rows : deactivated_at[id] # Never}) :
       state' = [u \in Users |->
                   [active |-> lists.active, deactivated |-> lists.deactivated,
                    left |-> ITERATIONS[script]]]
  /\ phase' = "ramp"
  /\ UNCHANGED <<apiVars, script, launched, over, failures, exit>>

\* The next user is launched, RAMP_MS after the one before.
Launch ==
  /\ phase = "ramp"
  /\ \/ /\ launched < USERS /\ MayLaunch
        /\ launched' = launched + 1
        /\ UNCHANGED phase
     \/ /\ launched = USERS \/ ~ MayLaunch
        /\ phase' = "await"
        /\ UNCHANGED launched
  /\ UNCHANGED <<apiVars, script, state, over, failures, exit>>

\* account_creation.js has none.
Deadline ==
  /\ script # "creation"
  /\ phase \in {"ramp", "await"}
  /\ ~ over
  /\ over' = TRUE
  /\ UNCHANGED <<apiVars, script, phase, launched, state, failures, exit>>

\* What the executors of user u see.
View(u) ==
  [active |-> state[u].active, deactivated |-> state[u].deactivated,
   left |-> state[u].left, over |-> over, new |-> <<u, state[u].left>>]

Running(u) == u <= launched /\ at[u] = "none"

Returned(u) == Running(u) /\ runUser(View(u)) = {}

\* Mutant: the account stays in the active list while it is deactivated.
Request_Keeps(u, r) ==
  /\ at' = [at EXCEPT ![u] = "sent"]
  /\ req' = [req EXCEPT ![u] = r]
  /\ UNCHANGED state

\* splice: an account about to be deactivated leaves the active list before the
\* request is made.
Request(u, r) ==
  /\ at' = [at EXCEPT ![u] = "sent"]
  /\ req' = [req EXCEPT ![u] = r]
  /\ state' = IF r.keep = "deactivated"
              THEN [state EXCEPT ![u].active = @ \ {r.id}]
              ELSE state

Skip(u) ==
  /\ state' = [state EXCEPT ![u].left = @ - 1]
  /\ UNCHANGED <<at, req>>

\* An iteration of the loop up to its fetch.
Pick(u) ==
  /\ Running(u)
  /\ \E r \in runUser(View(u)) :
       \/ r.endpoint = "skipped" /\ Skip(u)
       \/ r.endpoint # "skipped" /\ Request(u, r)
  /\ UNCHANGED <<table, answer, pool, up, broken, faults>>
  /\ UNCHANGED <<script, phase, launched, over, failures, exit>>

\* The lists of u after an ok answer to r.
Filed(u, r) ==
  [state[u] EXCEPT !.left = @ - 1,
     !.active = IF r.keep = "active" THEN @ \cup {r.id} ELSE @,
     !.deactivated = IF r.keep = "deactivated" THEN @ \cup {r.id} ELSE @]

\* The answer is there: the rest of the iteration.
Settle(u) ==
  LET r == req[u]
      ok == answer[u] \in r.expected
  IN /\ at[u] = "answered"
     /\ Settled(u)
     /\ \/ /\ ok
           /\ state' = [state EXCEPT ![u] = Filed(u, r)]
           /\ UNCHANGED failures
        \/ /\ ~ ok
           /\ state' = [state EXCEPT ![u].left = @ - 1]
           /\ failures' = failures \cup {[endpoint |-> r.endpoint, status |-> answer[u]]}
     /\ UNCHANGED <<table, pool, up, broken, faults>>
     /\ UNCHANGED <<script, phase, launched, over, exit>>

\* Promise.all over the users launched, then the report and process.exit.
Report ==
  /\ phase = "await"
  /\ \A u \in 1..launched : Returned(u)
  /\ phase' = "exit"
  /\ exit' = report
  /\ UNCHANGED <<apiVars, script, launched, state, over, failures>>

\* The script has ended, and all it asked for has been answered.
Ended == phase = "exit" /\ UNCHANGED vars

main == Checked \/ Seed \/ Launch \/ Report
User(u) == Pick(u) \/ Settle(u)
Service(c) == Serve(c) /\ UNCHANGED scriptVars

Next ==
  \/ main
  \/ \E u \in Users : User(u)
  \/ \E c \in Callers : Service(c)
  \/ (ApiFails \/ Restart) /\ UNCHANGED scriptVars
  \/ Deadline
  \/ Ended

\* The script's event loop and the service's keep turning, PostgreSQL executes
\* what it is sent.  Nothing has to fail, and nobody has to restart the service.
Fairness ==
  /\ WF_vars(main)
  /\ \A u \in Users : WF_vars(User(u))
  /\ \A c \in Callers : WF_vars(Service(c))

Spec == Init /\ [][Next]_vars /\ Fairness

-----------------------------------------------------------------------------
\* The variables have their types, and no user has an account in both lists: one
\* that it deactivates leaves `active` before it can be in `deactivated`.
SmokeTypeOK ==
  /\ rows \subseteq Ids
  /\ deactivated_at \in [Ids -> Callers \cup {Never}]
  /\ at \in [Callers -> {"none", "sent", "waiting", "answered"} \cup Statements]
  /\ answer \in [Callers -> Statuses]
  /\ state \in [Users -> [active : SUBSET Ids, deactivated : SUBSET Ids,
                          left : 0..ITERATIONS[script]]]
  /\ \A u \in Users : state[u].active \cap state[u].deactivated = {}
  /\ exit \in {0, 1, NoCode}

\* What a user believes is out of date at worst, never wrong: an account of its
\* active list exists, and one of its deactivated list is deactivated, whoever did
\* it and whatever failed.  That is what lets the scripts count a 409 as ok and a 404
\* as a failure.
BeliefsAreTrue ==
  \A u \in Users :
    /\ state[u].active \subseteq rows
    /\ \A id \in state[u].deactivated : deactivated_at[id] # Never

\* The exit code is 1 exactly when a failure of the service met a request or, for
\* the scripts that count a 4xx, a request went to a route the service does not
\* have (/money/send): two users that deactivate one account, or an account
\* another user deactivated first, never fail a run.
VerdictIsJust ==
  exit # NoCode =>
    (exit = 1 <=>
       \/ broken
       \/ script # "folders" /\ \E r \in failures : r.endpoint \notin Routes)

\* A client of the pool is held exactly while a request has a statement under way,
\* whatever the way out of the use case, and nobody waits while one is idle.
ConnectionsAccounted ==
  /\ held = {c \in Callers : at[c] \in Statements}
  /\ {queue[i] : i \in 1..Len(queue)} = {c \in Callers : at[c] = "waiting"}
  /\ Cardinality(held) <= MaxClients
  /\ queue # << >> => Cardinality(held) = MaxClients

\* The script ends with an exit code, though fetch has no timeout and the service
\* may fail: no request stays without an answer.
RunEnds == <>(exit # NoCode)

\* Whatever the users do at the same time, and whatever fails, accounts live as
\* AccountLife says.
Life == INSTANCE AccountLife WITH
  Ids <- Ids,
  Stamps <- Callers,
  Never <- Never,
  rows <- rows,
  deactivated_at <- deactivated_at
Lives == Life!Spec
=============================================================================
