----------------------------- MODULE AccountsApi -----------------------------
(***************************************************************************)
(* The HTTP side of the accounts service: its routes (src/accounts/        *)
(* server.js), the use cases behind them with the connection pool they     *)
(* share, and the statuses the error middleware answers with.  A caller    *)
(* has at most one request under way.  The outbox rows of a creation and   *)
(* where they go are AccountFeed's.                                        *)
(***************************************************************************)
EXTENDS Naturals, Sequences, FiniteSets

CONSTANTS
  Callers,     \* clients of the service
  Ids,         \* the ids accounts have or may get
  Never,       \* deactivated_at IS NULL
  MaxClients,  \* `max` of the pool, 10 unless it is given
  Faults,      \* the kinds of failure that may happen ...
  MaxFaults    \* ... and how many of them (a bound for TLC)

ASSUME PoolAssumption == MaxClients \in Nat \ {0}
ASSUME NeverAssumption == Never \notin Callers
ASSUME FaultsAssumption ==
  Faults \subseteq {"statement", "crash"} /\ MaxFaults \in Nat

VARIABLES
  rows,            \* the ids with a row in accounts
  deactivated_at,  \* id -> Never, or the caller whose UPDATE set it
  at,              \* caller -> where its request is
  req,             \* caller -> the request
  answer,          \* caller -> the status it got, 0 if fetch throws
  held,            \* the callers whose request holds a client of the pool
  queue,           \* those waiting for one, first come first served
  up,              \* is the process listening?
  broken,          \* has a failure met a request? (history)
  faults           \* failures so far

table == <<rows, deactivated_at>>
pool == <<held, queue>>
apiVars == <<table, at, req, answer, pool, up, broken, faults>>

Statements == {"now", "commit", "update", "lookup"}
Statuses == {0, 200, 201, 400, 404, 409, 500}

May(kind) == kind \in Faults /\ faults < MaxFaults /\ faults' = faults + 1

Goto(c, place) == at' = [at EXCEPT ![c] = place]

\* The routes of server.js.  Anything else is answered by express itself.
Routes == {"health", "create", "deactivate"}

\* Where the use case behind a route is once it has a client: at a statement of its
\* own, or in the transaction that ends in COMMIT.
First(endpoint) ==
  CASE endpoint = "health" -> "now"
    [] endpoint = "create" -> "commit"
    [] endpoint = "deactivate" -> "update"

\* The response is sent before a client was taken.
Reject(c, code) ==
  /\ Goto(c, "answered")
  /\ answer' = [answer EXCEPT ![c] = code]
  /\ UNCHANGED pool

\* finally { client.release() }: the pool hands the client to the first in its
\* queue, and the response is sent.
Finish(c, code) ==
  /\ answer' = [answer EXCEPT ![c] = code]
  /\ IF queue = << >>
     THEN /\ held' = held \ {c}
          /\ Goto(c, "answered")
          /\ UNCHANGED queue
     ELSE LET next == Head(queue)
          IN /\ held' = (held \ {c}) \cup {next}
             /\ queue' = Tail(queue)
             /\ at' = [at EXCEPT ![c] = "answered", ![next] = First(req[next].endpoint)]

\* pool.connect() waits without a limit: there is no connectionTimeoutMillis.
Connect(c) ==
  /\ IF Cardinality(held) < MaxClients
     THEN held' = held \cup {c} /\ Goto(c, First(req[c].endpoint)) /\ UNCHANGED queue
     ELSE queue' = Append(queue, c) /\ Goto(c, "waiting") /\ UNCHANGED held
  /\ UNCHANGED answer

-----------------------------------------------------------------------------
\* A request arrives.  The schemas are tried before a client is taken.
Receive(c) ==
  /\ at[c] = "sent"
  /\ up
  /\ \/ req[c].endpoint \notin Routes /\ Reject(c, 404)
     \/ req[c].endpoint \in Routes /\ ~ req[c].valid /\ Reject(c, 400)
     \/ req[c].endpoint \in Routes /\ req[c].valid /\ Connect(c)
  /\ UNCHANGED <<table, req, up, broken, faults>>

\* SELECT NOW()
Health(c) ==
  /\ at[c] = "now"
  /\ Finish(c, 200)
  /\ UNCHANGED <<table, req, up, broken, faults>>

\* Mutant: 201 without a COMMIT.
Created_NoCommit(c) == UNCHANGED table

\* BEGIN and both INSERTs, which nobody sees, up to the COMMIT that puts the row
\* there.
Created(c) == rows' = rows \cup {req[c].id} /\ UNCHANGED deactivated_at

CommitCreate(c) ==
  /\ at[c] = "commit"
  /\ Created(c)
  /\ Finish(c, 201)
  /\ UNCHANGED <<req, up, broken, faults>>

\* Mutant: the UPDATE has no AND deactivated_at IS NULL.
Deactivatable_Any(id) == id \in rows

\* WHERE id = $1 AND deactivated_at IS NULL
Deactivatable(id) == id \in rows /\ deactivated_at[id] = Never

\* SET deactivated_at = NOW()
Deactivated(c) ==
  /\ Deactivatable(req[c].id)
  /\ deactivated_at' = [deactivated_at EXCEPT ![req[c].id] = c]
  /\ UNCHANGED rows

Deactivate(c) ==
  /\ at[c] = "update"
  /\ \/ Deactivated(c) /\ Finish(c, 200)
     \/ /\ ~ Deactivatable(req[c].id)
        /\ Goto(c, "lookup")
        /\ UNCHANGED <<table, answer, pool>>
  /\ UNCHANGED <<req, up, broken, faults>>

\* Mutant: without `finally`, what is thrown leaves the client behind.
Explain_Leaks(c) ==
  /\ at[c] = "lookup"
  /\ Reject(c, IF req[c].id \in rows THEN 409 ELSE 404)
  /\ UNCHANGED <<table, req, up, broken, faults>>

\* findById gives the reason, which is thrown.
Explain(c) ==
  /\ at[c] = "lookup"
  /\ Finish(c, IF req[c].id \in rows THEN 409 ELSE 404)
  /\ UNCHANGED <<table, req, up, broken, faults>>

\* What a statement in flight does to the table, if the database executes it.
Executed(c) ==
  \/ at[c] = "commit" /\ Created(c)
  \/ at[c] = "update" /\ Deactivated(c)

\* Mutant: release() only where a use case returns.
StatementFails_Leaks(c) ==
  /\ at[c] \in Statements
  /\ May("statement")
  /\ UNCHANGED table \/ Executed(c)
  /\ Reject(c, 500)
  /\ broken' = TRUE
  /\ UNCHANGED <<req, up>>

\* A statement fails, or only its answer is lost; a creation is rolled back.  The
\* error middleware answers.
StatementFails(c) ==
  /\ at[c] \in Statements
  /\ May("statement")
  /\ UNCHANGED table \/ Executed(c)
  /\ Finish(c, 500)
  /\ broken' = TRUE
  /\ UNCHANGED <<req, up>>

\* What the statements in flight do to the table when their process is gone: any of
\* the COMMITs may be executed, and of the UPDATEs of an account at most one has an
\* effect, as the others find it deactivated.
LeftBehind ==
  LET of(statement) == {c \in Callers : at[c] = statement}
      aimed == {id \in rows : \E c \in of("update") : req[c].id = id}
  IN /\ \E created \in SUBSET {req[c].id : c \in of("commit")} : rows' = rows \cup created
     /\ \E stamp \in [aimed -> Callers \cup {Never}] :
          /\ \A id \in aimed :
               \/ stamp[id] = deactivated_at[id]
               \/ Deactivatable(id) /\ stamp[id] \in {c \in of("update") : req[c].id = id}
          /\ deactivated_at' = [id \in Ids |-> IF id \in aimed THEN stamp[id]
                                                              ELSE deactivated_at[id]]

\* The process ends: every connection to it is reset, its clients are gone, and the
\* statements that were on their way may still be executed.
Crash ==
  LET cut == {c \in Callers : at[c] \in Statements \cup {"waiting"}}
  IN /\ up
     /\ May("crash")
     /\ up' = FALSE
     /\ LeftBehind
     /\ at' = [c \in Callers |-> IF c \in cut THEN "answered" ELSE at[c]]
     /\ answer' = [c \in Callers |-> IF c \in cut THEN 0 ELSE answer[c]]
     /\ held' = {}
     /\ queue' = << >>
     /\ broken' = (broken \/ cut # {})
     /\ UNCHANGED req

\* Nobody listens: fetch throws.
Refuse(c) ==
  /\ at[c] = "sent"
  /\ ~ up
  /\ Reject(c, 0)
  /\ broken' = TRUE
  /\ UNCHANGED <<table, req, up, faults>>

\* The service is started again, by hand.
Restart ==
  /\ ~ up
  /\ up' = TRUE
  /\ UNCHANGED <<table, at, req, answer, pool, broken, faults>>

Serve(c) ==
  \/ Receive(c)
  \/ Refuse(c)
  \/ Health(c)
  \/ CommitCreate(c)
  \/ Deactivate(c)
  \/ Explain(c)

ApiFails == Crash \/ \E c \in Callers : StatementFails(c)
=============================================================================
