----------------------------- MODULE SmokeProofs -----------------------------
(***************************************************************************)
(* Proofs about Smoke, for any number of users and iterations, any table   *)
(* of accounts, any size of the pool and any number of failures.           *)
(***************************************************************************)
EXTENDS Smoke, FiniteSetTheorems, TLAPS

Places == {"none", "sent", "waiting", "answered"} \cup Statements

Asked == [endpoint : {"skipped", "health", "create", "send", "deactivate"},
             id : Ids \cup {NoId}, valid : BOOLEAN, expected : SUBSET Statuses,
             keep : {"nowhere", "active", "deactivated"}]

\* The types the steps of the proof need.
Types ==
  /\ rows \subseteq Ids
  /\ deactivated_at \in [Ids -> Callers \cup {Never}]
  /\ at \in [Callers -> Places]
  /\ req \in [Callers -> Asked]
  /\ answer \in [Callers -> Statuses]
  /\ script \in Scripts
  /\ state \in [Users -> [active : SUBSET Ids, deactivated : SUBSET Ids,
                          left : 0..ITERATIONS[script]]]

\* What is asked for, and how the answer will be filed.
WellMade(r) ==
  /\ r.keep = "active" => r.endpoint = "create" /\ r.expected = {201}
  /\ r.keep = "deactivated" => /\ r.endpoint = "deactivate"
                               /\ r.expected = {200, 409}
                               /\ r.id \in rows
  /\ r.endpoint = "create" /\ r.valid => r.id \in Ids

\* A request is where the use case of its route can be.
OnRoute(c) ==
  /\ at[c] \in Statements \cup {"waiting"} => req[c].valid /\ req[c].endpoint \in Routes
  /\ at[c] \in Statements \ {"lookup"} => at[c] = First(req[c].endpoint)
  /\ at[c] = "lookup" => req[c].endpoint = "deactivate"

\* What an answer that is filed says is so.
Truthful(c) ==
  /\ at[c] = "lookup" /\ req[c].keep = "deactivated" => deactivated_at[req[c].id] # Never
  /\ at[c] = "answered" /\ req[c].keep = "active" /\ answer[c] = 201 => req[c].id \in rows
  /\ at[c] = "answered" /\ req[c].keep = "deactivated" /\ answer[c] \in {200, 409}
       => deactivated_at[req[c].id] # Never

\* A user under way has an iteration left, and main() asks for nothing to be filed.
Busy == \A u \in Users : at[u] # "none" => state[u].left # 0

Flying == \A c \in Callers : WellMade(req[c]) /\ OnRoute(c) /\ Truthful(c)

\* The queue of the pool is the waiting callers, each once.
Queued ==
  /\ queue \in Seq(Callers)
  /\ \A i \in 1..Len(queue) : at[queue[i]] = "waiting"
  /\ \A i, j \in 1..Len(queue) : i # j => queue[i] # queue[j]
  /\ \A c \in Callers : at[c] = "waiting" => \E i \in 1..Len(queue) : queue[i] = c

Holding == held = {c \in Callers : at[c] \in Statements}

Bounded ==
  /\ IsFiniteSet(held)
  /\ Cardinality(held) <= MaxClients
  /\ queue # << >> => Cardinality(held) = MaxClients

Beliefs ==
  \A u \in Users :
    /\ state[u].active \subseteq rows
    /\ \A id \in state[u].deactivated : deactivated_at[id] # Never

Fresh == \A id \in Ids \ rows : deactivated_at[id] = Never

\* Before the ramp no user is under way.
Quiet ==
  phase \in {"health", "seed"} => launched = 0 /\ \A u \in Users : at[u] = "none"

IInv ==
  /\ Types
  /\ Flying
  /\ Busy
  /\ Queued
  /\ Holding
  /\ Bounded
  /\ Beliefs
  /\ Fresh
  /\ Quiet

-----------------------------------------------------------------------------
\* Users are callers other than main().
LEMMA UsersCall == Users \subseteq Callers /\ Main \in Callers /\ Main \notin Users
BY UsersAssumption, CallersAssumption DEF Users, Main

\* The id a user's next account will have.
LEMMA NewId ==
  ASSUME Types, NEW u \in Users, state[u].left # 0
  PROVE  <<u, state[u].left>> \in Ids
<1>1. ITERATIONS[script] \in Nat /\ state[u].left \in 1..ITERATIONS[script]
  BY IterationsAssumption DEF Types
<1>2. state[u].left \in UNION {1..ITERATIONS[s] : s \in Scripts}
  BY <1>1 DEF Types
<1> QED
  BY <1>2, IdsAssumption DEF Drawn

\* The statuses an executor takes for ok are what the service answers, unless it
\* fails or has no such route.
Expects(r) ==
  /\ 0 \notin r.expected /\ 500 \notin r.expected
  /\ r.endpoint = "health" /\ r.valid => 200 \in r.expected
  /\ r.endpoint = "create" /\ r.valid => 201 \in r.expected
  /\ r.endpoint = "deactivate" /\ r.valid => 200 \in r.expected /\ 409 \in r.expected
  /\ ~ r.valid => 400 \in r.expected

\* The requests of the scripts are well made: only an account of the active list is
\* deactivated for the deactivated list, and only one of either list at all.
Makes(u, r) ==
  /\ r \in Asked
  /\ r.keep = "active" => r.endpoint = "create" /\ r.expected = {201}
  /\ r.keep = "deactivated" => /\ r.endpoint = "deactivate"
                               /\ r.expected = {200, 409}
                               /\ r.id \in state[u].active
  /\ r.endpoint = "create" /\ r.valid => r.id \in Ids
  /\ r.keep = "active" => r.id = <<u, state[u].left>>
  /\ r.endpoint = "deactivate" /\ r.valid => r.id \in state[u].active \cup state[u].deactivated
  /\ Expects(r)

Form(endpoint, id, valid, expected, keep) ==
  [endpoint |-> endpoint, id |-> id, valid |-> valid, expected |-> expected, keep |-> keep]

\* The requests with a plain status check, and the iteration that makes none.
LEMMA FineMade ==
  ASSUME NEW u, NEW r,
         \/ r = Form("health", NoId, TRUE, {200, 201}, "nowhere")
         \/ r = Form("send", NoId, TRUE, {200, 201}, "nowhere")
         \/ r = Form("skipped", NoId, TRUE, {}, "nowhere")
  PROVE  Makes(u, r)
<1>1. {200, 201} \in SUBSET Statuses /\ {} \in SUBSET Statuses
  BY DEF Statuses
<1>2. r \in Asked
  <2>1. CASE r = Form("health", NoId, TRUE, {200, 201}, "nowhere")
    BY <1>1, <2>1 DEF Form, Asked
  <2>2. CASE r = Form("send", NoId, TRUE, {200, 201}, "nowhere")
    BY <1>1, <2>2 DEF Form, Asked
  <2>3. CASE r = Form("skipped", NoId, TRUE, {}, "nowhere")
    BY <1>1, <2>3 DEF Form, Asked
  <2> QED
    BY <2>1, <2>2, <2>3
<1> QED
  BY <1>2 DEF Makes, Expects, Form

LEMMA CreateMade ==
  ASSUME NEW u, NEW r, NEW id \in Ids, NEW k \in {"nowhere", "active"},
         k = "active" => id = <<u, state[u].left>>,
         r = Form("create", id, TRUE, {201}, k)
  PROVE  Makes(u, r)
<1>1. {201} \in SUBSET Statuses
  BY DEF Statuses
<1>2. r \in Asked
  BY <1>1 DEF Form, Asked
<1> QED
  BY <1>2 DEF Makes, Expects, Form

LEMMA DeactivateMade ==
  ASSUME NEW u, NEW r, NEW id \in Ids, NEW k,
         id \in state[u].active \cup state[u].deactivated,
         k = "nowhere" \/ (k = "deactivated" /\ id \in state[u].active),
         r = Form("deactivate", id, TRUE, {200, 409}, k)
  PROVE  Makes(u, r)
<1>1. {200, 409} \in SUBSET Statuses
  BY DEF Statuses
<1>2. r \in Asked
  BY <1>1 DEF Form, Asked
<1> QED
  BY <1>2 DEF Makes, Expects, Form

LEMMA BadMade ==
  ASSUME NEW u, NEW r,
         \/ r = Form("create", NoId, FALSE, {400}, "nowhere")
         \/ r = Form("send", NoId, FALSE, {400}, "nowhere")
         \/ r = Form("deactivate", NoId, FALSE, {400}, "nowhere")
  PROVE  Makes(u, r)
<1>1. {400} \in SUBSET Statuses
  BY DEF Statuses
<1>2. r \in Asked
  <2>1. CASE r = Form("create", NoId, FALSE, {400}, "nowhere")
    BY <1>1, <2>1 DEF Form, Asked
  <2>2. CASE r = Form("send", NoId, FALSE, {400}, "nowhere")
    BY <1>1, <2>2 DEF Form, Asked
  <2>3. CASE r = Form("deactivate", NoId, FALSE, {400}, "nowhere")
    BY <1>1, <2>3 DEF Form, Asked
  <2> QED
    BY <2>1, <2>2, <2>3
<1> QED
  BY <1>2 DEF Makes, Expects, Form

\* An account's list is the last field of the request that creates it.
LEMMA CreateForm ==
  ASSUME NEW id, NEW r,
         r = [Form("create", NoId, TRUE, {201}, "nowhere") EXCEPT !.id = id, !.keep = "active"]
  PROVE  r = Form("create", id, TRUE, {201}, "active")
BY DEF Form

LEMMA CreationMakes ==
  ASSUME Types, NEW u \in Users, NEW r \in Creation!runUser(View(u))
  PROVE  Makes(u, r) /\ state[u].left # 0
<1>1. state[u].left # 0
  BY DEF Creation!runUser, View
<1>2. <<u, state[u].left>> \in Ids
  BY <1>1, NewId
<1>3. CASE r \in Creation!doHealth
  <2>1. r = Form("health", NoId, TRUE, {200, 201}, "nowhere")
    BY <1>3 DEF Creation!doHealth, Creation!Fetch, Creation!Fine, Form
  <2> QED
    BY <1>1, <2>1, FineMade
<1>4. CASE r \in Creation!doCreateAccount(View(u))
  <2>1. r = Form("create", <<u, state[u].left>>, TRUE, {201}, "nowhere")
    BY <1>4 DEF Creation!doCreateAccount, Creation!Fetch, View, Form
  <2> QED
    BY <1>1, <1>2, <2>1, CreateMade
<1>5. CASE r \in Creation!doSend(View(u))
  <2>1. \/ r = Form("skipped", NoId, TRUE, {}, "nowhere")
        \/ r = Form("send", NoId, TRUE, {200, 201}, "nowhere")
    BY <1>5 DEF Creation!doSend, Creation!Fetch, Creation!Fine, Creation!Skipped, Form
  <2> QED
    BY <1>1, <2>1, FineMade
<1> QED
  BY <1>1, <1>3, <1>4, <1>5 DEF Creation!runUser, View

LEMMA DeactivationMakes ==
  ASSUME Types, NEW u \in Users, NEW r \in Deactivation!runUser(View(u))
  PROVE  Makes(u, r) /\ state[u].left # 0
<1>1. state[u].left # 0
  BY DEF Deactivation!runUser, View
<1>2. /\ <<u, state[u].left>> \in Ids
      /\ state[u].active \subseteq Ids
      /\ state[u].deactivated \subseteq Ids
  BY <1>1, NewId DEF Types
<1>3. CASE r \in Deactivation!doHealth
  <2>1. r = Form("health", NoId, TRUE, {200, 201}, "nowhere")
    BY <1>3 DEF Deactivation!doHealth, Deactivation!Fetch, Deactivation!Fine, Form
  <2> QED
    BY <1>1, <2>1, FineMade
<1>4. CASE r \in Deactivation!doCreateAccount(View(u))
  <2>1. r = [Form("create", NoId, TRUE, {201}, "nowhere")
                EXCEPT !.id = <<u, state[u].left>>, !.keep = "active"]
    BY <1>4 DEF Deactivation!doCreateAccount, Deactivation!Fetch, View, Form
  <2>2. r = Form("create", <<u, state[u].left>>, TRUE, {201}, "active")
    BY <2>1, CreateForm
  <2> QED
    BY <1>1, <1>2, <2>2, CreateMade
<1>5. CASE r \in Deactivation!doSend(View(u))
  <2>1. \/ r = Form("skipped", NoId, TRUE, {}, "nowhere")
        \/ r = Form("send", NoId, TRUE, {200, 201}, "nowhere")
    BY <1>5 DEF Deactivation!doSend, Deactivation!Fetch, Deactivation!Fine, Deactivation!Skipped, Form
  <2> QED
    BY <1>1, <2>1, FineMade
<1>6. CASE r \in Deactivation!Again(state[u].deactivated)
  <2>1. PICK id \in state[u].deactivated : r = Form("deactivate", id, TRUE, {200, 409}, "nowhere")
    BY <1>6 DEF Deactivation!Again, Deactivation!Fetch, Form
  <2> QED
    BY <1>1, <1>2, <2>1, DeactivateMade
<1>7. CASE r \in Deactivation!Taken(state[u].active)
  <2>1. PICK id \in state[u].active : r = Form("deactivate", id, TRUE, {200, 409}, "deactivated")
    BY <1>7 DEF Deactivation!Taken, Deactivation!Again, Deactivation!Fetch, Form
  <2> QED
    BY <1>1, <1>2, <2>1, DeactivateMade
<1>8. CASE r = Deactivation!Skipped
  <2>1. r = Form("skipped", NoId, TRUE, {}, "nowhere")
    BY <1>8 DEF Deactivation!Skipped, Deactivation!Fetch, Form
  <2> QED
    BY <1>1, <2>1, FineMade
<1> QED
  BY <1>1, <1>3, <1>4, <1>5, <1>6, <1>7, <1>8
  DEF Deactivation!runUser, Deactivation!doDeactivate, View

LEMMA FoldersMakes ==
  ASSUME Types, NEW u \in Users, NEW r \in Folders!runUser(View(u))
  PROVE  Makes(u, r) /\ state[u].left # 0
<1>1. state[u].left # 0
  BY DEF Folders!runUser, View
<1>2. /\ <<u, state[u].left>> \in Ids
      /\ state[u].active \subseteq Ids
      /\ state[u].deactivated \subseteq Ids
  BY <1>1, NewId DEF Types
<1>3. CASE r \in Folders!doHealth
  <2>1. r = Form("health", NoId, TRUE, {200, 201}, "nowhere")
    BY <1>3 DEF Folders!doHealth, Folders!Fetch, Folders!Fine, Form
  <2> QED
    BY <1>1, <2>1, FineMade
<1>4. CASE r \in Folders!doCreateAccount(View(u))
  <2>1. r = [Form("create", NoId, TRUE, {201}, "nowhere")
                EXCEPT !.id = <<u, state[u].left>>, !.keep = "active"]
    BY <1>4 DEF Folders!doCreateAccount, Folders!Fetch, View, Form
  <2>2. r = Form("create", <<u, state[u].left>>, TRUE, {201}, "active")
    BY <2>1, CreateForm
  <2> QED
    BY <1>1, <1>2, <2>2, CreateMade
<1>5. CASE r \in Folders!doSend(View(u))
  <2>1. \/ r = Form("skipped", NoId, TRUE, {}, "nowhere")
        \/ r = Form("send", NoId, TRUE, {200, 201}, "nowhere")
    BY <1>5 DEF Folders!doSend, Folders!Fetch, Folders!Fine, Folders!Skipped, Form
  <2> QED
    BY <1>1, <2>1, FineMade
<1>6. CASE r \in Folders!Again(state[u].deactivated)
  <2>1. PICK id \in state[u].deactivated : r = Form("deactivate", id, TRUE, {200, 409}, "nowhere")
    BY <1>6 DEF Folders!Again, Folders!Fetch, Form
  <2> QED
    BY <1>1, <1>2, <2>1, DeactivateMade
<1>7. CASE r \in Folders!Taken(state[u].active)
  <2>1. PICK id \in state[u].active : r = Form("deactivate", id, TRUE, {200, 409}, "deactivated")
    BY <1>7 DEF Folders!Taken, Folders!Again, Folders!Fetch, Form
  <2> QED
    BY <1>1, <1>2, <2>1, DeactivateMade
<1>8. CASE r = Folders!Skipped
  <2>1. r = Form("skipped", NoId, TRUE, {}, "nowhere")
    BY <1>8 DEF Folders!Skipped, Folders!Fetch, Form
  <2> QED
    BY <1>1, <2>1, FineMade
<1> QED
  BY <1>1, <1>3, <1>4, <1>5, <1>6, <1>7, <1>8
  DEF Folders!runUser, Folders!doDeactivate, View

LEMMA ZodMakes ==
  ASSUME Types, NEW u \in Users, NEW r \in Zod!runUser(View(u))
  PROVE  Makes(u, r) /\ state[u].left # 0
<1>1. state[u].left # 0
  BY DEF Zod!runUser, View
<1>2. /\ <<u, state[u].left>> \in Ids
      /\ state[u].active \subseteq Ids
      /\ state[u].deactivated \subseteq Ids
  BY <1>1, NewId DEF Types
<1>3. CASE r \in Zod!doHealth
  <2>1. r = Form("health", NoId, TRUE, {200, 201}, "nowhere")
    BY <1>3 DEF Zod!doHealth, Zod!Fetch, Zod!Fine, Form
  <2> QED
    BY <1>1, <2>1, FineMade
<1>4. CASE r \in Zod!doCreateAcctValid(View(u))
  <2>1. r = [Form("create", NoId, TRUE, {201}, "nowhere")
                EXCEPT !.id = <<u, state[u].left>>, !.keep = "active"]
    BY <1>4 DEF Zod!doCreateAcctValid, Zod!Fetch, View, Form
  <2>2. r = Form("create", <<u, state[u].left>>, TRUE, {201}, "active")
    BY <2>1, CreateForm
  <2> QED
    BY <1>1, <1>2, <2>2, CreateMade
<1>5. CASE r \in Zod!doSendValid(View(u))
  <2>1. \/ r = Form("skipped", NoId, TRUE, {}, "nowhere")
        \/ r = Form("send", NoId, TRUE, {200, 201}, "nowhere")
    BY <1>5 DEF Zod!doSendValid, Zod!Fetch, Zod!Fine, Zod!Skipped, Form
  <2> QED
    BY <1>1, <2>1, FineMade
<1>6. CASE r \in Zod!Again(state[u].deactivated)
  <2>1. PICK id \in state[u].deactivated : r = Form("deactivate", id, TRUE, {200, 409}, "nowhere")
    BY <1>6 DEF Zod!Again, Zod!Fetch, Form
  <2> QED
    BY <1>1, <1>2, <2>1, DeactivateMade
<1>7. CASE r \in Zod!Taken(state[u].active)
  <2>1. PICK id \in state[u].active : r = Form("deactivate", id, TRUE, {200, 409}, "deactivated")
    BY <1>7 DEF Zod!Taken, Zod!Again, Zod!Fetch, Form
  <2> QED
    BY <1>1, <1>2, <2>1, DeactivateMade
<1>8. CASE r = Zod!Skipped
  <2>1. r = Form("skipped", NoId, TRUE, {}, "nowhere")
    BY <1>8 DEF Zod!Skipped, Zod!Fetch, Form
  <2> QED
    BY <1>1, <2>1, FineMade
<1>9. CASE r \in Zod!doCreateAcctBad \cup Zod!doSendBad \cup Zod!doDeactivateBadUUID
  <2>1. \/ r = Form("create", NoId, FALSE, {400}, "nowhere")
        \/ r = Form("send", NoId, FALSE, {400}, "nowhere")
        \/ r = Form("deactivate", NoId, FALSE, {400}, "nowhere")
    BY <1>9 DEF Zod!doCreateAcctBad, Zod!doSendBad, Zod!doDeactivateBadUUID, Zod!Bad,
                Zod!Fetch, Form
  <2> QED
    BY <1>1, <2>1, BadMade
<1> QED
  BY <1>1, <1>3, <1>4, <1>5, <1>6, <1>7, <1>8, <1>9
  DEF Zod!runUser, Zod!doDeactivateValid, View

LEMMA RunUserMakes ==
  ASSUME Types, NEW u \in Users, NEW r \in runUser(View(u))
  PROVE  Makes(u, r) /\ state[u].left # 0
BY CreationMakes, DeactivationMakes, FoldersMakes, ZodMakes DEF runUser, Types, Scripts

-----------------------------------------------------------------------------
\* Removing the head of a queue.
LEMMA Dequeue ==
  ASSUME NEW S, NEW q \in Seq(S), q # << >>
  PROVE  /\ Head(q) = q[1] /\ Head(q) \in S
         /\ Tail(q) \in Seq(S)
         /\ Len(Tail(q)) = Len(q) - 1 /\ Len(q) \in Nat \ {0}
         /\ \A i \in 1..Len(Tail(q)) : Tail(q)[i] = q[i + 1]
OBVIOUS

\* A statement is where First says, and nothing else is.
LEMMA FirstIsStatement ==
  ASSUME NEW e \in Routes PROVE First(e) \in Statements \ {"lookup"}
BY DEF Routes, First, Statements

\* What Finish does to everybody: c is answered, at most one waiting caller gets its
\* client and is at its first statement, and the pool stays accounted for.
LEMMA FinishEffect ==
  ASSUME Types, Queued, Holding, Flying, NEW c \in Callers, at[c] \in Statements,
         NEW code, Finish(c, code)
  PROVE  /\ at' \in [Callers -> Places]
         /\ at'[c] = "answered"
         /\ answer' = [answer EXCEPT ![c] = code]
         /\ \A d \in Callers \ {c} :
              \/ at'[d] = at[d]
              \/ at[d] = "waiting" /\ at'[d] = First(req[d].endpoint)
         /\ Queued' /\ Holding'
<1>1. at \in [Callers -> Places] /\ at[c] # "waiting" /\ at[c] # "answered"
  BY DEF Types, Statements
<1>2. CASE queue = << >>
  <2>1. at' = [at EXCEPT ![c] = "answered"] /\ queue' = queue /\ held' = held \ {c}
    BY <1>2 DEF Finish, Goto
  <2>2. at' \in [Callers -> Places]
    BY <1>1, <2>1 DEF Places
  <2>3. Queued'
    BY <1>1, <1>2, <2>1, <2>2 DEF Queued
  <2>4. Holding'
    BY <1>1, <2>1, <2>2 DEF Holding, Statements
  <2> QED
    BY <1>2, <2>1, <2>2, <2>3, <2>4, <1>1 DEF Finish
<1>3. CASE queue # << >>
  <2> DEFINE next == Head(queue)
  <2>1. /\ queue \in Seq(Callers)
        /\ next = queue[1] /\ next \in Callers
        /\ Tail(queue) \in Seq(Callers)
        /\ Len(Tail(queue)) = Len(queue) - 1 /\ Len(queue) \in Nat \ {0}
        /\ \A i \in 1..Len(Tail(queue)) : Tail(queue)[i] = queue[i + 1]
    BY <1>3, Dequeue DEF Queued
  <2>2. at[next] = "waiting" /\ next # c
    BY <1>1, <2>1 DEF Queued
  <2>3. First(req[next].endpoint) \in Statements
    BY <2>1, <2>2, FirstIsStatement DEF Flying, OnRoute
  <2>4. /\ held' = (held \ {c}) \cup {next}
        /\ queue' = Tail(queue)
        /\ at' = [at EXCEPT ![c] = "answered", ![next] = First(req[next].endpoint)]
        /\ answer' = [answer EXCEPT ![c] = code]
    BY <1>3 DEF Finish
  <2> HIDE DEF next
  <2>5. at' \in [Callers -> Places]
    BY <1>1, <2>3, <2>4 DEF Places
  <2>6. /\ at'[c] = "answered"
        /\ at'[next] = First(req[next].endpoint)
        /\ \A d \in Callers \ {c, next} : at'[d] = at[d]
    BY <1>1, <2>1, <2>2, <2>4
  <2>7. Queued'
    <3>1. queue' \in Seq(Callers)
      BY <2>1, <2>4
    <3>2. ASSUME NEW i \in 1..Len(queue') PROVE queue'[i] = queue[i + 1] /\ i + 1 \in 1..Len(queue) /\ queue[i + 1] \in Callers
      BY <2>1, <2>4
    <3>3. ASSUME NEW i \in 1..Len(queue') PROVE at'[queue'[i]] = "waiting"
      <4>1. at[queue[i + 1]] = "waiting" /\ queue[i + 1] # next
        BY <2>1, <3>2 DEF Queued
      <4>2. queue[i + 1] # c
        BY <4>1, <1>1
      <4> QED
        BY <2>6, <3>2, <4>1, <4>2
    <3>4. ASSUME NEW i \in 1..Len(queue'), NEW j \in 1..Len(queue'), i # j
          PROVE  queue'[i] # queue'[j]
      BY <3>2, <3>4 DEF Queued
    <3>5. ASSUME NEW d \in Callers, at'[d] = "waiting"
          PROVE  \E i \in 1..Len(queue') : queue'[i] = d
      <4>1. d # c /\ d # next /\ at[d] = "waiting"
        BY <2>3, <2>6, <3>5 DEF Statements
      <4>2. PICK j \in 1..Len(queue) : queue[j] = d
        BY <4>1 DEF Queued
      <4>3. j # 1 /\ j - 1 \in 1..Len(queue')
        BY <2>1, <2>4, <4>1, <4>2
      <4> QED
        BY <2>1, <2>4, <4>2, <4>3
    <3> QED
      BY <3>1, <3>3, <3>4, <3>5 DEF Queued
  <2>8. Holding'
    BY <1>1, <2>1, <2>2, <2>3, <2>4, <2>5, <2>6 DEF Holding, Statements
  <2> QED
    BY <2>2, <2>4, <2>5, <2>6, <2>7, <2>8
<1> QED
  BY <1>2, <1>3

-----------------------------------------------------------------------------
\* A step that leaves the pool alone, and its caller neither at a statement nor in
\* the queue, or at one statement after another.
LEMMA PoolSteady ==
  ASSUME Types, Queued, Holding, Bounded, UNCHANGED pool,
         NEW c \in Callers, NEW p \in Places \ {"waiting"}, at' = [at EXCEPT ![c] = p],
         at[c] # "waiting", at[c] \in Statements <=> p \in Statements
  PROVE  at' \in [Callers -> Places] /\ Queued' /\ Holding' /\ Bounded'
<1>1. /\ at \in [Callers -> Places] /\ at' \in [Callers -> Places]
      /\ queue' = queue /\ held' = held
      /\ at'[c] = p /\ \A d \in Callers \ {c} : at'[d] = at[d]
  BY DEF Types, pool
<1>2. Queued'
  BY <1>1 DEF Queued
<1>3. Holding'
  BY <1>1 DEF Holding
<1>4. Bounded'
  BY <1>1 DEF Bounded
<1> QED
  BY <1>1, <1>2, <1>3, <1>4

\* A client that is released is handed on or idle, and never counted twice.
LEMMA FinishBounded ==
  ASSUME Types, Queued, Holding, Bounded, NEW c \in Callers, at[c] \in Statements,
         NEW code, Finish(c, code)
  PROVE  Bounded'
<1>1. c \in held /\ IsFiniteSet(held) /\ Cardinality(held) <= MaxClients /\ MaxClients \in Nat
  BY PoolAssumption DEF Holding, Bounded
<1>2. /\ IsFiniteSet(held \ {c})
      /\ Cardinality(held \ {c}) = Cardinality(held) - 1
      /\ Cardinality(held) \in Nat /\ Cardinality(held \ {c}) \in Nat
  BY <1>1, FS_RemoveElement, FS_CardinalityType
<1>3. CASE queue = << >>
  <2>1. held' = held \ {c} /\ queue' = << >>
    BY <1>3 DEF Finish
  <2> QED
    BY <1>1, <1>2, <2>1 DEF Bounded
<1>4. CASE queue # << >>
  <2>1. held' = (held \ {c}) \cup {Head(queue)}
    BY <1>4 DEF Finish
  <2>2. Head(queue) \notin held
    <3>1. Head(queue) = queue[1] /\ Len(queue) \in Nat \ {0} /\ Head(queue) \in Callers
      BY <1>4, Dequeue DEF Queued
    <3>2. at[Head(queue)] = "waiting"
      BY <3>1 DEF Queued
    <3> QED
      BY <3>2 DEF Holding, Statements
  <2>3. IsFiniteSet(held') /\ Cardinality(held') = Cardinality(held \ {c}) + 1
    BY <1>2, <2>1, <2>2, FS_AddElement
  <2>4. Cardinality(held) = MaxClients
    BY <1>4 DEF Bounded
  <2> QED
    BY <1>1, <1>2, <2>3, <2>4 DEF Bounded
<1> QED
  BY <1>3, <1>4

\* A client is taken, or the caller joins the end of the queue.
LEMMA ConnectEffect ==
  ASSUME Types, Queued, Holding, Bounded, NEW c \in Callers, at[c] = "sent",
         req[c].endpoint \in Routes, Connect(c)
  PROVE  /\ at' \in [Callers -> Places]
         /\ answer' = answer
         /\ at'[c] \in {"waiting", First(req[c].endpoint)}
         /\ \A d \in Callers \ {c} : at'[d] = at[d]
         /\ Queued' /\ Holding' /\ Bounded'
<1>1. /\ at \in [Callers -> Places] /\ answer' = answer
      /\ c \notin held /\ IsFiniteSet(held) /\ Cardinality(held) \in Nat
      /\ Cardinality(held) <= MaxClients /\ MaxClients \in Nat
  BY PoolAssumption, FS_CardinalityType DEF Connect, Types, Holding, Bounded, Statements
<1>2. First(req[c].endpoint) \in Statements
  BY FirstIsStatement
<1>3. CASE Cardinality(held) < MaxClients
  <2>1. /\ held' = held \cup {c} /\ queue' = queue
        /\ at' = [at EXCEPT ![c] = First(req[c].endpoint)]
    BY <1>3 DEF Connect, Goto
  <2>2. at' \in [Callers -> Places]
    BY <1>1, <1>2, <2>1 DEF Places
  <2>3. at'[c] = First(req[c].endpoint) /\ \A d \in Callers \ {c} : at'[d] = at[d]
    BY <1>1, <2>1
  <2>4. Queued'
    BY <1>2, <2>1, <2>2, <2>3 DEF Queued, Statements
  <2>5. Holding'
    BY <1>2, <2>1, <2>2, <2>3 DEF Holding
  <2>6. IsFiniteSet(held') /\ Cardinality(held') = Cardinality(held) + 1
    BY <1>1, <2>1, FS_AddElement
  <2>7. queue = << >>
    BY <1>1, <1>3 DEF Bounded
  <2>8. Bounded'
    BY <1>1, <1>3, <2>1, <2>6, <2>7 DEF Bounded
  <2> QED
    BY <1>1, <2>2, <2>3, <2>4, <2>5, <2>8
<1>4. CASE ~ (Cardinality(held) < MaxClients)
  <2>1. /\ held' = held /\ queue' = Append(queue, c)
        /\ at' = [at EXCEPT ![c] = "waiting"]
    BY <1>4 DEF Connect, Goto
  <2>2. at' \in [Callers -> Places]
    BY <1>1, <2>1 DEF Places
  <2>3. at'[c] = "waiting" /\ \A d \in Callers \ {c} : at'[d] = at[d]
    BY <1>1, <2>1
  <2>4. /\ queue \in Seq(Callers) /\ queue' \in Seq(Callers)
        /\ Len(queue) \in Nat /\ Len(queue') = Len(queue) + 1
        /\ queue'[Len(queue) + 1] = c
        /\ \A i \in 1..Len(queue) : queue'[i] = queue[i] /\ queue[i] \in Callers
    BY <2>1 DEF Queued
  <2>5. \A i \in 1..Len(queue) : queue[i] # c
    BY DEF Queued
  <2>6. Queued'
    <3>1. \A i \in 1..Len(queue') : at'[queue'[i]] = "waiting"
      BY <2>3, <2>4 DEF Queued
    <3>2. \A i, j \in 1..Len(queue') : i # j => queue'[i] # queue'[j]
      BY <2>4, <2>5 DEF Queued
    <3>3. ASSUME NEW d \in Callers, at'[d] = "waiting"
          PROVE  \E i \in 1..Len(queue') : queue'[i] = d
      <4>1. CASE d = c
        BY <2>4, <4>1
      <4>2. CASE d # c
        <5>1. PICK i \in 1..Len(queue) : queue[i] = d
          BY <2>3, <3>3, <4>2 DEF Queued
        <5> QED
          BY <2>4, <5>1
      <4> QED
        BY <4>1, <4>2
    <3> QED
      BY <2>4, <3>1, <3>2, <3>3 DEF Queued
  <2>7. Holding'
    BY <2>1, <2>2, <2>3 DEF Holding, Statements
  <2>8. Bounded'
    BY <1>1, <1>4, <2>1 DEF Bounded
  <2> QED
    BY <1>1, <2>2, <2>3, <2>6, <2>7, <2>8
<1> QED
  BY <1>3, <1>4

-----------------------------------------------------------------------------
\* What one step may do to the table: a row stays, and what is deactivated stays so.
Grows ==
  /\ rows \subseteq rows'
  /\ \A id \in Ids : deactivated_at[id] # Never => deactivated_at'[id] # Never

TableStep ==
  /\ rows' \subseteq Ids
  /\ deactivated_at' \in [Ids -> Callers \cup {Never}]
  /\ Grows
  /\ Fresh'
  /\ [Life!Next]_(Life!vars)

LEMMA TableSteady ==
  ASSUME Types, Fresh, UNCHANGED table
  PROVE  TableStep
BY DEF Types, Fresh, table, TableStep, Grows, Life!vars

LEMMA CreatedEffect ==
  ASSUME Types, Fresh, NEW c \in Callers, req[c].id \in Ids, Created(c)
  PROVE  TableStep /\ req[c].id \in rows'
<1>1. rows' = rows \cup {req[c].id} /\ deactivated_at' = deactivated_at
  BY DEF Created
<1>2. /\ rows' \subseteq Ids /\ deactivated_at' \in [Ids -> Callers \cup {Never}]
      /\ Grows /\ Fresh'
  BY <1>1 DEF Types, Fresh, Grows
<1>3. Life!Next
  BY <1>1, <1>2 DEF Types, Life!Next, Life!Create, Life!Deactivate
<1> QED
  BY <1>1, <1>2, <1>3 DEF TableStep

LEMMA DeactivatedEffect ==
  ASSUME Types, Fresh, NEW c \in Callers, Deactivated(c)
  PROVE  TableStep /\ deactivated_at'[req[c].id] # Never
<1> DEFINE id == req[c].id
<1>1. /\ id \in rows /\ id \in Ids /\ deactivated_at[id] = Never
      /\ deactivated_at' = [deactivated_at EXCEPT ![id] = c]
      /\ rows' = rows
      /\ deactivated_at \in [Ids -> Callers \cup {Never}]
  BY DEF Deactivated, Deactivatable, Types
<1>2. c # Never
  BY NeverAssumption
<1> HIDE DEF id
<1>3. /\ deactivated_at' \in [Ids -> Callers \cup {Never}]
      /\ deactivated_at'[id] = c
      /\ \A x \in Ids \ {id} : deactivated_at'[x] = deactivated_at[x]
  BY <1>1
<1>4. rows' \subseteq Ids /\ Grows /\ Fresh'
  BY <1>1, <1>2, <1>3 DEF Types, Fresh, Grows
<1>5. Life!Next
  BY <1>1, <1>3, <1>4 DEF Life!Next, Life!Create, Life!Deactivate
<1> QED
  BY <1>2, <1>3, <1>4, <1>5 DEF TableStep, id

\* Where a caller is tells what it asked for.
LEMMA Routed ==
  ASSUME Types, Flying, NEW c \in Callers
  PROVE  /\ at[c] = "commit" => req[c].endpoint = "create" /\ req[c].id \in Ids
         /\ at[c] = "update" => req[c].endpoint = "deactivate"
         /\ at[c] = "now" => req[c].endpoint = "health"
<1>1. WellMade(req[c]) /\ OnRoute(c)
  BY DEF Flying
<1>2. CASE at[c] \in Statements \ {"lookup"}
  <2>1. at[c] = First(req[c].endpoint) /\ req[c].valid /\ req[c].endpoint \in Routes
    BY <1>1, <1>2 DEF OnRoute
  <2> QED
    BY <1>1, <2>1 DEF First, Routes, WellMade
<1>3. CASE at[c] \notin Statements \ {"lookup"}
  BY <1>3 DEF Statements
<1> QED
  BY <1>2, <1>3

\* A statement whose answer is lost is as good as one that is not.
LEMMA LostEffect ==
  ASSUME Types, Fresh, Flying, NEW c \in Callers, UNCHANGED table \/ Executed(c)
  PROVE  TableStep
BY TableSteady, CreatedEffect, DeactivatedEffect, Routed DEF Executed

\* So are all the statements a process leaves behind, together.
LEMMA LeftEffect ==
  ASSUME Types, Fresh, Flying, LeftBehind
  PROVE  /\ TableStep
         /\ (\A c \in Callers : at[c] # "commit") => rows' = rows
<1> DEFINE of(statement) == {c \in Callers : at[c] = statement}
           aimed == {id \in rows : \E c \in of("update") : req[c].id = id}
<1>1. PICK created \in SUBSET {req[c].id : c \in of("commit")} : rows' = rows \cup created
  BY DEF LeftBehind
<1>2. PICK stamp \in [aimed -> Callers \cup {Never}] :
        /\ \A id \in aimed :
             \/ stamp[id] = deactivated_at[id]
             \/ Deactivatable(id) /\ stamp[id] \in {c \in of("update") : req[c].id = id}
        /\ deactivated_at' = [id \in Ids |-> IF id \in aimed THEN stamp[id]
                                                            ELSE deactivated_at[id]]
  BY DEF LeftBehind
<1>3. \A c \in of("commit") : req[c].id \in Ids
  BY Routed
<1>4. created \subseteq Ids /\ of("update") \subseteq Callers /\ Never \notin Callers
  BY <1>3, NeverAssumption
<1>5. rows \subseteq Ids /\ deactivated_at \in [Ids -> Callers \cup {Never}] /\ aimed \subseteq rows
  BY DEF Types
<1>6. \A id \in Ids :
        \/ deactivated_at'[id] = deactivated_at[id]
        \/ /\ id \in rows /\ deactivated_at[id] = Never
           /\ deactivated_at'[id] \in Callers
  BY <1>2, <1>4 DEF Deactivatable
<1>7. deactivated_at' \in [Ids -> Callers \cup {Never}]
  BY <1>2, <1>5
<1> HIDE DEF of, aimed
<1>8. rows \subseteq rows' /\ rows' \subseteq Ids
  BY <1>1, <1>4, <1>5
<1>9. Grows /\ Fresh'
  BY <1>4, <1>6, <1>8 DEF Grows, Fresh
<1>10. Life!Next
  BY <1>6, <1>7, <1>8 DEF Life!Next, Life!Create, Life!Deactivate
<1> QED
  BY <1>1, <1>7, <1>8, <1>9, <1>10 DEF TableStep, of

\* Whoever a step does not concern is as it was.
LEMMA Bystander ==
  ASSUME Types, Flying, TableStep, NEW d \in Callers,
         req'[d] = req[d], answer'[d] = answer[d],
         \/ at'[d] = at[d]
         \/ at[d] = "waiting" /\ at'[d] = First(req[d].endpoint)
  PROVE  WellMade(req[d])' /\ OnRoute(d)' /\ Truthful(d)'
<1>1. WellMade(req[d]) /\ OnRoute(d) /\ Truthful(d) /\ rows \subseteq rows' /\ rows \subseteq Ids
  BY DEF Flying, TableStep, Grows, Types
<1>2. WellMade(req[d])'
  BY <1>1 DEF WellMade
<1>3. CASE at'[d] = at[d]
  <2>1. OnRoute(d)'
    BY <1>1, <1>3 DEF OnRoute
  <2>2. Truthful(d)'
    BY <1>1, <1>3 DEF Truthful, WellMade, TableStep, Grows
  <2> QED
    BY <1>2, <2>1, <2>2
<1>4. CASE at[d] = "waiting" /\ at'[d] = First(req[d].endpoint)
  <2>1. First(req[d].endpoint) \in Statements \ {"lookup"}
        /\ req[d].valid /\ req[d].endpoint \in Routes
    BY <1>1, <1>4, FirstIsStatement DEF OnRoute
  <2>2. OnRoute(d)'
    BY <1>4, <2>1 DEF OnRoute, Statements
  <2>3. Truthful(d)'
    BY <1>4, <2>1 DEF Truthful, Statements
  <2> QED
    BY <1>2, <2>2, <2>3
<1> QED
  BY <1>3, <1>4

-----------------------------------------------------------------------------
\* A step of the service for the request of c.
Served(c) ==
  /\ at' \in [Callers -> Places] /\ answer' \in [Callers -> Statuses]
  /\ req' = req
  /\ at[c] # "none"
  /\ \A d \in Callers \ {c} :
       /\ answer'[d] = answer[d]
       /\ \/ at'[d] = at[d]
          \/ at[d] = "waiting" /\ at'[d] = First(req[d].endpoint)
  /\ Queued' /\ Holding' /\ Bounded'
  /\ TableStep
  /\ OnRoute(c)' /\ Truthful(c)'

LEMMA ServedKeeps ==
  ASSUME IInv, NEW c \in Callers, Served(c), UNCHANGED scriptVars
  PROVE  IInv'
<1> USE DEF IInv
<1>1. Types'
  BY DEF Types, Served, TableStep, scriptVars
<1>2. ASSUME NEW d \in Callers PROVE WellMade(req[d])' /\ OnRoute(d)' /\ Truthful(d)'
  <2>1. CASE d = c
    <3>1. WellMade(req[c])'
      BY DEF Served, TableStep, Grows, Flying, WellMade
    <3> QED
      BY <2>1, <3>1 DEF Served
  <2>2. CASE d # c
    BY <2>2, Bystander DEF Served
  <2> QED
    BY <2>1, <2>2
<1>3. Flying'
  BY <1>2 DEF Flying
<1>4. Busy'
  <2> SUFFICES ASSUME NEW u \in Users, at'[u] # "none" PROVE state'[u].left # 0
    BY DEF Busy
  <2>1. u \in Callers /\ state' = state
    BY UsersCall DEF scriptVars
  <2>2. at[u] # "none"
    BY <2>1 DEF Served
  <2> QED
    BY <2>1, <2>2 DEF Busy
<1>5. Beliefs'
  BY DEF Beliefs, Served, TableStep, Grows, scriptVars, Types
<1>6. Quiet'
  <2> SUFFICES ASSUME phase \in {"health", "seed"}
               PROVE  launched' = 0 /\ \A u \in Users : at'[u] = "none"
    BY DEF Quiet, scriptVars
  <2>1. launched = 0 /\ launched' = launched /\ \A u \in Users : at[u] = "none"
    BY DEF Quiet, scriptVars
  <2>2. \A u \in Users : u \in Callers /\ u # c
    BY <2>1, UsersCall DEF Served
  <2> QED
    BY <2>1, <2>2 DEF Served
<1> QED
  BY <1>1, <1>3, <1>4, <1>5, <1>6 DEF Served, TableStep

\* The response is sent without a client.
LEMMA RejectServes ==
  ASSUME IInv, NEW c \in Callers, at[c] = "sent", NEW code \in {0, 400, 404},
         Reject(c, code), req' = req, UNCHANGED table
  PROVE  Served(c)
<1> USE DEF IInv
<1>1. /\ at' = [at EXCEPT ![c] = "answered"] /\ answer' = [answer EXCEPT ![c] = code]
      /\ UNCHANGED pool
      /\ at \in [Callers -> Places] /\ answer \in [Callers -> Statuses]
  BY DEF Reject, Goto, Types
<1>2. at' \in [Callers -> Places] /\ Queued' /\ Holding' /\ Bounded'
  <2>1. /\ "answered" \in Places \ {"waiting"}
        /\ "answered" \notin Statements /\ at[c] \notin Statements /\ at[c] # "waiting"
    BY DEF Places, Statements
  <2>2. Types /\ Queued /\ Holding /\ Bounded
    OBVIOUS
  <2> QED
    BY <1>1, <2>1, <2>2, PoolSteady
<1>3. answer' \in [Callers -> Statuses] /\ answer'[c] = code /\ at'[c] = "answered"
      /\ \A d \in Callers \ {c} : answer'[d] = answer[d] /\ at'[d] = at[d]
  BY <1>1 DEF Statuses
<1>4. OnRoute(c)' /\ Truthful(c)'
  BY <1>3 DEF OnRoute, Truthful, Statements
<1>5. TableStep
  BY TableSteady
<1> QED
  BY <1>2, <1>3, <1>4, <1>5 DEF Served

\* The use case is left with an answer and the client goes back.
LEMMA FinishServes ==
  ASSUME IInv, NEW c \in Callers, at[c] \in Statements, NEW code \in Statuses,
         Finish(c, code), req' = req, TableStep,
         req[c].keep = "active" /\ code = 201 => req[c].id \in rows',
         req[c].keep = "deactivated" /\ code \in {200, 409} => deactivated_at'[req[c].id] # Never
  PROVE  Served(c)
<1> USE DEF IInv
<1>1. /\ at' \in [Callers -> Places]
      /\ at'[c] = "answered"
      /\ answer' = [answer EXCEPT ![c] = code]
      /\ \A d \in Callers \ {c} :
           \/ at'[d] = at[d]
           \/ at[d] = "waiting" /\ at'[d] = First(req[d].endpoint)
      /\ Queued' /\ Holding'
  BY FinishEffect
<1>2. Bounded'
  BY FinishBounded
<1>3. answer' \in [Callers -> Statuses] /\ answer'[c] = code
      /\ \A d \in Callers \ {c} : answer'[d] = answer[d]
  BY <1>1 DEF Types
<1>4. OnRoute(c)' /\ Truthful(c)'
  BY <1>1, <1>3 DEF OnRoute, Truthful, Statements
<1>5. at[c] # "none"
  BY DEF Statements
<1> QED
  BY <1>1, <1>2, <1>3, <1>4, <1>5 DEF Served

LEMMA ReceiveServes ==
  ASSUME IInv, NEW c \in Callers, Receive(c) PROVE Served(c)
<1> USE DEF IInv
<1>1. at[c] = "sent" /\ req' = req /\ UNCHANGED table
  BY DEF Receive
<1>2. CASE \E code \in {400, 404} : Reject(c, code)
  BY <1>1, <1>2, RejectServes
<1>3. CASE req[c].endpoint \in Routes /\ req[c].valid /\ Connect(c)
  <2>1. /\ at' \in [Callers -> Places]
        /\ answer' = answer
        /\ at'[c] \in {"waiting", First(req[c].endpoint)}
        /\ \A d \in Callers \ {c} : at'[d] = at[d]
        /\ Queued' /\ Holding' /\ Bounded'
    BY <1>1, <1>3, ConnectEffect
  <2>2. First(req[c].endpoint) \in Statements \ {"lookup"}
    BY <1>3, FirstIsStatement
  <2>3. OnRoute(c)'
    BY <1>1, <1>3, <2>1, <2>2 DEF OnRoute, Statements
  <2>4. Truthful(c)'
    BY <2>1, <2>2 DEF Truthful, Statements
  <2>5. TableStep
    BY <1>1, TableSteady
  <2> QED
    BY <1>1, <2>1, <2>3, <2>4, <2>5 DEF Served, Types
<1> QED
  BY <1>2, <1>3 DEF Receive

LEMMA HealthServes ==
  ASSUME IInv, NEW c \in Callers, Health(c) PROVE Served(c)
<1>1. at[c] \in Statements /\ req[c].keep \notin {"active", "deactivated"} /\ 200 \in Statuses
  <2>1. req[c].endpoint = "health" /\ WellMade(req[c])
    BY Routed DEF Health, IInv, Flying
  <2> QED
    BY <2>1 DEF Health, Statements, Statuses, WellMade
<1>2. TableStep
  BY TableSteady DEF Health, IInv
<1> QED
  BY <1>1, <1>2, FinishServes DEF Health

LEMMA CommitServes ==
  ASSUME IInv, NEW c \in Callers, CommitCreate(c) PROVE Served(c)
<1>1. req[c].endpoint = "create" /\ req[c].id \in Ids /\ WellMade(req[c])
  BY Routed DEF CommitCreate, IInv, Flying
<1>2. TableStep /\ req[c].id \in rows'
  BY <1>1, CreatedEffect DEF CommitCreate, IInv
<1>3. at[c] \in Statements /\ 201 \in Statuses
  BY DEF CommitCreate, Statements, Statuses
<1> QED
  BY <1>1, <1>2, <1>3, FinishServes DEF CommitCreate, WellMade

LEMMA DeactivateServes ==
  ASSUME IInv, NEW c \in Callers, Deactivate(c) PROVE Served(c)
<1>1. /\ at[c] = "update" /\ at[c] \in Statements /\ 200 \in Statuses /\ req' = req
      /\ req[c].endpoint = "deactivate" /\ WellMade(req[c])
  BY Routed DEF Deactivate, Statements, Statuses, IInv, Flying
<1>2. CASE Deactivated(c) /\ Finish(c, 200)
  <2>1. TableStep /\ deactivated_at'[req[c].id] # Never
    BY <1>2, DeactivatedEffect DEF IInv
  <2> QED
    BY <1>1, <1>2, <2>1, FinishServes DEF WellMade
<1>3. CASE ~ Deactivatable(req[c].id) /\ Goto(c, "lookup") /\ UNCHANGED <<table, answer, pool>>
  <2>1. at' = [at EXCEPT ![c] = "lookup"] /\ UNCHANGED pool /\ UNCHANGED table /\ answer' = answer
    BY <1>3 DEF Goto
  <2>2. at' \in [Callers -> Places] /\ Queued' /\ Holding' /\ Bounded'
    BY <1>1, <2>1, PoolSteady DEF Places, Statements, IInv
  <2>3. TableStep
    BY <2>1, TableSteady DEF IInv
  <2>4. at'[c] = "lookup" /\ \A d \in Callers \ {c} : at'[d] = at[d]
    BY <2>1 DEF IInv, Types
  <2>5. OnRoute(c)'
    BY <1>1, <2>4 DEF OnRoute, Statements, IInv, Flying
  <2>6. Truthful(c)'
    BY <1>1, <1>3, <2>1, <2>4 DEF Truthful, Deactivatable, WellMade, table
  <2> QED
    BY <1>1, <2>1, <2>2, <2>3, <2>4, <2>5, <2>6 DEF Served, IInv, Types
<1> QED
  BY <1>2, <1>3 DEF Deactivate

LEMMA ExplainServes ==
  ASSUME IInv, NEW c \in Callers, Explain(c) PROVE Served(c)
<1> DEFINE code == IF req[c].id \in rows THEN 409 ELSE 404
<1>1. /\ at[c] \in Statements /\ code \in Statuses /\ req' = req /\ Finish(c, code)
      /\ at[c] = "lookup" /\ UNCHANGED table
      /\ WellMade(req[c]) /\ Truthful(c)
  BY DEF Explain, Statements, Statuses, IInv, Flying
<1>2. TableStep
  BY <1>1, TableSteady DEF IInv
<1> HIDE DEF code
<1>3. req[c].keep = "active" => code # 201
  BY DEF code
<1>4. req[c].keep = "deactivated" => deactivated_at'[req[c].id] # Never
  BY <1>1 DEF Truthful, table
<1> QED
  BY <1>1, <1>2, <1>3, <1>4, FinishServes

LEMMA StatementFailsServes ==
  ASSUME IInv, NEW c \in Callers, StatementFails(c) PROVE Served(c)
<1>1. TableStep
  BY LostEffect DEF StatementFails, IInv
<1> QED
  BY <1>1, FinishServes DEF StatementFails, Statuses

LEMMA ServeServes ==
  ASSUME IInv, NEW c \in Callers, Serve(c) PROVE Served(c)
<1>1. CASE Refuse(c)
  BY <1>1, RejectServes DEF Refuse
<1> QED
  BY <1>1, ReceiveServes, HealthServes, CommitServes, DeactivateServes, ExplainServes DEF Serve

\* The process ends: every request in it is answered with nothing.
LEMMA CrashKeeps ==
  ASSUME IInv, Crash, UNCHANGED scriptVars
  PROVE  IInv' /\ TableStep
<1> USE DEF IInv
<1> DEFINE cut == {c \in Callers : at[c] \in Statements \cup {"waiting"}}
<1>1. /\ LeftBehind
      /\ at' = [c \in Callers |-> IF c \in cut THEN "answered" ELSE at[c]]
      /\ answer' = [c \in Callers |-> IF c \in cut THEN 0 ELSE answer[c]]
      /\ held' = {} /\ queue' = << >> /\ req' = req
  BY DEF Crash
<1>2. cut \subseteq Callers /\ \A d \in Callers : d \in cut <=> at[d] \in Statements \cup {"waiting"}
  OBVIOUS
<1> HIDE DEF cut
<1>3. TableStep
  BY <1>1, LeftEffect
<1>4. /\ at' \in [Callers -> Places] /\ answer' \in [Callers -> Statuses]
      /\ \A d \in Callers : IF d \in cut THEN at'[d] = "answered" /\ answer'[d] = 0
                                         ELSE at'[d] = at[d] /\ answer'[d] = answer[d]
      /\ \A d \in Callers : at'[d] \notin Statements \cup {"waiting"}
  BY <1>1, <1>2 DEF Types, Places, Statuses, Statements
<1>5. Types'
  BY <1>1, <1>3, <1>4 DEF Types, TableStep, scriptVars
<1>6. Flying'
  <2> SUFFICES ASSUME NEW d \in Callers PROVE WellMade(req[d])' /\ OnRoute(d)' /\ Truthful(d)'
    BY DEF Flying
  <2>1. CASE d \in cut
    <3>1. WellMade(req[d])'
      BY <1>1, <1>3 DEF TableStep, Grows, Flying, WellMade
    <3>2. OnRoute(d)' /\ Truthful(d)'
      BY <1>4, <2>1 DEF OnRoute, Truthful, Statements
    <3> QED
      BY <3>1, <3>2
  <2>2. CASE d \notin cut
    BY <1>1, <1>3, <1>4, <2>2, Bystander
  <2> QED
    BY <2>1, <2>2
<1>7. \A d \in Callers : at[d] = "none" <=> at'[d] = "none"
  BY <1>2, <1>4 DEF Statements
<1>8. Busy' /\ Quiet'
  BY <1>7, UsersCall DEF Busy, Quiet, scriptVars
<1>9. Queued'
  BY <1>1, <1>4 DEF Queued
<1>10. Holding'
  BY <1>1, <1>4 DEF Holding
<1>11. Bounded'
  BY <1>1, FS_EmptySet, PoolAssumption DEF Bounded
<1>12. Beliefs'
  BY <1>3 DEF Beliefs, TableStep, Grows, scriptVars, Types
<1> QED
  BY <1>3, <1>5, <1>6, <1>8, <1>9, <1>10, <1>11, <1>12 DEF TableStep

-----------------------------------------------------------------------------
\* A step of the script for caller c, that leaves the service alone.
LEMMA ScriptStep ==
  ASSUME IInv, NEW c \in Callers, NEW p \in {"none", "sent"}, at[c] \in {"none", "answered"},
         at' = [at EXCEPT ![c] = p], NEW r \in Asked, req' = [req EXCEPT ![c] = r],
         WellMade(r), UNCHANGED <<table, pool>>,
         answer' = [answer EXCEPT ![c] = 0] \/ answer' = answer
  PROVE  /\ Flying' /\ Queued' /\ Holding' /\ Bounded' /\ TableStep /\ Fresh'
         /\ at' \in [Callers -> Places] /\ req' \in [Callers -> Asked]
         /\ answer' \in [Callers -> Statuses]
<1> USE DEF IInv
<1>1. TableStep
  BY TableSteady
<1>2. /\ p \in Places \ {"waiting"} /\ p \notin Statements
      /\ at[c] \notin Statements /\ at[c] # "waiting"
  BY DEF Places, Statements
<1>3. at' \in [Callers -> Places] /\ Queued' /\ Holding' /\ Bounded'
  BY <1>2, PoolSteady
<1>4. /\ req' \in [Callers -> Asked] /\ answer' \in [Callers -> Statuses]
      /\ at'[c] = p /\ req'[c] = r
      /\ \A d \in Callers \ {c} : at'[d] = at[d] /\ req'[d] = req[d] /\ answer'[d] = answer[d]
  BY DEF Types, Statuses
<1>5. rows' = rows /\ deactivated_at' = deactivated_at
  BY DEF table
<1>6. Flying'
  <2> SUFFICES ASSUME NEW d \in Callers PROVE WellMade(req[d])' /\ OnRoute(d)' /\ Truthful(d)'
    BY DEF Flying
  <2>1. CASE d = c
    <3>1. WellMade(req[d])'
      BY <1>4, <1>5, <2>1 DEF WellMade
    <3>2. OnRoute(d)' /\ Truthful(d)'
      BY <1>2, <1>4, <2>1 DEF OnRoute, Truthful, Statements
    <3> QED
      BY <3>1, <3>2
  <2>2. CASE d # c
    BY <1>1, <1>4, <2>2, Bystander
  <2> QED
    BY <2>1, <2>2
<1> QED
  BY <1>1, <1>3, <1>4, <1>6 DEF TableStep

LEMMA ProbeMade == Probe \in Asked /\ WellMade(Probe) /\ Probe.endpoint = "health"
<1>1. Probe = Form("health", NoId, TRUE, {200, 201}, "nowhere")
  BY DEF Probe, Creation!Fetch, Creation!Fine, Form
<1>2. Makes(Main, Probe)
  BY <1>1, FineMade
<1> QED
  BY <1>1, <1>2 DEF Makes, WellMade, Form

LEMMA CheckedKeeps ==
  ASSUME IInv, Checked PROVE IInv' /\ TableStep
<1>1. /\ Flying' /\ Queued' /\ Holding' /\ Bounded' /\ TableStep /\ Fresh'
      /\ at' \in [Callers -> Places] /\ req' \in [Callers -> Asked]
      /\ answer' \in [Callers -> Statuses]
  BY ScriptStep, ProbeMade, UsersCall DEF Checked, Settled
<1>2. Types'
  BY <1>1 DEF Types, IInv, TableStep, Checked
<1>3. \A u \in Users : at'[u] = at[u]
  BY UsersCall DEF Checked, Settled, IInv, Types
<1>4. Busy' /\ Quiet' /\ Beliefs'
  BY <1>3 DEF Busy, Quiet, Beliefs, Checked, IInv, table
<1> QED
  BY <1>1, <1>2, <1>4 DEF IInv

\* The lists a script seeds from are of the table.
LEMMA SeedLists ==
  ASSUME script \in Scripts, NEW live, NEW gone, NEW lists \in seed(live, gone)
  PROVE  /\ lists.active \subseteq live \cup gone
         /\ lists.deactivated \subseteq gone
<1>1. CASE script = "creation"
  BY <1>1 DEF seed, Creation!seed
<1>2. CASE script = "deactivation"
  BY <1>2 DEF seed, Deactivation!seed
<1>3. CASE script = "folders"
  BY <1>3 DEF seed, Folders!seed
<1>4. CASE script = "zod"
  BY <1>4 DEF seed, Zod!seed
<1> QED
  BY <1>1, <1>2, <1>3, <1>4 DEF Scripts

\* Steps that leave the service and its callers alone.
LEMMA ScriptOnly ==
  ASSUME IInv, UNCHANGED apiVars
  PROVE  /\ Flying' /\ Queued' /\ Holding' /\ Bounded' /\ TableStep /\ Fresh'
         /\ at' = at /\ req' = req /\ answer' = answer
         /\ rows' = rows /\ deactivated_at' = deactivated_at
<1>1. /\ at' = at /\ req' = req /\ answer' = answer /\ rows' = rows
      /\ deactivated_at' = deactivated_at /\ held' = held /\ queue' = queue
      /\ UNCHANGED table
  BY DEF apiVars, table, pool
<1>2. TableStep
  BY <1>1, TableSteady DEF IInv
<1>3. Flying'
  BY <1>1 DEF Flying, IInv, WellMade, OnRoute, Truthful
<1>4. Queued' /\ Holding' /\ Bounded' /\ Fresh'
  BY <1>1 DEF Queued, Holding, Bounded, Fresh, IInv
<1> QED
  BY <1>1, <1>2, <1>3, <1>4

LEMMA SeedKeeps ==
  ASSUME IInv, Seed PROVE IInv' /\ TableStep
<1> DEFINE live == {id \in rows : deactivated_at[id] = Never}
           gone == {id \in rows : deactivated_at[id] # Never}
<1>1. PICK lists \in seed(live, gone) :
        state' = [u \in Users |-> [active |-> lists.active, deactivated |-> lists.deactivated,
                                   left |-> ITERATIONS[script]]]
  BY DEF Seed
<1>2. live \cup gone \subseteq rows /\ \A id \in gone : deactivated_at[id] # Never
  OBVIOUS
<1> HIDE DEF live, gone
<1>3. lists.active \subseteq rows /\ lists.deactivated \subseteq gone
  BY <1>1, <1>2, SeedLists DEF IInv, Types
<1>4. ITERATIONS[script] \in 0..ITERATIONS[script] /\ rows \subseteq Ids
  BY IterationsAssumption DEF IInv, Types
<1>5. state' \in [Users -> [active : SUBSET Ids, deactivated : SUBSET Ids,
                            left : 0..ITERATIONS[script]]]
  BY <1>1, <1>2, <1>3, <1>4
<1>6. /\ Flying' /\ Queued' /\ Holding' /\ Bounded' /\ TableStep /\ Fresh'
      /\ at' = at /\ req' = req /\ answer' = answer
      /\ rows' = rows /\ deactivated_at' = deactivated_at /\ script' = script
  BY ScriptOnly DEF Seed
<1>7. Types'
  BY <1>5, <1>6 DEF Types, IInv
<1>8. Beliefs'
  BY <1>1, <1>2, <1>3, <1>6 DEF Beliefs
<1>9. Busy' /\ Quiet'
  BY <1>6 DEF Busy, Quiet, IInv, Seed
<1> QED
  BY <1>6, <1>7, <1>8, <1>9 DEF IInv

LEMMA IdleKeeps ==
  ASSUME IInv, UNCHANGED apiVars, UNCHANGED <<script, state>>,
         phase' \in {"health", "seed"} => phase' = phase /\ launched' = launched
  PROVE  IInv' /\ TableStep
<1>1. /\ Flying' /\ Queued' /\ Holding' /\ Bounded' /\ TableStep /\ Fresh'
      /\ at' = at /\ req' = req /\ answer' = answer
      /\ rows' = rows /\ deactivated_at' = deactivated_at
  BY ScriptOnly
<1> QED
  BY <1>1 DEF IInv, Types, Busy, Quiet, Beliefs

LEMMA PickKeeps ==
  ASSUME IInv, NEW u \in Users, Pick(u) PROVE IInv' /\ TableStep
<1> USE DEF IInv
<1>1. PICK r \in runUser(View(u)) :
        \/ r.endpoint = "skipped" /\ Skip(u)
        \/ r.endpoint # "skipped" /\ Request(u, r)
  BY DEF Pick
<1>2. Makes(u, r) /\ state[u].left # 0
  BY <1>1, RunUserMakes
<1>3. /\ u \in Callers /\ at[u] = "none" /\ u <= launched
      /\ UNCHANGED <<table, pool>> /\ answer' = answer
      /\ script' = script /\ phase' = phase /\ launched' = launched
      /\ rows' = rows /\ deactivated_at' = deactivated_at
  BY UsersCall DEF Pick, Running, table
<1>4. /\ state[u].active \subseteq Ids /\ state[u].deactivated \subseteq Ids
      /\ state[u].left \in 0..ITERATIONS[script] /\ ITERATIONS[script] \in Nat
      /\ state[u].left - 1 \in 0..ITERATIONS[script]
      /\ state[u].active \subseteq rows
  BY <1>2, IterationsAssumption DEF Types, Beliefs
<1>5. Quiet'
  <2>1. launched # 0
    BY <1>3, UsersAssumption DEF Users
  <2> QED
    BY <1>3, <2>1 DEF Quiet
<1>6. CASE Skip(u)
  <2>1. state' = [state EXCEPT ![u].left = @ - 1] /\ at' = at /\ req' = req
    BY <1>6 DEF Skip
  <2>2. /\ at' = [at EXCEPT ![u] = "none"] /\ req' = [req EXCEPT ![u] = req[u]]
        /\ req[u] \in Asked /\ WellMade(req[u])
    BY <1>3, <2>1 DEF Types, Flying
  <2>3. /\ Flying' /\ Queued' /\ Holding' /\ Bounded' /\ TableStep /\ Fresh'
        /\ at' \in [Callers -> Places] /\ req' \in [Callers -> Asked]
        /\ answer' \in [Callers -> Statuses]
    BY <1>3, <2>2, ScriptStep
  <2>4. /\ state' \in [Users -> [active : SUBSET Ids, deactivated : SUBSET Ids,
                                left : 0..ITERATIONS[script]]]
        /\ \A w \in Users : /\ state'[w].active = state[w].active
                            /\ state'[w].deactivated = state[w].deactivated
                            /\ w # u => state'[w].left = state[w].left
    BY <1>4, <2>1 DEF Types
  <2>5. Types'
    BY <1>3, <2>3, <2>4 DEF Types, TableStep
  <2>6. Busy' /\ Beliefs'
    BY <1>3, <2>1, <2>4 DEF Busy, Beliefs
  <2> QED
    BY <1>5, <2>3, <2>5, <2>6
<1>7. CASE Request(u, r)
  <2>1. /\ at' = [at EXCEPT ![u] = "sent"] /\ req' = [req EXCEPT ![u] = r]
        /\ state' = IF r.keep = "deactivated"
                    THEN [state EXCEPT ![u].active = @ \ {r.id}]
                    ELSE state
    BY <1>7 DEF Request
  <2>2. r \in Asked /\ WellMade(r)
    BY <1>2, <1>4 DEF Makes, WellMade
  <2>3. /\ Flying' /\ Queued' /\ Holding' /\ Bounded' /\ TableStep /\ Fresh'
        /\ at' \in [Callers -> Places] /\ req' \in [Callers -> Asked]
        /\ answer' \in [Callers -> Statuses]
    BY <1>3, <2>1, <2>2, ScriptStep
  <2>4. /\ state' \in [Users -> [active : SUBSET Ids, deactivated : SUBSET Ids,
                                left : 0..ITERATIONS[script]]]
        /\ \A w \in Users : /\ state'[w].active \subseteq state[w].active
                            /\ state'[w].deactivated = state[w].deactivated
                            /\ state'[w].left = state[w].left
    BY <1>4, <2>1 DEF Types
  <2>5. Types'
    BY <1>3, <2>3, <2>4 DEF Types, TableStep
  <2>6. Busy'
    BY <1>2, <1>3, <2>1, <2>4, UsersCall DEF Busy, Types
  <2>7. Beliefs'
    BY <1>3, <2>4 DEF Beliefs
  <2> QED
    BY <1>5, <2>3, <2>5, <2>6, <2>7
<1> QED
  BY <1>1, <1>6, <1>7

\* Lists whose three fields are set.
LEMMA ListsSet ==
  ASSUME NEW A, NEW D, NEW L, NEW s \in [active : A, deactivated : D, left : L],
         NEW a, NEW d, NEW l
  PROVE  [s EXCEPT !.left = l, !.active = a, !.deactivated = d]
           = [active |-> a, deactivated |-> d, left |-> l]
<1> DEFINE s1 == [s EXCEPT !.left = l]
           s2 == [s1 EXCEPT !.active = a]
           s3 == [s2 EXCEPT !.deactivated = d]
<1>1. s1 \in [active : A, deactivated : D, left : {l}]
  OBVIOUS
<1> HIDE DEF s1
<1>2. s2 \in [active : {a}, deactivated : D, left : {l}]
  BY <1>1
<1> HIDE DEF s2
<1>3. s3 \in [active : {a}, deactivated : {d}, left : {l}]
  BY <1>2
<1> HIDE DEF s3
<1>4. s3 = [active |-> a, deactivated |-> d, left |-> l]
  BY <1>3
<1> QED
  BY <1>4 DEF s3, s2, s1

LEMMA SettleKeeps ==
  ASSUME IInv, NEW u \in Users, Settle(u) PROVE IInv' /\ TableStep
<1> USE DEF IInv
<1>1. /\ u \in Callers /\ at[u] = "answered" /\ Settled(u)
      /\ UNCHANGED <<table, pool>>
      /\ script' = script /\ phase' = phase /\ launched' = launched
      /\ rows' = rows /\ deactivated_at' = deactivated_at
  BY UsersCall DEF Settle, table
<1>2. /\ \A d \in Callers \ {u} : at'[d] = at[d]
      /\ at'[u] = "none"
  BY <1>1 DEF Settled, Types
<1>3. /\ Flying' /\ Queued' /\ Holding' /\ Bounded' /\ TableStep /\ Fresh'
      /\ at' \in [Callers -> Places] /\ req' \in [Callers -> Asked]
      /\ answer' \in [Callers -> Statuses]
  BY <1>1, ProbeMade, ScriptStep DEF Settled
<1>4. /\ state[u].left # 0
      /\ state[u].left \in 0..ITERATIONS[script] /\ ITERATIONS[script] \in Nat
      /\ state[u].left - 1 \in 0..ITERATIONS[script]
      /\ state[u].active \subseteq Ids /\ state[u].deactivated \subseteq Ids
  <2>1. at[u] # "none"
    BY <1>1
  <2>2. state[u] \in [active : SUBSET Ids, deactivated : SUBSET Ids,
                      left : 0..ITERATIONS[script]]
    BY DEF Types
  <2>3. ITERATIONS[script] \in Nat
    BY IterationsAssumption DEF Types
  <2> QED
    BY <2>1, <2>2, <2>3 DEF Busy
<1>5. Quiet'
  BY <1>1 DEF Quiet
<1>6. ASSUME answer[u] \in req[u].expected
      PROVE  /\ req[u].keep = "active" => req[u].id \in rows
             /\ req[u].keep = "deactivated" =>
                  req[u].id \in rows /\ deactivated_at[req[u].id] # Never
  <2>1. WellMade(req[u]) /\ Truthful(u)
    BY <1>1 DEF Flying
  <2>2. CASE req[u].keep = "active"
    BY <1>1, <1>6, <2>1, <2>2 DEF WellMade, Truthful
  <2>3. CASE req[u].keep = "deactivated"
    BY <1>1, <1>6, <2>1, <2>3 DEF WellMade, Truthful
  <2> QED
    BY <2>2, <2>3
<1>7. /\ state' \in [Users -> [active : SUBSET Ids, deactivated : SUBSET Ids,
                               left : 0..ITERATIONS[script]]]
      /\ \A w \in Users :
           /\ state'[w].active \subseteq rows
           /\ \A id \in state'[w].deactivated : deactivated_at[id] # Never
           /\ w # u => state'[w].left = state[w].left
  <2>1. CASE answer[u] \in req[u].expected /\ state' = [state EXCEPT ![u] = Filed(u, req[u])]
    <3> DEFINE a == IF req[u].keep = "active" THEN state[u].active \cup {req[u].id}
                                               ELSE state[u].active
               d == IF req[u].keep = "deactivated" THEN state[u].deactivated \cup {req[u].id}
                                                   ELSE state[u].deactivated
    <3>1. Filed(u, req[u]) = [active |-> a, deactivated |-> d, left |-> state[u].left - 1]
      <4>1. state[u] \in [active : SUBSET Ids, deactivated : SUBSET Ids,
                          left : 0..ITERATIONS[script]]
        BY DEF Types
      <4> DEFINE l == state[u].left - 1
      <4>2. Filed(u, req[u]) = [state[u] EXCEPT !.left = l, !.active = a, !.deactivated = d]
        BY DEF Filed
      <4> HIDE DEF a, d, l
      <4>3. Filed(u, req[u]) = [active |-> a, deactivated |-> d, left |-> l]
        BY <4>1, <4>2, ListsSet
      <4> QED
        BY <4>3 DEF l
    <3>2. /\ a \in SUBSET Ids /\ d \in SUBSET Ids
          /\ a \subseteq rows
          /\ \A id \in d : deactivated_at[id] # Never
      BY <1>4, <1>6, <2>1 DEF Types, Beliefs
    <3> HIDE DEF a, d
    <3> QED
      BY <1>4, <2>1, <3>1, <3>2 DEF Types, Beliefs
  <2>2. CASE state' = [state EXCEPT ![u].left = @ - 1]
    BY <1>4, <2>2 DEF Types, Beliefs
  <2> QED
    BY <2>1, <2>2 DEF Settle
<1>8. Types'
  BY <1>1, <1>3, <1>7 DEF Types, TableStep
<1>9. Busy'
  BY <1>2, <1>7, UsersCall DEF Busy
<1>10. Beliefs'
  BY <1>1, <1>7 DEF Beliefs
<1> QED
  BY <1>3, <1>5, <1>8, <1>9, <1>10

LEMMA NextKeeps ==
  ASSUME IInv, [Next]_vars PROVE IInv' /\ TableStep
<1>1. CASE Checked
  BY <1>1, CheckedKeeps
<1>2. CASE Seed
  BY <1>2, SeedKeeps
<1>3. CASE Launch
  BY <1>3, IdleKeeps DEF Launch
<1>4. CASE Report
  BY <1>4, IdleKeeps DEF Report
<1>5. CASE \E u \in Users : User(u)
  BY <1>5, PickKeeps, SettleKeeps DEF User
<1>6. CASE \E c \in Callers : Service(c)
  <2>1. PICK c \in Callers : Serve(c) /\ UNCHANGED scriptVars
    BY <1>6 DEF Service
  <2>2. Served(c)
    BY <2>1, ServeServes
  <2> QED
    BY <2>1, <2>2, ServedKeeps DEF Served
<1>7. CASE Crash /\ UNCHANGED scriptVars
  BY <1>7, CrashKeeps
<1>8. CASE (\E c \in Callers : StatementFails(c)) /\ UNCHANGED scriptVars
  <2>1. PICK c \in Callers : Served(c)
    BY <1>8, StatementFailsServes
  <2> QED
    BY <1>8, <2>1, ServedKeeps DEF Served
<1>9. CASE Restart /\ UNCHANGED scriptVars
  <2>1. /\ at' = at /\ req' = req /\ answer' = answer /\ UNCHANGED table
        /\ rows' = rows /\ deactivated_at' = deactivated_at
        /\ held' = held /\ queue' = queue
        /\ script' = script /\ state' = state /\ phase' = phase /\ launched' = launched
    BY <1>9 DEF Restart, table, pool, scriptVars
  <2>2. TableStep
    BY <2>1, TableSteady DEF IInv
  <2> QED
    BY <2>1, <2>2 DEF IInv, Types, Flying, WellMade, OnRoute, Truthful, Busy, Queued, Holding,
                      Bounded, Beliefs, Fresh, Quiet
<1>10. CASE Deadline
  BY <1>10, IdleKeeps DEF Deadline
<1>11. CASE UNCHANGED vars
  BY <1>11, IdleKeeps DEF vars, scriptVars
<1> QED
  BY <1>1, <1>2, <1>3, <1>4, <1>5, <1>6, <1>7, <1>8, <1>9, <1>10, <1>11
  DEF Next, main, ApiFails, Ended

LEMMA InitInv ==
  ASSUME Init PROVE IInv
<1> USE DEF Init
<1>1. /\ at \in [Callers -> Places]
      /\ \A c \in Callers : at[c] \in {"none", "sent"}
      /\ \A u \in Users : at[u] = "none"
  BY UsersCall DEF Places
<1>2. /\ req \in [Callers -> Asked] /\ answer \in [Callers -> Statuses]
      /\ \A c \in Callers : req[c] = Probe
  BY ProbeMade DEF Statuses
<1>3. rows = Ids \ Drawn /\ deactivated_at \in [Ids -> Callers \cup {Never}]
      /\ Fresh
  BY UsersCall DEF Seeds, Fresh
<1>4. state \in [Users -> [active : SUBSET Ids, deactivated : SUBSET Ids,
                           left : 0..ITERATIONS[script]]]
  <2>1. ITERATIONS[script] \in 0..ITERATIONS[script]
    BY IterationsAssumption
  <2> QED
    BY <2>1
<1>5. Types
  BY <1>1, <1>2, <1>3, <1>4 DEF Types
<1>6. Flying
  <2> SUFFICES ASSUME NEW c \in Callers PROVE WellMade(req[c]) /\ OnRoute(c) /\ Truthful(c)
    BY DEF Flying
  <2>1. WellMade(req[c])
    BY <1>2, ProbeMade
  <2>2. at[c] \in {"none", "sent"}
    BY <1>1
  <2> QED
    BY <2>1, <2>2 DEF OnRoute, Truthful, Statements
<1>7. Busy /\ Quiet /\ Beliefs
  BY <1>1 DEF Busy, Quiet, Beliefs
<1>8. Queued
  BY <1>1 DEF Queued
<1>9. Holding
  BY <1>1 DEF Holding, Statements
<1>10. Bounded
  BY FS_EmptySet, PoolAssumption DEF Bounded
<1> QED
  BY <1>3, <1>5, <1>6, <1>7, <1>8, <1>9, <1>10 DEF IInv

LEMMA InvHolds == Spec => []IInv
<1>1. Init => IInv
  BY InitInv
<1>2. IInv /\ [Next]_vars => IInv'
  BY NextKeeps
<1> QED
  BY <1>1, <1>2, PTL DEF Spec

-----------------------------------------------------------------------------
\* A smoke user never believes an account active that is not in the table, nor one
\* deactivated that is not: whatever the other users do in between, and whatever
\* fails or loses its answer.
THEOREM BeliefsHold == Spec => []BeliefsAreTrue
<1>1. IInv => BeliefsAreTrue
  BY DEF IInv, Beliefs, BeliefsAreTrue
<1> QED
  BY <1>1, InvHolds, PTL

\* The pool of the accounts service has no leak: a client is held exactly while a
\* request has a statement under way, and nobody waits while one is idle.
THEOREM ConnectionsHold == Spec => []ConnectionsAccounted
<1>1. ASSUME IInv PROVE ConnectionsAccounted
  <2>1. {queue[i] : i \in 1..Len(queue)} = {c \in Callers : at[c] = "waiting"}
    <3>1. \A i \in 1..Len(queue) : queue[i] \in Callers /\ at[queue[i]] = "waiting"
      BY <1>1 DEF IInv, Queued
    <3>2. \A c \in Callers : at[c] = "waiting" => \E i \in 1..Len(queue) : queue[i] = c
      BY <1>1 DEF IInv, Queued
    <3> QED
      BY <3>1, <3>2
  <2> QED
    BY <1>1, <2>1 DEF IInv, Holding, Bounded, ConnectionsAccounted
<1> QED
  BY <1>1, InvHolds, PTL

\* The use cases, run by callers at the same time on one pool, with statements that
\* fail or lose their answers and a process that ends, implement AccountLife: rows
\* stay, and an account is deactivated once.
THEOREM LivesHold == Spec => Lives
<1>1. Init => Life!Init
  BY UsersCall DEF Init, Life!Init, Seeds
<1>2. IInv /\ [Next]_vars => [Life!Next]_(Life!vars)
  BY NextKeeps DEF TableStep
<1> QED
  BY <1>1, <1>2, InvHolds, PTL DEF Spec, Lives, Life!Spec

-----------------------------------------------------------------------------
(***************************************************************************)
(* The verdict.  A failure of the service leaves a trace, from the answer  *)
(* of a request over the recorded results to the exit code, and apart from *)
(* a route that does not exist nothing else leaves one.  For that every    *)
(* 4xx an account's state can lead to has to be one the script expects:    *)
(* who it deactivates is in the table, and the two lists stay disjoint.    *)
(***************************************************************************)

\* What is asked for, if it concerns an account, concerns one of the table.
Fits(r) ==
  /\ Expects(r)
  /\ r.endpoint = "deactivate" /\ r.valid => r.id \in rows

\* The id is not of an account that u is still to create.
Unused(u, id) == \A k \in 1..state[u].left : id # <<u, k>>

\* The lists of u are disjoint, and stay so when its request is filed.
ListsOf(u) ==
  /\ state[u].active \cap state[u].deactivated = {}
  /\ \A id \in state[u].active \cup state[u].deactivated : Unused(u, id)
  /\ at[u] # "none" /\ req[u].keep = "active" => req[u].id = <<u, state[u].left>>
  /\ at[u] # "none" /\ req[u].keep = "deactivated" =>
       req[u].id \notin state[u].active /\ Unused(u, req[u].id)

Lists == \A u \in Users : ListsOf(u)

Failed(status) == status \in {0, 500}

\* An answer is ok, or tells of a failure, or of a route that does not exist.
AnswerFits(c) ==
  at[c] = "answered" =>
    \/ Failed(answer[c]) /\ broken
    \/ req[c].endpoint \notin Routes /\ answer[c] = 404
    \/ answer[c] \in req[c].expected

Fitting == \A c \in Callers : Fits(req[c]) /\ AnswerFits(c)

\* So does a result that was not ok.
Recorded ==
  \A f \in failures : \/ Failed(f.status) /\ broken
                      \/ f.endpoint \notin Routes /\ f.status = 404

\* A failure that met a request is on its way to the verdict.
Remembered ==
  broken =>
    \/ exit = 1
    \/ \E f \in failures : Failed(f.status)
    \/ \E c \in Callers : at[c] = "answered" /\ Failed(answer[c])

\* Before the ramp nobody has changed the table.
Early ==
  /\ phase \in {"health", "seed"} => rows = Seeds
  /\ phase = "health" => req[Main] = Probe
  /\ phase # "health" => at[Main] = "none"

\* Who is not launched is not under way.
Waiting ==
  /\ launched \in 0..USERS
  /\ \A u \in Users : u > launched => at[u] = "none"

\* After the report nobody is, and nobody will be.
Over ==
  /\ phase # "exit" => exit = NoCode
  /\ phase = "exit" => /\ exit \in {0, 1}
                       /\ VerdictIsJust
                       /\ \A u \in Users : at[u] = "none"
                       /\ \A u \in Users : u <= launched => runUser(View(u)) = {}

VInv ==
  /\ Fitting
  /\ Lists
  /\ Recorded
  /\ Remembered
  /\ Early
  /\ Waiting
  /\ Over

\* A step of the service for c, as far as the verdict goes.
Told(c) ==
  /\ AnswerFits(c)'
  /\ broken => broken'
  /\ broken' => broken \/ (at'[c] = "answered" /\ Failed(answer'[c]))
  /\ at[c] # "answered"
  /\ req[c].endpoint = "health" => rows' = rows

\* What an answer may be when the client goes back.
LEMMA FinishTold ==
  ASSUME IInv, NEW c \in Callers, at[c] \in Statements, NEW code, Finish(c, code), req' = req,
         \/ Failed(code) /\ broken'
         \/ code \in req[c].expected /\ broken' = broken,
         req[c].endpoint = "health" => rows' = rows
  PROVE  Told(c)
<1>1. at'[c] = "answered" /\ answer' = [answer EXCEPT ![c] = code]
  BY FinishEffect DEF IInv
<1>2. answer'[c] = code
  BY <1>1 DEF IInv, Types
<1>3. at[c] # "answered"
  BY DEF Statements
<1> QED
  BY <1>1, <1>2, <1>3 DEF Told, AnswerFits

LEMMA RejectTold ==
  ASSUME IInv, NEW c \in Callers, at[c] = "sent", NEW code, Reject(c, code), req' = req,
         UNCHANGED table,
         \/ Failed(code) /\ broken'
         \/ /\ broken' = broken
            /\ code \in req[c].expected \/ (req[c].endpoint \notin Routes /\ code = 404)
  PROVE  Told(c)
<1>1. at'[c] = "answered" /\ answer'[c] = code /\ rows' = rows
  BY DEF Reject, Goto, IInv, Types, table
<1> QED
  BY <1>1 DEF Told, AnswerFits

LEMMA ReceiveTold ==
  ASSUME IInv, NEW c \in Callers, Fits(req[c]), Receive(c) PROVE Told(c)
<1>1. at[c] = "sent" /\ req' = req /\ UNCHANGED table /\ broken' = broken
  BY DEF Receive
<1>2. CASE req[c].endpoint \notin Routes /\ Reject(c, 404)
  BY <1>1, <1>2, RejectTold
<1>3. CASE ~ req[c].valid /\ Reject(c, 400)
  <2>1. 400 \in req[c].expected
    BY <1>3 DEF Fits, Expects
  <2> QED
    BY <1>1, <1>3, <2>1, RejectTold
<1>4. CASE req[c].endpoint \in Routes /\ Connect(c)
  <2>1. at'[c] \in {"waiting", First(req[c].endpoint)}
    BY <1>1, <1>4, ConnectEffect DEF IInv
  <2>2. at'[c] # "answered"
    BY <1>4, <2>1, FirstIsStatement DEF Statements
  <2> QED
    BY <1>1, <2>2 DEF Told, AnswerFits, table
<1> QED
  BY <1>2, <1>3, <1>4 DEF Receive

LEMMA HealthTold ==
  ASSUME IInv, NEW c \in Callers, Fits(req[c]), Health(c) PROVE Told(c)
<1>1. at[c] \in Statements /\ at[c] = "now" /\ req' = req /\ broken' = broken /\ rows' = rows
  BY DEF Health, Statements, table
<1>2. 200 \in req[c].expected
  BY <1>1, Routed DEF IInv, Flying, OnRoute, Fits, Expects
<1> QED
  BY <1>1, <1>2, FinishTold DEF Health

LEMMA CommitTold ==
  ASSUME IInv, NEW c \in Callers, Fits(req[c]), CommitCreate(c) PROVE Told(c)
<1>1. at[c] \in Statements /\ at[c] = "commit" /\ req' = req /\ broken' = broken
  BY DEF CommitCreate, Statements
<1>2. 201 \in req[c].expected /\ req[c].endpoint # "health"
  BY <1>1, Routed DEF IInv, Flying, OnRoute, Fits, Expects
<1> QED
  BY <1>1, <1>2, FinishTold DEF CommitCreate

LEMMA DeactivateTold ==
  ASSUME IInv, NEW c \in Callers, Fits(req[c]), Deactivate(c) PROVE Told(c)
<1>1. at[c] \in Statements /\ at[c] = "update" /\ req' = req /\ broken' = broken
  BY DEF Deactivate, Statements
<1>2. 200 \in req[c].expected /\ req[c].endpoint # "health"
  BY <1>1, Routed DEF IInv, Flying, OnRoute, Fits, Expects
<1>3. CASE Finish(c, 200)
  BY <1>1, <1>2, <1>3, FinishTold
<1>4. CASE Goto(c, "lookup")
  <2>1. at'[c] = "lookup"
    BY <1>4 DEF Goto, IInv, Types
  <2> QED
    BY <1>1, <1>2, <2>1 DEF Told, AnswerFits
<1> QED
  BY <1>3, <1>4 DEF Deactivate

\* The 404 of a lookup never comes: who is asked for is in the table.
LEMMA ExplainTold ==
  ASSUME IInv, NEW c \in Callers, Fits(req[c]), Explain(c) PROVE Told(c)
<1>1. at[c] \in Statements /\ at[c] = "lookup" /\ req' = req /\ broken' = broken /\ rows' = rows
  BY DEF Explain, Statements, table
<1>2. 409 \in req[c].expected /\ req[c].id \in rows
  BY <1>1 DEF IInv, Flying, OnRoute, Fits, Expects
<1>3. Finish(c, 409)
  BY <1>2 DEF Explain
<1> QED
  BY <1>1, <1>2, <1>3, FinishTold

LEMMA StatementFailsTold ==
  ASSUME IInv, NEW c \in Callers, StatementFails(c) PROVE Told(c)
<1>1. /\ at[c] \in Statements /\ Finish(c, 500) /\ req' = req /\ broken'
      /\ UNCHANGED table \/ Executed(c)
  BY DEF StatementFails
<1>2. req[c].endpoint = "health" => rows' = rows
  BY <1>1, Routed DEF Executed, IInv, table
<1> QED
  BY <1>1, <1>2, FinishTold DEF Failed

LEMMA ServeTold ==
  ASSUME IInv, NEW c \in Callers, Fits(req[c]), Serve(c) PROVE Told(c)
<1>1. CASE Refuse(c)
  BY <1>1, RejectTold DEF Refuse, Failed
<1> QED
  BY <1>1, ReceiveTold, HealthTold, CommitTold, DeactivateTold, ExplainTold DEF Serve

-----------------------------------------------------------------------------
LEMMA ServedVerdict ==
  ASSUME IInv, VInv, NEW c \in Callers, Served(c), Told(c), UNCHANGED scriptVars
  PROVE  VInv'
<1> USE DEF IInv, VInv
<1>1. /\ req' = req /\ rows \subseteq rows' /\ at[c] # "none"
      /\ \A d \in Callers \ {c} : /\ answer'[d] = answer[d]
                                  /\ at'[d] = "answered" <=> at[d] = "answered"
      /\ \A d \in Callers : at'[d] # "none" => at[d] # "none"
  <2>1. ASSUME NEW d \in Callers \ {c}, at[d] = "waiting" /\ at'[d] = First(req[d].endpoint)
        PROVE  at'[d] # "answered"
    BY <2>1, FirstIsStatement DEF Flying, OnRoute, Statements
  <2> QED
    BY <2>1 DEF Served, TableStep, Grows
<1>2. UNCHANGED <<script, phase, launched, state, over, failures, exit>>
  BY DEF scriptVars
<1>3. phase # "exit"
  <2> SUFFICES ASSUME phase = "exit" PROVE FALSE
    OBVIOUS
  <2>1. at[Main] = "none" /\ \A u \in Users : at[u] = "none"
    BY DEF Early, Over
  <2>2. Callers = Users \cup {Main}
    BY CallersAssumption, UsersAssumption DEF Users, Main
  <2> QED
    BY <1>1, <2>1, <2>2
<1>4. Fitting'
  <2> SUFFICES ASSUME NEW d \in Callers PROVE Fits(req[d])' /\ AnswerFits(d)'
    BY DEF Fitting
  <2>1. Fits(req[d])'
    BY <1>1 DEF Fitting, Fits, Expects
  <2>2. CASE d = c
    BY <2>1, <2>2 DEF Told
  <2>3. CASE d # c
    BY <1>1, <2>1, <2>3 DEF Fitting, AnswerFits, Told
  <2> QED
    BY <2>2, <2>3
<1>5. Lists'
  BY <1>1, <1>2, UsersCall DEF Lists, ListsOf, Unused
<1>6. Recorded'
  BY <1>2 DEF Recorded, Told
<1>7. Remembered'
  BY <1>1, <1>2 DEF Remembered, Told
<1>8. Early'
  <2>1. at[Main] = "none" => at'[Main] = "none"
    BY <1>1, UsersCall
  <2>2. CASE phase = "health"
    <3>1. c = Main
      BY <1>1, <2>2, CallersAssumption, UsersAssumption DEF Quiet, Users, Main
    <3>2. req[c].endpoint = "health"
      BY <2>2, <3>1, ProbeMade DEF Early
    <3> QED
      BY <1>1, <1>2, <2>2, <3>2 DEF Early, Told
  <2>3. phase # "seed"
    BY <1>1, CallersAssumption, UsersAssumption DEF Quiet, Early, Users, Main
  <2> QED
    BY <1>2, <2>1, <2>2, <2>3 DEF Early
<1>9. Waiting'
  BY <1>1, <1>2, UsersCall DEF Waiting
<1>10. Over'
  BY <1>2, <1>3 DEF Over
<1> QED
  BY <1>4, <1>5, <1>6, <1>7, <1>8, <1>9, <1>10

\* A crash is told of by everybody it cuts off.
LEMMA CrashVerdict ==
  ASSUME IInv, VInv, Crash, UNCHANGED scriptVars
  PROVE  VInv'
<1> USE DEF IInv, VInv
<1> DEFINE cut == {c \in Callers : at[c] \in Statements \cup {"waiting"}}
<1>1. /\ LeftBehind
      /\ at' = [c \in Callers |-> IF c \in cut THEN "answered" ELSE at[c]]
      /\ answer' = [c \in Callers |-> IF c \in cut THEN 0 ELSE answer[c]]
      /\ req' = req /\ broken' = (broken \/ cut # {})
  BY DEF Crash
<1>2. /\ cut \subseteq Callers
      /\ \A d \in cut : at[d] # "none" /\ at[d] # "answered"
  BY DEF Statements
<1>3. /\ \A d \in cut : d \in Callers /\ at'[d] = "answered" /\ Failed(answer'[d]) /\ broken'
      /\ \A d \in Callers \ cut : at'[d] = at[d] /\ answer'[d] = answer[d]
      /\ \A d \in Callers : at'[d] # "none" => at[d] # "none"
      /\ \A d \in Callers : at[d] = "none" => at'[d] = "none"
  <2>1. cut \subseteq Callers
    OBVIOUS
  <2> HIDE DEF cut
  <2> QED
    BY <1>1, <1>2, <2>1 DEF Failed
<1>4. /\ (\A c \in Callers : at[c] # "commit") => rows' = rows
      /\ \A c \in Callers : at[c] = "commit" => c \in cut /\ req[c].endpoint # "health"
  BY <1>1, LeftEffect, Routed DEF Statements
<1> HIDE DEF cut
<1>5. UNCHANGED <<script, phase, launched, state, over, failures, exit>>
  BY DEF scriptVars
<1>6. rows \subseteq rows'
  BY CrashKeeps DEF TableStep, Grows
<1>7. (broken => broken') /\ (broken' => broken \/ cut # {})
  BY <1>1
<1>8. Fitting'
  <2> SUFFICES ASSUME NEW d \in Callers PROVE Fits(req[d])' /\ AnswerFits(d)'
    BY DEF Fitting
  <2>1. Fits(req[d])'
    BY <1>1, <1>6 DEF Fitting, Fits, Expects
  <2>2. CASE d \in cut
    BY <1>3, <2>1, <2>2 DEF AnswerFits
  <2>3. CASE d \notin cut
    BY <1>1, <1>3, <2>1, <2>3 DEF Fitting, AnswerFits
  <2> QED
    BY <2>2, <2>3
<1>9. Lists'
  BY <1>1, <1>3, <1>5, UsersCall DEF Lists, ListsOf, Unused
<1>10. Recorded'
  BY <1>5, <1>7 DEF Recorded
<1>11. Remembered'
  <2>1. CASE cut # {}
    <3>1. PICK d \in cut : d \in Callers /\ at'[d] = "answered" /\ Failed(answer'[d])
      BY <1>3, <2>1
    <3> QED
      BY <3>1 DEF Remembered
  <2>2. CASE cut = {}
    <3>1. broken' => broken
      BY <1>7, <2>2
    <3>2. \A d \in Callers : at'[d] = at[d] /\ answer'[d] = answer[d]
      BY <1>3, <2>2
    <3> QED
      BY <1>5, <3>1, <3>2 DEF Remembered
  <2> QED
    BY <2>1, <2>2
<1>12. Early'
  <2>1. CASE phase \in {"health", "seed"}
    <3>1. \A c \in cut : c = Main /\ phase = "health"
      BY <1>2, <2>1, CallersAssumption, UsersAssumption DEF Quiet, Early, Users, Main
    <3>2. \A c \in cut : req[c].endpoint = "health"
      BY <3>1, ProbeMade DEF Early
    <3>3. rows' = rows
      BY <1>4, <3>2
    <3> QED
      BY <1>1, <1>3, <1>5, <3>3, UsersCall DEF Early
  <2>2. CASE phase \notin {"health", "seed"}
    BY <1>1, <1>3, <1>5, <2>2, UsersCall DEF Early
  <2> QED
    BY <2>1, <2>2
<1>13. Waiting'
  BY <1>3, <1>5, UsersCall DEF Waiting
<1>14. Over'
  <2>1. CASE phase = "exit"
    <3>1. cut = {}
      BY <1>2, <2>1, CallersAssumption, UsersAssumption DEF Early, Over, Users, Main
    <3>2. VerdictIsJust'
      BY <1>1, <1>5, <2>1, <3>1 DEF Over, VerdictIsJust
    <3>3. \A u \in Users : runUser(View(u))' = runUser(View(u))
      BY <1>5 DEF View, runUser
    <3> QED
      BY <1>3, <1>5, <2>1, <3>2, <3>3, UsersCall DEF Over
  <2>2. CASE phase # "exit"
    BY <1>5, <2>2 DEF Over
  <2> QED
    BY <2>1, <2>2
<1> QED
  BY <1>8, <1>9, <1>10, <1>11, <1>12, <1>13, <1>14

-----------------------------------------------------------------------------
LEMMA ProbeFits == Fits(Probe)
<1>1. Probe = Form("health", NoId, TRUE, {200, 201}, "nowhere")
  BY DEF Probe, Creation!Fetch, Creation!Fine, Form
<1> QED
  BY <1>1 DEF Fits, Expects, Form

\* main() is answered for no other reason than a failure.
LEMMA CheckedVerdict ==
  ASSUME IInv, VInv, Checked PROVE VInv'
<1> USE DEF IInv, VInv
<1>1. /\ at' = [at EXCEPT ![Main] = "none"] /\ req' = [req EXCEPT ![Main] = Probe]
      /\ answer' = [answer EXCEPT ![Main] = 0]
      /\ broken' = broken /\ rows' = rows /\ state' = state /\ launched' = launched
      /\ failures' = failures /\ script' = script /\ over' = over
      /\ phase = "health" /\ at[Main] = "answered" /\ req[Main] = Probe
  BY DEF Checked, Settled, table, Early
<1>2. /\ \A d \in Callers \ {Main} : at'[d] = at[d] /\ req'[d] = req[d] /\ answer'[d] = answer[d]
      /\ at'[Main] = "none" /\ req'[Main] = Probe
  BY <1>1, UsersCall DEF Types
<1>3. /\ \A u \in Users : at[u] = "none" /\ at'[u] = "none"
      /\ launched = 0 /\ \A u \in Users : ~ (u <= launched)
  BY <1>1, <1>2, UsersCall, UsersAssumption DEF Quiet, Users
<1>4. \/ answer[Main] \in Probe.expected /\ phase' = "seed" /\ exit' = exit
      \/ answer[Main] \notin Probe.expected /\ phase' = "exit" /\ exit' = 1
  BY <1>1 DEF Checked
<1>5. Fitting'
  <2> SUFFICES ASSUME NEW d \in Callers PROVE Fits(req[d])' /\ AnswerFits(d)'
    BY DEF Fitting
  <2>1. CASE d = Main
    BY <1>1, <1>2, <2>1, ProbeFits DEF Fits, Expects, AnswerFits
  <2>2. CASE d # Main
    BY <1>1, <1>2, <2>2 DEF Fitting, Fits, Expects, AnswerFits
  <2> QED
    BY <2>1, <2>2
<1>6. Lists'
  BY <1>1, <1>3 DEF Lists, ListsOf, Unused
<1>7. Recorded'
  BY <1>1 DEF Recorded
<1>8. Remembered'
  <2>1. CASE answer[Main] \in Probe.expected
    <3>1. ~ Failed(answer[Main])
      BY <2>1, ProbeFits DEF Fits, Expects, Failed
    <3>2. exit' = exit
      BY <1>4, <2>1
    <3> QED
      BY <1>1, <1>2, <3>1, <3>2 DEF Remembered
  <2>2. CASE answer[Main] \notin Probe.expected
    BY <1>4, <2>2 DEF Remembered
  <2> QED
    BY <2>1, <2>2
<1>9. Early'
  BY <1>1, <1>2, <1>4 DEF Early
<1>10. Waiting'
  BY <1>1, <1>3 DEF Waiting
<1>11. Over'
  <2>1. CASE phase' = "seed"
    BY <1>1, <1>4, <2>1 DEF Over
  <2>2. CASE phase' = "exit"
    <3>1. answer[Main] \notin Probe.expected /\ exit' = 1
      BY <1>4, <2>2
    <3>2. broken
      BY <1>1, <3>1, ProbeMade, UsersCall DEF Fitting, AnswerFits, Routes
    <3>3. VerdictIsJust'
      BY <1>1, <3>1, <3>2 DEF VerdictIsJust
    <3> QED
      BY <1>1, <1>3, <2>2, <3>1, <3>3 DEF Over
  <2> QED
    BY <1>4, <2>1, <2>2
<1> QED
  BY <1>5, <1>6, <1>7, <1>8, <1>9, <1>10, <1>11

\* No account is both on the active and on the deactivated list of the table.
LEMMA SeedApart ==
  ASSUME script \in Scripts, NEW live, NEW gone, live \cap gone = {}, NEW lists \in seed(live, gone)
  PROVE  lists.active \cap lists.deactivated = {}
<1>1. CASE script = "creation"
  BY <1>1 DEF seed, Creation!seed
<1>2. CASE script = "deactivation"
  BY <1>2 DEF seed, Deactivation!seed
<1>3. CASE script = "folders"
  BY <1>3 DEF seed, Folders!seed
<1>4. CASE script = "zod"
  BY <1>4 DEF seed, Zod!seed
<1> QED
  BY <1>1, <1>2, <1>3, <1>4 DEF Scripts

\* A step that leaves the service, the lists and the results alone, and does not end
\* the script.
LEMMA IdleVerdict ==
  ASSUME IInv, VInv, UNCHANGED apiVars, UNCHANGED <<script, failures, exit>>,
         phase # "exit", phase' # "exit", Lists',
         phase' = phase \/ (phase \in {"seed", "ramp"} /\ phase' \in {"ramp", "await"}),
         launched' \in {launched, launched + 1} /\ launched' <= USERS
  PROVE  VInv'
<1> USE DEF IInv, VInv
<1>1. /\ at' = at /\ req' = req /\ answer' = answer /\ rows' = rows /\ broken' = broken
      /\ script' = script /\ failures' = failures /\ exit' = exit
  BY DEF apiVars, table
<1>2. Fitting'
  BY <1>1 DEF Fitting, Fits, Expects, AnswerFits
<1>3. Recorded' /\ Remembered'
  BY <1>1 DEF Recorded, Remembered
<1>4. Early'
  BY <1>1 DEF Early
<1>5. Waiting'
  BY <1>1, UsersAssumption DEF Waiting, Users
<1>6. Over'
  BY <1>1 DEF Over
<1> QED
  BY <1>2, <1>3, <1>4, <1>5, <1>6

\* What changes nothing the verdict is about.
LEMMA SteadyVerdict ==
  ASSUME VInv, UNCHANGED <<rows, at, req, answer, broken>>, UNCHANGED scriptVars
  PROVE  VInv'
<1> USE DEF VInv
<1>1. UNCHANGED <<script, phase, launched, state, over, failures, exit>>
  BY DEF scriptVars
<1>2. Fitting' /\ Lists' /\ Recorded' /\ Remembered' /\ Early' /\ Waiting'
  BY <1>1 DEF Fitting, Fits, Expects, AnswerFits, Lists, ListsOf, Unused, Recorded, Remembered,
              Early, Waiting
<1>3. Over'
  <2>1. VerdictIsJust' <=> VerdictIsJust
    BY <1>1 DEF VerdictIsJust
  <2>2. \A u \in Users : runUser(View(u))' = runUser(View(u))
    BY <1>1 DEF View, runUser
  <2> QED
    BY <1>1, <2>1, <2>2 DEF Over
<1> QED
  BY <1>2, <1>3

LEMMA SeedVerdict ==
  ASSUME IInv, VInv, Seed PROVE VInv'
<1> USE DEF IInv, VInv
<1> DEFINE live == {id \in rows : deactivated_at[id] = Never}
           gone == {id \in rows : deactivated_at[id] # Never}
<1>1. PICK lists \in seed(live, gone) :
        state' = [u \in Users |-> [active |-> lists.active, deactivated |-> lists.deactivated,
                                   left |-> ITERATIONS[script]]]
  BY DEF Seed
<1>2. live \cup gone = rows /\ live \cap gone = {}
  OBVIOUS
<1> HIDE DEF live, gone
<1>3. lists.active \subseteq rows /\ lists.deactivated \subseteq rows
  BY <1>1, <1>2, SeedLists DEF Types
<1>4. lists.active \cap lists.deactivated = {}
  BY <1>1, <1>2, SeedApart DEF Types
<1>5. /\ phase = "seed" /\ phase' = "ramp" /\ UNCHANGED apiVars /\ at' = at
      /\ UNCHANGED <<script, failures, exit>> /\ launched' = launched
  BY DEF Seed, apiVars
<1>6. \A u \in Users : \A k \in 1..ITERATIONS[script] : <<u, k>> \notin rows
  <2> SUFFICES ASSUME NEW u \in Users, NEW k \in 1..ITERATIONS[script] PROVE <<u, k>> \notin rows
    OBVIOUS
  <2>1. k \in UNION {1..ITERATIONS[s] : s \in Scripts}
    BY DEF Types
  <2> QED
    BY <1>5, <2>1 DEF Early, Seeds, Drawn
<1>7. \A u \in Users : at'[u] = "none"
  BY <1>5 DEF Quiet
<1>8. Lists'
  <2> SUFFICES ASSUME NEW u \in Users PROVE ListsOf(u)'
    BY DEF Lists
  <2>1. /\ state'[u].active = lists.active /\ state'[u].deactivated = lists.deactivated
        /\ state'[u].left = ITERATIONS[script]
    BY <1>1
  <2> QED
    BY <1>3, <1>4, <1>6, <1>7, <2>1 DEF ListsOf, Unused
<1>9. launched' \in {launched, launched + 1} /\ launched' <= USERS
  BY <1>5, UsersAssumption DEF Waiting
<1> QED
  BY <1>5, <1>8, <1>9, IdleVerdict

LEMMA LaunchVerdict ==
  ASSUME IInv, VInv, Launch PROVE VInv'
<1>1. /\ UNCHANGED apiVars /\ UNCHANGED <<script, failures, exit>> /\ state' = state
      /\ phase = "ramp" /\ phase' \in {"ramp", "await"}
      /\ launched' \in {launched, launched + 1} /\ launched' <= USERS
  BY UsersAssumption DEF Launch, VInv, Waiting
<1>2. Lists'
  BY <1>1 DEF VInv, Lists, ListsOf, Unused, apiVars
<1> QED
  BY <1>1, <1>2, IdleVerdict

LEMMA DeadlineVerdict ==
  ASSUME IInv, VInv, Deadline PROVE VInv'
<1>1. /\ UNCHANGED apiVars /\ UNCHANGED <<script, failures, exit>> /\ state' = state
      /\ phase \in {"ramp", "await"} /\ phase' = phase /\ launched' = launched
      /\ launched <= USERS
  BY UsersAssumption DEF Deadline, VInv, Waiting
<1>2. Lists'
  BY <1>1 DEF VInv, Lists, ListsOf, Unused, apiVars
<1> QED
  BY <1>1, <1>2, IdleVerdict

\* When every user is back, what was recorded is what happened, and each script
\* decides by it.
LEMMA ReportVerdict ==
  ASSUME IInv, VInv, Report PROVE VInv'
<1> USE DEF IInv, VInv
<1>1. /\ phase = "await" /\ phase' = "exit" /\ exit' = report /\ exit = NoCode
      /\ UNCHANGED <<rows, at, req, answer, broken>>
      /\ UNCHANGED <<script, launched, state, over, failures>>
  BY DEF Report, apiVars, table, Over
<1>2. \A u \in Users : u <= launched => at[u] = "none" /\ runUser(View(u)) = {}
  BY <1>1, UsersAssumption DEF Report, Returned, Running, Users, Waiting
<1>3. (\A u \in Users : at[u] = "none") /\ \A c \in Callers : at[c] = "none"
  <2>1. \A u \in Users : at[u] = "none"
    BY <1>2, UsersAssumption DEF Waiting, Users
  <2> QED
    BY <1>1, <2>1, CallersAssumption, UsersAssumption DEF Early, Users, Main
<1>4. broken => \E f \in failures : Failed(f.status)
  BY <1>1, <1>3 DEF Remembered, NoCode
<1>5. \A f \in failures : Failed(f.status) => broken
  BY DEF Recorded, Failed
<1>6. \A f \in failures : Failed(f.status) \/ (f.endpoint \notin Routes /\ f.status = 404)
  BY DEF Recorded
<1>7. report \in {0, 1} /\ (report = 1 <=>
        \/ broken
        \/ script # "folders" /\ \E r \in failures : r.endpoint \notin Routes)
  <2>1. CASE script = "folders"
    <3>1. \A f \in failures : Failed(f.status) <=> Folders!classify(f) = "serverError"
      BY <1>6 DEF Failed, Folders!classify
    <3>2. report = IF \E f \in failures : Failed(f.status) THEN 1 ELSE 0
      BY <2>1, <3>1 DEF report, Folders!report
    <3> QED
      BY <1>4, <1>5, <2>1, <3>2
  <2>2. CASE script # "folders"
    <3>1. report = IF failures = {} THEN 0 ELSE 1
      BY <2>2 DEF report, Types, Scripts, Creation!report, Deactivation!report, Zod!report
    <3> QED
      BY <1>4, <1>5, <1>6, <2>2, <3>1
  <2> QED
    BY <2>1, <2>2
<1>8. VerdictIsJust'
  BY <1>1, <1>7 DEF VerdictIsJust
<1>9. \A u \in Users : runUser(View(u))' = runUser(View(u))
  BY <1>1 DEF View, runUser
<1>10. Over'
  BY <1>1, <1>2, <1>3, <1>7, <1>8, <1>9 DEF Over
<1>11. Fitting' /\ Lists' /\ Recorded' /\ Early' /\ Waiting'
  BY <1>1 DEF Fitting, Fits, Expects, AnswerFits, Lists, ListsOf, Unused, Recorded, Early, Waiting
<1>12. Remembered'
  BY <1>1, <1>4 DEF Remembered
<1> QED
  BY <1>10, <1>11, <1>12

\* What a user asks for fits, and its lists stay apart while the answer is on its way.
LEMMA PickVerdict ==
  ASSUME IInv, VInv, NEW u \in Users, Pick(u) PROVE VInv'
<1> USE DEF IInv, VInv
<1>1. PICK r \in runUser(View(u)) :
        \/ r.endpoint = "skipped" /\ Skip(u)
        \/ r.endpoint # "skipped" /\ Request(u, r)
  BY DEF Pick
<1>2. Makes(u, r) /\ state[u].left # 0
  BY <1>1, RunUserMakes
<1>3. /\ u \in Callers /\ u # Main /\ at[u] = "none" /\ u <= launched
      /\ UNCHANGED <<rows, answer, broken>>
      /\ UNCHANGED <<script, phase, launched, over, failures, exit>>
  BY UsersCall DEF Pick, Running, table
<1>4. phase \notin {"health", "seed", "exit"}
  <2>1. launched # 0
    BY <1>3, UsersAssumption DEF Users
  <2>2. phase # "exit"
    BY <1>1, <1>3 DEF Over
  <2> QED
    BY <2>1, <2>2 DEF Quiet
<1>5. state[u].left \in Nat \ {0} /\ ListsOf(u)
  <2>1. state[u].left \in 0..ITERATIONS[script] /\ ITERATIONS[script] \in Nat
    BY IterationsAssumption DEF Types
  <2> QED
    BY <1>2, <2>1 DEF Lists
<1>6. CASE Skip(u)
  <2>1. /\ state' = [state EXCEPT ![u].left = @ - 1] /\ at' = at /\ req' = req
    BY <1>6 DEF Skip
  <2>2. /\ state'[u].active = state[u].active /\ state'[u].deactivated = state[u].deactivated
        /\ state'[u].left = state[u].left - 1
        /\ \A w \in Users \ {u} : state'[w] = state[w]
    BY <2>1 DEF Types
  <2>3. Lists'
    <3>1. ListsOf(u)'
      BY <1>3, <1>5, <2>1, <2>2 DEF ListsOf, Unused
    <3>2. ASSUME NEW w \in Users \ {u} PROVE ListsOf(w)'
      BY <2>1, <2>2 DEF Lists, ListsOf, Unused
    <3> QED
      BY <3>1, <3>2 DEF Lists
  <2>4. Fitting' /\ Recorded' /\ Remembered' /\ Early' /\ Waiting' /\ Over'
    BY <1>3, <1>4, <2>1 DEF Fitting, Fits, Expects, AnswerFits, Recorded, Remembered, Early,
                            Waiting, Over
  <2> QED
    BY <2>3, <2>4
<1>7. CASE Request(u, r)
  <2>1. /\ at' = [at EXCEPT ![u] = "sent"] /\ req' = [req EXCEPT ![u] = r]
        /\ state' = IF r.keep = "deactivated"
                    THEN [state EXCEPT ![u].active = @ \ {r.id}]
                    ELSE state
    BY <1>7 DEF Request
  <2>2. /\ at'[u] = "sent" /\ req'[u] = r
        /\ \A d \in Callers \ {u} : at'[d] = at[d] /\ req'[d] = req[d]
    BY <1>3, <2>1 DEF Types
  <2>3. /\ state'[u].active = IF r.keep = "deactivated" THEN state[u].active \ {r.id}
                                                        ELSE state[u].active
        /\ state'[u].deactivated = state[u].deactivated
        /\ state'[u].left = state[u].left
        /\ \A w \in Users \ {u} : state'[w] = state[w]
    BY <2>1 DEF Types
  <2>4. Fits(r)
    BY <1>2 DEF Makes, Fits, Beliefs, Fresh, Types
  <2>5. Fitting'
    <3> SUFFICES ASSUME NEW d \in Callers PROVE Fits(req[d])' /\ AnswerFits(d)'
      BY DEF Fitting
    <3>1. CASE d = u
      BY <1>3, <2>2, <2>4, <3>1 DEF Fits, Expects, AnswerFits
    <3>2. CASE d # u
      BY <1>3, <2>2, <3>2 DEF Fitting, Fits, Expects, AnswerFits
    <3> QED
      BY <3>1, <3>2
  <2>6. Lists'
    <3>1. ListsOf(u)'
      <4>1. r.keep = "active" => r.id = <<u, state[u].left>>
        BY <1>2 DEF Makes
      <4>2. r.keep = "deactivated" => r.id \in state[u].active
        BY <1>2 DEF Makes
      <4> QED
        BY <1>5, <2>2, <2>3, <4>1, <4>2 DEF ListsOf, Unused
    <3>2. ASSUME NEW w \in Users \ {u} PROVE ListsOf(w)'
      BY <2>2, <2>3, UsersCall DEF Lists, ListsOf, Unused
    <3> QED
      BY <3>1, <3>2 DEF Lists
  <2>7. Recorded'
    BY <1>3 DEF Recorded
  <2>8. Remembered'
    BY <1>3, <2>2 DEF Remembered
  <2>9. Early' /\ Over'
    BY <1>3, <1>4, <2>2, UsersCall DEF Early, Over
  <2>10. Waiting'
    BY <1>3, <2>2, UsersAssumption, UsersCall DEF Waiting, Users
  <2> QED
    BY <2>5, <2>6, <2>7, <2>8, <2>9, <2>10
<1> QED
  BY <1>1, <1>6, <1>7

\* An answer that is not ok is recorded, one that is files an account the other list
\* does not have.
LEMMA SettleVerdict ==
  ASSUME IInv, VInv, NEW u \in Users, Settle(u) PROVE VInv'
<1> USE DEF IInv, VInv
<1> DEFINE ok == answer[u] \in req[u].expected
<1>1. /\ u \in Callers /\ u # Main /\ at[u] = "answered"
      /\ at' = [at EXCEPT ![u] = "none"] /\ req' = [req EXCEPT ![u] = Probe]
      /\ answer' = [answer EXCEPT ![u] = 0]
      /\ UNCHANGED <<rows, broken>>
      /\ UNCHANGED <<script, phase, launched, over, exit>>
  BY UsersCall DEF Settle, Settled, table
<1>2. \/ ok /\ state' = [state EXCEPT ![u] = Filed(u, req[u])] /\ failures' = failures
      \/ /\ ~ ok /\ state' = [state EXCEPT ![u].left = @ - 1]
         /\ failures' = failures \cup {[endpoint |-> req[u].endpoint, status |-> answer[u]]}
  BY DEF Settle
<1> HIDE DEF ok
<1>3. /\ at'[u] = "none" /\ req'[u] = Probe
      /\ \A d \in Callers \ {u} : at'[d] = at[d] /\ req'[d] = req[d] /\ answer'[d] = answer[d]
  BY <1>1 DEF Types
<1>4. phase \notin {"health", "seed", "exit"}
  BY <1>1 DEF Quiet, Over
<1>5. state[u].left \in Nat \ {0} /\ ListsOf(u)
  <2>1. state[u].left \in 0..ITERATIONS[script] /\ ITERATIONS[script] \in Nat
    BY IterationsAssumption DEF Types
  <2>2. state[u].left # 0
    BY <1>1 DEF Busy
  <2> QED
    BY <2>1, <2>2 DEF Lists
<1>6. Fits(req[u]) /\ AnswerFits(u)
  BY <1>1 DEF Fitting
<1>7. Fitting'
  <2> SUFFICES ASSUME NEW d \in Callers PROVE Fits(req[d])' /\ AnswerFits(d)'
    BY DEF Fitting
  <2>1. CASE d = u
    BY <1>1, <1>3, <2>1, ProbeFits DEF Fits, Expects, AnswerFits
  <2>2. CASE d # u
    BY <1>1, <1>3, <2>2 DEF Fitting, Fits, Expects, AnswerFits
  <2> QED
    BY <2>1, <2>2
<1>8. \A w \in Users \ {u} : state'[w] = state[w]
  BY <1>2 DEF Types
<1>9. /\ state'[u].left = state[u].left - 1
      /\ \/ /\ state'[u].active = state[u].active
            /\ state'[u].deactivated = state[u].deactivated
         \/ /\ req[u].keep = "active"
            /\ state'[u].active = state[u].active \cup {req[u].id}
            /\ state'[u].deactivated = state[u].deactivated
         \/ /\ req[u].keep = "deactivated"
            /\ state'[u].active = state[u].active
            /\ state'[u].deactivated = state[u].deactivated \cup {req[u].id}
  <2>1. CASE state' = [state EXCEPT ![u] = Filed(u, req[u])]
    <3> DEFINE a == IF req[u].keep = "active" THEN state[u].active \cup {req[u].id}
                                               ELSE state[u].active
               d == IF req[u].keep = "deactivated" THEN state[u].deactivated \cup {req[u].id}
                                                   ELSE state[u].deactivated
               l == state[u].left - 1
    <3>1. Filed(u, req[u]) = [state[u] EXCEPT !.left = l, !.active = a, !.deactivated = d]
      BY DEF Filed
    <3>2. state[u] \in [active : SUBSET Ids, deactivated : SUBSET Ids,
                        left : 0..ITERATIONS[script]]
      BY DEF Types
    <3>3. /\ l = state[u].left - 1
          /\ \/ a = state[u].active /\ d = state[u].deactivated
             \/ /\ req[u].keep = "active" /\ a = state[u].active \cup {req[u].id}
                /\ d = state[u].deactivated
             \/ /\ req[u].keep = "deactivated" /\ a = state[u].active
                /\ d = state[u].deactivated \cup {req[u].id}
      OBVIOUS
    <3> HIDE DEF a, d, l
    <3>4. Filed(u, req[u]) = [active |-> a, deactivated |-> d, left |-> l]
      BY <3>1, <3>2, ListsSet
    <3>5. state'[u] = [active |-> a, deactivated |-> d, left |-> l]
      BY <2>1, <3>4 DEF Types
    <3> QED
      BY <3>3, <3>5
  <2>2. CASE state' = [state EXCEPT ![u].left = @ - 1]
    BY <2>2 DEF Types
  <2> QED
    BY <1>2, <2>1, <2>2
<1>10. Lists'
  <2>1. ListsOf(u)'
    <3>1. \A k \in 1..state'[u].left : <<u, state[u].left>> # <<u, k>>
      BY <1>5, <1>9
    <3>2. ASSUME NEW id, Unused(u, id)
          PROVE  (\A k \in 1..state'[u].left : id # <<u, k>>) /\ id # <<u, state[u].left>>
      <4>1. 1..state'[u].left \subseteq 1..state[u].left /\ state[u].left \in 1..state[u].left
        BY <1>5, <1>9
      <4> QED
        BY <3>2, <4>1 DEF Unused
    <3>3. ASSUME NEW id \in state'[u].active \cup state'[u].deactivated
          PROVE  Unused(u, id)'
      <4>1. CASE Unused(u, id)
        BY <3>2, <4>1 DEF Unused
      <4>2. CASE ~ Unused(u, id)
        <5>1. id = req[u].id /\ req[u].keep = "active"
          BY <1>1, <1>5, <1>9, <3>3, <4>2 DEF ListsOf
        <5> QED
          BY <1>1, <1>5, <3>1, <5>1 DEF ListsOf, Unused
      <4> QED
        BY <4>1, <4>2
    <3>4. req[u].keep = "active" => req[u].id \notin state[u].deactivated
      BY <1>1, <1>5, <3>2 DEF ListsOf
    <3>5. state'[u].active \cap state'[u].deactivated = {}
      BY <1>1, <1>5, <1>9, <3>4 DEF ListsOf
    <3> QED
      BY <1>3, <3>3, <3>5 DEF ListsOf
  <2>2. ASSUME NEW w \in Users \ {u} PROVE ListsOf(w)'
    BY <1>3, <1>8, UsersCall DEF Lists, ListsOf, Unused
  <2> QED
    BY <2>1, <2>2 DEF Lists
<1>11. Recorded'
  BY <1>1, <1>2, <1>6 DEF Recorded, AnswerFits, ok
<1>12. Remembered'
  <2> SUFFICES ASSUME broken, exit # 1,
                      NEW c \in Callers, at[c] = "answered" /\ Failed(answer[c])
               PROVE  \/ \E f \in failures' : Failed(f.status)
                      \/ \E d \in Callers : at'[d] = "answered" /\ Failed(answer'[d])
    <3>1. failures \subseteq failures'
      BY <1>2
    <3> QED
      BY <1>1, <3>1 DEF Remembered
  <2>1. CASE c = u
    <3>1. ~ ok
      BY <1>6, <2>1 DEF ok, Fits, Expects, Failed
    <3>2. [endpoint |-> req[u].endpoint, status |-> answer[u]] \in failures'
      BY <1>2, <3>1
    <3> QED
      BY <2>1, <3>2
  <2>2. CASE c # u
    BY <1>3, <2>2
  <2> QED
    BY <2>1, <2>2
<1>13. Early' /\ Over'
  BY <1>1, <1>3, <1>4, UsersCall DEF Early, Over
<1>14. Waiting'
  BY <1>1, <1>3, UsersCall DEF Waiting
<1> QED
  BY <1>7, <1>10, <1>11, <1>12, <1>13, <1>14

LEMMA NextVerdict ==
  ASSUME IInv, VInv, [Next]_vars PROVE VInv'
<1>1. CASE Checked
  BY <1>1, CheckedVerdict
<1>2. CASE Seed
  BY <1>2, SeedVerdict
<1>3. CASE Launch
  BY <1>3, LaunchVerdict
<1>4. CASE Report
  BY <1>4, ReportVerdict
<1>5. CASE \E u \in Users : User(u)
  BY <1>5, PickVerdict, SettleVerdict DEF User
<1>6. CASE \E c \in Callers : Service(c)
  <2>1. PICK c \in Callers : Serve(c) /\ UNCHANGED scriptVars
    BY <1>6 DEF Service
  <2>2. Served(c) /\ Told(c)
    BY <2>1, ServeServes, ServeTold DEF VInv, Fitting
  <2> QED
    BY <2>1, <2>2, ServedVerdict
<1>7. CASE Crash /\ UNCHANGED scriptVars
  BY <1>7, CrashVerdict
<1>8. CASE (\E c \in Callers : StatementFails(c)) /\ UNCHANGED scriptVars
  <2>1. PICK c \in Callers : Served(c) /\ Told(c)
    BY <1>8, StatementFailsServes, StatementFailsTold
  <2> QED
    BY <1>8, <2>1, ServedVerdict
<1>9. CASE Restart /\ UNCHANGED scriptVars
  BY <1>9, SteadyVerdict DEF Restart, table
<1>10. CASE Deadline
  BY <1>10, DeadlineVerdict
<1>11. CASE UNCHANGED vars
  BY <1>11, SteadyVerdict DEF vars, apiVars, table
<1> QED
  BY <1>1, <1>2, <1>3, <1>4, <1>5, <1>6, <1>7, <1>8, <1>9, <1>10, <1>11
  DEF Next, main, ApiFails, Ended

LEMMA InitVerdict ==
  ASSUME Init PROVE VInv
<1> USE DEF Init
<1>1. /\ \A u \in Users : at[u] = "none"
      /\ \A c \in Callers : at[c] # "answered" /\ req[c] = Probe
  BY UsersCall
<1>2. Fitting
  BY <1>1, ProbeFits DEF Fitting, AnswerFits
<1>3. Lists
  BY <1>1 DEF Lists, ListsOf
<1>4. Recorded /\ Remembered
  BY DEF Recorded, Remembered
<1>5. Early /\ Waiting /\ Over
  BY <1>1, UsersCall, UsersAssumption DEF Early, Waiting, Over
<1> QED
  BY <1>2, <1>3, <1>4, <1>5 DEF VInv

LEMMA VerdictInvHolds == Spec => [](IInv /\ VInv)
<1>1. Init => VInv
  BY InitVerdict
<1>2. IInv /\ VInv /\ [Next]_vars => VInv'
  BY NextVerdict
<1> QED
  BY <1>1, <1>2, InvHolds, PTL DEF Spec

\* The variables of a smoke run keep their types, and no user ever has an account both
\* on its active and on its deactivated list.
THEOREM TypesHold == Spec => []SmokeTypeOK
<1>1. ASSUME IInv, VInv PROVE SmokeTypeOK
  <2>1. exit \in {0, 1, NoCode}
    BY <1>1 DEF VInv, Over
  <2>2. \A u \in Users : state[u].active \cap state[u].deactivated = {}
    BY <1>1 DEF VInv, Lists, ListsOf
  <2> QED
    BY <1>1, <2>1, <2>2 DEF SmokeTypeOK, IInv, Types, Places
<1> QED
  BY <1>1, VerdictInvHolds, PTL

\* A smoke script exits with 1 exactly when a failure of the service met one of its
\* requests, or it counts a 4xx and used the route that the service does not have: no
\* order in which the users deactivate the same accounts makes a run fail.
THEOREM VerdictHolds == Spec => []VerdictIsJust
<1>1. ASSUME VInv PROVE VerdictIsJust
  <2>1. CASE phase = "exit"
    BY <1>1, <2>1 DEF VInv, Over
  <2>2. CASE phase # "exit"
    BY <1>1, <2>2 DEF VInv, Over, VerdictIsJust
  <2> QED
    BY <2>1, <2>2
<1> QED
  BY <1>1, VerdictInvHolds, PTL
=============================================================================
