----------------------------- MODULE AccountFeed -----------------------------
(***************************************************************************)
(* The life of an account in the accounts service and the news of it in    *)
(* the antifraud service: createAccount and deactivateAccount, the outbox  *)
(* relay of the accounts service with its publisher confirms               *)
(* (src/accounts/src/outboxRelay.js), and the consumer that projects       *)
(* account.created (src/antifraud/app.js).  An account is identified by    *)
(* the call that creates it, and so is its one event.                      *)
(***************************************************************************)
EXTENDS Mailbox

CONSTANTS
  Creates,         \* calls of POST /accounts
  Deactivates,     \* calls of PATCH /accounts/:id/deactivate
  Unknown,         \* an id no account has
  Never,           \* deactivated_at IS NULL
  InitiallyBound,  \* has the antifraud service ever started before?
  Faults,          \* the kinds of failure that may happen ...
  MaxFaults        \* ... and how many of them (a bound for TLC)

ASSUME CallsAssumption ==
  Creates \cap Deactivates = {} /\ Unknown \notin Creates /\ Never \notin Deactivates
ASSUME FaultsAssumption ==
  /\ InitiallyBound \in BOOLEAN
  /\ Faults \subseteq {"statement", "publish", "accounts_crash", "consumer_crash", "broker_restart"}
  /\ MaxFaults \in Nat

VARIABLES
  rows,        \* the accounts with a committed row
  deactivated_at,  \* account -> Never, or the call whose UPDATE set it
  outbox,      \* the accounts with a row in the outbox
  sent,        \* ... whose status is "sent"
  pc,          \* call -> the statement it is about to run
  target,      \* deactivation -> the id it names, once it has come in
  reply,       \* call -> its answer
  relay,       \* what outboxRelay is about to do
  batch,       \* the pending events it has not reached yet
  event,       \* the event it is working on
  mail,        \* message -> where it is
  bound,       \* is the antifraud queue declared and bound?
  consumer,    \* is the antifraud process up and consuming?
  projected,   \* the rows of account_projections
  faults       \* failures so far

table == <<rows, deactivated_at>>
service == <<table, outbox, pc, target, reply>>
relayVars == <<sent, relay, batch, event>>
broker == <<mail, bound, consumer, projected>>
vars == <<service, relayVars, broker, faults>>

Calls == Creates \cup Deactivates

May(kind) == kind \in Faults /\ faults < MaxFaults /\ faults' = faults + 1

Goto(call, next) == pc' = [pc EXCEPT ![call] = next]

Answer(call, outcome) ==
  /\ Goto(call, "done")
  /\ reply' = [reply EXCEPT ![call] = outcome]

-----------------------------------------------------------------------------
Init ==
  /\ rows = {}
  /\ deactivated_at = [id \in Creates |-> Never]
  /\ outbox = {}
  /\ sent = {}
  /\ pc = [call \in Calls |-> "new"]
  /\ target = [d \in Deactivates |-> Unknown]
  /\ reply = [call \in Calls |-> "none"]
  /\ relay = "poll"
  /\ batch = {}
  /\ event = Unknown
  /\ mail = NoMail
  /\ bound = InitiallyBound
  /\ consumer = InitiallyBound
  /\ projected = {}
  /\ faults = 0

\* createAccountSchema.parse, then BEGIN.
BeginCreate(c) ==
  /\ pc[c] = "new"
  /\ Answer(c, "invalid") \/ (Goto(c, "insertAccount") /\ UNCHANGED reply)
  /\ UNCHANGED <<table, outbox, target, relayVars, broker, faults>>

\* accountRepository.insert, on the transaction's client: nobody sees it yet.
InsertAccount(c) ==
  /\ pc[c] = "insertAccount"
  /\ Goto(c, "insertOutbox")
  /\ UNCHANGED <<table, outbox, target, reply, relayVars, broker, faults>>

\* Mutant: the client is not passed on, so the row is inserted by the pool.
InsertOutbox_OnPool(c) ==
  /\ pc[c] = "insertOutbox"
  /\ Goto(c, "commit")
  /\ outbox' = outbox \cup {c}
  /\ UNCHANGED <<table, target, reply, relayVars, broker, faults>>

\* outboxRepository.insert, on the same client.
InsertOutbox(c) ==
  /\ pc[c] = "insertOutbox"
  /\ Goto(c, "commit")
  /\ UNCHANGED <<table, outbox, target, reply, relayVars, broker, faults>>

\* COMMIT makes both rows visible, whatever the caller gets to hear of it.
CommitCreate(c) ==
  /\ pc[c] = "commit"
  /\ rows' = rows \cup {c}
  /\ outbox' = outbox \cup {c}
  /\ \/ Answer(c, "created") /\ UNCHANGED faults
     \/ Answer(c, "error") /\ May("statement")
  /\ UNCHANGED <<deactivated_at, target, relayVars, broker>>

\* A statement of a call fails without effect; a creation is rolled back.
CallFails(call) ==
  /\ pc[call] \notin {"new", "done"}
  /\ May("statement")
  /\ Answer(call, "error")
  /\ UNCHANGED <<table, outbox, target, relayVars, broker>>

\* Mutant: the UPDATE has no AND deactivated_at IS NULL.
Deactivatable_Any(id) == id \in rows

\* WHERE id = $1 AND deactivated_at IS NULL
Deactivatable(id) == id \in rows /\ deactivated_at[id] = Never

\* deactivateAccountSchema.parse, then the UPDATE is sent.  An id is generated by
\* the INSERT, so a caller can only name it after the commit.
ReceiveDeactivate(d) ==
  /\ pc[d] = "new"
  /\ \/ Answer(d, "invalid") /\ UNCHANGED target
     \/ /\ \E id \in rows \cup {Unknown} : target' = [target EXCEPT ![d] = id]
        /\ Goto(d, "update")
        /\ UNCHANGED reply
  /\ UNCHANGED <<table, outbox, relayVars, broker, faults>>

\* deactivate(id) is one UPDATE in a transaction of its own: it stays, whatever the
\* caller gets to hear of it.  When it changes no row the reason is looked up.
Deactivate(d) ==
  LET id == target[d]
  IN /\ pc[d] = "update"
     /\ \/ /\ Deactivatable(id)
           /\ deactivated_at' = [deactivated_at EXCEPT ![id] = d]
           /\ \/ Answer(d, "deactivated") /\ UNCHANGED faults
              \/ Answer(d, "error") /\ May("statement")
        \/ /\ ~ Deactivatable(id)
           /\ Goto(d, "lookup")
           /\ UNCHANGED <<deactivated_at, reply, faults>>
     /\ UNCHANGED <<rows, outbox, target, relayVars, broker>>

\* findById tells why no row was changed.
ExplainDeactivate(d) ==
  /\ pc[d] = "lookup"
  /\ Answer(d, IF target[d] = Unknown THEN "not_found" ELSE "already_deactivated")
  /\ UNCHANGED <<table, outbox, target, relayVars, broker, faults>>

-----------------------------------------------------------------------------
\* Mutant: the query has no WHERE status = $1.
Pending_All == outbox

\* The rows findByStatus("pending") returns.
Pending == outbox \ sent

\* A poll that finds events.  They come in the order of their created_at, which is
\* when each transaction began, not when it committed; here they are a set, as every
\* account has one event.  The next poll is scheduled when this one is done.
Poll ==
  /\ relay = "poll"
  /\ Pending # {}
  /\ batch' = Pending
  /\ relay' = "next"
  /\ UNCHANGED <<service, sent, event, broker, faults>>

\* A poll that finds nothing.
EmptyPoll ==
  /\ relay = "poll"
  /\ Pending = {}
  /\ UNCHANGED vars

\* incrementAttempt: its failure is caught and skips the event until the next poll.
Increment(e) ==
  /\ relay = "next"
  /\ e \in batch
  /\ batch' = batch \ {e}
  /\ \/ event' = e /\ relay' = "publish" /\ UNCHANGED faults
     \/ May("statement") /\ UNCHANGED <<event, relay>>
  /\ UNCHANGED <<service, sent, broker>>

EndBatch ==
  /\ relay = "next"
  /\ batch = {}
  /\ relay' = "poll"
  /\ event' = Unknown
  /\ UNCHANGED <<service, sent, batch, broker, faults>>

\* ch.publish: persistent, without mandatory.
Publish ==
  /\ relay = "publish"
  /\ mail' = Published(mail, event, Route(bound))
  /\ relay' = "confirm"
  /\ UNCHANGED <<service, sent, batch, event, bound, consumer, projected, faults>>

\* Mutant: the status is updated although the confirm did not come.
Unconfirmed_Mark == "mark"

\* waitForConfirms throws: the event is skipped and stays pending.
Unconfirmed == "next"

\* waitForConfirms.  An unroutable message is confirmed like any other.
Confirm ==
  /\ relay = "confirm"
  /\ relay' = "mark"
  /\ UNCHANGED <<service, sent, batch, event, broker, faults>>

\* The message did not make it, before or after the broker had it.
PublishFails ==
  /\ relay \in {"publish", "confirm"}
  /\ May("publish")
  /\ relay' = Unconfirmed
  /\ UNCHANGED <<service, sent, batch, event, broker>>

\* updateStatus(sent), or its failure, which leaves the status either way.
Mark ==
  /\ relay = "mark"
  /\ \/ sent' = sent \cup {event} /\ UNCHANGED faults
     \/ sent' \in {sent, sent \cup {event}} /\ May("statement")
  /\ relay' = "next"
  /\ UNCHANGED <<service, batch, event, broker>>

\* The statements a process leaves behind may still be executed: any of the COMMITs,
\* and of the UPDATEs of an account at most one, as the others find it deactivated.
LeftBehind ==
  /\ \E created \in SUBSET {c \in Creates : pc[c] = "commit"} :
       /\ rows' = rows \cup created
       /\ outbox' = outbox \cup created
  /\ deactivated_at' \in [Creates -> Deactivates \cup {Never}]
  /\ \A id \in Creates :
       \/ deactivated_at'[id] = deactivated_at[id]
       \/ /\ Deactivatable(id)
          /\ deactivated_at'[id] \in {d \in Deactivates : pc[d] = "update" /\ target[d] = id}

\* The accounts process dies and is started again: open calls are cut off, their
\* transactions are rolled back but for what the database had already received, and
\* the relay is down until it has connected.
AccountsCrash ==
  LET cut == {call \in Calls : pc[call] \notin {"new", "done"}}
  IN /\ May("accounts_crash")
     /\ LeftBehind
     /\ pc' = [call \in Calls |-> IF call \in cut THEN "done" ELSE pc[call]]
     /\ reply' = [call \in Calls |-> IF call \in cut THEN "lost" ELSE reply[call]]
     /\ relay' = "down"
     /\ UNCHANGED <<target, sent, batch, event, broker>>

RelayStart ==
  /\ relay = "down"
  /\ relay' = "poll"
  /\ batch' = {}
  /\ event' = Unknown
  /\ UNCHANGED <<service, sent, broker, faults>>

-----------------------------------------------------------------------------
\* The antifraud process starts: it declares and binds its queue and consumes.
ConsumerStart ==
  /\ ~ consumer
  /\ consumer' = TRUE
  /\ bound' = TRUE
  /\ UNCHANGED <<service, relayVars, mail, projected, faults>>

Deliver(m) ==
  /\ consumer
  /\ mail[m] = "queue"
  /\ mail' = Put(mail, m, "insert")
  /\ UNCHANGED <<service, relayVars, bound, consumer, projected, faults>>

\* INSERT ... ON CONFLICT DO NOTHING: a duplicate is no error.
Project(m) ==
  /\ consumer
  /\ mail[m] = "insert"
  /\ projected' = projected \cup {m.event}
  /\ mail' = Put(mail, m, "ack")
  /\ UNCHANGED <<service, relayVars, bound, consumer, faults>>

\* Any error is a nack without requeue, also after an INSERT that went through.
HandlerFails(m) ==
  /\ consumer
  /\ mail[m] = "insert"
  /\ May("statement")
  /\ projected' \in {projected, projected \cup {m.event}}
  /\ mail' = Put(mail, m, "dlq")
  /\ UNCHANGED <<service, relayVars, bound, consumer>>

Ack(m) ==
  /\ consumer
  /\ mail[m] = "ack"
  /\ mail' = Put(mail, m, "acked")
  /\ UNCHANGED <<service, relayVars, bound, consumer, projected, faults>>

ConsumerCrash ==
  /\ consumer
  /\ May("consumer_crash")
  /\ consumer' = FALSE
  /\ mail' = Requeued(mail)
  /\ UNCHANGED <<service, relayVars, bound, projected>>

\* Mutant: the relay does not ask for persistence, as the ledger's does not.
AfterRestart_Transient == Forgotten(mail)

\* The messages are persistent and the queue durable.
AfterRestart == Requeued(mail)

\* The broker restarts.  A message it has not confirmed may be gone.  Neither
\* amqplib client reconnects: relay and consumer rest until their processes are
\* started again.
BrokerRestart ==
  /\ May("broker_restart")
  /\ \/ mail' = AfterRestart
     \/ /\ relay = "confirm"
        /\ mail' = Put(AfterRestart, Message(event, Copies(mail, event)), "lost")
  /\ relay' = "down"
  /\ consumer' = FALSE
  /\ UNCHANGED <<service, sent, batch, event, bound, projected>>

-----------------------------------------------------------------------------
Create(c) == BeginCreate(c) \/ InsertAccount(c) \/ InsertOutbox(c) \/ CommitCreate(c)

Relay ==
  \/ Poll
  \/ \E e \in batch : Increment(e)
  \/ EndBatch
  \/ Publish
  \/ Confirm
  \/ Mark

Handle(m) == Deliver(m) \/ Project(m) \/ Ack(m)

Next ==
  \/ \E c \in Creates : Create(c)
  \/ \E d \in Deactivates : ReceiveDeactivate(d) \/ Deactivate(d) \/ ExplainDeactivate(d)
  \/ \E call \in Calls : CallFails(call)
  \/ Relay
  \/ EmptyPoll
  \/ PublishFails
  \/ AccountsCrash
  \/ RelayStart
  \/ ConsumerStart
  \/ \E m \in DOMAIN mail : Handle(m) \/ HandlerFails(m)
  \/ ConsumerCrash
  \/ BrokerRestart

Spec == Init /\ [][Next]_vars

\* tick() reschedules itself for as long as the relay lives, and the event loop
\* of the consumer gets to every message.  No restart is owed.
FairSpec ==
  /\ Spec
  /\ WF_vars(Relay)
  /\ WF_vars(\E m \in DOMAIN mail : Handle(m))

-----------------------------------------------------------------------------
\* Type invariant.  The relay works on pending events only, so no event is
\* published again once its status says "sent".
AccountTypeOK ==
  /\ rows \subseteq Creates
  /\ deactivated_at \in [Creates -> Deactivates \cup {Never}]
  /\ sent \subseteq outbox /\ outbox \subseteq Creates /\ projected \subseteq Creates
  /\ pc \in [Calls -> {"new", "insertAccount", "insertOutbox", "commit", "update",
                     "lookup", "done"}]
  /\ reply \in [Calls -> {"none", "invalid", "created", "deactivated", "not_found",
                          "already_deactivated", "error", "lost"}]
  /\ target \in [Deactivates -> Creates \cup {Unknown}]
  /\ relay \in {"poll", "next", "publish", "confirm", "mark", "down"}
  /\ relay \in {"next", "publish", "confirm", "mark"} => batch \subseteq outbox \ sent
  /\ relay \in {"publish", "confirm", "mark"} => event \in outbox \ (sent \cup batch)
  /\ \A m \in DOMAIN mail : m.event \in Creates /\ m.copy \in Nat \ {0} /\ mail[m] \in Places
  /\ faults \in 0..MaxFaults

\* The two rows of a creation stand or fall together: nothing is announced that
\* was rolled back, and no committed account goes unannounced.
CreatedIsAnnounced ==
  /\ outbox = rows
  /\ projected \subseteq outbox
  /\ \A m \in DOMAIN mail : m.event \in outbox

\* Whoever is told that it deactivated an account did, and for good: the row keeps the
\* time of that UPDATE.  Whoever is told that it was deactivated already was preceded by
\* another call, one that may itself have heard of nothing but an error.
DeactivatedOnce ==
  \A d \in Deactivates :
    /\ reply[d] = "deactivated" => target[d] \in rows /\ deactivated_at[target[d]] = d
    /\ reply[d] = "already_deactivated" =>
         target[d] \in rows /\ deactivated_at[target[d]] \notin {Never, d}

\* The transactions of both use cases, statement by statement and cut off anywhere,
\* do what AccountLife says: a row is there for good, and its deactivated_at is set
\* by one call only.
Life == INSTANCE AccountLife WITH Ids <- Creates, Stamps <- Deactivates
Lives == Life!Spec

\* An announcement that is ticked off is with the broker, kept for inspection,
\* or in the projection: also across a restart of the broker.
AnnouncedIsKept == \A e \in sent : Held(mail, e) \/ e \in projected

\* If relay and consumer are up from some time on, every account created is
\* projected, unless its announcement is in the dead letter queue.
EveryoneIsProjected ==
  <>[](relay # "down" /\ consumer) =>
    <>[](\A id \in outbox :
           id \in projected \/ \E m \in DOMAIN mail : m.event = id /\ mail[m] = "dlq")
=============================================================================
