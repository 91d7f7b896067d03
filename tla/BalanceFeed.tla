----------------------------- MODULE BalanceFeed -----------------------------
(***************************************************************************)
(* How a balance travels from the ledger to the accounts service: the      *)
(* outbox relay of the ledger (src/ledger/internal/ledger/outbox.go), the  *)
(* ledger.balance exchange and the accounts.balance-projection queue, and  *)
(* the consumer that writes the projection (src/accounts/app.js).  The     *)
(* transfers themselves are the atomic ones of Posting, which Transfer     *)
(* implements.                                                             *)
(***************************************************************************)
EXTENDS Posting, Mailbox

CONSTANTS
  Movements,       \* the transfers that may be made, each at most once
  Projected,       \* the ids that have a row in the accounts service's table
  InitiallyBound,  \* has the accounts service ever started before?
  Faults,          \* the kinds of failure that may happen ...
  MaxFaults        \* ... and how many of them (a bound for TLC)

FaultKinds == {"statement", "publish", "connection_drop",
               "ledger_crash", "consumer_crash", "broker_restart"}

ASSUME FeedAssumption ==
  /\ Projected \subseteq Accounts
  /\ InitiallyBound \in BOOLEAN
  /\ Faults \subseteq FaultKinds
  /\ MaxFaults \in Nat

ASSUME MovementsAssumption ==
  /\ OpeningBalance \in [Accounts -> Int]
  /\ \A m \in Movements : m.sender \in Accounts /\ m.receiver \in Accounts /\ m.amount \in Int

VARIABLES
  sent,        \* outbox rows with status "sent"; the others are "pending"
  relay,       \* what OutboxObserver is about to do
  batch,       \* the events of pE it has not reached yet
  event,       \* the event it is working on
  err,         \* is the variable err of the loop non-nil?
  mail,        \* message -> where it is
  bound,       \* is the queue declared and bound to the exchange?
  consumer,    \* is the accounts process up and consuming?
  projection,  \* account -> [balance, version] in the accounts service's table
  faults       \* failures so far

relayVars == <<sent, relay, batch, event, err>>
vars == <<tables, relayVars, mail, bound, consumer, projection, faults>>

NoEvent == [account |-> "none"]

Up == relay \notin {"down", "panicked"}

May(kind) == kind \in Faults /\ faults < MaxFaults /\ faults' = faults + 1

-----------------------------------------------------------------------------
FeedInit ==
  /\ Init
  /\ sent = {}
  /\ relay = "poll"
  /\ batch = {}
  /\ event = NoEvent
  /\ err = FALSE
  /\ mail = NoMail
  /\ bound = InitiallyBound
  /\ consumer = InitiallyBound
  /\ projection = [id \in Projected |-> [balance |-> 0, version |-> 0]]
  /\ faults = 0

\* A transfer commits; its two events are pending from then on.
Transfer(m) ==
  /\ Up
  /\ Post(m.id, m.key, m.sender, m.receiver, m.amount)
  /\ UNCHANGED <<relayVars, mail, bound, consumer, projection, faults>>

\* Mutant: the query forgets its WHERE clause.
Pending_All == outbox

Pending == outbox \ sent

\* A tick: findOutboxByStatus("pending"), in no order.  err starts as nil.
Poll ==
  /\ relay = "poll"
  /\ Pending # {}
  /\ batch' = Pending
  /\ err' = FALSE
  /\ relay' = "next"
  /\ UNCHANGED <<tables, sent, event, mail, bound, consumer, projection, faults>>

\* A tick that finds nothing pending.
EmptyTick ==
  /\ relay = "poll"
  /\ Pending = {}
  /\ UNCHANGED vars

\* outbox.go:30 tests err, left over from the previous event, and then calls
\* Error() on the increment's own error, which is nil when the increment worked.
Panics(failed) == err /\ ~ failed

\* The loop takes an event and runs incrementOutboxAttempt; its failure is ignored.
Increment(e, failed) ==
  /\ relay = "next"
  /\ e \in batch
  /\ IF failed THEN May("statement") ELSE UNCHANGED faults
  /\ batch' = batch \ {e}
  /\ event' = e
  /\ relay' = IF Panics(failed) THEN "panicked" ELSE "publish"
  /\ UNCHANGED <<tables, sent, err, mail, bound, consumer, projection>>

\* The batch is finished.
EndBatch ==
  /\ relay = "next"
  /\ batch = {}
  /\ relay' = "poll"
  /\ event' = NoEvent
  /\ err' = FALSE
  /\ UNCHANGED <<tables, sent, batch, mail, bound, consumer, projection, faults>>

\* Publish returns nil and the message reaches the exchange.
Publish ==
  /\ relay = "publish"
  /\ mail' = Published(mail, event, Route(bound))
  /\ relay' = "mark"
  /\ UNCHANGED <<tables, sent, batch, event, err, bound, consumer, projection, faults>>

\* There are no confirms, so nil only means that the bytes were written: when the
\* connection drops under them the broker never gets the message, and the library
\* reconnects without a word.  Each message lost so is a failure of its own.
PublishLost ==
  /\ relay = "publish"
  /\ May("connection_drop")
  /\ mail' = Published(mail, event, "lost")
  /\ relay' = "mark"
  /\ UNCHANGED <<tables, sent, batch, event, err, bound, consumer, projection>>

\* Publish returns an error: the event stays pending and the loop goes on.
PublishFails ==
  /\ relay = "publish"
  /\ May("publish")
  /\ relay' = "next"
  /\ UNCHANGED <<tables, sent, batch, event, err, mail, bound, consumer, projection>>

\* updateOutboxStatus(sent), or its failure, which leaves err non-nil and the
\* status either way.
Mark ==
  /\ relay = "mark"
  /\ sent' = sent \cup {event}
  /\ err' = FALSE
  /\ relay' = "next"
  /\ UNCHANGED <<tables, batch, event, mail, bound, consumer, projection, faults>>

MarkFails ==
  /\ relay = "mark"
  /\ May("statement")
  /\ sent' \in {sent, sent \cup {event}}
  /\ err' = TRUE
  /\ relay' = "next"
  /\ UNCHANGED <<tables, batch, event, mail, bound, consumer, projection>>

LedgerCrash ==
  /\ Up
  /\ May("ledger_crash")
  /\ relay' = "down"
  /\ UNCHANGED <<tables, sent, batch, event, err, mail, bound, consumer, projection>>

\* The ledger is started again, by hand: the compose file has no restart policy.
LedgerStart ==
  /\ ~ Up
  /\ relay' = "poll"
  /\ batch' = {}
  /\ event' = NoEvent
  /\ err' = FALSE
  /\ UNCHANGED <<tables, sent, mail, bound, consumer, projection, faults>>

-----------------------------------------------------------------------------
\* The accounts process starts: it declares the queue, binds it and consumes.
ConsumerStart ==
  /\ ~ consumer
  /\ consumer' = TRUE
  /\ bound' = TRUE
  /\ UNCHANGED <<tables, relayVars, mail, projection, faults>>

\* Mutant: acknowledged on delivery (noAck), before it is applied.
Taken_AckFirst == "ack"

\* The handler starts with the UPDATE.
Taken == "update"

\* Mutant: a queue without x-dead-letter-exchange is done with what is rejected.
Rejected_NoDlx == "acked"

\* nack(msg, false, false): the dead letter exchange keeps the message.
Rejected == "dlq"

\* The broker hands over a message.  There is no prefetch limit, and handlers
\* overlap at every await, so messages are taken up in any order.
Deliver(m) ==
  /\ consumer
  /\ mail[m] = "queue"
  /\ mail' = Put(mail, m, Taken)
  /\ UNCHANGED <<tables, relayVars, bound, consumer, projection, faults>>

\* Mutant: no version in the WHERE clause, the last write wins.
Newer_LastWriteWins(e) == TRUE

\* Mutant: off by one, the next version is taken for a stale one.
Newer_SkipsNext(e) == projection[e.account].version + 1 < e.version

\* balance_version < $2
Newer(e) == projection[e.account].version < e.version

\* SET balance = $1, balance_version = $2
Written(e) == [balance |-> e.balance, version |-> e.version]

\* updateBalance: one UPDATE ... WHERE balance_version < $2.
UpdateBalance(m) ==
  LET e == m.event
  IN /\ consumer
     /\ mail[m] = "update"
     /\ \/ /\ e.account \in Projected
           /\ Newer(e)
           /\ projection' = [projection EXCEPT ![e.account] = Written(e)]
           /\ mail' = Put(mail, m, "ack")
        \/ /\ e.account \in Projected => ~ Newer(e)
           /\ mail' = Put(mail, m, "lookup")
           /\ UNCHANGED projection
     /\ UNCHANGED <<tables, relayVars, bound, consumer, faults>>

\* No row was updated: findById tells a stale event from an unknown account.
Lookup(m) ==
  /\ consumer
  /\ mail[m] = "lookup"
  /\ mail' = Put(mail, m, IF m.event.account \in Projected THEN "ack" ELSE Rejected)
  /\ UNCHANGED <<tables, relayVars, bound, consumer, projection, faults>>

\* Any error on the way is a nack without requeue, also when the UPDATE went
\* through and only its answer was lost.
HandlerFails(m) ==
  /\ consumer
  /\ May("statement")
  /\ \/ mail[m] \in {"update", "lookup"} /\ UNCHANGED projection
     \/ /\ mail[m] = "update"
        /\ m.event.account \in Projected
        /\ Newer(m.event)
        /\ projection' = [projection EXCEPT ![m.event.account] = Written(m.event)]
  /\ mail' = Put(mail, m, Rejected)
  /\ UNCHANGED <<tables, relayVars, bound, consumer>>

Ack(m) ==
  /\ consumer
  /\ mail[m] = "ack"
  /\ mail' = Put(mail, m, "acked")
  /\ UNCHANGED <<tables, relayVars, bound, consumer, projection, faults>>

\* The accounts process dies; what it had not acknowledged goes back to the queue.
ConsumerCrash ==
  /\ consumer
  /\ May("consumer_crash")
  /\ consumer' = FALSE
  /\ mail' = Requeued(mail)
  /\ UNCHANGED <<tables, relayVars, bound, projection>>

\* The broker restarts.  The queue is durable but the messages are not (the
\* publisher asks for no persistence), and amqplib does not reconnect: nothing
\* is consumed until the accounts process is started again.
BrokerRestart ==
  /\ May("broker_restart")
  /\ consumer' = FALSE
  /\ mail' = Forgotten(mail)
  /\ UNCHANGED <<tables, relayVars, bound, projection>>

-----------------------------------------------------------------------------
Relay ==
  \/ Poll
  \/ \E e \in batch : Increment(e, FALSE)
  \/ EndBatch
  \/ Publish
  \/ Mark

Handle(m) == Deliver(m) \/ UpdateBalance(m) \/ Lookup(m) \/ Ack(m)

Failure ==
  \/ \E e \in batch : Increment(e, TRUE)
  \/ PublishLost
  \/ PublishFails
  \/ MarkFails
  \/ \E m \in DOMAIN mail : HandlerFails(m)
  \/ LedgerCrash
  \/ ConsumerCrash
  \/ BrokerRestart

FeedNext ==
  \/ \E m \in Movements : Transfer(m)
  \/ Relay
  \/ EmptyTick
  \/ LedgerStart
  \/ ConsumerStart
  \/ \E m \in DOMAIN mail : Handle(m)
  \/ Failure

FeedSpec == FeedInit /\ [][FeedNext]_vars

\* The loop of the relay keeps turning while its process is up, and the event
\* loop of the consumer gets to every message.  No restart is owed.
FairFeed ==
  /\ FeedSpec
  /\ WF_vars(Relay)
  /\ WF_vars(\E m \in DOMAIN mail : Handle(m))

-----------------------------------------------------------------------------
\* Type invariant.  The relay only ever works on events still pending.
FeedTypeOK ==
  /\ sent \subseteq outbox
  /\ relay \in {"poll", "next", "publish", "mark", "down", "panicked"}
  /\ relay \in {"next", "publish", "mark"} => batch \subseteq outbox \ sent
  /\ relay \in {"publish", "mark"} => event \in outbox \ sent
  /\ err \in BOOLEAN /\ bound \in BOOLEAN /\ consumer \in BOOLEAN
  /\ \A m \in DOMAIN mail : m.event \in outbox /\ m.copy \in Nat \ {0} /\ mail[m] \in Places
  /\ projection \in [Projected -> [balance : Int, version : Nat]]
  /\ faults \in 0..MaxFaults

\* An acknowledged event is never lost on the accounts side: the projection
\* shows it or a newer one, across redeliveries, crashes and any order.
AckedMeansShown ==
  \A m \in DOMAIN mail :
    mail[m] = "acked" =>
      /\ m.event.account \in Projected
      /\ projection[m.event.account].version >= m.event.version

Shown(e) == e.account \in Projected /\ projection[e.account].version >= e.version

\* What the ledger has ticked off is on its way, kept for inspection, or shown:
\* the outbox exists so that a balance update cannot be lost after its commit.
SentIsKept == \A e \in sent : Held(mail, e) \/ Shown(e)

\* The one way round that: a publication that came to nothing between the relay and
\* a handler (no queue yet, a connection or the broker gone).  No failing statement,
\* crash, redelivery or rejection loses a balance update that is ticked off.
SentIsKeptOrLost ==
  \A e \in sent :
    \/ Held(mail, e)
    \/ Shown(e)
    \/ \E m \in DOMAIN mail : m.event = e /\ mail[m] = "lost"

\* The loop of the relay never ends the process it runs in.
RelayNeverPanics == relay # "panicked"

\* The feed implements its abstraction: the balances shown are balances the
\* ledger committed, and none of them ever goes back.
Shows == INSTANCE Projection
Projects == Shows!Spec

\* The publications of the balance an account has now.
Newest(id) ==
  {m \in DOMAIN mail : m.event.account = id /\ m.event.version = accounts[id].version}

\* If both processes are up from some time on, every balance comes to be the
\* ledger's, unless every publication of that very balance was lost or is in the
\* dead letter queue: what became of the older ones makes no difference.
Converges ==
  <>[](Up /\ consumer) =>
    <>[](\A id \in Projected :
           \/ projection[id].version = accounts[id].version
           \/ /\ Newest(id) # {}
              /\ \A m \in Newest(id) : mail[m] \in {"dlq", "lost"})
=============================================================================
