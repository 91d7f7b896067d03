------------------------------- MODULE Mailbox -------------------------------
(***************************************************************************)
(* One RabbitMQ queue with its dead letter queue, as the services use it:  *)
(* a function from the messages ever published to where each one is now.   *)
(* A message is one publication of an event, so a republished event is     *)
(* another message.  The queue has no order here: neither consumer sets a  *)
(* prefetch limit, and handlers overlap at every await, so the order in    *)
(* which messages take effect is free anyway.                              *)
(***************************************************************************)
EXTENDS Naturals, FiniteSets

Message(e, copy) == [event |-> e, copy |-> copy]

\* With a handler that is about to run the named statement or call.
Delivered == {"update", "insert", "lookup", "ack"}
Kept      == {"queue", "dlq"} \cup Delivered
Places    == Kept \cup {"acked", "lost"}

NoMail == [m \in {} |-> "queue"]

Copies(mail, e) == Cardinality({m \in DOMAIN mail : m.event = e})

\* A topic exchange drops what no queue is bound for, and nobody is told.
Route(bound) == IF bound THEN "queue" ELSE "lost"

\* One more publication of an event arrives at the exchange.
Published(mail, e, place) ==
  LET new == Message(e, Copies(mail, e) + 1)
  IN [m \in DOMAIN mail \cup {new} |-> IF m = new THEN place ELSE mail[m]]

\* A message moves on.
Put(mail, m, place) == [mail EXCEPT ![m] = place]

\* The consumer is gone: what it had not acknowledged is in the queue again.
Requeued(mail) ==
  [m \in DOMAIN mail |-> IF mail[m] \in Delivered THEN "queue" ELSE mail[m]]

\* The broker restarts and had kept the messages in memory only.
Forgotten(mail) ==
  [m \in DOMAIN mail |-> IF mail[m] \in Kept THEN "lost" ELSE mail[m]]

\* Some publication of the event is still in the broker's hands.
Held(mail, e) == \E m \in DOMAIN mail : m.event = e /\ mail[m] \in Kept
=============================================================================
