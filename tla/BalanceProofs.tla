---------------------------- MODULE BalanceProofs ----------------------------
(***************************************************************************)
(* Proofs about BalanceFeed, for any accounts and movements, any number of *)
(* failures of every kind, and a queue that is bound or not.               *)
(***************************************************************************)
EXTENDS BalanceFeed, MailboxProofs

Row == [balance : Int, version : Nat]

\* The ledger announces rows as they are.
LedgerTyped ==
  /\ accounts \in [Accounts -> Row]
  /\ \A e \in outbox : e.balance \in Int /\ e.version \in Nat

\* The relay works on committed events that are not ticked off, each once.
RelaySound ==
  /\ sent \subseteq outbox
  /\ relay \in {"poll", "next", "publish", "mark", "down", "panicked"}
  /\ relay \in {"next", "publish", "mark"} => batch \subseteq outbox \ sent
  /\ relay \in {"publish", "mark"} => event \in outbox \ (sent \cup batch)
  /\ err \in BOOLEAN /\ bound \in BOOLEAN /\ consumer \in BOOLEAN
  /\ faults \in 0..MaxFaults

\* Every message carries a committed event.
MailSound == Sound(mail, outbox)

ProjectionTyped == projection \in [Projected -> Row]

\* A message past its UPDATE is shown already, or names an account the service does
\* not have and is about to be rejected.
AppliedFirst ==
  \A m \in DOMAIN mail :
    /\ mail[m] \in {"ack", "acked"} => m.event.account \in Projected
    /\ mail[m] \in {"lookup", "ack", "acked"} /\ m.event.account \in Projected
         => projection[m.event.account].version >= m.event.version

FeedInv == LedgerTyped /\ RelaySound /\ MailSound /\ ProjectionTyped /\ AppliedFirst

-----------------------------------------------------------------------------
\* What a movement does to the rows, and what it announces.
LEMMA MovedRows ==
  ASSUME NEW rows \in [Accounts -> Row], NEW id \in Accounts, NEW delta \in Int
  PROVE  Moved(rows, id, delta) \in [Accounts -> Row]
BY DEF Moved, Row

LEMMA PostTyped ==
  ASSUME LedgerTyped, NEW r, NEW key, NEW sender \in Accounts, NEW receiver \in Accounts,
         NEW amount \in Int, Post(r, key, sender, receiver, amount)
  PROVE  LedgerTyped' /\ outbox \subseteq outbox'
<1> DEFINE debited == Moved(accounts, sender, -amount)
           credited == Moved(debited, receiver, amount)
           new == {Event(r, "debit", sender, debited[sender]),
                   Event(r, "credit", receiver, credited[receiver])}
<1>1. accounts' = credited /\ outbox' = outbox \cup new
  BY DEF Post
<1>2. debited \in [Accounts -> Row]
  <2>1. accounts \in [Accounts -> Row] /\ -amount \in Int
    BY DEF LedgerTyped
  <2> QED
    BY <2>1, MovedRows
<1> HIDE DEF debited
<1>3. credited \in [Accounts -> Row]
  BY <1>2, MovedRows
<1> HIDE DEF credited
<1>4. debited[sender] \in Row /\ credited[receiver] \in Row
  BY <1>2, <1>3
<1>5. \A e \in new : e.balance \in Int /\ e.version \in Nat
  BY <1>4 DEF Event, Row
<1> HIDE DEF new
<1> QED
  BY <1>1, <1>3, <1>5 DEF LedgerTyped

-----------------------------------------------------------------------------
\* A failure that may still happen is counted.
LEMMA Counted ==
  ASSUME faults \in 0..MaxFaults, NEW kind, May(kind)
  PROVE  faults' \in 0..MaxFaults
BY FeedAssumption DEF May

\* Steps that only move the relay.
LEMMA RelayKeeps ==
  ASSUME FeedInv, UNCHANGED <<tables, mail, bound, consumer, projection>>, RelaySound'
  PROVE  FeedInv' /\ UNCHANGED <<outbox, projection>>
BY DEF FeedInv, LedgerTyped, MailSound, Sound, ProjectionTyped, AppliedFirst, tables

\* Steps that move one message, with the projection as it was or at that event.
LEMMA HandlerKeeps ==
  ASSUME FeedInv, NEW m \in DOMAIN mail, NEW place \in Places, mail' = Put(mail, m, place),
         UNCHANGED <<tables, relayVars, bound, consumer>>, faults' \in 0..MaxFaults,
         \/ UNCHANGED projection
         \/ /\ m.event.account \in Projected
            /\ Newer(m.event)
            /\ projection' = [projection EXCEPT ![m.event.account] = Written(m.event)],
         place \in {"ack", "acked"} => m.event.account \in Projected,
         place \in {"lookup", "ack", "acked"} /\ m.event.account \in Projected
           => projection'[m.event.account].version >= m.event.version
  PROVE  FeedInv' /\ [Shows!Next]_(Shows!vars)
<1> USE DEF FeedInv
<1>1. outbox' = outbox /\ accounts' = accounts
  BY DEF tables
<1>2. /\ MailSound'
      /\ DOMAIN mail' = DOMAIN mail
      /\ mail'[m] = place
      /\ \A n \in DOMAIN mail \ {m} : mail'[n] = mail[n]
  BY <1>1, PutEffect DEF MailSound
<1>3. LedgerTyped' /\ RelaySound'
  BY <1>1 DEF LedgerTyped, RelaySound, relayVars
<1>4. m.event \in outbox /\ m.event.balance \in Int /\ m.event.version \in Nat
  BY DEF MailSound, Sound, LedgerTyped
<1>5. /\ ProjectionTyped'
      /\ \A id \in Projected : projection'[id].version >= projection[id].version
      /\ [Shows!Next]_(Shows!vars)
  <2>1. CASE UNCHANGED projection
    <3>1. \A id \in Projected : projection[id].version \in Nat
      BY DEF ProjectionTyped, Row
    <3> QED
      BY <1>1, <2>1, <3>1 DEF ProjectionTyped, Shows!vars
  <2>2. CASE /\ m.event.account \in Projected
             /\ Newer(m.event)
             /\ projection' = [projection EXCEPT ![m.event.account] = Written(m.event)]
    <3>1. Written(m.event) \in Row /\ Written(m.event).version = m.event.version
      BY <1>4 DEF Written, Row
    <3>2. ProjectionTyped'
      BY <2>2, <3>1 DEF ProjectionTyped
    <3>3. \A id \in Projected : projection'[id].version >= projection[id].version
      BY <1>4, <2>2, <3>1 DEF ProjectionTyped, Row, Newer
    <3>4. Shows!Advance(m.event)
      <4>1. m.event.version > projection[m.event.account].version
        BY <1>4, <2>2 DEF Newer, ProjectionTyped, Row
      <4> QED
        BY <1>1, <2>2, <4>1 DEF Shows!Advance, Shows!Shown, Written
    <3> QED
      BY <1>4, <3>2, <3>3, <3>4 DEF Shows!Next
  <2> QED
    BY <2>1, <2>2
<1>6. AppliedFirst'
  <2> SUFFICES ASSUME NEW n \in DOMAIN mail
               PROVE  /\ mail'[n] \in {"ack", "acked"} => n.event.account \in Projected
                      /\ mail'[n] \in {"lookup", "ack", "acked"} /\ n.event.account \in Projected
                           => projection'[n.event.account].version >= n.event.version
    BY <1>2 DEF AppliedFirst
  <2>1. CASE n = m
    BY <1>2, <2>1
  <2>2. CASE n # m
    <3>1. mail'[n] = mail[n] /\ n.event.version \in Nat
      BY <1>2, <2>2 DEF MailSound, Sound, LedgerTyped
    <3>2. n.event.account \in Projected =>
            /\ projection[n.event.account].version \in Nat
            /\ projection'[n.event.account].version \in Nat
            /\ projection'[n.event.account].version >= projection[n.event.account].version
      BY <1>5 DEF ProjectionTyped, Row
    <3> QED
      BY <3>1, <3>2 DEF AppliedFirst
  <2> QED
    BY <2>1, <2>2
<1> QED
  BY <1>2, <1>3, <1>5, <1>6

-----------------------------------------------------------------------------
\* A transfer commits.
LEMMA TransferKeeps ==
  ASSUME FeedInv, NEW m \in Movements, Transfer(m)
  PROVE  FeedInv' /\ [Shows!Next]_(Shows!vars)
<1>1. LedgerTyped' /\ outbox \subseteq outbox'
  BY MovementsAssumption, PostTyped DEF Transfer, FeedInv
<1>2. RelaySound'
  BY <1>1 DEF Transfer, FeedInv, RelaySound, relayVars
<1>3. MailSound' /\ ProjectionTyped' /\ AppliedFirst'
  BY <1>1 DEF Transfer, FeedInv, MailSound, Sound, ProjectionTyped, AppliedFirst
<1>4. Shows!Announce
  BY <1>1 DEF Transfer, Shows!Announce
<1> QED
  BY <1>1, <1>2, <1>3, <1>4 DEF FeedInv, Shows!Next

\* A step of the relay that sends nothing.
LEMMA RelayStep ==
  ASSUME FeedInv,
         \/ Poll \/ EndBatch \/ Mark \/ PublishFails \/ MarkFails
         \/ LedgerCrash \/ LedgerStart \/ EmptyTick
         \/ \E e \in batch, failed \in BOOLEAN : Increment(e, failed)
  PROVE  FeedInv' /\ UNCHANGED <<outbox, projection>>
<1> USE DEF FeedInv
<1>1. CASE Poll
  <2>1. RelaySound'
    BY <1>1 DEF Poll, RelaySound, Pending, tables
  <2> QED
    BY <1>1, <2>1, RelayKeeps DEF Poll
<1>2. CASE EndBatch
  <2>1. RelaySound'
    BY <1>2 DEF EndBatch, RelaySound, tables
  <2> QED
    BY <1>2, <2>1, RelayKeeps DEF EndBatch
<1>3. CASE Mark
  <2>1. RelaySound'
    BY <1>3 DEF Mark, RelaySound, tables
  <2> QED
    BY <1>3, <2>1, RelayKeeps DEF Mark
<1>4. CASE PublishFails
  <2>1. faults' \in 0..MaxFaults
    BY <1>4, Counted DEF PublishFails, RelaySound
  <2>2. RelaySound'
    BY <1>4, <2>1 DEF PublishFails, RelaySound, tables
  <2> QED
    BY <1>4, <2>2, RelayKeeps DEF PublishFails
<1>5. CASE MarkFails
  <2>1. faults' \in 0..MaxFaults
    BY <1>5, Counted DEF MarkFails, RelaySound
  <2>2. RelaySound'
    BY <1>5, <2>1 DEF MarkFails, RelaySound, tables
  <2> QED
    BY <1>5, <2>2, RelayKeeps DEF MarkFails
<1>6. CASE LedgerCrash
  <2>1. faults' \in 0..MaxFaults
    BY <1>6, Counted DEF LedgerCrash, RelaySound
  <2>2. RelaySound'
    BY <1>6, <2>1 DEF LedgerCrash, RelaySound, tables
  <2> QED
    BY <1>6, <2>2, RelayKeeps DEF LedgerCrash
<1>7. CASE LedgerStart
  <2>1. RelaySound'
    BY <1>7 DEF LedgerStart, RelaySound, tables
  <2> QED
    BY <1>7, <2>1, RelayKeeps DEF LedgerStart
<1>8. CASE EmptyTick
  <2>1. RelaySound'
    BY <1>8 DEF EmptyTick, vars, RelaySound, relayVars, tables
  <2> QED
    BY <1>8, <2>1, RelayKeeps DEF EmptyTick, vars
<1>9. CASE \E e \in batch, failed \in BOOLEAN : Increment(e, failed)
  <2>1. PICK e \in batch, failed \in BOOLEAN : Increment(e, failed)
    BY <1>9
  <2>2. faults' \in 0..MaxFaults
    BY <2>1, Counted DEF Increment, RelaySound
  <2>3. RelaySound'
    BY <2>1, <2>2 DEF Increment, RelaySound, tables
  <2> QED
    BY <2>1, <2>3, RelayKeeps DEF Increment
<1> QED
  BY <1>1, <1>2, <1>3, <1>4, <1>5, <1>6, <1>7, <1>8, <1>9

LEMMA PublishKeeps ==
  ASSUME FeedInv, Publish \/ PublishLost
  PROVE  FeedInv' /\ UNCHANGED <<outbox, projection>>
<1> USE DEF FeedInv
<1>0. PICK place \in {"queue", "lost"} :
        /\ mail' = Published(mail, event, place)
        /\ relay = "publish" /\ relay' = "mark"
        /\ UNCHANGED <<tables, sent, batch, event, err, bound, consumer, projection>>
  BY DEF Publish, PublishLost, Route
<1>1. outbox' = outbox /\ accounts' = accounts
  BY <1>0 DEF tables
<1>2. event \in outbox
  BY <1>0 DEF RelaySound
<1>3. faults' \in 0..MaxFaults
  BY Counted DEF Publish, PublishLost, RelaySound
<1>4. /\ MailSound'
      /\ \A n \in DOMAIN mail' :
           \/ n \in DOMAIN mail /\ mail'[n] = mail[n]
           \/ mail'[n] \in {"queue", "lost"}
  BY <1>0, <1>1, <1>2, PublishedEffect DEF MailSound
<1>5. RelaySound' /\ LedgerTyped' /\ ProjectionTyped'
  BY <1>0, <1>1, <1>3 DEF RelaySound, LedgerTyped, ProjectionTyped
<1>6. AppliedFirst'
  BY <1>0, <1>4 DEF AppliedFirst
<1> QED
  BY <1>0, <1>1, <1>4, <1>5, <1>6

LEMMA HandleKeeps ==
  ASSUME FeedInv, NEW m \in DOMAIN mail, Handle(m) \/ HandlerFails(m)
  PROVE  FeedInv' /\ [Shows!Next]_(Shows!vars)
<1> {"update", "lookup", "ack", "acked", "dlq"} \subseteq Places
  BY DEF Places, Kept, Delivered
<1>0. faults \in 0..MaxFaults /\ m.event.version \in Nat
  BY DEF FeedInv, RelaySound, MailSound, Sound, LedgerTyped
<1>1. CASE Deliver(m)
  BY <1>0, <1>1, HandlerKeeps DEF Deliver, Taken
<1>2. CASE UpdateBalance(m)
  <2>1. CASE /\ m.event.account \in Projected
             /\ Newer(m.event)
             /\ projection' = [projection EXCEPT ![m.event.account] = Written(m.event)]
             /\ mail' = Put(mail, m, "ack")
    <3>1. projection'[m.event.account].version >= m.event.version
      <4>1. projection'[m.event.account].version = m.event.version
        BY <2>1 DEF FeedInv, ProjectionTyped, Written
      <4> QED
        BY <1>0, <4>1
    <3> QED
      BY <1>0, <1>2, <2>1, <3>1, HandlerKeeps DEF UpdateBalance
  <2>2. CASE /\ m.event.account \in Projected => ~ Newer(m.event)
             /\ mail' = Put(mail, m, "lookup")
             /\ UNCHANGED projection
    <3>1. m.event.account \in Projected =>
            projection'[m.event.account].version >= m.event.version
      BY <1>0, <2>2 DEF Newer, FeedInv, ProjectionTyped, Row
    <3> QED
      BY <1>0, <1>2, <2>2, <3>1, HandlerKeeps DEF UpdateBalance
  <2> QED
    BY <1>2, <2>1, <2>2 DEF UpdateBalance
<1>3. CASE Lookup(m)
  <2>1. m.event.account \in Projected =>
          projection'[m.event.account].version >= m.event.version
    BY <1>3 DEF Lookup, FeedInv, AppliedFirst
  <2>2. CASE m.event.account \in Projected
    BY <1>0, <1>3, <2>1, <2>2, HandlerKeeps DEF Lookup
  <2>3. CASE m.event.account \notin Projected
    BY <1>0, <1>3, <2>1, <2>3, HandlerKeeps DEF Lookup, Rejected
  <2> QED
    BY <2>2, <2>3
<1>4. CASE Ack(m)
  <2>1. /\ m.event.account \in Projected
        /\ projection'[m.event.account].version >= m.event.version
    BY <1>4 DEF Ack, FeedInv, AppliedFirst
  <2> QED
    BY <1>0, <1>4, <2>1, HandlerKeeps DEF Ack
<1>5. CASE HandlerFails(m)
  <2>1. faults' \in 0..MaxFaults
    BY <1>0, <1>5, Counted DEF HandlerFails
  <2> QED
    BY <2>1, <1>5, HandlerKeeps DEF HandlerFails, Rejected
<1> QED
  BY <1>1, <1>2, <1>3, <1>4, <1>5 DEF Handle

\* The consumer starts or ends, or the broker restarts.
LEMMA ResetKeeps ==
  ASSUME FeedInv, ConsumerStart \/ ConsumerCrash \/ BrokerRestart
  PROVE  FeedInv' /\ UNCHANGED <<outbox, projection>>
<1> USE DEF FeedInv
<1>1. CASE ConsumerStart
  BY <1>1 DEF ConsumerStart, LedgerTyped, RelaySound, relayVars, tables, MailSound, Sound,
              ProjectionTyped, AppliedFirst
<1>2. CASE ConsumerCrash \/ BrokerRestart
  <2>1. /\ UNCHANGED <<tables, relayVars, bound, projection>> /\ consumer' = FALSE
        /\ mail' \in {Requeued(mail), Forgotten(mail)}
        /\ outbox' = outbox /\ accounts' = accounts
    BY <1>2 DEF ConsumerCrash, BrokerRestart, tables
  <2>2. faults' \in 0..MaxFaults
    BY <1>2, Counted DEF ConsumerCrash, BrokerRestart, RelaySound
  <2>3. /\ MailSound'
        /\ DOMAIN mail' = DOMAIN mail
        /\ \A n \in DOMAIN mail' : mail'[n] = mail[n] \/ mail'[n] \in {"queue", "lost"}
    BY <2>1, ResetEffect DEF MailSound
  <2>4. LedgerTyped' /\ RelaySound' /\ ProjectionTyped'
    BY <2>1, <2>2 DEF LedgerTyped, RelaySound, relayVars, ProjectionTyped
  <2>5. AppliedFirst'
    BY <2>1, <2>3 DEF AppliedFirst
  <2> QED
    BY <2>1, <2>3, <2>4, <2>5
<1> QED
  BY <1>1, <1>2

LEMMA FeedNextKeeps ==
  ASSUME FeedInv, [FeedNext]_vars
  PROVE  FeedInv' /\ [Shows!Next]_(Shows!vars)
<1>1. CASE \E m \in Movements : Transfer(m)
  BY <1>1, TransferKeeps
<1>2. CASE \E m \in DOMAIN mail : Handle(m) \/ HandlerFails(m)
  BY <1>2, HandleKeeps
<1>3. CASE Publish \/ PublishLost
  BY <1>3, PublishKeeps DEF Shows!vars
<1>4. CASE ConsumerStart \/ ConsumerCrash \/ BrokerRestart
  BY <1>4, ResetKeeps DEF Shows!vars
<1>5. CASE \/ Poll \/ EndBatch \/ Mark \/ PublishFails \/ MarkFails
           \/ LedgerCrash \/ LedgerStart \/ EmptyTick
           \/ \E e \in batch, failed \in BOOLEAN : Increment(e, failed)
  BY <1>5, RelayStep DEF Shows!vars
<1>6. CASE UNCHANGED vars
  <2>1. RelaySound'
    BY <1>6 DEF FeedInv, vars, RelaySound, relayVars, tables
  <2> QED
    BY <1>6, <2>1, RelayKeeps DEF vars, Shows!vars
<1> QED
  BY <1>1, <1>2, <1>3, <1>4, <1>5, <1>6 DEF FeedNext, Relay, Failure

LEMMA FeedInitInv ==
  ASSUME FeedInit PROVE FeedInv
<1> USE DEF FeedInit, Init
<1>1. LedgerTyped
  BY MovementsAssumption DEF LedgerTyped, Row
<1>2. RelaySound
  <2>1. /\ relay = "poll" /\ sent = {} /\ err = FALSE /\ faults = 0
        /\ bound \in BOOLEAN /\ consumer \in BOOLEAN
    BY FeedAssumption
  <2>2. faults \in 0..MaxFaults
    BY <2>1, FeedAssumption
  <2> QED
    BY <2>1, <2>2 DEF RelaySound
<1>3. DOMAIN mail = {} /\ MailSound
  BY EmptySound DEF MailSound
<1>5. ProjectionTyped /\ AppliedFirst
  BY <1>3 DEF ProjectionTyped, Row, AppliedFirst
<1> QED
  BY <1>1, <1>2, <1>3, <1>5 DEF FeedInv

LEMMA FeedInvHolds == FeedSpec => []FeedInv
<1>1. FeedInit => FeedInv
  BY FeedInitInv
<1>2. FeedInv /\ [FeedNext]_vars => FeedInv'
  BY FeedNextKeeps
<1> QED
  BY <1>1, <1>2, PTL DEF FeedSpec

-----------------------------------------------------------------------------
\* The feed's variables have their types, the relay works only on events that are
\* committed and not ticked off, and every message carries a committed event.
THEOREM FeedTypeCorrect == FeedSpec => []FeedTypeOK
<1>1. FeedInv => FeedTypeOK
  BY DEF FeedInv, RelaySound, MailSound, Sound, ProjectionTyped, Row, FeedTypeOK
<1> QED
  BY <1>1, FeedInvHolds, PTL

\* What the accounts service has acknowledged it shows, whatever was delivered twice,
\* in any order, and whatever failed in between.
THEOREM AckedHolds == FeedSpec => []AckedMeansShown
<1>1. FeedInv => AckedMeansShown
  BY DEF FeedInv, AppliedFirst, AckedMeansShown
<1> QED
  BY <1>1, FeedInvHolds, PTL

\* The balances shown are balances the ledger committed and never go back: outbox
\* relay, broker and consumer implement Projection.
THEOREM ImplementsProjection == FeedSpec => Projects
<1>1. FeedInit => Shows!Init
  BY DEF FeedInit, Init, Shows!Init
<1>2. FeedInv /\ [FeedNext]_vars => [Shows!Next]_(Shows!vars)
  BY FeedNextKeeps
<1> QED
  BY <1>1, <1>2, FeedInvHolds, PTL DEF FeedSpec, Projects, Shows!Spec

-----------------------------------------------------------------------------
\* What is ticked off, or about to be, has been published.
HasMail(e) == \E m \in DOMAIN mail : m.event = e

PublishedInv ==
  /\ \A e \in sent : HasMail(e)
  /\ relay = "mark" => HasMail(event)

\* No step forgets a publication, and only the event at hand is ticked off.
LEMMA PublishedKeeps ==
  ASSUME PublishedInv, [FeedNext]_vars
  PROVE  PublishedInv'
<1>1. CASE Publish \/ PublishLost
  <2>1. PICK place : mail' = Published(mail, event, place)
    BY <1>1 DEF Publish, PublishLost
  <2>2. DOMAIN mail \subseteq DOMAIN mail' /\ Message(event, Copies(mail, event) + 1) \in DOMAIN mail'
    BY <2>1 DEF Published
  <2>3. Message(event, Copies(mail, event) + 1).event = event
    BY DEF Message
  <2>4. sent' = sent /\ event' = event
    BY <1>1 DEF Publish, PublishLost
  <2>5. ASSUME NEW e, HasMail(e) PROVE HasMail(e)'
    BY <2>2, <2>5 DEF HasMail
  <2>6. HasMail(event)'
    BY <2>2, <2>3, <2>4 DEF HasMail
  <2>7. (\A e \in sent : HasMail(e))'
    BY <2>4, <2>5 DEF PublishedInv
  <2> QED
    BY <2>6, <2>7 DEF PublishedInv
<1>2. CASE \/ \E m \in DOMAIN mail : Handle(m) \/ HandlerFails(m)
           \/ ConsumerStart \/ ConsumerCrash \/ BrokerRestart
  <2>1. UNCHANGED <<sent, relay, event>>
    BY <1>2 DEF Handle, Deliver, UpdateBalance, Lookup, Ack, HandlerFails, ConsumerStart,
                ConsumerCrash, BrokerRestart, relayVars
  <2>2. DOMAIN mail' = DOMAIN mail
    BY <1>2 DEF Handle, Deliver, UpdateBalance, Lookup, Ack, HandlerFails, ConsumerStart,
                ConsumerCrash, BrokerRestart, Put, Requeued, Forgotten
  <2> QED
    BY <2>1, <2>2 DEF PublishedInv, HasMail
<1>3. CASE \/ \E m \in Movements : Transfer(m)
           \/ Poll \/ EndBatch \/ Mark \/ PublishFails \/ MarkFails
           \/ LedgerCrash \/ LedgerStart \/ EmptyTick
           \/ \E e \in batch, failed \in BOOLEAN : Increment(e, failed)
           \/ UNCHANGED vars
  <2> USE DEF Transfer, Poll, EndBatch, Mark, PublishFails, MarkFails, LedgerCrash, LedgerStart,
              EmptyTick, Increment, vars, relayVars
  <2>1. mail' = mail
    BY <1>3
  <2>2. \A e \in sent' : e \in sent \/ (relay = "mark" /\ e = event)
    BY <1>3
  <2>3. relay' = "mark" => relay = "mark" /\ event' = event
    BY <1>3
  <2> QED
    BY <2>1, <2>2, <2>3 DEF PublishedInv, HasMail
<1> QED
  BY <1>1, <1>2, <1>3 DEF FeedNext, Relay, Failure

LEMMA PublishedHolds == FeedSpec => []PublishedInv
<1>1. FeedInit => PublishedInv
  BY DEF FeedInit, PublishedInv
<1> QED
  BY <1>1, PublishedKeeps, PTL DEF FeedSpec

\* Whatever fails, a balance update that is ticked off is in the queue, in the dead letter
\* queue, shown, or was lost between the relay and a handler: no statement, crash,
\* redelivery or rejection loses one.
THEOREM UpdatesKept == FeedSpec => []SentIsKeptOrLost
<1>1. FeedInv /\ PublishedInv => SentIsKeptOrLost
  <2> SUFFICES ASSUME FeedInv, PublishedInv, NEW e \in sent
               PROVE  \/ Held(mail, e)
                      \/ Shown(e)
                      \/ \E m \in DOMAIN mail : m.event = e /\ mail[m] = "lost"
    BY DEF SentIsKeptOrLost
  <2>1. PICK m \in DOMAIN mail : m.event = e
    BY DEF PublishedInv, HasMail
  <2>2. mail[m] \in Kept \cup {"acked", "lost"}
    BY DEF FeedInv, MailSound, Sound, Places
  <2>3. CASE mail[m] \in Kept
    BY <2>1, <2>3 DEF Held
  <2>4. CASE mail[m] = "acked"
    BY <2>1, <2>4 DEF FeedInv, AppliedFirst, Shown
  <2> QED
    BY <2>1, <2>2, <2>3, <2>4
<1> QED
  BY <1>1, FeedInvHolds, PublishedHolds, PTL

-----------------------------------------------------------------------------
NothingLost == bound /\ \A m \in DOMAIN mail : mail[m] # "lost"

\* A message is lost for want of a queue, with a connection, or with the broker.
LEMMA NothingLostKeeps ==
  ASSUME "broker_restart" \notin Faults, "connection_drop" \notin Faults,
         NothingLost, [FeedNext]_vars
  PROVE  NothingLost'
<1> USE DEF NothingLost
<1>1. ~ BrokerRestart /\ ~ PublishLost
  BY DEF BrokerRestart, PublishLost, May
<1>2. CASE Publish
  <2>1. mail' = Published(mail, event, "queue") /\ bound' = bound
    BY <1>2 DEF Publish, Route
  <2> QED
    BY <2>1 DEF Published
<1>3. CASE \E m \in DOMAIN mail : Handle(m) \/ HandlerFails(m)
  <2>1. PICK m \in DOMAIN mail, place \in {"update", "lookup", "ack", "acked", "dlq"} :
          mail' = Put(mail, m, place)
    BY <1>3 DEF Handle, Deliver, UpdateBalance, Lookup, Ack, HandlerFails, Taken, Rejected
  <2>2. bound' = bound
    BY <1>3 DEF Handle, Deliver, UpdateBalance, Lookup, Ack, HandlerFails
  <2> QED
    BY <2>1, <2>2 DEF Put
<1>4. CASE ConsumerStart \/ ConsumerCrash
  BY <1>4 DEF ConsumerStart, ConsumerCrash, Requeued
<1>5. CASE \/ \E m \in Movements : Transfer(m)
           \/ Poll \/ EndBatch \/ Mark \/ PublishFails \/ MarkFails
           \/ LedgerCrash \/ LedgerStart \/ EmptyTick
           \/ \E e \in batch, failed \in BOOLEAN : Increment(e, failed)
           \/ UNCHANGED vars
  BY <1>5 DEF Transfer, Poll, EndBatch, Mark, PublishFails, MarkFails, LedgerCrash, LedgerStart,
              EmptyTick, Increment, vars
<1> QED
  BY <1>1, <1>2, <1>3, <1>4, <1>5 DEF FeedNext, Relay, Failure

\* The three ways to lose one are the only ones: once the accounts service has declared its
\* queue, and while neither the broker restarts nor the relay's connection drops under a
\* message, every balance update ticked off is in the broker's hands or shown, through any
\* number of crashes of both processes and failures of every statement and publish.
THEOREM UpdatesKeptOnSoundLink ==
  ASSUME InitiallyBound, "broker_restart" \notin Faults, "connection_drop" \notin Faults
  PROVE  FeedSpec => []SentIsKept
<1>1. FeedInit => NothingLost
  BY DEF FeedInit, NothingLost, NoMail
<1>2. NothingLost /\ [FeedNext]_vars => NothingLost'
  BY NothingLostKeeps
<1>3. NothingLost /\ SentIsKeptOrLost => SentIsKept
  BY DEF NothingLost, SentIsKeptOrLost, SentIsKept
<1> QED
  BY <1>1, <1>2, <1>3, UpdatesKept, PTL DEF FeedSpec
=============================================================================
