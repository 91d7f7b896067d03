---------------------------- MODULE AccountProofs ----------------------------
(***************************************************************************)
(* Proofs about AccountFeed, for any number of creations and deactivations *)
(* and any number of failures of every kind.                               *)
(***************************************************************************)
EXTENDS AccountFeed, MailboxProofs

Replies == {"none", "invalid", "created", "deactivated", "not_found",
            "already_deactivated", "error", "lost"}

CallsTyped ==
  /\ rows \subseteq Creates
  /\ deactivated_at \in [Creates -> Deactivates \cup {Never}]
  /\ pc \in [Calls -> {"new", "insertAccount", "insertOutbox", "commit", "update",
                       "lookup", "done"}]
  /\ target \in [Deactivates -> Creates \cup {Unknown}]
  /\ reply \in [Calls -> Replies]

\* A deactivation under way names an account that is there and has told nobody anything;
\* one that looks up the reason was preceded by another, and an answer is true for good.
Named ==
  \A d \in Deactivates :
    /\ pc[d] # "done" => reply[d] = "none" /\ \A id \in Creates : deactivated_at[id] # d
    /\ pc[d] \in {"update", "lookup"} /\ target[d] # Unknown => target[d] \in rows
    /\ pc[d] = "lookup" /\ target[d] # Unknown => deactivated_at[target[d]] \notin {Never, d}
    /\ reply[d] = "deactivated" => target[d] \in rows /\ deactivated_at[target[d]] = d
    /\ reply[d] = "already_deactivated" =>
         target[d] \in rows /\ deactivated_at[target[d]] \notin {Never, d}

Announced == outbox = rows

\* The relay works on pending events, each once.
RelaySound ==
  /\ sent \subseteq outbox
  /\ relay \in {"poll", "next", "publish", "confirm", "mark", "down"}
  /\ relay \in {"next", "publish", "confirm", "mark"} => batch \subseteq outbox \ sent
  /\ relay \in {"publish", "confirm", "mark"} => event \in outbox \ (sent \cup batch)
  /\ faults \in 0..MaxFaults

BrokerSound == Sound(mail, outbox) /\ projected \subseteq outbox

CallsInv == CallsTyped /\ Named /\ Announced
RelayInv == RelaySound /\ BrokerSound

-----------------------------------------------------------------------------
LEMMA Counted ==
  ASSUME faults \in 0..MaxFaults, NEW kind, May(kind)
  PROVE  faults' \in 0..MaxFaults
BY FaultsAssumption DEF May

\* The outbox may grow under relay and broker.
LEMMA OutboxGrows ==
  ASSUME RelayInv, UNCHANGED <<relayVars, broker>>, outbox \subseteq outbox',
         faults' \in 0..MaxFaults
  PROVE  RelayInv'
<1>1. sent' = sent /\ relay' = relay /\ batch' = batch /\ event' = event /\ mail' = mail
      /\ projected' = projected
  BY DEF relayVars, broker
<1> QED
  BY <1>1 DEF RelayInv, RelaySound, BrokerSound, Sound

\* What every step does to the table: rows stay, and an UPDATE that was under way sets
\* the deactivated_at of an account that has none.
TableGrows ==
  /\ rows \subseteq rows' /\ rows' \subseteq Creates
  /\ deactivated_at' \in [Creates -> Deactivates \cup {Never}]
  /\ \A id \in Creates :
       \/ deactivated_at'[id] = deactivated_at[id]
       \/ /\ Deactivatable(id)
          /\ deactivated_at'[id] \in {d \in Deactivates : pc[d] = "update" /\ pc'[d] = "done"}

LEMMA TableRests ==
  ASSUME CallsTyped, UNCHANGED table
  PROVE  TableGrows
BY DEF CallsTyped, table, TableGrows

\* What a step does to a deactivation.
Moves(d) ==
  \/ pc'[d] = pc[d] /\ reply'[d] = reply[d] /\ target'[d] = target[d]
  \/ /\ pc[d] = "new" /\ pc'[d] = "update" /\ reply'[d] = reply[d]
     /\ target'[d] \in rows \cup {Unknown}
  \/ /\ pc[d] = "update" /\ pc'[d] = "lookup" /\ reply'[d] = reply[d]
     /\ target'[d] = target[d] /\ ~ Deactivatable(target[d]) /\ UNCHANGED table
  \/ /\ pc'[d] = "done" /\ target'[d] = target[d]
     /\ \/ reply'[d] \in {"invalid", "error", "lost", "not_found"}
        \/ /\ reply'[d] = "deactivated"
           /\ target[d] \in rows /\ deactivated_at'[target[d]] = d
        \/ /\ reply'[d] = "already_deactivated"
           /\ pc[d] = "lookup" /\ target[d] # Unknown

LEMMA NamedKeeps ==
  ASSUME CallsInv, TableGrows, \A d \in Deactivates : Moves(d)
  PROVE  Named'
<1> USE DEF CallsInv
<1>1. \A id \in Creates : deactivated_at[id] # Never => deactivated_at'[id] = deactivated_at[id]
  BY DEF TableGrows, Deactivatable
<1> SUFFICES ASSUME NEW d \in Deactivates
             PROVE  /\ pc'[d] # "done" => /\ reply'[d] = "none"
                                          /\ \A id \in Creates : deactivated_at'[id] # d
                    /\ pc'[d] \in {"update", "lookup"} /\ target'[d] # Unknown
                         => target'[d] \in rows'
                    /\ pc'[d] = "lookup" /\ target'[d] # Unknown
                         => deactivated_at'[target'[d]] \notin {Never, d}
                    /\ reply'[d] = "deactivated"
                         => target'[d] \in rows' /\ deactivated_at'[target'[d]] = d
                    /\ reply'[d] = "already_deactivated"
                         => target'[d] \in rows' /\ deactivated_at'[target'[d]] \notin {Never, d}
  BY DEF Named
<1>2. Never \notin Deactivates /\ Unknown \notin Creates
  BY CallsAssumption
<1>3. /\ target[d] \in Creates \cup {Unknown} /\ rows \subseteq Creates /\ rows \subseteq rows'
      /\ pc'[d] # "done" => \A id \in Creates : deactivated_at[id] # d => deactivated_at'[id] # d
  BY DEF CallsTyped, TableGrows
<1>4. CASE pc'[d] = pc[d] /\ reply'[d] = reply[d] /\ target'[d] = target[d]
  <2>1. pc'[d] # "done" => reply'[d] = "none" /\ \A id \in Creates : deactivated_at'[id] # d
    BY <1>3, <1>4 DEF Named
  <2>2. ASSUME target[d] \in rows PROVE deactivated_at[target[d]] # Never => deactivated_at'[target[d]] = deactivated_at[target[d]]
    BY <1>1, <1>3, <2>2
  <2> QED
    BY <1>2, <1>3, <1>4, <2>1, <2>2 DEF Named
<1>5. CASE /\ pc[d] = "new" /\ pc'[d] = "update" /\ reply'[d] = reply[d]
           /\ target'[d] \in rows \cup {Unknown}
  BY <1>3, <1>5 DEF Named
<1>6. CASE /\ pc[d] = "update" /\ pc'[d] = "lookup" /\ reply'[d] = reply[d]
           /\ target'[d] = target[d] /\ ~ Deactivatable(target[d]) /\ UNCHANGED table
  BY <1>3, <1>6 DEF Named, Deactivatable, table
<1>7. CASE /\ pc'[d] = "done" /\ target'[d] = target[d]
           /\ \/ reply'[d] \in {"invalid", "error", "lost", "not_found"}
              \/ /\ reply'[d] = "deactivated"
                 /\ target[d] \in rows /\ deactivated_at'[target[d]] = d
              \/ /\ reply'[d] = "already_deactivated"
                 /\ pc[d] = "lookup" /\ target[d] # Unknown
  BY <1>1, <1>3, <1>7 DEF Named
<1> QED
  BY <1>4, <1>5, <1>6, <1>7 DEF Moves

\* A step of one call, with what it does to the tables.
LEMMA CallKeeps ==
  ASSUME CallsInv, RelayInv, TableGrows, Announced', UNCHANGED <<relayVars, broker>>,
         faults' \in 0..MaxFaults,
         target' \in [Deactivates -> Creates \cup {Unknown}],
         NEW call \in Calls,
         NEW place \in {"insertAccount", "insertOutbox", "commit", "update", "lookup", "done"},
         pc' = [pc EXCEPT ![call] = place],
         NEW answer \in Replies, reply' = [reply EXCEPT ![call] = answer],
         \A d \in Deactivates \ {call} : target'[d] = target[d],
         call \in Deactivates => Moves(call)
  PROVE  CallsInv' /\ RelayInv'
<1>1. CallsTyped'
  BY DEF CallsInv, CallsTyped, TableGrows
<1>2. \A d \in Deactivates : Moves(d)
  BY DEF CallsInv, CallsTyped, Calls, Moves
<1>3. Named'
  BY <1>2, NamedKeeps
<1>4. outbox \subseteq outbox'
  BY DEF CallsInv, Announced, TableGrows
<1> QED
  BY <1>1, <1>3, <1>4, OutboxGrows DEF CallsInv

\* The statements of a creation up to its COMMIT are seen by nobody.
LEMMA CreateSteps ==
  ASSUME CallsInv, RelayInv, NEW c \in Creates, Create(c)
  PROVE  CallsInv' /\ RelayInv' /\ TableGrows
<1> USE DEF CallsInv
<1>1. c \in Calls /\ c \notin Deactivates
  BY CallsAssumption DEF Calls
<1>2. faults \in 0..MaxFaults
  BY DEF RelayInv, RelaySound
<1>3. reply \in [Calls -> Replies] /\ reply = [reply EXCEPT ![c] = reply[c]] /\ reply[c] \in Replies
  BY <1>1 DEF CallsTyped
<1>4. target' = target /\ target \in [Deactivates -> Creates \cup {Unknown}]
  BY DEF CallsTyped, Create, BeginCreate, InsertAccount, InsertOutbox, CommitCreate
<1>5. CASE BeginCreate(c) \/ InsertAccount(c) \/ InsertOutbox(c)
  <2>1. UNCHANGED <<table, outbox, relayVars, broker, faults>>
    BY <1>5 DEF BeginCreate, InsertAccount, InsertOutbox
  <2>2. TableGrows /\ Announced'
    BY <2>1, TableRests DEF Announced, table
  <2>3. \E place \in {"insertAccount", "insertOutbox", "commit", "done"}, answer \in Replies :
          pc' = [pc EXCEPT ![c] = place] /\ reply' = [reply EXCEPT ![c] = answer]
    <3>1. CASE Answer(c, "invalid")
      BY <3>1 DEF Answer, Goto, Replies
    <3>2. CASE Goto(c, "insertAccount") /\ UNCHANGED reply
      BY <1>3, <3>2 DEF Goto
    <3>3. CASE InsertAccount(c) \/ InsertOutbox(c)
      BY <1>3, <3>3 DEF InsertAccount, InsertOutbox, Goto
    <3> QED
      BY <1>5, <3>1, <3>2, <3>3 DEF BeginCreate
  <2> QED
    BY <1>1, <1>2, <1>4, <2>1, <2>2, <2>3, CallKeeps
<1>6. CASE CommitCreate(c)
  <2>1. /\ rows' = rows \cup {c} /\ outbox' = outbox \cup {c}
        /\ UNCHANGED <<deactivated_at, relayVars, broker>>
        /\ pc' = [pc EXCEPT ![c] = "done"]
        /\ \E answer \in Replies : reply' = [reply EXCEPT ![c] = answer]
        /\ faults' \in 0..MaxFaults
    BY <1>2, <1>6, Counted DEF CommitCreate, Answer, Goto, Replies
  <2>2. TableGrows /\ Announced'
    BY <2>1 DEF CallsTyped, TableGrows, Announced
  <2> QED
    BY <1>1, <1>4, <2>1, <2>2, CallKeeps
<1> QED
  BY <1>5, <1>6 DEF Create

LEMMA DeactivateSteps ==
  ASSUME CallsInv, RelayInv, NEW d \in Deactivates,
         ReceiveDeactivate(d) \/ Deactivate(d) \/ ExplainDeactivate(d)
  PROVE  CallsInv' /\ RelayInv' /\ TableGrows
<1> USE DEF CallsInv
<1>1. d \in Calls /\ Never \notin Deactivates /\ Unknown \notin Creates
  BY CallsAssumption DEF Calls
<1>2. faults \in 0..MaxFaults
  BY DEF RelayInv, RelaySound
<1>3. /\ reply \in [Calls -> Replies] /\ reply = [reply EXCEPT ![d] = reply[d]] /\ reply[d] \in Replies
      /\ target \in [Deactivates -> Creates \cup {Unknown}] /\ rows \subseteq Creates
      /\ deactivated_at \in [Creates -> Deactivates \cup {Never}]
      /\ pc \in [Calls -> {"new", "insertAccount", "insertOutbox", "commit", "update",
                           "lookup", "done"}]
  BY <1>1 DEF CallsTyped
<1>4. CASE ReceiveDeactivate(d)
  <2>1. UNCHANGED <<table, outbox, relayVars, broker, faults>> /\ pc[d] = "new"
    BY <1>4 DEF ReceiveDeactivate
  <2>2. TableGrows /\ Announced'
    BY <2>1, TableRests DEF Announced, table
  <2>3. CASE Answer(d, "invalid") /\ UNCHANGED target
    <3>1. /\ pc' = [pc EXCEPT ![d] = "done"] /\ reply' = [reply EXCEPT ![d] = "invalid"]
          /\ "invalid" \in Replies /\ target' = target
      BY <2>3 DEF Answer, Goto, Replies
    <3>2. Moves(d)
      BY <1>1, <1>3, <3>1 DEF Moves
    <3> QED
      BY <1>1, <1>2, <1>3, <2>1, <2>2, <3>1, <3>2, CallKeeps
  <2>4. ASSUME NEW id \in rows \cup {Unknown}, target' = [target EXCEPT ![d] = id],
               Goto(d, "update"), UNCHANGED reply
        PROVE  CallsInv' /\ RelayInv'
    <3>1. pc' = [pc EXCEPT ![d] = "update"] /\ reply' = [reply EXCEPT ![d] = reply[d]]
      BY <1>3, <2>4 DEF Goto
    <3>2. Moves(d)
      BY <1>1, <1>3, <2>1, <2>4, <3>1 DEF Moves
    <3>3. /\ target' \in [Deactivates -> Creates \cup {Unknown}]
          /\ \A f \in Deactivates \ {d} : target'[f] = target[f]
      BY <1>3, <2>4
    <3> QED
      BY <1>1, <1>2, <1>3, <2>1, <2>2, <3>1, <3>2, <3>3, CallKeeps
  <2> QED
    BY <1>4, <2>2, <2>3, <2>4 DEF ReceiveDeactivate
<1>5. CASE Deactivate(d)
  <2>1. /\ pc[d] = "update"
        /\ UNCHANGED <<rows, outbox, target, relayVars, broker>>
    BY <1>5 DEF Deactivate
  <2>2. CASE /\ Deactivatable(target[d])
             /\ deactivated_at' = [deactivated_at EXCEPT ![target[d]] = d]
             /\ \/ Answer(d, "deactivated") /\ UNCHANGED faults
                \/ Answer(d, "error") /\ May("statement")
    <3>1. /\ target[d] \in rows /\ target[d] \in Creates
          /\ deactivated_at'[target[d]] = d
          /\ \A id \in Creates \ {target[d]} : deactivated_at'[id] = deactivated_at[id]
      BY <1>3, <2>2 DEF Deactivatable
    <3>2. PICK answer \in {"deactivated", "error"} :
            /\ pc' = [pc EXCEPT ![d] = "done"]
            /\ reply' = [reply EXCEPT ![d] = answer]
            /\ faults' \in 0..MaxFaults
      BY <1>2, <2>2, Counted DEF Answer, Goto
    <3>3. pc'[d] = "done" /\ reply'[d] = answer /\ answer \in Replies
      BY <1>1, <1>3, <3>2 DEF Replies
    <3>4. TableGrows
      BY <1>3, <2>1, <2>2, <3>1, <3>3 DEF TableGrows
    <3>5. Moves(d)
      BY <2>1, <3>1, <3>3 DEF Moves
    <3>6. Announced'
      BY <2>1 DEF Announced
    <3> QED
      BY <1>1, <1>3, <2>1, <3>2, <3>3, <3>4, <3>5, <3>6, CallKeeps
  <2>3. CASE /\ ~ Deactivatable(target[d])
             /\ Goto(d, "lookup")
             /\ UNCHANGED <<deactivated_at, reply, faults>>
    <3>1. pc' = [pc EXCEPT ![d] = "lookup"] /\ reply' = [reply EXCEPT ![d] = reply[d]]
      BY <1>3, <2>3 DEF Goto
    <3>2. TableGrows /\ Announced' /\ UNCHANGED table
      BY <2>1, <2>3, TableRests DEF Announced, table
    <3>3. Moves(d)
      BY <1>1, <1>3, <2>1, <2>3, <3>1, <3>2 DEF Moves
    <3> QED
      BY <1>1, <1>2, <1>3, <2>1, <2>3, <3>1, <3>2, <3>3, CallKeeps
  <2> QED
    BY <1>5, <2>2, <2>3 DEF Deactivate
<1>6. CASE ExplainDeactivate(d)
  <2>1. /\ pc[d] = "lookup"
        /\ UNCHANGED <<table, outbox, target, relayVars, broker, faults>>
        /\ pc' = [pc EXCEPT ![d] = "done"]
    BY <1>6 DEF ExplainDeactivate, Answer, Goto
  <2>2. PICK answer \in {"not_found", "already_deactivated"} :
          /\ reply' = [reply EXCEPT ![d] = answer]
          /\ answer = "already_deactivated" => target[d] # Unknown
    BY <1>6 DEF ExplainDeactivate, Answer
  <2>3. TableGrows /\ Announced'
    BY <2>1, TableRests DEF Announced, table
  <2>4. answer \in Replies /\ pc'[d] = "done" /\ reply'[d] = answer
    BY <1>1, <1>3, <2>1, <2>2 DEF Replies
  <2>5. Moves(d)
    BY <2>1, <2>2, <2>4 DEF Moves
  <2> QED
    BY <1>1, <1>2, <1>3, <2>1, <2>2, <2>3, <2>4, <2>5, CallKeeps
<1> QED
  BY <1>4, <1>5, <1>6

LEMMA CallFailsKeeps ==
  ASSUME CallsInv, RelayInv, NEW call \in Calls, CallFails(call)
  PROVE  CallsInv' /\ RelayInv' /\ TableGrows
<1>1. /\ UNCHANGED <<table, outbox, target, relayVars, broker>>
      /\ pc' = [pc EXCEPT ![call] = "done"] /\ reply' = [reply EXCEPT ![call] = "error"]
      /\ faults' \in 0..MaxFaults
  BY Counted DEF CallFails, Answer, Goto, RelayInv, RelaySound
<1>2. TableGrows /\ Announced'
  BY <1>1, TableRests DEF CallsInv, Announced, table
<1>3. pc'[call] = "done" /\ reply'[call] = "error" /\ "error" \in Replies
  BY <1>1 DEF CallsInv, CallsTyped, Replies
<1>4. call \in Deactivates => Moves(call)
  BY <1>1, <1>3 DEF Moves
<1>5. target' \in [Deactivates -> Creates \cup {Unknown}]
  BY <1>1 DEF CallsInv, CallsTyped
<1> QED
  BY <1>1, <1>2, <1>3, <1>4, <1>5, CallKeeps

-----------------------------------------------------------------------------
\* Steps that leave the service's tables and calls alone.
LEMMA ServiceRests ==
  ASSUME CallsInv, UNCHANGED service
  PROVE  CallsInv' /\ outbox' = outbox
BY DEF CallsInv, CallsTyped, Named, Announced, service, table

LEMMA BrokerRests ==
  ASSUME BrokerSound, UNCHANGED <<mail, projected>>, outbox' = outbox
  PROVE  BrokerSound'
BY DEF BrokerSound

\* A step of the relay that publishes nothing.
LEMMA RelayStep ==
  ASSUME CallsInv, RelayInv,
         \/ Poll \/ EndBatch \/ Confirm \/ PublishFails \/ Mark \/ RelayStart
         \/ \E e \in batch : Increment(e)
  PROVE  CallsInv' /\ RelayInv'
<1>1. UNCHANGED service /\ UNCHANGED <<mail, projected>>
  BY DEF Poll, EndBatch, Confirm, PublishFails, Mark, RelayStart, Increment, broker
<1>2. CallsInv' /\ outbox' = outbox
  BY <1>1, ServiceRests
<1>3. BrokerSound'
  BY <1>1, <1>2, BrokerRests DEF RelayInv
<1>4. RelaySound /\ faults \in 0..MaxFaults
  BY DEF RelayInv, RelaySound
<1>5. RelaySound'
  <2>1. CASE Poll
    BY <1>2, <1>4, <2>1 DEF Poll, Pending, RelaySound, service
  <2>2. CASE EndBatch
    BY <1>2, <1>4, <2>2 DEF EndBatch, RelaySound
  <2>3. CASE Confirm
    BY <1>2, <1>4, <2>3 DEF Confirm, RelaySound
  <2>4. CASE PublishFails
    <3>1. faults' \in 0..MaxFaults
      BY <1>4, <2>4, Counted DEF PublishFails
    <3> QED
      BY <1>2, <1>4, <2>4, <3>1 DEF PublishFails, Unconfirmed, RelaySound
  <2>5. CASE Mark
    <3>1. faults' \in 0..MaxFaults
      BY <1>4, <2>5, Counted DEF Mark
    <3> QED
      BY <1>2, <1>4, <2>5, <3>1 DEF Mark, RelaySound
  <2>6. CASE RelayStart
    BY <1>2, <1>4, <2>6 DEF RelayStart, RelaySound
  <2>7. ASSUME NEW e \in batch, Increment(e)
        PROVE  RelaySound'
    <3>1. faults' \in 0..MaxFaults
      BY <1>4, <2>7, Counted DEF Increment
    <3> QED
      BY <1>2, <1>4, <2>7, <3>1 DEF Increment, RelaySound
  <2> QED
    BY <2>1, <2>2, <2>3, <2>4, <2>5, <2>6, <2>7
<1> QED
  BY <1>2, <1>3, <1>5 DEF RelayInv

LEMMA PublishKeeps ==
  ASSUME CallsInv, RelayInv, Publish
  PROVE  CallsInv' /\ RelayInv'
<1> USE DEF Publish, RelayInv
<1>1. CallsInv' /\ outbox' = outbox
  BY ServiceRests
<1>2. event \in outbox /\ Route(bound) \in {"queue", "lost"}
  BY DEF RelaySound, Route
<1>3. Sound(mail', outbox)
  BY <1>2, PublishedEffect DEF BrokerSound
<1> QED
  BY <1>1, <1>3 DEF RelaySound, BrokerSound

\* Steps of the antifraud service with one message.
LEMMA HandleKeeps ==
  ASSUME CallsInv, RelayInv, NEW m \in DOMAIN mail, Handle(m) \/ HandlerFails(m)
  PROVE  CallsInv' /\ RelayInv'
<1> USE DEF RelayInv
<1>1. UNCHANGED <<service, relayVars>>
  BY DEF Handle, Deliver, Project, Ack, HandlerFails
<1>2. CallsInv' /\ outbox' = outbox
  BY <1>1, ServiceRests
<1>3. faults \in 0..MaxFaults /\ m.event \in outbox
  BY DEF RelaySound, BrokerSound, Sound
<1>4. faults' \in 0..MaxFaults
  BY <1>3, Counted DEF Handle, Deliver, Project, Ack, HandlerFails
<1>5. PICK place \in {"insert", "ack", "acked", "dlq"} : mail' = Put(mail, m, place)
  BY DEF Handle, Deliver, Project, Ack, HandlerFails
<1>6. place \in Places
  BY DEF Places, Kept, Delivered
<1>7. Sound(mail', outbox)
  BY <1>5, <1>6, PutEffect DEF BrokerSound
<1>8. projected' \subseteq outbox
  BY <1>3 DEF Handle, Deliver, Project, Ack, HandlerFails, BrokerSound
<1> QED
  BY <1>1, <1>2, <1>4, <1>7, <1>8 DEF RelaySound, BrokerSound, relayVars

\* The accounts process ends: the calls it had open are cut off, and the database may
\* still execute what it was sent.
LEMMA AccountsCrashKeeps ==
  ASSUME CallsInv, RelayInv, AccountsCrash
  PROVE  CallsInv' /\ RelayInv' /\ TableGrows
<1> DEFINE cut == {call \in Calls : pc[call] \notin {"new", "done"}}
<1>1. /\ pc' = [call \in Calls |-> IF call \in cut THEN "done" ELSE pc[call]]
      /\ reply' = [call \in Calls |-> IF call \in cut THEN "lost" ELSE reply[call]]
      /\ relay' = "down" /\ LeftBehind
      /\ UNCHANGED <<target, sent, batch, event, broker>>
  BY DEF AccountsCrash
<1>2. faults' \in 0..MaxFaults
  BY Counted DEF AccountsCrash, RelayInv, RelaySound
<1>3. \A call \in Calls :
        \/ pc[call] \in {"new", "done"} /\ pc'[call] = pc[call] /\ reply'[call] = reply[call]
        \/ pc'[call] = "done" /\ reply'[call] = "lost"
  BY <1>1
<1>4. Deactivates \subseteq Calls /\ Creates \subseteq Calls
  BY DEF Calls
<1>5. PICK created \in SUBSET Creates : rows' = rows \cup created /\ outbox' = outbox \cup created
  BY <1>1 DEF LeftBehind
<1>6. TableGrows
  <2>1. \A d \in Deactivates : pc[d] = "update" => pc'[d] = "done"
    BY <1>3, <1>4
  <2>2. rows \subseteq rows' /\ rows' \subseteq Creates
    BY <1>5 DEF CallsInv, CallsTyped
  <2> QED
    BY <1>1, <2>1, <2>2 DEF LeftBehind, TableGrows
<1>7. CallsTyped'
  BY <1>1, <1>6 DEF CallsInv, CallsTyped, TableGrows, Replies
<1>8. \A d \in Deactivates : Moves(d)
  BY <1>1, <1>3, <1>4 DEF Moves
<1>9. Named' /\ Announced'
  BY <1>5, <1>6, <1>8, NamedKeeps DEF CallsInv, Announced
<1>10. RelaySound' /\ BrokerSound'
  <2>1. outbox \subseteq outbox'
    BY <1>5
  <2> QED
    BY <1>1, <1>2, <2>1 DEF RelayInv, RelaySound, BrokerSound, Sound, broker
<1> QED
  BY <1>6, <1>7, <1>9, <1>10 DEF CallsInv, RelayInv

\* A process starts, the consumer ends, or the broker restarts.
LEMMA ConsumerKeeps ==
  ASSUME CallsInv, RelayInv, ConsumerStart \/ ConsumerCrash \/ BrokerRestart
  PROVE  CallsInv' /\ RelayInv'
<1> USE DEF RelayInv
<1>1. /\ UNCHANGED service
      /\ projected' = projected /\ sent' = sent /\ batch' = batch /\ event' = event
      /\ relay' \in {relay, "down"}
  BY DEF ConsumerStart, ConsumerCrash, BrokerRestart, relayVars
<1>2. CallsInv' /\ outbox' = outbox
  BY <1>1, ServiceRests
<1>3. faults' \in 0..MaxFaults
  BY Counted DEF ConsumerStart, ConsumerCrash, BrokerRestart, RelaySound
<1>4. Sound(Requeued(mail), outbox)
  BY ResetEffect DEF BrokerSound
<1>5. Sound(mail', outbox)
  <2>1. CASE ConsumerStart
    BY <2>1 DEF ConsumerStart, BrokerSound
  <2>2. CASE mail' = Requeued(mail)
    BY <1>4, <2>2
  <2>3. CASE BrokerRestart /\ mail' # Requeued(mail)
    BY <1>4, <2>3, LostEffect DEF BrokerRestart, AfterRestart
  <2> QED
    BY <2>1, <2>2, <2>3 DEF ConsumerCrash
<1> QED
  BY <1>1, <1>2, <1>3, <1>5 DEF RelaySound, BrokerSound

LEMMA NextKeeps ==
  ASSUME CallsInv, RelayInv, [Next]_vars
  PROVE  CallsInv' /\ RelayInv' /\ TableGrows
<1>1. CASE \E c \in Creates : Create(c)
  BY <1>1, CreateSteps
<1>2. CASE \E d \in Deactivates : ReceiveDeactivate(d) \/ Deactivate(d) \/ ExplainDeactivate(d)
  BY <1>2, DeactivateSteps
<1>3. CASE \E call \in Calls : CallFails(call)
  BY <1>3, CallFailsKeeps
<1>4. CASE AccountsCrash
  BY <1>4, AccountsCrashKeeps
<1>5. ASSUME UNCHANGED service PROVE TableGrows
  BY <1>5, TableRests DEF CallsInv, service
<1>6. CASE \/ Poll \/ EndBatch \/ Confirm \/ PublishFails \/ Mark \/ RelayStart
           \/ \E e \in batch : Increment(e)
  <2>1. UNCHANGED service
    BY <1>6 DEF Poll, EndBatch, Confirm, PublishFails, Mark, RelayStart, Increment
  <2> QED
    BY <1>5, <1>6, <2>1, RelayStep
<1>7. CASE Publish
  BY <1>5, <1>7, PublishKeeps DEF Publish
<1>8. CASE \E m \in DOMAIN mail : Handle(m) \/ HandlerFails(m)
  <2>1. UNCHANGED service
    BY <1>8 DEF Handle, Deliver, Project, Ack, HandlerFails
  <2> QED
    BY <1>5, <1>8, <2>1, HandleKeeps
<1>9. CASE ConsumerStart \/ ConsumerCrash \/ BrokerRestart
  <2>1. UNCHANGED service
    BY <1>9 DEF ConsumerStart, ConsumerCrash, BrokerRestart
  <2> QED
    BY <1>5, <1>9, <2>1, ConsumerKeeps
<1>10. CASE UNCHANGED vars
  <2>1. CallsInv' /\ outbox' = outbox
    BY <1>10, ServiceRests DEF vars
  <2> QED
    BY <1>5, <1>10, <2>1, OutboxGrows DEF vars, RelayInv, RelaySound
<1> QED
  BY <1>1, <1>2, <1>3, <1>4, <1>6, <1>7, <1>8, <1>9, <1>10 DEF Next, Relay, EmptyPoll

LEMMA InitInv ==
  ASSUME Init PROVE CallsInv /\ RelayInv
<1> USE DEF Init
<1>1. /\ \A call \in Calls : pc[call] = "new" /\ reply[call] = "none"
      /\ rows = {} /\ \A id \in Creates : deactivated_at[id] = Never
      /\ Creates \subseteq Calls /\ Deactivates \subseteq Calls
  BY DEF Calls
<1>2. CallsTyped
  BY DEF CallsTyped, Replies
<1>3. Named /\ Announced
  BY <1>1, CallsAssumption DEF Named, Announced
<1>4. faults \in 0..MaxFaults
  BY FaultsAssumption
<1>5. RelaySound
  BY <1>4 DEF RelaySound
<1>6. BrokerSound
  BY EmptySound DEF BrokerSound
<1> QED
  BY <1>2, <1>3, <1>5, <1>6 DEF CallsInv, RelayInv

LEMMA InvHolds == Spec => [](CallsInv /\ RelayInv)
<1>1. Init => CallsInv /\ RelayInv
  BY InitInv
<1>2. CallsInv /\ RelayInv /\ [Next]_vars => (CallsInv /\ RelayInv)'
  BY NextKeeps
<1> QED
  BY <1>1, <1>2, PTL DEF Spec

-----------------------------------------------------------------------------
\* The variables have their types, and the relay publishes only events that are not
\* ticked off yet.
THEOREM TypeCorrect == Spec => []AccountTypeOK
<1>1. ASSUME CallsInv, RelayInv PROVE AccountTypeOK
  <2>1. outbox \subseteq Creates
    BY <1>1 DEF CallsInv, CallsTyped, Announced
  <2>2. \A m \in DOMAIN mail : m.event \in Creates /\ m.copy \in Nat \ {0} /\ mail[m] \in Places
    BY <1>1, <2>1 DEF RelayInv, BrokerSound, Sound
  <2> QED
    BY <1>1, <2>1, <2>2 DEF CallsInv, CallsTyped, RelayInv, RelaySound, BrokerSound, Replies, AccountTypeOK
<1> QED
  BY <1>1, InvHolds, PTL

\* Exactly the committed accounts are announced, however a creation fails or is cut
\* off, and only those come to be projected.
THEOREM CreationsAnnounced == Spec => []CreatedIsAnnounced
<1>1. CallsInv /\ RelayInv => CreatedIsAnnounced
  BY DEF CallsInv, Announced, RelayInv, BrokerSound, Sound, CreatedIsAnnounced
<1> QED
  BY <1>1, InvHolds, PTL

\* Whoever is told that it deactivated an account set its deactivated_at, which no later
\* call replaces; and who is told that it was deactivated already is told the truth.
THEOREM DeactivatesOnce == Spec => []DeactivatedOnce
<1>1. CallsInv => DeactivatedOnce
  BY DEF CallsInv, Named, DeactivatedOnce
<1> QED
  BY <1>1, InvHolds, PTL

\* Both use cases, statement by statement, with failures, lost answers and crashes of
\* the process, implement AccountLife: a committed row stays, and one call only sets its
\* deactivated_at.
THEOREM ImplementsLife == Spec => Lives
<1>1. ASSUME Init PROVE Life!Init
  BY <1>1 DEF Init, Life!Init
<1>2. ASSUME TableGrows PROVE Life!Next
  BY <1>2 DEF TableGrows, Deactivatable, Life!Next, Life!Create, Life!Deactivate
<1>3. CallsInv /\ RelayInv /\ [Next]_vars => [Life!Next]_(Life!vars)
  BY <1>2, NextKeeps
<1> QED
  BY <1>1, <1>3, InvHolds, PTL DEF Spec, Lives, Life!Spec

-----------------------------------------------------------------------------
\* What becomes of an announcement, once the queue is there: it is safe from the moment
\* it is published, but for the one the relay still waits to have confirmed.
Safe(e) == Held(mail, e) \/ e \in projected

Waiting == {"confirm", "mark"}

DeliveryInv ==
  /\ bound
  /\ \A m \in DOMAIN mail : mail[m] \in {"ack", "acked"} => m.event \in projected
  /\ \A e \in sent : Safe(e)
  /\ relay \in Waiting => Safe(event)

LEMMA DeliveryRests ==
  ASSUME DeliveryInv, UNCHANGED <<mail, projected, bound>>,
         \A e \in sent' : e \in sent \/ Safe(e),
         relay' \in Waiting => relay \in Waiting /\ event' = event
  PROVE  DeliveryInv'
BY DEF DeliveryInv, Safe

LEMMA RelayDelivers ==
  ASSUME DeliveryInv,
         \/ Poll \/ EndBatch \/ Confirm \/ PublishFails \/ Mark \/ RelayStart
         \/ \E e \in batch : Increment(e)
  PROVE  DeliveryInv'
<1>1. UNCHANGED <<mail, projected, bound>>
  BY DEF Poll, EndBatch, Confirm, PublishFails, Mark, RelayStart, Increment, broker
<1>2. \A e \in sent' : e \in sent \/ Safe(e)
  <2>1. CASE Mark
    BY <2>1 DEF Mark, DeliveryInv, Waiting
  <2>2. CASE ~ Mark
    BY <2>2 DEF Poll, EndBatch, Confirm, PublishFails, RelayStart, Increment
  <2> QED
    BY <2>1, <2>2
<1>3. relay' \in Waiting => relay \in Waiting /\ event' = event
  BY DEF Poll, EndBatch, Confirm, PublishFails, Unconfirmed, Mark, RelayStart, Increment, Waiting
<1> QED
  BY <1>1, <1>2, <1>3, DeliveryRests

LEMMA PublishDelivers ==
  ASSUME RelayInv, DeliveryInv, Publish
  PROVE  DeliveryInv'
<1>1. /\ mail' = Published(mail, event, "queue") /\ event \in outbox
      /\ UNCHANGED <<sent, event, bound, projected>>
  BY DEF Publish, DeliveryInv, Route, RelayInv, RelaySound
<1>2. \A m \in DOMAIN mail' :
        \/ m \in DOMAIN mail /\ mail'[m] = mail[m]
        \/ mail'[m] = "queue"
  BY <1>1, PublishedEffect DEF RelayInv, BrokerSound
<1>3. Held(mail', event) /\ \A f : Held(mail, f) => Held(mail', f)
  BY <1>1, PublishedHeld
<1> QED
  BY <1>1, <1>2, <1>3 DEF DeliveryInv, Safe

LEMMA HandleDelivers ==
  ASSUME RelayInv, DeliveryInv, NEW m \in DOMAIN mail, Handle(m) \/ HandlerFails(m)
  PROVE  DeliveryInv'
<1>1. /\ UNCHANGED <<sent, relay, event, bound>> /\ projected \subseteq projected'
  BY DEF Handle, Deliver, Project, Ack, HandlerFails, relayVars
<1>2. PICK place \in {"insert", "ack", "acked", "dlq"} :
        /\ mail' = Put(mail, m, place)
        /\ place \in {"ack", "acked"} => m.event \in projected'
  <2>1. CASE Deliver(m)
    BY <2>1 DEF Deliver
  <2>2. CASE Project(m)
    BY <2>2 DEF Project
  <2>3. CASE Ack(m)
    BY <2>3 DEF Ack, DeliveryInv
  <2>4. CASE HandlerFails(m)
    BY <2>4 DEF HandlerFails
  <2> QED
    BY <2>1, <2>2, <2>3, <2>4 DEF Handle
<1>3. place \in Places /\ (place # "acked" => place \in Kept)
  BY DEF Places, Kept, Delivered
<1>4. /\ DOMAIN mail' = DOMAIN mail /\ mail'[m] = place
      /\ \A n \in DOMAIN mail \ {m} : mail'[n] = mail[n]
  BY <1>2, <1>3, PutEffect DEF RelayInv, BrokerSound
<1>5. \A n \in DOMAIN mail' : mail'[n] \in {"ack", "acked"} => n.event \in projected'
  BY <1>1, <1>2, <1>4 DEF DeliveryInv
<1>6. \A f : Held(mail, f) => Held(mail', f) \/ f \in projected'
  <2>1. CASE place = "acked"
    BY <1>2, <1>3, <2>1, PutHeld DEF RelayInv, BrokerSound
  <2>2. CASE place # "acked"
    BY <1>2, <1>3, <2>2, PutHeld DEF RelayInv, BrokerSound
  <2> QED
    BY <2>1, <2>2
<1> QED
  BY <1>1, <1>5, <1>6 DEF DeliveryInv, Safe

\* The one announcement a restart of the broker may lose is not ticked off.
LEMMA RestartDelivers ==
  ASSUME RelayInv, DeliveryInv, AccountsCrash \/ ConsumerStart \/ ConsumerCrash \/ BrokerRestart
  PROVE  DeliveryInv'
<1>1. UNCHANGED <<sent, projected>> /\ bound'
  BY DEF AccountsCrash, ConsumerStart, ConsumerCrash, BrokerRestart, relayVars, broker, DeliveryInv
<1>2. relay' \in Waiting => relay' = relay /\ event' = event /\ ~ BrokerRestart
  BY DEF AccountsCrash, ConsumerStart, ConsumerCrash, BrokerRestart, relayVars, Waiting
<1>3. Sound(mail, outbox)
  BY DEF RelayInv, BrokerSound
<1> DEFINE back == Requeued(mail)
<1>4. /\ Sound(back, outbox) /\ DOMAIN back = DOMAIN mail
      /\ \A n \in DOMAIN back : back[n] = mail[n] \/ back[n] \in {"queue", "lost"}
      /\ \A f : Held(mail, f) => Held(back, f)
  BY <1>3, ResetEffect, RequeuedHeld
<1> HIDE DEF back
<1>5. CASE UNCHANGED mail
  BY <1>1, <1>2, <1>5 DEF DeliveryInv, Safe
<1>6. CASE mail' = back
  BY <1>1, <1>2, <1>4, <1>6 DEF DeliveryInv, Safe
<1>7. CASE BrokerRestart /\ mail' # back
  <2>1. relay = "confirm" /\ mail' = Put(back, Message(event, Copies(mail, event)), "lost")
    BY <1>7 DEF BrokerRestart, AfterRestart, back
  <2>2. /\ DOMAIN mail' = DOMAIN back
        /\ \A n \in DOMAIN back : mail'[n] = back[n] \/ mail'[n] = "lost"
    BY <1>4, <2>1, LostEffect
  <2>3. \A f : Held(back, f) /\ f # event => Held(mail', f)
    BY <1>4, <2>1, LostHeld
  <2>4. event \notin sent
    BY <2>1 DEF RelayInv, RelaySound
  <2> QED
    BY <1>1, <1>2, <1>4, <1>7, <2>2, <2>3, <2>4 DEF DeliveryInv, Safe
<1>8. \/ UNCHANGED mail
      \/ mail' = back
      \/ BrokerRestart /\ mail' # back
  BY DEF AccountsCrash, ConsumerStart, ConsumerCrash, BrokerRestart, AfterRestart, broker, back
<1> QED
  BY <1>5, <1>6, <1>7, <1>8

LEMMA NextDelivers ==
  ASSUME CallsInv, RelayInv, DeliveryInv, [Next]_vars
  PROVE  DeliveryInv'
<1>1. ASSUME UNCHANGED <<relayVars, broker>> PROVE DeliveryInv'
  BY <1>1, DeliveryRests DEF relayVars, broker
<1>2. CASE \E c \in Creates : Create(c)
  BY <1>1, <1>2 DEF Create, BeginCreate, InsertAccount, InsertOutbox, CommitCreate
<1>3. CASE \E d \in Deactivates : ReceiveDeactivate(d) \/ Deactivate(d) \/ ExplainDeactivate(d)
  BY <1>1, <1>3 DEF ReceiveDeactivate, Deactivate, ExplainDeactivate
<1>4. CASE \E call \in Calls : CallFails(call)
  BY <1>1, <1>4 DEF CallFails
<1>5. CASE UNCHANGED vars
  BY <1>1, <1>5 DEF vars
<1>6. CASE \/ Poll \/ EndBatch \/ Confirm \/ PublishFails \/ Mark \/ RelayStart
           \/ \E e \in batch : Increment(e)
  BY <1>6, RelayDelivers
<1>7. CASE \E m \in DOMAIN mail : Handle(m) \/ HandlerFails(m)
  BY <1>7, HandleDelivers
<1> QED
  BY <1>2, <1>3, <1>4, <1>5, <1>6, <1>7, PublishDelivers, RestartDelivers DEF Next, Relay, EmptyPoll

\* Once the antifraud service has declared its queue, no announcement that is ticked
\* off is lost, through any number of crashes, restarts and failures: it is with the
\* broker, in the dead letter queue, or projected.
THEOREM AnnouncementsKept ==
  ASSUME InitiallyBound
  PROVE  Spec => []AnnouncedIsKept
<1>1. Init => DeliveryInv
  <2> SUFFICES ASSUME Init PROVE DeliveryInv
    OBVIOUS
  <2>1. bound /\ mail = NoMail /\ sent = {} /\ relay = "poll"
    BY DEF Init
  <2> QED
    BY <2>1, EmptySound DEF DeliveryInv, Waiting
<1>2. CallsInv /\ RelayInv /\ DeliveryInv /\ [Next]_vars => DeliveryInv'
  BY NextDelivers
<1>3. DeliveryInv => AnnouncedIsKept
  BY DEF DeliveryInv, Safe, AnnouncedIsKept
<1> QED
  BY <1>1, <1>2, <1>3, InvHolds, PTL DEF Spec
=============================================================================
