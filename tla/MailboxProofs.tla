---------------------------- MODULE MailboxProofs ----------------------------
(***************************************************************************)
(* What the operators of Mailbox keep, for the proofs about both feeds.    *)
(***************************************************************************)
EXTENDS Mailbox, FiniteSetTheorems, TLAPS

\* Finitely many messages, each somewhere, that carry events of E.
Sound(mail, E) ==
  /\ IsFiniteSet(DOMAIN mail)
  /\ mail \in [DOMAIN mail -> Places]
  /\ \A m \in DOMAIN mail : m.event \in E /\ m.copy \in Nat \ {0}

LEMMA EmptySound ==
  ASSUME NEW E
  PROVE  DOMAIN NoMail = {} /\ Sound(NoMail, E)
<1>1. DOMAIN NoMail = {}
  BY DEF NoMail
<1>2. NoMail \in [DOMAIN NoMail -> Places]
  BY <1>1 DEF NoMail
<1> QED
  BY <1>1, <1>2, FS_EmptySet DEF Sound

\* A message that moves on leaves the others where they are.
LEMMA PutEffect ==
  ASSUME NEW mail, NEW E, Sound(mail, E), NEW m \in DOMAIN mail, NEW place \in Places,
         NEW next, next = Put(mail, m, place)
  PROVE  /\ Sound(next, E)
         /\ DOMAIN next = DOMAIN mail
         /\ next[m] = place
         /\ \A n \in DOMAIN mail \ {m} : next[n] = mail[n]
<1>1. next = [mail EXCEPT ![m] = place]
  BY DEF Put
<1>2. /\ DOMAIN next = DOMAIN mail
      /\ next[m] = place
      /\ \A n \in DOMAIN mail \ {m} : next[n] = mail[n]
  BY <1>1 DEF Sound
<1>3. next \in [DOMAIN next -> Places]
  BY <1>1 DEF Sound
<1> QED
  BY <1>2, <1>3 DEF Sound

\* A message that is lost on the way, if there is one, takes no other with it.
LEMMA LostEffect ==
  ASSUME NEW mail, NEW E, Sound(mail, E), NEW m, NEW next, next = Put(mail, m, "lost")
  PROVE  /\ Sound(next, E)
         /\ DOMAIN next = DOMAIN mail
         /\ \A n \in DOMAIN mail : next[n] = mail[n] \/ next[n] = "lost"
<1>1. next = [mail EXCEPT ![m] = "lost"]
  BY DEF Put
<1>2. /\ DOMAIN next = DOMAIN mail
      /\ \A n \in DOMAIN mail : next[n] = mail[n] \/ next[n] = "lost"
  BY <1>1 DEF Sound
<1>3. next \in [DOMAIN next -> Places]
  BY <1>1 DEF Sound, Places
<1> QED
  BY <1>2, <1>3 DEF Sound

\* A publication adds a message that no handler has.
LEMMA PublishedEffect ==
  ASSUME NEW mail, NEW E, Sound(mail, E), NEW e \in E, NEW place \in {"queue", "lost"},
         NEW next, next = Published(mail, e, place)
  PROVE  /\ Sound(next, E)
         /\ \A n \in DOMAIN next :
              \/ n \in DOMAIN mail /\ next[n] = mail[n]
              \/ next[n] = place
<1> DEFINE same == {m \in DOMAIN mail : m.event = e}
           copy == Cardinality(same) + 1
           new == Message(e, copy)
<1>1. next = [m \in DOMAIN mail \cup {new} |-> IF m = new THEN place ELSE mail[m]]
  BY DEF Published, Copies
<1>2. copy \in Nat \ {0}
  <2>1. IsFiniteSet(same)
    BY FS_Subset DEF Sound
  <2>2. Cardinality(same) \in Nat
    BY <2>1, FS_CardinalityType
  <2> QED
    BY <2>2
<1> HIDE DEF copy
<1>3. new.event = e /\ new.copy = copy
  BY DEF Message
<1> HIDE DEF new
<1>4. IsFiniteSet(DOMAIN mail \cup {new})
  BY FS_AddElement DEF Sound
<1>5. DOMAIN next = DOMAIN mail \cup {new}
  BY <1>1
<1>6. \A n \in DOMAIN next :
        \/ n \in DOMAIN mail /\ next[n] = mail[n]
        \/ next[n] = place
  BY <1>1
<1>7. place \in Places
  BY DEF Places, Kept
<1>8. next \in [DOMAIN next -> Places]
  BY <1>1, <1>7 DEF Sound
<1>9. \A n \in DOMAIN next : n.event \in E /\ n.copy \in Nat \ {0}
  BY <1>2, <1>3, <1>5 DEF Sound
<1> QED
  BY <1>4, <1>5, <1>6, <1>8, <1>9 DEF Sound

\* When a process ends, messages go back or are gone, and none goes forward.
LEMMA ResetEffect ==
  ASSUME NEW mail, NEW E, Sound(mail, E), NEW next, next \in {Requeued(mail), Forgotten(mail)}
  PROVE  /\ Sound(next, E)
         /\ DOMAIN next = DOMAIN mail
         /\ \A n \in DOMAIN next : next[n] = mail[n] \/ next[n] \in {"queue", "lost"}
<1>1. DOMAIN next = DOMAIN mail
  BY DEF Requeued, Forgotten
<1>2. \A n \in DOMAIN next : next[n] = mail[n] \/ next[n] \in {"queue", "lost"}
  BY DEF Requeued, Forgotten
<1>3. {"queue", "lost"} \subseteq Places
  BY DEF Places, Kept
<1>4. next \in [DOMAIN next -> Places]
  <2>1. next = [n \in DOMAIN next |-> next[n]]
    BY DEF Requeued, Forgotten
  <2>2. \A n \in DOMAIN next : next[n] \in Places
    BY <1>1, <1>2, <1>3 DEF Sound
  <2> QED
    BY <2>1, <2>2
<1> QED
  BY <1>1, <1>2, <1>4 DEF Sound

-----------------------------------------------------------------------------
\* An event that the broker holds is held for as long as nothing loses or settles its
\* message: it is now held by the publication itself ...
LEMMA PublishedHeld ==
  ASSUME NEW mail, NEW e, NEW next, next = Published(mail, e, "queue")
  PROVE  /\ Held(next, e)
         /\ \A f : Held(mail, f) => Held(next, f)
<1> DEFINE new == Message(e, Copies(mail, e) + 1)
<1>1. next = [m \in DOMAIN mail \cup {new} |-> IF m = new THEN "queue" ELSE mail[m]]
  BY DEF Published
<1>2. new.event = e
  BY DEF Message
<1> HIDE DEF new
<1>3. "queue" \in Kept
  BY DEF Kept
<1>4. new \in DOMAIN next /\ next[new] = "queue" /\ \A m \in DOMAIN mail \ {new} : m \in DOMAIN next /\ next[m] = mail[m]
  BY <1>1
<1> QED
  BY <1>2, <1>3, <1>4 DEF Held

\* ... through every step of a handler, but for the event that is acknowledged ...
LEMMA PutHeld ==
  ASSUME NEW mail, NEW E, Sound(mail, E), NEW m \in DOMAIN mail, NEW place \in Places,
         NEW next, next = Put(mail, m, place)
  PROVE  /\ \A f : Held(mail, f) => Held(next, f) \/ f = m.event
         /\ place \in Kept => \A f : Held(mail, f) => Held(next, f)
<1>1. /\ DOMAIN next = DOMAIN mail /\ next[m] = place
      /\ \A n \in DOMAIN mail \ {m} : next[n] = mail[n]
  BY PutEffect
<1> QED
  BY <1>1 DEF Held

\* ... when a process ends ...
LEMMA RequeuedHeld ==
  ASSUME NEW mail
  PROVE  \A f : Held(mail, f) => Held(Requeued(mail), f)
<1>1. DOMAIN Requeued(mail) = DOMAIN mail
  BY DEF Requeued
<1>2. \A m \in DOMAIN mail : mail[m] \in Kept => Requeued(mail)[m] \in Kept
  BY DEF Requeued, Kept
<1> QED
  BY <1>1, <1>2 DEF Held

\* ... and when a message of another event is lost.
LEMMA LostHeld ==
  ASSUME NEW mail, NEW E, Sound(mail, E), NEW e, NEW copy, NEW next,
         next = Put(mail, Message(e, copy), "lost")
  PROVE  \A f : Held(mail, f) /\ f # e => Held(next, f)
<1> DEFINE gone == Message(e, copy)
<1>1. gone.event = e
  BY DEF Message
<1>2. next = [mail EXCEPT ![gone] = "lost"]
  BY DEF Put
<1> HIDE DEF gone
<1>3. DOMAIN next = DOMAIN mail /\ \A n \in DOMAIN mail \ {gone} : next[n] = mail[n]
  BY <1>2 DEF Sound
<1> QED
  BY <1>1, <1>3 DEF Held
=============================================================================
