--------------------------- MODULE TransferProofs ---------------------------
(***************************************************************************)
(* Proofs about Transfer, for every set of calls, accounts and bodies and  *)
(* every pool size.                                                        *)
(***************************************************************************)
EXTENDS Transfer, SumLemmas, TLAPS

\* The types the steps of the proof need; TypeOK itself follows at the end.
Types ==
  /\ accounts \in [Accounts -> Row]
  /\ locks \in [Accounts -> Requests \cup {None}]
  /\ dto \in [Requests -> Dtos]
  /\ pc \in [Requests -> PCs]
  /\ read \in [Requests -> Int]
  /\ work \in [Requests -> [uSender : Row, uReceiver : Row]]
  /\ reply \in [Requests -> Outcomes]

\* The fields of a body, from the assumption on Dtos.
LEMMA DtoFields ==
  ASSUME Types, NEW r \in Requests
  PROVE  /\ dto[r].key \in Keys
         /\ dto[r].sender \in Ids
         /\ dto[r].receiver \in Ids
         /\ dto[r].amount \in Int
BY DtosAssumption DEF Types

\* A relative update of an existing row gives a function of rows again.
LEMMA MovedType ==
  ASSUME NEW rows \in [Accounts -> Row], NEW id \in Accounts, NEW delta \in Int
  PROVE  /\ Moved(rows, id, delta) \in [Accounts -> Row]
         /\ Moved(rows, id, delta)[id].balance = rows[id].balance + delta
         /\ Moved(rows, id, delta)[id].version = rows[id].version + 1
         /\ \A x \in Accounts : x # id => Moved(rows, id, delta)[x] = rows[x]
BY DEF Moved, Row

\* The rows a movement between existing accounts leaves.
LEMMA MovementRows ==
  ASSUME NEW rows \in [Accounts -> Row], accounts = rows,
         NEW d, d.sender \in Accounts, d.receiver \in Accounts, d.amount \in Int
  PROVE  /\ Debited(d) \in [Accounts -> Row]
         /\ Credited(d) \in [Accounts -> Row]
         /\ Debited(d)[d.sender].balance = accounts[d.sender].balance - d.amount
         /\ Debited(d)[d.sender].version = accounts[d.sender].version + 1
         /\ d.receiver # d.sender =>
              /\ Credited(d)[d.sender] = Debited(d)[d.sender]
              /\ Credited(d)[d.receiver].balance = accounts[d.receiver].balance + d.amount
              /\ Credited(d)[d.receiver].version = accounts[d.receiver].version + 1
         /\ d.receiver = d.sender =>
              /\ Credited(d)[d.receiver].balance = accounts[d.receiver].balance
              /\ Credited(d)[d.receiver].version = accounts[d.receiver].version + 2
         /\ \A x \in Accounts \ {d.sender, d.receiver} : Credited(d)[x] = accounts[x]
<1> -d.amount \in Int
  OBVIOUS
<1>1. /\ Debited(d) \in [Accounts -> Row]
      /\ Debited(d)[d.sender].balance = accounts[d.sender].balance - d.amount
      /\ Debited(d)[d.sender].version = accounts[d.sender].version + 1
      /\ \A x \in Accounts : x # d.sender => Debited(d)[x] = accounts[x]
  <2>1. Debited(d) = Moved(accounts, d.sender, -d.amount)
    BY DEF Debited
  <2>2. accounts[d.sender].balance \in Int
    BY DEF Row
  <2> QED
    BY <2>1, <2>2, MovedType
<1>2. /\ Credited(d) \in [Accounts -> Row]
      /\ Credited(d)[d.receiver].balance = Debited(d)[d.receiver].balance + d.amount
      /\ Credited(d)[d.receiver].version = Debited(d)[d.receiver].version + 1
      /\ \A x \in Accounts : x # d.receiver => Credited(d)[x] = Debited(d)[x]
  BY <1>1, MovedType DEF Credited
<1>3. accounts[d.receiver].balance \in Int /\ accounts[d.receiver].version \in Nat
  BY DEF Row
<1> QED
  BY <1>1, <1>2, <1>3

-----------------------------------------------------------------------------
\* A step of one call leaves the others' locals, answers and row locks alone.
Local(r) ==
  /\ dto' = dto
  /\ \A q \in Requests \ {r} :
       /\ pc'[q] = pc[q]
       /\ read'[q] = read[q]
       /\ work'[q] = work[q]
       /\ reply'[q] = reply[q]
       /\ \A id \in Accounts : locks[id] = q => locks'[id] = q

\* What a goroutine does to its own locals, it does to nobody else's.
LEMMA StepIsLocal ==
  ASSUME Types, NEW r \in Requests, Step(r) \/ DbError(r)
  PROVE  Local(r)
<1> USE NoneAssumption DEF Types, Local, Goto
<1>1. ASSUME NEW outcome, Respond(r, outcome), dto' = dto
      PROVE  Local(r)
  BY <1>1 DEF Respond, Released
<1>2. CASE Receive(r)
  BY <1>1, <1>2 DEF Receive
<1>3. CASE FindSender(r)
  BY <1>1, <1>3 DEF FindSender
<1>4. CASE FindReceiver(r)
  BY <1>1, <1>4 DEF FindReceiver
<1>5. CASE BeginTx(r)
  BY <1>5 DEF BeginTx
<1>6. CASE LockSender(r)
  BY <1>6 DEF LockSender, RowFree
<1>7. CASE LockReceiver(r)
  BY <1>1, <1>7 DEF LockReceiver, RowFree
<1>8. CASE InsertJournal(r)
  BY <1>1, <1>8 DEF InsertJournal
<1>9. CASE Post(r)
  BY <1>1, <1>9 DEF Post
<1>10. CASE Commit(r)
  BY <1>1, <1>10 DEF Commit
<1>11. CASE DeadlockAbort(r)
  BY <1>1, <1>11 DEF DeadlockAbort
<1>12. CASE DbError(r)
  BY <1>1, <1>12 DEF DbError
<1> QED
  BY <1>2, <1>3, <1>4, <1>5, <1>6, <1>7, <1>8, <1>9, <1>10, <1>11, <1>12 DEF Step

\* Only a commit writes the tables.
LEMMA TablesMoveOnCommit ==
  ASSUME NEW r \in Requests, Step(r) \/ DbError(r), ~ Commit(r)
  PROVE  UNCHANGED tables
BY DEF Step, DbError, Receive, FindSender, FindReceiver, BeginTx, LockSender,
       LockReceiver, InsertJournal, Post, DeadlockAbort, tables

\* Where a step can take the call that makes it, and what it found on the way.
Onward(r) ==
  LET d == dto[r]
  IN /\ UNCHANGED tables
     /\ reply'[r] = reply[r]
     /\ \/ pc[r] = "new" /\ pc'[r] = "findSender" /\ locks' = locks
        \/ /\ pc[r] = "findSender" /\ pc'[r] = "findReceiver" /\ locks' = locks
           /\ d.sender \in Accounts
        \/ /\ pc[r] = "findReceiver" /\ pc'[r] = "begin" /\ locks' = locks
           /\ d.receiver \in Accounts
        \/ pc[r] = "begin" /\ pc'[r] = "lockSender" /\ locks' = locks
        \/ /\ pc[r] = "lockSender" /\ pc'[r] = "lockReceiver"
           /\ locks' = [locks EXCEPT ![d.sender] = r]
           /\ read'[r] = accounts[d.sender].balance
        \/ /\ pc[r] = "lockReceiver" /\ pc'[r] = "insertJournal"
           /\ locks' = [locks EXCEPT ![d.receiver] = r]
           /\ CoversLocked(r)
        \/ /\ pc[r] = "insertJournal" /\ pc'[r] = "post" /\ locks' = locks
           /\ Positive(d.amount)
           /\ ~ KeyUsed(d.key)
           /\ \A q \in Requests : ~ HoldsKey(q, d.key)
        \/ /\ pc[r] = "post" /\ pc'[r] = "commit" /\ locks' = locks
           /\ work'[r] = [uSender |-> Debited(d)[d.sender],
                          uReceiver |-> Credited(d)[d.receiver]]
           /\ Fits(Credited(d)[d.receiver].balance)

\* A step of a call ends it, releasing its rows, or takes it one statement on.
LEMMA Progress ==
  ASSUME Types, NEW r \in Requests, Step(r) \/ DbError(r)
  PROVE  (pc'[r] = "done" /\ locks' = Released({r})) \/ Onward(r)
<1> USE DEF Types, Goto, Respond, Onward, tables
<1>1. CASE Receive(r)
  BY <1>1 DEF Receive
<1>2. CASE FindSender(r)
  BY <1>2 DEF FindSender
<1>3. CASE FindReceiver(r)
  BY <1>3 DEF FindReceiver
<1>4. CASE BeginTx(r)
  BY <1>4 DEF BeginTx
<1>5. CASE LockSender(r)
  BY <1>5 DEF LockSender
<1>6. CASE LockReceiver(r)
  BY <1>6 DEF LockReceiver
<1>7. CASE InsertJournal(r)
  BY <1>7 DEF InsertJournal
<1>8. CASE Post(r)
  BY <1>8 DEF Post
<1>9. CASE Commit(r) \/ DeadlockAbort(r) \/ DbError(r)
  BY <1>9 DEF Commit, DeadlockAbort, DbError
<1> QED
  BY <1>1, <1>2, <1>3, <1>4, <1>5, <1>6, <1>7, <1>8, <1>9 DEF Step

\* The row another call holds is not written.
LEMMA HeldRowsKept ==
  ASSUME Types, RowsExist, LocksHeld, NEW r \in Requests, Step(r) \/ DbError(r),
         NEW id \in Accounts, locks[id] # None, locks[id] # r
  PROVE  accounts'[id] = accounts[id]
<1>1. CASE Commit(r)
  <2>1. pc[r] = "commit"
    BY <1>1 DEF Commit
  <2>2. /\ dto[r].sender \in Accounts /\ locks[dto[r].sender] = r
        /\ dto[r].receiver \in Accounts /\ locks[dto[r].receiver] = r
    BY <2>1 DEF RowsExist, LocksHeld, TxPCs, BothLocked
  <2>3. id # dto[r].sender /\ id # dto[r].receiver
    BY <2>2
  <2> QED
    BY <1>1, <2>2, <2>3 DEF Commit, Types
<1>2. CASE ~ Commit(r)
  BY <1>2, TablesMoveOnCommit DEF tables
<1> QED
  BY <1>1, <1>2

\* The types survive every step.
LEMMA TypesStep ==
  ASSUME Types, RowsExist, NEW r \in Requests, Step(r) \/ DbError(r)
  PROVE  Types'
<1> USE NoneAssumption DEF Types, Goto
<1>0. NoWork \in [uSender : Row, uReceiver : Row]
  BY DEF NoWork, Row
<1>1. ASSUME NEW outcome \in Outcomes, Respond(r, outcome)
      PROVE  /\ locks' \in [Accounts -> Requests \cup {None}]
             /\ pc' \in [Requests -> PCs]
             /\ read' \in [Requests -> Int]
             /\ work' \in [Requests -> [uSender : Row, uReceiver : Row]]
             /\ reply' \in [Requests -> Outcomes]
  BY <1>0, <1>1 DEF Respond, Released, PCs
<1>2. CASE Receive(r)
  BY <1>1, <1>2 DEF Receive, Outcomes, Refusals, PCs, PoolPCs, tables
<1>3. CASE FindSender(r)
  <2>1. CASE Respond(r, "sender_not_found")
    BY <1>1, <1>3, <2>1 DEF FindSender, Outcomes, Refusals, tables
  <2>2. CASE ~ Respond(r, "sender_not_found")
    <3>1. accounts[dto[r].sender].balance \in Int
      BY <1>3, <2>2 DEF FindSender, Row
    <3> QED
      BY <1>3, <2>2, <3>1 DEF FindSender, PCs, PoolPCs, tables
  <2> QED
    BY <2>1, <2>2
<1>4. CASE FindReceiver(r)
  BY <1>1, <1>4 DEF FindReceiver, Outcomes, Refusals, PCs, PoolPCs, tables
<1>5. CASE BeginTx(r)
  BY <1>5 DEF BeginTx, PCs, TxPCs, tables
<1>6. CASE LockSender(r)
  <2>1. accounts[dto[r].sender].balance \in Int
    BY <1>6 DEF LockSender, Row, RowsExist, TxPCs
  <2> QED
    BY <1>6, <2>1 DEF LockSender, PCs, TxPCs, tables
<1>7. CASE LockReceiver(r)
  <2>1. CASE Respond(r, "insufficient")
    BY <1>1, <1>7, <2>1 DEF LockReceiver, Outcomes, Refusals, tables
  <2>2. CASE ~ Respond(r, "insufficient")
    BY <1>7, <2>2 DEF LockReceiver, PCs, TxPCs, tables
  <2> QED
    BY <2>1, <2>2
<1>8. CASE InsertJournal(r)
  BY <1>1, <1>8 DEF InsertJournal, Outcomes, Refusals, ConflictOutcome, PCs, TxPCs, tables
<1>9. CASE Post(r)
  <2>1. dto[r].sender \in Accounts /\ dto[r].receiver \in Accounts /\ dto[r].amount \in Int
    BY <1>9, DtoFields DEF Post, RowsExist, TxPCs
  <2>2. Debited(dto[r]) \in [Accounts -> Row] /\ Credited(dto[r]) \in [Accounts -> Row]
    BY <2>1, MovementRows
  <2> QED
    BY <1>1, <1>9, <2>1, <2>2 DEF Post, Outcomes, Refusals, PCs, TxPCs, tables
<1>10. CASE Commit(r)
  <2>1. dto[r].sender \in Accounts /\ dto[r].receiver \in Accounts
    BY <1>10 DEF Commit, RowsExist, TxPCs
  <2>2. accounts' \in [Accounts -> Row]
    BY <1>10, <2>1 DEF Commit
  <2> QED
    BY <1>1, <1>10, <2>2 DEF Commit, Outcomes
<1>11. CASE DeadlockAbort(r)
  BY <1>1, <1>11 DEF DeadlockAbort, Outcomes, Refusals, tables
<1>12. CASE DbError(r)
  BY <1>1, <1>12 DEF DbError, Outcomes, tables
<1> QED
  BY <1>2, <1>3, <1>4, <1>5, <1>6, <1>7, <1>8, <1>9, <1>10, <1>11, <1>12 DEF Step

-----------------------------------------------------------------------------
\* The parts of HeldUntilCommit, one lemma each.

\* Past a lookup the account exists: accounts are never removed.
LEMMA RowsExistStep ==
  ASSUME Types, RowsExist, NEW r \in Requests, Step(r) \/ DbError(r)
  PROVE  RowsExist'
<1> USE DEF RowsExist, TxPCs
<1>1. Local(r)
  BY StepIsLocal
<1>2. ASSUME NEW q \in Requests \ {r}
      PROVE  RowsExist!(q)'
  BY <1>1 DEF Local
<1>3. RowsExist!(r)'
  BY <1>1, Progress DEF Local, Onward
<1> QED
  BY <1>2, <1>3

\* A row lock stays with its transaction until Respond releases it.
LEMMA LocksHeldStep ==
  ASSUME Types, RowsExist, LocksHeld, NEW r \in Requests, Step(r) \/ DbError(r)
  PROVE  LocksHeld'
<1> USE DEF LocksHeld, BothLocked
<1>1. Local(r)
  BY StepIsLocal
<1>2. ASSUME NEW q \in Requests \ {r}
      PROVE  LocksHeld!(q)'
  BY <1>1 DEF Local, RowsExist, TxPCs
<1>3. LocksHeld!(r)'
  <2>1. dto'[r] = dto[r]
    BY <1>1 DEF Local
  <2>2. pc[r] \in TxPCs => dto[r].sender \in Accounts /\ dto[r].receiver \in Accounts
    BY DEF RowsExist
  <2>3. CASE pc'[r] = "done"
    BY <2>3
  <2>4. CASE Onward(r)
    BY <2>1, <2>2, <2>4 DEF Onward, Types, TxPCs
  <2> QED
    BY <2>3, <2>4, Progress
<1> QED
  BY <1>2, <1>3

\* The balance tested under the lock is still there: only a holder of the row
\* writes it (HeldRowsKept).
LEMMA FundsHeldStep ==
  ASSUME Types, RowsExist, LocksHeld, FundsHeld, NEW r \in Requests, Step(r) \/ DbError(r)
  PROVE  FundsHeld'
<1> USE DEF FundsHeld, BothLocked
<1>1. Local(r)
  BY StepIsLocal
<1>2. ASSUME NEW q \in Requests \ {r}
      PROVE  FundsHeld!(q)'
  <2>1. CASE pc[q] \in {"lockReceiver"} \cup BothLocked
    <3>1. /\ dto[q].sender \in Accounts
          /\ locks[dto[q].sender] # None
          /\ locks[dto[q].sender] # r
      BY <2>1, NoneAssumption DEF RowsExist, LocksHeld, TxPCs
    <3>2. accounts'[dto[q].sender] = accounts[dto[q].sender]
      BY <3>1, HeldRowsKept
    <3> QED
      BY <1>1, <3>2 DEF Local
  <2>2. CASE pc[q] \notin {"lockReceiver"} \cup BothLocked
    BY <1>1, <2>2 DEF Local
  <2> QED
    BY <2>1, <2>2
<1>3. FundsHeld!(r)'
  <2>1. CASE pc'[r] = "done"
    BY <2>1
  <2>2. CASE Onward(r)
    <3>1. dto'[r] = dto[r] /\ accounts' = accounts
      BY <1>1, <2>2 DEF Local, Onward, tables
    <3>2. CASE pc[r] = "lockReceiver"
      <4>1. CoversLocked(r) /\ read[r] = accounts[dto[r].sender].balance
        BY <2>2, <3>2 DEF Onward
      <4>2. dto[r].amount \in Int /\ read[r] \in Int
        BY DtoFields DEF Types
      <4> QED
        BY <2>2, <3>1, <3>2, <4>1, <4>2 DEF Onward, CoversLocked, Covers
    <3>3. CASE pc[r] # "lockReceiver"
      BY <2>2, <3>1, <3>3 DEF Onward
    <3> QED
      BY <3>2, <3>3
  <2> QED
    BY <2>1, <2>2, Progress
<1> QED
  BY <1>2, <1>3

\* The journal grows only by the row of the call that commits.
LEMMA JournalStep ==
  ASSUME NEW r \in Requests, Step(r) \/ DbError(r)
  PROVE  \/ journal' = journal
         \/ /\ Commit(r)
            /\ pc[r] = "commit"
            /\ journal' = journal \cup {JournalRow(r, dto[r].key, dto[r].sender, dto[r].amount)}
<1>1. CASE Commit(r)
  BY <1>1 DEF Commit
<1>2. CASE ~ Commit(r)
  BY <1>2, TablesMoveOnCommit DEF tables
<1> QED
  BY <1>1, <1>2

\* Two calls never get past the unique index with one key: the second waits for
\* the first to end, and then finds the key used or free.
LEMMA KeysHeldStep ==
  ASSUME Types, KeysHeld, NEW r \in Requests, Step(r) \/ DbError(r)
  PROVE  KeysHeld'
<1> USE DEF KeysHeld, Keyed, HoldsKey, KeyUsed
<1>1. Local(r)
  BY StepIsLocal
<1>2. pc'[r] \in Keyed => /\ Onward(r)
                          /\ pc[r] \in Keyed \/ \A q \in Requests : ~ HoldsKey(q, dto[r].key)
  BY Progress DEF Onward
<1>3. ASSUME NEW q \in Requests \ {r}, pc'[q] \in Keyed
      PROVE  /\ dto'[q].amount > 0
             /\ ~ KeyUsed(dto[q].key)'
             /\ \A p \in Requests : HoldsKey(p, dto[q].key)' => p = q
  <2>1. dto' = dto /\ pc[q] \in Keyed
    BY <1>1, <1>3 DEF Local
  <2>2. ~ KeyUsed(dto[q].key)'
    <3>1. CASE journal' = journal
      BY <2>1, <3>1
    <3>2. CASE /\ pc[r] = "commit"
               /\ journal' = journal \cup {JournalRow(r, dto[r].key, dto[r].sender, dto[r].amount)}
      BY <2>1, <3>2 DEF JournalRow
    <3> QED
      BY <3>1, <3>2, JournalStep
  <2>3. ASSUME NEW p \in Requests, HoldsKey(p, dto[q].key)'
        PROVE  p = q
    BY <1>1, <1>2, <2>1, <2>3 DEF Local
  <2> QED
    BY <2>1, <2>2, <2>3
<1>4. ASSUME pc'[r] \in Keyed
      PROVE  /\ dto'[r].amount > 0
             /\ ~ KeyUsed(dto[r].key)'
             /\ \A p \in Requests : HoldsKey(p, dto[r].key)' => p = r
  <2>1. Onward(r) /\ dto' = dto /\ journal' = journal
    BY <1>1, <1>2, <1>4 DEF Local, Onward, tables
  <2>2. dto[r].amount > 0 /\ ~ KeyUsed(dto[r].key)
    BY <1>4, <2>1 DEF Onward, Positive
  <2>3. ASSUME NEW p \in Requests, HoldsKey(p, dto[r].key)'
        PROVE  p = r
    BY <1>1, <1>2, <1>4, <2>1, <2>3 DEF Local
  <2> QED
    BY <2>1, <2>2, <2>3
<1> QED
  BY <1>1, <1>3, <1>4 DEF Local

\* What the updates give depends on the two rows they move only.
LEMMA MovementReadsOwnRows ==
  ASSUME Types, Types', NEW d, d.sender \in Accounts, d.receiver \in Accounts, d.amount \in Int,
         accounts'[d.sender] = accounts[d.sender], accounts'[d.receiver] = accounts[d.receiver]
  PROVE  /\ Debited(d)'[d.sender] = Debited(d)[d.sender]
         /\ Credited(d)'[d.receiver] = Credited(d)[d.receiver]
<1>1. accounts \in [Accounts -> Row] /\ accounts' \in [Accounts -> Row]
  BY DEF Types
<1> QED
  BY <1>1 DEF Debited, Credited, Moved, Row

\* The uncommitted rows stay what the updates would give, for both rows are locked.
LEMMA WorkCurrentStep ==
  ASSUME Types, Types', RowsExist, LocksHeld, WorkCurrent,
         NEW r \in Requests, Step(r) \/ DbError(r)
  PROVE  WorkCurrent'
<1> USE DEF WorkCurrent
<1>1. Local(r)
  BY StepIsLocal
<1>2. ASSUME NEW q \in Requests, pc[q] = "commit", dto'[q] = dto[q], work'[q] = work[q],
             accounts'[dto[q].sender] = accounts[dto[q].sender],
             accounts'[dto[q].receiver] = accounts[dto[q].receiver]
      PROVE  WorkCurrent!(q)'
  <2>1. /\ dto[q].sender \in Accounts
        /\ dto[q].receiver \in Accounts
        /\ dto[q].amount \in Int
    BY <1>2, DtoFields DEF RowsExist, TxPCs
  <2>2. /\ Debited(dto[q])'[dto[q].sender] = Debited(dto[q])[dto[q].sender]
        /\ Credited(dto[q])'[dto[q].receiver] = Credited(dto[q])[dto[q].receiver]
    BY <1>2, <2>1, MovementReadsOwnRows
  <2> QED
    BY <1>2, <2>2 DEF Fits, Debited, Credited
<1>3. ASSUME NEW q \in Requests \ {r}
      PROVE  WorkCurrent!(q)'
  <2>1. CASE pc[q] = "commit"
    <3>1. /\ dto[q].sender \in Accounts /\ locks[dto[q].sender] = q
          /\ dto[q].receiver \in Accounts /\ locks[dto[q].receiver] = q
      BY <2>1 DEF RowsExist, LocksHeld, TxPCs, BothLocked
    <3>2. /\ accounts'[dto[q].sender] = accounts[dto[q].sender]
          /\ accounts'[dto[q].receiver] = accounts[dto[q].receiver]
      BY <3>1, HeldRowsKept, NoneAssumption
    <3> QED
      BY <1>1, <1>2, <2>1, <3>2 DEF Local
  <2>2. CASE pc[q] # "commit"
    BY <1>1, <2>2 DEF Local
  <2> QED
    BY <2>1, <2>2
<1>4. WorkCurrent!(r)'
  <2>1. CASE pc'[r] # "commit"
    BY <2>1
  <2>2. CASE pc'[r] = "commit"
    <3>1. /\ Onward(r) /\ pc[r] = "post" /\ accounts' = accounts /\ dto'[r] = dto[r]
      BY <1>1, <2>2, Progress DEF Local, Onward, tables
    <3>2. /\ work'[r].uSender = Debited(dto[r])[dto[r].sender]
          /\ work'[r].uReceiver = Credited(dto[r])[dto[r].receiver]
          /\ Fits(Credited(dto[r])[dto[r].receiver].balance)
      BY <3>1 DEF Onward
    <3> QED
      BY <3>1, <3>2 DEF Debited, Credited, Fits
  <2> QED
    BY <2>1, <2>2
<1> QED
  BY <1>3, <1>4

\* A call gets its reply and its journal row only when it ends.
LEMMA OpenCallsUnpostedStep ==
  ASSUME Types, OpenCallsUnposted, NEW r \in Requests, Step(r) \/ DbError(r)
  PROVE  OpenCallsUnposted'
<1> USE DEF OpenCallsUnposted
<1>1. Local(r)
  BY StepIsLocal
<1>2. ASSUME NEW q \in Requests, pc'[q] # "done"
      PROVE  reply'[q] = "none" /\ \A j \in journal' : j.id # q
  <2>1. pc[q] # "done" /\ reply'[q] = reply[q]
    BY <1>1, <1>2, Progress DEF Local, Onward
  <2>2. CASE journal' = journal
    BY <2>1, <2>2
  <2>3. CASE /\ Commit(r)
             /\ journal' = journal \cup {JournalRow(r, dto[r].key, dto[r].sender, dto[r].amount)}
    <3>1. q # r
      BY <1>2, <2>3 DEF Commit, Respond, Goto, Types
    <3> QED
      BY <2>1, <2>3, <3>1 DEF JournalRow
  <2> QED
    BY <2>2, <2>3, JournalStep
<1> QED
  BY <1>2

\* A commit keeps all balances between 0 and MaxBalance: the debit is covered and
\* the credit fits.
LEMMA BalancesFitStep ==
  ASSUME Types, HeldUntilCommit, NEW r \in Requests, Step(r) \/ DbError(r)
  PROVE  BalancesFit'
<1> USE DEF BalancesFit
<1>1. CASE Commit(r)
  <2> DEFINE d == dto[r]
  <2>1. /\ pc[r] = "commit"
        /\ accounts' = [accounts EXCEPT ![d.sender] = work[r].uSender,
                                        ![d.receiver] = work[r].uReceiver]
    BY <1>1 DEF Commit
  <2>2. /\ d.sender \in Accounts /\ d.receiver \in Accounts
        /\ d.amount \in Int /\ d.amount > 0
        /\ d.amount <= accounts[d.sender].balance
    BY <2>1, DtoFields DEF HeldUntilCommit, RowsExist, FundsHeld, KeysHeld, TxPCs, BothLocked, Keyed
  <2>3. /\ work[r].uSender = Debited(d)[d.sender]
        /\ work[r].uReceiver = Credited(d)[d.receiver]
        /\ Credited(d)[d.receiver].balance <= MaxBalance
    BY <2>1 DEF HeldUntilCommit, WorkCurrent, Fits
  <2>4. ASSUME NEW id \in Accounts
        PROVE  accounts'[id].balance \in 0..MaxBalance
    <3> HIDE DEF d
    <3>1. /\ accounts \in [Accounts -> Row]
          /\ MaxBalance \in Nat
          /\ \A x \in Accounts : accounts[x].balance \in 0..MaxBalance
      BY BalanceAssumption DEF HeldUntilCommit, Types
    <3>2. /\ Debited(d)[d.sender].balance = accounts[d.sender].balance - d.amount
          /\ d.receiver # d.sender =>
               Credited(d)[d.receiver].balance = accounts[d.receiver].balance + d.amount
          /\ d.receiver = d.sender =>
               Credited(d)[d.receiver].balance = accounts[d.receiver].balance
      BY <2>2, <3>1, MovementRows
    <3>3. CASE id = d.receiver
      <4>1. accounts'[id].balance = Credited(d)[d.receiver].balance
        BY <2>1, <2>3, <3>1, <3>3
      <4>2. Credited(d)[d.receiver].balance >= 0 /\ Credited(d)[d.receiver].balance \in Int
        BY <2>2, <3>1, <3>2
      <4> QED
        BY <2>3, <3>1, <4>1, <4>2
    <3>4. CASE id = d.sender /\ id # d.receiver
      <4>1. accounts'[id].balance = accounts[d.sender].balance - d.amount
        BY <2>1, <2>3, <3>1, <3>2, <3>4
      <4> QED
        BY <2>2, <3>1, <4>1
    <3>5. CASE id # d.sender /\ id # d.receiver
      BY <2>1, <3>1, <3>5
    <3> QED
      BY <3>3, <3>4, <3>5
  <2> QED
    BY <2>4
<1>2. CASE ~ Commit(r)
  BY <1>2, TablesMoveOnCommit DEF HeldUntilCommit, tables
<1> QED
  BY <1>1, <1>2

-----------------------------------------------------------------------------
\* A process that dies takes every open call with it.
LEMMA CrashStep ==
  ASSUME Types, HeldUntilCommit, Crash
  PROVE  Types' /\ HeldUntilCommit'
<1>1. /\ UNCHANGED <<tables, dto>>
      /\ \A r \in Requests : pc'[r] \in {"new", "done"}
      /\ \A r \in Requests : pc'[r] # "done" => pc'[r] = pc[r] /\ reply'[r] = reply[r]
  BY DEF Crash, Types, PCs
<1>2. Types'
  <2>1. NoWork \in [uSender : Row, uReceiver : Row]
    BY DEF NoWork, Row
  <2>2. locks' \in [Accounts -> Requests \cup {None}]
    BY DEF Crash, Types, Released
  <2>3. pc' \in [Requests -> PCs] /\ reply' \in [Requests -> Outcomes]
    BY DEF Crash, Types, PCs, Outcomes
  <2>4. read' \in [Requests -> Int] /\ work' \in [Requests -> [uSender : Row, uReceiver : Row]]
    BY <2>1 DEF Crash
  <2> QED
    BY <1>1, <2>2, <2>3, <2>4 DEF Types, tables
<1>3. RowsExist' /\ LocksHeld' /\ FundsHeld' /\ KeysHeld' /\ WorkCurrent'
  <2>1. \A r \in Requests : pc'[r] \notin {"findReceiver", "begin"} \cup TxPCs
    BY <1>1 DEF TxPCs
  <2> QED
    BY <2>1 DEF RowsExist, LocksHeld, FundsHeld, KeysHeld, WorkCurrent, TxPCs, BothLocked, Keyed
<1>4. OpenCallsUnposted' /\ BalancesFit'
  BY <1>1 DEF HeldUntilCommit, OpenCallsUnposted, BalancesFit, tables
<1> QED
  BY <1>2, <1>3, <1>4 DEF HeldUntilCommit

\* A step that changes nothing preserves the invariant.
LEMMA StutterStep ==
  ASSUME Types, HeldUntilCommit, UNCHANGED vars
  PROVE  Types' /\ HeldUntilCommit'
BY DEF vars, Types, HeldUntilCommit, RowsExist, LocksHeld, FundsHeld, KeysHeld, WorkCurrent,
       OpenCallsUnposted, BalancesFit, HoldsKey, KeyUsed, Debited, Credited, Fits

\* The invariant holds of a seeded ledger that has seen no call.
LEMMA InitHolds == Init => Types /\ HeldUntilCommit
<1> SUFFICES ASSUME Init
             PROVE  Types /\ HeldUntilCommit
  OBVIOUS
<1>1. Types
  <2>1. accounts \in [Accounts -> Row]
    BY BalanceAssumption DEF Init, Row
  <2> QED
    BY <2>1 DEF Init, Types, PCs, Outcomes, NoWork, Row
<1>2. \A r \in Requests : pc[r] = "new" /\ reply[r] = "none"
  BY DEF Init
<1>3. RowsExist /\ LocksHeld /\ FundsHeld /\ KeysHeld /\ WorkCurrent
  BY <1>2 DEF RowsExist, LocksHeld, FundsHeld, KeysHeld, WorkCurrent, TxPCs, BothLocked, Keyed
<1>4. OpenCallsUnposted /\ BalancesFit
  BY <1>2, BalanceAssumption DEF Init, OpenCallsUnposted, BalancesFit
<1> QED
  BY <1>1, <1>3, <1>4 DEF HeldUntilCommit

\* The invariant is inductive.
LEMMA NextHolds ==
  ASSUME Types, HeldUntilCommit, [Next]_vars
  PROVE  Types' /\ HeldUntilCommit'
<1>1. ASSUME NEW r \in Requests, Step(r) \/ DbError(r)
      PROVE  Types' /\ HeldUntilCommit'
  <2>1. Types'
    BY <1>1, TypesStep DEF HeldUntilCommit
  <2>2. RowsExist' /\ LocksHeld' /\ FundsHeld' /\ KeysHeld'
    BY <1>1, RowsExistStep, LocksHeldStep, FundsHeldStep, KeysHeldStep DEF HeldUntilCommit
  <2>3. WorkCurrent' /\ OpenCallsUnposted' /\ BalancesFit'
    BY <1>1, <2>1, WorkCurrentStep, OpenCallsUnpostedStep, BalancesFitStep DEF HeldUntilCommit
  <2> QED
    BY <2>1, <2>2, <2>3 DEF HeldUntilCommit
<1>2. CASE Crash
  BY <1>2, CrashStep
<1>3. CASE AllAnswered \/ UNCHANGED vars
  BY <1>3, StutterStep DEF AllAnswered
<1> QED
  BY <1>1, <1>2, <1>3 DEF Next

\* The inductive invariant: what a call has locked, read, tested and written
\* stays as it was until its transaction ends.
THEOREM HeldUntilCommitHolds == Spec => [](Types /\ HeldUntilCommit)
<1>1. Init => Types /\ HeldUntilCommit
  BY InitHolds
<1>2. Types /\ HeldUntilCommit /\ [Next]_vars => (Types /\ HeldUntilCommit)'
  BY NextHolds
<1> QED
  BY <1>1, <1>2, PTL DEF Spec

\* No account is overdrawn: the test under FOR UPDATE decides, and what it tested
\* is still true when the transaction commits.
THEOREM NeverOverdrawn == Spec => []NoOverdraft
<1>1. Types /\ HeldUntilCommit => NoOverdraft
  BY BalanceAssumption DEF HeldUntilCommit, BalancesFit, NoOverdraft
<1> QED
  BY <1>1, HeldUntilCommitHolds, PTL

-----------------------------------------------------------------------------
\* A commit is one atomic movement of the abstract ledger.
LEMMA CommitIsPost ==
  ASSUME Types, HeldUntilCommit, NEW r \in Requests, Commit(r)
  PROVE  Ledger!Post(r, dto[r].key, dto[r].sender, dto[r].receiver, dto[r].amount)
<1> DEFINE d == dto[r]
<1>1. pc[r] = "commit"
  BY DEF Commit
<1>2. /\ d.sender \in Accounts /\ d.receiver \in Accounts
      /\ d.amount \in Int /\ d.amount > 0
      /\ d.amount <= accounts[d.sender].balance
      /\ \A j \in journal : j.id # r /\ j.key # d.key
  BY <1>1, DtoFields DEF HeldUntilCommit, RowsExist, FundsHeld, KeysHeld, OpenCallsUnposted,
                         KeyUsed, TxPCs, BothLocked, Keyed
<1>3. /\ work[r].uSender = Debited(d)[d.sender]
      /\ work[r].uReceiver = Credited(d)[d.receiver]
      /\ Credited(d)[d.receiver].balance <= MaxBalance
  BY <1>1 DEF HeldUntilCommit, WorkCurrent, Fits
<1>4. accounts' = Credited(d)
  <2> HIDE DEF d
  <2>1. /\ Debited(d) \in [Accounts -> Row]
        /\ Credited(d) \in [Accounts -> Row]
        /\ d.receiver # d.sender => Credited(d)[d.sender] = Debited(d)[d.sender]
        /\ \A x \in Accounts \ {d.sender, d.receiver} : Credited(d)[x] = accounts[x]
    BY <1>2, MovementRows DEF Types
  <2>2. accounts' = [accounts EXCEPT ![d.sender] = Debited(d)[d.sender],
                                     ![d.receiver] = Credited(d)[d.receiver]]
    BY <1>3 DEF Commit, d
  <2>3. accounts' \in [Accounts -> Row]
    BY <1>2, <2>1, <2>2 DEF Types
  <2>4. \A x \in Accounts : accounts'[x] = Credited(d)[x]
    BY <1>2, <2>1, <2>2 DEF Types
  <2> QED
    BY <2>1, <2>3, <2>4
<1>5. /\ journal' = journal \cup {JournalRow(r, d.key, d.sender, d.amount)}
      /\ entries' = entries \cup {Entry(r, d.sender, "debit", d.amount),
                                  Entry(r, d.receiver, "credit", d.amount)}
      /\ outbox' = outbox \cup {Event(r, "debit", d.sender, Debited(d)[d.sender]),
                                Event(r, "credit", d.receiver, Credited(d)[d.receiver])}
  BY <1>3 DEF Commit
<1> QED
  BY <1>2, <1>3, <1>4, <1>5
  DEF Ledger!Post, Ledger!Moved, Ledger!JournalRow, Ledger!Entry, Ledger!Event,
      Moved, JournalRow, Entry, Event, Debited, Credited

\* Every other step leaves the tables alone.
LEMMA TablesStep ==
  ASSUME [Next]_vars
  PROVE  UNCHANGED tables \/ \E r \in Requests : Commit(r)
<1>1. ASSUME NEW r \in Requests, Step(r) \/ DbError(r)
      PROVE  UNCHANGED tables \/ Commit(r)
  BY <1>1, TablesMoveOnCommit
<1>2. CASE Crash \/ AllAnswered \/ UNCHANGED vars
  BY <1>2 DEF Crash, AllAnswered, vars, tables
<1> QED
  BY <1>1, <1>2 DEF Next

\* The goroutines implement the atomic ledger: however their statements
\* interleave, the four tables move by whole transfers of Posting.
THEOREM ImplementsPosting == Spec => Posts
<1>1. Init => Ledger!Init
  BY DEF Init, Ledger!Init
<1>2. Types /\ HeldUntilCommit /\ [Next]_vars => [Ledger!Next]_Ledger!tables
  <2> SUFFICES ASSUME Types, HeldUntilCommit, [Next]_vars
               PROVE  [Ledger!Next]_Ledger!tables
    OBVIOUS
  <2>1. ASSUME NEW r \in Requests, Commit(r)
        PROVE  Ledger!Next
    <3>1. /\ dto[r].key \in Keys
          /\ dto[r].sender \in Accounts /\ dto[r].receiver \in Accounts
          /\ dto[r].amount \in 1..accounts[dto[r].sender].balance
      BY <2>1, DtoFields DEF Commit, HeldUntilCommit, RowsExist, FundsHeld, KeysHeld,
                             TxPCs, BothLocked, Keyed, Types, Row
    <3> QED
      BY <2>1, <3>1, CommitIsPost DEF Ledger!Next
  <2>2. CASE UNCHANGED tables
    BY <2>2 DEF tables, Ledger!tables
  <2> QED
    BY <2>1, <2>2, TablesStep
<1> QED
  BY <1>1, <1>2, HeldUntilCommitHolds, PTL DEF Spec, Posts, Ledger!Spec

-----------------------------------------------------------------------------
\* A movement appends to the history of the two accounts and of no other.
LEMMA EventsStep ==
  ASSUME Types, HeldUntilCommit, EventsMatchVersions, NEW r \in Requests, Commit(r)
  PROVE  EventsMatchVersions'
<1> DEFINE d == dto[r]
           D == Event(r, "debit", d.sender, Debited(d)[d.sender])
           C == Event(r, "credit", d.receiver, Credited(d)[d.receiver])
<1>1. /\ d.sender \in Accounts /\ d.receiver \in Accounts
      /\ accounts \in [Accounts -> Row]
      /\ accounts' = Credited(d)
      /\ outbox' = outbox \cup {D, C}
  <2>1. pc[r] = "commit"
    BY DEF Commit
  <2> QED
    BY <2>1, CommitIsPost
    DEF HeldUntilCommit, RowsExist, TxPCs, Types, Ledger!Post, Ledger!Moved, Ledger!Event,
        Moved, Event, Debited, Credited
<1>2. /\ Debited(d)[d.sender].version = accounts[d.sender].version + 1
      /\ d.receiver # d.sender =>
           /\ Credited(d)[d.sender] = Debited(d)[d.sender]
           /\ Credited(d)[d.receiver].version = accounts[d.receiver].version + 1
      /\ d.receiver = d.sender =>
           Credited(d)[d.receiver].version = accounts[d.receiver].version + 2
      /\ \A x \in Accounts \ {d.sender, d.receiver} : Credited(d)[x] = accounts[x]
  BY <1>1, DtoFields, MovementRows
<1>3. /\ D.account = d.sender /\ D.version = Debited(d)[d.sender].version
      /\ D.balance = Debited(d)[d.sender].balance
      /\ C.account = d.receiver /\ C.version = Credited(d)[d.receiver].version
      /\ C.balance = Credited(d)[d.receiver].balance
  BY DEF Event
<1> HIDE DEF d, D, C
<1>4. ASSUME NEW id \in Accounts
      PROVE  EventsMatchVersions!(id)'
  <2> DEFINE v == accounts[id].version
             old == {e \in outbox : e.account = id}
             mine == {e \in outbox' : e.account = id}
  <2>1. /\ v \in Nat
        /\ \A e \in old : e.version \in 1..v
        /\ \A e, f \in old : e.version = f.version => e = f
        /\ \A n \in 1..v : \E e \in old : e.version = n
        /\ \A e \in old : e.version = v => e.balance = accounts[id].balance
    BY <1>1 DEF EventsMatchVersions, Row
  <2>2. CASE id \notin {d.sender, d.receiver}
    <3>1. mine = old /\ accounts'[id] = accounts[id]
      BY <1>1, <1>2, <1>3, <2>2
    <3> QED
      BY <2>1, <3>1
  <2>3. ASSUME NEW E, mine = old \cup {E}, E.version = v + 1,
               accounts'[id].version = v + 1, E.balance = accounts'[id].balance
        PROVE  EventsMatchVersions!(id)'
    <3> HIDE DEF v, old, mine
    <3>1. /\ \A e \in mine : e.version \in 1..(v + 1)
          /\ \A e, f \in mine : e.version = f.version => e = f
          /\ \A n \in 1..(v + 1) : \E e \in mine : e.version = n
          /\ \A e \in mine : e.version = v + 1 => e = E
      BY <2>1, <2>3
    <3> QED
      BY <2>3, <3>1 DEF mine
  <2>4. CASE id = d.sender /\ id # d.receiver
    BY <1>1, <1>2, <1>3, <2>3, <2>4
  <2>5. CASE id = d.receiver /\ id # d.sender
    BY <1>1, <1>2, <1>3, <2>3, <2>5
  <2>6. CASE id = d.receiver /\ id = d.sender
    <3>1. /\ mine = old \cup {D, C}
          /\ D.version = v + 1 /\ C.version = v + 2
          /\ accounts'[id].version = v + 2 /\ C.balance = accounts'[id].balance
      BY <1>1, <1>2, <1>3, <2>6
    <3> HIDE DEF v, old, mine
    <3>2. /\ \A e \in mine : e.version \in 1..(v + 2)
          /\ \A e, f \in mine : e.version = f.version => e = f
          /\ \A n \in 1..(v + 2) : \E e \in mine : e.version = n
          /\ \A e \in mine : e.version = v + 2 => e = C
      BY <2>1, <3>1
    <3> QED
      BY <3>1, <3>2 DEF mine
  <2> QED
    BY <2>2, <2>4, <2>5, <2>6
<1> QED
  BY <1>4 DEF EventsMatchVersions

\* Every version of every account is announced once, and the newest truly.
THEOREM EventsComplete == Spec => []EventsMatchVersions
<1>1. Init => EventsMatchVersions
  BY DEF Init, EventsMatchVersions
<1>2. Types /\ HeldUntilCommit /\ EventsMatchVersions /\ [Next]_vars => EventsMatchVersions'
  <2> SUFFICES ASSUME Types, HeldUntilCommit, EventsMatchVersions, [Next]_vars
               PROVE  EventsMatchVersions'
    OBVIOUS
  <2>1. CASE UNCHANGED tables
    BY <2>1 DEF tables, EventsMatchVersions
  <2>2. CASE \E r \in Requests : Commit(r)
    BY <2>2, EventsStep
  <2> QED
    BY <2>1, <2>2, TablesStep
<1> QED
  BY <1>1, <1>2, HeldUntilCommitHolds, PTL DEF Spec

\* One idempotency key moves money at most once, over all retries and races for the
\* unique index of the journal.
THEOREM KeyMovesOnce == Spec => []OneMovementPerKey
<1>1. Init => OneMovementPerKey
  BY DEF Init, OneMovementPerKey
<1>2. Types /\ HeldUntilCommit /\ OneMovementPerKey /\ [Next]_vars => OneMovementPerKey'
  <2> SUFFICES ASSUME Types, HeldUntilCommit, OneMovementPerKey, [Next]_vars
               PROVE  OneMovementPerKey'
    OBVIOUS
  <2>1. CASE UNCHANGED tables
    BY <2>1 DEF tables, OneMovementPerKey
  <2>2. ASSUME NEW r \in Requests, Commit(r)
        PROVE  OneMovementPerKey'
    <3>1. /\ journal' = journal \cup {JournalRow(r, dto[r].key, dto[r].sender, dto[r].amount)}
          /\ \A j \in journal : j.key # dto[r].key
      BY <2>2 DEF Commit, HeldUntilCommit, KeysHeld, Keyed, KeyUsed
    <3> QED
      BY <3>1 DEF OneMovementPerKey, JournalRow
  <2> QED
    BY <2>1, <2>2, TablesStep
<1> QED
  BY <1>1, <1>2, HeldUntilCommitHolds, PTL DEF Spec

-----------------------------------------------------------------------------
\* A call that ends without committing was still open, is not told "ok", and
\* is told of a duplicate only when the key is taken.
LEMMA EndWithoutCommit ==
  ASSUME Types, NEW r \in Requests, Step(r) \/ DbError(r), ~ Commit(r)
  PROVE  /\ pc[r] # "done"
         /\ pc'[r] = "done" => /\ reply'[r] # "ok"
                               /\ reply'[r] = "duplicate_key" => KeyUsed(dto[r].key)
<1> USE DEF Types, Goto
<1>1. ASSUME NEW outcome, Respond(r, outcome)
      PROVE  reply'[r] = outcome
  BY <1>1 DEF Respond
<1>2. CASE Receive(r)
  BY <1>1, <1>2 DEF Receive
<1>3. CASE FindSender(r)
  BY <1>1, <1>3 DEF FindSender
<1>4. CASE FindReceiver(r)
  BY <1>1, <1>4 DEF FindReceiver
<1>5. CASE BeginTx(r) \/ LockSender(r)
  BY <1>5 DEF BeginTx, LockSender
<1>6. CASE LockReceiver(r)
  BY <1>1, <1>6 DEF LockReceiver
<1>7. CASE InsertJournal(r)
  BY <1>1, <1>7 DEF InsertJournal, ConflictOutcome
<1>8. CASE Post(r)
  BY <1>1, <1>8 DEF Post
<1>9. CASE DeadlockAbort(r) \/ DbError(r)
  BY <1>1, <1>9 DEF DeadlockAbort, DbError, InTx, TxPCs, PoolPCs
<1> QED
  BY <1>2, <1>3, <1>4, <1>5, <1>6, <1>7, <1>8, <1>9 DEF Step

\* Answers stay true: a step of one call neither answers another nor unposts it.
LEMMA AnswerStep ==
  ASSUME Types, HeldUntilCommit, AnswerMatchesLedger, NEW r \in Requests, Step(r) \/ DbError(r)
  PROVE  AnswerMatchesLedger'
<1> USE DEF AnswerMatchesLedger, KeyUsed
<1>1. Local(r)
  BY StepIsLocal
<1>2. CASE Commit(r)
  <2>1. /\ journal' = journal \cup {JournalRow(r, dto[r].key, dto[r].sender, dto[r].amount)}
        /\ reply'[r] \in {"ok", "db_error", "lost"}
    BY <1>2 DEF Commit, Respond, Types
  <2>2. reply'[r] \notin Refusals /\ reply'[r] # "duplicate_key"
    BY <2>1 DEF Refusals
  <2>3. AnswerMatchesLedger!(r)'
    <3>1. JournalRow(r, dto[r].key, dto[r].sender, dto[r].amount) \in journal'
      BY <2>1
    <3>2. JournalRow(r, dto[r].key, dto[r].sender, dto[r].amount).id = r
      BY DEF JournalRow
    <3>3. \E j \in journal' : j.id = r
      BY <3>1, <3>2
    <3> QED
      BY <2>2, <3>3
  <2>4. ASSUME NEW q \in Requests \ {r}
        PROVE  AnswerMatchesLedger!(q)'
    <3>1. reply'[q] = reply[q] /\ dto' = dto
      BY <1>1 DEF Local
    <3>2. /\ \A j \in journal : j \in journal'
          /\ \A j \in journal' : j \in journal \/ j.id = r
      BY <2>1 DEF JournalRow
    <3> QED
      BY <3>1, <3>2
  <2> QED
    BY <2>3, <2>4
<1>3. CASE ~ Commit(r)
  <2>1. journal' = journal
    BY <1>3, TablesMoveOnCommit DEF tables
  <2>2. /\ pc[r] # "done" /\ reply[r] = "none"
        /\ \A j \in journal : j.id # r
    BY <1>3, EndWithoutCommit DEF HeldUntilCommit, OpenCallsUnposted
  <2>3. /\ reply'[r] # "ok"
        /\ reply'[r] = "duplicate_key" => \E j \in journal : j.key = dto[r].key
    BY <1>3, <2>2, Progress, EndWithoutCommit DEF Onward
  <2> QED
    BY <1>1, <2>1, <2>2, <2>3 DEF Local
<1> QED
  BY <1>2, <1>3

\* An "ok" of transferMoneyUsecase means that its own movement is in the journal, a
\* refusal that it is not, for every interleaving and crash.
THEOREM AnswersAreTrue == Spec => []AnswerMatchesLedger
<1>1. Init => AnswerMatchesLedger
  BY DEF Init, AnswerMatchesLedger, Refusals
<1>2. Types /\ HeldUntilCommit /\ AnswerMatchesLedger /\ [Next]_vars => AnswerMatchesLedger'
  <2> SUFFICES ASSUME Types, HeldUntilCommit, AnswerMatchesLedger, [Next]_vars
               PROVE  AnswerMatchesLedger'
    OBVIOUS
  <2>1. CASE \E r \in Requests : Step(r) \/ DbError(r)
    BY <2>1, AnswerStep
  <2>2. CASE Crash
    <3>1. /\ journal' = journal /\ dto' = dto
          /\ \A r \in Requests : reply'[r] = "lost" \/ reply'[r] = reply[r]
      BY <2>2 DEF Crash, tables
    <3> QED
      BY <3>1 DEF AnswerMatchesLedger, Refusals
  <2>3. CASE AllAnswered \/ UNCHANGED vars
    BY <2>3 DEF AllAnswered, vars, AnswerMatchesLedger
  <2> QED
    BY <2>1, <2>2, <2>3 DEF Next
<1> QED
  BY <1>1, <1>2, HeldUntilCommitHolds, PTL DEF Spec

-----------------------------------------------------------------------------
\* No step leaves a row with a call whose transaction has ended.
LEMMA NoLeakStep ==
  ASSUME Types, HeldUntilCommit, NoLeakedLocks, NEW r \in Requests, Step(r) \/ DbError(r)
  PROVE  NoLeakedLocks'
<1> USE DEF NoLeakedLocks
<1>1. Local(r)
  BY StepIsLocal
<1>3. CASE pc'[r] = "done" /\ locks' = Released({r})
  <2>1. \A id \in Accounts : locks'[id] # None => locks'[id] = locks[id] /\ locks[id] # r
    BY <1>3 DEF Released
  <2>2. ASSUME NEW id \in Accounts, locks'[id] # None
        PROVE  /\ pc'[locks[id]] = pc[locks[id]] /\ dto'[locks[id]] = dto[locks[id]]
               /\ locks'[id] = locks[id]
    BY <1>1, <2>1, <2>2 DEF Local, Types
  <2> QED
    BY <2>2
<1>4. CASE Onward(r)
  <2>1. dto' = dto /\ \A q \in Requests \ {r} : pc'[q] = pc[q]
    BY <1>1 DEF Local
  <2>2. CASE pc[r] \notin TxPCs
    <3>1. locks' = locks
      BY <1>4, <2>2 DEF Onward, TxPCs
    <3> QED
      BY <2>1, <2>2, <3>1 DEF Types
  <2>3. CASE pc[r] \in TxPCs
    <3>1. pc'[r] \in TxPCs \ {"lockSender"}
      BY <1>4, <2>3 DEF Onward, TxPCs
    <3>2. \A id \in Accounts :
            \/ locks'[id] = locks[id]
            \/ locks'[id] = r /\ id \in {dto[r].sender, dto[r].receiver}
      BY <1>4 DEF Onward, Types
    <3> QED
      BY <2>1, <3>1, <3>2 DEF Types
  <2> QED
    BY <2>2, <2>3
<1> QED
  BY <1>3, <1>4, Progress

\* No early return of transferMoneyUsecase leaves a row locked.
THEOREM LocksNotLeaked == Spec => []NoLeakedLocks
<1>1. Init => NoLeakedLocks
  BY DEF Init, NoLeakedLocks
<1>2. Types /\ HeldUntilCommit /\ NoLeakedLocks /\ [Next]_vars => NoLeakedLocks'
  <2> SUFFICES ASSUME Types, HeldUntilCommit, NoLeakedLocks, [Next]_vars
               PROVE  NoLeakedLocks'
    OBVIOUS
  <2>1. CASE \E r \in Requests : Step(r) \/ DbError(r)
    BY <2>1, NoLeakStep
  <2>2. CASE Crash
    <3>1. ASSUME NEW id \in Accounts
          PROVE  locks'[id] = None
      BY <2>2, <3>1 DEF Crash, Released, NoLeakedLocks, TxPCs, Types
    <3> QED
      BY <3>1 DEF NoLeakedLocks
  <2>3. CASE AllAnswered \/ UNCHANGED vars
    BY <2>3 DEF AllAnswered, vars, NoLeakedLocks
  <2> QED
    BY <2>1, <2>2, <2>3 DEF Next
<1> QED
  BY <1>1, <1>2, HeldUntilCommitHolds, PTL DEF Spec

\* A call that has both rows is on no cycle of waits: whoever holds the key it is
\* waiting for has all it needs and waits for nobody.
THEOREM OnlyRowsDeadlock == Spec => []DeadlocksOnlyOnRows
<1>1. Types => DeadlocksOnlyOnRows
  <2> SUFFICES ASSUME Types, NEW r \in Requests, OnCycle(r)
               PROVE  pc[r] \in {"lockSender", "lockReceiver"}
    BY DEF DeadlocksOnlyOnRows
  <2>1. PICK S \in SUBSET Requests :
          /\ r \in S
          /\ \A q \in S : (\E p \in S : WaitsFor(q, p)) /\ (\E p \in S : WaitsFor(p, q))
    BY DEF OnCycle
  <2>2. \A q \in S : pc[q] \in {"lockSender", "lockReceiver", "insertJournal"}
    BY <2>1 DEF WaitsFor
  <2>3. PICK p \in S : WaitsFor(r, p)
    BY <2>1
  <2>4. pc[p] \notin {"post", "commit"}
    BY <2>2
  <2> QED
    BY <2>3, <2>4 DEF WaitsFor, HoldsKey
<1> QED
  BY <1>1, HeldUntilCommitHolds, PTL

\* Nobody's balance falls but a sender's: the CHECK of the journal stops the negative
\* amounts that the validator and both balance tests let through.
THEOREM OnlySenderLoses == Spec => OnlySendersPay
<1> DEFINE Fair(id) ==
      accounts'[id].balance < accounts[id].balance =>
        \E r \in Requests : pc[r] = "commit" /\ pc'[r] = "done" /\ dto[r].sender = id
<1>1. Types /\ HeldUntilCommit /\ [Next]_vars => [\A id \in Accounts : Fair(id)]_vars
  <2> SUFFICES ASSUME Types, HeldUntilCommit, [Next]_vars, NEW id \in Accounts
               PROVE  Fair(id)
    OBVIOUS
  <2>1. accounts[id].balance \in Int
    BY DEF Types, Row
  <2>2. CASE UNCHANGED tables
    BY <2>1, <2>2 DEF tables
  <2>3. ASSUME NEW r \in Requests, Commit(r), id # dto[r].sender
        PROVE  ~ (accounts'[id].balance < accounts[id].balance)
    <3>1. /\ dto[r].sender \in Accounts /\ dto[r].receiver \in Accounts
          /\ dto[r].amount \in Int /\ dto[r].amount > 0
      BY <2>3, DtoFields DEF Commit, HeldUntilCommit, RowsExist, KeysHeld, TxPCs, Keyed
    <3>2. accounts' = Credited(dto[r])
      BY <2>3, CommitIsPost DEF Ledger!Post, Ledger!Moved, Moved, Debited, Credited
    <3>3. \/ accounts'[id] = accounts[id]
          \/ accounts'[id].balance = accounts[id].balance + dto[r].amount
      BY <2>3, <3>1, <3>2, MovementRows DEF Types
    <3> QED
      BY <2>1, <3>1, <3>3
  <2>4. ASSUME NEW r \in Requests, Commit(r)
        PROVE  pc[r] = "commit" /\ pc'[r] = "done"
    BY <2>4 DEF Commit, Respond, Goto, Types
  <2> QED
    BY <2>2, <2>3, <2>4, TablesStep
<1> QED
  BY <1>1, HeldUntilCommitHolds, PTL DEF Spec, OnlySendersPay

-----------------------------------------------------------------------------
\* The rows the three append-only tables may hold.
RowTypes ==
  /\ journal \subseteq [id : Requests, key : Keys, account : Accounts, amount : Nat \ {0}]
  /\ entries \subseteq [journal : Requests, account : Accounts,
                        direction : {"debit", "credit"}, amount : Nat \ {0}]
  /\ outbox \subseteq [journal : Requests, side : {"debit", "credit"},
                       account : Accounts, balance : Int, version : Nat]

\* Rows are appended by Commit alone, and it builds them of the right types.
LEMMA RowTypesStep ==
  ASSUME Types, HeldUntilCommit, RowTypes, [Next]_vars
  PROVE  RowTypes'
<1>1. ASSUME NEW r \in Requests, Commit(r)
      PROVE  RowTypes'
  <2> DEFINE d == dto[r]
  <2>1. /\ d.key \in Keys /\ d.sender \in Accounts /\ d.receiver \in Accounts
        /\ d.amount \in Nat \ {0}
    BY <1>1, DtoFields DEF Commit, HeldUntilCommit, RowsExist, KeysHeld, TxPCs, Keyed
  <2>2. work[r].uSender \in Row /\ work[r].uReceiver \in Row
    BY DEF Types
  <2> HIDE DEF d
  <2>3. JournalRow(r, d.key, d.sender, d.amount)
          \in [id : Requests, key : Keys, account : Accounts, amount : Nat \ {0}]
    BY <2>1 DEF JournalRow
  <2>4. /\ Entry(r, d.sender, "debit", d.amount)
             \in [journal : Requests, account : Accounts,
                  direction : {"debit", "credit"}, amount : Nat \ {0}]
        /\ Entry(r, d.receiver, "credit", d.amount)
             \in [journal : Requests, account : Accounts,
                  direction : {"debit", "credit"}, amount : Nat \ {0}]
    BY <2>1 DEF Entry
  <2>5. /\ Event(r, "debit", d.sender, work[r].uSender)
             \in [journal : Requests, side : {"debit", "credit"},
                  account : Accounts, balance : Int, version : Nat]
        /\ Event(r, "credit", d.receiver, work[r].uReceiver)
             \in [journal : Requests, side : {"debit", "credit"},
                  account : Accounts, balance : Int, version : Nat]
    BY <2>1, <2>2 DEF Event, Row
  <2>6. /\ journal' = journal \cup {JournalRow(r, d.key, d.sender, d.amount)}
        /\ entries' = entries \cup {Entry(r, d.sender, "debit", d.amount),
                                    Entry(r, d.receiver, "credit", d.amount)}
        /\ outbox' = outbox \cup {Event(r, "debit", d.sender, work[r].uSender),
                                  Event(r, "credit", d.receiver, work[r].uReceiver)}
    BY <1>1 DEF Commit, d
  <2> QED
    BY <2>3, <2>4, <2>5, <2>6 DEF RowTypes
<1>2. CASE UNCHANGED tables
  BY <1>2 DEF tables, RowTypes
<1> QED
  BY <1>1, <1>2, TablesStep

\* Type correctness: no balance, not even an uncommitted one, leaves its bigint.
THEOREM TypeCorrect == Spec => []TypeOK
<1>1. Init => RowTypes
  BY DEF Init, RowTypes
<1>2. Types /\ HeldUntilCommit /\ RowTypes /\ [Next]_vars => RowTypes'
  BY RowTypesStep
<1>3. Types /\ HeldUntilCommit /\ RowTypes => TypeOK
  <2> SUFFICES ASSUME Types, HeldUntilCommit, RowTypes
               PROVE  TypeOK
    OBVIOUS
  <2>1. accounts \in [Accounts -> [balance : -MaxBalance..MaxBalance, version : Nat]]
    <3>1. ASSUME NEW id \in Accounts
          PROVE  accounts[id] \in [balance : -MaxBalance..MaxBalance, version : Nat]
      <4>1. accounts[id] \in Row /\ accounts[id].balance \in 0..MaxBalance /\ MaxBalance \in Nat
        BY BalanceAssumption DEF Types, HeldUntilCommit, BalancesFit
      <4>2. accounts[id].balance \in -MaxBalance..MaxBalance
        BY <4>1
      <4> QED
        BY <4>1, <4>2 DEF Row
    <3> QED
      BY <3>1 DEF Types
  <2> QED
    BY <2>1 DEF Types, RowTypes, TypeOK
<1> QED
  BY <1>1, <1>2, <1>3, HeldUntilCommitHolds, PTL DEF Spec
-----------------------------------------------------------------------------
\* What the entries of one account on one side add up to.
Total(rows, id, way) ==
  SumFunctionOnSet([e \in rows |-> e.amount],
                   {e \in rows : e.account = id /\ e.direction = way})

\* A new entry is added to the total of its own account and side and to no other.
LEMMA TotalGrows ==
  ASSUME NEW rows, IsFiniteSet(rows), \A e \in rows : e.amount \in Int,
         NEW E, E \notin rows, E.amount \in Int, NEW id, NEW way
  PROVE  /\ Total(rows, id, way) \in Int
         /\ (E.account = id /\ E.direction = way) =>
              Total(rows \cup {E}, id, way) = Total(rows, id, way) + E.amount
         /\ ~ (E.account = id /\ E.direction = way) =>
              Total(rows \cup {E}, id, way) = Total(rows, id, way)
<1> DEFINE old == {e \in rows : e.account = id /\ e.direction = way}
           new == {e \in rows \cup {E} : e.account = id /\ e.direction = way}
           f == [e \in rows |-> e.amount]
           g == [e \in rows \cup {E} |-> e.amount]
<1>1. IsFiniteSet(old)
  BY FS_Subset, old \subseteq rows
<1>2. /\ \A e \in old : f[e] \in Int /\ f[e] = g[e]
      /\ \A e \in old \cup {E} : g[e] \in Int
      /\ g[E] = E.amount /\ E \notin old
  OBVIOUS
<1>3. /\ (E.account = id /\ E.direction = way) => new = old \cup {E}
      /\ ~ (E.account = id /\ E.direction = way) => new = old
  OBVIOUS
<1>4. /\ Total(rows, id, way) = SumFunctionOnSet(f, old)
      /\ Total(rows \cup {E}, id, way) = SumFunctionOnSet(g, new)
  BY DEF Total
<1> HIDE DEF old, new, f, g
<1>5. SumFunctionOnSet(f, old) \in Int
  BY <1>1, <1>2, SumType
<1>6. SumFunctionOnSet(g, old) = SumFunctionOnSet(f, old)
  BY <1>1, <1>2, SumSame
<1>7. SumFunctionOnSet(g, old \cup {E}) = SumFunctionOnSet(g, old) + g[E]
  <2>1. \A e \in old \cup {E} : g[e] \in Int
    BY <1>2
  <2>2. E \notin old
    BY <1>2
  <2> QED
    BY <1>1, <2>1, <2>2, SumAdd, Zenon
<1> QED
  BY <1>2, <1>3, <1>4, <1>5, <1>6, <1>7

\* The entries are finitely many and each belongs to a movement in the journal: the
\* rows of a new movement are new.
EntriesSound ==
  /\ IsFiniteSet(entries)
  /\ \A e \in entries : e.amount \in Int /\ \E j \in journal : e.journal = j.id

\* What a commit does to the tables the sums are about.
LEMMA CommitMovesMoney ==
  ASSUME Types, HeldUntilCommit, NEW r \in Requests, Commit(r)
  PROVE  LET d == dto[r]
         IN /\ d.sender \in Accounts /\ d.receiver \in Accounts /\ d.amount \in Int
            /\ accounts' = Credited(d)
            /\ \A j \in journal : j.id # r
            /\ journal' = journal \cup {JournalRow(r, d.key, d.sender, d.amount)}
            /\ entries' = entries \cup {Entry(r, d.sender, "debit", d.amount),
                                        Entry(r, d.receiver, "credit", d.amount)}
<1>1. pc[r] = "commit"
  BY DEF Commit
<1>2. /\ dto[r].sender \in Accounts /\ dto[r].receiver \in Accounts
      /\ dto[r].amount \in Int
  BY <1>1, DtoFields DEF HeldUntilCommit, RowsExist, TxPCs
<1> QED
  BY <1>2, CommitIsPost
  DEF Ledger!Post, Ledger!Moved, Ledger!JournalRow, Ledger!Entry, Moved, JournalRow, Entry,
      Debited, Credited

\* A movement writes its two entries and moves the two balances by as much.
LEMMA BooksStep ==
  ASSUME Types, HeldUntilCommit, EntriesSound, BalanceIsSumOfEntries,
         NEW r \in Requests, Commit(r)
  PROVE  EntriesSound' /\ BalanceIsSumOfEntries'
<1> DEFINE d == dto[r]
           D == Entry(r, d.sender, "debit", d.amount)
           C == Entry(r, d.receiver, "credit", d.amount)
           half == entries \cup {D}
<1>1. /\ d.sender \in Accounts /\ d.receiver \in Accounts /\ d.amount \in Int
      /\ accounts' = Credited(d)
      /\ \A j \in journal : j.id # r
      /\ journal' = journal \cup {JournalRow(r, d.key, d.sender, d.amount)}
      /\ entries' = half \cup {C}
  <2>1. entries \cup {D, C} = half \cup {C}
    OBVIOUS
  <2> QED
    BY <2>1, CommitMovesMoney
<1>2. /\ D.account = d.sender /\ D.direction = "debit" /\ D.amount = d.amount /\ D.journal = r
      /\ C.account = d.receiver /\ C.direction = "credit" /\ C.amount = d.amount /\ C.journal = r
      /\ JournalRow(r, d.key, d.sender, d.amount).id = r
  BY DEF Entry, JournalRow
<1> HIDE DEF d, D, C
<1>3. D \notin entries /\ C \notin half
  BY <1>1, <1>2 DEF EntriesSound
<1>4. /\ IsFiniteSet(entries) /\ IsFiniteSet(half) /\ IsFiniteSet(half \cup {C})
      /\ \A e \in entries : e.amount \in Int
      /\ \A e \in half : e.amount \in Int
  BY <1>1, <1>2, FS_AddElement DEF EntriesSound
<1>5. EntriesSound'
  <2>1. \A e \in half \cup {C} : e.amount \in Int /\ \E j \in journal' : e.journal = j.id
    BY <1>1, <1>2 DEF EntriesSound
  <2> QED
    BY <1>1, <1>4, <2>1 DEF EntriesSound
<1>6. ASSUME NEW id \in Accounts, NEW way
      PROVE  /\ Total(entries, id, way) \in Int
             /\ (id = d.sender /\ way = "debit") =>
                  Total(half, id, way) = Total(entries, id, way) + d.amount
             /\ ~ (id = d.sender /\ way = "debit") =>
                  Total(half, id, way) = Total(entries, id, way)
             /\ (id = d.receiver /\ way = "credit") =>
                  Total(entries', id, way) = Total(half, id, way) + d.amount
             /\ ~ (id = d.receiver /\ way = "credit") =>
                  Total(entries', id, way) = Total(half, id, way)
  <2>1. /\ Total(entries, id, way) \in Int
        /\ (D.account = id /\ D.direction = way) =>
             Total(half, id, way) = Total(entries, id, way) + D.amount
        /\ ~ (D.account = id /\ D.direction = way) =>
             Total(half, id, way) = Total(entries, id, way)
    BY <1>1, <1>2, <1>3, <1>4, TotalGrows
  <2> HIDE DEF half
  <2>2. /\ (C.account = id /\ C.direction = way) =>
             Total(half \cup {C}, id, way) = Total(half, id, way) + C.amount
        /\ ~ (C.account = id /\ C.direction = way) =>
             Total(half \cup {C}, id, way) = Total(half, id, way)
    BY <1>1, <1>2, <1>3, <1>4, TotalGrows
  <2> QED
    BY <1>1, <1>2, <2>1, <2>2
<1>7. \A id \in Accounts :
        accounts[id].balance = OpeningBalance[id] + Total(entries, id, "credit")
                                                  - Total(entries, id, "debit")
  BY DEF BalanceIsSumOfEntries, Total
<1>8. ASSUME NEW id \in Accounts
      PROVE  accounts'[id].balance = OpeningBalance[id] + Total(entries', id, "credit")
                                                        - Total(entries', id, "debit")
  <2> DEFINE cr == Total(entries, id, "credit")
             db == Total(entries, id, "debit")
             cr1 == Total(entries', id, "credit")
             db1 == Total(entries', id, "debit")
  <2>1. /\ cr \in Int /\ db \in Int
        /\ cr1 = IF id = d.receiver THEN cr + d.amount ELSE cr
        /\ db1 = IF id = d.sender THEN db + d.amount ELSE db
    BY <1>6
  <2>2. /\ OpeningBalance[id] \in Int
        /\ accounts[id].balance = OpeningBalance[id] + cr - db
    BY <1>7, BalanceAssumption
  <2>3. accounts'[id].balance =
          accounts[id].balance + (IF id = d.receiver THEN d.amount ELSE 0)
                               - (IF id = d.sender THEN d.amount ELSE 0)
    <3>1. accounts[id].balance \in Int
      BY DEF Types, Row
    <3>2. /\ Credited(d)[d.sender] = Debited(d)[d.sender] \/ d.receiver = d.sender
          /\ Debited(d)[d.sender].balance = accounts[d.sender].balance - d.amount
          /\ d.receiver # d.sender =>
               Credited(d)[d.receiver].balance = accounts[d.receiver].balance + d.amount
          /\ d.receiver = d.sender =>
               Credited(d)[d.receiver].balance = accounts[d.receiver].balance
          /\ \A x \in Accounts \ {d.sender, d.receiver} : Credited(d)[x] = accounts[x]
      BY <1>1, MovementRows DEF Types
    <3> QED
      BY <1>1, <3>1, <3>2
  <2> HIDE DEF cr, db, cr1, db1
  <2>4. accounts'[id].balance = OpeningBalance[id] + cr1 - db1
    BY <1>1, <2>1, <2>2, <2>3
  <2> QED
    BY <2>4 DEF cr1, db1
<1> QED
  BY <1>5, <1>8 DEF BalanceIsSumOfEntries, Total

\* Every balance is explained to the last unit by the entries, whatever the calls
\* interleave, retry or leave half done.
THEOREM BooksAddUp == Spec => []BalanceIsSumOfEntries
<1>1. Init => EntriesSound /\ BalanceIsSumOfEntries
  <2> SUFFICES ASSUME Init PROVE EntriesSound /\ BalanceIsSumOfEntries
    OBVIOUS
  <2>1. EntriesSound
    BY FS_EmptySet DEF Init, EntriesSound
  <2>2. ASSUME NEW id \in Accounts, NEW way
        PROVE  Total(entries, id, way) = 0
    <3>1. {e \in entries : e.account = id /\ e.direction = way} = {}
      BY DEF Init
    <3> QED
      BY <3>1, SumEmpty DEF Total
  <2>3. \A id \in Accounts :
          accounts[id].balance = OpeningBalance[id] + Total(entries, id, "credit")
                                                    - Total(entries, id, "debit")
    BY <2>2, BalanceAssumption DEF Init
  <2> QED
    BY <2>1, <2>3 DEF BalanceIsSumOfEntries, Total
<1>2. Types /\ HeldUntilCommit /\ EntriesSound /\ BalanceIsSumOfEntries /\ [Next]_vars
        => EntriesSound' /\ BalanceIsSumOfEntries'
  <2> SUFFICES ASSUME Types, HeldUntilCommit, EntriesSound, BalanceIsSumOfEntries, [Next]_vars
               PROVE  EntriesSound' /\ BalanceIsSumOfEntries'
    OBVIOUS
  <2>1. CASE UNCHANGED tables
    BY <2>1 DEF tables, EntriesSound, BalanceIsSumOfEntries
  <2>2. CASE \E r \in Requests : Commit(r)
    BY <2>2, BooksStep
  <2> QED
    BY <2>1, <2>2, TablesStep
<1> QED
  BY <1>1, <1>2, HeldUntilCommitHolds, PTL DEF Spec

\* A relative update of one row changes the money of all accounts by its delta.
LEMMA MovedMoney ==
  ASSUME NEW rows \in [Accounts -> Row], NEW id \in Accounts, NEW delta \in Int
  PROVE  /\ SumFunction([x \in Accounts |-> rows[x].balance]) \in Int
         /\ SumFunction([x \in Accounts |-> Moved(rows, id, delta)[x].balance]) =
              SumFunction([x \in Accounts |-> rows[x].balance]) + delta
<1> DEFINE f == [x \in Accounts |-> rows[x].balance]
           g == [x \in Accounts |-> Moved(rows, id, delta)[x].balance]
<1>1. /\ \A x \in Accounts : f[x] \in Int /\ g[x] \in Int
      /\ \A x \in Accounts \ {id} : g[x] = f[x]
      /\ g[id] = f[id] + delta
  BY MovedType DEF Row
<1>2. /\ SumFunction(f) = SumFunctionOnSet(f, Accounts)
      /\ SumFunction(g) = SumFunctionOnSet(g, Accounts)
  BY DEF SumFunction
<1> HIDE DEF f, g
<1>3. SumFunctionOnSet(f, Accounts) \in Int /\ f[id] \in Int
  BY <1>1, SumType, AccountsAssumption
<1>4. SumFunctionOnSet(g, Accounts) = SumFunctionOnSet(f, Accounts) + g[id] - f[id]
  <2>1. ASSUME NEW S, S = Accounts
        PROVE  SumFunctionOnSet(g, S) = SumFunctionOnSet(f, S) + g[id] - f[id]
    <3>1. IsFiniteSet(S) /\ id \in S
      BY <2>1, AccountsAssumption
    <3>2. \A x \in S : f[x] \in Int /\ g[x] \in Int
      BY <1>1, <2>1
    <3>3. \A x \in S \ {id} : g[x] = f[x]
      BY <1>1, <2>1
    <3> QED
      BY <3>1, <3>2, <3>3, SumUpdate
  <2> QED
    BY <2>1
<1>5. /\ SumFunction(f) \in Int
      /\ SumFunction(g) = SumFunction(f) + delta
  BY <1>1, <1>2, <1>3, <1>4
<1> QED
  BY <1>5 DEF f, g

\* No interleaving of calls, failure or retry makes or destroys money.
THEOREM MoneyKept == Spec => []MoneyIsConserved
<1> DEFINE money(rows) == SumFunction([id \in Accounts |-> rows[id].balance])
<1>1. Init => MoneyIsConserved
  <2> SUFFICES ASSUME Init PROVE MoneyIsConserved
    OBVIOUS
  <2>1. [id \in Accounts |-> accounts[id].balance] = OpeningBalance
    BY BalanceAssumption DEF Init
  <2> QED
    BY <2>1 DEF MoneyIsConserved
<1>2. Types /\ HeldUntilCommit /\ MoneyIsConserved /\ [Next]_vars => MoneyIsConserved'
  <2> SUFFICES ASSUME Types, HeldUntilCommit, MoneyIsConserved, [Next]_vars
               PROVE  MoneyIsConserved'
    OBVIOUS
  <2>1. CASE UNCHANGED tables
    BY <2>1 DEF tables, MoneyIsConserved
  <2>2. ASSUME NEW r \in Requests, Commit(r)
        PROVE  MoneyIsConserved'
    <3> DEFINE d == dto[r]
    <3>1. /\ d.sender \in Accounts /\ d.receiver \in Accounts
          /\ d.amount \in Int /\ -d.amount \in Int
          /\ accounts' = Credited(d)
      BY <2>2, CommitMovesMoney
    <3> HIDE DEF d
    <3>2. Debited(d) \in [Accounts -> Row] /\ accounts \in [Accounts -> Row]
      BY <3>1, MovementRows DEF Types
    <3> HIDE DEF money
    <3>3. money(accounts) \in Int /\ money(Debited(d)) = money(accounts) + (-d.amount)
      BY <3>1, <3>2, MovedMoney DEF Debited, money
    <3>4. money(Credited(d)) = money(Debited(d)) + d.amount
      BY <3>1, <3>2, MovedMoney DEF Credited, money
    <3>5. money(accounts') = money(accounts)
      BY <3>1, <3>3, <3>4
    <3> QED
      BY <3>5 DEF MoneyIsConserved, money
  <2> QED
    BY <2>1, <2>2, TablesStep
<1> QED
  BY <1>1, <1>2, HeldUntilCommitHolds, PTL DEF Spec
=============================================================================
