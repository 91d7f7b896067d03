------------------------------ MODULE Transfer ------------------------------
(***************************************************************************)
(* The ledger's POST /ledger/transfer as it runs: one goroutine per call,  *)
(* each a chain of SQL statements on a shared connection pool, the writing *)
(* part inside one READ COMMITTED transaction                              *)
(* (src/ledger/internal/ledger/service.go).                                *)
(*                                                                         *)
(* The four tables hold what is committed.  Until Commit a transaction's   *)
(* own writes are in work[r]; what others can see of them is a row lock    *)
(* (SELECT ... FOR UPDATE) or a wait on the unique index of the journal.   *)
(***************************************************************************)
EXTENDS LedgerRows, FiniteSets, Functions

CONSTANTS
  Requests,        \* the calls, retries included
  Keys,            \* idempotency keys
  Ids,             \* account ids a caller may name ...
  Accounts,        \* ... and those that have a row in public.accounts
  Dtos,            \* the bodies callers send
  OpeningBalance,  \* seeded balances (the service never inserts an account)
  MaxBalance,      \* the largest value of a bigint
  MaxConns,        \* size of the pgx pool
  None             \* no holder

ASSUME AccountsAssumption == Accounts \subseteq Ids /\ IsFiniteSet(Accounts)
ASSUME DtosAssumption ==
  Dtos \subseteq [key : Keys, sender : Ids, receiver : Ids, amount : Int]
ASSUME BalanceAssumption ==
  MaxBalance \in Nat /\ OpeningBalance \in [Accounts -> 0..MaxBalance]
ASSUME NoneAssumption == None \notin Requests
ASSUME PoolAssumption == MaxConns \in Nat \ {0}

VARIABLES
  accounts,  \* public.accounts: account -> [balance, version]
  journal,   \* public.journal
  entries,   \* public.entries
  outbox,    \* public.outbox
  locks,     \* account -> the call whose transaction holds its row, or None
  dto,       \* call -> the body it was sent with
  pc,        \* call -> the statement it is about to run
  read,      \* call -> the sender balance it read last
  work,      \* call -> the rows its transaction has written, uSender and uReceiver
  reply      \* call -> what transferMoneyUsecase returned

tables == <<accounts, journal, entries, outbox>>
vars == <<accounts, journal, entries, outbox, locks, dto, pc, read, work, reply>>

Row == [balance : Int, version : Nat]

\* The statements that run on the pool, and those that run on the transaction's connection.
PoolPCs == {"findSender", "findReceiver", "begin"}
TxPCs   == {"lockSender", "lockReceiver", "insertJournal", "post", "commit"}
PCs     == {"new", "done"} \cup PoolPCs \cup TxPCs

\* What a call can end with.  The names of database errors stand for their SQLSTATE;
\* ErrorWrapper answers "db_error" and all of them with 500.
Refusals == {"malformed", "invalid", "sender_not_found", "receiver_not_found",
             "insufficient", "check_violation", "duplicate_key", "out_of_range",
             "deadlock"}
Outcomes == {"none", "ok", "db_error", "lost"} \cup Refusals

NoWork == [uSender |-> [balance |-> 0, version |-> 0],
           uReceiver |-> [balance |-> 0, version |-> 0]]

-----------------------------------------------------------------------------
InTx(r) == pc[r] \in TxPCs

\* A statement outside a transaction borrows a connection for as long as it runs.
FreeConn == Cardinality({r \in Requests : InTx(r)}) < MaxConns

\* Mutant: no deferred Rollback, only a commit lets go of the rows.
Released_CommitOnly(R) ==
  [id \in Accounts |-> IF locks[id] \in R /\ pc[locks[id]] = "commit" THEN None ELSE locks[id]]

\* Row locks die with their transaction, on commit and on rollback alike.
Released(R) == [id \in Accounts |-> IF locks[id] \in R THEN None ELSE locks[id]]

Goto(r, next) == pc' = [pc EXCEPT ![r] = next]

\* The usecase returns: the deferred Rollback, or the commit, ends the transaction.
Respond(r, outcome) ==
  /\ Goto(r, "done")
  /\ reply' = [reply EXCEPT ![r] = outcome]
  /\ locks' = Released({r})
  /\ read' = [read EXCEPT ![r] = 0]
  /\ work' = [work EXCEPT ![r] = NoWork]

\* The balance test, the same before the transaction and under its locks.
Covers(balance, amount) == ~ (balance < 0 \/ amount > balance)

\* Mutant: the test before the transaction is believed.
CoversLocked_Unchecked(r) == TRUE

\* The test under the locks, on the balance LockSender read.
CoversLocked(r) == Covers(read[r], dto[r].amount)

\* Mutant: a plain SELECT where the code says FOR UPDATE.
RowFree_NoLock(r, id) == TRUE

\* SELECT ... FOR UPDATE goes on when no other transaction holds the row.
RowFree(r, id) == locks[id] \in {None, r}

\* Mutant: the column has no CHECK.
Positive_NoCheck(amount) == TRUE

\* journal_amount_check and entries_amount_check.
Positive(amount) == amount > 0

\* Mutant: the index is not unique.
KeyUsed_NoIndex(key) == FALSE

\* A committed movement has the key.
KeyUsed(key) == \E j \in journal : j.key = key

\* Mutant: the unique index overlooks rows that are not committed yet.
HoldsKey_CommittedOnly(q, key) == FALSE

\* Mutant: the journal row is inserted first, before the row locks are taken.
HoldsKey_KeyFirst(q, key) ==
  pc[q] \in {"lockReceiver", "insertJournal", "post", "commit"} /\ dto[q].key = key

\* The call q has an uncommitted journal row with the key.
HoldsKey(q, key) == pc[q] \in {"post", "commit"} /\ dto[q].key = key

\* Mutant: the conflict is taken for a success (ON CONFLICT DO NOTHING).
ConflictOutcome_Ok == "ok"

\* insertJournal on a used key fails with SQLSTATE 23505.
ConflictOutcome == "duplicate_key"

\* Mutant: the delta loses its sign on the way to updateAccountBalance.
Debited_SignLost(d) == Moved(accounts, d.sender, d.amount)

\* The accounts after the debit, and after the credit that follows it.
Debited(d) == Moved(accounts, d.sender, -d.amount)

\* Mutant: the credit is computed from the rows read before the debit.
Credited_StaleRow(d) == Moved(accounts, d.receiver, d.amount)

Credited(d) == Moved(Debited(d), d.receiver, d.amount)

\* Mutant: sums are not checked against the width of the column.
Fits_Unbounded(balance) == TRUE

\* The balance column is a bigint.
Fits(balance) == balance <= MaxBalance

-----------------------------------------------------------------------------
Init ==
  /\ accounts = [id \in Accounts |-> [balance |-> OpeningBalance[id], version |-> 0]]
  /\ journal = {}
  /\ entries = {}
  /\ outbox = {}
  /\ locks = [id \in Accounts |-> None]
  /\ dto \in [Requests -> Dtos]
  /\ pc = [r \in Requests |-> "new"]
  /\ read = [r \in Requests |-> 0]
  /\ work = [r \in Requests |-> NoWork]
  /\ reply = [r \in Requests |-> "none"]

\* HandleTransferMoney decodes and validates the body: "required" on an int64
\* refuses 0 and nothing else.
Receive(r) ==
  /\ pc[r] = "new"
  /\ \/ Respond(r, "malformed")
     \/ dto[r].amount = 0 /\ Respond(r, "invalid")
     \/ /\ dto[r].amount # 0
        /\ Goto(r, "findSender")
        /\ UNCHANGED <<locks, read, work, reply>>
  /\ UNCHANGED <<tables, dto>>

\* findAccountById(sender), outside any transaction.
FindSender(r) ==
  /\ pc[r] = "findSender"
  /\ FreeConn
  /\ \/ dto[r].sender \notin Accounts /\ Respond(r, "sender_not_found")
     \/ /\ dto[r].sender \in Accounts
        /\ read' = [read EXCEPT ![r] = accounts[dto[r].sender].balance]
        /\ Goto(r, "findReceiver")
        /\ UNCHANGED <<locks, work, reply>>
  /\ UNCHANGED <<tables, dto>>

\* findAccountById(receiver), then the early test on the balance read before.
FindReceiver(r) ==
  /\ pc[r] = "findReceiver"
  /\ FreeConn
  /\ \/ dto[r].receiver \notin Accounts /\ Respond(r, "receiver_not_found")
     \/ /\ dto[r].receiver \in Accounts
        /\ ~ Covers(read[r], dto[r].amount)
        /\ Respond(r, "insufficient")
     \/ /\ dto[r].receiver \in Accounts
        /\ Covers(read[r], dto[r].amount)
        /\ Goto(r, "begin")
        /\ UNCHANGED <<locks, read, work, reply>>
  /\ UNCHANGED <<tables, dto>>

\* Pool.BeginTx takes a connection and keeps it until the usecase returns.
BeginTx(r) ==
  /\ pc[r] = "begin"
  /\ FreeConn
  /\ Goto(r, "lockSender")
  /\ UNCHANGED <<tables, locks, dto, read, work, reply>>

\* findAccountByIdForUpdate(sender): waits for the row, then reads its latest version.
LockSender(r) ==
  /\ pc[r] = "lockSender"
  /\ RowFree(r, dto[r].sender)
  /\ locks' = [locks EXCEPT ![dto[r].sender] = r]
  /\ read' = [read EXCEPT ![r] = accounts[dto[r].sender].balance]
  /\ Goto(r, "lockReceiver")
  /\ UNCHANGED <<tables, dto, work, reply>>

\* findAccountByIdForUpdate(receiver), then the balance test again, now under both locks.
LockReceiver(r) ==
  /\ pc[r] = "lockReceiver"
  /\ RowFree(r, dto[r].receiver)
  /\ \/ ~ CoversLocked(r) /\ Respond(r, "insufficient")
     \/ /\ CoversLocked(r)
        /\ locks' = [locks EXCEPT ![dto[r].receiver] = r]
        /\ Goto(r, "insertJournal")
        /\ UNCHANGED <<read, work, reply>>
  /\ UNCHANGED <<tables, dto>>

\* insertJournal: the CHECK on the amount, then the unique index, which makes
\* the call wait while another transaction's row with its key is undecided.
InsertJournal(r) ==
  /\ pc[r] = "insertJournal"
  /\ \/ ~ Positive(dto[r].amount) /\ Respond(r, "check_violation")
     \/ /\ Positive(dto[r].amount)
        /\ KeyUsed(dto[r].key)
        /\ Respond(r, ConflictOutcome)
     \/ /\ Positive(dto[r].amount)
        /\ ~ KeyUsed(dto[r].key)
        /\ \A q \in Requests : ~ HoldsKey(q, dto[r].key)
        /\ Goto(r, "post")
        /\ UNCHANGED <<locks, read, work, reply>>
  /\ UNCHANGED <<tables, dto>>

\* The two entries, the two balance updates and the two outbox rows, all on
\* rows this transaction holds.  A receiver's balance may leave bigint.
Post(r) ==
  LET d == dto[r]
  IN /\ pc[r] = "post"
     /\ \/ ~ Fits(Credited(d)[d.receiver].balance) /\ Respond(r, "out_of_range")
        \/ /\ Fits(Credited(d)[d.receiver].balance)
           /\ work' = [work EXCEPT ![r] = [uSender |-> Debited(d)[d.sender],
                                           uReceiver |-> Credited(d)[d.receiver]]]
           /\ Goto(r, "commit")
           /\ UNCHANGED <<locks, read, reply>>
     /\ UNCHANGED <<tables, dto>>

\* Commit publishes the transaction's writes.  The caller may be told of an
\* error although they are in, or of nothing: PostgreSQL also executes a COMMIT
\* that was on its way when the process died.  A movement to oneself leaves the
\* second update.
Commit(r) ==
  LET d == dto[r]
      w == work[r]
  IN /\ pc[r] = "commit"
     /\ accounts' = [accounts EXCEPT ![d.sender] = w.uSender, ![d.receiver] = w.uReceiver]
     /\ journal' = journal \cup {JournalRow(r, d.key, d.sender, d.amount)}
     /\ entries' = entries \cup {Entry(r, d.sender, "debit", d.amount),
                                 Entry(r, d.receiver, "credit", d.amount)}
     /\ outbox' = outbox \cup {Event(r, "debit", d.sender, w.uSender),
                               Event(r, "credit", d.receiver, w.uReceiver)}
     /\ \E outcome \in {"ok", "db_error", "lost"} : Respond(r, outcome)
     /\ UNCHANGED dto

-----------------------------------------------------------------------------
\* A statement fails (connection lost, database restarted): the usecase returns the error.
DbError(r) ==
  /\ pc[r] \in PoolPCs \cup TxPCs
  /\ Respond(r, "db_error")
  /\ UNCHANGED <<tables, dto>>

WaitsFor(q, p) ==
  /\ p # q
  /\ \/ pc[q] = "lockSender" /\ locks[dto[q].sender] = p
     \/ pc[q] = "lockReceiver" /\ locks[dto[q].receiver] = p
     \/ pc[q] = "insertJournal" /\ HoldsKey(p, dto[q].key)

\* A call waits for at most one other, so such a set is a union of cycles.
OnCycle(r) ==
  \E S \in SUBSET Requests :
    /\ r \in S
    /\ \A q \in S : (\E p \in S : WaitsFor(q, p)) /\ (\E p \in S : WaitsFor(p, q))

\* PostgreSQL's deadlock detector aborts one of the transactions of a cycle.
DeadlockAbort(r) ==
  /\ InTx(r)
  /\ OnCycle(r)
  /\ Respond(r, "deadlock")
  /\ UNCHANGED <<tables, dto>>

\* The ledger process dies and is started again: every call in flight is cut
\* off, and its transaction rolled back.  Those whose COMMIT still arrives have
\* taken Commit with the outcome "lost" before.
Crash ==
  LET cut == {r \in Requests : pc[r] \notin {"new", "done"}}
  IN /\ cut # {}
     /\ pc' = [r \in Requests |-> IF r \in cut THEN "done" ELSE pc[r]]
     /\ reply' = [r \in Requests |-> IF r \in cut THEN "lost" ELSE reply[r]]
     /\ locks' = Released(cut)
     /\ read' = [r \in Requests |-> 0]
     /\ work' = [r \in Requests |-> NoWork]
     /\ UNCHANGED <<tables, dto>>

\* Every call has ended; nothing is left to do.
AllAnswered ==
  /\ \A r \in Requests : pc[r] = "done"
  /\ UNCHANGED vars

Step(r) ==
  \/ Receive(r)
  \/ FindSender(r)
  \/ FindReceiver(r)
  \/ BeginTx(r)
  \/ LockSender(r)
  \/ LockReceiver(r)
  \/ InsertJournal(r)
  \/ Post(r)
  \/ Commit(r)
  \/ DeadlockAbort(r)

Next ==
  \/ \E r \in Requests : Step(r) \/ DbError(r)
  \/ Crash
  \/ AllAnswered

\* A goroutine keeps running its statements, PostgreSQL grants a free row to
\* a waiter and looks for deadlocks.  Failures are never owed.
Fairness == \A r \in Requests : WF_vars(Step(r))

Spec == Init /\ [][Next]_vars

FairSpec == Spec /\ Fairness

-----------------------------------------------------------------------------
\* Type invariant: every balance, committed or about to be, fits its column.
TypeOK ==
  /\ accounts \in [Accounts -> [balance : -MaxBalance..MaxBalance, version : Nat]]
  /\ journal \subseteq [id : Requests, key : Keys, account : Accounts, amount : Nat \ {0}]
  /\ entries \subseteq [journal : Requests, account : Accounts,
                        direction : {"debit", "credit"}, amount : Nat \ {0}]
  /\ outbox \subseteq [journal : Requests, side : {"debit", "credit"},
                       account : Accounts, balance : Int, version : Nat]
  /\ locks \in [Accounts -> Requests \cup {None}]
  /\ dto \in [Requests -> Dtos]
  /\ pc \in [Requests -> PCs]
  /\ read \in [Requests -> Int]
  /\ work \in [Requests -> [uSender : Row, uReceiver : Row]]
  /\ reply \in [Requests -> Outcomes]

\* No account is ever overdrawn, however the calls that drain it interleave
\* between the early balance test and the one under the locks.
NoOverdraft == \A id \in Accounts : accounts[id].balance >= 0

\* One idempotency key moves money at most once, whatever is retried and
\* whichever transactions insert the same key at the same time.
OneMovementPerKey == \A i, j \in journal : i.key = j.key => i = j

\* The outbox is a complete history: every version of an account was announced
\* by exactly one event, and the last one carries the balance the row has, a
\* movement from an account to itself included.
EventsMatchVersions ==
  \A id \in Accounts :
    LET mine == {e \in outbox : e.account = id}
    IN /\ \A e \in mine : e.version \in 1..accounts[id].version
       /\ \A e, f \in mine : e.version = f.version => e = f
       /\ \A v \in 1..accounts[id].version : \E e \in mine : e.version = v
       /\ \A e \in mine : e.version = accounts[id].version => e.balance = accounts[id].balance

\* The balance of an account is what it opened with and its entries since: no
\* update is lost and none is made twice.
BalanceIsSumOfEntries ==
  LET amount == [e \in entries |-> e.amount]
      total(id, way) ==
        SumFunctionOnSet(amount, {e \in entries : e.account = id /\ e.direction = way})
  IN \A id \in Accounts :
       accounts[id].balance = OpeningBalance[id] + total(id, "credit") - total(id, "debit")

\* Calls move money between the accounts, they never make or destroy any: all
\* balances together are what they were at the start, whatever is retried,
\* refused, cut off or raced for.
MoneyIsConserved ==
  SumFunction([id \in Accounts |-> accounts[id].balance]) = SumFunction(OpeningBalance)

\* What a caller is told is what happened: "ok" means this very call moved the
\* money, a refusal means it did not; after "db_error" or a cut connection
\* either may be the case.
AnswerMatchesLedger ==
  \A r \in Requests :
    /\ reply[r] = "ok" => \E j \in journal : j.id = r
    /\ reply[r] \in Refusals => \A j \in journal : j.id # r
    /\ reply[r] = "duplicate_key" => \E j \in journal : j.key = dto[r].key

\* A row lock belongs to a transaction that is open and named that row: no
\* early return leaves one behind.
NoLeakedLocks ==
  \A id \in Accounts :
    LET r == locks[id]
    IN r # None => /\ pc[r] \in TxPCs \ {"lockSender"}
                   /\ id \in {dto[r].sender, dto[r].receiver}

\* Only calls that still lack a row lock can deadlock.  One that waits for a
\* key holds both rows, and the call it waits for waits for nothing.
DeadlocksOnlyOnRows ==
  \A r \in Requests : OnCycle(r) => pc[r] \in {"lockSender", "lockReceiver"}

\* Money only leaves an account that a call names as its sender: a negative
\* amount, which the validator and both balance tests let through, must not
\* pull money out of the receiver.
OnlySendersPay ==
  [][\A id \in Accounts :
       accounts'[id].balance < accounts[id].balance =>
         \E r \in Requests : pc[r] = "commit" /\ pc'[r] = "done" /\ dto[r].sender = id]_vars

\* The ledger implements its abstraction: every step of the goroutines is one
\* atomic movement or leaves the tables alone.
Ledger == INSTANCE Posting
Posts == Ledger!Spec

-----------------------------------------------------------------------------
\* The inductive invariant behind the properties, in parts.

BothLocked == {"insertJournal", "post", "commit"}
Keyed      == {"post", "commit"}

\* A call past a lookup names an account that exists.
RowsExist ==
  \A r \in Requests :
    /\ pc[r] \in {"findReceiver", "begin"} \cup TxPCs => dto[r].sender \in Accounts
    /\ pc[r] \in {"begin"} \cup TxPCs => dto[r].receiver \in Accounts

\* A call past a lock still holds it.
LocksHeld ==
  \A r \in Requests :
    /\ pc[r] \in {"lockReceiver"} \cup BothLocked => locks[dto[r].sender] = r
    /\ pc[r] \in BothLocked => locks[dto[r].receiver] = r

\* What was read or tested under the lock is still true of the row.
FundsHeld ==
  \A r \in Requests :
    /\ pc[r] = "lockReceiver" => read[r] = accounts[dto[r].sender].balance
    /\ pc[r] \in BothLocked => dto[r].amount <= accounts[dto[r].sender].balance

\* A call past the unique index is alone with its key.
KeysHeld ==
  \A r \in Requests :
    pc[r] \in Keyed =>
      /\ dto[r].amount > 0
      /\ ~ KeyUsed(dto[r].key)
      /\ \A q \in Requests : HoldsKey(q, dto[r].key) => q = r

\* The uncommitted rows are what the updates would still give.
WorkCurrent ==
  \A r \in Requests :
    pc[r] = "commit" =>
      /\ work[r].uSender = Debited(dto[r])[dto[r].sender]
      /\ work[r].uReceiver = Credited(dto[r])[dto[r].receiver]
      /\ Fits(work[r].uReceiver.balance)

\* Only a call that has ended is in the journal or has a reply.
OpenCallsUnposted ==
  \A r \in Requests :
    pc[r] # "done" => reply[r] = "none" /\ \A j \in journal : j.id # r

BalancesFit == \A id \in Accounts : accounts[id].balance \in 0..MaxBalance

\* Between the two balance tests and the commit nothing a call relies on moves.
HeldUntilCommit ==
  /\ RowsExist
  /\ LocksHeld
  /\ FundsHeld
  /\ KeysHeld
  /\ WorkCurrent
  /\ OpenCallsUnposted
  /\ BalancesFit

\* Every call that was received is answered or cut off: no lock, no key and no
\* connection is waited for forever.
EveryCallAnswered ==
  \A r \in Requests : pc[r] # "new" ~> pc[r] = "done"
=============================================================================
