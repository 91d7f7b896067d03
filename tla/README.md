# Formal models of banking-lab

TLA+ models of the services of this repository, the TLC configurations that
model-check them on small instances, and TLAPS proofs that hold for every
instance. Paths below are relative to the repository's root.

## 1. The system

Four services behind one nginx proxy, each with a PostgreSQL database of its own,
and one RabbitMQ broker between them.

```
  POST /ledger/transfer          POST /accounts            POST /antifraud/evaluate
          |                      PATCH /accounts/:id/deactivate      |
     +----------+   ledger.balance   +----------+  accounts.account  +-----------+
     |  ledger  | -----------------> | accounts | -----------------> | antifraud |
     +----------+  balance.updated   +----------+  account.created   +-----------+
      outbox relay     (topic)       projection,        (topic)       projection,
                                     outbox relay                     evaluations
```

| Component | State it keeps | Operations | Talks to |
|---|---|---|---|
| Ledger: transfer (`ledger/internal/ledger/service.go`) | tables `accounts`, `journal`, `entries`, `outbox`; row locks, transactions and connections of a pgx pool | `POST /ledger/transfer`: two lookups, an early balance test, then one READ COMMITTED transaction | its database; the relay, through `outbox` |
| Ledger: outbox relay (`outbox.go`) | `outbox.status`, the batch in hand, the loop's variable `err` | every 100 ms: fetch pending, count the attempt, publish without confirms, mark sent | exchange `ledger.balance` |
| Accounts: balance projection (`accounts/app.js`, `updateAccountBalance.js`) | `accounts.balance`, `balance_version` | consume, UPDATE by version, ack or nack to a dead letter queue | queue `accounts.balance-projection` |
| Accounts: create, deactivate | `accounts`, `outbox` | one transaction over both tables; one conditional UPDATE and a lookup of the reason | its database |
| Accounts: outbox relay (`outboxRelay.js`) | `outbox.status`, the batch in hand | fetch pending, count the attempt, publish persistent, wait for the confirm, mark sent | exchange `accounts.account` |
| Antifraud: account projection (`antifraud/app.js`) | `account_projections` | INSERT ... ON CONFLICT DO NOTHING, ack or nack | queue of `account.created` |
| Antifraud: evaluate (`evaluate.js`) | `risk_evaluations` (`tx_id` UNIQUE), `rule_sets` | look up the tx_id, load the rule set, four parallel feature queries, INSERT | its database |
| Antifraud: risk rules (`riskRules.js`) | none | pure functions of rule set, transaction, features | called by evaluate |
| Accounts: HTTP API and pool (`server.js`, `src/db.js`, controllers) | the clients of the connection pool and the queue for them | `GET /health`, `POST /accounts`, `PATCH /accounts/:id/deactivate`; validation, error middleware | its database; clients over HTTP |
| Smoke scripts (`accounts/smokes/*.js`) | per virtual user a list of active and one of deactivated accounts; deadline, results, exit code | health check, seed the lists, launch the users, wait for them, report | the HTTP API; the accounts table, for the seed |

What is hard in it, and what makes each part correct:

* **Transfer.** Goroutines interleave between any two statements. The balance is
  tested before the transaction starts and again under row locks, which are taken
  in the caller's order, so that opposite transfers deadlock and PostgreSQL aborts
  one. A retry with the same key meets the unique index, perhaps while the first
  call's row is uncommitted. An error, a crash or a lost answer to COMMIT may come
  anywhere. *Correct if* no account is overdrawn, a key moves money once, balances
  are what the entries say, every version of a balance is announced once with the
  balance it had, callers are told the truth and are always answered, and the
  whole looks like one atomic step.
* **Balance feed.** Publishing and marking are two steps without a confirm
  between them; the pending rows come in no order; the consumer has no prefetch
  limit and its handlers overlap; everything can be delivered twice. *Correct if*
  the balances shown are committed ones that never go back, what was acknowledged
  is shown, what was marked sent is not lost between the relay and the projection,
  and the projection converges. Without confirms, `Publish` returning nil only means
  that bytes were written, so the third of these holds with an exception (see 3, 5).
* **Account feed.** The two rows of a creation must stand or fall together;
  deactivations race; the feed has confirms and persistence. *Correct if* exactly
  the committed accounts are announced, the `deactivated_at` one call has set is not
  overwritten by another, and every account comes to be projected.
* **Evaluate.** Calls interleave at every `await`; the features are four queries
  that see four states of the table, and the row they lead to is inserted later;
  the rule version may change with a redeployment; the age of an account is only
  known once its event has come. *Correct if* a `tx_id` has one decision that
  everybody gets, earlier evaluations are counted, a new account never passes for
  an old one.
* **HTTP API and smoke scripts.** A request that gets no client of the pool waits
  without a limit, and `fetch` has no timeout either; every way out of a use case must
  give its client back. The answer of a COMMIT or an UPDATE can be lost. The virtual
  users of a script start from copies of one list, then deactivate each other's
  accounts; an account leaves the active list before its request is made and joins the
  other one after it, if the answer was ok. *Correct if* what a user believes is out of
  date at worst and never wrong, the exit code blames the service exactly when it
  failed, no client leaks, a run ends, and accounts stay and are deactivated once.
* **Risk rules.** Boundaries: a window that crosses midnight, tiers, `>=` next to
  `>`, a count that includes the transaction itself. *Correct if* they decide what
  the README's table says; two of its hard rules have no code (see 5).

## 2. Modules

| Module | What it is |
|---|---|
| `LedgerRows` | the rows of the ledger's tables and the UPDATE that moves a balance |
| `Posting` | abstract ledger: a movement is one atomic step over four tables |
| `Transfer` | the ledger's transfer statement by statement; implements `Posting` |
| `SumLemmas` | lemmas about sums over finite sets, without induction (see 4) |
| `TransferProofs` | theorems about `Transfer`, for all constants |
| `Mailbox` | one RabbitMQ queue with its dead letter queue, as operators |
| `Projection` | abstract promise of the balances shown |
| `BalanceFeed` | `Posting`, the ledger's relay, broker, consumer; implements `Projection` |
| `AccountFeed` | create and deactivate, the accounts' relay, broker, consumer |
| `RiskRules` | the rules, score and decision as operators |
| `RiskTable` | one transaction per state, held against a reference definition |
| `RiskProofs` | theorems about the rules: any well-formed rule set, and V1 |
| `Evaluate` | concurrent evaluations over `risk_evaluations`, using `RiskRules` |
| `DecidedOnce` | abstract promise of the evaluations: a transaction is decided once, callers are told that decision |
| `AccountLife` | abstract promise of the accounts table: rows stay, deactivation happens once |
| `AccountsApi` | the HTTP side of the accounts service over its connection pool |
| `SmokeRequests` | the requests the smoke scripts make, with the answers they count as ok |
| `SmokeCreation`, `SmokeDeactivation`, `SmokeFolders`, `SmokeZod` | what differs between the four scripts: seed, choice of the next request, verdict |
| `Smoke` | a script and its users, composed with `AccountsApi`; implements `AccountLife` |
| `MailboxProofs` | lemmas about `Mailbox`, used by the two feeds' proofs |
| `BalanceProofs`, `AccountProofs` | theorems about `BalanceFeed` and `AccountFeed`, for all constants |
| `EvaluateProofs`, `SmokeProofs` | theorems about `Evaluate` and `Smoke`, for all constants |
| `MC...` | instances for TLC |

Five refinements (`INSTANCE`, for `AccountLife` and `DecidedOnce` with an explicit
substitution, and the abstract specification as a property) tie them together: `Transfer` implements
`Posting` (`Posts`), `BalanceFeed` implements `Projection` (`Projects`), `Smoke` and
`AccountFeed` both implement `AccountLife` (`Lives`), the one with callers and a pool
and the other with the transactions of the use cases, and `Evaluate` implements
`DecidedOnce` (`DecidesOnce`). Each is model-checked and proved.

`BalanceFeed` extends `Posting` rather than `Transfer`: `Transfer` implements
`Posting` (model-checked and proved), so what the feed shows of atomic transfers
holds for the goroutines' as well, and the two can be checked separately.
`AccountFeed` hands over to `Evaluate` through one variable, `projected`, which
`Evaluate` lets grow at any time.

### Transfer

`pc[r]` names the SQL statement call `r` is about to run. Each action is one
statement with the Go code up to the next one:

| Action | Code |
|---|---|
| `Receive` | `HandleTransferMoney`, `DecodeAndValidate` |
| `FindSender`, `FindReceiver` | the two `findAccountById`, and the early balance test |
| `BeginTx` | `Pool.BeginTx` |
| `LockSender`, `LockReceiver` | the two `findAccountByIdForUpdate`, and the second balance test |
| `InsertJournal` | `insertJournal` with its CHECK and its unique index |
| `Post` | both `insertEntry`, both `updateAccountBalance`, both `insertOutbox` |
| `Commit` | `tx.Commit`, whose answer may be an error although it went in, or be lost with the process |
| `DbError`, `DeadlockAbort`, `Crash` | a failed statement, PostgreSQL's deadlock detector, the end of the process |

The statements of `Post` are one action because they work on rows the transaction
holds, on inserts nobody can see, and on an amount whose CHECK `insertJournal` has
already passed; an error between them has the effect of `DbError`. Uncommitted
writes live in `work[r]`; what other transactions see of them is a row lock or a
wait on the index (`HoldsKey`). READ COMMITTED means that a waiter sees the latest
committed row once it has the lock. A lookup outside a transaction needs a free
connection, which is what makes the pool a resource. Two details that look odd
are the code's: an amount of 0 is refused by the validator, a negative one passes
it and both balance tests and is stopped by the CHECK; and a transfer of an account
to itself is allowed, updates one row twice and announces two versions.

### Mailbox, BalanceFeed, AccountFeed

A message is one publication of an event; `mail` maps every message ever published
to where it is: in the queue, with a handler (at the statement it is about to run),
acknowledged, in the dead letter queue, or lost. The queue has no order, because
handlers overlap at every `await` and neither service sets a prefetch limit, so
that messages take effect in any order whatever the broker does. A topic exchange
drops what no queue is bound for (`Route`).

The ledger's relay is the loop of `OutboxObserver` with its variable `err`; the
`if err != nil` of outbox.go:30 is `Panics`. `Faults` and `MaxFaults` choose and
bound the failures: a failed statement (which may have been executed), a failed
publish, a connection that drops, crashes of either process, a restart of the broker.
`outbox.go` publishes without confirms: nil from `Publish` means that the bytes were
written. `Publish` is the case where they reach the exchange; `PublishLost` is the case
where the connection drops first, and the relay goes on to mark the event sent all the
same. The accounts' relay waits for a confirm and cannot lose a message so. After a
restart of the broker the transient messages of the ledger are gone (`Forgotten`), and
the persistent ones of
the accounts service are back in their queue, except for one that was not confirmed
yet. `amqplib` does not reconnect, so its clients rest until their process is
started again; go-rabbitmq, in the ledger, does.

The accounts table is two variables in `AccountFeed` as in `AccountsApi`: `rows`, and
`deactivated_at`, which holds the call whose UPDATE set it. A second UPDATE that
overwrote it would therefore be a visible step, and one that `AccountLife` does not
allow. When the accounts process ends (`AccountsCrash`, and `Crash` of `AccountsApi`),
PostgreSQL may still execute what it had received: any of the COMMITs under way, and
of the UPDATEs of one account at most one with an effect (`LeftBehind`). This is why a
step of `AccountLife` may hold the transactions of several callers.

### RiskRules, RiskTable, Evaluate

Rule sets are records with the fields of the JSON columns. `v1` has all three hard
rules that `init.sql` enables; `evaluate` asks `NIGHT_LIMIT` only, and so does `Decide`.
`standing` is what the other two are about and no part of the antifraud service knows:
a flag in the DICT, an account that is blocked or deactivated. An average is kept as
sum and count, so that comparing with it stays within the integers. `Evaluate` has
one action per query. The four queries of `Promise.all` are each a snapshot of
their own, in any order; `created_at` is the database's clock at the INSERT, `now`
is the caller's at the start of loading. Time is a clock of ticks, with windows and
ages in ticks. `Redeploy` ends the process and starts it with any rule version, one
that is not in `rule_sets` included; an INSERT that was on its way may still be
executed (`InsertOrphan`).

### AccountsApi, Smoke

`at[c]` says where the request of caller `c` is: sent, waiting for a client, at the
statement it is about to run, or answered.

| Action | Code |
|---|---|
| `Receive` | express's routing, the zod schemas, `pool.connect()` (`Connect`) |
| `Health` | `SELECT NOW()` of `healthController.js` |
| `CommitCreate` | `createAccount` from BEGIN to COMMIT, `release()` in `finally` |
| `Deactivate`, `Explain` | the conditional UPDATE of `deactivateAccount`; the `findById` that gives the reason when it met no row |
| `StatementFails` | any statement fails, or only its answer is lost; the middleware answers 500 |
| `Crash`, `Refuse`, `Restart` | the process ends, nobody listens, somebody starts it again |

`Finish` is the end of every use case: the client goes to the first in the pool's
queue and the response is sent. The statements of `createAccount` before COMMIT are
one step with it: nobody sees their effect. They are separate in `AccountFeed`, where
the relay can meet them. The outbox relay and the consumer share the pool in the
program; they hold a client only within a statement and are left out here. A
failure while a response body is being sent is not modelled, and the statuses 200 and
201 stand for all of 2xx.

| Action | Code (all four scripts) |
|---|---|
| `Checked` | the health check of `main()`, [ABORT] unless it is ok |
| `Seed` | the lists read from the database and copied to every user |
| `Launch` | the ramp: the next user starts, or the ramp is over |
| `Deadline` | `Date.now()` reaches it |
| `Pick` | an iteration of a user up to its `fetch`: the executor, `splice` |
| `Settle` | the rest of it: the result, the push to a list |
| `Report` | `Promise.all`, the report, `process.exit` |

`Main` is the caller that makes the health check; what a script does differently
comes from its module through `seed`, `runUser`, `MayLaunch` and `report`. The choice
of an endpoint and of an account, random in the scripts, is any choice here. Which
rows the seed's LIMIT picks is any subset of the table. The report's timings and
percentiles are left out.

## 3. Runs

| Run | What it checks | What it shows |
|---|---|---|
| `transfer_race` | all safety invariants of `Transfer`, its inductive invariant, `MoneyIsConserved`, `Posts` | three calls that compete for one balance, one key and each other's rows |
| `transfer_answers` | `OnlySendersPay`, `EveryCallAnswered` | a pool of two for three calls, bodies of every bad kind; no lock, key or connection is waited for forever |
| `balance_feed` | `FeedTypeOK`, `AckedMeansShown`, `SentIsKeptOrLost`, `Projects`, `Converges` | every kind of failure, a queue that is not bound at first, an account the service does not know, an account that pays itself: an update marked sent is only ever lost between the relay and a handler, and the projection catches up unless every publication of the newest balance was lost or rejected |
| `balance_panic` | `RelayNeverPanics`, violated | finding 1 |
| `balance_lost` | `SentIsKept`, violated | finding 2 |
| `account_feed` | `AccountTypeOK`, `CreatedIsAnnounced`, `DeactivatedOnce`, `AnnouncedIsKept`, `EveryoneIsProjected`, `Lives` | calls that interleave, fail and are cut off; the feed across any one failure, a restart of the broker included |
| `account_unbound` | `AnnouncedIsKept`, violated | finding 3 |
| `risk_table` | rules against the README's table | at and around every boundary of rule set v1, for transactions whose destination is not flagged and whose origin is neither blocked nor deactivated |
| `risk_hard` | `HardRulesDeny`, violated | finding 4 |
| `evaluate_retry` | `EvaluateTypeOK`, `OneDecisionPerTx`, `CountsWhatCameBefore`, `NewAccountsScore`, `EvaluationsEnd`, `DecidesOnce` | two calls of one account with one tx_id or two, a failed query or a redeployment |
| `evaluate_velocity` | `VelocityScored`, violated | finding 5 |
| `smoke` | `SmokeTypeOK`, `BeliefsAreTrue`, `VerdictIsJust`, `ConnectionsAccounted`, `RunEnds`, `Lives` | each of the four scripts with two users on a pool of one client, with a failed statement or a crash |

Every property of a passing run has a mutant of the code that breaks it under the
same configuration (`PROJECT.json`, "mutants"; in the modules the definitions whose
comment starts with "Mutant"): `FOR UPDATE` left out, the second balance test left
out, the index not unique, the credit computed from the row before the debit, the
version left out of the WHERE clause, an ack before the work, and so on.

### Bounds and why they are enough

* `transfer_race`: three calls, three accounts, two keys, balances up to 3. Three
  calls make a ring of three locks, or two that race while a third retries one of
  their keys. The bodies hold opposite lock orders, a ring, one key with different
  bodies, a credit that does not fit, a payment to oneself. Calls are interchangeable
  (`SYMMETRY`); the run checks no liveness. The proofs cover every other size.
* `transfer_answers`: no symmetry, since it checks liveness; a pool of two is the
  smallest at which transactions and lookups compete.
* `balance_*`: two transfers give an account two versions, the least at which order
  matters. One failure is enough for a duplicate (published and not marked, or
  handled and not acknowledged), and the batches overlap. `Converges` excuses an
  account by the publications of its newest balance only, so that the loss of an
  older one must do no harm.
* `account_feed`: two creations, so that a batch can have two events and one of them
  fails, and two deactivations, so that they can name the same account. The queue is
  bound from the start; a publication before that is `account_unbound`'s.
* `risk_table`: amounts, times and counts at each limit, one below, one above; both
  orders of the tiers; averages with and without a fractional part; all four
  standings of the two accounts.
* `evaluate_*`: two calls make the race on `tx_id`, or one that is counted by the
  next; `evaluate_velocity` has three, the third of a velocity window. One tick ends
  the window and the youth of the account. The proofs cover any number of calls.
* `smoke`: two users are the least that can make each other's lists stale; a pool of
  one makes them wait for each other; one seeded account is one they both know. Two
  requests per user, one for the zod script, whose requests have the most variants, let
  a user act on what it learnt from its first answer. In the three scripts that only
  have a deadline (`ITERATIONS = 0`) the number of requests is a bound for TLC.
* `MaxFaults`, `MaxClock`: bounds for TLC; nothing in the code limits failures or time.

`CHECK_DEADLOCK FALSE` is set for `Evaluate` only, which stops when every call has
ended and the clock is at its bound. The other specifications have a step for the
system at rest (`AllAnswered`, `EmptyTick`, `EmptyPoll`).

### Fairness

* `Transfer!Fairness`: weak fairness of each call's steps. A goroutine is scheduled;
  PostgreSQL grants a free row to a waiter and looks for deadlocks (after
  `deadlock_timeout`), so `DeadlockAbort` is part of a call's steps. Weak fairness is
  enough since a call that could be overtaken forever would need infinitely many
  other calls. Errors and crashes are owed to nobody.
* `FairFeed`, `FairSpec` of `AccountFeed`: the relay's loop and the consumer's event
  loop keep turning while their process is up. Restarts are never owed (the compose
  file has no restart policy), so `Converges` says: *if* both are up from some time
  on. A panic of the relay ends the process (`Up` is false).
* `FairSpec` of `Evaluate`: a query that was sent comes back.
* `Fairness` of `Smoke`: the event loops of the script and of the service keep turning,
  and PostgreSQL answers. Failures and restarts are owed to nobody, so `RunEnds` says
  that the script also ends when the service is gone. The deadline is owed in the code,
  where time passes; here the bound on the requests takes its place, and what `RunEnds`
  checks is that no request of a user, and no user of `Promise.all`, stays forever.

## 4. Proofs

`TransferProofs` proves, for every set of calls, keys, accounts and bodies, every
opening balance and every size of the pool:

| Theorem | Statement |
|---|---|
| `HeldUntilCommitHolds` | the inductive invariant |
| `NeverOverdrawn`, `TypeCorrect` | `Spec => []NoOverdraft`, `Spec => []TypeOK` |
| `ImplementsPosting` | `Spec => Posts`: the goroutines implement the atomic ledger |
| `KeyMovesOnce`, `EventsComplete` | `OneMovementPerKey`, `EventsMatchVersions` |
| `AnswersAreTrue` | `AnswerMatchesLedger` |
| `LocksNotLeaked`, `OnlyRowsDeadlock` | `NoLeakedLocks`, `DeadlocksOnlyOnRows` |
| `OnlySenderLoses` | `OnlySendersPay` |
| `BooksAddUp`, `MoneyKept` | `BalanceIsSumOfEntries`, `MoneyIsConserved` |

They rest on the assumptions named in `Transfer`: accounts are finitely many and among
the ids, bodies have their fields, opening balances are in range, `None` is no call, the
pool is not empty.

None of these properties is inductive: `NoOverdraft` says nothing of a call that is
past its balance test and about to commit. `HeldUntilCommit` says what such a call
relies on, in parts:

* `RowsExist` - a call past a lookup names an account that exists;
* `LocksHeld` - a call past `FOR UPDATE` still holds the row;
* `FundsHeld` - what it read under the lock, or tested, is still true of the row;
* `KeysHeld` - a call past the unique index is alone with its key;
* `WorkCurrent` - its uncommitted rows are what the updates would still give;
* `OpenCallsUnposted` - a call that has not ended is not in the journal;
* `BalancesFit` - committed balances are between 0 and the largest bigint.

The step argues from locality: a step of one call changes no variable of another
(`StepIsLocal`), the tables change only on a commit (`TablesMoveOnCommit`), and then
only in rows the committing call holds (`HeldRowsKept`), so what others hold stays
as it was. Each part has a lemma of its own. `ImplementsPosting` then shows that
`Commit` is a `Post` of the abstract ledger (`CommitIsPost`) and every other step a
stutter; `EventsComplete`, `AnswersAreTrue` and the others use the same invariant.

`BooksAddUp` needs sums over the entries of an account, and `MoneyKept` the sum over all
accounts. A sum is `SumFunctionOnSet` of the community modules, a recursion that takes
its next element by `CHOOSE`, so that even adding one element to the set is a fact about
the sums of all its subsets. The library's induction theorems take an operator as a parameter, which the
provers cannot instantiate. `SumLemmas` does without them: it looks at the smallest
subset for which a fact fails (`SmallestSubset`), and shows `SumEmpty`, `SumAdd`,
`SumRemove`, `SumSame` and `SumUpdate`. `EntriesSound` is the invariant that was missing:
entries are finitely many and each belongs to a journal row, so that the two entries of a
commit are new (`CommitMovesMoney`).

`RiskProofs` proves for all minutes of the day that the window test is membership
in an arc of the clock (`WindowWraps`), and from it `WindowIsArc` of every table. The
rest is about amounts, counts and averages of any size:

| Theorem | Statement |
|---|---|
| `LargerNotMilder` | under any well-formed rule set a larger amount never leads to a milder decision |
| `NeverMilderHolds` | `Spec => NeverMilder`, the same of rule set V1 |
| `SevereTierHolds` | `Spec => []MostSevereTier`, of both tiered rules |
| `DecidesAsWritten` | `Spec => []DecidesAsDocumented`: the documented decision where the destination is not flagged and the origin neither blocked nor deactivated; of other transactions it says nothing |

A rule set is well-formed (`WellFormed`) if points are natural numbers and the limits and
thresholds integers; V1 is (`V1WellFormed`). Nothing more is assumed, neither an order of
the tiers nor one of the two thresholds: the code sorts the tiers by their points and
stops at the first that applies, so that a larger amount, to which more tiers apply, can
only score more (`OneTierFirst`, `MoreTiersNotLess`, `LargerMatchesMore`).

### The feeds

`BalanceProofs` holds for every set of accounts and transfers, any number of
failures and any number of copies of a message:

| Theorem | Statement |
|---|---|
| `FeedTypeCorrect`, `AckedHolds` | `FeedSpec => []FeedTypeOK`, `FeedSpec => []AckedMeansShown` |
| `ImplementsProjection` | `FeedSpec => Projects` |
| `UpdatesKept` | `FeedSpec => []SentIsKeptOrLost` |
| `UpdatesKeptOnSoundLink` | `FeedSpec => []SentIsKept`, if `InitiallyBound` and neither a broker restart nor a connection drop is among the `Faults` |

The inductive invariant `FeedInv` says that rows and events have their types
(`LedgerTyped`), that the relay works on events of the outbox that are not ticked off,
each once (`RelaySound`), that every message carries an event of the outbox
(`MailSound`), that the projection has rows of its type (`ProjectionTyped`), and that a
message past its UPDATE is shown already or names an account the service does not have
(`AppliedFirst`). `AckedMeansShown` alone is not inductive because it says nothing of
the handler between the UPDATE and the ack. `PublishedInv` adds that what is ticked
off, or about to be, has been published, and `UpdatesKept` follows without a condition:
a message the broker took up and did not lose is held, or was acknowledged and is shown.
`NothingLost` is the invariant that no publication is lost; its three conditions are the
three ways to lose one. Each is needed for `SentIsKept`: `balance_lost` violates it by a
restart of the broker, a connection that drops under a written publish does the same with
the broker up, and an exchange with no queue drops what it is sent (`account_unbound`,
for the other feed). `MovementsAssumption` says that movements name
accounts and that balances and amounts are integers.

`AccountProofs` proves `TypeCorrect`, `CreationsAnnounced` (`CreatedIsAnnounced`),
`DeactivatesOnce` (`DeactivatedOnce`) and `ImplementsLife` (`Lives`: a COMMIT is a `Create`
of `AccountLife`, an UPDATE that changes a row a `Deactivate`) without conditions, and `AnnouncementsKept`
(`AnnouncedIsKept`) if `InitiallyBound`: confirms and persistence make the restart of the
broker harmless. The invariant has a part about the calls (`CallsInv`: the outbox has
exactly the committed accounts; a deactivation under way names an account that is there
and its mark is on no row yet; one that looks up its reason was preceded by another call;
an answer was true and stays so) and one about the relay and the broker (`RelayInv`).
That nothing overwrites a `deactivated_at` rests on what each step does to the table
(`TableGrows`), a crash with several statements on their way included.

### Evaluate

`EvaluateProofs` holds for every number of calls, every rule set and every clock:

| Theorem | Statement |
|---|---|
| `Idempotent` | `[]OneDecisionPerTx` |
| `ImplementsDecidedOnce` | `DecidesOnce` |
| `VelocityCounts` | `[]CountsWhatCameBefore` |
| `YoungAreScored` | `[]NewAccountsScore` |
| `EvaluateTypeCorrect` | `[]EvaluateTypeOK`; the score of any rule set is within 0 and 100 (`ScoreBounded`) |

`OneInv` says that every `tx_id` has one row and that who was told a decision was told
the stored one. `CountInv` adds that a call knows no feature before it starts to load
them and that what was stored when it came in is still there, so that a count taken
later includes it. `WeighInv` says what the verdict of a call that is about to insert
rests on: an age that is unknown or the true one at `now`, which is no later than the
row. `TypedInv` has the types of verdicts and rows.

`OneDecisionPerTx` says of each state that stored and told decisions agree; the refinement
says of each step that neither changes. `DecidedOnce` has the decisions as a function of
the `tx_id`s that have a row, and what a caller was told if its answer was a decision (an
error, a 400 or a lost answer tells nothing). A successful INSERT is a `Decide` with or
without a `Tell`, `FindExisting` and `FindWinner` are a `Tell` where they find a row, and
the rest stutters. That a caller is told once rests on `ToldLast`: a call that was told a
decision is done, so that no failure, redeployment or late INSERT gives it another answer.
That what is told is a decision at all, not the absence of one, rests on `TypedInv`.

Assumed: `DtosAssumption`,
`BornAssumption`, `AgesAssumption`, `PointsAssumption`, `ClockAssumption` and
`FaultsAssumption`, all of them about types.

### Smoke

`SmokeProofs` proves `BeliefsHold`, `ConnectionsHold`, `LivesHold`, `VerdictHolds`
(`VerdictIsJust`) and `TypesHold` (`SmokeTypeOK`) for any number of users and iterations, any pool and any
failures. `IInv` has nine parts: `Types`; what
a request under way looks like, where it can be and what its answer means (`Flying`);
that a user under way has an iteration left (`Busy`); the clients of the pool and the
queue for them (`Holding`, `Bounded`, `Queued`); `Beliefs`; that an id without a row is
not deactivated (`Fresh`); that no user is under way before the ramp (`Quiet`).
`BeliefsAreTrue` alone is not inductive: a list gets its account from a request, and
`Flying` says that an account whose deactivation was answered with 200 or 409 is
deactivated, though no list has it yet. Each step is argued from what it does for the
request it serves, and from everybody else being a bystander: rows stay and an account
stays deactivated, so that what they believe stays true.

The verdict needs to know which answers a request can get, and what becomes of them.
`VInv` says, on top of `IInv`: what the executor of a request takes for ok contains every
answer an account's state can lead to, and who it deactivates is in the table (`Fits`), so
that an answer is ok, or tells of a failure, or of a missing route (`AnswerFits`); so does
every recorded result (`Recorded`); a failure that met a request is in an answer that is
not settled, in a result, or in the exit code (`Remembered`); and nobody is under way once
the report is made (`Over`). The 404 of a deactivation of an account that is not there is
a case of `Explain` that no request reaches. `Lists` keeps the two lists of a user
disjoint, for which the id a user is about to create must be on neither (`Unused`).

### Only model-checked

Liveness under fairness (`EveryCallAnswered`, `EvaluationsEnd`, `Converges`,
`EveryoneIsProjected`, `RunEnds`), which the prover does not reach, nor ENABLED. Every
safety property and every refinement that a passing run checks is also a theorem, and
`SentIsKept`, which no passing run checks, is one under the conditions named above;
`AnnouncedIsKept` needs `InitiallyBound`.

## 5. Findings

1. **A failed status update ends the ledger** (`balance_panic`). outbox.go:30 tests
   `err`, which after a failed `updateOutboxStatus` is still that of the event
   before, and calls `Error()` on `incrementOutboxAttemptErr`, which is nil.
2. **A restart of the broker loses balance updates** (`balance_lost`). They are
   published transient and without confirms, and marked sent. README.md:106 wants
   the outbox to rule that loss out. The next update of the account repairs it. The
   broker need not restart for it: a connection that drops after `Publish` has
   returned nil has the same effect (`PublishLost`; in `balance_feed` this is what the
   exception of `SentIsKeptOrLost` and `Converges` is for).
3. **Accounts created before the antifraud service's first start are never
   projected** (`account_unbound`). The exchange has no queue yet, drops the event
   and confirms it.
4. **Two documented hard rules are never evaluated** (`risk_hard`). README.md:31-33
   denies a payment to a destination flagged in the DICT, or from a blocked or
   deactivated account, and `init.sql:44-45` enables both rules in v1.
   evaluate.js:115 leaves them as a TODO, so such a payment is judged by its score
   alone. `DecidesAsDocumented` is about the other transactions.
5. **Overlapping evaluations miss each other** (`evaluate_velocity`). The count is
   taken before the row is inserted, so a burst in parallel gets no velocity points.
   `CountsWhatCameBefore` is what does hold.

Met on the way and not made a run: the ledger never reads `deactivated_at`, and
no event tells it of a deactivation; a repeated key is answered with 500. The
documents that say otherwise describe the `POST /send` of an earlier version. So do
the smoke scripts: all four call `/money/send`, which the accounts service no longer
has, and all but the folder script count its 404 as a failure and exit with 1 against a
healthy service (`VerdictIsJust` says exactly when); and the default address of the
folder script is the proxy's, which has no `/health`.

## 6. Not modelled

* Transactions service: a stub whose one use case inserts into a table its database
  does not have. Statements service: an empty directory.
* nginx, containers, CI, configuration, health endpoints other than the accounts
  service's: no state.
* The files of `transactions/smokes` are byte-identical copies of `accounts/smokes`.
* Documents: read as statements of intent.
* `DEST_FLAGGED_DICT` and `ORIGIN_BLOCKED`: there is no code to model. `RiskTable` has
  what they are about for `HardRulesDeny` only, and `Evaluate` leaves it out.
* Conversions of width and unit: bigint to `NUMERIC(20, 2)` through a JavaScript
  number, the rounding of an average to a JavaScript number, the time zone of
  `localMinutes`; a balance is carried over unchanged, an average is exact, and a
  time of day is an input.
* The balance an account is created with in the accounts service: the models show 0
  until the first update, and say nothing of what is shown before it.
* Message payloads that do not parse: no publisher in the repository sends any.
* Database migrations, reads without effect (`GET` handlers), logging, the smoke
  scripts' statistics.

## 7. Plan

Done: the modules above, in the order `Transfer` with its abstraction and proofs,
`BalanceFeed`, `AccountFeed`, the rules, `Evaluate`, the HTTP API and the smoke
scripts, then the proofs of the feeds, of `Evaluate`, of `Smoke` and of the rules.

What remains worth doing:

1. `AccountFeed` and `Evaluate` over one `projected`, so that the delay of an account's
   announcement is the feed's own instead of any delay; accounts that do not exist in the
   antifraud service.
2. More than one failure per run where the state space allows it. The proofs cover
   any number for safety; liveness would gain.
3. The saga of the transactions service, once it exists.
