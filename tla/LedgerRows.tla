----------------------------- MODULE LedgerRows -----------------------------
(***************************************************************************)
(* The rows of the ledger's database (src/ledger/schema.sql) and the one   *)
(* UPDATE that moves a balance, shared by the abstract and the detailed    *)
(* ledger.  A row keeps the columns some property tells apart; a journal   *)
(* row is identified by the call that inserts it.                          *)
(***************************************************************************)
EXTENDS Integers

\* updateAccountBalance: a relative update that also bumps the version.
Moved(rows, id, delta) ==
  [rows EXCEPT ![id] = [balance |-> @.balance + delta, version |-> @.version + 1]]

\* insertJournal: one row per movement, unique in its idempotency key.
JournalRow(r, key, sender, amount) ==
  [id |-> r, key |-> key, account |-> sender, amount |-> amount]

\* insertEntry: one side of a movement.
Entry(r, account, direction, amount) ==
  [journal |-> r, account |-> account, direction |-> direction, amount |-> amount]

\* insertOutbox of a BalanceUpdatePayload, with the side that announces it.
Event(r, side, account, row) ==
  [journal |-> r, side |-> side, account |-> account,
   balance |-> row.balance, version |-> row.version]
=============================================================================
