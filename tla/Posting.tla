------------------------------- MODULE Posting -------------------------------
(***************************************************************************)
(* What POST /ledger/transfer promises, with its concurrency taken away:   *)
(* a movement of money is one atomic step over the four tables of the      *)
(* ledger's database.  Transfer.tla, the goroutines that really do it, is  *)
(* shown to implement this module.                                         *)
(***************************************************************************)
EXTENDS LedgerRows

CONSTANTS
  Requests,        \* the calls; a journal row is identified by its call
  Keys,            \* idempotency keys
  Accounts,        \* the ids that have a row in public.accounts
  OpeningBalance,  \* the balances the accounts start with
  MaxBalance       \* the largest value of a bigint

VARIABLES
  accounts,        \* public.accounts: account -> [balance, version]
  journal,         \* public.journal
  entries,         \* public.entries
  outbox           \* public.outbox, whose rows become balance.updated events

tables == <<accounts, journal, entries, outbox>>

-----------------------------------------------------------------------------
Init ==
  /\ accounts = [id \in Accounts |-> [balance |-> OpeningBalance[id], version |-> 0]]
  /\ journal = {}
  /\ entries = {}
  /\ outbox = {}

\* A movement happens at most once per key, is positive, covered, and fits.
Post(r, key, sender, receiver, amount) ==
  LET debited  == Moved(accounts, sender, -amount)
      credited == Moved(debited, receiver, amount)
  IN /\ \A j \in journal : j.id # r /\ j.key # key
     /\ amount > 0
     /\ amount <= accounts[sender].balance
     /\ credited[receiver].balance <= MaxBalance
     /\ accounts' = credited
     /\ journal' = journal \cup {JournalRow(r, key, sender, amount)}
     /\ entries' = entries \cup {Entry(r, sender, "debit", amount),
                                 Entry(r, receiver, "credit", amount)}
     /\ outbox' = outbox \cup {Event(r, "debit", sender, debited[sender]),
                               Event(r, "credit", receiver, credited[receiver])}

Next ==
  \E r \in Requests, key \in Keys, sender, receiver \in Accounts :
    \E amount \in 1..accounts[sender].balance : Post(r, key, sender, receiver, amount)

Spec == Init /\ [][Next]_tables
=============================================================================
