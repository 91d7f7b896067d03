----------------------------- MODULE Projection -----------------------------
(***************************************************************************)
(* What the accounts service promises of the balances it shows: after the  *)
(* first update each is a balance the ledger committed, and it only moves  *)
(* towards newer ones.                                                     *)
(* Neither delivery nor order of the events is part of the promise.        *)
(***************************************************************************)
EXTENDS Integers

CONSTANTS
  Projected       \* the ids that have a row in the accounts service's table

VARIABLES
  outbox,         \* the events the ledger has committed
  projection      \* account -> the [balance, version] shown

vars == <<outbox, projection>>

Shown(e) == [balance |-> e.balance, version |-> e.version]

Init ==
  /\ outbox = {}
  /\ projection = [id \in Projected |-> [balance |-> 0, version |-> 0]]

\* The ledger commits more events.
Announce ==
  /\ outbox \subseteq outbox'
  /\ UNCHANGED projection

\* One account moves forward to a committed event, over as many as it likes.
Advance(e) ==
  /\ e.account \in Projected
  /\ e.version > projection[e.account].version
  /\ projection' = [projection EXCEPT ![e.account] = Shown(e)]
  /\ UNCHANGED outbox

Next == Announce \/ \E e \in outbox : Advance(e)

Spec == Init /\ [][Next]_vars
=============================================================================
