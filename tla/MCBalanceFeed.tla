---------------------------- MODULE MCBalanceFeed ----------------------------
(***************************************************************************)
(* Instances of BalanceFeed for TLC.                                       *)
(***************************************************************************)
EXTENDS BalanceFeed, TLC

CONSTANTS a, b, c

Movement(n, sender, receiver, amount) ==
  [id |-> n, key |-> n, sender |-> sender, receiver |-> receiver, amount |-> amount]

\* From a to itself, whose two versions have different balances, and to c.
AnyTransfers == {Movement(1, a, a, 1), Movement(2, a, c, 1)}

\* The smallest that announces anything.
ToOneself == {Movement(1, a, a, 1)}

Numbers   == {1, 2}
InLedger  == {a, b, c}
InService == {a, b}
Opening   == a :> 2 @@ b :> 0 @@ c :> 0
=============================================================================
