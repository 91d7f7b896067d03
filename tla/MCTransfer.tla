----------------------------- MODULE MCTransfer -----------------------------
(***************************************************************************)
(* Instances of Transfer for TLC.                                          *)
(***************************************************************************)
EXTENDS Transfer, TLC

CONSTANTS a, b, c, ghost, k1, k2, r1, r2, r3

MCIds      == {a, b, c, ghost}
MCAccounts == {a, b, c}
MCKeys     == {k1, k2}
Opening    == a :> 2 @@ b :> 1 @@ c :> 1

Dto(key, sender, receiver, amount) ==
  [key |-> key, sender |-> sender, receiver |-> receiver, amount |-> amount]

\* Movements that compete for the balance of a, opposite lock orders and a ring
\* of three, one key with several bodies, a credit too many for MaxBalance, a
\* movement to oneself.
RaceDtos == {Dto(k1, a, b, 2), Dto(k2, a, b, 1), Dto(k1, b, a, 1), Dto(k2, b, c, 1),
             Dto(k2, c, a, 1), Dto(k2, a, a, 1)}

\* Bodies the validator, the queries or the CHECK of the journal refuse.
OddDtos == {Dto(k1, a, b, 0), Dto(k2, a, b, -1), Dto(k1, ghost, b, 1), Dto(k1, a, ghost, 1)}

\* Two rows locked in opposite orders, one key twice, and every refusal.
AnswerDtos == {Dto(k1, a, b, 1), Dto(k1, b, a, 1)} \cup OddDtos

RequestSymmetry == Permutations(Requests)
=============================================================================
