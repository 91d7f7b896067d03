----------------------------- MODULE MCEvaluate -----------------------------
EXTENDS Evaluate, TLC

CONSTANTS c1, c2, c3, young

\* One tick and it is past the age limit of two.
MCBorn == young :> -1

Day == 12 * 60
Night == 23 * 60

Dto(tx_id, account, dest_key, amount, minutes) ==
  [tx_id |-> tx_id, origin_account |-> account, dest_key |-> dest_key,
   amount |-> amount, minutes |-> minutes]

\* v1 of init.sql, its amounts divided by 10 000 and its times in ticks.
v1 == [
  thresholds |-> [review |-> 40, deny |-> 70],
  NIGHT_LIMIT |-> [enabled |-> TRUE, start |-> [h |-> 22, m |-> 0],
                   end |-> [h |-> 6, m |-> 0], max_amount |-> 10],
  rules |-> [
    DEST_NEW |-> [points |-> 15, min_amount |-> 5],
    ACCOUNT_NEW |-> [points |-> 25, max_age_hours |-> 2],
    VELOCITY |-> [window_minutes |-> 1,
                  tiers |-> << [min_tx |-> 6, points |-> 35], [min_tx |-> 3, points |-> 15] >>],
    AMOUNT_ATYPICAL |-> [avg_window_days |-> 2,
                         tiers |-> << [multiplier |-> 10, points |-> 40],
                                      [multiplier |-> 3, points |-> 20] >>]]]

\* A later version that asks for more and has no VELOCITY.
v2 == [
  thresholds |-> [review |-> 15, deny |-> 30],
  NIGHT_LIMIT |-> [v1.NIGHT_LIMIT EXCEPT !.max_amount = 2],
  rules |-> [DEST_NEW |-> [points |-> 15, min_amount |-> 1],
             ACCOUNT_NEW |-> [points |-> 25, max_age_hours |-> 2]]]

MCRuleSets == [v1 |-> v1, v2 |-> v2]

\* The same transaction sent again, by day and by night, and another one.
RetryDtos == {Dto("t1", young, "d1", 1, Day), Dto("t1", young, "d1", 6, Day),
              Dto("t2", young, "d1", 20, Night)}

\* Transactions of one account, small and large, to one destination.
BurstDtos == {Dto("t1", young, "d1", 1, Day), Dto("t2", young, "d1", 6, Day),
              Dto("t3", young, "d1", 20, Night)}

Symmetry == Permutations(Calls)
=============================================================================
