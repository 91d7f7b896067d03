------------------------------ MODULE RiskTable ------------------------------
(***************************************************************************)
(* The risk rules held against what they are documented to decide: every   *)
(* state is one transaction with its features, under the rule set v1 of    *)
(* src/antifraud/init.sql with its tiers in either order. standing is what *)
(* two of the enabled hard rules are about and evaluate does not look at:  *)
(* whether the destination is marked as fraud in the DICT and whether the  *)
(* origin account is blocked or deactivated.                               *)
(***************************************************************************)
EXTENDS RiskRules, FiniteSetsExt

CONSTANTS
  Amounts,    \* in centavos, around the limits of the rules
  Times,      \* minutes of the day
  Counts,     \* earlier evaluations of the origin in the window
  Averages,   \* [sum, count] of the approved amounts
  Ages        \* of the origin account in hours

\* What localMinutes and toMinutes give.
MinutesOfDay == 0..1439

ASSUME AmountsAssumption == Amounts \subseteq Nat
ASSUME TimesAssumption == Times \subseteq MinutesOfDay
ASSUME CountsAssumption == Counts \subseteq Nat
ASSUME AveragesAssumption == Averages \subseteq [sum : Nat, count : Nat]
ASSUME AgesAssumption == Ages \subseteq Nat \cup {UnknownAge}

VARIABLES
  data, features,
  upward,     \* are the tiers written mildest first?
  standing    \* of the two accounts, outside the antifraud service

vars == <<data, features, upward, standing>>

Tiers(mild, severe) == IF upward THEN <<mild, severe>> ELSE <<severe, mild>>

v1 == [
  thresholds |-> [review |-> 40, deny |-> 70],
  DEST_FLAGGED_DICT |-> [enabled |-> TRUE],
  ORIGIN_BLOCKED |-> [enabled |-> TRUE],
  NIGHT_LIMIT |-> [enabled |-> TRUE, start |-> [h |-> 22, m |-> 0],
                   end |-> [h |-> 6, m |-> 0], max_amount |-> 100000],
  rules |-> [
    DEST_NEW |-> [points |-> 15, min_amount |-> 50000],
    ACCOUNT_NEW |-> [points |-> 25, max_age_hours |-> 24],
    VELOCITY |-> [tiers |-> Tiers([min_tx |-> 3, points |-> 15], [min_tx |-> 6, points |-> 35])],
    AMOUNT_ATYPICAL |-> [tiers |-> Tiers([multiplier |-> 3, points |-> 20],
                                         [multiplier |-> 10, points |-> 40])]]]

\* Of the hard rules evaluate asks NIGHT_LIMIT only.
Decide(d) == IF nightLimit(v1.NIGHT_LIMIT, d) THEN Blocked ELSE Scored(v1, d, features)

Init ==
  /\ data \in [amount : Amounts, minutes : Times]
  /\ features \in [velocity_count : Counts, avg_ticket : Averages,
                   dest_seen_before : BOOLEAN, account_age_hours : Ages]
  /\ upward \in BOOLEAN
  /\ standing \in [dest_flagged : BOOLEAN, origin_blocked : BOOLEAN]

\* The next transaction of the table: the same one, for another amount.
Another ==
  /\ data' \in {[data EXCEPT !.amount = a] : a \in Amounts \ {data.amount}}
  /\ UNCHANGED <<features, upward, standing>>

Spec == Init /\ [][Another]_vars

-----------------------------------------------------------------------------
Points(condition, points) == IF condition THEN points ELSE 0

\* The points of README.md: the soft rules as they are put into words there.
DocumentedScore ==
  LET atypical(times) == /\ features.avg_ticket.count > 0
                         /\ data.amount * features.avg_ticket.count > times * features.avg_ticket.sum
      now == features.velocity_count + 1
  IN Points(~ features.dest_seen_before /\ data.amount >= 50000, 15)
     + Points(now >= 6, 35) + Points(now \in 3..5, 15)
     + Points(features.account_age_hours < 24, 25)
     + Points(atypical(10), 40) + Points(atypical(3) /\ ~ atypical(10), 20)

OverNightLimit ==
  (data.minutes >= 22 * 60 \/ data.minutes < 6 * 60) /\ data.amount > 100000

FlaggedOrBlocked ==
  \/ v1.DEST_FLAGGED_DICT.enabled /\ standing.dest_flagged
  \/ v1.ORIGIN_BLOCKED.enabled /\ standing.origin_blocked

\* For a destination that is not flagged and an origin that is neither blocked nor
\* deactivated, the decision is the one the README's remaining rules and its cuts lead
\* to, boundaries included: night limit, review from 40, deny from 70, one tier of each
\* rule. What happens to the other transactions is HardRulesDeny's question.
DecidesAsDocumented ==
  ~ FlaggedOrBlocked =>
      Decide(data).decision = IF OverNightLimit THEN "DENY"
                              ELSE IF DocumentedScore >= 70 THEN "DENY"
                              ELSE IF DocumentedScore >= 40 THEN "REVIEW"
                              ELSE "APPROVE"

\* What README.md says of the hard rules, all three of them enabled in v1: a flagged
\* destination, a blocked or deactivated origin or an amount over the night limit is
\* denied whatever the score. evaluate leaves the first two as a TODO, so this is not so.
HardRulesDeny ==
  FlaggedOrBlocked \/ OverNightLimit => Decide(data).decision = "DENY"

\* Minutes from one time of the day to the next time it is the other.
Until(from, to) == (to - from) % 1440

\* The window of isWithinWindow is the arc of the clock from its start to its end,
\* whichever of the two comes first in the day: inside it, less time has passed
\* since the start than the whole window takes.
WindowIsArc ==
  \A s, e \in Times :
    isWithinWindow(data.minutes, s, e) <=> Until(s, data.minutes) < Until(s, e)

\* The points of the severest of the tiers that apply, 0 when none does.
Severest(tiers, Applies(_)) ==
  LET points == {tiers[i].points : i \in {j \in DOMAIN tiers : Applies(tiers[j])}}
  IN IF points = {} THEN 0 ELSE Max(points)

\* Both tiered rules, VELOCITY and AMOUNT_ATYPICAL, score the most severe tier that
\* applies, in whatever order a rule set lists its tiers, and nothing when none applies
\* or there is no average to compare with.
MostSevereTier ==
  LET reached(tier) == features.velocity_count + 1 >= tier.min_tx
      exceeded(tier) == /\ features.avg_ticket.count > 0
                        /\ data.amount * features.avg_ticket.count
                             > features.avg_ticket.sum * tier.multiplier
  IN /\ velocity(v1.rules, features).points = Severest(v1.rules.VELOCITY.tiers, reached)
     /\ amountAtypical(v1.rules, data, features).points
          = Severest(v1.rules.AMOUNT_ATYPICAL.tiers, exceeded)

Severity(decision) == CASE decision = "APPROVE" -> 0 [] decision = "REVIEW" -> 1 [] OTHER -> 2

\* All else being equal a larger amount is never judged more mildly.
NeverMilder ==
  [][data'.amount > data.amount =>
       Severity(Decide(data').decision) >= Severity(Decide(data).decision)]_vars
=============================================================================
