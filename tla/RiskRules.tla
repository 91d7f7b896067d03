------------------------------ MODULE RiskRules ------------------------------
(***************************************************************************)
(* The risk rules of the antifraud service, as functions of a rule set, a  *)
(* transaction and its features (src/antifraud/src/usecases/rules), and    *)
(* the score and decision evaluate makes of them.                          *)
(*                                                                         *)
(* A rule set has the fields thresholds, NIGHT_LIMIT (the only one of its  *)
(* hard rules that evaluate reads) and rules; a rule that is not           *)
(* configured is a field missing from rules. A time of day is the record   *)
(* [h, m]. An average is kept as [sum, count], so that comparing with it   *)
(* stays within the integers; count = 0 stands for null, as UnknownAge     *)
(* does for the age of an account without projection.                      *)
(***************************************************************************)
EXTENDS Integers, Sequences

MAX_SCORE == 100

UnknownAge == -1

\* What a rule finds; tier tells VELOCITY_3TX from VELOCITY_6TX.
Hit(rule, tier, points) == [rule |-> rule, tier |-> tier, points |-> points]
NoHit == Hit("none", 0, 0)

toMinutes(hhmm) == hhmm.h * 60 + hhmm.m

\* Mutant: the window is never taken across midnight.
isWithinWindow_NoWrap(t, s, e) == s <= t /\ t < e

\* From s up to but not including e, across midnight when e comes first.
isWithinWindow(t, s, e) == IF s <= e THEN s <= t /\ t < e ELSE s <= t \/ t < e

\* Mutant: the tiers are tried in the order they are written down.
firstTier_Unsorted(tiers, matches) ==
  {i \in matches : \A j \in matches : i <= j}

\* The indices (one, or none) of the tier that scores, matches being those of the
\* tiers that apply: a stable sort by falling points, and the first match.
firstTier(tiers, matches) ==
  {i \in matches : \A j \in matches :
     \/ tiers[j].points < tiers[i].points
     \/ tiers[j].points = tiers[i].points /\ i <= j}

nightLimit(config, data) ==
  /\ config.enabled
  /\ isWithinWindow(data.minutes, toMinutes(config.start), toMinutes(config.end))
  /\ data.amount > config.max_amount

destNew(rules, data, features) ==
  IF /\ "DEST_NEW" \in DOMAIN rules
     /\ ~ features.dest_seen_before
     /\ data.amount >= rules.DEST_NEW.min_amount
  THEN Hit("DEST_NEW", 0, rules.DEST_NEW.points)
  ELSE NoHit

\* Mutant: like the missing average, a missing projection does not score.
accountNew_UnknownIsOld(rules, features) ==
  IF /\ "ACCOUNT_NEW" \in DOMAIN rules
     /\ features.account_age_hours # UnknownAge
     /\ features.account_age_hours < rules.ACCOUNT_NEW.max_age_hours
  THEN Hit("ACCOUNT_NEW", 0, rules.ACCOUNT_NEW.points)
  ELSE NoHit

\* A missing projection counts as an account too young to have been announced.
accountNew(rules, features) ==
  IF /\ "ACCOUNT_NEW" \in DOMAIN rules
     /\ \/ features.account_age_hours = UnknownAge
        \/ features.account_age_hours < rules.ACCOUNT_NEW.max_age_hours
  THEN Hit("ACCOUNT_NEW", 0, rules.ACCOUNT_NEW.points)
  ELSE NoHit

\* Mutant: the transaction itself is not counted.
velocityMatches_PreviousOnly(tiers, features) ==
  {i \in DOMAIN tiers : features.velocity_count >= tiers[i].min_tx}

\* The count is of earlier evaluations, + 1 for this one.
velocityMatches(tiers, features) ==
  {i \in DOMAIN tiers : features.velocity_count + 1 >= tiers[i].min_tx}

velocity(rules, features) ==
  IF "VELOCITY" \notin DOMAIN rules THEN NoHit
  ELSE LET tiers == rules.VELOCITY.tiers
           first == firstTier(tiers, velocityMatches(tiers, features))
       IN IF first = {} THEN NoHit
          ELSE LET i == CHOOSE i \in first : TRUE
               IN Hit("VELOCITY", tiers[i].min_tx, tiers[i].points)

\* Mutant: the comparison is the wrong way round.
amountMatches_Swapped(tiers, data, avg) ==
  {i \in DOMAIN tiers : data.amount * avg.count < avg.sum * tiers[i].multiplier}

\* amount > avg * multiplier
amountMatches(tiers, data, avg) ==
  {i \in DOMAIN tiers : data.amount * avg.count > avg.sum * tiers[i].multiplier}

amountAtypical(rules, data, features) ==
  IF "AMOUNT_ATYPICAL" \notin DOMAIN rules \/ features.avg_ticket.count = 0 THEN NoHit
  ELSE LET tiers == rules.AMOUNT_ATYPICAL.tiers
           first == firstTier(tiers, amountMatches(tiers, data, features.avg_ticket))
       IN IF first = {} THEN NoHit
          ELSE LET i == CHOOSE i \in first : TRUE
               IN Hit("AMOUNT_ATYPICAL", tiers[i].multiplier, tiers[i].points)

-----------------------------------------------------------------------------
\* score, decision and reasons, as answered and stored.
Verdict(score, decision, reasons) ==
  [score |-> score, decision |-> decision, reasons |-> reasons]

Blocked == Verdict(MAX_SCORE, "DENY", {Hit("NIGHT_LIMIT", 0, MAX_SCORE)})

\* The thresholds are tried from the severest down.
Decision(thresholds, score) ==
  IF score >= thresholds.deny THEN "DENY"
  ELSE IF score >= thresholds.review THEN "REVIEW"
  ELSE "APPROVE"

Scored(ruleSet, data, features) ==
  LET d == destNew(ruleSet.rules, data, features)
      a == accountNew(ruleSet.rules, features)
      v == velocity(ruleSet.rules, features)
      t == amountAtypical(ruleSet.rules, data, features)
      sum == d.points + a.points + v.points + t.points
      score == IF sum < MAX_SCORE THEN sum ELSE MAX_SCORE
  IN Verdict(score, Decision(ruleSet.thresholds, score), {d, a, v, t} \ {NoHit})
=============================================================================
