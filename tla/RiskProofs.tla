------------------------------ MODULE RiskProofs ------------------------------
(***************************************************************************)
(* Proofs about the pure rules of RiskRules, for every rule set.           *)
(***************************************************************************)
EXTENDS RiskTable, SumLemmas, TLAPS

\* The window test of nightLimit is membership in an arc of the clock, for any
\* start, end and time of the day: also across midnight, and empty when the two
\* coincide.
THEOREM WindowWraps ==
  ASSUME NEW t \in MinutesOfDay, NEW s \in MinutesOfDay, NEW e \in MinutesOfDay
  PROVE  isWithinWindow(t, s, e) <=> Until(s, t) < Until(s, e)
<1>1. Until(s, t) = IF s <= t THEN t - s ELSE t - s + 1440
  BY DEF Until, MinutesOfDay
<1>2. Until(s, e) = IF s <= e THEN e - s ELSE e - s + 1440
  BY DEF Until, MinutesOfDay
<1>3. CASE s <= e
  BY <1>1, <1>2, <1>3 DEF isWithinWindow, MinutesOfDay
<1>4. CASE e < s
  BY <1>1, <1>2, <1>4 DEF isWithinWindow, MinutesOfDay
<1> QED
  BY <1>3, <1>4 DEF MinutesOfDay

\* A state of the table is a transaction and features of the table.
TableType ==
  /\ data \in [amount : Amounts, minutes : Times]
  /\ features \in [velocity_count : Counts, avg_ticket : Averages,
                   dest_seen_before : BOOLEAN, account_age_hours : Ages]
  /\ upward \in BOOLEAN
  /\ standing \in [dest_flagged : BOOLEAN, origin_blocked : BOOLEAN]

\* It stays one.
LEMMA TableTypeHolds == Spec => []TableType
<1>1. Init => TableType
  BY DEF Init, TableType
<1>2. TableType /\ [Another]_vars => TableType'
  BY DEF Another, vars, TableType
<1> QED
  BY <1>1, <1>2, PTL DEF Spec

\* The times of the table stay times of the day, and the window test of nightLimit
\* agrees with the arc from start to end on every one of them.
THEOREM WindowHolds == Spec => []WindowIsArc
<1>1. TableType => WindowIsArc
  <2> SUFFICES ASSUME TableType, NEW s \in Times, NEW e \in Times
               PROVE  isWithinWindow(data.minutes, s, e)
                        <=> Until(s, data.minutes) < Until(s, e)
    BY DEF WindowIsArc
  <2>1. data.minutes \in Times
    BY DEF TableType
  <2>2. data.minutes \in MinutesOfDay /\ s \in MinutesOfDay /\ e \in MinutesOfDay
    BY <2>1, TimesAssumption
  <2> QED
    BY <2>2, WindowWraps
<1> QED
  BY <1>1, TableTypeHolds, PTL
-----------------------------------------------------------------------------
\* The sort of a tiered rule puts exactly one of the tiers that apply first, and none
\* of the others has more points.
LEMMA OneTierFirst ==
  ASSUME NEW tiers, NEW matches, IsFiniteSet(matches), matches # {},
         \A i \in matches : i \in Int /\ tiers[i].points \in Int
  PROVE  \E i \in matches :
           /\ firstTier(tiers, matches) = {i}
           /\ \A j \in matches : tiers[j].points <= tiers[i].points
<1> DEFINE Bad == {m \in SUBSET matches : m # {} /\ firstTier(tiers, m) = {}}
<1>1. Bad = {}
  <2> SUFFICES ASSUME Bad # {} PROVE FALSE
    OBVIOUS
  <2>1. PICK s \in Bad : \A t \in Bad : ~ (t \subseteq s /\ t # s)
    <3>1. Bad \in SUBSET SUBSET matches
      OBVIOUS
    <3>2. Bad # {}
      OBVIOUS
    <3> HIDE DEF Bad
    <3> QED
      BY <3>1, <3>2, SmallestSubset
  <2>2. PICK x \in s : TRUE
    BY <2>1
  <2>3. s \ {x} \notin Bad
    BY <2>1, <2>2
  <2>4. CASE s \ {x} = {}
    <3>1. x \in firstTier(tiers, s)
      BY <2>2, <2>4 DEF firstTier
    <3> QED
      BY <2>1, <3>1
  <2>5. CASE s \ {x} # {}
    <3>1. PICK y : y \in firstTier(tiers, s \ {x})
      BY <2>1, <2>3, <2>5
    <3>2. /\ y \in s /\ x \in Int /\ y \in Int
          /\ \A i \in s : tiers[i].points \in Int /\ i \in Int
      BY <2>1, <2>2, <3>1 DEF firstTier
    <3>3. \A j \in s \ {x} : \/ tiers[j].points < tiers[y].points
                             \/ tiers[j].points = tiers[y].points /\ y <= j
      BY <3>1 DEF firstTier
    <3>4. CASE tiers[x].points < tiers[y].points \/ (tiers[x].points = tiers[y].points /\ y <= x)
      <4>1. y \in firstTier(tiers, s)
        BY <3>2, <3>3, <3>4 DEF firstTier
      <4> QED
        BY <4>1
    <3>5. CASE tiers[y].points < tiers[x].points \/ (tiers[x].points = tiers[y].points /\ x <= y)
      <4>1. x \in firstTier(tiers, s)
        BY <2>2, <3>2, <3>3, <3>5 DEF firstTier
      <4> QED
        BY <4>1
    <3>6. firstTier(tiers, s) # {}
      BY <2>2, <3>2, <3>4, <3>5
    <3> QED
      BY <2>1, <3>6
  <2> QED
    BY <2>4, <2>5
<1>2. PICK i : i \in firstTier(tiers, matches)
  BY <1>1
<1>3. /\ i \in matches
      /\ \A j \in matches : \/ tiers[j].points < tiers[i].points
                            \/ tiers[j].points = tiers[i].points /\ i <= j
  BY <1>2 DEF firstTier
<1>4. ASSUME NEW j \in firstTier(tiers, matches)
      PROVE  j = i
  BY <1>3, <1>4 DEF firstTier
<1>5. firstTier(tiers, matches) = {i}
  BY <1>2, <1>4
<1> QED
  BY <1>3, <1>5

\* What a tiered rule scores.
TierPoints(tiers, matches) ==
  LET first == firstTier(tiers, matches)
  IN IF first = {} THEN 0 ELSE tiers[CHOOSE i \in first : TRUE].points

\* A list of tiers with points.
HasPoints(tiers) == IsFiniteSet(DOMAIN tiers) /\ DOMAIN tiers \subseteq Int
                    /\ \A i \in DOMAIN tiers : tiers[i].points \in Nat

\* It scores the most points any applying tier has, and nothing when none applies.
LEMMA TierPointsAre ==
  ASSUME NEW tiers, HasPoints(tiers), NEW matches \in SUBSET DOMAIN tiers
  PROVE  /\ TierPoints(tiers, matches) \in Nat
         /\ matches = {} => TierPoints(tiers, matches) = 0
         /\ matches # {} => \E i \in matches : TierPoints(tiers, matches) = tiers[i].points
         /\ \A i \in matches : tiers[i].points <= TierPoints(tiers, matches)
<1>1. CASE matches = {}
  BY <1>1 DEF TierPoints, firstTier
<1>2. CASE matches # {}
  <2>1. /\ IsFiniteSet(matches)
        /\ \A i \in matches : i \in Int /\ tiers[i].points \in Int
    BY FS_Subset DEF HasPoints
  <2>2. PICK i \in matches : /\ firstTier(tiers, matches) = {i}
                             /\ \A j \in matches : tiers[j].points <= tiers[i].points
    BY <1>2, <2>1, OneTierFirst
  <2>3. TierPoints(tiers, matches) = tiers[i].points
    BY <2>2 DEF TierPoints
  <2> QED
    BY <1>2, <2>2, <2>3 DEF HasPoints
<1> QED
  BY <1>1, <1>2

\* With more tiers applying it does not score less.
LEMMA MoreTiersNotLess ==
  ASSUME NEW tiers, HasPoints(tiers),
         NEW some \in SUBSET DOMAIN tiers, NEW more \in SUBSET DOMAIN tiers, some \subseteq more
  PROVE  TierPoints(tiers, some) <= TierPoints(tiers, more)
<1>1. CASE some = {}
  BY <1>1, TierPointsAre DEF HasPoints
<1>2. CASE some # {}
  BY <1>2, TierPointsAre DEF HasPoints
<1> QED
  BY <1>1, <1>2

\* velocity scores the tiers it is configured with ...
LEMMA VelocityScores ==
  ASSUME NEW rules, NEW f
  PROVE  velocity(rules, f).points =
           IF "VELOCITY" \notin DOMAIN rules THEN 0
           ELSE TierPoints(rules.VELOCITY.tiers, velocityMatches(rules.VELOCITY.tiers, f))
BY DEF velocity, TierPoints, NoHit, Hit

\* ... and so does amountAtypical, once there is an average.
LEMMA AtypicalScores ==
  ASSUME NEW rules, NEW d, NEW f
  PROVE  amountAtypical(rules, d, f).points =
           IF "AMOUNT_ATYPICAL" \notin DOMAIN rules \/ f.avg_ticket.count = 0 THEN 0
           ELSE TierPoints(rules.AMOUNT_ATYPICAL.tiers,
                           amountMatches(rules.AMOUNT_ATYPICAL.tiers, d, f.avg_ticket))
BY DEF amountAtypical, TierPoints, NoHit, Hit

-----------------------------------------------------------------------------
\* A rule set with numbers where the rules compare or add, any rule but NIGHT_LIMIT
\* missing.
WellFormed(ruleSet) ==
  /\ ruleSet.thresholds.deny \in Int /\ ruleSet.thresholds.review \in Int
  /\ ruleSet.NIGHT_LIMIT.max_amount \in Int
  /\ "DEST_NEW" \in DOMAIN ruleSet.rules =>
       ruleSet.rules.DEST_NEW.points \in Nat /\ ruleSet.rules.DEST_NEW.min_amount \in Int
  /\ "ACCOUNT_NEW" \in DOMAIN ruleSet.rules => ruleSet.rules.ACCOUNT_NEW.points \in Nat
  /\ "VELOCITY" \in DOMAIN ruleSet.rules => HasPoints(ruleSet.rules.VELOCITY.tiers)
  /\ "AMOUNT_ATYPICAL" \in DOMAIN ruleSet.rules =>
       /\ HasPoints(ruleSet.rules.AMOUNT_ATYPICAL.tiers)
       /\ \A i \in DOMAIN ruleSet.rules.AMOUNT_ATYPICAL.tiers :
            ruleSet.rules.AMOUNT_ATYPICAL.tiers[i].multiplier \in Int

\* The answer of evaluate: the hard rule first, then the score.
Judged(ruleSet, d, f) ==
  IF nightLimit(ruleSet.NIGHT_LIMIT, d) THEN Blocked ELSE Scored(ruleSet, d, f)

\* A larger amount meets every limit and every multiple of the average that a
\* smaller one meets.
LEMMA LargerMatchesMore ==
  ASSUME NEW tiers, \A i \in DOMAIN tiers : tiers[i].multiplier \in Int,
         NEW avg, avg.sum \in Nat, avg.count \in Nat,
         NEW d, NEW e, d.amount \in Nat, e.amount \in Nat, d.amount <= e.amount
  PROVE  amountMatches(tiers, d, avg) \subseteq amountMatches(tiers, e, avg)
<1>1. \A a, b, n \in Nat : a <= b => a * n <= b * n
  OBVIOUS
<1>2. /\ d.amount * avg.count \in Int /\ e.amount * avg.count \in Int
      /\ d.amount * avg.count <= e.amount * avg.count
  BY <1>1
<1>3. \A i \in DOMAIN tiers : avg.sum * tiers[i].multiplier \in Int
  OBVIOUS
<1> QED
  BY <1>2, <1>3 DEF amountMatches

\* Whatever the rule set, raising nothing but the amount never makes the decision of
\* evaluate milder.
THEOREM LargerNotMilder ==
  ASSUME NEW ruleSet, WellFormed(ruleSet),
         NEW f, f.avg_ticket.sum \in Nat, f.avg_ticket.count \in Nat,
         NEW d, NEW e, d.minutes = e.minutes,
         d.amount \in Nat, e.amount \in Nat, d.amount <= e.amount
  PROVE  Severity(Judged(ruleSet, e, f).decision) >= Severity(Judged(ruleSet, d, f).decision)
<1> DEFINE rules == ruleSet.rules
           points(x) == << destNew(rules, x, f).points, accountNew(rules, f).points,
                           velocity(rules, f).points, amountAtypical(rules, x, f).points >>
           sum(x) == points(x)[1] + points(x)[2] + points(x)[3] + points(x)[4]
           score(x) == IF sum(x) < MAX_SCORE THEN sum(x) ELSE MAX_SCORE
<1>1. nightLimit(ruleSet.NIGHT_LIMIT, d) => nightLimit(ruleSet.NIGHT_LIMIT, e)
  BY DEF nightLimit, WellFormed
<1>2. /\ points(d)[1] \in Nat /\ points(e)[1] \in Nat
      /\ points(d)[1] <= points(e)[1]
  BY DEF destNew, Hit, NoHit, WellFormed
<1>3. points(d)[2] \in Nat /\ points(e)[2] = points(d)[2]
  BY DEF accountNew, Hit, NoHit, WellFormed
<1>4. points(d)[3] \in Nat /\ points(e)[3] = points(d)[3]
  <2>1. "VELOCITY" \in DOMAIN rules =>
          TierPoints(rules.VELOCITY.tiers, velocityMatches(rules.VELOCITY.tiers, f)) \in Nat
    BY TierPointsAre DEF WellFormed, velocityMatches
  <2>2. velocity(rules, f).points \in Nat
    BY <2>1, VelocityScores
  <2> QED
    BY <2>2
<1>5. /\ points(d)[4] \in Nat /\ points(e)[4] \in Nat
      /\ points(d)[4] <= points(e)[4]
  <2> DEFINE tiers == rules.AMOUNT_ATYPICAL.tiers
             T(x) == TierPoints(tiers, amountMatches(tiers, x, f.avg_ticket))
  <2>1. ASSUME "AMOUNT_ATYPICAL" \in DOMAIN rules
        PROVE  T(d) \in Nat /\ T(e) \in Nat /\ T(d) <= T(e)
    <3>1. HasPoints(tiers) /\ \A i \in DOMAIN tiers : tiers[i].multiplier \in Int
      BY <2>1 DEF WellFormed
    <3> HIDE DEF tiers
    <3>2. /\ amountMatches(tiers, d, f.avg_ticket) \in SUBSET DOMAIN tiers
          /\ amountMatches(tiers, e, f.avg_ticket) \in SUBSET DOMAIN tiers
      BY DEF amountMatches
    <3>3. amountMatches(tiers, d, f.avg_ticket) \subseteq amountMatches(tiers, e, f.avg_ticket)
      BY <3>1, LargerMatchesMore
    <3> QED
      BY <3>1, <3>2, <3>3, TierPointsAre, MoreTiersNotLess
  <2>2. \/ amountAtypical(rules, d, f).points = 0 /\ amountAtypical(rules, e, f).points = 0
        \/ /\ "AMOUNT_ATYPICAL" \in DOMAIN rules
           /\ amountAtypical(rules, d, f).points = T(d)
           /\ amountAtypical(rules, e, f).points = T(e)
    BY AtypicalScores
  <2> HIDE DEF T
  <2> QED
    BY <2>1, <2>2
<1> HIDE DEF points
<1>6. score(d) \in Nat /\ score(e) \in Nat /\ score(d) <= score(e)
  BY <1>2, <1>3, <1>4, <1>5 DEF MAX_SCORE
<1>7. /\ Scored(ruleSet, d, f).decision = Decision(ruleSet.thresholds, score(d))
      /\ Scored(ruleSet, e, f).decision = Decision(ruleSet.thresholds, score(e))
  BY DEF Scored, Verdict, points
<1> HIDE DEF score
<1>8. Severity(Decision(ruleSet.thresholds, score(e)))
        >= Severity(Decision(ruleSet.thresholds, score(d)))
  BY <1>6 DEF Decision, Severity, WellFormed
<1>9. Severity(Decision(ruleSet.thresholds, score(d))) <= 2
  BY DEF Decision, Severity
<1>10. Severity(Blocked.decision) = 2
  BY DEF Blocked, Verdict, Severity
<1> QED
  BY <1>1, <1>7, <1>8, <1>9, <1>10 DEF Judged
-----------------------------------------------------------------------------
\* The features are numbers, and v1 a rule set of the general kind in either order.
LEMMA TableValues ==
  ASSUME TableType
  PROVE  /\ data.amount \in Nat
         /\ data.minutes \in MinutesOfDay
         /\ features.velocity_count \in Nat
         /\ features.avg_ticket.sum \in Nat /\ features.avg_ticket.count \in Nat
         /\ features.account_age_hours \in Nat \cup {UnknownAge}
         /\ features.dest_seen_before \in BOOLEAN
BY AmountsAssumption, TimesAssumption, CountsAssumption, AveragesAssumption, AgesAssumption
DEF TableType

\* Two tiers with points are a list of tiers with points.
LEMMA PairHasPoints ==
  ASSUME NEW a, NEW b, a.points \in Nat, b.points \in Nat
  PROVE  HasPoints(<<a, b>>) /\ DOMAIN <<a, b>> = {1, 2}
<1>1. IsFiniteSet({1} \cup {2})
  BY FS_Singleton, FS_AddElement
<1>2. {1} \cup {2} = {1, 2}
  OBVIOUS
<1>3. DOMAIN <<a, b>> = {1, 2}
  OBVIOUS
<1> QED
  BY <1>1, <1>2, <1>3 DEF HasPoints

\* The rule set of init.sql is one of those LargerNotMilder is about.
LEMMA V1WellFormed ==
  WellFormed(v1)
<1>1. HasPoints(v1.rules.VELOCITY.tiers)
  BY PairHasPoints DEF v1, Tiers
<1>2. HasPoints(v1.rules.AMOUNT_ATYPICAL.tiers)
  BY PairHasPoints DEF v1, Tiers
<1>3. \A i \in DOMAIN v1.rules.AMOUNT_ATYPICAL.tiers :
        v1.rules.AMOUNT_ATYPICAL.tiers[i].multiplier \in Int
  BY DEF v1, Tiers
<1>4. /\ v1.thresholds.deny \in Int /\ v1.thresholds.review \in Int
      /\ v1.NIGHT_LIMIT.max_amount \in Int
      /\ v1.rules.DEST_NEW.points \in Nat /\ v1.rules.DEST_NEW.min_amount \in Int
      /\ v1.rules.ACCOUNT_NEW.points \in Nat
  BY DEF v1
<1> QED
  BY <1>1, <1>2, <1>3, <1>4 DEF WellFormed

\* Of two requests to evaluate that differ in nothing but the amount, the larger is
\* never answered more mildly, with the rule set of init.sql.
THEOREM NeverMilderHolds == Spec => NeverMilder
<1>1. TableType /\ TableType' /\ [Another]_vars =>
        [data'.amount > data.amount =>
           Severity(Decide(data').decision) >= Severity(Decide(data).decision)]_vars
  <2> SUFFICES ASSUME TableType, TableType', Another, data'.amount > data.amount
               PROVE  Severity(Decide(data').decision) >= Severity(Decide(data).decision)
    OBVIOUS
  <2>1. /\ data.amount \in Nat /\ data'.amount \in Nat /\ data.amount <= data'.amount
        /\ features.avg_ticket.sum \in Nat /\ features.avg_ticket.count \in Nat
    <3>1. data.amount \in Nat /\ features.avg_ticket.sum \in Nat /\ features.avg_ticket.count \in Nat
      BY TableValues
    <3>2. data'.amount \in Nat
      BY AmountsAssumption DEF TableType
    <3> QED
      BY <3>1, <3>2
  <2>2. data'.minutes = data.minutes
    BY DEF Another, TableType
  <2>3. Severity(Judged(v1, data', features).decision)
          >= Severity(Judged(v1, data, features).decision)
    BY <2>1, <2>2, V1WellFormed, LargerNotMilder
  <2> QED
    BY <2>3 DEF Decide, Judged
<1> QED
  BY <1>1, TableTypeHolds, PTL DEF Spec, NeverMilder

\* Which is the greatest of the points of the tiers that apply.
LEMMA TierPointsAreGreatest ==
  ASSUME NEW tiers, HasPoints(tiers), NEW matches \in SUBSET DOMAIN tiers
  PROVE  LET points == {tiers[i].points : i \in matches}
         IN TierPoints(tiers, matches) = IF points = {} THEN 0 ELSE Max(points)
<1> DEFINE points == {tiers[i].points : i \in matches}
           P == TierPoints(tiers, matches)
<1>1. /\ P \in Nat
      /\ matches = {} => P = 0
      /\ matches # {} => P \in points
      /\ \A p \in points : p \in Nat /\ p <= P
  BY TierPointsAre DEF HasPoints
<1>2. points = {} => matches = {}
  OBVIOUS
<1> HIDE DEF points, P
<1>3. points # {} => P = Max(points)
  <2> SUFFICES ASSUME points # {}, P \in points PROVE P = Max(points)
    BY <1>1, <1>2 DEF points
  <2>1. \A x \in points : P >= x
    BY <1>1
  <2>2. \A y \in points : (\A x \in points : y >= x) => y = P
    BY <1>1, <2>1
  <2> QED
    BY <2>1, <2>2 DEF Max
<1>4. P = IF points = {} THEN 0 ELSE Max(points)
  BY <1>1, <1>2, <1>3
<1> QED
  BY <1>4 DEF P, points

\* velocity and amountAtypical score the severest tier that applies, in whichever order
\* init.sql lists the tiers, for every count of evaluations, amount and average.
THEOREM SevereTierHolds == Spec => []MostSevereTier
<1>1. TableType => MostSevereTier
  <2> SUFFICES ASSUME TableType PROVE MostSevereTier
    OBVIOUS
  <2> DEFINE avg == features.avg_ticket
             fast == v1.rules.VELOCITY.tiers
             large == v1.rules.AMOUNT_ATYPICAL.tiers
             reached == {j \in DOMAIN fast : features.velocity_count + 1 >= fast[j].min_tx}
             exceeded == {j \in DOMAIN large :
                            avg.count > 0 /\ data.amount * avg.count > avg.sum * large[j].multiplier}
             Greatest(points) == IF points = {} THEN 0 ELSE Max(points)
  <2>1. HasPoints(fast) /\ HasPoints(large)
    BY PairHasPoints DEF v1, Tiers
  <2>2. velocity(v1.rules, features).points = Greatest({fast[i].points : i \in reached})
    <3>1. velocity(v1.rules, features).points = TierPoints(fast, velocityMatches(fast, features))
      BY VelocityScores DEF v1
    <3> HIDE DEF fast
    <3>2. velocityMatches(fast, features) = reached
      BY DEF velocityMatches
    <3> QED
      BY <2>1, <3>1, <3>2, TierPointsAreGreatest
  <2>3. amountAtypical(v1.rules, data, features).points
          = Greatest({large[i].points : i \in exceeded})
    <3>1. amountAtypical(v1.rules, data, features).points =
            IF avg.count = 0 THEN 0 ELSE TierPoints(large, amountMatches(large, data, avg))
      BY AtypicalScores DEF v1
    <3>2. avg.count \in Nat
      BY TableValues
    <3> HIDE DEF large, avg
    <3>3. CASE avg.count = 0
      BY <3>1, <3>3
    <3>4. CASE avg.count > 0
      <4>1. amountMatches(large, data, avg) = exceeded
        BY <3>4, Zenon DEF amountMatches
      <4>2. exceeded \in SUBSET DOMAIN large
        OBVIOUS
      <4>3. amountAtypical(v1.rules, data, features).points = TierPoints(large, exceeded)
        BY <3>1, <3>2, <3>4, <4>1
      <4> HIDE DEF exceeded
      <4> QED
        BY <2>1, <4>2, <4>3, TierPointsAreGreatest
    <3> HIDE DEF exceeded, Greatest
    <3> QED
      BY <3>2, <3>3, <3>4
  <2> QED
    BY <2>2, <2>3 DEF MostSevereTier, Severest
<1> QED
  BY <1>1, TableTypeHolds, PTL

\* What v1 gives for a velocity, whichever way its tiers are written.
LEMMA VelocityOfV1 ==
  ASSUME TableType
  PROVE  LET now == features.velocity_count + 1
         IN velocity(v1.rules, features).points = Points(now >= 6, 35) + Points(now \in 3..5, 15)
<1> DEFINE tiers == v1.rules.VELOCITY.tiers
           now == features.velocity_count + 1
           matches == velocityMatches(tiers, features)
           P == TierPoints(tiers, matches)
<1>1. velocity(v1.rules, features).points = P
  BY VelocityScores DEF v1
<1>2. HasPoints(tiers) /\ DOMAIN tiers = {1, 2}
  BY PairHasPoints DEF v1, Tiers
<1>3. /\ upward => /\ tiers[1].min_tx = 3 /\ tiers[1].points = 15
                   /\ tiers[2].min_tx = 6 /\ tiers[2].points = 35
      /\ ~ upward => /\ tiers[1].min_tx = 6 /\ tiers[1].points = 35
                     /\ tiers[2].min_tx = 3 /\ tiers[2].points = 15
  BY DEF v1, Tiers
<1>4. now \in Nat
  BY TableValues
<1>5. \A i \in {1, 2} : i \in matches <=> now >= tiers[i].min_tx
  <2> HIDE DEF tiers
  <2> QED
    BY <1>2 DEF velocityMatches
<1>6. /\ P \in Nat
      /\ matches = {} => P = 0
      /\ matches # {} => \E i \in matches : P = tiers[i].points
      /\ \A i \in matches : tiers[i].points <= P
      /\ matches \subseteq {1, 2}
  <2>1. matches \in SUBSET DOMAIN tiers
    BY DEF velocityMatches
  <2> HIDE DEF tiers, matches
  <2> QED
    BY <1>2, <2>1, TierPointsAre
<1> HIDE DEF tiers, now, matches, P
<1>7. P = IF now >= 6 THEN 35 ELSE IF now >= 3 THEN 15 ELSE 0
  <2>1. CASE upward
    BY <1>3, <1>4, <1>5, <1>6, <2>1
  <2>2. CASE ~ upward
    BY <1>3, <1>4, <1>5, <1>6, <2>2
  <2> QED
    BY <2>1, <2>2
<1>8. P = Points(now >= 6, 35) + Points(now \in 3..5, 15)
  BY <1>4, <1>7 DEF Points
<1> QED
  BY <1>1, <1>8 DEF now

\* What it gives for an amount beside the average.
LEMMA AtypicalOfV1 ==
  ASSUME TableType
  PROVE  LET avg == features.avg_ticket
             atypical(times) == avg.count > 0 /\ data.amount * avg.count > times * avg.sum
         IN amountAtypical(v1.rules, data, features).points =
              Points(atypical(10), 40) + Points(atypical(3) /\ ~ atypical(10), 20)
<1> DEFINE avg == features.avg_ticket
           tiers == v1.rules.AMOUNT_ATYPICAL.tiers
           product == data.amount * avg.count
           matches == amountMatches(tiers, data, avg)
           P == TierPoints(tiers, matches)
<1>1. amountAtypical(v1.rules, data, features).points = IF avg.count = 0 THEN 0 ELSE P
  BY AtypicalScores DEF v1
<1>2. HasPoints(tiers) /\ DOMAIN tiers = {1, 2}
  BY PairHasPoints DEF v1, Tiers
<1>3. /\ upward => /\ tiers[1].multiplier = 3 /\ tiers[1].points = 20
                   /\ tiers[2].multiplier = 10 /\ tiers[2].points = 40
      /\ ~ upward => /\ tiers[1].multiplier = 10 /\ tiers[1].points = 40
                     /\ tiers[2].multiplier = 3 /\ tiers[2].points = 20
  BY DEF v1, Tiers
<1>4. /\ avg.count \in Nat /\ avg.sum \in Nat
      /\ product \in Nat
  <2>1. data.amount \in Nat /\ avg.count \in Nat /\ avg.sum \in Nat
    BY TableValues
  <2>2. \A m, n \in Nat : m * n \in Nat
    OBVIOUS
  <2> QED
    BY <2>1, <2>2
<1>5. \A i \in {1, 2} : i \in matches <=> product > avg.sum * tiers[i].multiplier
  <2> HIDE DEF tiers, avg
  <2> QED
    BY <1>2 DEF amountMatches
<1>6. /\ P \in Nat
      /\ matches = {} => P = 0
      /\ matches # {} => \E i \in matches : P = tiers[i].points
      /\ \A i \in matches : tiers[i].points <= P
      /\ matches \subseteq {1, 2}
  <2>1. matches \in SUBSET DOMAIN tiers
    BY DEF amountMatches
  <2> HIDE DEF tiers, matches
  <2> QED
    BY <1>2, <2>1, TierPointsAre
<1> HIDE DEF tiers, product, matches, P, avg
<1>7. P = IF product > 10 * avg.sum THEN 40 ELSE IF product > 3 * avg.sum THEN 20 ELSE 0
  <2>1. CASE upward
    BY <1>3, <1>4, <1>5, <1>6, <2>1
  <2>2. CASE ~ upward
    BY <1>3, <1>4, <1>5, <1>6, <2>2
  <2> QED
    BY <2>1, <2>2
<1>8. (IF avg.count = 0 THEN 0 ELSE P) =
        Points(avg.count > 0 /\ product > 10 * avg.sum, 40)
        + Points((avg.count > 0 /\ product > 3 * avg.sum)
                 /\ ~ (avg.count > 0 /\ product > 10 * avg.sum), 20)
  BY <1>4, <1>7 DEF Points
<1> QED
  BY <1>1, <1>8 DEF product, avg

\* For every transaction whose destination is not flagged and whose origin is neither
\* blocked nor deactivated, and every history of its origin, the decision is the one the
\* night limit, the soft rules and the cuts of README.md lead to. Of the other
\* transactions the theorem says nothing: evaluate does not have their two hard rules.
THEOREM DecidesAsWritten == Spec => []DecidesAsDocumented
<1>1. TableType => DecidesAsDocumented
  <2> SUFFICES ASSUME TableType PROVE DecidesAsDocumented
    OBVIOUS
  <2> DEFINE d == destNew(v1.rules, data, features).points
             a == accountNew(v1.rules, features).points
             v == velocity(v1.rules, features).points
             t == amountAtypical(v1.rules, data, features).points
             sum == d + a + v + t
             score == IF sum < MAX_SCORE THEN sum ELSE MAX_SCORE
  <2>1. nightLimit(v1.NIGHT_LIMIT, data) <=> OverNightLimit
    BY TableValues DEF OverNightLimit, nightLimit, isWithinWindow, toMinutes, v1, MinutesOfDay
  <2>2. d = Points(~ features.dest_seen_before /\ data.amount >= 50000, 15)
    BY DEF destNew, Points, Hit, NoHit, v1
  <2>3. a = Points(features.account_age_hours < 24, 25)
    BY TableValues DEF accountNew, Points, Hit, NoHit, v1, UnknownAge
  <2>4. sum = DocumentedScore
    <3> DEFINE now == features.velocity_count + 1
               atypical(times) ==
                 /\ features.avg_ticket.count > 0
                 /\ data.amount * features.avg_ticket.count > times * features.avg_ticket.sum
    <3>1. DocumentedScore =
            Points(~ features.dest_seen_before /\ data.amount >= 50000, 15)
            + Points(now >= 6, 35) + Points(now \in 3..5, 15)
            + Points(features.account_age_hours < 24, 25)
            + Points(atypical(10), 40) + Points(atypical(3) /\ ~ atypical(10), 20)
      BY DEF DocumentedScore
    <3>2. /\ v = Points(now >= 6, 35) + Points(now \in 3..5, 15)
          /\ t = Points(atypical(10), 40) + Points(atypical(3) /\ ~ atypical(10), 20)
      BY VelocityOfV1, AtypicalOfV1
    <3>3. \A condition : \A n \in Nat : Points(condition, n) \in Nat
      BY DEF Points
    <3> HIDE DEF d, a, v, t, now, atypical
    <3> QED
      BY <2>2, <2>3, <3>1, <3>2, <3>3
  <2>5. Scored(v1, data, features).decision = Decision(v1.thresholds, score)
    BY DEF Scored, Verdict
  <2>6. DocumentedScore \in Int
    <3>1. d \in Int /\ a \in Int
      BY <2>2, <2>3 DEF Points
    <3>2. v \in Int /\ t \in Int
      BY VelocityOfV1, AtypicalOfV1 DEF Points
    <3> HIDE DEF d, a, v, t
    <3> QED
      BY <2>4, <3>1, <3>2
  <2> HIDE DEF sum
  <2>7. Decision(v1.thresholds, score) =
          IF DocumentedScore >= 70 THEN "DENY"
          ELSE IF DocumentedScore >= 40 THEN "REVIEW" ELSE "APPROVE"
    BY <2>4, <2>6 DEF Decision, MAX_SCORE, v1
  <2>8. Blocked.decision = "DENY"
    BY DEF Blocked, Verdict
  <2> HIDE DEF score
  <2>9. Decide(data).decision = IF OverNightLimit THEN "DENY"
                                ELSE Decision(v1.thresholds, score)
    BY <2>1, <2>5, <2>8 DEF Decide
  <2> QED
    BY <2>7, <2>9 DEF DecidesAsDocumented
<1> QED
  BY <1>1, TableTypeHolds, PTL
=============================================================================
