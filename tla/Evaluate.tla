------------------------------ MODULE Evaluate ------------------------------
(***************************************************************************)
(* POST /antifraud/evaluate (src/antifraud/src/usecases/evaluate.js): calls *)
(* that interleave at every await, over the table risk_evaluations, from   *)
(* which they draw their features and in which tx_id is UNIQUE.  Every     *)
(* query is a transaction of its own; the four feature queries of a call   *)
(* run in parallel and see the table at four different instants.           *)
(*                                                                         *)
(* Time is a clock of ticks; the windows and ages of a rule set are in     *)
(* ticks here.  account_projections is fed by account.created events.      *)
(***************************************************************************)
EXTENDS RiskRules, FiniteSets, FiniteSetsExt, SequencesExt

CONSTANTS
  Calls,       \* requests
  Dtos,        \* bodies: [tx_id, origin_account, dest_key, amount, minutes]
  RuleSets,    \* version -> rule set (the table rule_sets, never updated)
  Versions,    \* values that ACTIVE_RULE_VERSION is given
  Accounts,    \* the origin accounts
  Born,        \* account -> its created_at
  MaxClock,    \* bound on the clock
  Faults,      \* the kinds of failure that may happen ...
  MaxFaults    \* ... and how many of them (a bound for TLC)

ASSUME DtosAssumption ==
  \A dto \in Dtos : dto.origin_account \in Accounts /\ dto.amount \in Nat \ {0}
ASSUME BornAssumption == Born \in [Accounts -> Int]
ASSUME AgesAssumption ==
  \A v \in DOMAIN RuleSets : "ACCOUNT_NEW" \in DOMAIN RuleSets[v].rules =>
    RuleSets[v].rules.ACCOUNT_NEW.max_age_hours \in Int
ASSUME PointsAssumption ==
  \A v \in DOMAIN RuleSets :
    LET rules == RuleSets[v].rules
    IN /\ \A r \in {"DEST_NEW", "ACCOUNT_NEW"} \cap DOMAIN rules : rules[r].points \in Nat
       /\ \A r \in {"VELOCITY", "AMOUNT_ATYPICAL"} \cap DOMAIN rules :
            \A i \in DOMAIN rules[r].tiers : rules[r].tiers[i].points \in Nat
ASSUME FaultsAssumption ==
  Faults \subseteq {"statement", "redeploy"} /\ MaxFaults \in Nat
ASSUME ClockAssumption == MaxClock \in Nat

VARIABLES
  rows,        \* risk_evaluations, in the order of their inserts
  projected,   \* the accounts with a row in account_projections
  pc,          \* call -> the query it is waiting for
  dto,         \* call -> its body
  version,     \* call -> the version of the rule set it has selected
  now,         \* call -> when it started to load its features
  features,    \* call -> the features loaded so far
  verdict,     \* call -> what it has decided
  reply,       \* call -> its answer
  answered,    \* call -> the tx_ids stored when it came in (history)
  active,      \* ACTIVE_RULE_VERSION
  clock,
  faults       \* failures so far

tables == <<rows, projected>>
work == <<dto, version, now, features, verdict>>
env == <<active, clock, faults>>
vars == <<tables, pc, work, reply, answered, env>>

FeatureNames == {"velocity_count", "avg_ticket", "dest_seen_before", "account_age_hours"}

Goto(c, next) == pc' = [pc EXCEPT ![c] = next]

\* The response is sent, or the error middleware answers.
Respond(c, body) ==
  /\ Goto(c, "done")
  /\ reply' = [reply EXCEPT ![c] = body]

toResponse(row) == [decision |-> row.decision, score |-> row.score,
                    rule_version |-> row.rule_version, reasons |-> row.reasons]

\* The calls without a decision: no answer yet, 500, 400, and no answer ever
\* because the process has ended.
Without(reason) == [decision |-> reason, score |-> 0, rule_version |-> "", reasons |-> {}]
NoReply == Without("none")
Error == Without("error")
Invalid == Without("invalid")
Lost == Without("lost")

May(kind) == kind \in Faults /\ faults < MaxFaults /\ faults' = faults + 1

Stored(tx_id) == \E i \in DOMAIN rows : rows[i].tx_id = tx_id
RowOf(tx_id) == rows[CHOOSE i \in DOMAIN rows : rows[i].tx_id = tx_id]

-----------------------------------------------------------------------------
Init ==
  /\ rows = << >>
  /\ projected \in SUBSET Accounts
  /\ pc = [c \in Calls |-> "new"]
  /\ dto \in [Calls -> Dtos]
  /\ version = [c \in Calls |-> ""]
  /\ now = [c \in Calls |-> 0]
  /\ features = [c \in Calls |-> << >>]
  /\ verdict = [c \in Calls |-> Verdict(0, "none", {})]
  /\ reply = [c \in Calls |-> NoReply]
  /\ answered = [c \in Calls |-> {}]
  /\ active \in Versions
  /\ clock = 0
  /\ faults = 0

\* evaluateSchema.parse, then the query for the tx_id is sent.
Receive(c) ==
  /\ pc[c] = "new"
  /\ answered' = [answered EXCEPT ![c] = {rows[i].tx_id : i \in DOMAIN rows}]
  /\ \/ Goto(c, "existing") /\ UNCHANGED reply
     \/ Respond(c, Invalid)
  /\ UNCHANGED <<tables, work, env>>

\* A tx_id that has been decided keeps its decision.
FindExisting(c) ==
  LET tx_id == dto[c].tx_id
  IN /\ pc[c] = "existing"
     /\ IF Stored(tx_id)
        THEN Respond(c, toResponse(RowOf(tx_id)))
        ELSE Goto(c, "ruleSet") /\ UNCHANGED reply
     /\ UNCHANGED <<tables, work, answered, env>>

\* The rule set of the active version.  Up to its next await the call goes on to
\* the hard rules, and starts the feature queries unless they have denied.
LoadRuleSet(c) ==
  /\ pc[c] = "ruleSet"
  /\ IF active \notin DOMAIN RuleSets
     THEN Respond(c, Error) /\ UNCHANGED <<version, now, verdict>>
     ELSE /\ version' = [version EXCEPT ![c] = active]
          /\ IF nightLimit(RuleSets[active].NIGHT_LIMIT, dto[c])
             THEN /\ verdict' = [verdict EXCEPT ![c] = Blocked]
                  /\ Goto(c, "insert")
                  /\ UNCHANGED <<now, reply>>
             ELSE /\ now' = [now EXCEPT ![c] = clock]
                  /\ Goto(c, "features")
                  /\ UNCHANGED <<verdict, reply>>
  /\ UNCHANGED <<tables, dto, features, answered, env>>

rulesOf(c) == RuleSets[version[c]].rules

\* The evaluations of the call's origin account since a time.
RowsSince(c, since) ==
  {i \in DOMAIN rows : rows[i].origin_account = dto[c].origin_account /\ rows[i].at > since}

\* Mutant: only what was approved is counted, as for the average.
velocity_count_Approved(c) ==
  IF "VELOCITY" \notin DOMAIN rulesOf(c) THEN 0
  ELSE Cardinality({i \in RowsSince(c, now[c] - rulesOf(c).VELOCITY.window_minutes) :
                      rows[i].decision = "APPROVE"})

\* Attempts are a sign of risk as well: every decision counts.
velocity_count(c) ==
  IF "VELOCITY" \notin DOMAIN rulesOf(c) THEN 0
  ELSE Cardinality(RowsSince(c, now[c] - rulesOf(c).VELOCITY.window_minutes))

\* The average of what was approved, as [sum, count].
avg_ticket(c) ==
  LET approved ==
        IF "AMOUNT_ATYPICAL" \notin DOMAIN rulesOf(c) THEN {}
        ELSE {i \in RowsSince(c, now[c] - rulesOf(c).AMOUNT_ATYPICAL.avg_window_days) :
                rows[i].decision = "APPROVE"}
  IN [sum |-> MapThenSumSet(LAMBDA i : rows[i].amount, approved),
      count |-> Cardinality(approved)]

dest_seen_before(c) ==
  \E i \in DOMAIN rows :
    /\ rows[i].origin_account = dto[c].origin_account
    /\ rows[i].dest_key = dto[c].dest_key
    /\ rows[i].decision = "APPROVE"

account_age_hours(c) ==
  LET account == dto[c].origin_account
  IN IF account \in projected THEN now[c] - Born[account] ELSE UnknownAge

\* One of the four queries of Promise.all is executed.
LoadFeature(c, name) ==
  /\ pc[c] = "features"
  /\ name \notin DOMAIN features[c]
  /\ LET value == CASE name = "velocity_count" -> velocity_count(c)
                    [] name = "avg_ticket" -> avg_ticket(c)
                    [] name = "dest_seen_before" -> dest_seen_before(c)
                    [] name = "account_age_hours" -> account_age_hours(c)
     IN features' = [features EXCEPT ![c] =
                       [f \in DOMAIN @ \cup {name} |-> IF f = name THEN value ELSE @[f]]]
  /\ UNCHANGED <<tables, pc, dto, version, now, verdict, reply, answered, env>>

\* All four are there: the call scores them and sends its INSERT.
Decide(c) ==
  /\ pc[c] = "features"
  /\ DOMAIN features[c] = FeatureNames
  /\ verdict' = [verdict EXCEPT ![c] = Scored(RuleSets[version[c]], dto[c], features[c])]
  /\ Goto(c, "insert")
  /\ UNCHANGED <<tables, dto, version, now, features, reply, answered, env>>

\* Mutant: the version is the active one when the row is written.
NewRow_ActiveVersion(c) ==
  [tx_id |-> dto[c].tx_id, origin_account |-> dto[c].origin_account,
   dest_key |-> dto[c].dest_key, amount |-> dto[c].amount,
   score |-> verdict[c].score, decision |-> verdict[c].decision,
   reasons |-> verdict[c].reasons, rule_version |-> active, at |-> clock]

\* created_at is the database's NOW().
NewRow(c) ==
  [tx_id |-> dto[c].tx_id, origin_account |-> dto[c].origin_account,
   dest_key |-> dto[c].dest_key, amount |-> dto[c].amount,
   score |-> verdict[c].score, decision |-> verdict[c].decision,
   reasons |-> verdict[c].reasons, rule_version |-> version[c], at |-> clock]

\* tx_id is UNIQUE.
Conflicts(c) == Stored(dto[c].tx_id)

\* Mutant: the INSERT is tried again.
AfterConflict_Retry == "insert"

\* The query a call goes on to when its INSERT has failed with 23505.
AfterConflict == "winner"

\* Mutant: ON CONFLICT (tx_id) DO UPDATE, the last of two calls decides.
Insert_Upsert(c) ==
  /\ pc[c] = "insert"
  /\ rows' = IF Conflicts(c)
             THEN [i \in DOMAIN rows |-> IF rows[i].tx_id = dto[c].tx_id THEN NewRow(c) ELSE rows[i]]
             ELSE Append(rows, NewRow(c))
  /\ Respond(c, toResponse(NewRow(c)))
  /\ UNCHANGED <<projected, work, answered, env>>

\* The INSERT, which decides a race between two calls with the same tx_id.
Insert(c) ==
  /\ pc[c] = "insert"
  /\ IF Conflicts(c)
     THEN Goto(c, AfterConflict) /\ UNCHANGED <<rows, reply>>
     ELSE /\ rows' = Append(rows, NewRow(c))
          /\ Respond(c, toResponse(NewRow(c)))
  /\ UNCHANGED <<projected, work, answered, env>>

\* Mutant: the loser of the race answers with its own decision.
WinnerResponse_Own(c) == toResponse(NewRow(c))

\* The other evaluation got there first, and it is its decision that holds.
WinnerResponse(c) == toResponse(RowOf(dto[c].tx_id))

\* Without a row, toResponse(undefined) throws.
FindWinner(c) ==
  /\ pc[c] = "winner"
  /\ Respond(c, IF Stored(dto[c].tx_id) THEN WinnerResponse(c) ELSE Error)
  /\ UNCHANGED <<tables, work, answered, env>>

\* A query fails.  An INSERT may have been executed all the same.
StatementFails(c) ==
  /\ pc[c] \in {"existing", "ruleSet", "features", "insert", "winner"}
  /\ May("statement")
  /\ Respond(c, Error)
  /\ \/ UNCHANGED rows
     \/ pc[c] = "insert" /\ ~ Conflicts(c) /\ rows' = Append(rows, NewRow(c))
  /\ UNCHANGED <<projected, work, answered, active, clock>>

\* The service ends and is started again, perhaps with another rule version.  An
\* INSERT it had sent is left to the database.
Redeploy ==
  LET cut == {c \in Calls : pc[c] \notin {"new", "done", "orphan"}}
  IN /\ May("redeploy")
     /\ active' \in Versions
     /\ pc' = [c \in Calls |-> IF c \notin cut THEN pc[c]
                               ELSE IF pc[c] = "insert" THEN "orphan" ELSE "done"]
     /\ reply' = [c \in Calls |-> IF c \in cut THEN Lost ELSE reply[c]]
     /\ UNCHANGED <<tables, work, answered, clock>>

\* The database gets to that INSERT, or never does.
InsertOrphan(c) ==
  /\ pc[c] = "orphan"
  /\ Goto(c, "done")
  /\ \/ UNCHANGED rows
     \/ ~ Conflicts(c) /\ rows' = Append(rows, NewRow(c))
  /\ UNCHANGED <<projected, work, reply, answered, env>>

\* An account.created event arrives (AccountFeed).
Project(account) ==
  /\ account \notin projected
  /\ projected' = projected \cup {account}
  /\ UNCHANGED <<rows, pc, work, reply, answered, env>>

Tick ==
  /\ clock < MaxClock
  /\ clock' = clock + 1
  /\ UNCHANGED <<tables, pc, work, reply, answered, active, faults>>

-----------------------------------------------------------------------------
Run(c) ==
  \/ FindExisting(c)
  \/ LoadRuleSet(c)
  \/ \E name \in FeatureNames : LoadFeature(c, name)
  \/ Decide(c)
  \/ Insert(c)
  \/ FindWinner(c)

Next ==
  \/ \E c \in Calls : Receive(c) \/ Run(c) \/ StatementFails(c) \/ InsertOrphan(c)
  \/ Redeploy
  \/ \E account \in Accounts : Project(account)
  \/ Tick

Spec == Init /\ [][Next]_vars

\* A query that was sent comes back; nothing else is owed.
FairSpec == Spec /\ \A c \in Calls : WF_vars(Run(c))

-----------------------------------------------------------------------------
Decided(c) == reply[c] \notin {NoReply, Error, Invalid, Lost}

\* Type invariant.  Once a call has a verdict it has the features it rests on, and a
\* stored decision always names a rule set there is.
EvaluateTypeOK ==
  /\ \A i \in DOMAIN rows :
       /\ rows[i].decision \in {"APPROVE", "REVIEW", "DENY"}
       /\ rows[i].score \in 0..MAX_SCORE
       /\ rows[i].rule_version \in DOMAIN RuleSets
       /\ rows[i].at \in 0..clock
  /\ projected \subseteq Accounts
  /\ pc \in [Calls -> {"new", "existing", "ruleSet", "features", "insert", "winner",
                       "orphan", "done"}]
  /\ dto \in [Calls -> Dtos]
  /\ \A c \in Calls : DOMAIN features[c] \subseteq FeatureNames
  /\ \A c \in Calls : pc[c] \in {"insert", "winner"} /\ verdict[c] # Blocked
                        => DOMAIN features[c] = FeatureNames
  /\ clock \in 0..MaxClock /\ faults \in 0..MaxFaults

\* evaluate is idempotent by tx_id: all calls that get a decision for a tx_id get the
\* one stored for it, and there is one, however they race, are retried, or meet a
\* redeployment with other rules in between.
OneDecisionPerTx ==
  /\ \A i, j \in DOMAIN rows : rows[i].tx_id = rows[j].tx_id => i = j
  /\ \A c \in Calls : Decided(c) =>
       Stored(dto[c].tx_id) /\ reply[c] = toResponse(RowOf(dto[c].tx_id))

\* A caller who waits for an answer before sending the next transaction is counted in
\* full: the velocity of a call includes every evaluation that was stored before the
\* call came in and is still within the window, whatever was decided then.
CountsWhatCameBefore ==
  \A c \in Calls :
    "velocity_count" \in DOMAIN features[c] /\ "VELOCITY" \in DOMAIN rulesOf(c) =>
      features[c].velocity_count >=
        Cardinality({i \in RowsSince(c, now[c] - rulesOf(c).VELOCITY.window_minutes) :
                       rows[i].tx_id \in answered[c]})

HasReason(row, rule) == \E hit \in row.reasons : hit.rule = rule

\* However late account.created arrives, a transaction of an account below the age
\* limit is scored for it, unless the night limit has denied it already.
NewAccountsScore ==
  \A i \in DOMAIN rows :
    LET row == rows[i]
        rules == RuleSets[row.rule_version].rules
    IN \/ HasReason(row, "NIGHT_LIMIT")
       \/ "ACCOUNT_NEW" \notin DOMAIN rules
       \/ row.at - Born[row.origin_account] >= rules.ACCOUNT_NEW.max_age_hours
       \/ HasReason(row, "ACCOUNT_NEW")

\* README.md: "alta (>= 3 tx em 10min): +15 pts".  A transaction that is the third of
\* its account within the window has points for velocity.
VelocityScored ==
  \A i \in DOMAIN rows :
    LET row == rows[i]
        config == RuleSets[row.rule_version].rules.VELOCITY
        within == {j \in 1..i : /\ rows[j].origin_account = row.origin_account
                                /\ rows[j].at > row.at - config.window_minutes}
    IN (\E t \in DOMAIN config.tiers : Cardinality(within) >= config.tiers[t].min_tx)
         => HasReason(row, "VELOCITY") \/ HasReason(row, "NIGHT_LIMIT")

\* The calls as DecidedOnce sees them: the row of a tx_id is its decision, and a call
\* that was not answered with a decision has been told nothing.
askedFor == [c \in Calls |-> dto[c].tx_id]
decisions == [t \in {rows[i].tx_id : i \in DOMAIN rows} |-> toResponse(RowOf(t))]
tellings == [c \in Calls |-> IF Decided(c) THEN reply[c] ELSE NoReply]

Once == INSTANCE DecidedOnce WITH
  Callers <- Calls, Nothing <- NoReply,
  asked <- askedFor, decided <- decisions, told <- tellings

\* Every step of every call, with failures, redeployments and INSERTs that the database
\* executes after their call has gone, decides a transaction at most once, tells a
\* caller that decision, or neither: the row of a tx_id is never replaced or removed,
\* and a caller who was told its decision is not told another one.
DecidesOnce == Once!Spec

\* Every call that came in is answered.
EvaluationsEnd == \A c \in Calls : pc[c] # "new" ~> reply[c] # NoReply
=============================================================================
