---------------------------- MODULE EvaluateProofs ----------------------------
(***************************************************************************)
(* Proofs about Evaluate, for any number of calls, any bodies, rule sets   *)
(* and versions, and any number of failures and redeployments.             *)
(***************************************************************************)
EXTENDS Evaluate, FiniteSetTheorems, SequenceTheorems, TLAPS

Calling == {"new", "existing", "ruleSet", "features", "insert", "winner", "orphan", "done"}

\* The variables that are indexed by calls.
CallsTyped ==
  /\ pc \in [Calls -> Calling]
  /\ dto \in [Calls -> Dtos]
  /\ DOMAIN version = Calls /\ DOMAIN now = Calls /\ DOMAIN features = Calls
  /\ DOMAIN verdict = Calls /\ DOMAIN reply = Calls /\ DOMAIN answered = Calls
  /\ clock \in Nat /\ faults \in 0..MaxFaults

\* tx_id is UNIQUE in risk_evaluations.
RowsSound ==
  /\ \E S : rows \in Seq(S)
  /\ \A i, j \in DOMAIN rows : rows[i].tx_id = rows[j].tx_id => i = j

\* A decision that was answered is the one stored.
Faithful ==
  \A c \in Calls : Decided(c) =>
    Stored(dto[c].tx_id) /\ reply[c] = toResponse(RowOf(dto[c].tx_id))

OneInv == CallsTyped /\ RowsSound /\ Faithful

-----------------------------------------------------------------------------
\* What an INSERT does to the table, whichever call sends it.
LEMMA Inserted ==
  ASSUME RowsSound, NEW row, ~ Stored(row.tx_id), rows' = Append(rows, row)
  PROVE  /\ RowsSound'
         /\ DOMAIN rows' = DOMAIN rows \cup {Len(rows) + 1}
         /\ Len(rows) + 1 \notin DOMAIN rows
         /\ \A i \in DOMAIN rows : rows'[i] = rows[i]
         /\ rows'[Len(rows) + 1] = row
<1>1. PICK S : rows \in Seq(S)
  BY DEF RowsSound
<1>2. rows \in Seq(S \cup {row})
  BY <1>1
<1>3. rows' \in Seq(S \cup {row})
  BY <1>2, AppendProperties
<1>4. Len(rows) \in Nat /\ DOMAIN rows = 1..Len(rows) /\ Len(rows') = Len(rows) + 1
      /\ DOMAIN rows' = 1..Len(rows')
  BY <1>2, <1>3, AppendProperties
<1>5. DOMAIN rows' = DOMAIN rows \cup {Len(rows) + 1} /\ Len(rows) + 1 \notin DOMAIN rows
  BY <1>4
<1>6. (\A i \in DOMAIN rows : rows'[i] = rows[i]) /\ rows'[Len(rows) + 1] = row
  BY <1>2, <1>4, AppendProperties
<1>7. \A i, j \in DOMAIN rows' : rows'[i].tx_id = rows'[j].tx_id => i = j
  BY <1>5, <1>6 DEF RowsSound, Stored
<1> QED
  BY <1>3, <1>5, <1>6, <1>7 DEF RowsSound

\* ... and to what is stored for each tx_id.
LEMMA StoredStays ==
  ASSUME RowsSound, NEW row, ~ Stored(row.tx_id), rows' = Append(rows, row), NEW t
  PROVE  /\ Stored(t)' <=> Stored(t) \/ t = row.tx_id
         /\ Stored(t) => RowOf(t)' = RowOf(t)
         /\ t = row.tx_id => RowOf(t)' = row
<1>1. /\ DOMAIN rows' = DOMAIN rows \cup {Len(rows) + 1}
      /\ \A i \in DOMAIN rows : rows'[i] = rows[i]
      /\ rows'[Len(rows) + 1] = row
      /\ RowsSound'
  BY Inserted
<1>2. Stored(t)' <=> Stored(t) \/ t = row.tx_id
  BY <1>1 DEF Stored
<1>3. ASSUME Stored(t) PROVE RowOf(t)' = RowOf(t)
  <2>1. PICK k \in DOMAIN rows : rows[k].tx_id = t
    BY <1>3 DEF Stored
  <2>2. \A i \in DOMAIN rows : rows[i].tx_id = t <=> i = k
    BY <2>1 DEF RowsSound
  <2>3. k \in DOMAIN rows' /\ rows'[k].tx_id = t
    BY <1>1, <2>1
  <2>4. \A i \in DOMAIN rows' : rows'[i].tx_id = t <=> i = k
    BY <1>1, <2>3 DEF RowsSound
  <2>5. (CHOOSE i \in DOMAIN rows : rows[i].tx_id = t) = k
    BY <2>1, <2>2
  <2>6. (CHOOSE i \in DOMAIN rows' : rows'[i].tx_id = t) = k
    BY <2>3, <2>4
  <2> QED
    BY <1>1, <2>1, <2>5, <2>6 DEF RowOf
<1>4. ASSUME t = row.tx_id PROVE RowOf(t)' = row
  <2> DEFINE k == Len(rows) + 1
  <2>1. k \in DOMAIN rows' /\ rows'[k].tx_id = t
    BY <1>1, <1>4
  <2>2. \A i \in DOMAIN rows' : rows'[i].tx_id = t <=> i = k
    BY <1>1, <2>1 DEF RowsSound
  <2>3. (CHOOSE i \in DOMAIN rows' : rows'[i].tx_id = t) = k
    BY <2>1, <2>2
  <2> QED
    BY <1>1, <2>3 DEF RowOf
<1> QED
  BY <1>2, <1>3, <1>4

\* A call is answered without a change to the table: by an error, or by what is stored.
LEMMA Answered ==
  ASSUME OneInv, UNCHANGED <<rows, dto>>, NEW c \in Calls, NEW b,
         reply' = [reply EXCEPT ![c] = b],
         \/ b \in {Error, Invalid}
         \/ Stored(dto[c].tx_id) /\ b = toResponse(RowOf(dto[c].tx_id))
  PROVE  RowsSound' /\ Faithful'
<1>1. RowsSound' /\ \A t : (Stored(t)' <=> Stored(t)) /\ RowOf(t)' = RowOf(t)
  BY DEF OneInv, RowsSound, Stored, RowOf
<1>2. reply'[c] = b /\ \A d \in Calls \ {c} : reply'[d] = reply[d]
  BY DEF OneInv, CallsTyped
<1>3. \A d \in Calls : Decided(d) => Stored(dto[d].tx_id)
                                     /\ reply[d] = toResponse(RowOf(dto[d].tx_id))
  BY DEF OneInv, Faithful
<1>4. ASSUME NEW d \in Calls, Decided(d)'
      PROVE  Stored(dto[d].tx_id)' /\ reply'[d] = toResponse(RowOf(dto[d].tx_id))'
  <2>1. dto' = dto /\ reply'[d] \notin {Error, Invalid}
    BY <1>4 DEF Decided
  <2>2. d # c => Decided(d)
    BY <1>2, <1>4 DEF Decided
  <2>3. Stored(dto[d].tx_id) /\ reply'[d] = toResponse(RowOf(dto[d].tx_id))
    BY <1>2, <1>3, <2>1, <2>2
  <2> QED
    BY <1>1, <2>1, <2>3 DEF toResponse
<1> QED
  BY <1>1, <1>4 DEF Faithful

\* The table and the answers that have been given rest.
LEMMA Rested ==
  ASSUME OneInv, UNCHANGED <<rows, dto, reply>>
  PROVE  RowsSound' /\ Faithful'
BY DEF OneInv, RowsSound, Faithful, Decided, Stored, RowOf, toResponse

\* A call's row is inserted; the call is answered by it, by an error, or not at all.
LEMMA InsertedAnswer ==
  ASSUME OneInv, NEW c \in Calls, ~ Conflicts(c), rows' = Append(rows, NewRow(c)), dto' = dto,
         \/ reply' = reply
         \/ reply' = [reply EXCEPT ![c] = Error]
         \/ reply' = [reply EXCEPT ![c] = toResponse(NewRow(c))]
  PROVE  RowsSound' /\ Faithful'
<1>1. NewRow(c).tx_id = dto[c].tx_id /\ RowsSound /\ ~ Stored(NewRow(c).tx_id)
  BY DEF NewRow, OneInv, Conflicts
<1>2. RowsSound'
  BY <1>1, Inserted
<1>3. ASSUME NEW t
      PROVE  /\ Stored(t)' <=> Stored(t) \/ t = dto[c].tx_id
             /\ Stored(t) => RowOf(t)' = RowOf(t)
             /\ t = dto[c].tx_id => RowOf(t)' = NewRow(c)
  BY <1>1, StoredStays
<1>4. \A d \in Calls \ {c} : reply'[d] = reply[d]
  BY DEF OneInv, CallsTyped
<1>5. Decided(c)' => reply'[c] = toResponse(NewRow(c))
  BY DEF OneInv, CallsTyped, Decided, Faithful, Conflicts
<1>6. ASSUME NEW d \in Calls, Decided(d)'
      PROVE  Stored(dto[d].tx_id)' /\ reply'[d] = toResponse(RowOf(dto[d].tx_id))'
  <2>1. CASE d = c
    <3>1. Stored(dto[d].tx_id)' /\ RowOf(dto[d].tx_id)' = NewRow(c)
      BY <1>3, <2>1
    <3> QED
      BY <1>5, <1>6, <2>1, <3>1 DEF toResponse
  <2>2. CASE d # c
    <3>1. Decided(d) /\ reply'[d] = reply[d]
      BY <1>4, <1>6, <2>2 DEF Decided
    <3>2. Stored(dto[d].tx_id) /\ reply[d] = toResponse(RowOf(dto[d].tx_id))
      BY <3>1 DEF OneInv, Faithful
    <3>3. Stored(dto[d].tx_id)' /\ RowOf(dto[d].tx_id)' = RowOf(dto[d].tx_id)
      BY <1>3, <3>2
    <3> QED
      BY <3>1, <3>2, <3>3 DEF toResponse
  <2> QED
    BY <2>1, <2>2
<1> QED
  BY <1>2, <1>6 DEF Faithful

-----------------------------------------------------------------------------
LEMMA Counted ==
  ASSUME faults \in 0..MaxFaults, NEW kind, May(kind)
  PROVE  faults' \in 0..MaxFaults
BY FaultsAssumption DEF May

LEMMA ReceiveKeeps ==
  ASSUME OneInv, NEW c \in Calls, Receive(c)
  PROVE  OneInv'
<1>1. UNCHANGED <<rows, dto, version, now, features, verdict, clock, faults>>
      /\ answered' = [answered EXCEPT ![c] = {rows[i].tx_id : i \in DOMAIN rows}]
  BY DEF Receive, tables, work, env
<1>2. CASE Goto(c, "existing") /\ UNCHANGED reply
  <2>1. CallsTyped'
    BY <1>1, <1>2 DEF OneInv, CallsTyped, Goto, Calling
  <2> QED
    BY <1>1, <1>2, <2>1, Rested DEF OneInv
<1>3. CASE Respond(c, Invalid)
  <2>1. CallsTyped'
    BY <1>1, <1>3 DEF OneInv, CallsTyped, Respond, Goto, Calling
  <2>2. RowsSound' /\ Faithful'
    BY <1>1, <1>3, Answered DEF Respond
  <2> QED
    BY <2>1, <2>2 DEF OneInv
<1> QED
  BY <1>2, <1>3 DEF Receive

LEMMA FindExistingKeeps ==
  ASSUME OneInv, NEW c \in Calls, FindExisting(c)
  PROVE  OneInv'
<1>1. UNCHANGED <<rows, dto, version, now, features, verdict, answered, clock, faults>>
  BY DEF FindExisting, tables, work, env
<1>2. CASE Stored(dto[c].tx_id)
  <2>1. Respond(c, toResponse(RowOf(dto[c].tx_id)))
    BY <1>2 DEF FindExisting
  <2>2. CallsTyped'
    BY <1>1, <2>1 DEF OneInv, CallsTyped, Respond, Goto, Calling
  <2>3. RowsSound' /\ Faithful'
    BY <1>1, <1>2, <2>1, Answered DEF Respond
  <2> QED
    BY <2>2, <2>3 DEF OneInv
<1>3. CASE ~ Stored(dto[c].tx_id)
  <2>1. Goto(c, "ruleSet") /\ UNCHANGED reply
    BY <1>3 DEF FindExisting
  <2>2. CallsTyped'
    BY <1>1, <2>1 DEF OneInv, CallsTyped, Goto, Calling
  <2> QED
    BY <1>1, <2>1, <2>2, Rested DEF OneInv
<1> QED
  BY <1>2, <1>3

\* The steps between the two queries for the tx_id leave the table alone.
LEMMA LoadRuleSetKeeps ==
  ASSUME OneInv, NEW c \in Calls, LoadRuleSet(c)
  PROVE  OneInv'
<1>1. UNCHANGED <<rows, dto, features, answered, clock, faults>>
  BY DEF LoadRuleSet, tables, env
<1>2. CASE active \notin DOMAIN RuleSets
  <2>1. Respond(c, Error) /\ UNCHANGED <<version, now, verdict>>
    BY <1>2 DEF LoadRuleSet
  <2>2. CallsTyped'
    BY <1>1, <2>1 DEF OneInv, CallsTyped, Respond, Goto, Calling
  <2>3. RowsSound' /\ Faithful'
    BY <1>1, <2>1, Answered DEF Respond
  <2> QED
    BY <2>2, <2>3 DEF OneInv
<1>3. CASE active \in DOMAIN RuleSets
  <2>1. /\ version' = [version EXCEPT ![c] = active]
        /\ Goto(c, "insert") \/ Goto(c, "features")
        /\ verdict' = verdict \/ verdict' = [verdict EXCEPT ![c] = Blocked]
        /\ now' = now \/ now' = [now EXCEPT ![c] = clock]
        /\ UNCHANGED reply
    BY <1>3 DEF LoadRuleSet
  <2>2. pc' \in [Calls -> Calling]
    BY <2>1 DEF OneInv, CallsTyped, Goto, Calling
  <2>3. DOMAIN verdict' = Calls /\ DOMAIN now' = Calls /\ DOMAIN version' = Calls
    BY <2>1 DEF OneInv, CallsTyped
  <2>4. CallsTyped'
    BY <1>1, <2>1, <2>2, <2>3 DEF OneInv, CallsTyped
  <2> QED
    BY <1>1, <2>1, <2>4, Rested DEF OneInv
<1> QED
  BY <1>2, <1>3

LEMMA LoadFeatureKeeps ==
  ASSUME OneInv, NEW c \in Calls, NEW name \in FeatureNames, LoadFeature(c, name)
  PROVE  OneInv'
<1>1. UNCHANGED <<rows, pc, dto, version, now, verdict, reply, answered, clock, faults>>
      /\ DOMAIN features' = DOMAIN features
  BY DEF LoadFeature, tables, env
<1>2. CallsTyped'
  BY <1>1 DEF OneInv, CallsTyped
<1> QED
  BY <1>1, <1>2, Rested DEF OneInv

LEMMA DecideKeeps ==
  ASSUME OneInv, NEW c \in Calls, Decide(c)
  PROVE  OneInv'
<1>1. UNCHANGED <<rows, dto, version, now, features, reply, answered, clock, faults>>
      /\ DOMAIN verdict' = DOMAIN verdict /\ Goto(c, "insert")
  BY DEF Decide, tables, env
<1>2. CallsTyped'
  BY <1>1 DEF OneInv, CallsTyped, Goto, Calling
<1> QED
  BY <1>1, <1>2, Rested DEF OneInv

\* A race for the tx_id has one winner.
LEMMA InsertKeeps ==
  ASSUME OneInv, NEW c \in Calls, Insert(c)
  PROVE  OneInv'
<1>1. UNCHANGED <<dto, version, now, features, verdict, answered, clock, faults>>
  BY DEF Insert, work, env
<1>2. CASE Conflicts(c)
  <2>1. Goto(c, "winner") /\ UNCHANGED <<rows, reply>>
    BY <1>2 DEF Insert, AfterConflict
  <2>2. CallsTyped'
    BY <1>1, <2>1 DEF OneInv, CallsTyped, Goto, Calling
  <2> QED
    BY <1>1, <2>1, <2>2, Rested DEF OneInv
<1>3. CASE ~ Conflicts(c)
  <2>1. rows' = Append(rows, NewRow(c)) /\ Respond(c, toResponse(NewRow(c)))
    BY <1>3 DEF Insert
  <2>2. CallsTyped'
    BY <1>1, <2>1 DEF OneInv, CallsTyped, Respond, Goto, Calling
  <2>3. RowsSound' /\ Faithful'
    BY <1>1, <1>3, <2>1, InsertedAnswer DEF Respond
  <2> QED
    BY <2>2, <2>3 DEF OneInv
<1> QED
  BY <1>2, <1>3

LEMMA FindWinnerKeeps ==
  ASSUME OneInv, NEW c \in Calls, FindWinner(c)
  PROVE  OneInv'
<1>1. UNCHANGED <<rows, dto, version, now, features, verdict, answered, clock, faults>>
  BY DEF FindWinner, tables, work, env
<1> DEFINE b == IF Stored(dto[c].tx_id) THEN WinnerResponse(c) ELSE Error
<1>2. /\ Respond(c, b)
      /\ \/ b = Error
         \/ Stored(dto[c].tx_id) /\ b = toResponse(RowOf(dto[c].tx_id))
  <2>1. Respond(c, b)
    BY DEF FindWinner
  <2>2. \/ b = Error
        \/ Stored(dto[c].tx_id) /\ b = toResponse(RowOf(dto[c].tx_id))
    BY DEF WinnerResponse
  <2> QED
    BY <2>1, <2>2
<1> HIDE DEF b
<1>3. CallsTyped'
  BY <1>1, <1>2 DEF OneInv, CallsTyped, Respond, Goto, Calling
<1>4. RowsSound' /\ Faithful'
  BY <1>1, <1>2, Answered DEF Respond
<1> QED
  BY <1>3, <1>4 DEF OneInv

\* A query that failed is answered by an error, its row inserted or not.
LEMMA StatementFailsKeeps ==
  ASSUME OneInv, NEW c \in Calls, StatementFails(c)
  PROVE  OneInv'
<1>1. UNCHANGED <<dto, version, now, features, verdict, answered, clock>>
      /\ Respond(c, Error) /\ May("statement")
  BY DEF StatementFails, work
<1>2. faults' \in 0..MaxFaults
  BY <1>1, Counted DEF OneInv, CallsTyped
<1>3. CallsTyped'
  BY <1>1, <1>2 DEF OneInv, CallsTyped, Respond, Goto, Calling
<1>4. CASE UNCHANGED rows
  BY <1>1, <1>3, <1>4, Answered DEF Respond, OneInv
<1>5. CASE ~ Conflicts(c) /\ rows' = Append(rows, NewRow(c))
  BY <1>1, <1>3, <1>5, InsertedAnswer DEF Respond, OneInv
<1> QED
  BY <1>4, <1>5 DEF StatementFails

LEMMA InsertOrphanKeeps ==
  ASSUME OneInv, NEW c \in Calls, InsertOrphan(c)
  PROVE  OneInv'
<1>1. UNCHANGED <<dto, version, now, features, verdict, reply, answered, clock, faults>>
      /\ Goto(c, "done")
  BY DEF InsertOrphan, work, env
<1>2. CallsTyped'
  BY <1>1 DEF OneInv, CallsTyped, Goto, Calling
<1>3. CASE UNCHANGED rows
  BY <1>1, <1>2, <1>3, Rested DEF OneInv
<1>4. CASE ~ Conflicts(c) /\ rows' = Append(rows, NewRow(c))
  BY <1>1, <1>2, <1>4, InsertedAnswer DEF OneInv
<1> QED
  BY <1>3, <1>4 DEF InsertOrphan

\* A redeployment takes answers away, and changes none.
LEMMA RedeployKeeps ==
  ASSUME OneInv, Redeploy
  PROVE  OneInv'
<1> DEFINE cut == {c \in Calls : pc[c] \notin {"new", "done", "orphan"}}
<1>1. UNCHANGED <<rows, dto, version, now, features, verdict, answered, clock>>
      /\ May("redeploy")
      /\ pc' = [c \in Calls |-> IF c \notin cut THEN pc[c]
                                ELSE IF pc[c] = "insert" THEN "orphan" ELSE "done"]
      /\ reply' = [c \in Calls |-> IF c \in cut THEN Lost ELSE reply[c]]
  BY DEF Redeploy, tables, work
<1> HIDE DEF cut
<1>2. faults' \in 0..MaxFaults
  BY <1>1, Counted DEF OneInv, CallsTyped
<1>3. pc' \in [Calls -> Calling]
  BY <1>1 DEF OneInv, CallsTyped, Calling
<1>4. CallsTyped'
  BY <1>1, <1>2, <1>3 DEF OneInv, CallsTyped
<1>5. \A c \in Calls : Decided(c)' => reply'[c] = reply[c] /\ Decided(c)
  BY <1>1 DEF Decided
<1>6. RowsSound' /\ Faithful'
  BY <1>1, <1>5 DEF OneInv, RowsSound, Faithful, Stored, RowOf, toResponse
<1> QED
  BY <1>4, <1>6 DEF OneInv

LEMMA NextKeeps ==
  ASSUME OneInv, [Next]_vars
  PROVE  OneInv'
<1>1. ASSUME NEW c \in Calls, Run(c) PROVE OneInv'
  BY <1>1, FindExistingKeeps, LoadRuleSetKeeps, LoadFeatureKeeps, DecideKeeps, InsertKeeps,
     FindWinnerKeeps DEF Run
<1>2. ASSUME NEW a \in Accounts, Project(a) PROVE OneInv'
  <2>1. UNCHANGED <<rows, pc, dto, version, now, features, verdict, reply, answered, clock, faults>>
    BY <1>2 DEF Project, work, env
  <2> QED
    BY <2>1, Rested DEF OneInv, CallsTyped
<1>3. CASE Tick
  <2>1. UNCHANGED <<rows, pc, dto, version, now, features, verdict, reply, answered, faults>>
        /\ clock' = clock + 1
    BY <1>3 DEF Tick, tables, work
  <2> QED
    BY <2>1, Rested DEF OneInv, CallsTyped
<1>4. CASE UNCHANGED vars
  <2>1. UNCHANGED <<rows, pc, dto, version, now, features, verdict, reply, answered, clock, faults>>
    BY <1>4 DEF vars, tables, work, env
  <2> QED
    BY <2>1, Rested DEF OneInv, CallsTyped
<1> QED
  BY <1>1, <1>2, <1>3, <1>4, ReceiveKeeps, StatementFailsKeeps, InsertOrphanKeeps,
     RedeployKeeps DEF Next

LEMMA InitInv ==
  ASSUME Init PROVE OneInv
<1>1. CallsTyped
  <2>1. faults \in 0..MaxFaults /\ clock \in Nat
    <3>1. faults = 0 /\ clock = 0
      BY DEF Init
    <3> QED
      BY <3>1, FaultsAssumption
  <2>2. pc \in [Calls -> Calling]
    BY DEF Init, Calling
  <2>3. dto \in [Calls -> Dtos]
    BY DEF Init
  <2>4. /\ DOMAIN version = Calls /\ DOMAIN now = Calls /\ DOMAIN features = Calls
        /\ DOMAIN verdict = Calls /\ DOMAIN reply = Calls /\ DOMAIN answered = Calls
    BY DEF Init
  <2> QED
    BY <2>1, <2>2, <2>3, <2>4 DEF CallsTyped
<1>2. rows \in Seq({}) /\ DOMAIN rows = {}
  <2>1. rows = << >>
    BY DEF Init
  <2> QED
    BY <2>1
<1>3. RowsSound
  BY <1>2 DEF RowsSound
<1>4. Faithful
  BY DEF Init, Faithful, Decided
<1> QED
  BY <1>1, <1>3, <1>4 DEF OneInv

LEMMA OneHolds == Spec => []OneInv
<1>1. Init => OneInv
  BY InitInv
<1>2. OneInv /\ [Next]_vars => OneInv'
  BY NextKeeps
<1> QED
  BY <1>1, <1>2, PTL DEF Spec

\* evaluate is idempotent by tx_id: of the calls for one transaction, however many
\* there are and however they race, fail or are cut off, all that get a decision get
\* the one that is stored.
THEOREM Idempotent == Spec => []OneDecisionPerTx
<1>1. OneInv => OneDecisionPerTx
  BY DEF OneInv, RowsSound, Faithful, OneDecisionPerTx
<1> QED
  BY <1>1, OneHolds, PTL

-----------------------------------------------------------------------------
\* What a call knows: nothing before it starts to load its features, and what was
\* stored when it came in is still stored.
Unloaded(c) == pc[c] \in {"new", "existing", "ruleSet"} => DOMAIN features[c] = {}
StillThere(c) == \A t \in answered[c] : Stored(t)

\* CountsWhatCameBefore, for one call.
CameBefore(c) ==
  {i \in RowsSince(c, now[c] - rulesOf(c).VELOCITY.window_minutes) : rows[i].tx_id \in answered[c]}
CountedIn(c) ==
  "velocity_count" \in DOMAIN features[c] /\ "VELOCITY" \in DOMAIN rulesOf(c) =>
    features[c].velocity_count >= Cardinality(CameBefore(c))

Counting(c) == Unloaded(c) /\ StillThere(c) /\ CountedIn(c)
CountInv == \A c \in Calls : Counting(c)

\* The table is left alone or gets a row for a tx_id it did not have.
Grows ==
  \/ UNCHANGED rows
  \/ \E row : ~ Stored(row.tx_id) /\ rows' = Append(rows, row)

\* A row that is inserted later does not count as one that came before.
LEMMA CountRests ==
  ASSUME OneInv, Grows, UNCHANGED dto, NEW c \in Calls, Counting(c), Unloaded(c)',
         version'[c] = version[c], now'[c] = now[c], answered'[c] = answered[c],
         features'[c] = features[c]
  PROVE  Counting(c)'
<1>1. CASE UNCHANGED rows
  <2>1. StillThere(c)'
    BY <1>1 DEF Counting, StillThere, Stored
  <2>2. CameBefore(c)' = CameBefore(c) /\ rulesOf(c)' = rulesOf(c)
    BY <1>1 DEF CameBefore, RowsSince, rulesOf
  <2> QED
    BY <2>1, <2>2 DEF Counting, CountedIn
<1>2. ASSUME NEW row, ~ Stored(row.tx_id), rows' = Append(rows, row)
      PROVE  Counting(c)'
  <2>1. /\ DOMAIN rows' = DOMAIN rows \cup {Len(rows) + 1}
        /\ \A i \in DOMAIN rows : rows'[i] = rows[i]
        /\ rows'[Len(rows) + 1] = row
    BY <1>2, Inserted DEF OneInv
  <2>2. StillThere(c)'
    BY <2>1 DEF Counting, StillThere, Stored
  <2>3. row.tx_id \notin answered[c]
    BY <1>2 DEF Counting, StillThere
  <2>4. rulesOf(c)' = rulesOf(c)
    BY DEF rulesOf
  <2>5. CameBefore(c)' = CameBefore(c)
    BY <2>1, <2>3, <2>4 DEF CameBefore, RowsSince
  <2> QED
    BY <2>2, <2>4, <2>5 DEF Counting, CountedIn
<1> QED
  BY <1>1, <1>2 DEF Grows

LEMMA InsertGrows ==
  ASSUME NEW c \in Calls, ~ Conflicts(c), rows' = Append(rows, NewRow(c))
  PROVE  Grows
<1>1. NewRow(c).tx_id = dto[c].tx_id
  BY DEF NewRow
<1> QED
  BY <1>1 DEF Conflicts, Grows

\* Every step but three leaves the features, and what they were loaded for, alone.
LEMMA OtherSteps ==
  ASSUME NEW c \in Calls, OneInv,
         \/ FindExisting(c) \/ Decide(c) \/ Insert(c) \/ FindWinner(c)
         \/ StatementFails(c) \/ InsertOrphan(c)
  PROVE  /\ UNCHANGED <<dto, version, now, features, answered>>
         /\ Grows
         /\ \A d \in Calls \ {c} : pc'[d] = pc[d]
         /\ pc'[c] \in {"new", "existing", "ruleSet"} => pc[c] = "existing"
<1> USE DEF tables, work, env, Goto, Respond, OneInv, CallsTyped
<1>1. CASE FindExisting(c)
  <2>1. UNCHANGED <<rows, dto, version, now, features, answered>>
    BY <1>1 DEF FindExisting
  <2>2. pc[c] = "existing" /\ \E next : pc' = [pc EXCEPT ![c] = next]
    BY <1>1 DEF FindExisting
  <2> QED
    BY <2>1, <2>2 DEF Grows
<1>2. CASE Decide(c)
  BY <1>2 DEF Decide, Grows
<1>3. CASE Insert(c)
  <2>1. UNCHANGED <<dto, version, now, features, answered>>
    BY <1>3 DEF Insert
  <2>2. CASE Conflicts(c)
    BY <1>3, <2>1, <2>2 DEF Insert, AfterConflict, Grows
  <2>3. CASE ~ Conflicts(c)
    <3>1. rows' = Append(rows, NewRow(c)) /\ pc' = [pc EXCEPT ![c] = "done"]
      BY <1>3, <2>3 DEF Insert
    <3> QED
      BY <2>1, <2>3, <3>1, InsertGrows
  <2> QED
    BY <2>2, <2>3
<1>4. CASE FindWinner(c)
  BY <1>4 DEF FindWinner, Grows
<1>5. CASE StatementFails(c)
  <2>1. UNCHANGED <<dto, version, now, features, answered>> /\ pc' = [pc EXCEPT ![c] = "done"]
    BY <1>5 DEF StatementFails
  <2>2. Grows
    BY <1>5, InsertGrows DEF StatementFails, Grows
  <2> QED
    BY <2>1, <2>2
<1>6. CASE InsertOrphan(c)
  <2>1. UNCHANGED <<dto, version, now, features, answered>> /\ pc' = [pc EXCEPT ![c] = "done"]
    BY <1>6 DEF InsertOrphan
  <2>2. Grows
    BY <1>6, InsertGrows DEF InsertOrphan, Grows
  <2> QED
    BY <2>1, <2>2
<1> QED
  BY <1>1, <1>2, <1>3, <1>4, <1>5, <1>6

LEMMA ReceiveCounts ==
  ASSUME OneInv, CountInv, NEW c \in Calls, Receive(c)
  PROVE  CountInv'
<1>1. /\ UNCHANGED <<rows, dto, version, now, features>> /\ pc[c] = "new"
      /\ answered' = [answered EXCEPT ![c] = {rows[i].tx_id : i \in DOMAIN rows}]
      /\ \E next : pc' = [pc EXCEPT ![c] = next]
  BY DEF Receive, Respond, Goto, tables, work
<1>2. \A d \in Calls \ {c} : pc'[d] = pc[d] /\ answered'[d] = answered[d]
  BY <1>1 DEF OneInv, CallsTyped
<1>3. ASSUME NEW d \in Calls \ {c} PROVE Counting(d)'
  <2>1. Counting(d) /\ Unloaded(d)'
    BY <1>1, <1>2 DEF CountInv, Counting, Unloaded
  <2> QED
    BY <1>1, <1>2, <2>1, CountRests DEF Grows
<1>4. DOMAIN features'[c] = {}
  BY <1>1 DEF CountInv, Counting, Unloaded
<1>5. StillThere(c)'
  BY <1>1 DEF StillThere, Stored, OneInv, CallsTyped
<1>6. Counting(c)'
  BY <1>4, <1>5 DEF Counting, Unloaded, CountedIn
<1> QED
  BY <1>3, <1>6 DEF CountInv

LEMMA LoadRuleSetCounts ==
  ASSUME OneInv, CountInv, NEW c \in Calls, LoadRuleSet(c)
  PROVE  CountInv'
<1>1. UNCHANGED <<rows, dto, features, answered>> /\ pc[c] = "ruleSet"
  BY DEF LoadRuleSet, tables, env
<1>2. /\ \E next : pc' = [pc EXCEPT ![c] = next]
      /\ \E v : version' = version \/ version' = [version EXCEPT ![c] = v]
      /\ now' = now \/ now' = [now EXCEPT ![c] = clock]
  BY DEF LoadRuleSet, Respond, Goto
<1>3. \A d \in Calls \ {c} : pc'[d] = pc[d] /\ version'[d] = version[d] /\ now'[d] = now[d]
  BY <1>2 DEF OneInv, CallsTyped
<1>4. ASSUME NEW d \in Calls \ {c} PROVE Counting(d)'
  <2>1. Counting(d) /\ Unloaded(d)'
    BY <1>1, <1>3 DEF CountInv, Counting, Unloaded
  <2> QED
    BY <1>1, <1>3, <2>1, CountRests DEF Grows
<1>5. DOMAIN features'[c] = {}
  BY <1>1 DEF CountInv, Counting, Unloaded
<1>6. StillThere(c)'
  BY <1>1 DEF CountInv, Counting, StillThere, Stored
<1>7. Counting(c)'
  BY <1>5, <1>6 DEF Counting, Unloaded, CountedIn
<1> QED
  BY <1>4, <1>7 DEF CountInv

\* What a query adds to the features.
LEMMA Loaded ==
  ASSUME OneInv, NEW c \in Calls, NEW name \in FeatureNames, LoadFeature(c, name)
  PROVE  /\ UNCHANGED <<rows, pc, dto, version, now, verdict, answered>>
         /\ pc[c] = "features" /\ name \notin DOMAIN features[c]
         /\ \A d \in Calls \ {c} : features'[d] = features[d]
         /\ DOMAIN features'[c] = DOMAIN features[c] \cup {name}
         /\ \A other \in DOMAIN features[c] : features'[c][other] = features[c][other]
         /\ name = "velocity_count" => features'[c][name] = velocity_count(c)
         /\ name = "account_age_hours" => features'[c][name] = account_age_hours(c)
<1> DEFINE value == CASE name = "velocity_count" -> velocity_count(c)
                      [] name = "avg_ticket" -> avg_ticket(c)
                      [] name = "dest_seen_before" -> dest_seen_before(c)
                      [] name = "account_age_hours" -> account_age_hours(c)
<1>1. /\ UNCHANGED <<rows, pc, dto, version, now, verdict, answered>>
      /\ pc[c] = "features" /\ name \notin DOMAIN features[c]
      /\ features' = [features EXCEPT ![c] =
                        [f \in DOMAIN @ \cup {name} |-> IF f = name THEN value ELSE @[f]]]
  BY DEF LoadFeature, tables
<1>2. /\ name = "velocity_count" => value = velocity_count(c)
      /\ name = "account_age_hours" => value = account_age_hours(c)
  OBVIOUS
<1> HIDE DEF value
<1> QED
  BY <1>1, <1>2 DEF OneInv, CallsTyped

LEMMA LoadFeatureCounts ==
  ASSUME OneInv, CountInv, NEW c \in Calls, NEW name \in FeatureNames, LoadFeature(c, name)
  PROVE  CountInv'
<1>1. /\ UNCHANGED <<rows, pc, dto, version, now, answered>> /\ pc[c] = "features"
      /\ name \notin DOMAIN features[c]
      /\ \A d \in Calls \ {c} : features'[d] = features[d]
      /\ DOMAIN features'[c] = DOMAIN features[c] \cup {name}
      /\ \A other \in DOMAIN features[c] : features'[c][other] = features[c][other]
      /\ name = "velocity_count" => features'[c][name] = velocity_count(c)
  BY Loaded
<1>2. ASSUME NEW d \in Calls \ {c} PROVE Counting(d)'
  <2>1. Counting(d) /\ Unloaded(d)'
    BY <1>1 DEF CountInv, Counting, Unloaded
  <2> QED
    BY <1>1, <2>1, CountRests DEF Grows
<1>3. StillThere(c)' /\ Unloaded(c)'
  BY <1>1 DEF CountInv, Counting, StillThere, Stored, Unloaded
<1>4. CountedIn(c)'
  <2>1. CameBefore(c)' = CameBefore(c) /\ rulesOf(c)' = rulesOf(c)
    BY <1>1 DEF CameBefore, RowsSince, rulesOf
  <2>2. CASE name = "velocity_count"
    <3> DEFINE since == RowsSince(c, now[c] - rulesOf(c).VELOCITY.window_minutes)
    <3>1. IsFiniteSet(since) /\ CameBefore(c) \subseteq since
      <4>1. IsFiniteSet(DOMAIN rows)
        <5>1. PICK S : rows \in Seq(S)
          BY DEF OneInv, RowsSound
        <5>2. DOMAIN rows = 1..Len(rows) /\ Len(rows) \in Nat
          BY <5>1
        <5> QED
          BY <5>2, FS_Interval
      <4>2. since \subseteq DOMAIN rows /\ CameBefore(c) \subseteq since
        BY DEF RowsSince, CameBefore
      <4> QED
        BY <4>1, <4>2, FS_Subset
    <3>2. Cardinality(since) \in Nat /\ Cardinality(CameBefore(c)) \in Nat
          /\ Cardinality(CameBefore(c)) <= Cardinality(since)
      BY <3>1, FS_Subset, FS_CardinalityType
    <3>3. "VELOCITY" \in DOMAIN rulesOf(c) => velocity_count(c) = Cardinality(since)
      BY DEF velocity_count
    <3> HIDE DEF since
    <3> QED
      BY <1>1, <2>1, <2>2, <3>2, <3>3 DEF CountedIn
  <2>3. CASE name # "velocity_count"
    BY <1>1, <2>1, <2>3 DEF CountInv, Counting, CountedIn
  <2> QED
    BY <2>2, <2>3
<1>5. Counting(c)'
  BY <1>3, <1>4 DEF Counting
<1> QED
  BY <1>2, <1>5 DEF CountInv

LEMMA CountKeeps ==
  ASSUME OneInv, CountInv, [Next]_vars
  PROVE  CountInv'
<1>1. ASSUME NEW c \in Calls,
             \/ FindExisting(c) \/ Decide(c) \/ Insert(c) \/ FindWinner(c)
             \/ StatementFails(c) \/ InsertOrphan(c)
      PROVE  CountInv'
  <2>1. /\ UNCHANGED <<dto, version, now, features, answered>> /\ Grows
        /\ \A d \in Calls \ {c} : pc'[d] = pc[d]
        /\ pc'[c] \in {"new", "existing", "ruleSet"} => pc[c] = "existing"
    BY <1>1, OtherSteps
  <2>2. \A d \in Calls : Counting(d) /\ Unloaded(d)'
    BY <2>1 DEF CountInv, Counting, Unloaded
  <2> QED
    BY <2>1, <2>2, CountRests DEF CountInv
<1>2. ASSUME UNCHANGED <<rows, dto, version, now, features, answered>>,
             \A c \in Calls : pc'[c] \in {"new", "existing", "ruleSet"} => pc'[c] = pc[c]
      PROVE  CountInv'
  <2>1. \A d \in Calls : Counting(d) /\ Unloaded(d)'
    BY <1>2 DEF CountInv, Counting, Unloaded
  <2> QED
    BY <1>2, <2>1, CountRests DEF CountInv, Grows
<1>3. CASE Redeploy
  <2>1. UNCHANGED <<rows, dto, version, now, features, answered>>
    BY <1>3 DEF Redeploy, tables, work
  <2>2. \A c \in Calls : pc'[c] \in {pc[c], "orphan", "done"}
    BY <1>3 DEF Redeploy
  <2> QED
    BY <1>2, <2>1, <2>2
<1>4. ASSUME NEW a \in Accounts, Project(a) PROVE CountInv'
  BY <1>2, <1>4 DEF Project, work
<1>5. CASE Tick
  BY <1>2, <1>5 DEF Tick, tables, work
<1>6. CASE UNCHANGED vars
  BY <1>2, <1>6 DEF vars, tables, work
<1> QED
  BY <1>1, <1>3, <1>4, <1>5, <1>6, ReceiveCounts, LoadRuleSetCounts, LoadFeatureCounts
     DEF Next, Run

\* A caller that waits for its answers cannot get round the velocity rule: whatever was
\* stored when a call came in, and is within the window, is counted by it, however many
\* calls run beside it.
THEOREM VelocityCounts == Spec => []CountsWhatCameBefore
<1>1. Init => CountInv
  <2> SUFFICES ASSUME Init, NEW c \in Calls PROVE Counting(c)
    BY DEF CountInv
  <2>1. DOMAIN features[c] = {} /\ answered[c] = {}
    <3>1. features = [d \in Calls |-> << >>] /\ answered = [d \in Calls |-> {}]
      BY DEF Init
    <3> QED
      BY <3>1
  <2> QED
    BY <2>1 DEF Counting, Unloaded, StillThere, CountedIn
<1>2. OneInv /\ CountInv /\ [Next]_vars => CountInv'
  BY CountKeeps
<1>3. CountInv => CountsWhatCameBefore
  BY DEF CountInv, Counting, CountedIn, CameBefore, CountsWhatCameBefore
<1> QED
  BY <1>1, <1>2, <1>3, OneHolds, PTL DEF Spec

-----------------------------------------------------------------------------
\* What an account younger than the limit is bound to get.  Its age is the one at the
\* time the call began to load its features, which is no later than the row.
AgeOf(c) == now[c] - Born[dto[c].origin_account]

AgeKnown(c) ==
  "account_age_hours" \in DOMAIN features[c] =>
    features[c].account_age_hours \in {UnknownAge, AgeOf(c)}

Judged(c) ==
  \/ HasReason(verdict[c], "NIGHT_LIMIT")
  \/ "ACCOUNT_NEW" \notin DOMAIN rulesOf(c)
  \/ AgeOf(c) >= rulesOf(c).ACCOUNT_NEW.max_age_hours
  \/ HasReason(verdict[c], "ACCOUNT_NEW")

Weighing(c) ==
  /\ now[c] \in Nat /\ now[c] <= clock
  /\ AgeKnown(c)
  /\ pc[c] \in {"features", "insert", "orphan"} => version[c] \in DOMAIN RuleSets
  /\ pc[c] \in {"insert", "orphan"} => Judged(c)
  /\ pc[c] \in {"new", "existing", "ruleSet"} => DOMAIN features[c] = {}

WeighInv == (\A c \in Calls : Weighing(c)) /\ NewAccountsScore

\* Nothing but the clock and the place of the call changes.
LEMMA WeighRests ==
  ASSUME OneInv, NEW c \in Calls, Weighing(c), UNCHANGED dto, clock' \in Nat, clock <= clock',
         version'[c] = version[c], now'[c] = now[c], features'[c] = features[c],
         verdict'[c] = verdict[c],
         pc'[c] \in {pc[c], "winner", "done"} \/ <<pc[c], pc'[c]>> \in
           {<<"new", "existing">>, <<"existing", "ruleSet">>, <<"insert", "orphan">>}
  PROVE  Weighing(c)'
<1>1. AgeOf(c)' = AgeOf(c) /\ rulesOf(c)' = rulesOf(c)
  BY DEF AgeOf, rulesOf
<1>2. AgeKnown(c)' /\ (Judged(c)' <=> Judged(c))
  BY <1>1 DEF Weighing, AgeKnown, Judged, HasReason
<1>3. now'[c] \in Nat /\ now'[c] <= clock'
  BY DEF Weighing, OneInv, CallsTyped
<1> QED
  BY <1>2, <1>3 DEF Weighing

\* The row of a judged call has its score for a new account.
LEMMA JudgedRow ==
  ASSUME OneInv, WeighInv, NEW c \in Calls, pc[c] \in {"insert", "orphan"}, ~ Conflicts(c),
         rows' = Append(rows, NewRow(c))
  PROVE  NewAccountsScore'
<1> DEFINE row == NewRow(c)
<1>1. /\ row.tx_id = dto[c].tx_id /\ row.origin_account = dto[c].origin_account
      /\ row.reasons = verdict[c].reasons /\ row.rule_version = version[c] /\ row.at = clock
  BY DEF NewRow
<1> HIDE DEF row
<1>2. /\ DOMAIN rows' = DOMAIN rows \cup {Len(rows) + 1}
      /\ \A i \in DOMAIN rows : rows'[i] = rows[i]
      /\ rows'[Len(rows) + 1] = row
  <2>1. ~ Stored(row.tx_id) /\ rows' = Append(rows, row)
    BY <1>1 DEF Conflicts, row
  <2> QED
    BY <2>1, Inserted DEF OneInv
<1> DEFINE Scores(r) == \/ HasReason(r, "NIGHT_LIMIT")
                        \/ "ACCOUNT_NEW" \notin DOMAIN RuleSets[r.rule_version].rules
                        \/ r.at - Born[r.origin_account]
                             >= RuleSets[r.rule_version].rules.ACCOUNT_NEW.max_age_hours
                        \/ HasReason(r, "ACCOUNT_NEW")
<1>3. Scores(row)
  <2>1. Weighing(c) /\ Judged(c) /\ version[c] \in DOMAIN RuleSets
    BY DEF WeighInv, Weighing
  <2>2. Born[dto[c].origin_account] \in Int /\ clock \in Nat
    BY DtosAssumption, BornAssumption DEF OneInv, CallsTyped
  <2>3. CASE /\ "ACCOUNT_NEW" \in DOMAIN rulesOf(c)
             /\ AgeOf(c) >= rulesOf(c).ACCOUNT_NEW.max_age_hours
    <3> DEFINE age == rulesOf(c).ACCOUNT_NEW.max_age_hours
    <3>1. age \in Int
      BY <2>1, <2>3, AgesAssumption DEF rulesOf
    <3>2. clock - Born[dto[c].origin_account] >= age
      BY <2>1, <2>2, <2>3, <3>1 DEF AgeOf, Weighing
    <3> QED
      BY <1>1, <3>2 DEF rulesOf
  <2> QED
    BY <1>1, <2>1, <2>3 DEF Judged, HasReason, rulesOf
<1>4. \A i \in DOMAIN rows : Scores(rows[i])
  BY DEF WeighInv, NewAccountsScore
<1>5. \A i \in DOMAIN rows' : Scores(rows'[i])
  BY <1>2, <1>3, <1>4
<1> QED
  BY <1>5 DEF NewAccountsScore, HasReason

LEMMA WeighLoad ==
  ASSUME OneInv, NEW c \in Calls, Weighing(c), NEW name \in FeatureNames, LoadFeature(c, name)
  PROVE  Weighing(c)'
<1>1. /\ UNCHANGED <<pc, dto, version, now, verdict, clock>> /\ pc[c] = "features"
      /\ name \notin DOMAIN features[c]
      /\ DOMAIN features'[c] = DOMAIN features[c] \cup {name}
      /\ \A other \in DOMAIN features[c] : features'[c][other] = features[c][other]
      /\ name = "account_age_hours" => features'[c][name] = account_age_hours(c)
  BY Loaded DEF LoadFeature, env
<1>2. AgeOf(c)' = AgeOf(c)
  BY <1>1 DEF AgeOf
<1>3. account_age_hours(c) \in {UnknownAge, AgeOf(c)}
  BY DEF account_age_hours, AgeOf
<1>4. AgeKnown(c)'
  BY <1>1, <1>2, <1>3 DEF Weighing, AgeKnown
<1> QED
  BY <1>1, <1>4 DEF Weighing

LEMMA WeighDecide ==
  ASSUME OneInv, NEW c \in Calls, Weighing(c), Decide(c)
  PROVE  Weighing(c)'
<1>1. /\ UNCHANGED <<dto, version, now, features, clock>> /\ pc[c] = "features"
      /\ pc'[c] = "insert" /\ DOMAIN features[c] = FeatureNames
      /\ verdict'[c] = Scored(RuleSets[version[c]], dto[c], features[c])
  BY DEF Decide, tables, env, Goto, OneInv, CallsTyped
<1>2. AgeOf(c)' = AgeOf(c) /\ rulesOf(c)' = rulesOf(c)
  BY <1>1 DEF AgeOf, rulesOf
<1>3. features[c].account_age_hours \in {UnknownAge, AgeOf(c)}
  BY <1>1 DEF Weighing, AgeKnown, FeatureNames
<1>4. ASSUME "ACCOUNT_NEW" \in DOMAIN rulesOf(c),
             ~ AgeOf(c) >= rulesOf(c).ACCOUNT_NEW.max_age_hours
      PROVE  HasReason(verdict'[c], "ACCOUNT_NEW")
  <2> DEFINE hit == Hit("ACCOUNT_NEW", 0, rulesOf(c).ACCOUNT_NEW.points)
  <2>1. AgeOf(c) \in Int /\ rulesOf(c).ACCOUNT_NEW.max_age_hours \in Int
    <3>1. Born[dto[c].origin_account] \in Int /\ now[c] \in Nat
      BY DtosAssumption, BornAssumption DEF OneInv, CallsTyped, Weighing
    <3>2. version[c] \in DOMAIN RuleSets
      BY <1>1 DEF Weighing
    <3> QED
      BY <1>4, <3>1, <3>2, AgesAssumption DEF AgeOf, rulesOf
  <2>2. accountNew(rulesOf(c), features[c]) = hit
    BY <1>3, <1>4, <2>1 DEF accountNew
  <2>3. hit # NoHit /\ hit.rule = "ACCOUNT_NEW"
    BY DEF Hit, NoHit
  <2>4. hit \in Scored(RuleSets[version[c]], dto[c], features[c]).reasons
    BY <2>2, <2>3 DEF Scored, Verdict, rulesOf
  <2> QED
    BY <1>1, <2>3, <2>4 DEF HasReason
<1>5. Judged(c)'
  BY <1>2, <1>4 DEF Judged, HasReason
<1>6. AgeKnown(c)'
  BY <1>1, <1>2 DEF Weighing, AgeKnown
<1> QED
  BY <1>1, <1>5, <1>6 DEF Weighing

LEMMA WeighRuleSet ==
  ASSUME OneInv, NEW c \in Calls, Weighing(c), LoadRuleSet(c)
  PROVE  Weighing(c)'
<1>1. UNCHANGED <<dto, features, clock>> /\ pc[c] = "ruleSet" /\ DOMAIN features[c] = {}
  BY DEF LoadRuleSet, tables, env, Weighing
<1>2. AgeKnown(c)'
  BY <1>1 DEF AgeKnown
<1>3. now'[c] \in Nat /\ now'[c] <= clock'
  BY <1>1 DEF LoadRuleSet, OneInv, CallsTyped, Weighing
<1>4. CASE active \notin DOMAIN RuleSets
  <2>1. pc'[c] = "done"
    BY <1>4 DEF LoadRuleSet, Respond, Goto, OneInv, CallsTyped
  <2> QED
    BY <1>2, <1>3, <2>1 DEF Weighing
<1>5. CASE active \in DOMAIN RuleSets
  <2>1. version'[c] = active
    BY <1>5 DEF LoadRuleSet, OneInv, CallsTyped
  <2>2. \/ pc'[c] = "features"
        \/ pc'[c] = "insert" /\ verdict'[c] = Blocked
    BY <1>5 DEF LoadRuleSet, Goto, OneInv, CallsTyped
  <2>3. verdict'[c] = Blocked => Judged(c)'
    <3> DEFINE hit == Hit("NIGHT_LIMIT", 0, MAX_SCORE)
    <3>1. hit \in Blocked.reasons /\ hit.rule = "NIGHT_LIMIT"
      BY DEF Blocked, Verdict, Hit
    <3> QED
      BY <3>1 DEF Judged, HasReason
  <2> QED
    BY <1>1, <1>2, <1>3, <1>5, <2>1, <2>2, <2>3 DEF Weighing
<1> QED
  BY <1>4, <1>5

\* What the steps of a call that neither select a rule set, load nor decide do to it.
LEMMA PlainSteps ==
  ASSUME NEW c \in Calls, OneInv,
         \/ Receive(c) \/ FindExisting(c) \/ Insert(c) \/ FindWinner(c)
         \/ StatementFails(c) \/ InsertOrphan(c)
  PROVE  /\ UNCHANGED <<dto, version, now, features, verdict, clock>>
         /\ \A d \in Calls \ {c} : pc'[d] = pc[d]
         /\ pc'[c] \in {"winner", "done"} \/ <<pc[c], pc'[c]>> \in
              {<<"new", "existing">>, <<"existing", "ruleSet">>}
         /\ \/ UNCHANGED rows
            \/ /\ pc[c] \in {"insert", "orphan"} /\ ~ Conflicts(c)
               /\ rows' = Append(rows, NewRow(c))
<1> USE DEF tables, work, env, Goto, Respond, OneInv, CallsTyped
<1>1. CASE Receive(c)
  BY <1>1 DEF Receive
<1>2. CASE FindExisting(c)
  <2>1. UNCHANGED <<rows, dto, version, now, features, verdict, clock>> /\ pc[c] = "existing"
    BY <1>2 DEF FindExisting
  <2>2. \/ pc' = [pc EXCEPT ![c] = "done"]
        \/ pc' = [pc EXCEPT ![c] = "ruleSet"]
    BY <1>2 DEF FindExisting
  <2> QED
    BY <2>1, <2>2
<1>3. CASE Insert(c)
  <2>1. UNCHANGED <<dto, version, now, features, verdict, clock>> /\ pc[c] = "insert"
    BY <1>3 DEF Insert
  <2>2. CASE Conflicts(c)
    BY <1>3, <2>1, <2>2 DEF Insert, AfterConflict
  <2>3. CASE ~ Conflicts(c)
    <3>1. rows' = Append(rows, NewRow(c)) /\ pc' = [pc EXCEPT ![c] = "done"]
      BY <1>3, <2>3 DEF Insert
    <3> QED
      BY <2>1, <2>3, <3>1
  <2> QED
    BY <2>2, <2>3
<1>4. CASE FindWinner(c)
  BY <1>4 DEF FindWinner
<1>5. CASE StatementFails(c)
  <2>1. /\ UNCHANGED <<dto, version, now, features, verdict, clock>>
        /\ pc' = [pc EXCEPT ![c] = "done"]
    BY <1>5 DEF StatementFails
  <2> QED
    BY <1>5, <2>1 DEF StatementFails
<1>6. CASE InsertOrphan(c)
  <2>1. /\ UNCHANGED <<dto, version, now, features, verdict, clock>>
        /\ pc' = [pc EXCEPT ![c] = "done"]
    BY <1>6 DEF InsertOrphan
  <2> QED
    BY <1>6, <2>1 DEF InsertOrphan
<1> QED
  BY <1>1, <1>2, <1>3, <1>4, <1>5, <1>6

\* One call steps, and is weighed; the others and the table rest.
LEMMA WeighOne ==
  ASSUME OneInv, WeighInv, NEW c \in Calls, Weighing(c)', UNCHANGED <<rows, dto, clock>>,
         \A d \in Calls \ {c} :
           /\ pc'[d] = pc[d] /\ version'[d] = version[d] /\ now'[d] = now[d]
           /\ features'[d] = features[d] /\ verdict'[d] = verdict[d]
  PROVE  WeighInv'
<1>1. clock' \in Nat /\ clock <= clock'
  BY DEF OneInv, CallsTyped
<1>2. ASSUME NEW d \in Calls \ {c} PROVE Weighing(d)'
  <2>1. Weighing(d)
    BY DEF WeighInv
  <2> QED
    BY <1>1, <2>1, WeighRests
<1>3. NewAccountsScore'
  BY DEF WeighInv, NewAccountsScore, HasReason
<1> QED
  BY <1>2, <1>3 DEF WeighInv

LEMMA WeighKeeps ==
  ASSUME OneInv, WeighInv, [Next]_vars
  PROVE  WeighInv'
<1>1. \A c \in Calls : Weighing(c)
  BY DEF WeighInv
<1>2. ASSUME NEW c \in Calls,
             \/ Receive(c) \/ FindExisting(c) \/ Insert(c) \/ FindWinner(c)
             \/ StatementFails(c) \/ InsertOrphan(c)
      PROVE  WeighInv'
  <2>1. /\ UNCHANGED <<dto, version, now, features, verdict, clock>>
        /\ \A d \in Calls \ {c} : pc'[d] = pc[d]
        /\ pc'[c] \in {"winner", "done"} \/ <<pc[c], pc'[c]>> \in
             {<<"new", "existing">>, <<"existing", "ruleSet">>}
        /\ \/ UNCHANGED rows
           \/ /\ pc[c] \in {"insert", "orphan"} /\ ~ Conflicts(c)
              /\ rows' = Append(rows, NewRow(c))
    BY <1>2, PlainSteps
  <2>2. clock' \in Nat /\ clock <= clock'
    BY <2>1 DEF OneInv, CallsTyped
  <2>3. \A d \in Calls : Weighing(d)'
    BY <1>1, <2>1, <2>2, WeighRests
  <2>4. NewAccountsScore'
    <3>1. CASE UNCHANGED rows
      BY <3>1 DEF WeighInv, NewAccountsScore, HasReason
    <3>2. CASE ~ UNCHANGED rows
      BY <2>1, <3>2, JudgedRow
    <3> QED
      BY <3>1, <3>2
  <2> QED
    BY <2>3, <2>4 DEF WeighInv
<1>3. ASSUME NEW c \in Calls, LoadRuleSet(c) PROVE WeighInv'
  <2>1. UNCHANGED <<rows, dto, features, clock>>
    BY <1>3 DEF LoadRuleSet, tables, env
  <2>2. /\ \E next : pc' = [pc EXCEPT ![c] = next]
        /\ \E v : version' = version \/ version' = [version EXCEPT ![c] = v]
        /\ \E v : verdict' = verdict \/ verdict' = [verdict EXCEPT ![c] = v]
        /\ now' = now \/ now' = [now EXCEPT ![c] = clock]
    BY <1>3 DEF LoadRuleSet, Respond, Goto
  <2>3. \A d \in Calls \ {c} :
          pc'[d] = pc[d] /\ version'[d] = version[d] /\ now'[d] = now[d] /\ verdict'[d] = verdict[d]
    BY <2>2 DEF OneInv, CallsTyped
  <2> QED
    BY <1>1, <1>3, <2>1, <2>3, WeighRuleSet, WeighOne
<1>4. ASSUME NEW c \in Calls, NEW name \in FeatureNames, LoadFeature(c, name) PROVE WeighInv'
  <2>1. /\ UNCHANGED <<rows, pc, dto, version, now, verdict, clock>>
        /\ \A d \in Calls \ {c} : features'[d] = features[d]
    BY <1>4, Loaded DEF LoadFeature, env
  <2> QED
    BY <1>1, <1>4, <2>1, WeighLoad, WeighOne
<1>5. ASSUME NEW c \in Calls, Decide(c) PROVE WeighInv'
  <2>1. /\ UNCHANGED <<rows, dto, version, now, features, clock>>
        /\ \A d \in Calls \ {c} : pc'[d] = pc[d] /\ verdict'[d] = verdict[d]
    BY <1>5 DEF Decide, tables, env, Goto, OneInv, CallsTyped
  <2> QED
    BY <1>1, <1>5, <2>1, WeighDecide, WeighOne
<1>6. ASSUME UNCHANGED <<rows, dto, version, now, features, verdict>>,
             clock' \in Nat, clock <= clock',
             \A c \in Calls : pc'[c] \in {pc[c], "done"} \/ <<pc[c], pc'[c]>> = <<"insert", "orphan">>
      PROVE  WeighInv'
  <2>1. \A c \in Calls : Weighing(c)'
    BY <1>1, <1>6, WeighRests
  <2>2. NewAccountsScore'
    BY <1>6 DEF WeighInv, NewAccountsScore, HasReason
  <2> QED
    BY <2>1, <2>2 DEF WeighInv
<1>7. CASE Redeploy
  <2>1. UNCHANGED <<rows, dto, version, now, features, verdict, clock>>
    BY <1>7 DEF Redeploy, tables, work
  <2>2. \A c \in Calls : pc'[c] \in {pc[c], "done"} \/ <<pc[c], pc'[c]>> = <<"insert", "orphan">>
    BY <1>7 DEF Redeploy
  <2>3. clock' \in Nat /\ clock <= clock'
    BY <2>1 DEF OneInv, CallsTyped
  <2> QED
    BY <1>6, <2>1, <2>2, <2>3
<1>8. ASSUME NEW a \in Accounts, Project(a) PROVE WeighInv'
  <2>1. UNCHANGED <<rows, pc, dto, version, now, features, verdict, clock>>
    BY <1>8 DEF Project, work, env
  <2>2. clock' \in Nat /\ clock <= clock'
    BY <2>1 DEF OneInv, CallsTyped
  <2> QED
    BY <1>6, <2>1, <2>2
<1>9. CASE Tick
  <2>1. UNCHANGED <<rows, pc, dto, version, now, features, verdict>>
    BY <1>9 DEF Tick, tables, work
  <2>2. clock' \in Nat /\ clock <= clock'
    BY <1>9 DEF Tick, OneInv, CallsTyped
  <2> QED
    BY <1>6, <2>1, <2>2
<1>10. CASE UNCHANGED vars
  <2>1. UNCHANGED <<rows, pc, dto, version, now, features, verdict, clock>>
    BY <1>10 DEF vars, tables, work, env
  <2>2. clock' \in Nat /\ clock <= clock'
    BY <2>1 DEF OneInv, CallsTyped
  <2> QED
    BY <1>6, <2>1, <2>2
<1> QED
  BY <1>2, <1>3, <1>4, <1>5, <1>7, <1>8, <1>9, <1>10 DEF Next, Run

LEMMA InitWeighs ==
  ASSUME Init PROVE WeighInv
<1>1. /\ now = [c \in Calls |-> 0] /\ features = [c \in Calls |-> << >>] /\ clock = 0
      /\ pc = [c \in Calls |-> "new"] /\ rows = << >>
  BY DEF Init
<1>2. \A c \in Calls : DOMAIN features[c] = {} /\ now[c] = 0 /\ pc[c] = "new"
  BY <1>1
<1>3. DOMAIN rows = {}
  BY <1>1
<1> QED
  BY <1>1, <1>2, <1>3 DEF WeighInv, Weighing, AgeKnown, NewAccountsScore

\* An account that is too young when its transaction is stored has been scored for it,
\* however late it was announced and however long the evaluation took.
THEOREM YoungAreScored == Spec => []NewAccountsScore
<1>1. Init => WeighInv
  BY InitWeighs
<1>2. OneInv /\ WeighInv /\ [Next]_vars => WeighInv'
  BY WeighKeeps
<1>3. WeighInv => NewAccountsScore
  BY DEF WeighInv
<1> QED
  BY <1>1, <1>2, <1>3, OneHolds, PTL DEF Spec

-----------------------------------------------------------------------------
Decisions == {"APPROVE", "REVIEW", "DENY"}

LEMMA TierPoints ==
  ASSUME NEW tiers, \A i \in DOMAIN tiers : tiers[i].points \in Nat,
         NEW matches \in SUBSET DOMAIN tiers, firstTier(tiers, matches) # {}
  PROVE  tiers[CHOOSE i \in firstTier(tiers, matches) : TRUE].points \in Nat
<1>1. firstTier(tiers, matches) \subseteq DOMAIN tiers
  BY DEF firstTier
<1>2. (CHOOSE i \in firstTier(tiers, matches) : TRUE) \in firstTier(tiers, matches)
  OBVIOUS
<1> QED
  BY <1>1, <1>2

LEMMA HitPoints ==
  /\ NoHit.points = 0
  /\ \A rule, tier, points : Hit(rule, tier, points).points = points
BY DEF NoHit, Hit

LEMMA FlatPoints ==
  ASSUME NEW v \in DOMAIN RuleSets, NEW data, NEW known
  PROVE  /\ destNew(RuleSets[v].rules, data, known).points \in Nat
         /\ accountNew(RuleSets[v].rules, known).points \in Nat
<1> DEFINE rules == RuleSets[v].rules
<1>1. /\ "DEST_NEW" \in DOMAIN rules => rules.DEST_NEW.points \in Nat
      /\ "ACCOUNT_NEW" \in DOMAIN rules => rules.ACCOUNT_NEW.points \in Nat
  BY PointsAssumption
<1> HIDE DEF rules
<1>2. \/ destNew(rules, data, known) = NoHit
      \/ /\ "DEST_NEW" \in DOMAIN rules
         /\ destNew(rules, data, known) = Hit("DEST_NEW", 0, rules.DEST_NEW.points)
  BY DEF destNew
<1>3. \/ accountNew(rules, known) = NoHit
      \/ /\ "ACCOUNT_NEW" \in DOMAIN rules
         /\ accountNew(rules, known) = Hit("ACCOUNT_NEW", 0, rules.ACCOUNT_NEW.points)
  BY DEF accountNew
<1>4. destNew(rules, data, known).points \in Nat
  BY <1>1, <1>2, HitPoints
<1>5. accountNew(rules, known).points \in Nat
  BY <1>1, <1>3, HitPoints
<1> QED
  BY <1>4, <1>5 DEF rules

LEMMA VelocityPoints ==
  ASSUME NEW v \in DOMAIN RuleSets, NEW known
  PROVE  velocity(RuleSets[v].rules, known).points \in Nat
<1> DEFINE rules == RuleSets[v].rules
           tiers == rules.VELOCITY.tiers
           first == firstTier(tiers, velocityMatches(tiers, known))
           best == tiers[CHOOSE i \in first : TRUE]
<1>1. "VELOCITY" \in DOMAIN rules => \A i \in DOMAIN tiers : tiers[i].points \in Nat
  BY PointsAssumption
<1> HIDE DEF rules
<1>2. \/ velocity(rules, known) = NoHit
      \/ /\ "VELOCITY" \in DOMAIN rules /\ first # {}
         /\ velocity(rules, known) = Hit("VELOCITY", best.min_tx, best.points)
  BY DEF velocity
<1>3. velocityMatches(tiers, known) \subseteq DOMAIN tiers
  BY DEF velocityMatches
<1> HIDE DEF tiers
<1>4. "VELOCITY" \in DOMAIN rules /\ first # {} => best.points \in Nat
  BY <1>1, <1>3, TierPoints
<1> HIDE DEF first, best
<1>5. velocity(rules, known).points \in Nat
  BY <1>2, <1>4, HitPoints
<1> QED
  BY <1>5 DEF rules

LEMMA AmountPoints ==
  ASSUME NEW v \in DOMAIN RuleSets, NEW data, NEW known
  PROVE  amountAtypical(RuleSets[v].rules, data, known).points \in Nat
<1> DEFINE rules == RuleSets[v].rules
           tiers == rules.AMOUNT_ATYPICAL.tiers
           first == firstTier(tiers, amountMatches(tiers, data, known.avg_ticket))
           best == tiers[CHOOSE i \in first : TRUE]
<1>1. "AMOUNT_ATYPICAL" \in DOMAIN rules => \A i \in DOMAIN tiers : tiers[i].points \in Nat
  BY PointsAssumption
<1> HIDE DEF rules
<1>2. \/ amountAtypical(rules, data, known) = NoHit
      \/ /\ "AMOUNT_ATYPICAL" \in DOMAIN rules /\ first # {}
         /\ amountAtypical(rules, data, known) = Hit("AMOUNT_ATYPICAL", best.multiplier, best.points)
  BY DEF amountAtypical
<1>3. amountMatches(tiers, data, known.avg_ticket) \subseteq DOMAIN tiers
  BY DEF amountMatches
<1> HIDE DEF tiers
<1>4. "AMOUNT_ATYPICAL" \in DOMAIN rules /\ first # {} => best.points \in Nat
  BY <1>1, <1>3, TierPoints
<1> HIDE DEF first, best
<1>5. amountAtypical(rules, data, known).points \in Nat
  BY <1>2, <1>4, HitPoints
<1> QED
  BY <1>5 DEF rules

\* The score of a rule set stays between 0 and 100.
LEMMA ScoreBounded ==
  ASSUME NEW v \in DOMAIN RuleSets, NEW data, NEW known
  PROVE  /\ Scored(RuleSets[v], data, known).score \in 0..MAX_SCORE
         /\ Scored(RuleSets[v], data, known).decision \in Decisions
<1> DEFINE rules == RuleSets[v].rules
           d == destNew(rules, data, known).points
           a == accountNew(rules, known).points
           w == velocity(rules, known).points
           t == amountAtypical(rules, data, known).points
           sum == d + a + w + t
           score == IF sum < MAX_SCORE THEN sum ELSE MAX_SCORE
<1>1. /\ Scored(RuleSets[v], data, known).score = score
      /\ Scored(RuleSets[v], data, known).decision = Decision(RuleSets[v].thresholds, score)
  BY DEF Scored, Verdict
<1>2. d \in Nat /\ a \in Nat /\ w \in Nat /\ t \in Nat
  BY FlatPoints, VelocityPoints, AmountPoints
<1> HIDE DEF d, a, w, t
<1>3. sum \in Nat
  BY <1>2
<1> HIDE DEF sum
<1>4. score \in 0..MAX_SCORE
  BY <1>3 DEF MAX_SCORE
<1> HIDE DEF score
<1>5. Decision(RuleSets[v].thresholds, score) \in Decisions
  BY DEF Decision, Decisions
<1> QED
  BY <1>1, <1>4, <1>5

Judgement(v) == v.decision \in Decisions /\ v.score \in 0..MAX_SCORE

TypedRow(row, time) ==
  Judgement(row) /\ row.rule_version \in DOMAIN RuleSets /\ row.at \in 0..time

TypedCall(c) ==
  /\ DOMAIN features[c] \subseteq FeatureNames
  /\ pc[c] \in {"insert", "winner", "orphan"} => Judgement(verdict[c])
  /\ pc[c] \in {"insert", "winner"} /\ verdict[c] # Blocked => DOMAIN features[c] = FeatureNames

TypedInv ==
  /\ \A i \in DOMAIN rows : TypedRow(rows[i], clock)
  /\ \A c \in Calls : TypedCall(c)
  /\ projected \subseteq Accounts
  /\ clock \in 0..MaxClock

LEMMA BlockedJudges == Judgement(Blocked)
BY DEF Judgement, Decisions, Blocked, Verdict, MAX_SCORE

\* The rows stay typed when the clock goes on, and so does a row that is inserted.
LEMMA RowsTyped ==
  ASSUME OneInv, WeighInv, TypedInv, clock' \in Nat, clock <= clock',
         \/ UNCHANGED rows
         \/ \E c \in Calls : /\ pc[c] \in {"insert", "orphan"} /\ ~ Conflicts(c)
                             /\ rows' = Append(rows, NewRow(c))
  PROVE  \A i \in DOMAIN rows' : TypedRow(rows'[i], clock')
<1>1. ASSUME NEW r, TypedRow(r, clock) PROVE TypedRow(r, clock')
  BY <1>1 DEF TypedRow, Judgement, OneInv, CallsTyped
<1>2. CASE UNCHANGED rows
  BY <1>1, <1>2 DEF TypedInv
<1>3. ASSUME NEW c \in Calls, pc[c] \in {"insert", "orphan"}, ~ Conflicts(c),
             rows' = Append(rows, NewRow(c))
      PROVE  \A i \in DOMAIN rows' : TypedRow(rows'[i], clock')
  <2> DEFINE row == NewRow(c)
  <2>1. /\ row.tx_id = dto[c].tx_id /\ row.decision = verdict[c].decision
        /\ row.score = verdict[c].score /\ row.rule_version = version[c] /\ row.at = clock
    BY DEF NewRow
  <2> HIDE DEF row
  <2>2. ~ Stored(row.tx_id) /\ rows' = Append(rows, row)
    BY <1>3, <2>1 DEF Conflicts, row
  <2>3. /\ DOMAIN rows' = DOMAIN rows \cup {Len(rows) + 1}
        /\ \A i \in DOMAIN rows : rows'[i] = rows[i]
        /\ rows'[Len(rows) + 1] = row
    BY <2>2, Inserted DEF OneInv
  <2>4. TypedRow(row, clock)
    BY <1>3, <2>1 DEF TypedRow, TypedInv, TypedCall, Judgement, WeighInv, Weighing, OneInv,
                      CallsTyped
  <2>5. \A i \in DOMAIN rows' : TypedRow(rows'[i], clock)
    BY <2>3, <2>4 DEF TypedInv
  <2> QED
    BY <1>1, <2>5
<1> QED
  BY <1>2, <1>3

LEMMA CallRests ==
  ASSUME NEW c \in Calls, TypedCall(c), features'[c] = features[c], verdict'[c] = verdict[c],
         pc'[c] \in {"insert", "winner", "orphan"} =>
           pc[c] = pc'[c] \/ pc[c] = "insert"
  PROVE  TypedCall(c)'
BY DEF TypedCall, Judgement

LEMMA TypedOne ==
  ASSUME OneInv, WeighInv, TypedInv, NEW c \in Calls, TypedCall(c)', UNCHANGED <<rows, projected, clock>>,
         \A d \in Calls \ {c} :
           pc'[d] = pc[d] /\ features'[d] = features[d] /\ verdict'[d] = verdict[d]
  PROVE  TypedInv'
<1>1. \A d \in Calls : TypedCall(d)'
  BY CallRests DEF TypedInv
<1>2. clock' \in Nat /\ clock <= clock'
  BY DEF OneInv, CallsTyped
<1>3. \A i \in DOMAIN rows' : TypedRow(rows'[i], clock')
  BY <1>2, RowsTyped
<1> QED
  BY <1>1, <1>3 DEF TypedInv

LEMMA TypedKeeps ==
  ASSUME OneInv, WeighInv, TypedInv, [Next]_vars
  PROVE  TypedInv'
<1>1. \A c \in Calls : TypedCall(c)
  BY DEF TypedInv
<1>2. ASSUME NEW c \in Calls,
             \/ Receive(c) \/ FindExisting(c) \/ Insert(c) \/ FindWinner(c)
             \/ StatementFails(c) \/ InsertOrphan(c)
      PROVE  TypedInv'
  <2>1. /\ UNCHANGED <<features, verdict, clock>>
        /\ \A d \in Calls \ {c} : pc'[d] = pc[d]
        /\ \/ UNCHANGED rows
           \/ /\ pc[c] \in {"insert", "orphan"} /\ ~ Conflicts(c)
              /\ rows' = Append(rows, NewRow(c))
    BY <1>2, PlainSteps
  <2>2. pc'[c] = "winner" => pc[c] = "insert"
    BY <1>2 DEF Receive, FindExisting, Insert, FindWinner, StatementFails, InsertOrphan,
                Respond, Goto, OneInv, CallsTyped
  <2>3. pc'[c] \notin {"insert", "orphan"}
    BY <1>2, PlainSteps
  <2>4. \A d \in Calls : TypedCall(d)'
    BY <1>1, <2>1, <2>2, <2>3, CallRests
  <2>5. UNCHANGED projected
    BY <1>2 DEF Receive, FindExisting, Insert, FindWinner, StatementFails, InsertOrphan, tables
  <2>6. clock' \in Nat /\ clock <= clock'
    BY <2>1 DEF OneInv, CallsTyped
  <2>7. \A i \in DOMAIN rows' : TypedRow(rows'[i], clock')
    BY <2>1, <2>6, RowsTyped
  <2> QED
    BY <2>1, <2>4, <2>5, <2>7 DEF TypedInv
<1>3. ASSUME NEW c \in Calls, LoadRuleSet(c) PROVE TypedInv'
  <2>1. UNCHANGED <<rows, projected, features, clock>> /\ pc[c] = "ruleSet"
    BY <1>3 DEF LoadRuleSet, tables, env
  <2>2. /\ \E next : pc' = [pc EXCEPT ![c] = next]
        /\ \E v : verdict' = verdict \/ verdict' = [verdict EXCEPT ![c] = v]
    BY <1>3 DEF LoadRuleSet, Respond, Goto
  <2>3. \/ pc'[c] \in {"done", "features"}
        \/ pc'[c] = "insert" /\ verdict'[c] = Blocked
    BY <1>3 DEF LoadRuleSet, Respond, Goto, OneInv, CallsTyped
  <2>4. TypedCall(c)'
    BY <1>1, <2>1, <2>3, BlockedJudges DEF TypedCall, Judgement
  <2>5. \A d \in Calls \ {c} : pc'[d] = pc[d] /\ verdict'[d] = verdict[d]
    BY <2>2 DEF OneInv, CallsTyped
  <2> QED
    BY <2>1, <2>4, <2>5, TypedOne
<1>4. ASSUME NEW c \in Calls, NEW name \in FeatureNames, LoadFeature(c, name) PROVE TypedInv'
  <2>1. /\ UNCHANGED <<rows, projected, pc, verdict, clock>> /\ pc[c] = "features"
        /\ \A d \in Calls \ {c} : features'[d] = features[d]
        /\ DOMAIN features'[c] = DOMAIN features[c] \cup {name}
    BY <1>4, Loaded DEF LoadFeature, tables, env
  <2>2. TypedCall(c)'
    BY <1>1, <2>1 DEF TypedCall
  <2> QED
    BY <2>1, <2>2, TypedOne
<1>5. ASSUME NEW c \in Calls, Decide(c) PROVE TypedInv'
  <2>1. /\ UNCHANGED <<rows, projected, version, features, clock>> /\ pc[c] = "features"
        /\ pc'[c] = "insert" /\ DOMAIN features[c] = FeatureNames
        /\ verdict'[c] = Scored(RuleSets[version[c]], dto[c], features[c])
        /\ \A d \in Calls \ {c} : pc'[d] = pc[d] /\ verdict'[d] = verdict[d]
    BY <1>5 DEF Decide, tables, env, Goto, OneInv, CallsTyped
  <2>2. version[c] \in DOMAIN RuleSets
    BY <2>1 DEF WeighInv, Weighing
  <2>3. Judgement(verdict'[c])
    BY <2>1, <2>2, ScoreBounded DEF Judgement
  <2>4. TypedCall(c)'
    BY <2>1, <2>3 DEF TypedCall, Judgement
  <2> QED
    BY <2>1, <2>4, TypedOne
<1>6. ASSUME UNCHANGED <<rows, features, verdict>>, projected' \subseteq Accounts,
             clock' \in 0..MaxClock, clock <= clock',
             \A c \in Calls : pc'[c] \in {"insert", "winner", "orphan"} =>
               pc[c] = pc'[c] \/ pc[c] = "insert"
      PROVE  TypedInv'
  <2>1. \A c \in Calls : TypedCall(c)'
    BY <1>1, <1>6, CallRests
  <2>2. clock' \in Nat
    BY <1>6, ClockAssumption
  <2>3. \A i \in DOMAIN rows' : TypedRow(rows'[i], clock')
    BY <1>6, <2>2, RowsTyped
  <2> QED
    BY <1>6, <2>1, <2>3 DEF TypedInv
<1>7. projected \subseteq Accounts /\ clock \in 0..MaxClock /\ clock \in Nat
  BY DEF TypedInv, OneInv, CallsTyped
<1>8. CASE Redeploy
  <2>1. UNCHANGED <<rows, projected, features, verdict, clock>>
    BY <1>8 DEF Redeploy, tables, work
  <2>2. \A c \in Calls : pc'[c] \in {"insert", "winner", "orphan"} =>
          pc[c] = pc'[c] \/ pc[c] = "insert"
    BY <1>8 DEF Redeploy
  <2> QED
    BY <1>6, <1>7, <2>1, <2>2
<1>9. ASSUME NEW a \in Accounts, Project(a) PROVE TypedInv'
  BY <1>6, <1>7, <1>9 DEF Project, work, env
<1>10. CASE Tick
  <2>1. clock' \in 0..MaxClock /\ clock <= clock'
    BY <1>7, <1>10, ClockAssumption DEF Tick
  <2> QED
    BY <1>6, <1>7, <1>10, <2>1 DEF Tick, tables, work
<1>11. CASE UNCHANGED vars
  BY <1>6, <1>7, <1>11 DEF vars, tables, work, env
<1> QED
  BY <1>2, <1>3, <1>4, <1>5, <1>8, <1>9, <1>10, <1>11 DEF Next, Run

LEMMA InitTyped ==
  ASSUME Init PROVE TypedInv
<1>1. /\ features = [c \in Calls |-> << >>] /\ clock = 0 /\ rows = << >>
      /\ pc = [c \in Calls |-> "new"] /\ projected \subseteq Accounts
  BY DEF Init
<1>2. DOMAIN rows = {} /\ \A c \in Calls : DOMAIN features[c] = {} /\ pc[c] = "new"
  BY <1>1
<1> QED
  BY <1>1, <1>2, ClockAssumption DEF TypedInv, TypedCall

\* The variables have their types: a decision always rests on the features its rules
\* ask for, and what is stored has a score from 0 to 100 by a rule set there is.
THEOREM EvaluateTypeCorrect == Spec => []EvaluateTypeOK
<1>1. Init => WeighInv /\ TypedInv
  BY InitWeighs, InitTyped
<1>2. OneInv /\ WeighInv /\ TypedInv /\ [Next]_vars => (WeighInv /\ TypedInv)'
  BY WeighKeeps, TypedKeeps
<1>3. OneInv /\ TypedInv => EvaluateTypeOK
  BY DEF OneInv, CallsTyped, Calling, TypedInv, TypedRow, TypedCall, Judgement, Decisions, EvaluateTypeOK
<1> QED
  BY <1>1, <1>2, <1>3, OneHolds, PTL DEF Spec

-----------------------------------------------------------------------------
\* What a call is told comes last: until it is done, it has not been told a decision.
ToldLast == \A c \in Calls : Decided(c) => pc[c] = "done"

LEMMA ToldLastKeeps ==
  ASSUME OneInv, ToldLast, [Next]_vars
  PROVE  ToldLast'
<1>1. ASSUME NEW c \in Calls,
             \/ Receive(c) \/ Run(c) \/ StatementFails(c) \/ InsertOrphan(c)
      PROVE  ToldLast'
  <2>1. /\ \A d \in Calls \ {c} : pc'[d] = pc[d] /\ reply'[d] = reply[d]
        /\ pc'[c] = "done" \/ (reply'[c] = reply[c] /\ pc[c] # "done")
    BY <1>1 DEF Receive, Run, StatementFails, InsertOrphan, FindExisting, LoadRuleSet, LoadFeature,
                Decide, Insert, FindWinner, AfterConflict, Respond, Goto, OneInv, CallsTyped
  <2>2. ASSUME NEW d \in Calls, Decided(d)' PROVE pc'[d] = "done"
    BY <2>1, <2>2 DEF ToldLast, Decided
  <2> QED
    BY <2>2 DEF ToldLast
<1>2. CASE Redeploy
  <2>1. ASSUME NEW d \in Calls, Decided(d)' PROVE pc'[d] = "done"
    BY <1>2, <2>1 DEF Redeploy, ToldLast, Decided
  <2> QED
    BY <2>1 DEF ToldLast
<1>3. ASSUME UNCHANGED <<pc, reply>> PROVE ToldLast'
  BY <1>3 DEF ToldLast, Decided
<1> QED
  BY <1>1, <1>2, <1>3 DEF Next, Project, Tick, vars

\* What is stored for a tx_id after a step is a decision.
LEMMA StoredDecides ==
  ASSUME TypedInv', NEW t, Stored(t)'
  PROVE  toResponse(RowOf(t)') \notin {NoReply, Error, Invalid, Lost}
<1> DEFINE row == RowOf(t)'
<1>1. PICK k \in DOMAIN rows' : rows'[k].tx_id = t
  BY DEF Stored
<1>2. (CHOOSE i \in DOMAIN rows' : rows'[i].tx_id = t) \in DOMAIN rows'
  BY <1>1
<1>3. \A i \in DOMAIN rows' : rows'[i].decision \in Decisions
  BY DEF TypedInv, TypedRow, Judgement
<1>4. row.decision \in Decisions
  BY <1>2, <1>3 DEF RowOf
<1> HIDE DEF row
<1>5. toResponse(row).decision = row.decision
  BY DEF toResponse
<1>6. /\ NoReply.decision = "none" /\ Error.decision = "error"
      /\ Invalid.decision = "invalid" /\ Lost.decision = "lost"
  BY DEF NoReply, Error, Invalid, Lost, Without
<1>7. toResponse(row) \notin {NoReply, Error, Invalid, Lost}
  BY <1>4, <1>5, <1>6 DEF Decisions
<1> QED
  BY <1>7 DEF row

\* The decisions, before a step and after it, are those of the rows.
LEMMA DecisionsAre ==
  ASSUME NEW t
  PROVE  /\ t \in DOMAIN decisions <=> Stored(t)
         /\ t \in DOMAIN decisions' <=> Stored(t)'
         /\ Stored(t) => decisions[t] = toResponse(RowOf(t))
         /\ Stored(t)' => decisions'[t] = toResponse(RowOf(t)')
<1>1. t \in DOMAIN decisions <=> Stored(t)
  BY DEF decisions, Stored
<1>2. t \in DOMAIN decisions' <=> Stored(t)'
  BY DEF decisions, Stored
<1>3. Stored(t) => decisions[t] = toResponse(RowOf(t))
  BY DEF decisions, Stored
<1>4. Stored(t)' => decisions'[t] = toResponse(RowOf(t)')
  BY DEF decisions, Stored, toResponse
<1> QED
  BY <1>1, <1>2, <1>3, <1>4

LEMMA DecisionsRest ==
  ASSUME UNCHANGED rows PROVE UNCHANGED decisions
BY DEF decisions, RowOf, toResponse

\* An INSERT decides its tx_id, and nothing else.
LEMMA InsertDecides ==
  ASSUME OneInv, TypedInv', NEW row, ~ Stored(row.tx_id), rows' = Append(rows, row)
  PROVE  Once!Decide(row.tx_id)
<1>1. PICK tx : tx = row.tx_id
  OBVIOUS
<1>2. ASSUME NEW t
      PROVE  /\ Stored(t)' <=> Stored(t) \/ t = tx
             /\ Stored(t) => RowOf(t)' = RowOf(t)
  BY <1>1, StoredStays DEF OneInv
<1>3. DOMAIN decisions' = DOMAIN decisions \cup {tx} /\ tx \notin DOMAIN decisions
  <2>1. \A t : t \in DOMAIN decisions' <=> t \in DOMAIN decisions \/ t = tx
    BY <1>2, DecisionsAre
  <2> QED
    BY <1>1, <2>1, DecisionsAre
<1>4. \A t \in DOMAIN decisions : decisions'[t] = decisions[t]
  BY <1>2, DecisionsAre
<1>5. decisions'[tx] # NoReply
  BY <1>2, DecisionsAre, StoredDecides
<1> QED
  BY <1>1, <1>3, <1>4, <1>5 DEF Once!Decide

\* A call that gets what is stored by now is told it.
LEMMA StoredTells ==
  ASSUME OneInv, TypedInv', ToldLast, UNCHANGED dto, NEW c \in Calls, pc[c] # "done",
         NEW tx, tx = dto[c].tx_id, Stored(tx)',
         reply' = [reply EXCEPT ![c] = toResponse(RowOf(tx)')]
  PROVE  Once!Tell(c)
<1>1. tx \in DOMAIN decisions' /\ decisions'[tx] = toResponse(RowOf(tx)')
  BY DecisionsAre
<1>2. /\ reply'[c] = decisions'[tx]
      /\ \A d \in Calls \ {c} : reply'[d] = reply[d]
  BY <1>1 DEF OneInv, CallsTyped
<1>3. decisions'[tx] \notin {NoReply, Error, Invalid, Lost}
  BY <1>1, StoredDecides
<1>4. Decided(c)' /\ ~ Decided(c)
  BY <1>2, <1>3 DEF Decided, ToldLast
<1>5. tellings[c] = NoReply /\ askedFor[c] = tx
  BY <1>4 DEF tellings, askedFor
<1>6. tellings' = [tellings EXCEPT ![c] = decisions'[tx]]
  BY <1>2, <1>4 DEF tellings, Decided
<1> QED
  BY <1>1, <1>5, <1>6 DEF Once!Tell

\* A call that gets no decision is told nothing.
LEMMA NothingTold ==
  ASSUME OneInv, ToldLast,
         \A d \in Calls : \/ reply'[d] = reply[d]
                          \/ pc[d] # "done" /\ reply'[d] \in {NoReply, Error, Invalid, Lost}
  PROVE  UNCHANGED tellings
<1>1. ASSUME NEW d \in Calls
      PROVE  (IF Decided(d) THEN reply[d] ELSE NoReply)' = IF Decided(d) THEN reply[d] ELSE NoReply
  BY DEF Decided, ToldLast
<1> QED
  BY <1>1 DEF tellings

LEMMA AsksRest ==
  ASSUME UNCHANGED dto PROVE UNCHANGED askedFor
BY DEF askedFor

\* Neither a row nor an answer: DecidedOnce does not move.
LEMMA Stutters ==
  ASSUME OneInv, ToldLast, UNCHANGED <<rows, dto>>,
         \A d \in Calls : \/ reply'[d] = reply[d]
                          \/ pc[d] # "done" /\ reply'[d] \in {NoReply, Error, Invalid, Lost}
  PROVE  UNCHANGED Once!vars
BY NothingTold, DecisionsRest, AsksRest DEF Once!vars

\* An answer without a decision.
LEMMA Refused ==
  ASSUME OneInv, ToldLast, UNCHANGED <<rows, dto>>, NEW c \in Calls, pc[c] # "done",
         NEW b \in {Error, Invalid}, reply' = [reply EXCEPT ![c] = b]
  PROVE  UNCHANGED Once!vars
<1>1. \A d \in Calls : reply'[d] = reply[d] \/ (pc[d] # "done" /\ reply'[d] \in {Error, Invalid})
  BY DEF OneInv, CallsTyped
<1> QED
  BY <1>1, Stutters

\* An answer by the row that is there.
LEMMA AnswersStored ==
  ASSUME OneInv, TypedInv', ToldLast, UNCHANGED <<rows, dto>>, NEW c \in Calls, pc[c] # "done",
         Stored(dto[c].tx_id), reply' = [reply EXCEPT ![c] = toResponse(RowOf(dto[c].tx_id))]
  PROVE  Once!Next
<1>1. PICK tx : tx = dto[c].tx_id
  OBVIOUS
<1>2. Stored(tx)' /\ RowOf(tx)' = RowOf(tx)
  BY <1>1 DEF Stored, RowOf
<1>3. Once!Tell(c)
  BY <1>1, <1>2, StoredTells
<1> QED
  BY <1>3, DecisionsRest, AsksRest DEF Once!Next

\* An INSERT, with the answer it brings, with an error, or without an answer.
LEMMA Decides ==
  ASSUME OneInv, TypedInv', ToldLast, NEW c \in Calls, ~ Conflicts(c), UNCHANGED dto,
         rows' = Append(rows, NewRow(c)),
         \/ reply' = reply
         \/ pc[c] # "done" /\ reply' = [reply EXCEPT ![c] = Error]
         \/ pc[c] # "done" /\ reply' = [reply EXCEPT ![c] = toResponse(NewRow(c))]
  PROVE  Once!Next
<1>1. PICK row : row = NewRow(c)
  OBVIOUS
<1>2. PICK tx : tx = dto[c].tx_id
  OBVIOUS
<1>3. row.tx_id = tx /\ ~ Stored(row.tx_id) /\ rows' = Append(rows, row)
  BY <1>1, <1>2 DEF NewRow, Conflicts
<1>4. Once!Decide(tx)
  BY <1>3, InsertDecides
<1>5. askedFor[c] = tx /\ UNCHANGED askedFor
  BY <1>2, AsksRest DEF askedFor
<1>6. CASE pc[c] # "done" /\ reply' = [reply EXCEPT ![c] = toResponse(NewRow(c))]
  <2>1. Stored(tx)' /\ RowOf(tx)' = row
    BY <1>3, StoredStays DEF OneInv
  <2>2. Once!Tell(c)
    BY <1>1, <1>2, <1>6, <2>1, StoredTells
  <2> QED
    BY <1>4, <1>5, <2>2 DEF Once!Next
<1>7. CASE reply' = reply \/ (pc[c] # "done" /\ reply' = [reply EXCEPT ![c] = Error])
  <2>1. \A d \in Calls : reply'[d] = reply[d] \/ (pc[d] # "done" /\ reply'[d] = Error)
    BY <1>7 DEF OneInv, CallsTyped
  <2>2. UNCHANGED tellings
    BY <2>1, NothingTold
  <2> QED
    BY <1>4, <1>5, <2>2 DEF Once!Next
<1> QED
  BY <1>6, <1>7

LEMMA NextDecidesOnce ==
  ASSUME OneInv, TypedInv', ToldLast, [Next]_vars
  PROVE  [Once!Next]_(Once!vars)
<1>1. ASSUME UNCHANGED <<rows, dto, reply>> PROVE UNCHANGED Once!vars
  BY <1>1, Stutters
<1>2. ASSUME NEW c \in Calls, Receive(c) PROVE UNCHANGED Once!vars
  BY <1>1, <1>2, Refused DEF Receive, Respond, tables, work
<1>3. ASSUME NEW c \in Calls, FindExisting(c) PROVE [Once!Next]_(Once!vars)
  BY <1>1, <1>3, AnswersStored DEF FindExisting, Respond, tables, work
<1>4. ASSUME NEW c \in Calls, LoadRuleSet(c) PROVE UNCHANGED Once!vars
  BY <1>1, <1>4, Refused DEF LoadRuleSet, Respond, tables
<1>5. ASSUME NEW c \in Calls,
             Decide(c) \/ \E name \in FeatureNames : LoadFeature(c, name)
      PROVE  UNCHANGED Once!vars
  BY <1>1, <1>5 DEF Decide, LoadFeature, tables
<1>6. ASSUME NEW c \in Calls, Insert(c) PROVE [Once!Next]_(Once!vars)
  <2>1. CASE Conflicts(c)
    BY <1>1, <1>6, <2>1 DEF Insert, work
  <2>2. CASE ~ Conflicts(c)
    BY <1>6, <2>2, Decides DEF Insert, Respond, work
  <2> QED
    BY <2>1, <2>2
<1>7. ASSUME NEW c \in Calls, FindWinner(c) PROVE [Once!Next]_(Once!vars)
  <2>1. UNCHANGED <<rows, dto>> /\ pc[c] # "done"
    BY <1>7 DEF FindWinner, tables, work
  <2>2. CASE Stored(dto[c].tx_id)
    BY <1>7, <2>1, <2>2, AnswersStored DEF FindWinner, Respond, WinnerResponse
  <2>3. CASE ~ Stored(dto[c].tx_id)
    BY <1>7, <2>1, <2>3, Refused DEF FindWinner, Respond
  <2> QED
    BY <2>2, <2>3
<1>8. ASSUME NEW c \in Calls, StatementFails(c) PROVE [Once!Next]_(Once!vars)
  <2>1. dto' = dto /\ pc[c] # "done" /\ reply' = [reply EXCEPT ![c] = Error]
    BY <1>8 DEF StatementFails, Respond, work
  <2>2. CASE UNCHANGED rows
    BY <2>1, <2>2, Refused
  <2>3. CASE ~ Conflicts(c) /\ rows' = Append(rows, NewRow(c))
    BY <2>1, <2>3, Decides
  <2> QED
    BY <1>8, <2>2, <2>3 DEF StatementFails
<1>9. ASSUME NEW c \in Calls, InsertOrphan(c) PROVE [Once!Next]_(Once!vars)
  <2>1. UNCHANGED <<dto, reply>>
    BY <1>9 DEF InsertOrphan, work
  <2> QED
    BY <1>1, <1>9, <2>1, Decides DEF InsertOrphan
<1>10. CASE Redeploy
  <2>1. UNCHANGED <<rows, dto>>
    BY <1>10 DEF Redeploy, tables, work
  <2>2. \A d \in Calls : reply'[d] = reply[d] \/ (pc[d] # "done" /\ reply'[d] = Lost)
    BY <1>10 DEF Redeploy
  <2> QED
    BY <2>1, <2>2, Stutters
<1>11. CASE Tick \/ (\E a \in Accounts : Project(a)) \/ UNCHANGED vars
  BY <1>1, <1>11 DEF Tick, Project, vars, tables, work
<1> QED
  BY <1>2, <1>3, <1>4, <1>5, <1>6, <1>7, <1>8, <1>9, <1>10, <1>11 DEF Next, Run

LEMMA InitDecidesOnce ==
  ASSUME Init PROVE Once!Init /\ ToldLast
<1>1. rows = << >> /\ \A c \in Calls : reply[c] = NoReply
  BY DEF Init
<1>2. DOMAIN decisions = {}
  BY <1>1 DEF decisions
<1>3. \A c \in Calls : ~ Decided(c)
  BY <1>1 DEF Decided
<1>4. tellings = [c \in Calls |-> NoReply] /\ DOMAIN askedFor = Calls
  BY <1>3 DEF tellings, askedFor
<1> QED
  BY <1>2, <1>3, <1>4 DEF Once!Init, ToldLast

\* evaluate, query by query, with failures, redeployments and late INSERTs, implements
\* DecidedOnce: a transaction is decided once, for good, and that is what callers are told.
THEOREM ImplementsDecidedOnce == Spec => DecidesOnce
<1>1. Init => Once!Init /\ ToldLast
  BY InitDecidesOnce
<1>2. Init => WeighInv /\ TypedInv
  BY InitWeighs, InitTyped
<1>3. OneInv /\ WeighInv /\ TypedInv /\ [Next]_vars => (WeighInv /\ TypedInv)'
  BY WeighKeeps, TypedKeeps
<1>4. OneInv /\ ToldLast /\ [Next]_vars => ToldLast'
  BY ToldLastKeeps
<1>5. OneInv /\ TypedInv' /\ ToldLast /\ [Next]_vars => [Once!Next]_(Once!vars)
  BY NextDecidesOnce
<1> QED
  BY <1>1, <1>2, <1>3, <1>4, <1>5, OneHolds, PTL DEF Spec, DecidesOnce, Once!Spec
===============================================================================
