SPECIFICATION FairSpec
CONSTANTS
  c1 = c1
  c2 = c2
  c3 = c3
  young = young
  Calls = {c1, c2}
  Dtos <- RetryDtos
  RuleSets <- MCRuleSets
  Versions = {"v1", "v2", "v3"}
  Accounts = {young}
  Born <- MCBorn
  MaxClock = 1
  Faults = {"statement", "redeploy"}
  MaxFaults = 1
CHECK_DEADLOCK FALSE
INVARIANTS
  EvaluateTypeOK
  OneDecisionPerTx
  CountsWhatCameBefore
  NewAccountsScore
PROPERTIES
  EvaluationsEnd
  DecidesOnce
