SPECIFICATION Spec
CONSTANTS
  c1 = c1
  c2 = c2
  c3 = c3
  young = young
  Calls = {c1, c2, c3}
  Dtos <- BurstDtos
  RuleSets <- MCRuleSets
  Versions = {"v1"}
  Accounts = {young}
  Born <- MCBorn
  MaxClock = 1
  Faults = {}
  MaxFaults = 0
CHECK_DEADLOCK FALSE
SYMMETRY Symmetry
INVARIANT VelocityScored
