CONSTANTS
  Never = Never
  NoId = NoId
  USERS = 2
  ITERATIONS <- MCIterations
  Callers <- MCCallers
  Ids <- MCIds
  MaxClients = 1
  Faults = {"statement", "crash"}
  MaxFaults = 1
SPECIFICATION Spec
INVARIANTS
  SmokeTypeOK
  BeliefsAreTrue
  VerdictIsJust
  ConnectionsAccounted
PROPERTIES
  RunEnds
  Lives
