SPECIFICATION Spec
CONSTANTS
  Amounts <- MCAmounts
  Times = {0, 359, 360, 720, 1319, 1320, 1439}
  Counts = {0, 1, 2, 4, 5, 6}
  Averages <- MCAverages
  Ages <- MCAges
INVARIANTS
  DecidesAsDocumented
  WindowIsArc
  MostSevereTier
PROPERTY NeverMilder
