SPECIFICATION Spec
CONSTANTS
  a = a
  b = b
  c = c
  ghost = ghost
  k1 = k1
  k2 = k2
  r1 = r1
  r2 = r2
  r3 = r3
  None = None
  Requests = {r1, r2, r3}
  Keys <- MCKeys
  Ids <- MCIds
  Accounts <- MCAccounts
  Dtos <- RaceDtos
  OpeningBalance <- Opening
  MaxBalance = 3
  MaxConns = 3
SYMMETRY RequestSymmetry
INVARIANTS
  TypeOK
  HeldUntilCommit
  NoOverdraft
  OneMovementPerKey
  EventsMatchVersions
  AnswerMatchesLedger
  NoLeakedLocks
  DeadlocksOnlyOnRows
  BalanceIsSumOfEntries
  MoneyIsConserved
PROPERTIES
  Posts
