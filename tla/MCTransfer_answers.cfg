SPECIFICATION FairSpec
CONSTANTS
  a = a
  b = b
  c = c
  ghost = ghost
  k1 = k1
  k2 = k2
  r1 = r1
  r2 = r2
  r3 = r3
  None = None
  Requests = {r1, r2, r3}
  Keys <- MCKeys
  Ids <- MCIds
  Accounts <- MCAccounts
  Dtos <- AnswerDtos
  OpeningBalance <- Opening
  MaxBalance = 2
  MaxConns = 2
PROPERTIES
  OnlySendersPay
  EveryCallAnswered
