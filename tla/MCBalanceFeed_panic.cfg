SPECIFICATION FeedSpec
CONSTANTS
  a = a
  b = b
  c = c
  Requests <- Numbers
  Keys <- Numbers
  Accounts <- InLedger
  OpeningBalance <- Opening
  MaxBalance = 3
  Movements <- ToOneself
  Projected <- InService
  InitiallyBound = TRUE
  Faults = {"statement"}
  MaxFaults = 1
INVARIANT
  RelayNeverPanics
