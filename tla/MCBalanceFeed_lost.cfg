SPECIFICATION FeedSpec
CONSTANTS
  a = a
  b = b
  c = c
  Requests <- Numbers
  Keys <- Numbers
  Accounts <- InLedger
  OpeningBalance <- Opening
  MaxBalance = 3
  Movements <- ToOneself
  Projected <- InService
  InitiallyBound = TRUE
  Faults = {"broker_restart"}
  MaxFaults = 1
INVARIANT
  SentIsKept
