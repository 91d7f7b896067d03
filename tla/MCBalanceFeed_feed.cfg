SPECIFICATION FairFeed
CONSTANTS
  a = a
  b = b
  c = c
  Requests <- Numbers
  Keys <- Numbers
  Accounts <- InLedger
  OpeningBalance <- Opening
  MaxBalance = 3
  Movements <- AnyTransfers
  Projected <- InService
  InitiallyBound = FALSE
  Faults = {"statement", "publish", "connection_drop", "ledger_crash", "consumer_crash", "broker_restart"}
  MaxFaults = 1
INVARIANTS
  FeedTypeOK
  AckedMeansShown
  
PROPERTIES
  Projects
  Converges
