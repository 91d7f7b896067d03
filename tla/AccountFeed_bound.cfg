SPECIFICATION FairSpec
CONSTANTS
  Creates = {c1, c2}
  Deactivates = {d1, d2}
  Unknown = unknown
  Never = never
  InitiallyBound = TRUE
  Faults = {"statement", "publish", "accounts_crash", "consumer_crash", "broker_restart"}
  MaxFaults = 1
INVARIANTS
  AccountTypeOK
  AnnouncedIsKept
  CreatedIsAnnounced
  DeactivatedOnce
PROPERTIES
  EveryoneIsProjected
  Lives
