SPECIFICATION Spec
CONSTANTS
  Creates = {c1, c2}
  Deactivates = {}
  Unknown = unknown
  Never = never
  InitiallyBound = FALSE
  Faults = {}
  MaxFaults = 0
INVARIANT AnnouncedIsKept
