\* Each module is loaded up to three times.
CONSTANTS
  MaxLoads = 3
SPECIFICATION FairSpec
INVARIANTS
  TypeOK
  CodeStays
  ServerReleases
  TakeTurns
PROPERTIES
  ServerUnloads
  ClientUnloads
CHECK_DEADLOCK FALSE
