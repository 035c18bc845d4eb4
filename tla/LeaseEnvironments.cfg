SPECIFICATION FairSpec
CONSTANTS
  Proc = {p1, p2}
  Environments <- AllEnvironments
  MaxCrashes = 1
  MaxMigrations = 1
INVARIANTS
  
  EndedIsTerminal
PROPERTIES
  LostIsRecovered
CHECK_DEADLOCK FALSE
