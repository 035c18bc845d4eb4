SPECIFICATION Spec
CONSTANTS
  Proc = {p1, p2}
  Child = {c1, c2}
  Request <- Requests
  Cost = {1}
  Budget = 2
  Unlimited = Unlimited
  MaxRestarts = 1
  Environments <- AllEnvironments
  MaxSpawns = 3
  MaxExits = 3
  MaxCrashes = 1
INVARIANTS
  SpendWithinCeiling
  TroubleIsTold
CHECK_DEADLOCK FALSE
SYMMETRY Symmetry
