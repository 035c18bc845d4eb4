SPECIFICATION Spec
CONSTANTS
  Operator = {o1}
  Asset = {a1}
  Environments <- AllEnvironments
  MaxCalls = 3
  MaxCrashes = 2
  Daemon = d
  None = none
INVARIANTS
  ToolsAreAlone
  LossIsBounded
PROPERTY ResumeRestores
CHECK_DEADLOCK FALSE
