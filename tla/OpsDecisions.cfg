SPECIFICATION FairSpec
CONSTANTS
  Call = {c1, c2}
  Agent = {1, 2}
  Uses <- AllUses
  MaxRuns = 1
  MaxDecisions <- FewWithOthers
INVARIANTS
  ShownIsDone
  DecidedOnce
PROPERTIES
  ConfirmedIsDecided
CHECK_DEADLOCK FALSE
