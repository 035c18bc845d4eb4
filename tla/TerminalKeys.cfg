SPECIFICATION FairUiSpec
CONSTANTS
  Source = {1}
  Uses <- AllUses
INVARIANTS
  OpsAreFresh
PROPERTIES
  FocusIsShown
CHECK_DEADLOCK FALSE
