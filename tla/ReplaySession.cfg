CONSTANTS
  Scripts <- AllScripts
  CallIds = "per_step"
  Sandboxed = TRUE
  MaxCrashes = 2
SPECIFICATION FairSpec
INVARIANT ToolRunsOnce
INVARIANT RepliesAreOwn
INVARIANT FrontierIsReplayed
PROPERTY SessionCompletes
CHECK_DEADLOCK FALSE
