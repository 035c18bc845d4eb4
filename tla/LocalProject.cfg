SPECIFICATION ProjectSpec
CONSTANTS
  Id = {"a", "b", "role"}
  Priority <- Ranks
  Text <- Texts
  Blank <- NoText
  Words <- Length
  Templated <- Asking
  Names <- Named
  Inputs <- Mentioned
  Pinned <- Lock
  Provider <- Unavailable
  Targets <- Backends
  Requested <- Routes
  LiveContext <- Extras
  MaxSections = 3
  Fragment <- Paths
  Lines <- Files
  Joined <- First
  Refs <- References
  Malformed = {"torn"}
  Structured <- Demanding
  OwnTiers <- Priced
  Starter <- Starting
  Repaired <- Mended
  Models <- Chosen
  Drafts <- Answers
  Said <- Requests
  Outputs <- Given
  Studied <- Short
  Projects <- Beginnings
  MaxCommands = 2
INVARIANTS
  EveryTextIsRendered
  EvictionIsFair
  GreenRuns
  
PROPERTIES
  CommandsKeepTheirWord
  AdviceSuffices
CHECK_DEADLOCK FALSE
