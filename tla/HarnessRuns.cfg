SPECIFICATION FairWireSpec
CONSTANTS
  Worlds <- AllWorlds
  Faults <- AllFaults
INVARIANT ReportIsTrue
INVARIANT AnswerIsOwn
PROPERTY RunEnds
CHECK_DEADLOCK FALSE
