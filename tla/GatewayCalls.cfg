CONSTANTS
  Session = {s1}
  Tool = {t1}
  Key = {k1}
  Caller = {c1, c2}
  Operator = {o1}
  RetryClass <- WriteTools
  Decisions <- AnyDecision
  MaxSeq = 2
  MaxCalls = 1
  MaxReopens = 1
  MayCrash = TRUE
  None = None
SPECIFICATION FairSpec
INVARIANT RunsAreAdmitted
PROPERTY OperationsReturn
PROPERTY ImplementsCallOnce
