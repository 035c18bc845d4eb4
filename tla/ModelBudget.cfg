SPECIFICATION FairSpec
CONSTANTS
  Session = {s1}
  Prompt = {p1, p2}
  Locks <- Spares
  Legacies <- ByHand
  Callers <- AllCallers
  Quality = 3
  Grounded <- None
  Surcharge = 0
  Allowed <- Reached
  Cached = {}
  Breaches <- Reactions
  Budget = 2
  MaxAttempts = 2
  Reported <- Reports
  MaxReport = 2
  Outcomes <- AnyOutcome
  SharedIds = FALSE
  MaxRequests = 3
  MaxCrashes = 1
INVARIANTS
  CostIsBounded
  GrantedIsApproved
  AnswerMeetsBar
PROPERTIES
  RequestIsAnswered
CHECK_DEADLOCK FALSE
