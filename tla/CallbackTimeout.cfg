SPECIFICATION FairSpec
CONSTANTS
  CallIDs = {c1}
  NoID = NoID
  MaxSteps = 4
  MaxRetries = 2
INVARIANTS
  CommittedInTime
  ContextDecides
  OwnDeadlineDecides
PROPERTIES
  DeadlineEnds
