SPECIFICATION Spec
CONSTANTS
  CallIDs = {c1, c2}
  BadCall = BadCall
  NoCall = NoCall
  NoRecord = NoRecord
  Workers = {w1, w2}
  NoWorker = NoWorker
  First = w1
  Config <- Recoverable
  StoreKinds = {"lease", "lock", "plain"}
  StoreFaults = {"refused", "unacked"}
  Texts = {"ok", "bad"}
  Seeds <- Legacy
  AttemptBound = 3
  MaxSteps = 3
  MaxRetries = 1
SYMMETRY Symmetry
INVARIANTS
  TypeOK
  AttemptDispatchedOnce
  ExecuteDispatchedOnce
  IntentDurable
  StepsHappened
  OwnerKnowsRecord
  
  LifecycleEventsOnce
  ReturnedOutcomeIsStored
PROPERTIES
  LockedNeverRedispatched
