SPECIFICATION FairSpec
CONSTANTS
  CallIDs = {c1}
  BadCall = BadCall
  NoCall = NoCall
  NoRecord = NoRecord
  Workers = {w1, w2}
  NoWorker = NoWorker
  First = w1
  Config <- Mixed
  StoreKinds = {"lease", "lock"}
  StoreFaults = {"unacked"}
  Texts = {"ok"}
  Seeds <- LegacyCalls
  AttemptBound = 3
  MaxSteps = 3
  MaxRetries = 1
PROPERTIES
  ImplementsPromise
  StoreStaysFenced
  InvocationReturns
  OwnershipFreed
