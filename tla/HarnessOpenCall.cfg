SPECIFICATION Spec
CONSTANTS
  CallIDs = {c1}
  BadCall = BadCall
  NoCall = NoCall
  NoRecord = NoRecord
  Workers = {w1}
  NoWorker = NoWorker
  First = w1
  Config <- Recoverable
  StoreKinds = {"lock"}
  StoreFaults = {}
  Texts = {"ok"}
  Seeds = {}
  AttemptBound = 2
  MaxSteps = 2
  MaxRetries = 0
INVARIANTS
  OpenCallRecoverable
