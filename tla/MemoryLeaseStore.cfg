SPECIFICATION Spec
CONSTANTS
  Executions = {e1, e2}
  LeaseDuration = 2
  MaxToken = 2
  MaxRevision = 2
  MaxTime = 3
  NoLease = NoLease
  NoRecord = NoRecord
  NoExecution = NoExecution
PROPERTIES
  TokensFresh
  StaleTokenPowerless
  ImplementsFencedLease
