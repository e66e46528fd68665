SPECIFICATION FairSpec
CONSTANTS
  Workers = {w1, w2}
  Nobody = Nobody
  Settings <- MCSettings
  Latency = 1
INVARIANTS
  OwnedWhileLive
  HealthyNeverLost
  GoroutineGone
PROPERTIES
  StopReturns
  LossNoticed
