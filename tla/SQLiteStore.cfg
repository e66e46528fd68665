SPECIFICATION Spec
SYMMETRY ClientSymmetry
CONSTANTS
  Clients = {c1, c2}
  NoClient = NoClient
  LeaseDuration = 2
  MaxInt = 2
  MaxInstant = 4
  MaxRevision = 3
  MaxTime = 3
PROPERTIES
  TakeoverAfterExpiry
  TokensFresh
  StaleTokenPowerless
  CheckpointAdvances
  SupersededWriterToldFenced
