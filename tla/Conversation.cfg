SPECIFICATION Spec
CONSTANTS
  Workers = {w1, w2, w3}
  CallIDs = {c1, c2, c3}
  NoID = NoID
  MaxSteps = 5
INVARIANTS
  RequestWellFormed
PROPERTIES
  RequestsExtend
