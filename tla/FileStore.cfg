SPECIFICATION Spec
SYMMETRY Symmetry
CONSTANTS
  Writers = {w1, w2}
  Nobody = Nobody
  NoFile = NoFile
  MaxRevision = 2
  MaxBoots = 2
INVARIANTS
  AckedSurvives
  CreatedOnce
PROPERTIES
  RevisionAdvances
