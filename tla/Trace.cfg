SPECIFICATION Spec
CONSTANTS
  Executions = {e1, e2}
  Tools = {t1}
  MaxAttempts = 2
  logger = logger
  file_recorder = file_recorder
  Group <- MCGroup
  Recorder = file_recorder
  MaxEvents = 6
SYMMETRY Symmetry
INVARIANTS
  TraceIsHistory
  AcceptedKept
  ReaderAccepts
  DiffIsExact
