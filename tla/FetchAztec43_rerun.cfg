SPECIFICATION Spec
CONSTANTS
  Legacy = {"old"}
  MaxRuns = 3
INVARIANTS
  BuildTreeTellsTheTruth
  ProtectedIsComplete
  EditsKept
PROPERTY ActiveOnlyFromBuilt
CHECK_DEADLOCK FALSE
