SPECIFICATION Spec
CONSTANTS
  Legacy = {"old"}
  MaxRuns = 3
INVARIANT NextRunRetries
CHECK_DEADLOCK FALSE
