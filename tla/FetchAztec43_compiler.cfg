SPECIFICATION Spec
CONSTANTS
  Legacy = {"old"}
  MaxRuns = 3
INVARIANT CompilerIsPatched
CHECK_DEADLOCK FALSE
