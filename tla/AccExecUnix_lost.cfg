SPECIFICATION HungToolSpec
CONSTANTS
  Commands <- MCCompilePlan
  Outputs <- MCCompileOutputs
  ToolStatuses = {3}
  MaxSignals = 1
PROPERTY CaughtSignalEndsRun
CHECK_DEADLOCK FALSE
