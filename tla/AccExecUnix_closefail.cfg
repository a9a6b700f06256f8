SPECIFICATION Spec
CONSTANTS
  Commands <- MCCompilePlan
  Outputs <- MCCompileOutputs
  ToolStatuses = {3}
  MaxSignals = 0
PROPERTY FailedPublishPreserves
CHECK_DEADLOCK FALSE
