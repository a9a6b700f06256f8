SPECIFICATION Spec
CONSTANTS
  Commands <- MCPlan
  Outputs <- MCOutputs
  ToolStatuses = {3}
  MaxInterrupts = 0
PROPERTY FailedPublishPreserves
CHECK_DEADLOCK FALSE
