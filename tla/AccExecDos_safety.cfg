SPECIFICATION Spec
CONSTANTS
  Commands <- MCPlan
  Outputs <- MCOutputs
  ToolStatuses = {3}
  MaxInterrupts = 2
INVARIANTS
  TypeOK
  DestinationsSafe
  StatusTellsTheTruth
PROPERTY ImplementsPublication
CHECK_DEADLOCK FALSE
