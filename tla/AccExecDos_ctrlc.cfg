SPECIFICATION Spec
CONSTANTS
  Commands <- MCPlan
  Outputs <- MCOutputs
  ToolStatuses = {3}
  MaxInterrupts = 1
INVARIANT WorkspaceRemovedOnCtrlC
CHECK_DEADLOCK FALSE
