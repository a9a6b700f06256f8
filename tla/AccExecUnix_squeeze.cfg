SPECIFICATION Spec
CONSTANTS
  Commands <- MCLinkPlan
  Outputs <- MCLinkOutputs
  ToolStatuses = {3}
  MaxSignals = 0
INVARIANT ToolCreatedProduct
CHECK_DEADLOCK FALSE
