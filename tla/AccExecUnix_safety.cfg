SPECIFICATION HungToolSpec
CONSTANTS
  Commands <- MCLinkPlan
  Outputs <- MCLinkOutputs
  ToolStatuses = {3}
  MaxSignals = 2
INVARIANTS
  TypeOK
  PublishedIsBuilt
  InterruptStopsPublication
  SuccessIsComplete
  FirstFailureReported
  NothingLeftBehind
  ToolNeverOutlivesWorkspace
PROPERTIES
  ImplementsPublication
  Terminates
  ForwardedInterruptEnds
CHECK_DEADLOCK FALSE
