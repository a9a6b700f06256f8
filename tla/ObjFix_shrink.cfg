SPECIFICATION Spec
CONSTANTS
  WORD = 8
  Lengths = {0, 3, 5}
  MaxSegments = 1
  Threads = {0}
  FrameMethods = {1}
  TargetMethods = {0}
  Shapes <- MCSmall
INVARIANTS
  SegdefsNeverShrink
CHECK_DEADLOCK FALSE
