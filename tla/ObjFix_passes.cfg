SPECIFICATION Spec
CONSTANTS
  WORD = 8
  Lengths = {0, 1, 4}
  MaxSegments = 2
  Threads = {0, 1}
  FrameMethods = {1, 5}
  TargetMethods = {0, 5}
  Shapes <- MCShapes
INVARIANTS
  TypeOK
  ConversionKeepsMeaning
  SegdefsCoverData
  Idempotent
CHECK_DEADLOCK FALSE
