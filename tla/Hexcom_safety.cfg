SPECIFICATION Spec
CONSTANTS
  ADDRSP = 8
  TPA = 2
  RECSZ = 4
  ImageSizes = {7, 8}
  MaxLength = 3
  MaxRecords = 3
INVARIANTS
  TypeOK
  FileIsImage
  MalformedLeavesEmpty
CHECK_DEADLOCK FALSE
