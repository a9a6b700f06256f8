SPECIFICATION Spec
CONSTANTS
  Names <- MCJoinNames
  Roots <- MCJoinDirs
  Cwds <- MCJoinDirs
  Locations <- MCJoinLocations
  Families <- MCJoinFamilies
  Devices <- MCDevices
  Unsafe = {"*", ":"}
  Upper <- MCUpper
  BASE = 2
  EXT = 2
  LIMIT = 9
  ACC_PATH = 12
  Calls = 2
  Texts <- MCJoinTexts
  Drives = {"C", "D"}
  Directories <- MCDirectories
  NotADrive = "X"
  NoDrive = "none"
INVARIANTS
  AcceptedExactly
CHECK_DEADLOCK FALSE
