SPECIFICATION Spec
CONSTANTS
  Names <- MCNames
  Roots <- MCRoots
  Cwds <- MCCwds
  Locations <- MCAllLocations
  Families <- MCFamilies
  Devices <- MCDevices
  Unsafe = {"*", ":"}
  Upper <- MCUpper
  BASE = 2
  EXT = 2
  LIMIT = 9
  ACC_PATH = 12
  Calls = 2
  Texts <- MCTexts
  Drives = {"C", "D"}
  Directories <- MCDirectories
  NotADrive = "X"
  NoDrive = "none"
INVARIANTS
  AcceptedExactly
  DenotesSameFile
  CanonicalIsNormal
CHECK_DEADLOCK FALSE
