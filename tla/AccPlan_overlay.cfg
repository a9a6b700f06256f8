SPECIFICATION Spec
CONSTANTS
  Names <- MCNames
  Requests <- MCRequests
  Readable <- MCReadable
  Directories <- MCDirectories
  HardLinks <- MCHardLinks
  ListContents <- MCListContents
  EnvAreas <- MCEnvAreas
  ListLimit = 8
  TempLimit = 4
INVARIANT BadSuffixIsRefused
CHECK_DEADLOCK FALSE
