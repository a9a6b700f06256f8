SPECIFICATION Spec
CONSTANTS
  Families <- MCFamilies
  ListLimit = 14
  DecimalMax = 32767
  DecimalDigits = 5
  HexDigits = 4
INVARIANTS
  SettingsReachTool
  RawNeverContradicts
CHECK_DEADLOCK FALSE
