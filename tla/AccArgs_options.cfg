SPECIFICATION Spec
CONSTANTS
  Menus <- MCMenus
  Macro <- MCMacro
  Choices <- MCChoices
  HexSizes = {"1,2"}
  Statuses = {0, 3}
  ListLimit = 3
INVARIANTS
  TypeOK
  RequestIsArguments
  AcceptedIsConsistent
CHECK_DEADLOCK FALSE
