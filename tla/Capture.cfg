SPECIFICATION Spec
CONSTANTS
  Screens <- MCScreens
  EncWidth = 1280
  MaxChanges = 2
  MaxRefreshes = 1
  MaxCommands = 3
INVARIANTS TypeOK DeliveredInFormat
PROPERTY ShareCatchesUp
CHECK_DEADLOCK FALSE
