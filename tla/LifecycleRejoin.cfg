SPECIFICATION Spec
CONSTANTS
  MaxCalls = 2
  ReuseHandle = TRUE
  NestedJoin = FALSE
  SlowStart = FALSE
  Interrupts = FALSE
  BuiltInMic = FALSE
  MaxCommands = 0
PROPERTIES
  RunOnFreshService
CHECK_DEADLOCK FALSE
