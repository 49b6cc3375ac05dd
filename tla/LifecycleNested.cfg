SPECIFICATION Spec
CONSTANTS
  MaxCalls = 2
  ReuseHandle = TRUE
  NestedJoin = TRUE
  SlowStart = TRUE
  Interrupts = TRUE
  BuiltInMic = FALSE
  MaxCommands = 0
INVARIANTS
  NoSurplusQuit
CHECK_DEADLOCK FALSE
