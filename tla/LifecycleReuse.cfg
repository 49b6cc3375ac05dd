SPECIFICATION Spec
CONSTANTS
  MaxCalls = 2
  ReuseHandle = TRUE
  NestedJoin = FALSE
  SlowStart = TRUE
  Interrupts = TRUE
  BuiltInMic = TRUE
  MaxCommands = 1
PROPERTIES
  ImplementsSerialCalls
  HangMeansOrphan
CHECK_DEADLOCK FALSE
