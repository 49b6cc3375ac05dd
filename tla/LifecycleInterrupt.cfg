SPECIFICATION MCSpec
CONSTANTS
  MaxCalls = 2
  ReuseHandle = FALSE
  NestedJoin = FALSE
  SlowStart = FALSE
  Interrupts = TRUE
  BuiltInMic = TRUE
  MaxCommands = 1
INVARIANTS
  TypeOK
  ManagerSafeUnlessDisturbed
  EndsOnlyWhenAskedUnlessDisturbed
  FreedAfterLastPost
  NoOrphan
  SetupInTurn
PROPERTIES
  DestroyCompletes
  TerminationEnds
CHECK_DEADLOCK FALSE
