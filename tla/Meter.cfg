SPECIFICATION Spec
CONSTANTS
  Decay = 3
  MaxChecks = 2
  MaxReads = 3
  MaxStops = 1
  MaxOps = 2
INVARIANTS TypeOK MeterNeverStuck OneMonitor OnlyStopsOverrun
PROPERTY PollingEnds
CHECK_DEADLOCK FALSE
