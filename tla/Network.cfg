SPECIFICATION Spec
CONSTANTS
  lan = lan
  wifi = wifi
  Luids <- MCLuids
  Rows = 2
  MaxChanges = 3
CHECK_DEADLOCK FALSE
INVARIANTS TypeOK TableCatchesUp LastWordRight
PROPERTY ReIceTriggered
