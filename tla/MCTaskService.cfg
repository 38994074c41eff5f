SPECIFICATION MCSpec
CONSTANTS
  MaxExecutions = 4
  MaxFollowUps = 2
  MaxSteered = 1
  MaxFaults = 1
INVARIANTS
  TaskInvariant
  CancelHolds
PROPERTIES
  BusyEnds
CHECK_DEADLOCK FALSE
