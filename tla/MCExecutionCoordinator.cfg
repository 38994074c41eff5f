SPECIFICATION FairCoordinatorSpec
CONSTANTS
  MaxTurns = 2
INVARIANTS
  CoordinatorInvariant
  NoWaitOnTerminatedWorker
PROPERTIES
  CancelFencesCommit
  RunningTurnKeepsWorker
  CoordinatorConverges
CHECK_DEADLOCK FALSE
