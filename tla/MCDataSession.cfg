SPECIFICATION FairSpec
CONSTANTS
  Executions = {e1, e2}
  BufferLimit = 2
  MaxSequence = 3
  MaxRevision = 2
  MaxCrashes = 1
INVARIANTS
  SessionInvariant
  SettledIsSavedAndReleased
PROPERTIES
  DecisionIsFinal
  ImplementsHistory
  RestartSettles
  ProjectionAdvancesWithTurn
