SPECIFICATION Spec
CONSTANTS
  Executions = {e1, e2, e3}
  BufferLimit = 1
  MaxSequence = 1
  MaxRevision = 0
  MaxCrashes = 1
INVARIANTS
  CheckpointCoversHistory
