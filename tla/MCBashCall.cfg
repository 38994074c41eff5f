SPECIFICATION FairCall
CONSTANTS
  CallFaults = TRUE
INVARIANTS
  CallInvariant
PROPERTIES
  CallEnds
CHECK_DEADLOCK FALSE
