SPECIFICATION FairSpec
CONSTANTS
  Runs = {r1}
  Faults = {"open", "config", "filter", "boot", "admit", "settle", "seal", "error", "stop"}
INVARIANTS
  RegistryInvariant
  CleanupHolds
PROPERTIES
  ChildrenConverge
CHECK_DEADLOCK FALSE
