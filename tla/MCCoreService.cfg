SPECIFICATION FairCore
CONSTANTS
  Ids = {c1, c2}
  Signatures <- MCSignatures
  Request <- MCRequest
  Shutdown = "shutdown"
  Sessions = {"A", "B"}
  None = None
  Services = {s1, s2}
  Repeated = {c1}
  Retried = {"submitA"}
  CacheLimit = 1
  MaxCalls = 2
  MaxFaults = 1
INVARIANTS
  CommandInvariant
  ServiceInvariant
PROPERTIES
  CoreConverges
CHECK_DEADLOCK FALSE
