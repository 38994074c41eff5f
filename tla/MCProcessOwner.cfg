SPECIFICATION MCSpec
CONSTANTS
  Ops = {o1, o2}
  Fresh = o1
  MaxTurns = 2
  Faulty = {o1}
  Forking = {o1}
  Escaping = {o1}
INVARIANTS
  OwnerKeepsPromises
PROPERTIES
  FinishedCancelLeavesNothing
  StopConverges
CHECK_DEADLOCK FALSE
