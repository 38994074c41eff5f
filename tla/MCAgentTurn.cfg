SPECIFICATION FairSpec
CONSTANTS
  MaxSteps = 4
  MaxCalls = 2
  MaxErrors = 2
  Limits <- MCLimits
  History <- MCHistory
INVARIANTS
  TurnInvariant
  RequestKeepsExchanges
  SteeringIsHeard
PROPERTIES
  ImplementsContract
  CancelEndsTurn
CHECK_DEADLOCK FALSE
