SPECIFICATION MCSpec
CONSTANTS
  Callers = {w1, w2}
  Attempts = {a1, a2}
  Cancelling = {a1}
  Registrations = {r1, r2}
  Subjects = {u1, u2}
  None = None
  MaxToken = 1
  MaxFaults = 1
INVARIANTS
  CredentialInvariant
PROPERTIES
  RecordsMoveForward
  AuthConverges
CHECK_DEADLOCK FALSE
