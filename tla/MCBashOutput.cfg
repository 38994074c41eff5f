SPECIFICATION Spec
CONSTANTS
  c1 = c1
  c2 = c2
  Cmds = {c1, c2}
  Streams = {out, err}
  CommandLimit = 3
  RegistryLimit = 4
  StreamLimit = 3
  Segment = 2
  MinWindow = 2
  MaxProduced = 3
  Texts <- TextsSmall
INVARIANTS
  StoredIsReadable
  PagingProgresses
  SpoolInvariant
SYMMETRY Symmetry
CHECK_DEADLOCK FALSE
