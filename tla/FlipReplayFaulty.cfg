SPECIFICATION ReplaySpec
CONSTANTS
  a = a
  b = b
  None = None
  Players = {a, b}
  Initiator = a
  Faulty = {b}
  FaultyBound = 3
  Lossy = {}
  Secrets = {a, b}
INVARIANTS
  ReplayAgrees
CHECK_DEADLOCK FALSE
