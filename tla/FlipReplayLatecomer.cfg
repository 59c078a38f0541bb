SPECIFICATION ReplaySpec
CONSTANTS
  a = a
  b = b
  None = None
  Players = {a, b}
  Initiator = a
  Faulty = {}
  FaultyBound = 0
  Lossy = {}
  Secrets = {a, b}
INVARIANTS
  ReplaySurvives
CHECK_DEADLOCK FALSE
