SPECIFICATION ReplayFairSpec
CONSTANTS
  a = a
  b = b
  None = None
  Players = {a, b}
  Initiator = a
  Faulty = {}
  FaultyBound = 0
  Lossy = {}
  Secrets = {a, b}
INVARIANTS
  ReplayCompletes
PROPERTIES
  RoundTwoIsFrozen
  GameEnds
CHECK_DEADLOCK FALSE
