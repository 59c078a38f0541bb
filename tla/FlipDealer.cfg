SPECIFICATION FairSpec
CONSTANTS
  g1 = g1
  g2 = g2
  c1 = c1
  c2 = c2
  None = None
  GameIDs = {g1, g2}
  Chans = {c1, c2}
  Cap = 1
  MaxStarts = 2
INVARIANTS
  TypeOK
  NoPanic
  RegisteredAreRead
  CleansItsOwn
PROPERTIES
  StopCompletes
  InjectReturns
CHECK_DEADLOCK FALSE
