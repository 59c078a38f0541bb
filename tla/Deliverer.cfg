SPECIFICATION FairSpec
CONSTANTS
  NumMsgs = 2
  Convs = {"c", "d"}
  Bodies = {"+1"}
  Scenarios <- Pairs
  MaxAttempts = 1
  MaxUpsets = 1
INVARIANTS
  TypeOK
  NothingLost
  InOrder
PROPERTIES
  ImplementsLife
  SendingEnds
CHECK_DEADLOCK FALSE
