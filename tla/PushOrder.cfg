SPECIFICATION FairSpec
CONSTANTS
  None = None
  MaxVers = 3
INVARIANTS
  TypeOK
  EntriesAreWaitedFor
  InTurn
  InboxIsComplete
PROPERTIES
  EveryUpdateIsHandled
CHECK_DEADLOCK FALSE
