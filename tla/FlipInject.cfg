SPECIFICATION Spec
CONSTANTS
  None = None
  MaxMsg = 5
  Cap = 2
  MaxPart = 2
  Senders = {"me", "other"}
INVARIANTS
  DealtInOrder
  NoGap
CHECK_DEADLOCK FALSE
