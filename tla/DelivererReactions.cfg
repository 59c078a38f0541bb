SPECIFICATION Spec
CONSTANTS
  NumMsgs = 3
  Convs = {"c"}
  Bodies = {"+1"}
  Scenarios <- Reactions
  MaxAttempts = 1
  MaxUpsets = 0
INVARIANT
  DroppedCancelOut
CHECK_DEADLOCK FALSE
