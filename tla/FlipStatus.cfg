SPECIFICATION Spec
CONSTANTS
  Players = {a, b}
  MaxLoads = 1
  MaxRefusals = 1
  UpdateCap = 2
  ForceCap = 1
  LoadCap = 1
  a = a
  b = b
  None = None
  Missed = Missed
INVARIANTS
  UIIsCurrent
  ParticipantsOnce
  CompleteShowsAll
CHECK_DEADLOCK FALSE
