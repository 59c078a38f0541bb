SPECIFICATION Spec
CONSTANTS
  a = a
  b = b
  c = c
  None = None
  Players = {a, b, c}
  Initiator = a
  Faulty = {c}
  FaultyBound = 3
  Lossy = {a}
  Secrets = {a, b, c}
INVARIANTS
  TypeOK
  Agreement
  OutcomeIsCommitted
  CommitBeforeReveal
  RevealAccounting
  RevealersHaveCommitted
CHECK_DEADLOCK FALSE
