\* Two message ids that differ only in ":" and "_".
SPECIFICATION Spec
CONSTANTS
  r1 = r1
  r2 = r2
  s1 = s1
  s2 = s2
  Null = Null
  Request = {r1, r2}
  MessageId <- CollidingMessages
  Address = {addr}
  Company = {acme}
  UniqueIndexes = TRUE
  HasSecondary = FALSE
  MaxFaults = 0
  Slot = {s1}
  JobAttempts = 3
  MaxStalledCount = 1
  MaxLockLosses = 0
  MaxMoves = 0
  MaxCrashes = 0
SYMMETRY Symmetry
INVARIANTS
  QueuedAnswerHasJob
