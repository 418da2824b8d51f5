\* One crash between the task and the write of ACTIONABLE: a second attempt.
SPECIFICATION Spec
CONSTANTS
  r1 = r1
  r2 = r2
  s1 = s1
  s2 = s2
  Null = Null
  Request = {r1, r2}
  MessageId <- OneMessage
  Address = {addr}
  Company = {acme}
  UniqueIndexes = TRUE
  HasSecondary = FALSE
  MaxFaults = 0
  Slot = {s1}
  JobAttempts = 3
  MaxStalledCount = 1
  MaxLockLosses = 0
  MaxMoves = 0
  MaxCrashes = 1
SYMMETRY Symmetry
INVARIANTS
  EmailOfTaskIsActionable
