\* Two deliveries, of one message or of two, one slot, the code's three attempts,
\* failing calls and crashes: the second crash makes a job stall too often.
SPECIFICATION Spec
CONSTANTS
  r1 = r1
  r2 = r2
  s1 = s1
  s2 = s2
  Null = Null
  Request = {r1, r2}
  MessageId <- TwoMessages
  Address = {addr}
  Company = {acme}
  UniqueIndexes = TRUE
  HasSecondary = FALSE
  MaxFaults = 2
  Slot = {s1}
  JobAttempts = 3
  MaxStalledCount = 1
  MaxLockLosses = 0
  MaxMoves = 0
  MaxCrashes = 2
SYMMETRY Symmetry
INVARIANTS
  TypeOK
  SameMessageSameId
  LeftReceivedHasJob
  UnqueuedEmailIsReported
  CompletedJobSettlesEmail
PROPERTIES
  TerminalOnlyRequeued
