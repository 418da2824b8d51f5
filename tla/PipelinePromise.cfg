\* The pipeline implements EmailToTask and, under fairness, leaves nothing undone:
\* two deliveries of a message, failing calls, a crash.
SPECIFICATION FairSpec
CONSTANTS
  r1 = r1
  r2 = r2
  s1 = s1
  s2 = s2
  Null = Null
  Request = {r1, r2}
  MessageId <- OneMessage
  Address = {addr}
  Company = {acme}
  UniqueIndexes = TRUE
  HasSecondary = FALSE
  MaxFaults = 2
  Slot = {s1}
  JobAttempts = 2
  MaxStalledCount = 1
  MaxLockLosses = 0
  MaxMoves = 0
  MaxCrashes = 1
PROPERTIES
  KeepsFairPromise
  EveryDeliveryEnds
  EveryJobFinishes
  ExhaustedEmailIsSettled
