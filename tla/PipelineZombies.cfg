\* Two slots overlap on one job after its lock expired under the first, on a
\* replica set, with a crash and a recipient that moves.
SPECIFICATION Spec
CONSTANTS
  r1 = r1
  r2 = r2
  s1 = s1
  s2 = s2
  Null = Null
  Request = {r1, r2}
  MessageId <- OneMessage
  Address = {addr}
  Company = {acme, globex}
  UniqueIndexes = TRUE
  HasSecondary = TRUE
  MaxFaults = 0
  Slot = {s1, s2}
  JobAttempts = 3
  MaxStalledCount = 1
  MaxLockLosses = 1
  MaxMoves = 1
  MaxCrashes = 1
SYMMETRY Symmetry
INVARIANTS
  TaskIsAudited
  OneTaskPerMessage
