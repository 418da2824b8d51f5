\* One delivery and one task, from the webhook to a review, while its company may
\* be deleted, another one created, and its recipient moved there.
SPECIFICATION ServiceSpec
CONSTANTS
  acme = acme
  c1 = c1
  u0 = u0
  a1 = a1
  Null = Null
  Request = {r1}
  MessageId <- OneMessage
  Address = {a1}
  Company = {acme, c1}
  UniqueIndexes = TRUE
  HasSecondary = FALSE
  MaxFaults = 1
  Slot = {s1}
  JobAttempts = 2
  MaxStalledCount = 1
  MaxLockLosses = 0
  MaxMoves = 1
  MaxCrashes = 0
  UserId = {u0, u1}
  TaskId = {1, 2}
  Key <- BothKeys
  CompanyCall = {c1}
  RawKey = {}
  UserCall = {u1}
  Review = {v1}
  HeaderKey <- OnlyNewKey
  Seeded <- OneCompany
  SeededUsers <- OneUser
INVARIANTS
  ServiceTypeOK
  ActionableEmailHasItsTask
  DecidedByTheRecipientsCompany
  TaskOfGoneCompanyWasDeleted
