\* Two calls that create, change and delete users, on a replica set, while their
\* company may be deleted.
SPECIFICATION Spec
CONSTANTS
  acme = acme
  c1 = c1
  c2 = c2
  u0 = u0
  a1 = a1
  Null = Null
  CompanyId = {acme, c1}
  UserId = {u0, u1, u2}
  TaskId = {}
  CompanyCall = {c1}
  UserCall = {u1, u2}
  Review = {}
  RawKey <- OneKey
  HeaderKey <- PlainKeys
  Key <- AllKeys
  Address = {a1, a2}
  UniqueIndexes = TRUE
  HasSecondary = TRUE
  Seeded <- OneCompany
  SeededUsers <- OneUser
INVARIANTS
  DeletedUserIsGone
  DanglingCompanyWasDeleted
PROPERTIES
  KeepsBookPromise
