\* An update of a company with a key of blanks.
SPECIFICATION Spec
CONSTANTS
  acme = acme
  c1 = c1
  c2 = c2
  u0 = u0
  a1 = a1
  Null = Null
  CompanyId = {acme, c1, c2}
  UserId = {}
  TaskId = {}
  CompanyCall = {c1, c2}
  UserCall = {}
  Review = {}
  RawKey <- TypedKeys
  HeaderKey <- PlainKeys
  Key <- AllKeys
  Address = {a1, a2}
  UniqueIndexes = TRUE
  HasSecondary = FALSE
  Seeded <- OneCompany
  SeededUsers <- NoUser
INVARIANTS
  EveryCompanyHasKey
