\* One client pages through its company's tasks while tasks of two companies
\* appear and are reviewed.
SPECIFICATION ListSpec
CONSTANTS
  acme = acme
  globex = globex
  Null = Null
  CompanyId = {acme, globex}
  UserId = {}
  TaskId = {t1, t2, t3}
  CompanyCall = {}
  UserCall = {}
  Review = {v1}
  RawKey = {}
  HeaderKey <- ClientKeys
  Key <- Keys
  Address = {}
  UniqueIndexes = TRUE
  HasSecondary = FALSE
  Seeded <- TwoCompanies
  SeededUsers <- NoUser
  List = {l1}
  Limit = {1, 2}
  Time = {1, 2, 3}
SYMMETRY Symmetry
INVARIANTS
  ListTypeOK
  PagesAreOneTenants
  PageAndTotalAreOfTheCall
  PagingMissesOnePerReview
