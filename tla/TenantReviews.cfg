\* Two reviews of one task against two calls that create, re-key and delete
\* companies.
SPECIFICATION Spec
CONSTANTS
  acme = acme
  c1 = c1
  c2 = c2
  u0 = u0
  a1 = a1
  Null = Null
  CompanyId = {acme, c1, c2}
  UserId = {}
  TaskId = {t1}
  CompanyCall = {c1, c2}
  UserCall = {}
  Review = {v1, v2}
  RawKey <- OneKey
  HeaderKey <- PlainKeys
  Key <- AllKeys
  Address = {a1, a2}
  UniqueIndexes = TRUE
  HasSecondary = FALSE
  Seeded <- OneCompany
  SeededUsers <- NoUser
SYMMETRY Symmetry
INVARIANTS
  TypeOK
  OneCompanyPerKey
  DeletedCompanyIsGone
  AnsweredDecisionStands
  DecidedByOwnTenant
  NotFoundMeansDecided
PROPERTIES
  KeepsReviewPromise
  OrphanStaysOrphan
