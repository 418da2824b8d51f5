------------------------------- MODULE TenantApi -------------------------------
(***************************************************************************)
(* Companies, users and the review of tasks around one database: calls of  *)
(* /companies, /users and /tasks/:id/review interleave at every await.     *)
(***************************************************************************)
EXTENDS CompanyAdmin, UserAdmin, TaskReview

CONSTANTS Seeded,     \* the keys of the companies that exist at the start, by id
          SeededUsers \* the users that exist at the start, by id

ASSUME SeedAssumption ==
  /\ Seeded \in [DOMAIN Seeded -> Key]
  /\ DOMAIN Seeded \subseteq CompanyId \ CompanyCall
  /\ \A c, d \in DOMAIN Seeded : Seeded[c] = Seeded[d] => c = d
  /\ SeededUsers \in [DOMAIN SeededUsers -> User]
  /\ DOMAIN SeededUsers \subseteq UserId \ UserCall
  /\ \A u, v \in DOMAIN SeededUsers :
       SeededUsers[u].emails \cap SeededUsers[v].emails # {} => u = v

vars == <<storeVars, companyCalls, userCalls, reviews>>

Init ==
  /\ companies = [c \in CompanyId |-> IF c \in DOMAIN Seeded THEN Seeded[c] ELSE Null]
  /\ users = [u \in UserId |-> IF u \in DOMAIN SeededUsers THEN SeededUsers[u] ELSE Null]
  /\ tasks = [t \in TaskId |-> Null]
  /\ secondary = primary
  /\ CompanyInit
  /\ UserInit
  /\ ReviewInit

CompanyStep(c) ==
  /\ ReceiveCompanyCall(c) \/ HandleCompanyCall(c)
  /\ UNCHANGED <<userCalls, reviews>>

UserStep(u) ==
  /\ ReceiveUserCall(u) \/ HandleUserCall(u)
  /\ UNCHANGED <<companyCalls, reviews>>

Reviewing(r) ==
  /\ ReceiveReview(r) \/ HandleReview(r)
  /\ UNCHANGED <<companyCalls, userCalls>>

Creating(t) == AddTask(t) /\ UNCHANGED <<companyCalls, userCalls, reviews>>

CatchUp == Replicate /\ UNCHANGED <<companyCalls, userCalls, reviews>>

\* Every call has been answered.
Quiescent ==
  /\ \A c \in CompanyCall : CompanyAt(c, "answered")
  /\ \A u \in UserCall : UserAt(u, "answered")
  /\ \A r \in Review : ReviewAt(r, "answered")
  /\ UNCHANGED vars

Next ==
  \/ \E c \in CompanyCall : CompanyStep(c)
  \/ \E u \in UserCall : UserStep(u)
  \/ \E r \in Review : Reviewing(r)
  \/ \E t \in TaskId : Creating(t)
  \/ CatchUp
  \/ Quiescent

Spec == Init /\ [][Next]_vars

-------------------------------------------------------------------------------

\* Every variable holds a value of its type.
TypeOK == StoreTypeOK /\ CompanyTypeOK /\ UserTypeOK /\ ReviewTypeOK

\* However creations and rotations race between the check and the write, a key
\* opens at most one company.
OneCompanyPerKey ==
  \A c, d \in CompanyId : companies[c] # Null /\ companies[c] = companies[d] => c = d

\* A company that a call was told is deleted stays deleted, whatever updates
\* had already looked it up.
DeletedCompanyIsGone ==
  \A c \in CompanyCall :
    companyCalls[c].op = "delete" /\ companyCalls[c].answer = "ok"
    => companies[companyCalls[c].id] = Null

\* The same of a user: no update in flight gives back its addresses.
DeletedUserIsGone ==
  \A u \in UserCall :
    userCalls[u].op = "delete" /\ userCalls[u].answer = "ok"
    => users[userCalls[u].id] = Null

\* A user points at a company that is not there only because a call deleted it,
\* before or after the user was written: no call writes a user for a company
\* that never was.  (ensureCompanyExists is an await apart from the write, and
\* deleteCompany leaves the users of the company alone.)
DanglingCompanyWasDeleted ==
  \A u \in UserId :
    users[u] # Null /\ companies[users[u].companyId] = Null
    => \E c \in CompanyCall : /\ companyCalls[c].op = "delete"
                               /\ companyCalls[c].id = users[u].companyId
                               /\ companyCalls[c].answer \in {"ok", "error"}

\* A reviewer who was told "ok" decided the task: the decision is the one the
\* task has now and will keep.
AnsweredDecisionStands ==
  \A r \in Review :
    reviews[r].answer = "ok" => tasks[reviews[r].taskId].status = reviews[r].decision

\* A task was decided by a request that showed its own company's key, in the
\* way that request asked for, even if the company is gone by now.
DecidedByOwnTenant ==
  \A t \in TaskId :
    Decided(t) => \E r \in Review : /\ reviews[r].taskId = t
                                    /\ reviews[r].tenant = tasks[t].companyId
                                    /\ reviews[r].decision = tasks[t].status

\* A reviewer who is told that a task of its own company does not exist came
\* too late: the task is decided.  (Where reads are not stale.)
NotFoundMeansDecided ==
  \A r \in Review :
    /\ reviews[r].answer = "task_not_found"
    /\ reviews[r].taskId # Null
    /\ tasks[reviews[r].taskId].companyId = reviews[r].tenant
    => Decided(reviews[r].taskId)

\* A pending task of a company that is gone, with no review of that company
\* past the guard: nobody can decide it any more.
Orphaned(t) ==
  /\ tasks[t] # Null
  /\ ~Decided(t)
  /\ companies[tasks[t].companyId] = Null
  /\ tasks[t].companyId \in CompanyCall => CompanyAt(tasks[t].companyId, "answered")
  /\ \A r \in Review :
       ReviewAt(r, "findTask") \/ ReviewAt(r, "updateReview")
       => reviews[r].tenant # tasks[t].companyId

\* deleteCompany leaves tasks behind, and an orphan stays one: no key, no
\* update under way and no review ever opens it again.  (Where reads are not
\* stale, and of companies that no call is still to create.)
OrphanStaysOrphan ==
  [][~HasSecondary => \A t \in TaskId : Orphaned(t) => Orphaned(t)']_vars

\* A company has a key that the guard accepts: apiKey is required.
EveryCompanyHasKey == \A c \in CompanyId : companies[c] # <<>>

-------------------------------------------------------------------------------
(* Reviews implement ReviewOnce, users implement AddressBook. *)

\* Who was told to have decided a task, and who owns an address, as the set of
\* them: the promises allow at most one.
winnersOf(t) == {r \in Review : reviews[r].taskId = t /\ reviews[r].answer = "ok"}

ownersOf(a) == {u \in UserId : users[u] # Null /\ a \in users[u].emails}

Singletons(S) == {{x} : x \in S}

ReviewPromise == INSTANCE ReviewOnce WITH
  Review    <- Singletons(Review),
  Nobody    <- {},
  Outcome   <- Decision,
  Undecided <- "PENDING_REVIEW",
  outcome   <- [t \in TaskId |-> IF Decided(t) THEN tasks[t].status
                                               ELSE "PENDING_REVIEW"],
  winner    <- [t \in TaskId |-> winnersOf(t)]

\* No interleaving of reviews decides a task twice or tells two reviewers that
\* they did.
KeepsReviewPromise == ReviewPromise!Spec

BookPromise == INSTANCE AddressBook WITH
  UserId <- Singletons(UserId),
  Nobody <- {},
  owner  <- [a \in Address |-> ownersOf(a)]

\* No interleaving of user calls gives an address a second owner or takes it
\* from its owner.
KeepsBookPromise == BookPromise!Spec

===============================================================================
