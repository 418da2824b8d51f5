---------------------------- MODULE TaskListProofs ----------------------------
(***************************************************************************)
(* Proofs about the pages of GET /tasks (TaskList): what they show while   *)
(* tasks appear and are reviewed.                                          *)
(*                                                                         *)
(* The argument rests on what a list can only do: tasks are neither        *)
(* deleted nor given to another company, and a secondary that lags shows   *)
(* some of what the primary has.  So what a company could list when a call *)
(* passed the guard is part of what each of the two queries finds, and     *)
(* that is part of what the company has when the call answers.             *)
(***************************************************************************)
EXTENDS TaskList, TenantLifecycleProofs, FiniteSetTheorems, WellFoundedInduction

-------------------------------------------------------------------------------
(* Pages of a sorted sequence. *)

\* An enumeration of a finite set shows each of its members once.
LEMMA Enumeration ==
  ASSUME NEW S, IsFiniteSet(S), NEW s \in newestFirst(S)
  PROVE  /\ s \in [1..Cardinality(S) -> S]
         /\ \A i, j \in 1..Cardinality(S) : s[i] = s[j] => i = j
<1>1. Cardinality(S) \in Nat
  BY FS_CardinalityType
<1>2. s \in [1..Cardinality(S) -> S]
        /\ \A i, j \in 1..Cardinality(S) : i < j => s[i] # s[j]
  BY DEF newestFirst
<1>3. \A i, j \in 1..Cardinality(S) : i # j => i < j \/ j < i
  BY <1>1
<1> QED
  BY <1>2, <1>3

\* page * limit is one limit past (page - 1) * limit.
LEMMA PageBounds ==
  ASSUME NEW page \in Nat \ {0}, NEW limit \in Nat \ {0}
  PROVE  /\ (page - 1) * limit \in Nat
         /\ page * limit = (page - 1) * limit + limit
<1>1. PICK p \in Nat : page = p + 1
  BY page - 1 \in Nat /\ page = (page - 1) + 1
<1>2. (p + 1) * limit = p * limit + limit /\ p * limit \in Nat
  OBVIOUS
<1> QED
  BY <1>1, <1>2, page - 1 = p

\* A page that shows anything ends within the list, and one that is not full
\* reaches the end of it.
LEMMA PageSize ==
  ASSUME NEW S, IsFiniteSet(S), NEW s \in newestFirst(S),
         NEW page \in Nat \ {0}, NEW limit \in Nat \ {0}
  PROVE  LET P     == pageOf(s, page, limit)
             shown == (page - 1) * limit + Cardinality(P)
         IN  /\ P \subseteq S
             /\ Cardinality(P) \in Nat
             /\ P # {} => shown <= Cardinality(S)
             /\ Cardinality(P) < limit => Cardinality(S) <= shown
<1> DEFINE P == pageOf(s, page, limit)
           n == Cardinality(S)
           a == (page - 1) * limit
           hi == IF a + limit <= n THEN a + limit ELSE n
           D == (a + 1)..hi
           f == [i \in D |-> s[i]]
<1>1. n \in Nat
  BY FS_CardinalityType
<1>2. a \in Nat /\ page * limit = a + limit
  BY PageBounds
<1>3. s \in [1..n -> S] /\ \A i, j \in 1..n : s[i] = s[j] => i = j
  BY Enumeration
<1> HIDE DEF a, n
<1>4. hi \in Nat /\ D \subseteq 1..n
  BY <1>1, <1>2
<1>5. D = {i \in DOMAIN s : a < i /\ i <= page * limit}
  <2>1. DOMAIN s = 1..n
    BY <1>3
  <2> QED
    BY <1>1, <1>2, <2>1
<1>6. P = {s[i] : i \in D}
  BY <1>5 DEF pageOf, a
<1> HIDE DEF P
<1>7. P \subseteq S
  BY <1>3, <1>4, <1>6
<1>8. f \in Bijection(D, P)
  <2>1. f \in [D -> P]
    BY <1>6
  <2>2. \A i, j \in D : f[i] = f[j] => i = j
    BY <1>3, <1>4
  <2>3. \A x \in P : \E i \in D : f[i] = x
    BY <1>6
  <2> QED
    BY <2>1, <2>2, <2>3 DEF Bijection, Injection, Surjection, IsInjective
<1>9. IsFiniteSet(D) /\ Cardinality(D) = IF a + 1 > hi THEN 0 ELSE hi - (a + 1) + 1
  <2>1. a + 1 \in Int /\ hi \in Int
    BY <1>2, <1>4
  <2> HIDE DEF hi
  <2> QED
    BY <2>1, FS_Interval
<1>10. Cardinality(P) = Cardinality(D)
  <2>1. ExistsBijection(D, P)
    BY <1>8 DEF ExistsBijection
  <2> HIDE DEF D
  <2> QED
    BY <1>9, <2>1, FS_Bijection
<1>11. P # {} => a + 1 <= hi
  <2>1. P # {} => \E i \in D : TRUE
    BY <1>6
  <2>2. a + 1 \in Int /\ hi \in Int
    BY <1>2, <1>4
  <2> HIDE DEF hi
  <2> QED
    BY <2>1, <2>2
<1> HIDE DEF D
<1>12. P # {} => a + Cardinality(P) <= n
  BY <1>1, <1>2, <1>9, <1>10, <1>11
<1>13. Cardinality(P) < limit => n <= a + Cardinality(P)
  BY <1>1, <1>2, <1>9, <1>10
<1>14. Cardinality(P) \in Nat
  BY <1>1, <1>2, <1>9, <1>10
<1> QED
  BY <1>7, <1>12, <1>13, <1>14 DEF P, a, n

-------------------------------------------------------------------------------
(* The tasks under a list. *)

\* Only finitely many tasks have been created.
FiniteTasks == IsFiniteSet({t \in TaskId : tasks[t] # Null})

\* The secondary shows some of the tasks, each of its company.
SecondaryAgrees ==
  \A t \in TaskId :
    secondary.tasks[t] # Null
    => tasks[t] # Null /\ tasks[t].companyId = secondary.tasks[t].companyId

\* What a find of the tasks of a company sees.
owned(c) == {t \in TaskId : ofCompany(visible.tasks[t], c)}

\* The API runs under the lists as it runs without them.
LEMMA ListsRunTheApi == ListSpec => Spec
<1>1. ListInit => Init
  BY DEF ListInit
<1>2. [ListNext]_listVars => [Next]_vars
  BY DEF ListNext, Other, Listing, listVars
<1> QED
  BY <1>1, <1>2, PTL DEF ListSpec, Spec

\* A step of the API creates one task or none.
LEMMA FiniteTasksStep ==
  ASSUME ReviewInv, FiniteTasks, [Next]_vars
  PROVE  FiniteTasks'
<1> DEFINE made == {t \in TaskId : tasks[t] # Null}
<1> SUFFICES \E u : {t \in TaskId : tasks'[t] # Null} \subseteq made \cup {u}
  <2>1. IsFiniteSet(made)
    BY DEF FiniteTasks
  <2>2. ASSUME NEW u, {t \in TaskId : tasks'[t] # Null} \subseteq made \cup {u}
        PROVE  IsFiniteSet({t \in TaskId : tasks'[t] # Null})
    <3> HIDE DEF made
    <3>1. IsFiniteSet(made \cup {u})
      BY <2>1, FS_AddElement
    <3> QED
      BY <2>2, <3>1, FS_Subset
  <2> QED
    BY <2>2 DEF FiniteTasks
<1>1. CASE UNCHANGED tasks
  BY <1>1
<1>2. CASE \E r \in Review : Reviewing(r)
  <2>1. PICK r \in Review : ReceiveReview(r) \/ HandleReview(r)
    BY <1>2 DEF Reviewing
  <2>2. CASE UpdateReview(r) /\ Decides(r)
    <3>1. reviews[r].pc = "updateReview"
      BY <2>2 DEF UpdateReview, ReviewAt
    <3>2. \A u \in TaskId : u # reviews[r].taskId => tasks'[u] = tasks[u]
      BY <2>2, <3>1, DecidesOne
    <3> QED
      BY <3>2
  <2> QED
    BY <1>1, <2>1, <2>2, NotOk
<1>3. CASE \E u \in TaskId : Creating(u)
  <2>1. PICK u \in TaskId : Creating(u)
    BY <1>3
  <2>2. \A t \in TaskId : t # u => tasks'[t] = tasks[t]
    BY <2>1 DEF Creating, AddTask, ReviewInv, ReviewTypes
  <2> QED
    BY <2>2
<1>4. CASE UNCHANGED vars
  BY <1>1, <1>4 DEF vars, storeVars
<1> QED
  BY <1>1, <1>2, <1>3, <1>4, OthersKeepReviews

LEMMA SecondaryAgreesStep ==
  ASSUME ReviewInv, SecondaryAgrees, [Next]_vars
  PROVE  SecondaryAgrees'
<1>1. CASE UNCHANGED secondary
  BY <1>1, TasksKeepTenants DEF SecondaryAgrees
<1>2. CASE secondary' = primary /\ UNCHANGED tasks
  BY <1>2 DEF SecondaryAgrees, primary
<1> QED
  BY <1>1, <1>2, SecondaryFollows

\* What is found for a company is its own, and there are finitely many.
LEMMA OwnedAreTheirs ==
  ASSUME FiniteTasks, SecondaryAgrees, NEW c
  PROVE  /\ owned(c) \subseteq companyTasks(c)
         /\ IsFiniteSet(companyTasks(c))
         /\ IsFiniteSet(owned(c))
<1>1. owned(c) \subseteq companyTasks(c)
  BY DEF owned, companyTasks, visible, primary, ofCompany, SecondaryAgrees
<1>2. companyTasks(c) \subseteq {t \in TaskId : tasks[t] # Null}
  BY DEF companyTasks, ofCompany
<1>3. IsFiniteSet(companyTasks(c))
  BY <1>2, FS_Subset DEF FiniteTasks
<1> QED
  BY <1>1, <1>3, FS_Subset

\* A company's tasks stay with it, on the primary and in what a find sees.
LEMMA OwnedGrows ==
  ASSUME ReviewInv, SecondaryAgrees, [Next]_vars, NEW c
  PROVE  /\ companyTasks(c) \subseteq companyTasks(c)'
         /\ owned(c) \subseteq owned(c)'
<1>1. companyTasks(c) \subseteq companyTasks(c)'
  BY TasksKeepTenants DEF companyTasks, ofCompany
<1>2. CASE HasSecondary
  <2>1. owned(c) = {t \in TaskId : ofCompany(secondary.tasks[t], c)}
    BY <1>2 DEF owned, visible
  <2>2. owned(c)' = {t \in TaskId : ofCompany(secondary'.tasks[t], c)}
    BY <1>2 DEF owned, visible
  <2>3. CASE UNCHANGED secondary
    BY <1>1, <2>1, <2>2, <2>3
  <2>4. CASE secondary' = primary
    BY <1>1, <2>1, <2>2, <2>4 DEF primary, SecondaryAgrees, ofCompany
  <2> QED
    BY <2>3, <2>4, SecondaryFollows
<1>3. CASE ~HasSecondary
  <2>1. owned(c) = companyTasks(c) /\ owned(c)' = companyTasks(c)'
    BY <1>3 DEF owned, companyTasks, visible, primary
  <2> QED
    BY <1>1, <2>1
<1> QED
  BY <1>1, <1>2, <1>3

-------------------------------------------------------------------------------
(* The inductive invariant of a list. *)

before(list) == (list.page - 1) * list.limit

\* What each of the two queries has established when it has answered.
FoundOK(list) ==
  LET shown == before(list) + Cardinality(list.items)
  IN  /\ list.items # {} => shown <= Cardinality(companyTasks(list.tenant))
      /\ Cardinality(list.items) < list.limit => Cardinality(list.atStart) <= shown

CountOK(list) ==
  /\ Cardinality(list.atStart) <= list.total
  /\ list.total <= Cardinality(companyTasks(list.tenant))

\* The page is the tenant's; while a page of all tasks is being fetched, and
\* once it is, what the tenant had at the start is still there to be found.
CallOK(list) ==
  /\ list.pc \in {"unsent", "guard"} => list.items = {}
  /\ list.pc # "answered" => list.answer = Null
  /\ list.answer = "ok" => list.pending = {}
  /\ list.items \subseteq companyTasks(list.tenant)
  /\ (list.pc = "queries" \/ list.answer = "ok") /\ list.status = Null =>
       /\ list.atStart \subseteq owned(list.tenant)
       /\ "find" \notin list.pending => FoundOK(list)
       /\ "count" \notin list.pending => CountOK(list)

ListInv ==
  /\ lists \in [List -> ListState]
  /\ \A l \in List : CallOK(lists[l])

LEMMA ListInvInit ==
  ASSUME ListInit
  PROVE  ListInv
<1> DEFINE new == [pc |-> "unsent", xCompanyApiKey |-> Null, status |-> Null,
                   page |-> 1, limit |-> 1, tenant |-> Null, pending |-> {},
                   items |-> {}, total |-> 0, answer |-> Null, atStart |-> {}, before |-> {},
                   settled |-> {}, seen |-> {}]
<1>1. new \in ListState
  BY DEF ListState
<1>2. CallOK(new)
  BY ReviewAssumption DEF CallOK, ReviewOutcome
<1>3. lists = [l \in List |-> new]
  BY DEF ListInit
<1> HIDE DEF new
<1> QED
  BY <1>1, <1>2, <1>3 DEF ListInv

\* The API under a list only adds to what the list may show and count.
LEMMA CallStaysOK ==
  ASSUME ReviewInv, FiniteTasks, SecondaryAgrees, [Next]_vars,
         NEW list \in ListState, CallOK(list)
  PROVE  CallOK(list)'
<1> DEFINE c == list.tenant
<1>1. companyTasks(c) \subseteq companyTasks(c)' /\ owned(c) \subseteq owned(c)'
  BY OwnedGrows
<1>2. IsFiniteSet(companyTasks(c))
  BY OwnedAreTheirs
<1>3. IsFiniteSet(companyTasks(c)')
  <2>1. FiniteTasks' /\ SecondaryAgrees'
    BY FiniteTasksStep, SecondaryAgreesStep
  <2>2. companyTasks(c)' \subseteq {t \in TaskId : tasks'[t] # Null}
    BY DEF companyTasks, ofCompany
  <2> QED
    BY <2>1, <2>2, FS_Subset DEF FiniteTasks
<1>4. Cardinality(companyTasks(c)) <= Cardinality(companyTasks(c)')
  BY <1>1, <1>3, FS_Subset
<1>5. /\ Cardinality(companyTasks(c)) \in Nat
      /\ Cardinality(companyTasks(c)') \in Nat
  BY <1>2, <1>3, FS_CardinalityType
<1>6. IsFiniteSet(list.items) /\ Cardinality(list.items) \in Nat
  BY <1>2, FS_Subset, FS_CardinalityType DEF CallOK
<1>7. before(list) \in Nat /\ list.total \in Nat
  BY PageBounds DEF before, ListState
<1>8. FoundOK(list) => FoundOK(list)'
  BY <1>4, <1>5, <1>6, <1>7 DEF FoundOK, before
<1>9. CountOK(list) => CountOK(list)'
  <2>1. ASSUME CountOK(list)
        PROVE  list.total <= Cardinality(companyTasks(c)')
    BY <1>4, <1>5, <1>7, <2>1 DEF CountOK
  <2> QED
    BY <2>1 DEF CountOK
<1> HIDE DEF c
<1> QED
  BY <1>1, <1>8, <1>9 DEF CallOK, c

\* One list changes; what it may show does not.
LEMMA OneListChanges ==
  ASSUME ListInv, UNCHANGED vars, NEW l \in List, NEW new \in ListState,
         lists' = [lists EXCEPT ![l] = new], CallOK(new)
  PROVE  ListInv'
<1>1. \A c : companyTasks(c)' = companyTasks(c) /\ owned(c)' = owned(c)
  BY DEF vars, storeVars, companyTasks, owned, visible, primary
<1>2. ASSUME NEW list \in ListState, CallOK(list)
      PROVE  CallOK(list)'
  BY <1>1, <1>2 DEF CallOK, FoundOK, CountOK, before
<1>3. lists' \in [List -> ListState]
  BY DEF ListInv
<1>4. ASSUME NEW k \in List
      PROVE  \E list \in ListState : CallOK(list) /\ lists'[k] = list
  BY DEF ListInv
<1>5. ASSUME NEW k \in List
      PROVE  CallOK(lists[k])'
  <2>1. PICK list \in ListState : CallOK(list) /\ lists'[k] = list
    BY <1>4
  <2> QED
    BY <1>2, <2>1 DEF CallOK, FoundOK, CountOK, before
<1> QED
  BY <1>3, <1>5 DEF ListInv

LEMMA ReceiveListKeeps ==
  ASSUME ListInv, UNCHANGED vars, NEW l \in List, ReceiveList(l)
  PROVE  ListInv'
<1>1. PICK key \in HeaderKey \cup {Null}, status \in TaskStatus \cup {Null}, n \in Limit :
        lists' = [lists EXCEPT ![l].pc = "guard", ![l].xCompanyApiKey = key,
                               ![l].status = status, ![l].limit = n]
  BY DEF ReceiveList
<1> DEFINE old == lists[l]
           new == [old EXCEPT !.pc = "guard", !.xCompanyApiKey = key,
                              !.status = status, !.limit = n]
<1>2. old \in ListState /\ CallOK(old) /\ old.pc = "unsent"
  BY DEF ListInv, ReceiveList, ListAt
<1>3. lists' = [lists EXCEPT ![l] = new]
  BY <1>1 DEF ListInv
<1>4. new \in ListState
  BY <1>2, ListAssumption DEF ListState
<1>5. /\ new.pc = "guard" /\ new.items = old.items /\ new.answer = old.answer
      /\ new.pending = old.pending /\ new.tenant = old.tenant
  BY <1>2 DEF ListState
<1> HIDE DEF new, old
<1>6. CallOK(new)
  BY <1>2, <1>5, ReviewAssumption DEF CallOK, ReviewOutcome
<1> QED
  BY <1>3, <1>4, <1>6, OneListChanges

LEMMA NextPageKeeps ==
  ASSUME ListInv, UNCHANGED vars, NEW l \in List, NextPage(l)
  PROVE  ListInv'
<1> DEFINE old == lists[l]
           new == [old EXCEPT !.pc = "guard", !.page = @ + 1, !.items = {}, !.total = 0,
                              !.answer = Null]
<1>1. old \in ListState
  BY DEF ListInv
<1>2. lists' = [lists EXCEPT ![l] = new]
  BY DEF ListInv, NextPage
<1>3. new \in ListState
  <2>1. old.page \in Nat /\ old.page + 1 \in Nat \ {0}
    BY <1>1 DEF ListState
  <2> QED
    BY <1>1, <2>1 DEF ListState
<1>4. new.pc = "guard" /\ new.items = {} /\ new.answer = Null
  BY <1>1 DEF ListState
<1> HIDE DEF new, old
<1>5. CallOK(new)
  BY <1>4, ReviewAssumption DEF CallOK, ReviewOutcome
<1> QED
  BY <1>2, <1>3, <1>5, OneListChanges

\* A request that is refused, and a query that throws, show nothing new.
LEMMA ListRefused ==
  ASSUME ListInv, UNCHANGED vars, NEW l \in List,
         NEW answer \in ReviewOutcome \ {"ok"}, ListAnswer(l, answer)
  PROVE  ListInv'
<1> DEFINE old == lists[l]
           new == [old EXCEPT !.pc = "answered", !.answer = answer]
<1>1. old \in ListState /\ CallOK(old)
  BY DEF ListInv
<1>2. lists' = [lists EXCEPT ![l] = new]
  BY DEF ListInv, ListAnswer
<1>3. new \in ListState
  BY <1>1 DEF ListState
<1>4. /\ new.pc = "answered" /\ new.answer = answer /\ new.items = old.items
      /\ new.tenant = old.tenant
  BY <1>1 DEF ListState
<1> HIDE DEF new, old
<1>5. CallOK(new)
  BY <1>1, <1>4 DEF CallOK
<1> QED
  BY <1>2, <1>3, <1>5, OneListChanges

LEMMA GuardListKeeps ==
  ASSUME ListInv, UNCHANGED vars, NEW l \in List, GuardList(l)
  PROVE  ListInv'
<1> DEFINE old == lists[l]
<1>1. old \in ListState /\ CallOK(old) /\ old.pc = "guard"
  BY DEF ListInv, GuardList, ListAt
<1>2. CASE \E answer \in ReviewOutcome \ {"ok"} : ListAnswer(l, answer)
  BY <1>2, ListRefused
<1>3. CASE ~ \E answer \in ReviewOutcome \ {"ok"} : ListAnswer(l, answer)
  <2>1. ~ListAnswer(l, "bad_request") /\ ~ListAnswer(l, "company_not_found")
          /\ ~ListAnswer(l, "error")
    BY <1>3 DEF ReviewOutcome
  <2>2. PICK c \in CompanyId :
          lists' = [lists EXCEPT ![l].pc = "queries",
                                 ![l].tenant = c,
                                 ![l].pending = {"find", "count"},
                                 ![l].atStart = matching(c, old.status),
                                 ![l].before = IF old.page = 1
                                               THEN matching(c, old.status) ELSE @,
                                 ![l].settled = IF old.page = 1
                                                THEN {t \in TaskId : Decided(t)} ELSE @]
    BY <2>1 DEF GuardList, findByApiKey
  <2> DEFINE listed == matching(c, old.status)
             new == [old EXCEPT !.pc = "queries",
                                !.tenant = c,
                                !.pending = {"find", "count"},
                                !.atStart = listed,
                                !.before = IF old.page = 1 THEN listed ELSE @,
                                !.settled = IF old.page = 1
                                            THEN {t \in TaskId : Decided(t)} ELSE @]
  <2>3. lists' = [lists EXCEPT ![l] = new]
    BY <2>2 DEF ListInv
  <2>4. listed \subseteq TaskId /\ listed \subseteq owned(c)
    BY DEF matching, owned
  <2> HIDE DEF listed
  <2>5. new \in ListState
    BY <1>1, <2>4 DEF ListState
  <2>6. /\ new.pc = "queries" /\ new.tenant = c /\ new.pending = {"find", "count"}
        /\ new.atStart = listed /\ new.items = old.items /\ new.answer = old.answer
    BY <1>1 DEF ListState
  <2> HIDE DEF new, old
  <2>7. CallOK(new)
    BY <1>1, <2>4, <2>6, ReviewAssumption DEF CallOK, ReviewOutcome
  <2> QED
    BY <2>3, <2>5, <2>7, OneListChanges
<1> QED
  BY <1>2, <1>3

\* The result of a query arrives, perhaps the second of the two.
LEMMA ArrivedKeeps ==
  ASSUME ListInv, UNCHANGED vars, NEW l \in List, NEW query \in {"find", "count"},
         Pending(l, query), NEW with \in ListState,
         with.pc = "queries", with.pending = lists[l].pending, with.answer = Null,
         lists' = [lists EXCEPT ![l] = Arrived(with, query)],
         with.items \subseteq companyTasks(with.tenant),
         with.status = Null =>
           /\ with.atStart \subseteq owned(with.tenant)
           /\ "find" \notin with.pending \/ query = "find" => FoundOK(with)
           /\ "count" \notin with.pending \/ query = "count" => CountOK(with)
  PROVE  ListInv'
<1> DEFINE last == [with EXCEPT !.pending = {}, !.pc = "answered", !.answer = "ok",
                                !.seen = @ \cup with.items]
           first == [with EXCEPT !.pending = @ \ {query}]
<1>1. CASE with.pending = {query}
  <2>1. lists' = [lists EXCEPT ![l] = last]
    BY <1>1 DEF Arrived
  <2>2. last \in ListState
    BY DEF ListState, ReviewOutcome
  <2>3. /\ last.pc = "answered" /\ last.pending = {} /\ last.answer = "ok"
        /\ last.items = with.items /\ last.tenant = with.tenant /\ last.status = with.status
        /\ last.atStart = with.atStart /\ last.total = with.total
        /\ last.page = with.page /\ last.limit = with.limit
    BY DEF ListState
  <2> HIDE DEF last
  <2>4. CallOK(last)
    BY <1>1, <2>3 DEF CallOK, FoundOK, CountOK, before
  <2> QED
    BY <2>1, <2>2, <2>4, OneListChanges
<1>2. CASE with.pending # {query}
  <2>1. lists' = [lists EXCEPT ![l] = first]
    BY <1>2 DEF Arrived
  <2>2. first \in ListState
    BY DEF ListState
  <2>3. /\ first.pc = "queries" /\ first.pending = with.pending \ {query}
        /\ first.answer = Null
        /\ first.items = with.items /\ first.tenant = with.tenant
        /\ first.status = with.status
        /\ first.atStart = with.atStart /\ first.total = with.total
        /\ first.page = with.page /\ first.limit = with.limit
    BY DEF ListState
  <2> HIDE DEF first
  <2>4. CallOK(first)
    BY <2>3, ReviewAssumption DEF CallOK, FoundOK, CountOK, before, ReviewOutcome
  <2> QED
    BY <2>1, <2>2, <2>4, OneListChanges
<1> QED
  BY <1>1, <1>2

LEMMA FindPageKeeps ==
  ASSUME ListInv, FiniteTasks, SecondaryAgrees, UNCHANGED vars, NEW l \in List, FindPage(l)
  PROVE  ListInv'
<1> DEFINE old == lists[l]
           found == matching(old.tenant, old.status)
<1>1. old \in ListState /\ CallOK(old) /\ old.pc = "queries" /\ "find" \in old.pending
        /\ old.answer = Null
  BY DEF ListInv, FindPage, Pending, ListAt, CallOK
<1>2. CASE ListAnswer(l, "error")
  BY <1>2, ListRefused DEF ReviewOutcome
<1>3. CASE ~ListAnswer(l, "error")
  <2>1. PICK s \in newestFirst(found) :
          lists' = [lists EXCEPT ![l] =
                      Arrived([old EXCEPT !.items = pageOf(s, old.page, old.limit)], "find")]
    BY <1>3 DEF FindPage
  <2> DEFINE page == pageOf(s, old.page, old.limit)
             with == [old EXCEPT !.items = page]
  <2>2. found \subseteq owned(old.tenant)
          /\ (old.status = Null => found = owned(old.tenant))
    BY DEF matching, owned
  <2> HIDE DEF found
  <2>3. /\ owned(old.tenant) \subseteq companyTasks(old.tenant)
        /\ IsFiniteSet(companyTasks(old.tenant)) /\ IsFiniteSet(owned(old.tenant))
    BY OwnedAreTheirs
  <2>4. IsFiniteSet(found) /\ found \subseteq companyTasks(old.tenant)
          /\ Cardinality(found) <= Cardinality(companyTasks(old.tenant))
    BY <2>2, <2>3, FS_Subset
  <2>5. /\ page \subseteq found
        /\ Cardinality(page) \in Nat
        /\ page # {} => before(old) + Cardinality(page) <= Cardinality(found)
        /\ Cardinality(page) < old.limit
           => Cardinality(found) <= before(old) + Cardinality(page)
    <3>1. old.page \in Nat \ {0} /\ old.limit \in Nat \ {0}
      BY <1>1 DEF ListState
    <3> QED
      BY <2>1, <2>4, <3>1, PageSize DEF before
  <2>6. companyTasks(old.tenant) \subseteq TaskId
    BY DEF companyTasks
  <2> HIDE DEF page
  <2>7. with \in ListState
    BY <1>1, <2>4, <2>5, <2>6 DEF ListState
  <2>8. /\ with.pc = "queries" /\ with.pending = old.pending /\ with.answer = Null
        /\ with.items = page /\ with.tenant = old.tenant /\ with.status = old.status
        /\ with.atStart = old.atStart /\ with.total = old.total
        /\ with.page = old.page /\ with.limit = old.limit
    BY <1>1 DEF ListState
  <2>9. lists' = [lists EXCEPT ![l] = Arrived(with, "find")]
    BY <2>1 DEF page
  <2> HIDE DEF with, old
  <2>10. with.items \subseteq companyTasks(with.tenant)
    BY <2>4, <2>5, <2>8
  <2>11. ASSUME with.status = Null
         PROVE  with.atStart \subseteq owned(with.tenant) /\ FoundOK(with)
    <3>1. with.atStart \subseteq owned(with.tenant) /\ found = owned(with.tenant)
      BY <1>1, <2>2, <2>8, <2>11 DEF CallOK
    <3>2. Cardinality(with.atStart) <= Cardinality(found) /\ Cardinality(with.atStart) \in Nat
      BY <2>4, <3>1, FS_Subset, FS_CardinalityType
    <3>3. Cardinality(found) \in Nat /\ Cardinality(companyTasks(with.tenant)) \in Nat
      BY <2>3, <2>4, <2>8, FS_CardinalityType
    <3>4. before(with) \in Nat
      BY <2>7, PageBounds DEF before, ListState
    <3>5. before(with) = before(old)
      BY <2>8 DEF before
    <3> QED
      BY <2>4, <2>5, <2>8, <3>1, <3>2, <3>3, <3>4, <3>5 DEF FoundOK
  <2>12. with.status = Null /\ "count" \notin with.pending => CountOK(with)
    BY <1>1, <2>8 DEF CallOK, CountOK
  <2>13. Pending(l, "find") /\ with.pending = lists[l].pending
    BY <2>8 DEF FindPage, old
  <2> QED
    BY <2>7, <2>8, <2>9, <2>10, <2>11, <2>12, <2>13, ArrivedKeeps
<1> QED
  BY <1>2, <1>3

LEMMA CountTasksKeeps ==
  ASSUME ListInv, FiniteTasks, SecondaryAgrees, UNCHANGED vars, NEW l \in List, CountTasks(l)
  PROVE  ListInv'
<1> DEFINE old == lists[l]
           found == matching(old.tenant, old.status)
<1>1. old \in ListState /\ CallOK(old) /\ old.pc = "queries" /\ "count" \in old.pending
        /\ old.answer = Null
  BY DEF ListInv, CountTasks, Pending, ListAt, CallOK
<1>2. CASE ListAnswer(l, "error")
  BY <1>2, ListRefused DEF ReviewOutcome
<1>3. CASE ~ListAnswer(l, "error")
  <2> DEFINE with == [old EXCEPT !.total = Cardinality(found)]
  <2>1. lists' = [lists EXCEPT ![l] = Arrived(with, "count")]
    BY <1>3 DEF CountTasks
  <2>2. found \subseteq owned(old.tenant)
          /\ (old.status = Null => found = owned(old.tenant))
    BY DEF matching, owned
  <2> HIDE DEF found
  <2>3. /\ owned(old.tenant) \subseteq companyTasks(old.tenant)
        /\ IsFiniteSet(companyTasks(old.tenant)) /\ IsFiniteSet(owned(old.tenant))
    BY OwnedAreTheirs
  <2>4. IsFiniteSet(found) /\ Cardinality(found) \in Nat
          /\ Cardinality(found) <= Cardinality(companyTasks(old.tenant))
    BY <2>2, <2>3, FS_Subset, FS_CardinalityType
  <2>5. with \in ListState
    BY <1>1, <2>4 DEF ListState
  <2>6. /\ with.pc = "queries" /\ with.pending = old.pending /\ with.answer = Null
        /\ with.items = old.items /\ with.tenant = old.tenant /\ with.status = old.status
        /\ with.atStart = old.atStart /\ with.total = Cardinality(found)
        /\ with.page = old.page /\ with.limit = old.limit
    BY <1>1 DEF ListState
  <2> HIDE DEF with, old
  <2>7. with.items \subseteq companyTasks(with.tenant)
    BY <1>1, <2>6 DEF CallOK
  <2>8. ASSUME with.status = Null
        PROVE  with.atStart \subseteq owned(with.tenant) /\ CountOK(with)
    <3>1. with.atStart \subseteq owned(with.tenant) /\ found = owned(with.tenant)
      BY <1>1, <2>2, <2>6, <2>8 DEF CallOK
    <3>2. Cardinality(with.atStart) <= Cardinality(found)
      BY <2>4, <3>1, FS_Subset
    <3> QED
      BY <2>4, <2>6, <3>1, <3>2 DEF CountOK
  <2>9. with.status = Null /\ "find" \notin with.pending => FoundOK(with)
    BY <1>1, <2>6 DEF CallOK, FoundOK, before
  <2>10. Pending(l, "count") /\ with.pending = lists[l].pending
    BY <2>6 DEF CountTasks, old
  <2> QED
    BY <2>1, <2>5, <2>6, <2>7, <2>8, <2>9, <2>10, ArrivedKeeps
<1> QED
  BY <1>2, <1>3

LEMMA ListInvStep ==
  ASSUME ListInv, ReviewInv, FiniteTasks, SecondaryAgrees, [ListNext]_listVars
  PROVE  ListInv'
<1>1. CASE [Next]_vars /\ UNCHANGED lists
  <2>1. \A list \in ListState : CallOK(list) => CallOK(list)'
    BY <1>1, CallStaysOK
  <2>2. ASSUME NEW l \in List
        PROVE  CallOK(lists[l])'
    <3>1. PICK list \in ListState : CallOK(list) /\ lists[l] = list /\ lists'[l] = list
      BY <1>1 DEF ListInv
    <3>2. CallOK(list)'
      BY <2>1, <3>1
    <3> QED
      BY <3>1, <3>2 DEF CallOK, FoundOK, CountOK, before
  <2> QED
    BY <1>1, <2>2 DEF ListInv
<1>2. CASE \E l \in List : Listing(l)
  <2>1. PICK l \in List : Listing(l)
    BY <1>2
  <2> QED
    BY <2>1, ReceiveListKeeps, NextPageKeeps, GuardListKeeps, FindPageKeeps, CountTasksKeeps
    DEF Listing
<1> QED
  BY <1>1, <1>2 DEF ListNext, Other, listVars

LEMMA ListsHold ==
  ListSpec => [](ListInv /\ ReviewInv /\ FiniteTasks /\ SecondaryAgrees)
<1>1. ListInit => ListInv /\ FiniteTasks /\ SecondaryAgrees
  <2>1. ASSUME ListInit
        PROVE  FiniteTasks /\ SecondaryAgrees
    <3>1. \A t \in TaskId : tasks[t] = Null /\ secondary.tasks[t] = Null
      BY <2>1 DEF ListInit, Init, primary
    <3>2. {t \in TaskId : tasks[t] # Null} = {}
      BY <3>1
    <3> QED
      BY <3>1, <3>2, FS_EmptySet DEF FiniteTasks, SecondaryAgrees
  <2> QED
    BY <2>1, ListInvInit
<1>2. ListInv /\ ReviewInv /\ FiniteTasks /\ SecondaryAgrees /\ [ListNext]_listVars
        => ListInv' /\ FiniteTasks' /\ SecondaryAgrees'
  <2>1. [ListNext]_listVars => [Next]_vars
    BY DEF ListNext, Other, Listing, listVars
  <2> QED
    BY <2>1, ListInvStep, FiniteTasksStep, SecondaryAgreesStep
<1> QED
  BY <1>1, <1>2, ListsRunTheApi, ReviewInvHolds, PTL DEF ListSpec

\* A page shows tasks of the company whose key the request showed, whatever is
\* created, decided, re-keyed or deleted meanwhile, from the primary or from a
\* secondary that lags.
THEOREM PagesShowOneTenant == ListSpec => []PagesAreOneTenants
<1>1. ListInv => PagesAreOneTenants
  BY DEF ListInv, CallOK, PagesAreOneTenants, companyTasks, ofCompany
<1> QED
  BY <1>1, ListsHold, PTL

\* The page and the total of an unfiltered list come of two queries that run in
\* parallel: each is right for some moment of the call, for any limit and however
\* many tasks are created and reviewed between them.
THEOREM PagesAreOfTheCall == ListSpec => []PageAndTotalAreOfTheCall
<1>1. ListInv => PageAndTotalAreOfTheCall
  BY DEF ListInv, CallOK, PageAndTotalAreOfTheCall, FoundOK, CountOK, before
<1> QED
  BY <1>1, ListsHold, PTL

\* Whatever is stamped keeps its timestamp.
LEMMA StampsStay ==
  ASSUME createdAt \in [TaskId -> Time \cup {Null}], [ListNext]_listVars
  PROVE  /\ createdAt' \in [TaskId -> Time \cup {Null}]
         /\ \A t \in TaskId : tasks[t] # Null => createdAt'[t] = createdAt[t]
<1>1. CASE UNCHANGED createdAt
  BY <1>1
<1>2. CASE Stamp
  <2>1. PICK at \in Time :
          createdAt' = [t \in TaskId |-> IF tasks[t] = Null /\ tasks'[t] # Null
                                        THEN at ELSE createdAt[t]]
    BY <1>2 DEF Stamp
  <2> QED
    BY <2>1
<1> QED
  BY <1>1, <1>2 DEF ListNext, Other, Listing, listVars

\* Every variable of the listing keeps its type: in particular a total is a
\* number, because only finitely many tasks exist at any time.
THEOREM ListTypes == ListSpec => []ListTypeOK
<1>1. ListInit => createdAt \in [TaskId -> Time \cup {Null}]
  BY DEF ListInit
<1>2. createdAt \in [TaskId -> Time \cup {Null}] /\ [ListNext]_listVars
        => (createdAt \in [TaskId -> Time \cup {Null}])'
  BY StampsStay
<1>3. ListInv /\ createdAt \in [TaskId -> Time \cup {Null}] => ListTypeOK
  BY DEF ListInv, ListTypeOK
<1> QED
  BY <1>1, <1>2, <1>3, ListsHold, PTL DEF ListSpec

-------------------------------------------------------------------------------
(* Where a task stands in a list. *)

\* The tasks of a list M down to x, by the timestamps at.
downTo(x, M, at) == {y \in M : at[y] >= at[x]}

\* The first n tasks of a list.
first(n, M, at) == {x \in M : Cardinality(downTo(x, M, at)) <= n}

\* A list of finitely many tasks with timestamps that are all different.
Ordered(M, at) ==
  /\ IsFiniteSet(M)
  /\ \A x \in M : at[x] \in Nat
  /\ \A x, y \in M : at[x] = at[y] => x = y

LEMMA LeastNatural ==
  ASSUME NEW T \in SUBSET Nat, T # {}
  PROVE  \E n \in T : \A m \in T : n <= m
<1>1. PICK n \in T : \A m \in T : <<m, n>> \notin OpToRel(<, Nat)
  BY NatLessThanWellFounded, WFMin, Zenon
<1>2. OpToRel(<, Nat) = {ss \in Nat \X Nat : ss[1] < ss[2]}
  BY DEF OpToRel
<1>3. ASSUME NEW m \in T
      PROVE  n <= m
  <2>1. <<m, n>> \in Nat \X Nat /\ <<m, n>>[1] = m /\ <<m, n>>[2] = n
    OBVIOUS
  <2>2. ~(m < n)
    BY <1>1, <1>2, <2>1
  <2> QED
    BY <2>2
<1> QED
  BY <1>3

\* The places of two tasks differ as their timestamps do.
LEMMA Places ==
  ASSUME NEW M, NEW at, Ordered(M, at), NEW x \in M
  PROVE  /\ x \in downTo(x, M, at)
         /\ IsFiniteSet(downTo(x, M, at))
         /\ Cardinality(downTo(x, M, at)) \in Nat \ {0}
         /\ Cardinality(downTo(x, M, at)) <= Cardinality(M)
         /\ \A y \in M : at[y] > at[x] =>
              /\ downTo(y, M, at) \subseteq downTo(x, M, at) \ {x}
              /\ Cardinality(downTo(y, M, at)) < Cardinality(downTo(x, M, at))
<1>1. x \in downTo(x, M, at) /\ downTo(x, M, at) \subseteq M
  BY DEF downTo, Ordered
<1>2. IsFiniteSet(downTo(x, M, at)) /\ Cardinality(downTo(x, M, at)) <= Cardinality(M)
  BY <1>1, FS_Subset DEF Ordered
<1>3. Cardinality(downTo(x, M, at)) \in Nat \ {0}
  BY <1>1, <1>2, FS_CardinalityType, FS_EmptySet
<1>4. ASSUME NEW y \in M, at[y] > at[x]
      PROVE  /\ downTo(y, M, at) \subseteq downTo(x, M, at) \ {x}
             /\ Cardinality(downTo(y, M, at)) < Cardinality(downTo(x, M, at))
  <2>1. downTo(y, M, at) \subseteq downTo(x, M, at) \ {x}
    BY <1>4 DEF downTo, Ordered
  <2>2. IsFiniteSet(downTo(x, M, at) \ {x})
          /\ Cardinality(downTo(x, M, at) \ {x}) = Cardinality(downTo(x, M, at)) - 1
    BY <1>1, <1>2, FS_RemoveElement
  <2>3. Cardinality(downTo(y, M, at)) <= Cardinality(downTo(x, M, at) \ {x})
          /\ IsFiniteSet(downTo(y, M, at))
    BY <2>1, <2>2, FS_Subset
  <2>4. Cardinality(downTo(y, M, at)) \in Nat
    BY <2>3, FS_CardinalityType
  <2> QED
    BY <1>3, <2>1, <2>2, <2>3, <2>4
<1> QED
  BY <1>1, <1>2, <1>3, <1>4

\* There are at most n first n tasks, and n of them unless that is the list.
LEMMA FirstSize ==
  ASSUME NEW M, NEW at, Ordered(M, at), NEW n \in Nat
  PROVE  /\ IsFiniteSet(first(n, M, at))
         /\ Cardinality(first(n, M, at)) \in Nat
         /\ Cardinality(first(n, M, at)) <= n
         /\ first(n, M, at) # M => n <= Cardinality(first(n, M, at))
<1> DEFINE F == first(n, M, at)
           place(x) == Cardinality(downTo(x, M, at))
<1>1. F \subseteq M /\ \A x \in M : x \in F <=> place(x) <= n
  BY DEF first
<1> HIDE DEF F
<1>2. IsFiniteSet(F) /\ Cardinality(F) \in Nat
  BY <1>1, FS_Subset, FS_CardinalityType DEF Ordered
<1>3. \A x \in M : place(x) \in Nat \ {0}
  BY Places
<1>4. \A x, y \in M : at[y] > at[x] => place(y) < place(x)
  BY Places
<1> HIDE DEF place
<1>5. Cardinality(F) <= n
  <2>1. CASE F = {}
    BY <2>1, FS_EmptySet
  <2>2. CASE F # {}
    <3> DEFINE T == {n - place(x) : x \in F}
    <3>1. T \subseteq Nat /\ T # {}
      BY <1>1, <1>3, <2>2
    <3>2. PICK m \in T : \A k \in T : m <= k
      BY <3>1, LeastNatural
    <3>3. PICK x \in F : m = n - place(x)
      BY <3>2
    <3>4. \A y \in F : place(y) <= place(x)
      <4>1. \A y \in F : n - place(x) <= n - place(y)
        BY <3>2, <3>3
      <4> QED
        BY <1>1, <1>3, <3>3, <4>1
    <3>5. F \subseteq downTo(x, M, at)
      <4>1. ASSUME NEW y \in F
            PROVE  at[y] >= at[x]
        <5>1. at[x] \in Nat /\ at[y] \in Nat /\ place(x) \in Nat /\ place(y) \in Nat
          BY <1>1, <1>3, <3>3 DEF Ordered
        <5>2. ~(at[x] > at[y])
          BY <1>1, <1>4, <3>3, <3>4, <5>1
        <5> QED
          BY <5>1, <5>2
      <4> QED
        BY <1>1, <4>1 DEF downTo
    <3>6. IsFiniteSet(downTo(x, M, at)) /\ place(x) <= n
      BY <1>1, <3>3, Places
    <3>7. Cardinality(F) <= place(x)
      BY <3>5, <3>6, FS_Subset DEF place
    <3> QED
      BY <1>1, <1>2, <1>3, <3>3, <3>6, <3>7
  <2> QED
    BY <2>1, <2>2
<1>6. ASSUME F # M
      PROVE  n <= Cardinality(F)
  <2> DEFINE T == {place(x) : x \in M \ F}
  <2>1. T \subseteq Nat /\ T # {}
    BY <1>1, <1>3, <1>6
  <2>2. PICK m \in T : \A k \in T : m <= k
    BY <2>1, LeastNatural
  <2>3. PICK x \in M \ F : m = place(x)
    BY <2>2
  <2>4. downTo(x, M, at) \ {x} \subseteq F
    <3>1. ASSUME NEW y \in downTo(x, M, at) \ {x}
          PROVE  y \in F
      <4>1. y \in M /\ at[y] >= at[x] /\ y # x /\ at[x] \in Nat /\ at[y] \in Nat
        BY <2>3 DEF downTo, Ordered
      <4>2. at[y] > at[x]
        BY <2>3, <4>1 DEF Ordered
      <4>3. place(y) < place(x) /\ place(x) \in Nat /\ place(y) \in Nat
        BY <1>3, <1>4, <2>3, <4>1, <4>2
      <4>4. y \notin M \ F
        BY <2>2, <2>3, <4>3
      <4> QED
        BY <4>1, <4>4
    <3> QED
      BY <3>1
  <2>5. Cardinality(downTo(x, M, at) \ {x}) = place(x) - 1
    BY <2>3, Places, FS_RemoveElement DEF place
  <2>6. place(x) - 1 <= Cardinality(F)
    BY <1>2, <2>4, <2>5, FS_Subset
  <2>7. n < place(x) /\ place(x) \in Nat
    BY <1>1, <1>3, <2>3
  <2> QED
    BY <1>2, <2>6, <2>7
<1> QED
  BY <1>2, <1>5, <1>6 DEF F

\* A page is the first tasks of the list without those of the pages before it,
\* and an empty page is behind all of them.
LEMMA PageIsSlice ==
  ASSUME NEW M, Ordered(M, createdAt), NEW s \in newestFirst(M),
         NEW page \in Nat \ {0}, NEW limit \in Nat \ {0}
  PROVE  LET P    == pageOf(s, page, limit)
             skip == (page - 1) * limit
         IN  /\ P = first(page * limit, M, createdAt) \ first(skip, M, createdAt)
             /\ P = {} => first(skip, M, createdAt) = M
<1> DEFINE n == Cardinality(M)
           a == (page - 1) * limit
           P == pageOf(s, page, limit)
           place(x) == Cardinality(downTo(x, M, createdAt))
<1>1. n \in Nat /\ IsFiniteSet(M)
  BY FS_CardinalityType DEF Ordered
<1>2. a \in Nat /\ page * limit = a + limit
  BY PageBounds
<1>3. s \in [1..n -> M] /\ \A i, j \in 1..n : s[i] = s[j] => i = j
  BY <1>1, Enumeration
<1>4. \A x \in M : \E i \in 1..n : s[i] = x
  <2>1. s \in Injection(1..n, M)
    BY <1>3 DEF Injection, IsInjective
  <2>2. IsFiniteSet(1..n) /\ Cardinality(1..n) = n
    BY <1>1, FS_Interval
  <2>3. s \in Surjection(1..n, M)
    BY <1>1, <2>1, <2>2, FS_Injection
  <2> QED
    BY <2>3 DEF Surjection
<1>5. \A i, j \in 1..n : i < j => createdAt[s[i]] >= createdAt[s[j]]
  BY <1>3 DEF newestFirst
<1> HIDE DEF n, a, P
<1>6. ASSUME NEW i \in 1..n
      PROVE  place(s[i]) = i
  <2> DEFINE D == 1..i
             f == [j \in D |-> s[j]]
  <2>1. s[i] \in M /\ D \subseteq 1..n
    BY <1>1, <1>3
  <2>2. \A j \in 1..n : createdAt[s[j]] >= createdAt[s[i]] <=> j <= i
    <3>1. ASSUME NEW j \in 1..n
          PROVE  createdAt[s[j]] >= createdAt[s[i]] <=> j <= i
      <4>1. s[j] \in M /\ createdAt[s[i]] \in Nat /\ createdAt[s[j]] \in Nat
        BY <1>3, <2>1 DEF Ordered
      <4>2. createdAt[s[i]] = createdAt[s[j]] => i = j
        BY <1>3, <2>1, <4>1 DEF Ordered
      <4>3. i < j \/ i = j \/ j < i
        BY <1>1
      <4> QED
        BY <1>5, <4>1, <4>2, <4>3
    <3> QED
      BY <3>1
  <2>3. downTo(s[i], M, createdAt) = {s[j] : j \in D}
    <3>1. \A j \in 1..n : j \in D <=> j <= i
      BY <1>1
    <3>2. {s[j] : j \in D} \subseteq downTo(s[i], M, createdAt)
      BY <1>3, <2>1, <2>2, <3>1 DEF downTo
    <3>3. downTo(s[i], M, createdAt) \subseteq {s[j] : j \in D}
      BY <1>4, <2>2, <3>1 DEF downTo
    <3> QED
      BY <3>2, <3>3
  <2> DEFINE T == downTo(s[i], M, createdAt)
  <2>4. f \in Bijection(D, T)
    <3> HIDE DEF T
    <3>1. T = {s[j] : j \in D}
      BY <2>3 DEF T
    <3>2. f \in [D -> T] /\ \A x \in T : \E j \in D : f[j] = x
      BY <3>1
    <3>3. \A j, k \in D : f[j] = f[k] => j = k
      BY <1>3, <2>1
    <3> QED
      BY <3>2, <3>3 DEF Bijection, Injection, Surjection, IsInjective
  <2>5. IsFiniteSet(D) /\ Cardinality(D) = i
    <3>1. i \in Int /\ 1 <= i
      BY <1>1
    <3> QED
      BY <3>1, FS_Interval
  <2>6. ExistsBijection(D, T)
    BY <2>4 DEF ExistsBijection
  <2> HIDE DEF D, T
  <2>7. Cardinality(T) = i
    BY <2>5, <2>6, FS_Bijection
  <2> QED
    BY <2>7 DEF T
<1>7. \A x \in P : x \in M /\ a < place(x) /\ place(x) <= page * limit
  BY <1>3, <1>6 DEF pageOf, P, a
<1>8. ASSUME NEW x \in M, a < place(x), place(x) <= page * limit
      PROVE  x \in P
  <2>1. PICK i \in 1..n : s[i] = x
    BY <1>4
  <2>2. place(x) = i
    BY <1>6, <2>1
  <2> QED
    BY <1>3, <1>8, <2>1, <2>2 DEF pageOf, P, a
<1>9. \A x \in M : place(x) \in Nat
  BY Places
<1> HIDE DEF place
<1>10. P = first(page * limit, M, createdAt) \ first(a, M, createdAt)
  <2>1. /\ first(page * limit, M, createdAt) = {x \in M : place(x) <= page * limit}
        /\ first(a, M, createdAt) = {x \in M : place(x) <= a}
    BY DEF first, place
  <2>2. \A x \in M : a < place(x) <=> ~(place(x) <= a)
    BY <1>2, <1>9
  <2> QED
    BY <1>7, <1>8, <2>1, <2>2
<1>11. ASSUME P = {}
       PROVE  first(a, M, createdAt) = M
  <2>1. IsFiniteSet(M)
    BY <1>1
  <2>2. n <= a
    <3>1. pageOf(s, page, limit) = {} /\ Cardinality({}) = 0
      BY <1>11, FS_EmptySet DEF P
    <3>2. Cardinality(pageOf(s, page, limit)) = 0 /\ 0 < limit
      BY <3>1
    <3>3. n <= a + Cardinality(pageOf(s, page, limit))
      BY <2>1, <3>2, PageSize DEF n, a
    <3> QED
      BY <1>1, <1>2, <3>2, <3>3
  <2>3. \A x \in M : place(x) <= n
    BY Places DEF place, n
  <2>4. \A x \in M : place(x) <= a
    BY <1>1, <1>2, <1>9, <2>2, <2>3
  <2> QED
    BY <2>4 DEF first, place
<1> QED
  BY <1>10, <1>11 DEF P, a

\* Tasks move up among the first n only past tasks that are taken out of the
\* list, whatever is put in: from M to N at most one for each.
LEMMA MovedUp ==
  ASSUME NEW M, NEW N, NEW at, Ordered(M \cup N, at), NEW n \in Nat
  PROVE  LET risen == (first(n, N, at) \cap M) \ first(n, M, at)
         IN  /\ IsFiniteSet(risen) /\ IsFiniteSet(M \ N)
             /\ Cardinality(risen) <= Cardinality(M \ N)
<1> DEFINE A == first(n, M, at)
           B == first(n, N, at)
           E == (B \cap M) \ A
           placeM(x) == Cardinality(downTo(x, M, at))
           placeN(x) == Cardinality(downTo(x, N, at))
<1>1. IsFiniteSet(M) /\ IsFiniteSet(N) /\ IsFiniteSet(M \ N)
  BY FS_Subset DEF Ordered
<1>2. Ordered(M, at) /\ Ordered(N, at)
  BY <1>1 DEF Ordered
<1>3. /\ IsFiniteSet(A) /\ Cardinality(A) \in Nat /\ Cardinality(A) <= n
      /\ A # M => n <= Cardinality(A)
  BY <1>2, FirstSize
<1>4. IsFiniteSet(B) /\ Cardinality(B) \in Nat /\ Cardinality(B) <= n
  BY <1>2, FirstSize
<1>5. A \subseteq M /\ B \subseteq N
  BY DEF first
<1>6. /\ \A x \in M : x \in A <=> placeM(x) <= n
      /\ \A x \in N : x \in B <=> placeN(x) <= n
  BY DEF first
<1>7. /\ \A x \in M : placeM(x) \in Nat
      /\ \A x \in N : placeN(x) \in Nat
      /\ \A x, y \in M : at[y] > at[x] => placeM(y) < placeM(x)
      /\ \A x, y \in N : at[y] > at[x] => placeN(y) < placeN(x)
  BY <1>2, Places
<1> HIDE DEF A, B, placeM, placeN
<1>8. CASE E = {}
  <2>1. Cardinality(M \ N) \in Nat /\ Cardinality({}) = 0 /\ IsFiniteSet({})
    BY <1>1, FS_CardinalityType, FS_EmptySet
  <2> QED
    BY <1>1, <1>8, <2>1 DEF A, B
<1>9. CASE E # {}
  <2>1. PICK x \in E : TRUE
    BY <1>9
  <2>2. x \in M /\ x \in N /\ x \in B /\ x \notin A
    BY <1>5, <2>1
  <2>3. Cardinality(A) = n
    BY <1>3, <2>2
  <2>4. A \cap N \subseteq B
    <3>1. ASSUME NEW y \in A \cap N
          PROVE  y \in B
      <4>1. placeM(y) <= n /\ ~(placeM(x) <= n) /\ placeM(y) \in Nat /\ placeM(x) \in Nat
        BY <1>5, <1>6, <1>7, <2>2
      <4>2. ~(at[x] > at[y])
        BY <1>5, <1>7, <2>2, <4>1
      <4>3. at[x] \in Nat /\ at[y] \in Nat /\ at[x] # at[y]
        BY <1>5, <2>2, <4>1 DEF Ordered
      <4>4. at[y] > at[x]
        BY <4>2, <4>3
      <4>5. placeN(y) < placeN(x) /\ placeN(x) <= n /\ placeN(y) \in Nat /\ placeN(x) \in Nat
        BY <1>6, <1>7, <2>2, <4>4
      <4> QED
        BY <1>6, <4>5
    <3> QED
      BY <3>1
  <2>5. IsFiniteSet(A \cap N) /\ IsFiniteSet(A \ N) /\ IsFiniteSet(E)
    BY <1>3, <1>4, FS_Subset
  <2>6. /\ Cardinality(A \cap N) \in Nat /\ Cardinality(A \ N) \in Nat
        /\ Cardinality(E) \in Nat /\ Cardinality(M \ N) \in Nat
    BY <1>1, <2>5, FS_CardinalityType
  <2>7. Cardinality(A \ N) = n - Cardinality(A \cap N)
    BY <1>3, <2>3, FS_Difference
  <2>8. Cardinality((A \cap N) \cup E) = Cardinality(A \cap N) + Cardinality(E)
    <3>1. (A \cap N) \cap E = {}
      OBVIOUS
    <3> HIDE DEF E
    <3>2. Cardinality((A \cap N) \cup E)
            = Cardinality(A \cap N) + Cardinality(E) - Cardinality((A \cap N) \cap E)
      BY <2>5, FS_Union
    <3>3. Cardinality((A \cap N) \cap E) = 0
      BY <3>1, FS_EmptySet
    <3> QED
      BY <2>6, <3>2, <3>3
  <2>9. Cardinality((A \cap N) \cup E) <= Cardinality(B)
    <3>1. (A \cap N) \cup E \subseteq B
      BY <2>4
    <3> HIDE DEF E
    <3> QED
      BY <1>4, <3>1, FS_Subset
  <2>10. Cardinality(A \ N) <= Cardinality(M \ N)
    BY <1>1, <1>5, FS_Subset
  <2> HIDE DEF E
  <2>11. Cardinality(E) <= Cardinality(M \ N)
    BY <1>4, <2>6, <2>7, <2>8, <2>9, <2>10
  <2> QED
    BY <1>1, <2>5, <2>11 DEF E, A, B
<1> QED
  BY <1>8, <1>9

-------------------------------------------------------------------------------
(* What a client that pages to the end is shown. *)

\* The client was let in on the first page and not turned away since, and the
\* page of this request is found.
Begun(list) ==
  \/ list.pc = "queries"
  \/ list.answer = "ok"
  \/ list.pc = "guard" /\ list.page > 1

Found(list) == list.answer = "ok" \/ (list.pc = "queries" /\ "find" \notin list.pending)

\* How much of the list the pages have gone through.
through(list) == IF Found(list) THEN list.page * list.limit ELSE before(list)

\* What was there at the start, was not taken out and has not been shown.
owing(list, T) == (list.before \ T) \ (list.seen \cup list.items)

\* Of a list that is M now, less the tasks T that reviews took out of it: what
\* the pages have gone past without showing it moved up past the client, at most
\* one task for each that was taken out.
PagesOK(list, M, T, own, at) ==
  /\ list.before \ T \subseteq M
  /\ list.pc = "queries" /\ "find" \in list.pending => list.items = {}
  /\ list.answer = "ok" => list.items \subseteq list.seen
  /\ (\A t, u \in own : at[t] = at[u] => t = u) =>
       /\ Cardinality(owing(list, T) \cap first(through(list), M, at)) <= Cardinality(T)
       /\ Found(list) /\ list.items = {} => Cardinality(owing(list, T)) <= Cardinality(T)

\* Every page is of the company whose key the header is.
PagingOK(list) ==
  /\ list.pc = "unsent" => list.page = 1
  /\ Begun(list) =>
       /\ list.tenant \in CompanyId
       /\ list.xCompanyApiKey \in HeaderKey
       /\ companies[list.tenant] = trim(list.xCompanyApiKey)
       /\ \A t \in list.settled : Decided(t)
       /\ PagesOK(list, matching(list.tenant, list.status), takenOut(list),
                  companyTasks(list.tenant), createdAt)

PagingInv == \A l \in List : PagingOK(lists[l])

\* Every task has a timestamp.
Stamped == \A t \in TaskId : tasks[t] # Null => createdAt[t] \in Time

\* No company was added, re-keyed or deleted.
KeysAsSeeded == companies = [c \in CompanyId |-> IF c \in DOMAIN Seeded THEN Seeded[c] ELSE Null]

\* As long as what leaves the list is accounted for as taken out, what the pages
\* have gone past stays accounted for, whatever is put in and wherever.
LEMMA PagesStayOK ==
  ASSUME NEW list \in ListState,
         NEW M, NEW T, NEW own, NEW at, PagesOK(list, M, T, own, at),
         NEW N, NEW U, NEW own2, NEW at2,
         IsFiniteSet(own2), M \subseteq own, N \subseteq own2, own \subseteq own2,
         U \subseteq own2, T \subseteq U, M \ N \subseteq U \ T,
         \A t \in own2 : at2[t] \in Nat,
         \A t \in own : at2[t] = at[t]
  PROVE  PagesOK(list, N, U, own2, at2)
<1>1. list.before \ U \subseteq N
  BY DEF PagesOK
<1>2. ASSUME \A t, u \in own2 : at2[t] = at2[u] => t = u
      PROVE  /\ Cardinality(owing(list, U) \cap first(through(list), N, at2))
                  <= Cardinality(U)
             /\ Found(list) /\ list.items = {} => Cardinality(owing(list, U)) <= Cardinality(U)
  <2> DEFINE n == through(list)
             gone == owing(list, T) \cap first(n, M, at2)
             gone2 == owing(list, U) \cap first(n, N, at2)
             risen == (first(n, N, at2) \cap M) \ first(n, M, at2)
  <2>1. Ordered(M \cup N, at2)
    <3>1. M \cup N \subseteq own2
      OBVIOUS
    <3>2. IsFiniteSet(M \cup N)
      BY <3>1, FS_Subset
    <3> QED
      BY <1>2, <3>1, <3>2 DEF Ordered
  <2>2. first(n, M, at2) = first(n, M, at)
    BY DEF first, downTo
  <2>3. \A t, u \in own : at[t] = at[u] => t = u
    BY <1>2
  <2>4. Cardinality(gone) <= Cardinality(T)
    BY <2>2, <2>3 DEF PagesOK
  <2>5. n \in Nat
    <3>1. list.page \in Nat \ {0} /\ list.limit \in Nat \ {0}
      BY DEF ListState
    <3> QED
      BY <3>1, PageBounds DEF through, before
  <2>6. IsFiniteSet(risen) /\ IsFiniteSet(M \ N)
          /\ Cardinality(risen) <= Cardinality(M \ N)
    BY <2>1, <2>5, MovedUp
  <2>7. owing(list, T) \subseteq M /\ owing(list, U) \subseteq owing(list, T)
    BY DEF owing, PagesOK
  <2>8. gone2 \subseteq gone \cup risen
    BY <2>7
  <2>9. IsFiniteSet(gone) /\ IsFiniteSet(owing(list, T))
    <3>1. gone \subseteq own2 /\ owing(list, T) \subseteq own2
      BY <2>7
    <3> QED
      BY <3>1, FS_Subset
  <2> HIDE DEF gone, gone2, risen
  <2>10. /\ Cardinality(gone2) <= Cardinality(gone) + Cardinality(risen)
         /\ Cardinality(gone) \in Nat /\ Cardinality(risen) \in Nat
         /\ Cardinality(gone2) \in Nat
    <3>1. /\ IsFiniteSet(gone \cup risen)
          /\ Cardinality(gone \cup risen)
               = Cardinality(gone) + Cardinality(risen) - Cardinality(gone \cap risen)
      BY <2>6, <2>9, FS_Union
    <3>2. IsFiniteSet(gone \cap risen) /\ IsFiniteSet(gone2)
            /\ Cardinality(gone2) <= Cardinality(gone \cup risen)
      BY <2>8, <2>9, <3>1, FS_Subset
    <3>3. /\ Cardinality(gone) \in Nat /\ Cardinality(risen) \in Nat
          /\ Cardinality(gone2) \in Nat /\ Cardinality(gone \cap risen) \in Nat
      BY <2>6, <2>9, <3>2, FS_CardinalityType
    <3> QED
      BY <3>1, <3>2, <3>3
  <2>11. IsFiniteSet(U) /\ IsFiniteSet(T) /\ Cardinality(U) \in Nat /\ Cardinality(T) \in Nat
           /\ Cardinality(T) <= Cardinality(U) /\ Cardinality(M \ N) \in Nat
    BY <2>6, FS_Subset, FS_CardinalityType
  <2>12. Cardinality(T) + Cardinality(M \ N) <= Cardinality(U)
    <3> DEFINE R == M \ N
    <3>1. T \cap R = {} /\ T \cup R \subseteq U
      OBVIOUS
    <3> HIDE DEF R
    <3>2. Cardinality(T \cup R) = Cardinality(T) + Cardinality(R) - Cardinality(T \cap R)
      BY <2>6, <2>11, FS_Union DEF R
    <3>3. Cardinality(T \cap R) = 0
      BY <3>1, FS_EmptySet
    <3>4. Cardinality(T \cup R) <= Cardinality(U)
      BY <2>11, <3>1, FS_Subset
    <3> QED
      BY <2>11, <3>2, <3>3, <3>4 DEF R
  <2>13. Cardinality(gone2) <= Cardinality(U)
    BY <2>4, <2>6, <2>10, <2>11, <2>12
  <2>14. ASSUME Found(list), list.items = {}
         PROVE  Cardinality(owing(list, U)) <= Cardinality(U)
    <3>1. Cardinality(owing(list, T)) <= Cardinality(T)
      BY <2>3, <2>14 DEF PagesOK
    <3>2. IsFiniteSet(owing(list, U))
            /\ Cardinality(owing(list, U)) <= Cardinality(owing(list, T))
      BY <2>7, <2>9, FS_Subset
    <3>3. Cardinality(owing(list, U)) \in Nat /\ Cardinality(owing(list, T)) \in Nat
      BY <2>9, <3>2, FS_CardinalityType
    <3> QED
      BY <2>11, <3>1, <3>2, <3>3
  <2> QED
    BY <2>13, <2>14 DEF gone2
<1> QED
  BY <1>1, <1>2 DEF PagesOK

\* A step of the API keeps decisions.
LEMMA DecisionsAreFinal ==
  ASSUME ReviewInv, [Next]_vars
  PROVE  DecisionsStay
<1>1. CASE UNCHANGED tasks
  BY <1>1 DEF DecisionsStay
<1>2. CASE \E r \in Review : Reviewing(r)
  <2>1. PICK r \in Review : ReceiveReview(r) \/ HandleReview(r)
    BY <1>2 DEF Reviewing
  <2>2. CASE UpdateReview(r) /\ Decides(r)
    <3>1. reviews[r].pc = "updateReview"
      BY <2>2 DEF UpdateReview, ReviewAt
    <3> QED
      BY <2>2, <3>1, DecidesOne
  <2> QED
    BY <1>1, <2>1, <2>2, NotOk
<1>3. CASE \E u \in TaskId : Creating(u)
  BY <1>3 DEF Creating, AddTask, ReviewInv, ReviewTypes, DecisionsStay
<1>4. CASE UNCHANGED vars
  BY <1>1, <1>4 DEF vars, storeVars
<1> QED
  BY <1>1, <1>2, <1>3, <1>4, OthersKeepReviews

\* Only a review takes a task out of a list.
LEMMA OnlyTakenOutLeave ==
  ASSUME ReviewInv, [Next]_vars, ~HasSecondary, NEW list \in ListState,
         \A t \in list.settled : Decided(t)
  PROVE  LET M == matching(list.tenant, list.status)
         IN  /\ M \subseteq companyTasks(list.tenant)
             /\ takenOut(list) \subseteq companyTasks(list.tenant)
             /\ takenOut(list) \subseteq takenOut(list)'
             /\ M \ M' \subseteq takenOut(list)' \ takenOut(list)
             /\ \A t \in list.settled : Decided(t)'
<1> DEFINE c == list.tenant
           status == list.status
<1>1. /\ matching(c, status) = {t \in TaskId : /\ ofCompany(tasks[t], c)
                                               /\ status # Null => tasks[t].status = status}
      /\ matching(c, status)' = {t \in TaskId : /\ ofCompany(tasks'[t], c)
                                                /\ status # Null => tasks'[t].status = status}
  BY DEF matching, visible, primary
<1>2. \A t \in TaskId : tasks[t] # Null =>
        /\ tasks'[t] # Null /\ tasks'[t].companyId = tasks[t].companyId
        /\ tasks[t].status # "PENDING_REVIEW" => tasks'[t] = tasks[t]
  BY TasksKeepTenants, DecisionsAreFinal DEF DecisionsStay
<1>3. list.settled \subseteq TaskId /\ status \in TaskStatus \cup {Null}
  BY DEF ListState
<1>4. \A t \in TaskId : ofCompany(tasks[t], c) => ofCompany(tasks'[t], c)
  BY <1>2 DEF ofCompany
<1>5. \A t \in TaskId : Decided(t) => Decided(t)'
  BY <1>2 DEF Decided
<1>6. takenOut(list) \subseteq takenOut(list)'
  BY <1>4, <1>5 DEF takenOut, companyTasks
<1>7. ASSUME NEW t \in matching(c, status), t \notin matching(c, status)'
      PROVE  t \in takenOut(list)' /\ t \notin takenOut(list)
  <2>1. t \in TaskId /\ tasks[t] # Null /\ tasks'[t] # Null
          /\ ofCompany(tasks[t], c) /\ ofCompany(tasks'[t], c)
    BY <1>1, <1>2, <1>4 DEF ofCompany
  <2>2. status # Null /\ tasks[t].status = status /\ tasks'[t].status # status
    BY <1>1, <1>7, <2>1
  <2>3. status = "PENDING_REVIEW"
    BY <1>2, <2>1, <2>2
  <2>4. ~Decided(t) /\ Decided(t)'
    BY <2>1, <2>2, <2>3 DEF Decided
  <2>5. t \notin list.settled
    BY <2>4
  <2> QED
    BY <2>1, <2>3, <2>4, <2>5 DEF takenOut, companyTasks
<1>8. matching(c, status) \subseteq companyTasks(c)
  BY <1>1 DEF companyTasks
<1>9. takenOut(list) \subseteq companyTasks(c)
  BY DEF takenOut
<1> QED
  BY <1>3, <1>5, <1>6, <1>7, <1>8, <1>9

LEMMA PagingStaysOK ==
  ASSUME CompanyCall = {}, ~HasSecondary,
         ReviewInv, FiniteTasks, SecondaryAgrees, CompaniesOK, Stamped,
         createdAt \in [TaskId -> Time \cup {Null}],
         [Next]_vars, [ListNext]_listVars, Stamped',
         NEW list \in ListState, PagingOK(list)
  PROVE  PagingOK(list)'
<1> SUFFICES ASSUME Begun(list)
             PROVE  PagingOK(list)'
  BY DEF PagingOK, Begun
<1> DEFINE c == list.tenant
           M == matching(c, list.status)
<1>1. /\ list.tenant \in CompanyId
      /\ list.xCompanyApiKey \in HeaderKey
      /\ companies[list.tenant] = trim(list.xCompanyApiKey)
      /\ \A t \in list.settled : Decided(t)
      /\ PagesOK(list, M, takenOut(list), companyTasks(c), createdAt)
  BY DEF PagingOK
<1>2. UNCHANGED companies
  BY CompanySteps
<1>3. /\ M \subseteq companyTasks(c)
      /\ takenOut(list) \subseteq takenOut(list)'
      /\ M \ M' \subseteq takenOut(list)' \ takenOut(list)
      /\ \A t \in list.settled : Decided(t)'
  BY <1>1, OnlyTakenOutLeave
<1>4. companyTasks(c) \subseteq companyTasks(c)'
  BY OwnedGrows
<1>5. IsFiniteSet(companyTasks(c)')
  <2>1. FiniteTasks'
    BY FiniteTasksStep
  <2>2. companyTasks(c)' \subseteq {t \in TaskId : tasks'[t] # Null}
    BY DEF companyTasks, ofCompany
  <2> QED
    BY <2>1, <2>2, FS_Subset DEF FiniteTasks
<1>6. M' \subseteq companyTasks(c)' /\ takenOut(list)' \subseteq companyTasks(c)'
  BY DEF matching, visible, primary, companyTasks, takenOut
<1>7. \A t \in companyTasks(c)' : createdAt'[t] \in Nat
  BY ListAssumption DEF Stamped, companyTasks, ofCompany
<1>8. \A t \in companyTasks(c) : createdAt'[t] = createdAt[t]
  BY StampsStay DEF companyTasks, ofCompany
<1> HIDE DEF M
<1>9. PagesOK(list, M', takenOut(list)', companyTasks(c)', createdAt')
  BY <1>1, <1>3, <1>4, <1>5, <1>6, <1>7, <1>8, PagesStayOK
<1> QED
  BY <1>1, <1>2, <1>3, <1>9 DEF PagingOK, M

\* One list changes: the others are where they were.
LEMMA OnePagingChanges ==
  ASSUME ListInv, PagingInv, UNCHANGED <<vars, createdAt>>, NEW l \in List, NEW new \in ListState,
         lists' = [lists EXCEPT ![l] = new], PagingOK(new)
  PROVE  PagingInv'
<1>1. /\ \A c, status : matching(c, status)' = matching(c, status)
      /\ \A c : companyTasks(c)' = companyTasks(c)
      /\ \A t : Decided(t)' = Decided(t)
      /\ UNCHANGED <<companies, createdAt>>
  BY DEF vars, storeVars, companyTasks, matching, visible, primary, Decided
<1>2. ASSUME NEW list
      PROVE  takenOut(list)' = takenOut(list)
  BY <1>1 DEF takenOut
<1>3. ASSUME NEW list, PagingOK(list)
      PROVE  PagingOK(list)'
  BY <1>1, <1>2, <1>3 DEF PagingOK, Begun
<1>4. ASSUME NEW k \in List
      PROVE  PagingOK(lists[k])'
  <2>1. PICK list : PagingOK(list) /\ lists'[k] = list
    BY DEF ListInv, PagingInv
  <2>2. PagingOK(list)'
    BY <1>3, <2>1
  <2> QED
    BY <2>1, <2>2 DEF PagingOK, Begun, takenOut
<1> QED
  BY <1>4 DEF PagingInv

\* A request that is refused or thrown out of ends the paging.
LEMMA RefusedPaging ==
  ASSUME ListInv, PagingInv, UNCHANGED <<vars, createdAt>>, NEW l \in List,
         NEW answer \in ReviewOutcome \ {"ok"}, ListAnswer(l, answer)
  PROVE  PagingInv'
<1> DEFINE old == lists[l]
           new == [old EXCEPT !.pc = "answered", !.answer = answer]
<1>1. old \in ListState
  BY DEF ListInv
<1>2. lists' = [lists EXCEPT ![l] = new]
  BY DEF ListInv, ListAnswer
<1>3. new \in ListState
  BY <1>1 DEF ListState
<1>4. new.pc = "answered" /\ new.answer = answer
  BY <1>1 DEF ListState
<1> HIDE DEF new, old
<1>5. PagingOK(new)
  BY <1>4 DEF PagingOK, Begun
<1> QED
  BY <1>2, <1>3, <1>5, OnePagingChanges

LEMMA ReceiveListPages ==
  ASSUME ListInv, PagingInv, UNCHANGED <<vars, createdAt>>, NEW l \in List, ReceiveList(l)
  PROVE  PagingInv'
<1>1. PICK key \in HeaderKey \cup {Null}, status \in TaskStatus \cup {Null}, n \in Limit :
        lists' = [lists EXCEPT ![l].pc = "guard", ![l].xCompanyApiKey = key,
                               ![l].status = status, ![l].limit = n]
  BY DEF ReceiveList
<1> DEFINE old == lists[l]
           new == [old EXCEPT !.pc = "guard", !.xCompanyApiKey = key,
                              !.status = status, !.limit = n]
<1>2. old \in ListState /\ old.page = 1 /\ old.answer = Null
  BY DEF ListInv, CallOK, PagingInv, PagingOK, ReceiveList, ListAt
<1>3. lists' = [lists EXCEPT ![l] = new]
  BY <1>1 DEF ListInv
<1>4. new \in ListState
  BY <1>2, ListAssumption DEF ListState
<1>5. new.pc = "guard" /\ new.page = 1 /\ new.answer = Null
  BY <1>2 DEF ListState
<1> HIDE DEF new, old
<1>6. PagingOK(new)
  BY <1>5, ReviewAssumption DEF PagingOK, Begun, ReviewOutcome
<1> QED
  BY <1>3, <1>4, <1>6, OnePagingChanges

\* The next page goes on where the last one ended.
LEMMA NextPagePages ==
  ASSUME ListInv, PagingInv, UNCHANGED <<vars, createdAt>>, NEW l \in List, NextPage(l)
  PROVE  PagingInv'
<1> DEFINE old == lists[l]
           new == [old EXCEPT !.pc = "guard", !.page = @ + 1, !.items = {}, !.total = 0,
                              !.answer = Null]
<1>1. old \in ListState /\ PagingOK(old) /\ old.answer = "ok" /\ old.pc = "answered"
  BY DEF ListInv, PagingInv, NextPage, ListAt
<1>2. lists' = [lists EXCEPT ![l] = new]
  BY DEF ListInv, NextPage
<1>3. old.page \in Nat \ {0} /\ old.page + 1 \in Nat \ {0} /\ old.page + 1 - 1 = old.page
  BY <1>1 DEF ListState
<1>4. new \in ListState
  BY <1>1, <1>3 DEF ListState
<1>5. /\ new.pc = "guard" /\ new.items = {} /\ new.answer = Null /\ new.page = old.page + 1
      /\ new.limit = old.limit /\ new.tenant = old.tenant /\ new.status = old.status
      /\ new.before = old.before /\ new.settled = old.settled /\ new.seen = old.seen
      /\ new.xCompanyApiKey = old.xCompanyApiKey
  BY <1>1 DEF ListState
<1> HIDE DEF new, old
<1>6. through(new) = through(old) /\ ~Found(new)
  BY <1>1, <1>3, <1>5, ReviewAssumption DEF through, Found, before, ReviewOutcome
<1>7. takenOut(new) = takenOut(old)
  BY <1>5 DEF takenOut
<1>8. \A T : old.items \subseteq old.seen => owing(new, T) = owing(old, T)
  BY <1>5 DEF owing
<1>9. \A M, T, own, at : PagesOK(old, M, T, own, at) => PagesOK(new, M, T, own, at)
  BY <1>1, <1>5, <1>6, <1>8, ReviewAssumption DEF PagesOK, ReviewOutcome
<1>10. PagingOK(new)
  BY <1>1, <1>5, <1>7, <1>9 DEF PagingOK, Begun
<1> QED
  BY <1>2, <1>4, <1>10, OnePagingChanges

\* Of the first page nothing has been taken out yet; every later page is of the
\* same company, because nobody else has its key.
LEMMA GuardListPages ==
  ASSUME KeysAsSeeded, ~HasSecondary, FiniteTasks, Stamped,
         ListInv, PagingInv, UNCHANGED <<vars, createdAt>>, NEW l \in List, GuardList(l)
  PROVE  PagingInv'
<1> DEFINE old == lists[l]
<1>1. old \in ListState /\ CallOK(old) /\ PagingOK(old) /\ old.pc = "guard"
        /\ old.items = {} /\ old.answer = Null
  BY DEF ListInv, PagingInv, CallOK, GuardList, ListAt
<1>2. CASE \E answer \in ReviewOutcome \ {"ok"} : ListAnswer(l, answer)
  BY <1>2, RefusedPaging
<1>3. CASE ~ \E answer \in ReviewOutcome \ {"ok"} : ListAnswer(l, answer)
  <2>1. ~ListAnswer(l, "bad_request") /\ ~ListAnswer(l, "company_not_found")
          /\ ~ListAnswer(l, "error")
    BY <1>3 DEF ReviewOutcome
  <2>2. ~BlankKey(old.xCompanyApiKey)
    BY <2>1 DEF GuardList
  <2>3. PICK c \in findByApiKey(trim(old.xCompanyApiKey)) :
          lists' = [lists EXCEPT ![l].pc = "queries",
                                 ![l].tenant = c,
                                 ![l].pending = {"find", "count"},
                                 ![l].atStart = matching(c, old.status),
                                 ![l].before = IF old.page = 1
                                               THEN matching(c, old.status) ELSE @,
                                 ![l].settled = IF old.page = 1
                                                THEN {t \in TaskId : Decided(t)} ELSE @]
    BY <2>1, <2>2 DEF GuardList
  <2>4. c \in CompanyId /\ companies[c] = trim(old.xCompanyApiKey)
          /\ old.xCompanyApiKey \in HeaderKey
    BY <1>1, <2>2, <2>3 DEF findByApiKey, visible, primary, BlankKey, ListState
  <2> DEFINE M == matching(c, old.status)
             new == [old EXCEPT !.pc = "queries",
                                !.tenant = c,
                                !.pending = {"find", "count"},
                                !.atStart = M,
                                !.before = IF old.page = 1 THEN M ELSE @,
                                !.settled = IF old.page = 1
                                            THEN {t \in TaskId : Decided(t)} ELSE @]
  <2>5. lists' = [lists EXCEPT ![l] = new]
    BY <2>3 DEF ListInv
  <2>6. M \subseteq TaskId /\ M \subseteq companyTasks(c)
    BY DEF matching, visible, primary, companyTasks
  <2> HIDE DEF M
  <2>7. new \in ListState
    <3> DEFINE b == IF old.page = 1 THEN M ELSE old.before
               d == IF old.page = 1 THEN {t \in TaskId : Decided(t)} ELSE old.settled
    <3>1. b \in SUBSET TaskId /\ d \in SUBSET TaskId
      BY <1>1, <2>6 DEF ListState
    <3>2. c \in CompanyId \cup {Null} /\ M \in SUBSET TaskId
      BY <2>4, <2>6
    <3>3. new = [old EXCEPT !.pc = "queries", !.tenant = c, !.pending = {"find", "count"},
                            !.atStart = M, !.before = b, !.settled = d]
      OBVIOUS
    <3> HIDE DEF b, d, new, old
    <3> QED
      BY <1>1, <3>1, <3>2, <3>3 DEF ListState
  <2>8. /\ new.pc = "queries" /\ new.tenant = c /\ new.pending = {"find", "count"}
        /\ new.items = old.items /\ new.answer = old.answer /\ new.status = old.status
        /\ new.xCompanyApiKey = old.xCompanyApiKey /\ new.page = old.page
        /\ new.limit = old.limit /\ new.seen = old.seen
        /\ new.before = (IF old.page = 1 THEN M ELSE old.before)
        /\ new.settled = (IF old.page = 1 THEN {t \in TaskId : Decided(t)} ELSE old.settled)
    BY <1>1 DEF ListState
  <2> HIDE DEF new, old
  <2>9. through(new) = before(new) /\ ~Found(new) /\ before(new) = before(old)
    BY <1>1, <2>8, ReviewAssumption DEF through, Found, before, ReviewOutcome
  <2>10. CASE old.page = 1
    <3>1. before(new) = 0
      <4>1. old.limit \in Nat /\ (1 - 1) * old.limit = 0
        BY <1>1 DEF ListState
      <4> QED
        BY <2>8, <2>10, <4>1 DEF before
    <3>2. \A t \in TaskId : Decided(t) => t \in new.settled
      BY <2>8, <2>10
    <3>3. takenOut(new) = {}
      BY <3>2 DEF takenOut, companyTasks
    <3>4. ASSUME \A t, u \in companyTasks(c) : createdAt[t] = createdAt[u] => t = u
          PROVE  first(0, M, createdAt) = {}
      <4>1. IsFiniteSet(M)
        <5>1. M \subseteq {t \in TaskId : tasks[t] # Null}
          BY <2>6 DEF companyTasks, ofCompany
        <5> QED
          BY <5>1, FS_Subset DEF FiniteTasks
      <4>2. \A t \in M : createdAt[t] \in Nat
        BY <2>6, ListAssumption DEF Stamped, companyTasks, ofCompany
      <4>3. Ordered(M, createdAt)
        BY <2>6, <3>4, <4>1, <4>2 DEF Ordered
      <4>4. \A x \in M : Cardinality(downTo(x, M, createdAt)) \in Nat \ {0}
        BY <4>3, Places
      <4> QED
        BY <4>4 DEF first
    <3>5. Cardinality({}) = 0
      BY FS_EmptySet
    <3>6. \A T : owing(new, T) \cap {} = {}
      OBVIOUS
    <3>7. PagesOK(new, M, takenOut(new), companyTasks(c), createdAt)
      BY <1>1, <2>8, <2>9, <2>10, <3>1, <3>3, <3>4, <3>5, <3>6, ReviewAssumption
      DEF PagesOK, ReviewOutcome
    <3>8. \A t \in new.settled : Decided(t)
      BY <2>8, <2>10
    <3>9. PagingOK(new)
      BY <2>4, <2>8, <3>7, <3>8 DEF PagingOK, M
    <3> QED
      BY <2>5, <2>7, <3>9, OnePagingChanges
  <2>11. CASE old.page # 1
    <3>1. Begun(old)
      <4>1. old.page \in Nat \ {0}
        BY <1>1 DEF ListState
      <4> QED
        BY <1>1, <2>11, <4>1 DEF Begun
    <3>2. old.tenant = c
      <4>1. trim(old.xCompanyApiKey) # Null
        BY <2>4, ReviewAssumption
      <4>2. old.tenant \in CompanyId /\ companies[old.tenant] = companies[c]
              /\ companies[c] # Null
        BY <1>1, <2>4, <3>1, <4>1 DEF PagingOK
      <4>3. c \in DOMAIN Seeded /\ old.tenant \in DOMAIN Seeded
              /\ Seeded[c] = Seeded[old.tenant]
        BY <2>4, <4>2 DEF KeysAsSeeded
      <4> QED
        BY <4>3, SeedAssumption
    <3>3. new.before = old.before /\ new.settled = old.settled
      BY <2>8, <2>11
    <3>4. takenOut(new) = takenOut(old)
      BY <2>8, <3>2, <3>3 DEF takenOut
    <3>5. \A T : owing(new, T) = owing(old, T)
      BY <2>8, <3>3 DEF owing
    <3>6. ~Found(old) /\ through(old) = before(old)
      BY <1>1, ReviewAssumption DEF through, Found, ReviewOutcome
    <3>7. PagesOK(new, M, takenOut(new), companyTasks(c), createdAt)
      <4>1. PagesOK(old, M, takenOut(old), companyTasks(c), createdAt)
        BY <1>1, <3>1, <3>2 DEF PagingOK, M
      <4> QED
        BY <1>1, <2>8, <2>9, <3>3, <3>4, <3>5, <3>6, <4>1, ReviewAssumption
        DEF PagesOK, ReviewOutcome
    <3>8. PagingOK(new)
      BY <1>1, <2>4, <2>8, <3>1, <3>3, <3>7 DEF PagingOK, M
    <3> QED
      BY <2>5, <2>7, <3>8, OnePagingChanges
  <2> QED
    BY <2>10, <2>11
<1> QED
  BY <1>2, <1>3

\* The result of a query arrives: the page it brings is shown.
LEMMA ArrivedPages ==
  ASSUME ListInv, PagingInv, UNCHANGED <<vars, createdAt>>, NEW l \in List,
         NEW query \in {"find", "count"}, NEW with \in ListState,
         with.pc = "queries", with.answer = Null, query \in with.pending,
         lists' = [lists EXCEPT ![l] = Arrived(with, query)],
         with.tenant \in CompanyId,
         with.xCompanyApiKey \in HeaderKey,
         companies[with.tenant] = trim(with.xCompanyApiKey),
         \A t \in with.settled : Decided(t),
         query = "count" /\ "find" \in with.pending => with.items = {},
         PagesOK([with EXCEPT !.pending = @ \ {query}], matching(with.tenant, with.status),
                 takenOut(with), companyTasks(with.tenant), createdAt)
  PROVE  PagingInv'
<1> DEFINE last == [with EXCEPT !.pending = {}, !.pc = "answered", !.answer = "ok",
                                !.seen = @ \cup with.items]
           rest == [with EXCEPT !.pending = @ \ {query}]
<1>1. rest \in ListState
  BY DEF ListState
<1>2. /\ rest.pc = "queries" /\ rest.answer = Null /\ rest.pending = with.pending \ {query}
      /\ rest.xCompanyApiKey = with.xCompanyApiKey /\ rest.tenant = with.tenant
      /\ rest.status = with.status /\ rest.settled = with.settled
      /\ rest.before = with.before /\ rest.items = with.items /\ rest.seen = with.seen
      /\ rest.page = with.page /\ rest.limit = with.limit
  BY DEF ListState
<1>3. takenOut(rest) = takenOut(with)
  BY <1>2 DEF takenOut
<1>4. CASE with.pending = {query}
  <2>1. lists' = [lists EXCEPT ![l] = last]
    BY <1>4 DEF Arrived
  <2>2. last \in ListState
    BY DEF ListState, ReviewOutcome
  <2>3. /\ last.pc = "answered" /\ last.answer = "ok" /\ last.pending = {}
        /\ last.xCompanyApiKey = with.xCompanyApiKey /\ last.tenant = with.tenant
        /\ last.status = with.status /\ last.settled = with.settled
        /\ last.before = with.before /\ last.items = with.items
        /\ last.seen = with.seen \cup with.items
        /\ last.page = with.page /\ last.limit = with.limit
    BY DEF ListState
  <2> HIDE DEF last, rest
  <2>4. takenOut(last) = takenOut(with)
    BY <2>3 DEF takenOut
  <2>5. \A T : owing(last, T) = owing(rest, T)
    BY <1>2, <2>3 DEF owing
  <2>6. Found(last) /\ Found(rest) /\ through(last) = through(rest)
    BY <1>2, <1>4, <2>3 DEF Found, through
  <2>7. PagesOK(last, matching(with.tenant, with.status), takenOut(with),
                companyTasks(with.tenant), createdAt)
    BY <1>2, <2>3, <2>5, <2>6 DEF PagesOK, rest
  <2>8. PagingOK(last)
    BY <2>3, <2>4, <2>7 DEF PagingOK
  <2> QED
    BY <2>1, <2>2, <2>8, OnePagingChanges
<1>5. CASE with.pending # {query}
  <2>1. lists' = [lists EXCEPT ![l] = rest]
    BY <1>5 DEF Arrived
  <2>2. PagesOK(rest, matching(with.tenant, with.status), takenOut(with),
                companyTasks(with.tenant), createdAt)
    OBVIOUS
  <2> HIDE DEF rest
  <2>3. PagingOK(rest)
    BY <1>2, <1>3, <2>2 DEF PagingOK
  <2> QED
    BY <1>1, <2>1, <2>3, OnePagingChanges
<1> QED
  BY <1>4, <1>5

\* What is found is what the pages before it have not gone through.
LEMMA FindPagePages ==
  ASSUME ~HasSecondary, FiniteTasks, Stamped,
         ListInv, PagingInv, UNCHANGED <<vars, createdAt>>, NEW l \in List, FindPage(l)
  PROVE  PagingInv'
<1> DEFINE old == lists[l]
           c == old.tenant
           M == matching(c, old.status)
           T == takenOut(old)
           own == companyTasks(c)
<1>1. /\ old \in ListState /\ CallOK(old) /\ PagingOK(old) /\ Begun(old)
      /\ old.pc = "queries" /\ "find" \in old.pending /\ old.answer = Null
  BY DEF ListInv, PagingInv, CallOK, FindPage, Pending, ListAt, Begun
<1>2. CASE ListAnswer(l, "error")
  BY <1>2, RefusedPaging DEF ReviewOutcome
<1>3. CASE ~ListAnswer(l, "error")
  <2>1. PICK s \in newestFirst(M) :
          lists' = [lists EXCEPT ![l] =
                      Arrived([old EXCEPT !.items = pageOf(s, old.page, old.limit)], "find")]
    BY <1>3 DEF FindPage
  <2> DEFINE page == pageOf(s, old.page, old.limit)
             with == [old EXCEPT !.items = page]
             rest == [with EXCEPT !.pending = @ \ {"find"}]
             skip == before(old)
  <2>2. M \subseteq own /\ M \subseteq TaskId
    BY DEF matching, visible, primary, companyTasks
  <2>3. PagesOK(old, M, T, own, createdAt)
    BY <1>1 DEF PagingOK
  <2>4. IsFiniteSet(own)
    <3>1. own \subseteq {t \in TaskId : tasks[t] # Null}
      BY DEF companyTasks, ofCompany
    <3> QED
      BY <3>1, FS_Subset DEF FiniteTasks
  <2>5. IsFiniteSet(M)
    BY <2>2, <2>4, FS_Subset
  <2>6. \A t \in own : createdAt[t] \in Nat
    BY ListAssumption DEF Stamped, companyTasks, ofCompany
  <2>7. old.page \in Nat \ {0} /\ old.limit \in Nat \ {0}
    BY <1>1 DEF ListState
  <2>8. page \subseteq M
    BY <2>1, <2>5, <2>7, PageSize
  <2>9. ASSUME \A t, u \in own : createdAt[t] = createdAt[u] => t = u
        PROVE  /\ page = first(old.page * old.limit, M, createdAt) \ first(skip, M, createdAt)
               /\ page = {} => first(skip, M, createdAt) = M
    <3> HIDE DEF M, own
    <3>1. Ordered(M, createdAt)
      BY <2>2, <2>5, <2>6, <2>9 DEF Ordered
    <3> HIDE DEF old, page, skip
    <3>2. skip = (old.page - 1) * old.limit
      BY DEF skip, before
    <3>3. ASSUME NEW p \in Nat \ {0}, NEW n \in Nat \ {0}
          PROVE  /\ pageOf(s, p, n) = first(p * n, M, createdAt)
                                        \ first((p - 1) * n, M, createdAt)
                 /\ pageOf(s, p, n) = {} => first((p - 1) * n, M, createdAt) = M
      BY <2>1, <3>1, PageIsSlice
    <3> QED
      BY <2>7, <3>2, <3>3 DEF page
  <2> HIDE DEF M, own, T, page, skip
  <2>10. with \in ListState
    BY <1>1, <2>2, <2>8 DEF ListState
  <2>11. /\ with.pc = "queries" /\ with.pending = old.pending /\ with.answer = Null
         /\ with.xCompanyApiKey = old.xCompanyApiKey /\ with.tenant = old.tenant
         /\ with.status = old.status /\ with.settled = old.settled
    BY <1>1 DEF ListState
  <2>12. /\ rest.pc = "queries" /\ rest.answer = Null /\ "find" \notin rest.pending
         /\ rest.items = page /\ rest.seen = old.seen /\ rest.before = old.before
         /\ rest.page = old.page /\ rest.limit = old.limit
    BY <1>1 DEF ListState
  <2>13. lists' = [lists EXCEPT ![l] = Arrived(with, "find")]
    BY <2>1 DEF page
  <2> HIDE DEF with, rest, old
  <2>14. Found(rest) /\ through(rest) = old.page * old.limit
    BY <2>12 DEF Found, through
  <2>15. ~Found(old) /\ through(old) = skip
    BY <1>1, ReviewAssumption DEF Found, through, ReviewOutcome, skip
  <2>16. old.items = {} /\ old.before \ T \subseteq M
    BY <1>1, <2>3 DEF PagesOK
  <2>17. ASSUME \A t, u \in own : createdAt[t] = createdAt[u] => t = u
         PROVE  /\ Cardinality(owing(rest, T) \cap first(through(rest), M, createdAt))
                     <= Cardinality(T)
                /\ Found(rest) /\ rest.items = {}
                   => Cardinality(owing(rest, T)) <= Cardinality(T)
    <3>1. Cardinality(owing(old, T) \cap first(skip, M, createdAt)) <= Cardinality(T)
      BY <2>3, <2>15, <2>17 DEF PagesOK
    <3>2. owing(rest, T) = owing(old, T) \ page
      BY <2>12, <2>16 DEF owing
    <3>3. owing(rest, T) \cap first(through(rest), M, createdAt)
            \subseteq owing(old, T) \cap first(skip, M, createdAt)
      BY <2>9, <2>14, <2>17, <3>2
    <3>4. owing(old, T) \subseteq M /\ IsFiniteSet(owing(old, T) \cap first(skip, M, createdAt))
      <4>1. owing(old, T) \subseteq M
        BY <2>16 DEF owing
      <4> QED
        BY <2>5, <4>1, FS_Subset
    <3>5. Cardinality(owing(rest, T) \cap first(through(rest), M, createdAt))
            <= Cardinality(owing(old, T) \cap first(skip, M, createdAt))
          /\ IsFiniteSet(owing(rest, T) \cap first(through(rest), M, createdAt))
      BY <3>3, <3>4, FS_Subset
    <3>6. IsFiniteSet(T)
      BY <2>4, FS_Subset DEF T, own, takenOut
    <3>7. /\ Cardinality(owing(rest, T) \cap first(through(rest), M, createdAt)) \in Nat
          /\ Cardinality(owing(old, T) \cap first(skip, M, createdAt)) \in Nat
          /\ Cardinality(T) \in Nat
      BY <3>4, <3>5, <3>6, FS_CardinalityType
    <3>8. Cardinality(owing(rest, T) \cap first(through(rest), M, createdAt)) <= Cardinality(T)
      BY <3>1, <3>5, <3>7
    <3>9. ASSUME rest.items = {}
          PROVE  Cardinality(owing(rest, T)) <= Cardinality(T)
      <4>1. owing(rest, T) = owing(old, T) \cap first(skip, M, createdAt)
        BY <2>9, <2>12, <2>17, <3>2, <3>4, <3>9
      <4> QED
        BY <3>1, <4>1
    <3> QED
      BY <3>8, <3>9
  <2>18. PagesOK(rest, M, T, own, createdAt)
    BY <2>12, <2>16, <2>17, ReviewAssumption DEF PagesOK, ReviewOutcome
  <2>19. takenOut(with) = T
    BY <2>11 DEF takenOut, T
  <2>20. PagesOK([with EXCEPT !.pending = @ \ {"find"}], matching(with.tenant, with.status),
                 takenOut(with), companyTasks(with.tenant), createdAt)
    BY <2>11, <2>18, <2>19 DEF rest, M, own
  <2>21. /\ old.tenant \in CompanyId
         /\ old.xCompanyApiKey \in HeaderKey
         /\ companies[old.tenant] = trim(old.xCompanyApiKey)
         /\ \A t \in old.settled : Decided(t)
    BY <1>1 DEF PagingOK
  <2> QED
    BY <1>1, <2>10, <2>11, <2>13, <2>20, <2>21, ArrivedPages
<1> QED
  BY <1>2, <1>3

LEMMA CountTasksPages ==
  ASSUME FiniteTasks, SecondaryAgrees, ListInv, PagingInv, UNCHANGED <<vars, createdAt>>,
         NEW l \in List, CountTasks(l)
  PROVE  PagingInv'
<1> DEFINE old == lists[l]
           n == Cardinality(matching(old.tenant, old.status))
           with == [old EXCEPT !.total = n]
           rest == [with EXCEPT !.pending = @ \ {"count"}]
<1>1. /\ old \in ListState /\ CallOK(old) /\ PagingOK(old) /\ Begun(old)
      /\ old.pc = "queries" /\ "count" \in old.pending /\ old.answer = Null
  BY DEF ListInv, PagingInv, CallOK, CountTasks, Pending, ListAt, Begun
<1>2. CASE ListAnswer(l, "error")
  BY <1>2, RefusedPaging DEF ReviewOutcome
<1>3. CASE ~ListAnswer(l, "error")
  <2>1. lists' = [lists EXCEPT ![l] = Arrived(with, "count")]
    BY <1>3 DEF CountTasks
  <2>2. n \in Nat
    <3>1. matching(old.tenant, old.status) \subseteq owned(old.tenant)
      BY DEF matching, owned
    <3>2. IsFiniteSet(owned(old.tenant))
      BY OwnedAreTheirs
    <3> QED
      BY <3>1, <3>2, FS_Subset, FS_CardinalityType
  <2> HIDE DEF n
  <2>3. with \in ListState
    BY <1>1, <2>2 DEF ListState
  <2>4. /\ with.pc = "queries" /\ with.pending = old.pending /\ with.answer = Null
        /\ with.xCompanyApiKey = old.xCompanyApiKey /\ with.tenant = old.tenant
        /\ with.status = old.status /\ with.settled = old.settled /\ with.items = old.items
    BY <1>1 DEF ListState
  <2>5. /\ rest.pc = "queries" /\ rest.answer = Null /\ rest.pending = old.pending \ {"count"}
        /\ rest.items = old.items /\ rest.seen = old.seen /\ rest.before = old.before
        /\ rest.page = old.page /\ rest.limit = old.limit
    BY <1>1 DEF ListState
  <2> HIDE DEF with, rest, old
  <2>6. (Found(rest) <=> Found(old)) /\ through(rest) = through(old)
    BY <1>1, <2>5 DEF Found, through, before
  <2>7. \A T : owing(rest, T) = owing(old, T)
    BY <2>5 DEF owing
  <2>8. takenOut(with) = takenOut(old)
    BY <2>4 DEF takenOut
  <2>9. PagesOK(old, matching(old.tenant, old.status), takenOut(old),
                companyTasks(old.tenant), createdAt)
    BY <1>1 DEF PagingOK
  <2>10. PagesOK(rest, matching(old.tenant, old.status), takenOut(old),
                 companyTasks(old.tenant), createdAt)
    BY <1>1, <2>5, <2>6, <2>7, <2>9 DEF PagesOK
  <2>11. PagesOK([with EXCEPT !.pending = @ \ {"count"}], matching(with.tenant, with.status),
                 takenOut(with), companyTasks(with.tenant), createdAt)
    BY <2>4, <2>8, <2>10 DEF rest
  <2>12. /\ old.tenant \in CompanyId
         /\ old.xCompanyApiKey \in HeaderKey
         /\ companies[old.tenant] = trim(old.xCompanyApiKey)
         /\ \A t \in old.settled : Decided(t)
    BY <1>1 DEF PagingOK
  <2>13. "find" \in with.pending => with.items = {}
    BY <1>1, <2>4, <2>9 DEF PagesOK
  <2> QED
    BY <1>1, <2>1, <2>3, <2>4, <2>11, <2>12, <2>13, ArrivedPages
<1> QED
  BY <1>2, <1>3

LEMMA StampedStep ==
  ASSUME Stamped, [ListNext]_listVars, ReviewInv, [Next]_vars
  PROVE  Stamped'
<1>1. CASE UNCHANGED <<vars, createdAt>>
  BY <1>1 DEF vars, storeVars, Stamped
<1>2. CASE Stamp
  <2>1. PICK at \in Time :
          createdAt' = [t \in TaskId |-> IF tasks[t] = Null /\ tasks'[t] # Null
                                        THEN at ELSE createdAt[t]]
    BY <1>2 DEF Stamp
  <2> QED
    BY <2>1 DEF Stamped
<1> QED
  BY <1>1, <1>2 DEF ListNext, Other, Listing, listVars

LEMMA PagingStep ==
  ASSUME CompanyCall = {}, ~HasSecondary, KeysAsSeeded,
         ReviewInv, FiniteTasks, SecondaryAgrees, CompaniesOK, Stamped,
         createdAt \in [TaskId -> Time \cup {Null}],
         ListInv, PagingInv, [ListNext]_listVars
  PROVE  PagingInv'
<1>1. [Next]_vars
  BY DEF ListNext, Other, Listing, listVars
<1>2. CASE UNCHANGED lists
  <2>1. Stamped'
    BY <1>1, StampedStep
  <2>2. \A list \in ListState : PagingOK(list) => PagingOK(list)'
    BY <1>1, <2>1, PagingStaysOK
  <2>3. ASSUME NEW l \in List
        PROVE  PagingOK(lists[l])'
    <3>1. PICK list \in ListState : PagingOK(list) /\ lists[l] = list /\ lists'[l] = list
      BY <1>2 DEF ListInv, PagingInv
    <3>2. PagingOK(list)'
      BY <2>2, <3>1
    <3> QED
      BY <3>1, <3>2 DEF PagingOK, Begun, takenOut
  <2> QED
    BY <2>3 DEF PagingInv
<1>3. CASE \E l \in List : Listing(l)
  <2>1. PICK l \in List : Listing(l)
    BY <1>3
  <2> QED
    BY <2>1, ReceiveListPages, NextPagePages, GuardListPages, FindPagePages, CountTasksPages
    DEF Listing
<1> QED
  BY <1>2, <1>3 DEF ListNext, Other, listVars

\* Where reads are not stale and no key changes hands, and no two tasks of the
\* company have one timestamp: a client that pages to the end is shown every
\* task that was there when it began, but for one at most for each that a review
\* took out of its filter meanwhile; for any limit, any number of pages and
\* tasks, and wherever the new ones are put in.
THEOREM PagingMissesFew ==
  ASSUME CompanyCall = {}, ~HasSecondary
  PROVE  ListSpec => []PagingMissesOnePerReview
<1> DEFINE Stamps == createdAt \in [TaskId -> Time \cup {Null}]
           Inv == KeysAsSeeded /\ Stamped /\ PagingInv
           Base == ListInv /\ ReviewInv /\ FiniteTasks /\ SecondaryAgrees /\ CompaniesOK
<1>1. ListSpec => []CompaniesOK
  BY ListsRunTheApi, CompanyInvHolds, PTL
<1>2. ListSpec => []Base
  BY <1>1, ListsHold, PTL
<1>3. ListInit => Stamps /\ Inv
  <2> SUFFICES ASSUME ListInit
               PROVE  Stamps /\ Inv
    OBVIOUS
  <2>1. Stamps /\ KeysAsSeeded /\ Stamped
    BY DEF ListInit, Init, KeysAsSeeded, Stamped
  <2>2. ASSUME NEW l \in List
        PROVE  PagingOK(lists[l])
    <3>1. lists[l].pc = "unsent" /\ lists[l].page = 1 /\ lists[l].answer = Null
      BY DEF ListInit
    <3> QED
      BY <3>1, ReviewAssumption DEF PagingOK, Begun, ReviewOutcome
  <2> QED
    BY <2>1, <2>2 DEF PagingInv
<1>4. Base /\ Stamps /\ Inv /\ [ListNext]_listVars => Stamps' /\ Inv'
  <2> SUFFICES ASSUME Base, Stamps, Inv, [ListNext]_listVars
               PROVE  Stamps' /\ Inv'
    OBVIOUS
  <2>1. [Next]_vars
    BY DEF ListNext, Other, Listing, listVars
  <2>2. Stamps'
    BY StampsStay
  <2>3. KeysAsSeeded'
    <3>1. UNCHANGED companies
      BY <2>1, CompanySteps
    <3> QED
      BY <3>1 DEF KeysAsSeeded
  <2>4. Stamped'
    BY <2>1, StampedStep
  <2>5. PagingInv'
    BY PagingStep
  <2> QED
    BY <2>2, <2>3, <2>4, <2>5
<1>5. Base /\ Inv => PagingMissesOnePerReview
  <2> SUFFICES ASSUME Base, Inv, NEW l \in List,
                      lists[l].answer = "ok", lists[l].items = {},
                      \A t, u \in companyTasks(lists[l].tenant) :
                        createdAt[t] = createdAt[u] => t = u
               PROVE  Cardinality((lists[l].before \ takenOut(lists[l])) \ lists[l].seen)
                        <= Cardinality(takenOut(lists[l]))
    BY DEF PagingMissesOnePerReview
  <2> DEFINE list == lists[l]
  <2>1. Begun(list) /\ Found(list) /\ PagingOK(list)
    BY DEF Begun, Found, PagingInv
  <2>2. Cardinality(owing(list, takenOut(list))) <= Cardinality(takenOut(list))
    BY <2>1 DEF PagingOK, PagesOK
  <2>3. owing(list, takenOut(list)) = (list.before \ takenOut(list)) \ list.seen
    BY DEF owing
  <2> QED
    BY <2>2, <2>3
<1> HIDE DEF Base, Stamps, Inv
<1> QED
  BY <1>2, <1>3, <1>4, <1>5, PTL DEF ListSpec

===============================================================================
