------------------------------- MODULE TaskList -------------------------------
(***************************************************************************)
(* GET /tasks: TenantContextGuard, then TaskService.listTasks, beside the  *)
(* rest of the tenant-facing API.                                          *)
(*                                                                         *)
(* A client asks for page after page with the same header, status and      *)
(* limit until a page is empty.  Each request finds the page and counts    *)
(* the total with two queries in parallel (Promise.all), so tasks appear   *)
(* and are reviewed between pages and between the two queries of a page.   *)
(*                                                                         *)
(* createdAt: when each task was created, as the timestamp stored in it.   *)
(*            The process that inserts sets it before the insert, so a     *)
(*            task may appear later than one with a higher timestamp.      *)
(***************************************************************************)
EXTENDS TenantApi, FiniteSets

CONSTANTS List,  \* clients that page through the tasks of their company
          Limit, \* values of limit they ask for
          Time   \* timestamps

VARIABLES lists, createdAt

listVars == <<vars, lists, createdAt>>

ASSUME ListAssumption ==
  /\ Limit \subseteq Nat \ {0}
  /\ Time \subseteq Nat
  /\ Null \notin TaskStatus

\* pending are the queries of Promise.all that have not answered yet.  atStart
\* and before are what could be listed when this request and the first one
\* passed the guard, settled what was decided by then, seen is what the client
\* was shown.
ListState ==
  [pc             : {"unsent", "guard", "queries", "answered"},
   xCompanyApiKey : HeaderKey \cup {Null},
   status         : TaskStatus \cup {Null},
   page           : Nat \ {0},
   limit          : Nat \ {0},
   tenant         : CompanyId \cup {Null},
   pending        : SUBSET {"find", "count"},
   items          : SUBSET TaskId,
   total          : Nat,
   answer         : ReviewOutcome \cup {Null},
   atStart        : SUBSET TaskId,
   before         : SUBSET TaskId,
   settled        : SUBSET TaskId,
   seen           : SUBSET TaskId]

ListInit ==
  /\ Init
  /\ lists = [l \in List |->
                [pc |-> "unsent", xCompanyApiKey |-> Null, status |-> Null,
                 page |-> 1, limit |-> 1, tenant |-> Null, pending |-> {},
                 items |-> {}, total |-> 0, answer |-> Null, atStart |-> {}, before |-> {},
                 settled |-> {}, seen |-> {}]]
  /\ createdAt = [t \in TaskId |-> Null]

-------------------------------------------------------------------------------

ListAt(l, pc) == lists[l].pc = pc

ListAnswer(l, answer) ==
  lists' = [lists EXCEPT ![l].pc = "answered", ![l].answer = answer]

\* The filter of listByCompany; with status Null every task of the company.
matching(c, status) ==
  {t \in TaskId : /\ ofCompany(visible.tasks[t], c)
                  /\ status # Null => visible.tasks[t].status = status}

\* Mutant: page is not validated.
ReceiveListUnvalidated(l) ==
  /\ ListAt(l, "unsent")
  /\ \E key \in HeaderKey, n \in Limit, page \in {0, 1} :
       lists' = [lists EXCEPT ![l].pc = "guard",
                              ![l].xCompanyApiKey = key,
                              ![l].page = page,
                              ![l].limit = n]

\* The first request of a client; validation wants page and limit positive.
ReceiveList(l) ==
  /\ ListAt(l, "unsent")
  /\ \E key \in HeaderKey \cup {Null}, status \in TaskStatus \cup {Null}, n \in Limit :
       lists' = [lists EXCEPT ![l].pc = "guard",
                              ![l].xCompanyApiKey = key,
                              ![l].status = status,
                              ![l].limit = n]

\* The client asks for the next page, unless the last one was empty.
NextPage(l) ==
  /\ ListAt(l, "answered")
  /\ lists[l].answer = "ok"
  /\ lists[l].items # {}
  /\ lists' = [lists EXCEPT ![l].pc = "guard",
                            ![l].page = @ + 1,
                            ![l].items = {},
                            ![l].total = 0,
                            ![l].answer = Null]

\* TenantContextGuard.canActivate, on every page anew.
GuardList(l) ==
  /\ ListAt(l, "guard")
  /\ LET header  == lists[l].xCompanyApiKey
         holders == IF BlankKey(header) THEN {} ELSE findByApiKey(trim(header))
     IN  \/ BlankKey(header) /\ ListAnswer(l, "bad_request")
         \/ ~BlankKey(header) /\ holders = {} /\ ListAnswer(l, "company_not_found")
         \/ \E c \in holders :
              lists' = [lists EXCEPT ![l].pc = "queries",
                                     ![l].tenant = c,
                                     ![l].pending = {"find", "count"},
                                     ![l].atStart = matching(c, lists[l].status),
                                     ![l].before = IF lists[l].page = 1
                                                   THEN matching(c, lists[l].status)
                                                   ELSE @,
                                     ![l].settled = IF lists[l].page = 1
                                                    THEN {t \in TaskId : Decided(t)}
                                                    ELSE @]
         \/ ~BlankKey(header) /\ ListAnswer(l, "error")

\* Promise.all settles with the second of the two results.
Arrived(list, query) ==
  IF list.pending = {query}
  THEN [list EXCEPT !.pending = {}, !.pc = "answered", !.answer = "ok",
                    !.seen = @ \cup list.items]
  ELSE [list EXCEPT !.pending = @ \ {query}]

Pending(l, query) == ListAt(l, "queries") /\ query \in lists[l].pending

\* sort({createdAt: -1}) says nothing of tasks with one timestamp.
newestFirst(S) ==
  {s \in [1..Cardinality(S) -> S] :
     \A i, j \in DOMAIN s :
       i < j => s[i] # s[j] /\ createdAt[s[i]] >= createdAt[s[j]]}

\* Mutant: skip is off by one page.
pageOfLate(s, page, limit) ==
  {s[i] : i \in {i \in DOMAIN s : page * limit < i /\ i <= (page + 1) * limit}}

\* skip((page - 1) * limit).limit(limit)
pageOf(s, page, limit) ==
  {s[i] : i \in {i \in DOMAIN s : (page - 1) * limit < i /\ i <= page * limit}}

FindPage(l) ==
  /\ Pending(l, "find")
  /\ LET list == lists[l]
     IN  \/ \E s \in newestFirst(matching(list.tenant, list.status)) :
              lists' = [lists EXCEPT ![l] =
                          Arrived([list EXCEPT !.items = pageOf(s, list.page, list.limit)],
                                  "find")]
         \/ ListAnswer(l, "error")

\* Mutant: the total leaves out the filter.
CountAllTasks(l) ==
  /\ Pending(l, "count")
  /\ LET S == {t \in TaskId : visible.tasks[t] # Null}
     IN  lists' = [lists EXCEPT ![l] =
                     Arrived([lists[l] EXCEPT !.total = Cardinality(S)], "count")]

CountTasks(l) ==
  /\ Pending(l, "count")
  /\ LET S == matching(lists[l].tenant, lists[l].status)
     IN  \/ lists' = [lists EXCEPT ![l] =
                        Arrived([lists[l] EXCEPT !.total = Cardinality(S)], "count")]
         \/ ListAnswer(l, "error")

Listing(l) ==
  /\ ReceiveList(l) \/ NextPage(l) \/ GuardList(l) \/ FindPage(l) \/ CountTasks(l)
  /\ UNCHANGED <<vars, createdAt>>

\* A new task gets a timestamp; nothing else touches it.
Stamp ==
  \E at \in Time :
    createdAt' = [t \in TaskId |-> IF tasks[t] = Null /\ tasks'[t] # Null
                                  THEN at ELSE createdAt[t]]

Other ==
  /\ Next
  /\ Stamp
  /\ UNCHANGED lists

ListNext == Other \/ \E l \in List : Listing(l)

ListSpec == ListInit /\ [][ListNext]_listVars

-------------------------------------------------------------------------------

\* Every variable of the listing holds a value of its type.
ListTypeOK ==
  /\ lists \in [List -> ListState]
  /\ createdAt \in [TaskId -> Time \cup {Null}]

\* A page shows tasks of the company whose key the request showed, and of no
\* other, whatever is created, decided or re-keyed meanwhile.
PagesAreOneTenants ==
  \A l \in List :
    \A t \in lists[l].items : tasks[t].companyId = lists[l].tenant

companyTasks(c) == {t \in TaskId : ofCompany(tasks[t], c)}

\* The page and the total are two queries and may disagree, but each is right
\* for some moment of the call: neither counts a task that was not there yet
\* at its end, nor misses one that was there at its start.
PageAndTotalAreOfTheCall ==
  \A l \in List :
    LET list  == lists[l]
        shown == (list.page - 1) * list.limit + Cardinality(list.items)
        least == Cardinality(list.atStart)
        most  == Cardinality(companyTasks(list.tenant))
    IN  list.answer = "ok" /\ list.status = Null =>
          /\ least <= list.total /\ list.total <= most
          /\ list.items # {} => shown <= most
          /\ Cardinality(list.items) < list.limit => least <= shown

\* The tasks that a review took out of the list while the client paged.
takenOut(list) ==
  IF list.status = "PENDING_REVIEW"
  THEN {t \in companyTasks(list.tenant) : Decided(t)} \ list.settled
  ELSE {}

\* A client that pages to the end is shown every task that was there when it
\* began, however many are created under it, but for one task for each that a
\* review took out of its filter meanwhile: what is behind it moves up by one,
\* perhaps past the client.  (Where no two tasks of the company have one
\* timestamp, reads are not stale, and the key the client shows keeps opening
\* the same company: otherwise its pages may be of different lists.)
PagingMissesOnePerReview ==
  \A l \in List :
    LET list == lists[l]
        own  == companyTasks(list.tenant)
    IN  /\ list.answer = "ok" /\ list.items = {}
        /\ list.before \subseteq own
        /\ \A t, u \in own : createdAt[t] = createdAt[u] => t = u
        => Cardinality((list.before \ takenOut(list)) \ list.seen)
             <= Cardinality(takenOut(list))

===============================================================================
