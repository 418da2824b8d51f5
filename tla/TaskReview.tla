------------------------------- MODULE TaskReview -------------------------------
(***************************************************************************)
(* POST /tasks/:id/review: TenantContextGuard, then TaskService.reviewTask. *)
(* Each await is a step, so reviews of one task interleave with each other *)
(* and with the administration of its company.  Any database call may      *)
(* throw, before or after it took effect.                                  *)
(***************************************************************************)
EXTENDS TenantStore

CONSTANTS Review,    \* requests to review a task
          HeaderKey  \* keys as clients write them in a header, before trim

VARIABLE reviews

Decision == {"ACCEPTED", "REJECTED"}

ReviewOutcome == {"ok", "bad_request", "company_not_found", "task_not_found", "error"}

ASSUME ReviewAssumption ==
  /\ Null \notin HeaderKey
  /\ Null \notin TaskId
  /\ Null \notin Decision
  /\ Null \notin ReviewOutcome
  /\ \A header \in HeaderKey : trim(header) # Null

\* xCompanyApiKey is Null when the header is missing, taskId when the id in the
\* path is not an ObjectId or names no document.
ReviewState ==
  [pc             : {"unsent", "guard", "findTask", "updateReview", "answered"},
   xCompanyApiKey : HeaderKey \cup {Null},
   taskId         : TaskId \cup {Null},
   decision       : Decision \cup {Null},
   tenant         : CompanyId \cup {Null},
   answer         : ReviewOutcome \cup {Null}]

ReviewInit ==
  reviews = [r \in Review |->
               [pc |-> "unsent", xCompanyApiKey |-> Null, taskId |-> Null,
                decision |-> Null, tenant |-> Null, answer |-> Null]]

-------------------------------------------------------------------------------

ReviewAt(r, pc) == reviews[r].pc = pc

ReviewAnswer(r, answer) ==
  reviews' = [reviews EXCEPT ![r].pc = "answered", ![r].answer = answer]

Decided(t) == tasks[t] # Null /\ tasks[t].status # "PENDING_REVIEW"

\* Mutant: the status is left out.
AddTaskWithoutStatus(t) ==
  /\ tasks[t] = Null
  /\ \E c \in CompanyId : tasks' = [tasks EXCEPT ![t] = [companyId |-> c, status |-> Null]]
  /\ UNCHANGED <<companies, users, secondary>>

\* TaskCreationService makes a task for some company; reviewers see it then.
AddTask(t) ==
  /\ tasks[t] = Null
  /\ \E c \in CompanyId :
       tasks' = [tasks EXCEPT ![t] = [companyId |-> c, status |-> "PENDING_REVIEW"]]
  /\ UNCHANGED <<companies, users, secondary>>

\* A client reviews a task that exists, or an id it made up, with or without
\* the header.
ReceiveReview(r) ==
  /\ ReviewAt(r, "unsent")
  /\ \E key \in HeaderKey \cup {Null}, decision \in Decision :
     \E t \in {t \in TaskId : tasks[t] # Null} \cup {Null} :
       reviews' = [reviews EXCEPT ![r].pc = "guard",
                                  ![r].xCompanyApiKey = key,
                                  ![r].taskId = t,
                                  ![r].decision = decision]
  /\ UNCHANGED storeVars

BlankKey(header) == IF header = Null THEN TRUE ELSE trim(header) = <<>>

\* TenantContextGuard.canActivate
Guard(r) ==
  /\ ReviewAt(r, "guard")
  /\ LET header  == reviews[r].xCompanyApiKey
         holders == IF BlankKey(header) THEN {} ELSE findByApiKey(trim(header))
     IN  \/ BlankKey(header) /\ ReviewAnswer(r, "bad_request")
         \/ ~BlankKey(header) /\ holders = {} /\ ReviewAnswer(r, "company_not_found")
         \/ \E c \in holders :
              reviews' = [reviews EXCEPT ![r].pc = "findTask", ![r].tenant = c]
         \/ ~BlankKey(header) /\ ReviewAnswer(r, "error")
  /\ UNCHANGED storeVars

\* Mutant: an error of the lookup is taken for a missing task.
FindTaskSwallowsErrors(r) ==
  /\ ReviewAt(r, "findTask")
  /\ LET t     == reviews[r].taskId
         found == t # Null /\ ofCompany(visible.tasks[t], reviews[r].tenant)
     IN  \/ ReviewAnswer(r, "task_not_found")
         \/ found /\ reviews' = [reviews EXCEPT ![r].pc = "updateReview"]
  /\ UNCHANGED storeVars

\* findByIdForCompany: another tenant's task is a task that does not exist.  The
\* lookup of an id that names no document may throw as well.
FindTask(r) ==
  /\ ReviewAt(r, "findTask")
  /\ LET t     == reviews[r].taskId
         found == t # Null /\ ofCompany(visible.tasks[t], reviews[r].tenant)
     IN  \/ ~found /\ ReviewAnswer(r, "task_not_found")
         \/ found /\ reviews' = [reviews EXCEPT ![r].pc = "updateReview"]
         \/ ReviewAnswer(r, "error")
  /\ UNCHANGED storeVars

\* Mutant: the filter on the status is dropped.
reviewableWhateverStatus(t, c) == ofCompany(tasks[t], c)

\* The filter of updateReview, evaluated on the primary with the write.
reviewable(t, c) == ofCompany(tasks[t], c) /\ tasks[t].status = "PENDING_REVIEW"

\* updateReview: one findOneAndUpdate; no match is answered as no such task.
UpdateReview(r) ==
  /\ ReviewAt(r, "updateReview")
  /\ LET t == reviews[r].taskId
     IN  \/ /\ reviewable(t, reviews[r].tenant)
            /\ tasks' = [tasks EXCEPT ![t].status = reviews[r].decision]
            /\ \E answer \in {"ok", "error"} : ReviewAnswer(r, answer)
         \/ /\ ~reviewable(t, reviews[r].tenant)
            /\ ReviewAnswer(r, "task_not_found")
            /\ UNCHANGED tasks
         \/ ReviewAnswer(r, "error") /\ UNCHANGED tasks
  /\ UNCHANGED <<companies, users, secondary>>

HandleReview(r) == Guard(r) \/ FindTask(r) \/ UpdateReview(r)

ReviewTypeOK == reviews \in [Review -> ReviewState]

===============================================================================
