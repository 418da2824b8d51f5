---------------------------- MODULE ServiceProofs ----------------------------
(***************************************************************************)
(* The composition adds no behaviour to its parts: a run of the whole      *)
(* service is, seen from the pipeline, a run of EmailPipeline, and, seen   *)
(* from the tenant-facing API, a run of TenantApi.  So what is proved of   *)
(* the parts holds of the service, and on it rest the invariants of        *)
(* Service, which relate the state of one part to that of the other.       *)
(*                                                                         *)
(* ApiLife is TenantApi as Api is, with the theorems about it.             *)
(***************************************************************************)
EXTENDS Service, EmailPipelinePromiseProofs

ApiLife == INSTANCE TenantLifecycleProofs WITH
  CompanyId <- Company,
  tasks     <- reviewed,
  secondary <- apiSecondary

\* Whatever the API does to users and tasks is, for the webhook and the worker, a
\* step of their environment that EmailPipeline allows, or none.
LEMMA PipelineStep == [ServiceNext]_serviceVars => [Next]_vars
  BY DEF ServiceNext, serviceVars, Working, Serving, AllQuiescent, Next

\* Seen from the webhook and the worker, a run of the service is one of
\* EmailPipeline: what the API does to their users is a move that it allows.
THEOREM ServiceRunsThePipeline == ServiceSpec => Spec
<1>1. ServiceInit => Init
  BY DEF ServiceInit
<1> QED
  BY <1>1, PipelineStep, PTL DEF ServiceSpec, Spec

\* Whatever the webhook and the worker do is, for the API, the creation of one
\* task, or nothing.
LEMMA ApiStep == [ServiceNext]_serviceVars => [Api!Next]_(Api!vars)
<1>1. ASSUME Working
      PROVE  [Api!Next]_(Api!vars)
  <2>1. CASE UNCHANGED apiVars
    BY <2>1 DEF apiVars, Api!vars, Api!storeVars
  <2>2. CASE \E t \in TaskId : Api!Creating(t)
    BY <2>2 DEF Api!Next
  <2> QED
    BY <1>1, <2>1, <2>2 DEF Working
<1>2. ASSUME Serving
      PROVE  Api!Next
  BY <1>2 DEF Serving, Api!Next
<1>3. ASSUME AllQuiescent
      PROVE  Api!Next
  BY <1>3 DEF AllQuiescent, Api!Next
<1>4. ASSUME UNCHANGED serviceVars
      PROVE  UNCHANGED Api!vars
  BY <1>4 DEF serviceVars, apiVars, Api!vars, Api!storeVars
<1> QED
  BY <1>1, <1>2, <1>3, <1>4 DEF ServiceNext

\* Seen from the API, a run of the service is one of TenantApi.
THEOREM ServiceRunsTheApi == ServiceSpec => Api!Spec
<1>1. ServiceInit => Api!Init
  BY DEF ServiceInit
<1> QED
  BY <1>1, ApiStep, PTL DEF ServiceSpec, Api!Spec

-------------------------------------------------------------------------------
(* ApiLife is Api: the definitions are the same, one by one. *)

\* The assumptions under which TenantLifecycleProofs was proved.
LEMMA LifeAssumptions ==
  /\ ApiLife!TenantStoreAssumption
  /\ ApiLife!NullDocumentAssumption
  /\ ApiLife!CompanyCallAssumption
  /\ ApiLife!KeyAssumption
  /\ ApiLife!UserCallAssumption
  /\ ApiLife!ReviewAssumption
  /\ ApiLife!SeedAssumption
<1>1. ApiLife!TenantStoreAssumption
  BY ApiAssumption DEF Api!TenantStoreAssumption, ApiLife!TenantStoreAssumption
<1>2. ApiLife!NullDocumentAssumption
  BY ApiAssumption DEF Api!NullDocumentAssumption, ApiLife!NullDocumentAssumption,
     Api!User, ApiLife!User, Api!Task, ApiLife!Task, Api!TaskStatus, ApiLife!TaskStatus
<1>3. ApiLife!CompanyCallAssumption
  BY ApiAssumption DEF Api!CompanyCallAssumption, ApiLife!CompanyCallAssumption,
     Api!CompanyOutcome, ApiLife!CompanyOutcome
<1>4. ApiLife!KeyAssumption
  BY ApiAssumption DEF Api!KeyAssumption, ApiLife!KeyAssumption, Api!uuidv4, ApiLife!uuidv4,
     Api!trim, ApiLife!trim, Api!Min, ApiLife!Min, Api!Max, ApiLife!Max
<1>5. ApiLife!UserCallAssumption
  BY ApiAssumption DEF Api!UserCallAssumption, ApiLife!UserCallAssumption,
     Api!UserOutcome, ApiLife!UserOutcome
<1>6. ApiLife!ReviewAssumption
  BY ApiAssumption DEF Api!ReviewAssumption, ApiLife!ReviewAssumption, Api!Decision,
     ApiLife!Decision, Api!ReviewOutcome, ApiLife!ReviewOutcome,
     Api!trim, ApiLife!trim, Api!Min, ApiLife!Min, Api!Max, ApiLife!Max
<1>7. ApiLife!SeedAssumption
  BY ApiAssumption DEF Api!SeedAssumption, ApiLife!SeedAssumption, Api!User, ApiLife!User
<1> QED
  BY <1>1, <1>2, <1>3, <1>4, <1>5, <1>6, <1>7

LEMMA SameCompanyStep ==
  ASSUME NEW c \in CompanyCall, Api!CompanyStep(c)
  PROVE  ApiLife!CompanyStep(c)
  BY DEF Api!CompanyStep, ApiLife!CompanyStep,
     Api!ReceiveCompanyCall, ApiLife!ReceiveCompanyCall,
     Api!CompanyAt, ApiLife!CompanyAt, Api!CompanyRequest, ApiLife!CompanyRequest,
     Api!HandleCompanyCall, ApiLife!HandleCompanyCall, Api!FindCompany, ApiLife!FindCompany,
     Api!CheckKey, ApiLife!CheckKey, Api!WriteCompany, ApiLife!WriteCompany,
     Api!CompanyAnswer, ApiLife!CompanyAnswer, Api!CompanyGoto, ApiLife!CompanyGoto,
     Api!CompanyThrows, ApiLife!CompanyThrows, Api!WriteKey, ApiLife!WriteKey,
     Api!findByApiKey, ApiLife!findByApiKey, Api!visible, ApiLife!visible,
     Api!primary, ApiLife!primary, Api!DuplicateApiKey, ApiLife!DuplicateApiKey,
     Api!storeVars, ApiLife!storeVars, Api!uuidv4, ApiLife!uuidv4, Api!trim, ApiLife!trim,
     Api!Min, ApiLife!Min, Api!Max, ApiLife!Max

LEMMA SameUserStep ==
  ASSUME NEW u \in UserCall, Api!UserStep(u)
  PROVE  ApiLife!UserStep(u)
  BY DEF Api!UserStep, ApiLife!UserStep, Api!ReceiveUserCall, ApiLife!ReceiveUserCall,
     Api!UserAt, ApiLife!UserAt, Api!UserRequest, ApiLife!UserRequest,
     Api!HandleUserCall, ApiLife!HandleUserCall, Api!FindUser, ApiLife!FindUser,
     Api!EnsureCompanyExists, ApiLife!EnsureCompanyExists,
     Api!EnsureEmailsAreUnique, ApiLife!EnsureEmailsAreUnique,
     Api!WriteUser, ApiLife!WriteUser, Api!WriteUserDocument, ApiLife!WriteUserDocument,
     Api!UserAnswer, ApiLife!UserAnswer, Api!UserGoto, ApiLife!UserGoto,
     Api!findByAnyEmail, ApiLife!findByAnyEmail, Api!visible, ApiLife!visible,
     Api!primary, ApiLife!primary, Api!DuplicateEmail, ApiLife!DuplicateEmail,
     Api!Spelling, ApiLife!Spelling, Api!normalizeEmails, ApiLife!normalizeEmails,
     Api!storeVars, ApiLife!storeVars

LEMMA SameReviewing ==
  ASSUME NEW r \in Review, Api!Reviewing(r)
  PROVE  ApiLife!Reviewing(r)
  BY DEF Api!Reviewing, ApiLife!Reviewing, Api!ReceiveReview, ApiLife!ReceiveReview,
     Api!ReviewAt, ApiLife!ReviewAt, Api!HandleReview, ApiLife!HandleReview,
     Api!Guard, ApiLife!Guard, Api!FindTask, ApiLife!FindTask,
     Api!UpdateReview, ApiLife!UpdateReview, Api!ReviewAnswer, ApiLife!ReviewAnswer,
     Api!BlankKey, ApiLife!BlankKey, Api!ofCompany, ApiLife!ofCompany,
     Api!reviewable, ApiLife!reviewable, Api!Decision, ApiLife!Decision,
     Api!findByApiKey, ApiLife!findByApiKey, Api!visible, ApiLife!visible,
     Api!primary, ApiLife!primary, Api!storeVars, ApiLife!storeVars,
     Api!trim, ApiLife!trim, Api!Min, ApiLife!Min, Api!Max, ApiLife!Max

LEMMA LifeStep == [ServiceNext]_serviceVars => [ApiLife!Next]_(ApiLife!vars)
<1>1. ASSUME NEW t \in TaskId, Api!Creating(t)
      PROVE  ApiLife!Creating(t)
  BY <1>1 DEF Api!Creating, ApiLife!Creating, Api!AddTask, ApiLife!AddTask
<1>2. Api!CatchUp => ApiLife!CatchUp
  BY DEF Api!CatchUp, ApiLife!CatchUp, Api!Replicate, ApiLife!Replicate,
     Api!primary, ApiLife!primary
<1>3. UNCHANGED Api!vars => UNCHANGED ApiLife!vars
  BY DEF Api!vars, ApiLife!vars, Api!storeVars, ApiLife!storeVars
<1>4. Api!Quiescent => UNCHANGED Api!vars
  BY DEF Api!Quiescent
<1> QED
  BY <1>1, <1>2, <1>3, <1>4, ApiStep, SameCompanyStep, SameUserStep, SameReviewing
     DEF Api!Next, ApiLife!Next

LEMMA ServiceRunsApiLife == ServiceSpec => ApiLife!Spec
<1>1. ServiceInit => ApiLife!Init
  BY DEF ServiceInit, Api!Init, ApiLife!Init, Api!CompanyInit, ApiLife!CompanyInit,
     Api!UserInit, ApiLife!UserInit, Api!ReviewInit, ApiLife!ReviewInit,
     Api!primary, ApiLife!primary
<1> QED
  BY <1>1, LifeStep, PTL DEF ServiceSpec, ApiLife!Spec

-------------------------------------------------------------------------------
(* The inductive invariant. *)

\* A slot that has resolved the recipient took a company the recipient's address
\* has belonged to,
SlotsOfOwners ==
  \A s \in Slot, k \in JobId, id \in Request :
    /\ slots[s].pc \in Resolved
    /\ slots[s].job = k
    /\ jobs[k].emailMessageId = id
    => slots[s].tenant \in owners[emails[id].to]

\* ... and so did whoever made a task.
TasksOfOwners ==
  \A i \in DOMAIN tasks, id \in Request :
    tasks[i].sourceEmailMessageId = id => tasks[i].companyId \in owners[emails[id].to]

\* The two views of the tasks are of the same documents.
SameTasks ==
  /\ DOMAIN tasks \subseteq TaskId
  /\ \A t \in TaskId :
       /\ (reviewed[t] # Null) <=> (t \in DOMAIN tasks)
       /\ t \in DOMAIN tasks => reviewed[t].companyId = tasks[t].companyId

ServiceInv ==
  /\ owners \in [Address -> SUBSET (Company \cup {Null})]
  /\ directory = companyOfAddress
  /\ \A a \in Address : directory[a] \in owners[a]
  /\ SameTasks
  /\ SlotsOfOwners
  /\ TasksOfOwners

\* Every company that an address has belonged to exists or has existed.
OwnersAreFounded ==
  \A a \in Address, k \in Company : k \in owners[a] => ApiLife!Founded(k)

-------------------------------------------------------------------------------
(* What a step of the whole does to what the two parts share. *)

\* Only the API changes the users, and the directory with them; owners remembers
\* what the directory was.
LEMMA OwnersGrow ==
  ASSUME IInv, ServiceInv, [ServiceNext]_serviceVars
  PROVE  /\ owners' \in [Address -> SUBSET (Company \cup {Null})]
         /\ directory' = companyOfAddress'
         /\ \A a \in Address : directory'[a] \in owners'[a]
         /\ \A a \in Address : owners[a] \subseteq owners'[a]
         /\ \A a \in Address : owners'[a] \subseteq owners[a] \cup {directory'[a]}
<1>1. CASE UNCHANGED <<directory, owners, users, apiSecondary>>
  <2>1. companyOfAddress' = companyOfAddress
    BY <1>1 DEF companyOfAddress, Api!visible, Api!primary
  <2> QED
    BY <1>1, <2>1 DEF ServiceInv
<1>2. CASE Working
  <2>1. UNCHANGED directory
    BY <1>2, WorkKeepsDirectory DEF Working
  <2>2. UNCHANGED <<owners, users, apiSecondary>>
    BY <1>2 DEF Working, apiVars, Api!Creating, Api!AddTask
  <2> QED
    BY <1>1, <2>1, <2>2
<1>3. CASE Serving
  <2>1. IInv'
    BY NextKeeps, PipelineStep
  <2>2. directory' = companyOfAddress'
    BY <1>3 DEF Serving, ServiceInv, vars, workerVars
  <2>3. directory' \in [Address -> Company \cup {Null}]
    BY <2>1 DEF IInv, TypeOK, WorkerTypeOK
  <2>4. owners' = [a \in Address |-> owners[a] \cup {directory'[a]}]
    BY <1>3 DEF Serving
  <2> QED
    BY <2>2, <2>3, <2>4 DEF ServiceInv
<1>4. CASE AllQuiescent \/ UNCHANGED serviceVars
  BY <1>1, <1>4 DEF AllQuiescent, Quiescent, Api!Quiescent, serviceVars, apiVars, vars,
     workerVars, Api!vars, Api!storeVars
<1> QED
  BY <1>2, <1>3, <1>4 DEF ServiceNext

\* The API makes no tasks: the worker does.
LEMMA ServingAddsNone ==
  ASSUME ApiLife!ReviewInv, Serving
  PROVE  /\ UNCHANGED tasks
         /\ \A t \in TaskId : reviewed[t] = Null => reviewed'[t] = Null
<1>1. UNCHANGED tasks
  BY DEF Serving, Administer, MoveUsers, vars, storeVars
<1>2. ASSUME NEW c \in CompanyCall, Api!CompanyStep(c)
      PROVE  UNCHANGED reviewed
  BY <1>2 DEF Api!CompanyStep, Api!ReceiveCompanyCall, Api!HandleCompanyCall, Api!FindCompany,
     Api!CheckKey, Api!WriteCompany, Api!CompanyThrows, Api!storeVars
<1>3. ASSUME NEW u \in UserCall, Api!UserStep(u)
      PROVE  UNCHANGED reviewed
  BY <1>3 DEF Api!UserStep, Api!ReceiveUserCall, Api!HandleUserCall, Api!FindUser,
     Api!EnsureCompanyExists, Api!EnsureEmailsAreUnique, Api!WriteUser, Api!storeVars
<1>4. ASSUME NEW r \in Review, Api!Reviewing(r), NEW t \in TaskId, reviewed[t] = Null
      PROVE  reviewed'[t] = Null
  <2>1. CASE UNCHANGED reviewed
    BY <1>4, <2>1
  <2>2. CASE /\ Api!reviewable(reviews[r].taskId, reviews[r].tenant)
             /\ reviewed' = [reviewed EXCEPT ![reviews[r].taskId].status = reviews[r].decision]
    <3>1. reviews[r].taskId # t
      BY <1>4, <2>2 DEF Api!reviewable, Api!ofCompany
    <3>2. reviewed \in [TaskId -> ApiLife!Task \cup {Null}]
      BY DEF ApiLife!ReviewInv, ApiLife!ReviewTypes
    <3> QED
      BY <1>4, <2>2, <3>1, <3>2
  <2> QED
    BY <1>4, <2>1, <2>2 DEF Api!Reviewing, Api!ReceiveReview, Api!HandleReview, Api!Guard,
       Api!FindTask, Api!UpdateReview, Api!storeVars
<1>5. Api!CatchUp => UNCHANGED reviewed
  BY DEF Api!CatchUp, Api!Replicate
<1> QED
  BY <1>1, <1>2, <1>3, <1>4, <1>5 DEF Serving

\* The step in which the worker makes a task adds it to the API's view.
LEMMA WorkingAddsOne ==
  ASSUME IInv, ApiLife!ReviewInv, Working, ~ UNCHANGED tasks
  PROVE  LET new == Len(tasks) + 1
         IN  /\ DOMAIN tasks' = DOMAIN tasks \cup {new}
             /\ \A i \in DOMAIN tasks : tasks'[i] = tasks[i]
             /\ new \in TaskId
             /\ reviewed'[new] # Null
             /\ reviewed'[new].companyId = tasks'[new].companyId
             /\ \A t \in TaskId \ {new} : reviewed'[t] = reviewed[t]
<1> DEFINE new == Len(tasks) + 1
<1>1. tasks \in Seq(Task) /\ tasks' \in Seq(Task)
  <2>1. [Next]_vars
    BY DEF Working, Next
  <2> QED
    BY <2>1, NextKeeps DEF IInv, TypeOK, StoreTypeOK
<1>2. PICK s \in Slot : AddsTask(s)
  BY TaskSteps DEF Working, Next
<1>3. /\ DOMAIN tasks' = DOMAIN tasks \cup {new}
      /\ \A i \in DOMAIN tasks : tasks'[i] = tasks[i]
  BY <1>2, AddedTask
<1>4. Len(tasks') = new
  BY <1>1, <1>2 DEF AddsTask, createTask
<1>5. /\ new \in TaskId
      /\ Api!Creating(new)
      /\ reviewed'[new].companyId = tasks'[new].companyId
  BY <1>4 DEF Working
<1>6. PICK c \in Company :
        reviewed' = [reviewed EXCEPT ![new] = [companyId |-> c, status |-> "PENDING_REVIEW"]]
  BY <1>5 DEF Api!Creating, Api!AddTask
<1>7. reviewed \in [TaskId -> ApiLife!Task \cup {Null}]
  BY DEF ApiLife!ReviewInv, ApiLife!ReviewTypes
<1>8. reviewed'[new] = [companyId |-> c, status |-> "PENDING_REVIEW"]
  BY <1>5, <1>6, <1>7
<1>9. [companyId |-> c, status |-> "PENDING_REVIEW"] # Null
  BY LifeAssumptions DEF ApiLife!NullDocumentAssumption, ApiLife!Task, ApiLife!TaskStatus
<1>10. \A t \in TaskId \ {new} : reviewed'[t] = reviewed[t]
  BY <1>6, <1>7
<1> HIDE DEF new
<1> QED
  BY <1>3, <1>5, <1>8, <1>9, <1>10 DEF new

\* A task comes into being in both views at once, and keeps its company.
LEMMA SameTasksKept ==
  ASSUME IInv, ApiLife!ReviewInv, SameTasks, [ServiceNext]_serviceVars
  PROVE  SameTasks'
<1>1. CASE UNCHANGED tasks /\ \A t \in TaskId : reviewed[t] = Null => reviewed'[t] = Null
  <2>1. ASSUME NEW t \in TaskId, reviewed[t] # Null
        PROVE  reviewed'[t] # Null /\ reviewed'[t].companyId = reviewed[t].companyId
    BY <2>1, LifeAssumptions, LifeStep, ApiLife!TasksKeepTenants
  <2> QED
    BY <1>1, <2>1 DEF SameTasks
<1>2. CASE Working /\ ~ UNCHANGED tasks
  <2> DEFINE new == Len(tasks) + 1
  <2>1. /\ DOMAIN tasks' = DOMAIN tasks \cup {new}
        /\ \A i \in DOMAIN tasks : tasks'[i] = tasks[i]
        /\ new \in TaskId
        /\ reviewed'[new] # Null
        /\ reviewed'[new].companyId = tasks'[new].companyId
        /\ \A t \in TaskId \ {new} : reviewed'[t] = reviewed[t]
    BY <1>2, WorkingAddsOne
  <2> HIDE DEF new
  <2> QED
    BY <2>1 DEF SameTasks
<1>3. CASE Working /\ UNCHANGED tasks
  BY <1>1, <1>3 DEF Working, apiVars
<1>4. CASE AllQuiescent \/ UNCHANGED serviceVars
  BY <1>1, <1>4 DEF AllQuiescent, Quiescent, Api!Quiescent, serviceVars, apiVars, vars,
     storeVars, Api!vars, Api!storeVars
<1> QED
  BY <1>1, <1>2, <1>3, <1>4, ServingAddsNone DEF ServiceNext

\* Whatever a slot resolves is then a company of the address, and owners forgets
\* none.
LEMMA SlotsOfOwnersKept ==
  ASSUME IInv, ServiceInv, [ServiceNext]_serviceVars
  PROVE  SlotsOfOwners'
<1> SUFFICES ASSUME NEW s \in Slot, NEW k \in JobId, NEW id \in Request,
                    slots'[s].pc \in Resolved, slots'[s].job = k,
                    jobs'[k].emailMessageId = id
             PROVE  slots'[s].tenant \in owners'[emails'[id].to]
  BY DEF SlotsOfOwners
<1>0. [Next]_vars
  BY PipelineStep
<1>1. /\ slots[s].pc # "idle" /\ slots[s].job = k
      /\ \/ slots[s].pc \in Resolved /\ slots'[s].tenant = slots[s].tenant
         \/ slots'[s].tenant = directory[emails[emailIdOf(s)].to]
  BY <1>0, TenantSteps
<1>2. emails[emailIdOf(s)] # Null /\ jobs[k] # Null
  BY <1>1, SlotFacts, NullJobAssumption DEF NullJobAssumption
<1>3. jobs[k].emailMessageId = id
  BY <1>0, <1>2, JobsStay DEF JobsGrow
<1>4. emailIdOf(s) = id
  BY <1>1, <1>3 DEF emailIdOf
<1>5. emails'[id].to = emails[id].to /\ emails[id].to \in Address
  <2>1. emails[id] \in EmailMessage
    BY <1>2, <1>4 DEF IInv, TypeOK, StoreTypeOK
  <2> QED
    BY <1>0, <1>2, <1>4, <2>1, DocumentsStay DEF EmailMessage
<1>6. slots'[s].tenant \in owners[emails[id].to]
  <2>1. CASE slots[s].pc \in Resolved /\ slots'[s].tenant = slots[s].tenant
    BY <1>1, <1>3, <2>1 DEF ServiceInv, SlotsOfOwners
  <2>2. CASE slots'[s].tenant = directory[emails[emailIdOf(s)].to]
    BY <1>4, <1>5, <2>2 DEF ServiceInv
  <2> QED
    BY <1>1, <2>1, <2>2
<1> QED
  BY <1>5, <1>6, OwnersGrow

LEMMA TasksOfOwnersKept ==
  ASSUME IInv, ServiceInv, [ServiceNext]_serviceVars
  PROVE  TasksOfOwners'
<1> SUFFICES ASSUME NEW i \in DOMAIN tasks', NEW id \in Request,
                    tasks'[i].sourceEmailMessageId = id
             PROVE  tasks'[i].companyId \in owners'[emails'[id].to]
  BY DEF TasksOfOwners
<1>0. [Next]_vars
  BY PipelineStep
<1>1. emails[id] # Null => emails'[id].to = emails[id].to /\ emails[id].to \in Address
  <2>1. emails[id] # Null => emails[id] \in EmailMessage
    BY DEF IInv, TypeOK, StoreTypeOK
  <2> QED
    BY <1>0, <2>1, DocumentsStay DEF EmailMessage
<1>2. CASE i \in DOMAIN tasks /\ tasks'[i] = tasks[i]
  <2>1. emails[id] # Null
    BY <1>2 DEF IInv, TaskOK
  <2>2. tasks[i].companyId \in owners[emails[id].to]
    BY <1>2 DEF ServiceInv, TasksOfOwners
  <2> QED
    BY <1>1, <1>2, <2>1, <2>2, OwnersGrow
<1>3. ASSUME NEW s \in Slot, AddsTask(s), i \notin DOMAIN tasks
      PROVE  tasks'[i].companyId \in owners'[emails'[id].to]
  <2>1. /\ tasks'[i] = [companyId |-> slots[s].tenant, sourceEmailMessageId |-> emailIdOf(s)]
        /\ slots[s].job \in JobId
    BY <1>3, AddedTask
  <2>2. slots[s].pc \in Resolved /\ slots[s].pc # "idle" /\ UNCHANGED emails
    BY <1>3 DEF AddsTask, Resolved
  <2>3. tasks'[i].companyId = slots[s].tenant /\ emailIdOf(s) = id
    BY <2>1
  <2>4. slots[s].tenant \in owners[emails[id].to]
    BY <2>1, <2>2, <2>3 DEF ServiceInv, SlotsOfOwners, emailIdOf
  <2>5. emails[id] # Null
    BY <2>2, <2>3, SlotFacts
  <2> QED
    BY <1>1, <2>3, <2>4, <2>5, OwnersGrow
<1>4. ASSUME NEW s \in Slot, AddsTask(s), i \in DOMAIN tasks PROVE tasks'[i] = tasks[i]
  BY <1>4, AddedTask
<1> QED
  BY <1>0, <1>2, <1>3, <1>4, TaskSteps

LEMMA ServiceInvInit ==
  ASSUME ServiceInit
  PROVE  ServiceInv
<1>1. /\ DOMAIN tasks = {}
      /\ reviewed = [t \in TaskId |-> Null]
      /\ \A s \in Slot : slots[s].pc \notin Resolved
  BY DEF ServiceInit, Init, StoreInit, WorkerInit, idleSlot, Resolved, Api!Init
<1>2. SameTasks /\ SlotsOfOwners /\ TasksOfOwners
  BY <1>1 DEF SameTasks, SlotsOfOwners, TasksOfOwners
<1>3. directory \in [Address -> Company \cup {Null}]
  BY DEF ServiceInit, Init, WorkerInit
<1> QED
  BY <1>2, <1>3 DEF ServiceInit, ServiceInv

LEMMA ServiceInvHolds == ServiceSpec => [](IInv /\ ServiceInv /\ ApiLife!ReviewInv)
<1>1. ServiceSpec => []IInv
  BY ServiceRunsThePipeline, InvariantHolds, PTL
<1>2. ServiceSpec => []ApiLife!ReviewInv
  BY LifeAssumptions, ServiceRunsApiLife, ApiLife!ReviewInvHolds, PTL
<1>3. IInv /\ ServiceInv /\ ApiLife!ReviewInv /\ [ServiceNext]_serviceVars => ServiceInv'
  BY OwnersGrow, SameTasksKept, SlotsOfOwnersKept, TasksOfOwnersKept DEF ServiceInv
<1> QED
  BY <1>1, <1>2, <1>3, ServiceInvInit, PTL DEF ServiceSpec

-------------------------------------------------------------------------------
(* What it gives, for every value of the constants. *)

\* What the worker knows of users and what reviewers know of tasks are at every
\* moment views of one database: the directory is what findByEmail would answer,
\* and a task has one company in both.
THEOREM ServiceTypes == ServiceSpec => []ServiceTypeOK
<1>1. ServiceInv => ServiceTypeOK
  BY DEF ServiceInv, SameTasks, ServiceTypeOK
<1> QED
  BY <1>1, ServiceInvHolds, PTL

\* From the webhook to the review: whoever decided a task had shown a key of a
\* company that the recipient of the task's email belonged to, whatever moves,
\* deletions, re-keyings, retries and overlapping attempts happened in between.
THEOREM RecipientsCompanyDecides == ServiceSpec => []DecidedByTheRecipientsCompany
<1>1. ServiceSpec => []ApiLife!DecidedByOwnTenant
  BY LifeAssumptions, ServiceRunsApiLife, ApiLife!TenantsAreApart, PTL
<1>2. IInv /\ ServiceInv /\ ApiLife!DecidedByOwnTenant => DecidedByTheRecipientsCompany
  <2> SUFFICES ASSUME IInv, ServiceInv, ApiLife!DecidedByOwnTenant,
                      NEW t \in DOMAIN tasks, Api!Decided(t)
               PROVE  \E r \in Review : /\ reviews[r].taskId = t
                                        /\ reviews[r].tenant \in owners[recipientOf(t)]
    BY DEF DecidedByTheRecipientsCompany
  <2>1. t \in TaskId /\ reviewed[t].companyId = tasks[t].companyId
    BY DEF ServiceInv, SameTasks
  <2>2. PICK r \in Review : /\ reviews[r].taskId = t
                            /\ reviews[r].tenant = reviewed[t].companyId
    BY <2>1 DEF ApiLife!DecidedByOwnTenant, ApiLife!Decided, Api!Decided
  <2>3. tasks[t].sourceEmailMessageId \in Request
    <3>1. tasks[t] \in Task
      BY DEF IInv, TypeOK, StoreTypeOK
    <3> QED
      BY <3>1 DEF Task
  <2>4. tasks[t].companyId \in owners[recipientOf(t)]
    BY <2>3 DEF ServiceInv, TasksOfOwners, recipientOf
  <2> QED
    BY <2>1, <2>2, <2>4
<1> QED
  BY <1>1, <1>2, ServiceInvHolds, PTL

\* Every user at the start is of a company that exists.
SeededUsersHaveCompanies ==
  \A u \in DOMAIN SeededUsers : SeededUsers[u].companyId \in DOMAIN Seeded

\* The directory names a company only if the users, or the secondary, do.
LEMMA DirectoryIsFounded ==
  ASSUME ApiLife!RelianceIsFounded, directory = companyOfAddress,
         NEW a \in Address, NEW k \in Company, directory[a] = k
  PROVE  ApiLife!Founded(k)
<1>1. k # Null
  BY NullAssumption
<1>2. PICK u \in UserId : /\ Api!visible.users[u] # Null
                          /\ Api!visible.users[u].companyId = k
  BY <1>1 DEF companyOfAddress
<1>3. ApiLife!Relied(k)
  BY <1>2 DEF Api!visible, Api!primary, ApiLife!Relied
<1> QED
  BY <1>3 DEF ApiLife!RelianceIsFounded

LEMMA OwnersAreFoundedKept ==
  ASSUME IInv, ServiceInv, ApiLife!CompaniesOK, ApiLife!RelianceIsFounded', OwnersAreFounded,
         [ServiceNext]_serviceVars
  PROVE  OwnersAreFounded'
<1> SUFFICES ASSUME NEW a \in Address, NEW k \in Company, k \in owners'[a]
             PROVE  ApiLife!Founded(k)'
  BY DEF OwnersAreFounded
<1>1. CASE k \in owners[a]
  <2>1. ApiLife!Founded(k)
    BY <1>1 DEF OwnersAreFounded
  <2> QED
    BY <2>1, LifeAssumptions, LifeStep, ApiLife!FoundedStays
<1>2. CASE directory'[a] = k
  <2>1. directory' = companyOfAddress'
    BY OwnersGrow
  <2>2. \A u \in UserId : Api!visible'.users[u] # Null /\ Api!visible'.users[u].companyId = k
                            => ApiLife!Relied(k)'
    BY DEF Api!visible, Api!primary, ApiLife!Relied
  <2> QED
    BY <1>2, <2>1, <2>2, NullAssumption DEF companyOfAddress, ApiLife!RelianceIsFounded
<1> QED
  BY <1>1, <1>2, OwnersGrow

\* Of a database whose users had companies at the start: the worker may make a
\* task for a company that is gone, but then a call deleted it; through users,
\* directory, email and task no id of a company that never was comes to a task,
\* whatever the secondary shows to whom.
THEOREM GoneCompaniesWereThere ==
  ASSUME SeededUsersHaveCompanies
  PROVE  ServiceSpec => []TaskOfGoneCompanyWasDeleted
<1>1. ApiLife!SeededUsersHaveCompanies
  BY DEF SeededUsersHaveCompanies, ApiLife!SeededUsersHaveCompanies
<1>2. ServiceSpec => []ApiLife!RelianceIsFounded
  BY <1>1, LifeAssumptions, ServiceRunsApiLife, ApiLife!RelianceHolds, PTL
<1>3. ServiceSpec => []ApiLife!CompaniesOK
  BY LifeAssumptions, ServiceRunsApiLife, ApiLife!CompanyInvHolds, PTL
<1>4. ServiceInit /\ ServiceInv /\ ApiLife!RelianceIsFounded => OwnersAreFounded
  BY DirectoryIsFounded DEF ServiceInit, OwnersAreFounded
<1>5. /\ IInv /\ ServiceInv /\ ApiLife!CompaniesOK /\ OwnersAreFounded
      /\ (ApiLife!RelianceIsFounded)' /\ [ServiceNext]_serviceVars
      => OwnersAreFounded'
  BY OwnersAreFoundedKept
<1>6. IInv /\ ServiceInv /\ OwnersAreFounded => TaskOfGoneCompanyWasDeleted
  <2> SUFFICES ASSUME IInv, ServiceInv, OwnersAreFounded, NEW t \in DOMAIN tasks,
                      companies[tasks[t].companyId] = Null
               PROVE  ApiLife!WasDeleted(tasks[t].companyId)
    BY DEF TaskOfGoneCompanyWasDeleted, ApiLife!WasDeleted
  <2>1. /\ tasks[t].companyId \in Company /\ tasks[t].sourceEmailMessageId \in Request
        /\ emails[tasks[t].sourceEmailMessageId] # Null
    <3>1. tasks[t] \in Task
      BY DEF IInv, TypeOK, StoreTypeOK
    <3> QED
      BY <3>1 DEF IInv, TaskOK, Task
  <2>2. tasks[t].companyId \in owners[recipientOf(t)]
    BY <2>1 DEF ServiceInv, TasksOfOwners, recipientOf
  <2>3. recipientOf(t) \in Address
    BY <2>1 DEF IInv, TypeOK, StoreTypeOK, EmailMessage, recipientOf
  <2> QED
    BY <2>1, <2>2, <2>3 DEF OwnersAreFounded, ApiLife!Founded
<1> QED
  BY <1>2, <1>3, <1>4, <1>5, <1>6, ServiceInvHolds, PTL DEF ServiceSpec

\* What is proved of the pipeline holds of the service, for one thing that an
\* ACTIONABLE email points at a task of its own and of its company, although users
\* move by calls of /users that race with the worker: as long as no attempt
\* overlaps another, or nobody moves.
THEOREM ServiceLinksTasks ==
  ASSUME Exclusive \/ Steady
  PROVE  ServiceSpec => []ActionableEmailHasItsTask
  BY ServiceRunsThePipeline, ActionableHasItsTask, PTL

==============================================================================
