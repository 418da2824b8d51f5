-------------------------------- MODULE Service --------------------------------
(***************************************************************************)
(* The whole service: the email pipeline beside the tenant-facing API, on  *)
(* one database.  The two meet in two places.  Users decide whom the       *)
(* worker takes an email to be for (TenantResolverService.findByEmail),    *)
(* and the tasks the worker makes are the tasks that companies review.     *)
(*                                                                         *)
(* tasks:    the tasks as the worker sees them: company and source email.  *)
(* reviewed: the same documents as /tasks sees them: company and status.   *)
(*           A task's index in tasks is its id in reviewed.                *)
(* owners:   history: the companies each address has belonged to.          *)
(***************************************************************************)
EXTENDS EmailPipeline

CONSTANTS UserId, TaskId, Key,
          CompanyCall, RawKey, UserCall, Review, HeaderKey,
          Seeded, SeededUsers

ASSUME ServiceAssumption == TaskId \subseteq Nat \ {0}

VARIABLES companies, users, reviewed, apiSecondary, companyCalls, userCalls, reviews,
          owners

Api == INSTANCE TenantApi WITH
  CompanyId <- Company,
  tasks     <- reviewed,
  secondary <- apiSecondary

\* What TenantApi assumes, of the constants it is given here.
ASSUME ApiAssumption ==
  /\ Api!TenantStoreAssumption
  /\ Api!NullDocumentAssumption
  /\ Api!CompanyCallAssumption
  /\ Api!KeyAssumption
  /\ Api!UserCallAssumption
  /\ Api!ReviewAssumption
  /\ Api!SeedAssumption

apiVars == <<companies, users, reviewed, apiSecondary, companyCalls, userCalls, reviews>>

serviceVars == <<vars, apiVars, owners>>

\* findByEmail: the company of the user who owns the address.
companyOfAddress ==
  [a \in Address |->
     LET found == {u \in UserId : /\ Api!visible.users[u] # Null
                                  /\ a \in Api!visible.users[u].emails}
     IN  IF found = {} THEN Null
         ELSE Api!visible.users[CHOOSE u \in found : TRUE].companyId]

ServiceInit ==
  /\ Api!Init
  /\ Init
  /\ directory = companyOfAddress
  /\ owners = [a \in Address |-> {directory[a]}]

\* Mutant: the task is stored for another company than the resolver named.
WorkingForAnyCompany ==
  /\ Work
  /\ IF tasks' = tasks THEN UNCHANGED apiVars ELSE Api!Creating(Len(tasks'))
  /\ UNCHANGED owners

\* The webhook or the worker takes a step; a task it makes can be reviewed.
Working ==
  /\ Work
  /\ IF tasks' = tasks
     THEN UNCHANGED apiVars
     ELSE \E t \in TaskId :
            /\ t = Len(tasks')
            /\ Api!Creating(t)
            /\ reviewed'[t].companyId = tasks'[t].companyId
  /\ UNCHANGED owners

\* The API takes a step; the worker sees what it makes of the users.
Serving ==
  /\ \/ \E c \in CompanyCall : Api!CompanyStep(c)
     \/ \E u \in UserCall : Api!UserStep(u)
     \/ \E r \in Review : Api!Reviewing(r)
     \/ Api!CatchUp
  /\ IF companyOfAddress' = companyOfAddress
     THEN UNCHANGED vars
     ELSE Administer /\ directory' = companyOfAddress'
  /\ owners' = [a \in Address |-> owners[a] \cup {directory'[a]}]

AllQuiescent == Quiescent /\ Api!Quiescent /\ UNCHANGED owners

ServiceNext == Working \/ Serving \/ AllQuiescent

ServiceSpec == ServiceInit /\ [][ServiceNext]_serviceVars

-------------------------------------------------------------------------------

\* Every variable of the composition holds a value of its type, and the two
\* views of the tasks are of the same documents.
ServiceTypeOK ==
  /\ owners \in [Address -> SUBSET (Company \cup {Null})]
  /\ directory = companyOfAddress
  /\ \A t \in TaskId :
       /\ (reviewed[t] # Null) <=> (t \in DOMAIN tasks)
       /\ t \in DOMAIN tasks => reviewed[t].companyId = tasks[t].companyId

recipientOf(t) == emails[tasks[t].sourceEmailMessageId].to

\* A task is decided only by a request that showed the key of a company the
\* email's recipient belonged to: from the webhook through the resolver to the
\* guard of the review, no company decides another's task.
DecidedByTheRecipientsCompany ==
  \A t \in DOMAIN tasks :
    Api!Decided(t)
    => \E r \in Review : /\ reviews[r].taskId = t
                         /\ reviews[r].tenant \in owners[recipientOf(t)]

\* The worker makes tasks for companies that are gone (their users stay, and it
\* never looks at the company), but for no company that never was: users,
\* emails and tasks carry its id only after ensureCompanyExists saw it.
TaskOfGoneCompanyWasDeleted ==
  \A t \in DOMAIN tasks :
    companies[tasks[t].companyId] = Null
    => \E c \in CompanyCall : /\ companyCalls[c].op = "delete"
                              /\ companyCalls[c].id = tasks[t].companyId
                              /\ companyCalls[c].answer \in {"ok", "error"}

===============================================================================
