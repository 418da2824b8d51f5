------------------------------ MODULE TenantStore ------------------------------
(***************************************************************************)
(* The MongoDB collections companies, users and tasks, as the tenant-facing *)
(* part of the API uses them.                                              *)
(*                                                                         *)
(* companies: the apiKey of each company; of its document only the key is  *)
(*            ever compared.                                               *)
(* users:     the company and the addresses of each user.                  *)
(* tasks:     the company and the status of each task.                     *)
(* secondary: what a secondary member serves; AppModule connects with      *)
(*            readPreference secondaryPreferred, so finds may read it.     *)
(*                                                                         *)
(* A deleted document is Null again; MongoDB never reuses its ObjectId.    *)
(***************************************************************************)
EXTENDS Naturals, Sequences, FiniteSetsExt

CONSTANTS CompanyId, UserId, TaskId,  \* the ObjectIds of the three collections
          Key,                        \* api keys (sequences of characters)
          Address,                    \* lower-case email addresses
          Null,                       \* an absent document or field
          UniqueIndexes,              \* do the unique indexes exist
          HasSecondary                \* is the deployment a replica set

ASSUME TenantStoreAssumption ==
  /\ UniqueIndexes \in BOOLEAN
  /\ HasSecondary \in BOOLEAN
  /\ Null \notin Key \cup CompanyId

VARIABLES companies, users, tasks, secondary

storeVars == <<companies, users, tasks, secondary>>

TaskStatus == {"PENDING_REVIEW", "ACCEPTED", "REJECTED"}

User == [companyId : CompanyId, emails : SUBSET Address]

Task == [companyId : CompanyId, status : TaskStatus]

ASSUME NullDocumentAssumption == Null \notin User /\ Null \notin Task

\* String.trim
trim(text) ==
  LET solid == {i \in DOMAIN text : text[i] # " "}
  IN  IF solid = {} THEN <<>> ELSE SubSeq(text, Min(solid), Max(solid))

-------------------------------------------------------------------------------

primary == [companies |-> companies, users |-> users, tasks |-> tasks]

visible == IF HasSecondary THEN secondary ELSE primary

findByApiKey(key) == {c \in CompanyId : visible.companies[c] = key}

findByAnyEmail(emails, excluded) ==
  {u \in UserId \ excluded :
     visible.users[u] # Null /\ visible.users[u].emails \cap emails # {}}

\* Mutant: the filter on companyId is dropped.
ofAnyCompany(task, c) == task # Null

\* The filter on companyId of a query for a task.
ofCompany(task, c) == task # Null /\ task.companyId = c

(* The unique indexes on apiKey and on emails, enforced on the primary. *)

\* Mutant: apiKey is not declared unique.
DuplicateApiKeyIgnored(id, key) == FALSE

DuplicateApiKey(id, key) ==
  UniqueIndexes /\ \E c \in CompanyId \ {id} : companies[c] = key

\* Mutant: emails are not declared unique.
DuplicateEmailIgnored(id, emails) == FALSE

DuplicateEmail(id, emails) ==
  /\ UniqueIndexes
  /\ \E u \in UserId \ {id} : users[u] # Null /\ users[u].emails \cap emails # {}

-------------------------------------------------------------------------------

\* The secondary catches up with the primary's oplog.
Replicate ==
  /\ HasSecondary
  /\ secondary # primary
  /\ secondary' = primary
  /\ UNCHANGED <<companies, users, tasks>>

StoreTypeOK ==
  /\ companies \in [CompanyId -> Key \cup {Null}]
  /\ users \in [UserId -> User \cup {Null}]
  /\ tasks \in [TaskId -> Task \cup {Null}]
  /\ secondary \in [companies : [CompanyId -> Key \cup {Null}],
                    users     : [UserId -> User \cup {Null}],
                    tasks     : [TaskId -> Task \cup {Null}]]

===============================================================================
