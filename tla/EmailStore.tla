------------------------------ MODULE EmailStore ------------------------------
(***************************************************************************)
(* The MongoDB collections email_messages and tasks, with the repository   *)
(* operations the webhook and the worker call on them.                     *)
(*                                                                         *)
(* emails:    the documents of email_messages.  A webhook delivery inserts *)
(*            at most one document, so the delivery names its ObjectId.    *)
(* tasks:     the documents of tasks in insertion order; an index is a     *)
(*            task's ObjectId.                                             *)
(* secondary: the copy a secondary member serves.  AppModule connects with *)
(*            readPreference secondaryPreferred, so on a replica set every *)
(*            find may return what the primary held some time ago.         *)
(* faults:    how many database, Redis or OpenAI calls have thrown.        *)
(***************************************************************************)
EXTENDS Naturals, Sequences

CONSTANTS Request,        \* webhook deliveries, and the documents they insert
          MessageId,      \* provider message ids (sequences of characters)
          Address,        \* recipient addresses
          Company,        \* tenants
          Null,           \* the value of an absent field or document
          UniqueIndexes,  \* do the unique indexes exist (autoIndex is off)
          HasSecondary,   \* is the deployment a replica set
          MaxFaults       \* bound on the calls that throw

ASSUME StoreAssumption ==
  /\ UniqueIndexes \in BOOLEAN
  /\ HasSecondary \in BOOLEAN
  /\ MaxFaults \in Nat

VARIABLES emails, tasks, secondary, faults

storeVars == <<emails, tasks, secondary, faults>>

EmailMessageStatus ==
  {"RECEIVED", "QUEUED", "PROCESSING",
   "ACTIONABLE", "SKIPPED", "UNMATCHED", "FAILED"}

TERMINAL_EMAIL_STATUSES == {"ACTIONABLE", "SKIPPED", "UNMATCHED", "FAILED"}

\* What a classification that passed validation says of the email; it is also
\* all that the properties distinguish of the stored llmRawResult.
Verdict == {"actionable", "notActionable"}

EmailMessage ==
  [providerMessageId : MessageId,
   to                : Address,
   status            : EmailMessageStatus,
   companyId         : Company \cup {Null},
   llmRawResult      : Verdict \cup {Null},
   taskId            : Nat \cup {Null}]

Task == [companyId : Company, sourceEmailMessageId : Request]

ASSUME NullAssumption ==
  /\ Null \notin EmailMessage
  /\ Null \notin Company
  /\ Null \notin Verdict

-------------------------------------------------------------------------------
(* Reads: what a find may return. *)

visibleEmails == IF HasSecondary THEN secondary.emails ELSE emails
visibleTasks  == IF HasSecondary THEN secondary.tasks  ELSE tasks

getById(id) == visibleEmails[id]

findByProviderMessageId(m) ==
  {id \in Request : /\ visibleEmails[id] # Null
                    /\ visibleEmails[id].providerMessageId = m}

findBySourceEmailMessageId(c, id) ==
  {i \in DOMAIN visibleTasks :
     /\ visibleTasks[i].companyId = c
     /\ visibleTasks[i].sourceEmailMessageId = id}

(* Writes go to the primary, where the unique indexes are enforced. *)

\* Mutant: providerMessageId is not declared unique.
DuplicateMessageKeyIgnored(m) == FALSE

DuplicateMessageKey(m) ==
  /\ UniqueIndexes
  /\ \E id \in Request : /\ emails[id] # Null
                         /\ emails[id].providerMessageId = m

\* Mutant: (companyId, sourceEmailMessageId) is not declared unique.
DuplicateTaskKeyIgnored(c, id) == FALSE

DuplicateTaskKey(c, id) ==
  /\ UniqueIndexes
  /\ \E i \in DOMAIN tasks : /\ tasks[i].companyId = c
                             /\ tasks[i].sourceEmailMessageId = id

\* Mutant: the insert forgets the status.
receivedEmailWithoutStatus(m, a) ==
  [providerMessageId |-> m, to |-> a, status |-> Null,
   companyId |-> Null, llmRawResult |-> Null, taskId |-> Null]

receivedEmail(m, a) ==
  [providerMessageId |-> m, to |-> a, status |-> "RECEIVED",
   companyId |-> Null, llmRawResult |-> Null, taskId |-> Null]

createEmail(id, m, a) == emails' = [emails EXCEPT ![id] = receivedEmail(m, a)]

createTask(c, id) ==
  tasks' = Append(tasks, [companyId |-> c, sourceEmailMessageId |-> id])

\* The document after updateStatus(id, status) with no extra fields.
withStatus(id, status) == [emails[id] EXCEPT !.status = status]

updateEmail(id, doc) == emails' = [emails EXCEPT ![id] = doc]

\* A call either answers or throws; a write that throws may have been applied.
Outcome(ok) ==
  /\ ok \/ faults < MaxFaults
  /\ faults' = IF ok THEN faults ELSE faults + 1

\* A call that throws before it has any effect.
Throws ==
  /\ Outcome(FALSE)
  /\ UNCHANGED <<emails, tasks, secondary>>

-------------------------------------------------------------------------------

StoreInit ==
  /\ emails = [id \in Request |-> Null]
  /\ tasks = <<>>
  /\ secondary = [emails |-> emails, tasks |-> tasks]
  /\ faults = 0

\* The secondary catches up with the primary's oplog.
Replicate ==
  /\ HasSecondary
  /\ secondary # [emails |-> emails, tasks |-> tasks]
  /\ secondary' = [emails |-> emails, tasks |-> tasks]
  /\ UNCHANGED <<emails, tasks, faults>>

StoreTypeOK ==
  /\ emails \in [Request -> EmailMessage \cup {Null}]
  /\ tasks \in Seq(Task)
  /\ secondary \in [emails : [Request -> EmailMessage \cup {Null}],
                    tasks  : Seq(Task)]
  /\ faults \in 0..MaxFaults

===============================================================================
