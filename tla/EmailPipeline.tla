----------------------------- MODULE EmailPipeline -----------------------------
(***************************************************************************)
(* The service as a whole: the webhook and the worker around one MongoDB   *)
(* and one queue, with the environment: a provider that redelivers, calls  *)
(* that fail, a process that dies and restarts, locks that expire, a       *)
(* secondary that lags and an administrator who moves users.               *)
(***************************************************************************)
EXTENDS InboundEmail, EmailProcessing

CONSTANTS MaxCrashes  \* bound on the crashes of the process

ASSUME CrashAssumption == MaxCrashes \in Nat

VARIABLES crashes

vars == <<storeVars, queueVars, requests, workerVars, crashes>>

Init ==
  /\ StoreInit
  /\ QueueInit
  /\ InboundInit
  /\ WorkerInit
  /\ crashes = 0

\* The process dies with everything it has in memory, and restarts.
Crash ==
  /\ crashes < MaxCrashes
  /\ crashes' = crashes + 1
  /\ DropRequests
  /\ DropAttempts
  /\ ReleaseLocks
  /\ UNCHANGED <<storeVars, lockLosses, directory, moves>>

Deliver(r) == Receive(r)       /\ UNCHANGED <<workerVars, crashes>>
Handle(r)  == HandleRequest(r) /\ UNCHANGED <<workerVars, crashes>>

\* The worker fetches a job, runs an attempt to its end, reacts to a failure.
Fetch ==
  /\ \/ \E s \in Slot, k \in JobId : Take(s, k)
     \/ \E k \in JobId : FailStalled(k)
  /\ UNCHANGED <<requests, crashes>>

Attempt(s) ==
  /\ Process(s) \/ Complete(s) \/ Fail(s)
  /\ UNCHANGED <<requests, crashes>>

React(k) == OnFailed(k) /\ UNCHANGED <<requests, crashes>>

Recover(k) ==
  /\ RecoverStalledJob(k)
  /\ UNCHANGED <<storeVars, requests, workerVars, crashes>>

Expire(k) ==
  /\ LoseLock(k)
  /\ UNCHANGED <<storeVars, requests, workerVars, crashes>>

CatchUp == Replicate /\ UNCHANGED <<queueVars, requests, workerVars, crashes>>

Administer ==
  /\ \E new \in [Address -> Company \cup {Null}] : MoveUsers(new)
  /\ UNCHANGED <<requests, crashes>>

Finished(k) == InState(k, "completed") \/ InState(k, "failed")

\* Nothing is left to do: every delivery is over and every job finished.
Quiescent ==
  /\ \A r \in Request : requests[r].pc \in {"answered", "dropped"}
  /\ \A k \in JobId : jobs[k] # Null => Finished(k)
  /\ \A k \in JobId : handlers[k] = "idle"
  /\ \A s \in Slot : At(s, "idle")
  /\ UNCHANGED vars

\* What the webhook, the worker and the faults around them do.
Work ==
  \/ \E r \in Request : Deliver(r) \/ Handle(r)
  \/ Fetch
  \/ \E s \in Slot : Attempt(s)
  \/ \E k \in JobId : React(k) \/ Recover(k) \/ Expire(k)
  \/ CatchUp
  \/ Crash

Next == Work \/ Administer \/ Quiescent

Spec == Init /\ [][Next]_vars

\* Node runs every pending callback and the worker polls for ever.  Nobody owes
\* a delivery, a fault, a crash, a lost lock or an administrator's move.
Fairness ==
  /\ \A r \in Request : WF_vars(Handle(r))
  /\ WF_vars(Fetch)
  /\ \A s \in Slot : WF_vars(Attempt(s))
  /\ \A k \in JobId : WF_vars(React(k)) /\ WF_vars(Recover(k))

FairSpec == Spec /\ Fairness

-------------------------------------------------------------------------------
(* Type invariant. *)

\* Every variable holds a value of its type.
TypeOK ==
  /\ StoreTypeOK
  /\ QueueTypeOK
  /\ InboundTypeOK
  /\ WorkerTypeOK
  /\ crashes \in 0..MaxCrashes

-------------------------------------------------------------------------------
(* Safety. *)

jobOf(id) == jobs[toEmailProcessingJobId(emails[id].providerMessageId)]

EmailStatusIn(k, statuses) ==
  jobs[k] # Null /\ emails[jobs[k].emailMessageId].status \in statuses

\* However deliveries of one message interleave, crash or fail, every answer
\* that names a document names the same one (receiveInbound).
SameMessageSameId ==
  \A r1, r2 \in Request :
    /\ messageOf(r1) = messageOf(r2)
    /\ requests[r1].id # Null
    /\ requests[r2].id # Null
    => requests[r1].id = requests[r2].id

\* An email has left RECEIVED only if a job was added for this very document:
\* no crash or error leaves it QUEUED or PROCESSING with no job behind it.
\* (For message ids that give different job ids.)
LeftReceivedHasJob ==
  \A id \in Request :
    emails[id] # Null /\ emails[id].status # "RECEIVED"
    => jobOf(id) # Null /\ jobOf(id).emailMessageId = id

\* A stored email for which no job was added is one whose delivery is about to
\* add it, died with the process, or was answered internal_error: no email is
\* stranded in RECEIVED while the provider was told that it is queued.
\* (For message ids that give different job ids.)
UnqueuedEmailIsReported ==
  \A id \in Request :
    emails[id] # Null /\ (jobOf(id) = Null \/ jobOf(id).emailMessageId # id)
    => \/ requests[id].pc \in {"enqueue", "dropped"}
       \/ requests[id].answer = "internal_error"

\* An ACTIONABLE email points at a task made from it, for the company on it.
ActionableEmailHasItsTask ==
  \A id \in Request :
    emails[id] # Null /\ emails[id].status = "ACTIONABLE"
    => /\ emails[id].taskId \in DOMAIN tasks
       /\ tasks[emails[id].taskId] =
            [companyId |-> emails[id].companyId, sourceEmailMessageId |-> id]

\* The document's job was tried again, or taken for stalled and given out again.
Redone(id) == jobOf(id).attemptsMade + jobOf(id).stalled > 0

\* The email of a task carries the verdict that led to the task and the tenant it
\* was made for, so that a reviewer can audit it, unless the job was redone: only
\* another attempt records another verdict (EmailProcessingProcessor.ts:107), and
\* another tenant (line 99) only if the recipient moved.
TaskIsAudited ==
  \A i \in DOMAIN tasks :
    LET id    == tasks[i].sourceEmailMessageId
        moved == Redone(id) /\ moves > 0
    IN  /\ emails[id].llmRawResult \in IF Redone(id) THEN Verdict ELSE {"actionable"}
        /\ emails[id].companyId \in IF moved THEN Company ELSE {tasks[i].companyId}

\* One message makes at most one task: deliveries, retries and overlapping
\* attempts never make a second, as long as its recipient stays where it is.
OneTaskPerMessage ==
  \A i, j \in DOMAIN tasks :
    /\ emails[tasks[i].sourceEmailMessageId].providerMessageId =
         emails[tasks[j].sourceEmailMessageId].providerMessageId
    /\ moves = 0
    => i = j

\* A completed job left its email settled, or overwritten by the late write of
\* QUEUED, or PROCESSING with the task already made (a retry that found it).
CompletedJobSettlesEmail ==
  \A k \in JobId :
    InState(k, "completed") =>
      \/ EmailStatusIn(k, TERMINAL_EMAIL_STATUSES \cup {"QUEUED"})
      \/ /\ EmailStatusIn(k, {"PROCESSING"})
         /\ \E i \in DOMAIN tasks :
              tasks[i].sourceEmailMessageId = jobs[k].emailMessageId

\* Only the late write of QUEUED takes an email out of a terminal status: no
\* attempt and no failed handler does.
TerminalOnlyRequeued ==
  [][\A id \in Request :
       emails[id] # Null /\ emails[id].status \in TERMINAL_EMAIL_STATUSES
       => emails'[id].status \in {emails[id].status, "QUEUED"}]_vars

-------------------------------------------------------------------------------
(* What the repository says of the service and the code does not keep: each   *)
(* is refuted by a run of its own.                                             *)

\* A status that TERMINAL_EMAIL_STATUSES calls terminal is the email's last.
TerminalStatusIsFinal ==
  [][\A id \in Request :
       emails[id] # Null /\ emails[id].status \in TERMINAL_EMAIL_STATUSES
       => emails'[id].status = emails[id].status]_vars

\* A delivery answered "accepted and queued for processing" has a job for the
\* document it stored: deduplication stays on the raw providerMessageId.
QueuedAnswerHasJob ==
  \A r \in Request :
    requests[r].answer = "queued"
    => jobOf(r) # Null /\ jobOf(r).emailMessageId = r

\* When the worker is done with an email whose task exists, the email is ACTIONABLE
\* (or has the late QUEUED over it, or is FAILED by an answer that is no verdict):
\* what was classified leads either to a task or to SKIPPED, and a retry that finds
\* the task reports the email ACTIONABLE.
EmailOfTaskIsActionable ==
  \A i \in DOMAIN tasks, k \in JobId :
    /\ InState(k, "completed")
    /\ jobs[k].emailMessageId = tasks[i].sourceEmailMessageId
    => EmailStatusIn(k, {"ACTIONABLE", "QUEUED", "FAILED"})

-------------------------------------------------------------------------------
(* Liveness. *)

\* Every delivery is answered, unless the process died under it.
EveryDeliveryEnds ==
  \A r \in Request :
    (requests[r].pc \in HandlerStep) ~> (requests[r].pc \in {"answered", "dropped"})

\* Every job completes or fails for good, whatever crashed or stalled.
EveryJobFinishes ==
  \A k \in JobId : (jobs[k] # Null) ~> Finished(k)

\* A job that ran out of attempts leaves its email FAILED (or overwritten by
\* the late QUEUED), unless the process died.  (With as many faults as attempts,
\* so that none is left for onFailed itself.)
ExhaustedEmailIsSettled ==
  \A k \in JobId :
    InState(k, "failed")
    ~> [](EmailStatusIn(k, TERMINAL_EMAIL_STATUSES \cup {"QUEUED"}) \/ crashes > 0)

-------------------------------------------------------------------------------
(* The pipeline implements EmailToTask, as long as no slot loses the lock of  *)
(* its job while it runs, message ids give different job ids and users stay.  *)

documentsOf(m) ==
  {id \in Request : emails[id] # Null /\ emails[id].providerMessageId = m}

tasksOf(m) ==
  {<<tasks[i].companyId, tasks[i].sourceEmailMessageId>> :
     i \in {j \in DOMAIN tasks : tasks[j].sourceEmailMessageId \in documentsOf(m)}}

jobFor(m) == jobs[toEmailProcessingJobId(m)]

Promise == INSTANCE EmailToTask WITH
  EmailId   <- Request,
  TaskId    <- Company \X Request,
  NoVerdict <- Null,
  stored    <- [m \in MessageId |-> documentsOf(m)],
  queued    <- {m \in MessageId : jobFor(m) # Null},
  verdict   <- [m \in MessageId |->
                  IF jobFor(m) = Null THEN Null
                  ELSE emails[jobFor(m).emailMessageId].llmRawResult],
  created   <- [m \in MessageId |-> tasksOf(m)],
  settled   <- {m \in MessageId : Finished(toEmailProcessingJobId(m))}

\* Every behaviour of the pipeline is one of EmailToTask.
KeepsPromise == Promise!Spec

\* ... and, under the pipeline's fairness, one that settles what it queued.
KeepsFairPromise == Promise!FairSpec

===============================================================================
