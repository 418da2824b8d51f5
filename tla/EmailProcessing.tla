---------------------------- MODULE EmailProcessing ----------------------------
(***************************************************************************)
(* The BullMQ worker: EmailProcessingProcessor with TenantResolverService, *)
(* OpenAiService and TaskCreationService.                                  *)
(*                                                                         *)
(* slots:     what each concurrent slot of the worker is doing; pc is the  *)
(*            next call of processEmail, "return" and "throw" are its two  *)
(*            ends, after which BullMQ finishes the job.                   *)
(* handlers:  the onFailed event handlers under way, one per job.          *)
(* directory: the company of the user who owns an address, as UserService  *)
(*            maintains it.  An Address is a lower-cased recipient: the    *)
(*            webhook and findByEmail both apply toLowerCase.              *)
(* moves:     how many times the directory has changed.                     *)
(***************************************************************************)
EXTENDS JobQueue

CONSTANTS MaxMoves  \* bound on the changes of the directory

ASSUME DirectoryAssumption == MaxMoves \in Nat

VARIABLES slots, handlers, directory, moves

workerVars == <<slots, handlers, directory, moves>>

ProcessStep ==
  {"load", "markProcessing", "resolve", "markUnmatched", "setTenant",
   "classify", "storeRaw", "markSkipped", "findTask", "createTask",
   "markActionable", "markFailed", "return", "throw"}

SlotState ==
  [pc      : ProcessStep \cup {"idle"},
   job     : JobId \cup {Null},
   tenant  : Company \cup {Null},
   verdict : Verdict \cup {Null},
   task    : Nat \cup {Null}]

idleSlot == [pc |-> "idle", job |-> Null, tenant |-> Null, verdict |-> Null,
             task |-> Null]

WorkerInit ==
  /\ slots = [s \in Slot |-> idleSlot]
  /\ handlers = [k \in JobId |-> "idle"]
  /\ directory \in [Address -> Company \cup {Null}]
  /\ moves = 0

-------------------------------------------------------------------------------

At(s, pc) == slots[s].pc = pc

Step(s, pc) == slots' = [slots EXCEPT ![s].pc = pc]

\* The job and the email an attempt works on: both are fixed when it starts.
emailIdOf(s) == jobs[slots[s].job].emailMessageId

\* One updateStatus call of processEmail that leaves the email as doc.
Update(s, doc, next) ==
  /\ \/ /\ updateEmail(emailIdOf(s), doc)
        /\ \/ Outcome(TRUE)  /\ Step(s, next)
           \/ Outcome(FALSE) /\ Step(s, "throw")
        /\ UNCHANGED <<tasks, secondary>>
     \/ Throws /\ Step(s, "throw")
  /\ UNCHANGED <<queueVars, handlers, directory, moves>>

\* A call of processEmail that reads only.
Read(s, next) ==
  /\ \/ slots' = [slots EXCEPT ![s] = next] /\ UNCHANGED storeVars
     \/ Throws /\ Step(s, "throw")
  /\ UNCHANGED <<queueVars, handlers, directory, moves>>

Take(s, k) ==
  /\ At(s, "idle")
  /\ LockJob(s, k)
  /\ slots' = [slots EXCEPT ![s] = [idleSlot EXCEPT !.pc = "load", !.job = k]]
  /\ UNCHANGED <<storeVars, lockLosses, handlers, directory, moves>>

\* Mutant: the check for a terminal status is dropped.
LoadIgnoringTerminal(s) ==
  /\ At(s, "load")
  /\ Read(s, [slots[s] EXCEPT !.pc = IF getById(emailIdOf(s)) = Null
                                     THEN "return" ELSE "markProcessing"])

\* Mutant: an email found PROCESSING is taken to be in other hands.
LoadSkippingProcessing(s) ==
  /\ At(s, "load")
  /\ LET email == getById(emailIdOf(s))
         done  == email = Null \/ email.status \notin {"RECEIVED", "QUEUED"}
     IN  Read(s, [slots[s] EXCEPT !.pc = IF done THEN "return"
                                                 ELSE "markProcessing"])

\* A missing or terminal email ends the attempt, and with it the job.
Load(s) ==
  /\ At(s, "load")
  /\ LET email == getById(emailIdOf(s))
         done  == email = Null \/ email.status \in TERMINAL_EMAIL_STATUSES
     IN  Read(s, [slots[s] EXCEPT !.pc = IF done THEN "return"
                                                 ELSE "markProcessing"])

MarkProcessing(s) ==
  /\ At(s, "markProcessing")
  /\ Update(s, withStatus(emailIdOf(s), "PROCESSING"), "resolve")

\* The recipient is fixed at insertion, so the loaded copy is up to date.
Resolve(s) ==
  /\ At(s, "resolve")
  /\ LET tenant == directory[emails[emailIdOf(s)].to]
     IN  Read(s, [slots[s] EXCEPT !.tenant = tenant,
                                  !.pc = IF tenant = Null THEN "markUnmatched"
                                                          ELSE "setTenant"])

MarkUnmatched(s) ==
  /\ At(s, "markUnmatched")
  /\ Update(s, withStatus(emailIdOf(s), "UNMATCHED"), "return")

\* Mutant: the company is not stored.
SetTenantWithoutCompany(s) ==
  /\ At(s, "setTenant")
  /\ Update(s, withStatus(emailIdOf(s), "PROCESSING"), "classify")

SetTenant(s) ==
  /\ At(s, "setTenant")
  /\ Update(s, [withStatus(emailIdOf(s), "PROCESSING")
                  EXCEPT !.companyId = slots[s].tenant],
            "classify")

\* Mutant: the task is made before the raw result is stored.
ClassifyWithoutRecord(s) ==
  /\ At(s, "classify")
  /\ \E v \in Verdict :
       Read(s, [slots[s] EXCEPT !.verdict = v,
                                !.pc = IF v = "actionable" THEN "findTask"
                                                           ELSE "markSkipped"])

\* Mutant: the client has no timeout and waits for ever.
ClassifyWithoutTimeout(s) ==
  /\ At(s, "classify")
  /\ UNCHANGED <<storeVars, queueVars, workerVars>>

\* What the model answers: an error, a refusal among the output, and the text of
\* the output, which is empty, not JSON, not of the schema, or a verdict.
Response ==
  [error       : BOOLEAN,
   refusal     : BOOLEAN,
   output_text : {"empty", "malformed", "invalid"} \cup Verdict]

\* A refusal, or a text without a verdict, is a content failure.
verdictOf(response) ==
  IF response.refusal \/ response.output_text \notin Verdict
  THEN Null ELSE response.output_text

\* classifyEmail.  An error in the response is thrown like one of the call.
Classify(s) ==
  /\ At(s, "classify")
  /\ \E response \in Response :
       /\ ~response.error
       /\ LET verdict == verdictOf(response)
          IN  Read(s, [slots[s] EXCEPT !.verdict = verdict,
                                       !.pc = IF verdict = Null THEN "markFailed"
                                                                ELSE "storeRaw"])

StoreRaw(s) ==
  /\ At(s, "storeRaw")
  /\ Update(s, [withStatus(emailIdOf(s), "PROCESSING")
                  EXCEPT !.llmRawResult = slots[s].verdict],
            IF slots[s].verdict = "actionable" THEN "findTask" ELSE "markSkipped")

MarkSkipped(s) ==
  /\ At(s, "markSkipped")
  /\ Update(s, withStatus(emailIdOf(s), "SKIPPED"), "return")

\* createFromExtraction returns an existing task and writes nothing.
FindTask(s) ==
  /\ At(s, "findTask")
  /\ LET existing == findBySourceEmailMessageId(slots[s].tenant, emailIdOf(s))
     IN  Read(s, [slots[s] EXCEPT !.pc = IF existing = {} THEN "createTask"
                                                          ELSE "return"])

\* The assignee lookup and the insert: neither catches an error.
CreateTask(s) ==
  /\ At(s, "createTask")
  /\ \/ /\ DuplicateTaskKey(slots[s].tenant, emailIdOf(s))
        /\ Step(s, "throw")
        /\ UNCHANGED storeVars
     \/ /\ ~DuplicateTaskKey(slots[s].tenant, emailIdOf(s))
        /\ createTask(slots[s].tenant, emailIdOf(s))
        /\ \/ /\ Outcome(TRUE)
              /\ slots' = [slots EXCEPT ![s].pc = "markActionable",
                                        ![s].task = Len(tasks')]
           \/ Outcome(FALSE) /\ Step(s, "throw")
        /\ UNCHANGED <<emails, secondary>>
     \/ Throws /\ Step(s, "throw")
  /\ UNCHANGED <<queueVars, handlers, directory, moves>>

MarkActionable(s) ==
  /\ At(s, "markActionable")
  /\ Update(s, [withStatus(emailIdOf(s), "ACTIONABLE")
                  EXCEPT !.taskId = slots[s].task],
            "return")

\* The catch of a content failure; an error of this write escapes it.
MarkFailed(s) ==
  /\ At(s, "markFailed")
  /\ Update(s, withStatus(emailIdOf(s), "FAILED"), "return")

Process(s) ==
  \/ Load(s)     \/ MarkProcessing(s) \/ Resolve(s)     \/ MarkUnmatched(s)
  \/ SetTenant(s) \/ Classify(s)      \/ StoreRaw(s)    \/ MarkSkipped(s)
  \/ FindTask(s) \/ CreateTask(s)     \/ MarkActionable(s) \/ MarkFailed(s)

-------------------------------------------------------------------------------
(* The end of an attempt.  BullMQ ignores a slot that lost the job's lock. *)

\* Mutant: off by one on the attempts.
EmitFailedTooLate(k) ==
  handlers' = IF jobs'[k].attemptsMade <= JobAttempts
              THEN handlers ELSE [handlers EXCEPT ![k] = "load"]

\* onFailed returns at once unless the attempts are exhausted.
EmitFailed(k) ==
  handlers' = IF jobs'[k].attemptsMade < JobAttempts
              THEN handlers ELSE [handlers EXCEPT ![k] = "load"]

Complete(s) ==
  /\ At(s, "return")
  /\ IF HoldsLock(s, slots[s].job) THEN CompleteJob(slots[s].job)
                                   ELSE UNCHANGED jobs
  /\ slots' = [slots EXCEPT ![s] = idleSlot]
  /\ UNCHANGED <<storeVars, lockLosses, handlers, directory, moves>>

Fail(s) ==
  /\ At(s, "throw")
  /\ \/ HoldsLock(s, slots[s].job)  /\ FailJob(slots[s].job)
                                    /\ EmitFailed(slots[s].job)
     \/ ~HoldsLock(s, slots[s].job) /\ UNCHANGED <<jobs, handlers>>
  /\ slots' = [slots EXCEPT ![s] = idleSlot]
  /\ UNCHANGED <<storeVars, lockLosses, directory, moves>>

FailStalled(k) ==
  /\ \E s \in Slot : At(s, "idle")
  /\ FailStalledJob(k)
  /\ EmitFailed(k)
  /\ UNCHANGED <<storeVars, lockLosses, slots, directory, moves>>

Handler(k, pc) == handlers' = [handlers EXCEPT ![k] = pc]

\* onFailed: read the email; an error ends the handler.
LoadFailed(k) ==
  /\ handlers[k] = "load"
  /\ LET email == getById(jobs[k].emailMessageId)
         done  == email = Null \/ email.status \in TERMINAL_EMAIL_STATUSES
     IN  \/ Handler(k, IF done THEN "idle" ELSE "mark") /\ UNCHANGED storeVars
         \/ Throws /\ Handler(k, "idle")
  /\ UNCHANGED <<queueVars, slots, directory, moves>>

\* onFailed: write FAILED.
MarkExhausted(k) ==
  /\ handlers[k] = "mark"
  /\ \/ /\ updateEmail(jobs[k].emailMessageId,
                       withStatus(jobs[k].emailMessageId, "FAILED"))
        /\ \E ok \in BOOLEAN : Outcome(ok)
        /\ UNCHANGED <<tasks, secondary>>
     \/ Throws
  /\ Handler(k, "idle")
  /\ UNCHANGED <<queueVars, slots, directory, moves>>

OnFailed(k) == LoadFailed(k) \/ MarkExhausted(k)

\* A call of UserService changes the companies of its user's addresses.
MoveUsers(new) ==
  /\ moves < MaxMoves
  /\ directory # new
  /\ directory' = new
  /\ moves' = moves + 1
  /\ UNCHANGED <<storeVars, queueVars, slots, handlers>>

\* The process dies: attempts and event handlers vanish.
DropAttempts ==
  /\ slots' = [s \in Slot |-> idleSlot]
  /\ handlers' = [k \in JobId |-> "idle"]

WorkerTypeOK ==
  /\ slots \in [Slot -> SlotState]
  /\ handlers \in [JobId -> {"idle", "load", "mark"}]
  /\ directory \in [Address -> Company \cup {Null}]
  /\ moves \in 0..MaxMoves

===============================================================================
