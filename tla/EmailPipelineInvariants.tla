------------------------ MODULE EmailPipelineInvariants ------------------------
(***************************************************************************)
(* The inductive invariant of EmailPipeline.  What the slots and handlers  *)
(* remember between two calls is tied to what the store and the queue      *)
(* hold; the ties survive overlapping attempts because documents, jobs and *)
(* tasks only ever grow (EmailsGrow, JobsGrow, TasksGrow).                 *)
(***************************************************************************)
EXTENDS EmailPipeline

\* A delivery under way knows its message; it has a document only after the
\* insert, and certainly has one once it goes on to enqueue it.
DeliveryOK(r, delivery, E) ==
  /\ delivery.pc \in {"unsent", "findExisting", "createEmail"} => E[r] = Null
  /\ delivery.pc # "unsent" =>
       delivery.providerMessageId \in MessageId /\ delivery.to \in Address
  /\ delivery.pc \in {"enqueue", "markQueued"} =>
       /\ E[r] # Null
       /\ E[r].providerMessageId = delivery.providerMessageId

\* A job names a document whose message gives the job's key.
JobOK(k, job, E) ==
  job # Null =>
    /\ E[job.emailMessageId] # Null
    /\ toEmailProcessingJobId(E[job.emailMessageId].providerMessageId) = k

\* What an attempt has established by the time it reaches each step.
Resolved == {"setTenant", "classify", "storeRaw", "markSkipped", "findTask",
             "createTask", "markActionable", "markFailed"}
Scoped     == Resolved \ {"setTenant"}
Classified == {"storeRaw", "markSkipped", "findTask", "createTask", "markActionable"}
Recorded   == Classified \ {"storeRaw"}

SlotOK(slot, E, J, T) ==
  slot.pc # "idle" =>
    /\ slot.job \in JobId
    /\ J[slot.job] # Null
    /\ slot.pc \in Resolved => slot.tenant \in Company
    /\ slot.pc \in Scoped => E[J[slot.job].emailMessageId].companyId # Null
    /\ slot.pc \in Classified => slot.verdict \in Verdict
    /\ slot.pc \in Recorded => E[J[slot.job].emailMessageId].llmRawResult # Null
    /\ slot.pc = "markActionable" => slot.task \in DOMAIN T

HandlerOK(handler, job) == handler # "idle" => job # Null

TaskOK(task, E) ==
  LET email == E[task.sourceEmailMessageId]
  IN  email # Null /\ email.companyId # Null /\ email.llmRawResult # Null

\* The inductive invariant behind TypeOK, on which the other invariants rest.
IInv ==
  /\ TypeOK
  /\ \A r \in Request : DeliveryOK(r, requests[r], emails)
  /\ \A k \in JobId : JobOK(k, jobs[k], emails)
  /\ \A s \in Slot : SlotOK(slots[s], emails, jobs, tasks)
  /\ \A k \in JobId : HandlerOK(handlers[k], jobs[k])
  /\ \A i \in DOMAIN tasks : TaskOK(tasks[i], emails)

-------------------------------------------------------------------------------
(* What no step takes back. *)

EmailsGrow(E, F) ==
  \A id \in Request :
    E[id] # Null =>
      /\ F[id] # Null
      /\ F[id].providerMessageId = E[id].providerMessageId
      /\ E[id].companyId # Null => F[id].companyId # Null
      /\ E[id].llmRawResult # Null => F[id].llmRawResult # Null

JobsGrow(J, K) ==
  \A k \in JobId :
    J[k] # Null => K[k] # Null /\ K[k].emailMessageId = J[k].emailMessageId

TasksGrow(T, U) == \A i \in DOMAIN T : i \in DOMAIN U /\ U[i] = T[i]

===============================================================================
