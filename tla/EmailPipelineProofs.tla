-------------------------- MODULE EmailPipelineProofs --------------------------
(***************************************************************************)
(* Proofs about EmailPipeline for every value of its constants.            *)
(***************************************************************************)
EXTENDS EmailPipelineInvariants, TLAPS

-------------------------------------------------------------------------------
(* Slots, jobs and tasks keep their ties while the store and queue grow. *)

\* A slot's knowledge stays true when documents, jobs and tasks only grow.
LEMMA SlotOKGrows ==
  ASSUME NEW slot, NEW E, NEW F, NEW J, NEW K, NEW T, NEW U,
         TypeOK, \A k \in JobId : J[k] # Null => J[k].emailMessageId \in Request,
         EmailsGrow(E, F), JobsGrow(J, K), TasksGrow(T, U),
         slot.pc # "idle" /\ slot.job \in JobId /\ J[slot.job] # Null
           => E[J[slot.job].emailMessageId] # Null,
         SlotOK(slot, E, J, T)
  PROVE  SlotOK(slot, F, K, U)
  BY DEF SlotOK, EmailsGrow, JobsGrow, TasksGrow

\* The parts of the invariant that a step does not touch are preserved as soon
\* as emails, jobs and tasks grow; the rest is what a step has to establish.
LEMMA Frame ==
  ASSUME IInv, TypeOK',
         EmailsGrow(emails, emails'), JobsGrow(jobs, jobs'), TasksGrow(tasks, tasks'),
         \A r \in Request : emails[r] = Null => \/ emails'[r] = Null
                                               \/ requests'[r] # requests[r],
         \A r \in Request : \/ requests'[r] = requests[r]
                            \/ DeliveryOK(r, requests'[r], emails'),
         \A k \in JobId : \/ jobs'[k] = jobs[k] \/ jobs[k] # Null
                          \/ JobOK(k, jobs'[k], emails'),
         \A s \in Slot : \/ slots'[s] = slots[s]
                         \/ SlotOK(slots'[s], emails', jobs', tasks'),
         \A k \in JobId : \/ handlers'[k] = handlers[k]
                          \/ HandlerOK(handlers'[k], jobs'[k]),
         \A i \in DOMAIN tasks' : i \in DOMAIN tasks \/ TaskOK(tasks'[i], emails')
  PROVE  IInv'
<1> USE DEF IInv
<1>j. \A k \in JobId : jobs[k] # Null => jobs[k].emailMessageId \in Request
  BY DEF TypeOK, QueueTypeOK, Job
<1>1. \A r \in Request : DeliveryOK(r, requests'[r], emails')
  BY DEF DeliveryOK, EmailsGrow
<1>2. \A k \in JobId : JobOK(k, jobs'[k], emails')
  BY <1>j DEF JobOK, EmailsGrow, JobsGrow
<1>3. \A s \in Slot : SlotOK(slots'[s], emails', jobs', tasks')
  <2> TAKE s \in Slot
  <2>1. CASE slots'[s] = slots[s]
    <3>1. SlotOK(slots[s], emails, jobs, tasks)
      OBVIOUS
    <3>2. slots[s].pc # "idle" /\ slots[s].job \in JobId /\ jobs[slots[s].job] # Null
            => emails[jobs[slots[s].job].emailMessageId] # Null
      BY DEF JobOK
    <3> QED BY <1>j, <2>1, <3>1, <3>2, SlotOKGrows
  <2> QED BY <2>1
<1>4. \A k \in JobId : HandlerOK(handlers'[k], jobs'[k])
  BY DEF HandlerOK, JobsGrow
<1>5. \A i \in DOMAIN tasks' : TaskOK(tasks'[i], emails')
  <2> TAKE i \in DOMAIN tasks'
  <2>1. CASE i \in DOMAIN tasks
    <3>0. tasks \in Seq(Task)
      BY DEF TypeOK, StoreTypeOK
    <3>1. tasks[i] \in Task
      BY <2>1, <3>0
    <3>2. tasks[i].sourceEmailMessageId \in Request
      BY <3>1 DEF Task
    <3> QED BY <2>1, <3>2 DEF TaskOK, TasksGrow, EmailsGrow
  <2> QED BY <2>1
<1> QED BY <1>1, <1>2, <1>3, <1>4, <1>5

\* Nothing shrinks in a step that leaves a collection alone.
LEMMA GrowReflexive ==
  /\ UNCHANGED emails => EmailsGrow(emails, emails')
  /\ UNCHANGED jobs => JobsGrow(jobs, jobs')
  /\ UNCHANGED tasks => TasksGrow(tasks, tasks')
  BY DEF EmailsGrow, JobsGrow, TasksGrow

\* The count of faults stays within its bound.
LEMMA OutcomeBound ==
  ASSUME NEW ok \in BOOLEAN, faults \in 0..MaxFaults, Outcome(ok)
  PROVE  faults' \in 0..MaxFaults
  BY StoreAssumption DEF Outcome, StoreAssumption

\* A call that throws without effect keeps the store well typed.
LEMMA ThrowsType ==
  ASSUME StoreTypeOK, Throws
  PROVE  StoreTypeOK'
  BY OutcomeBound DEF Throws, StoreTypeOK

\* updateStatus keeps what earlier calls recorded, when its document does.
LEMMA UpdateGrows ==
  ASSUME StoreTypeOK, NEW id \in Request, NEW doc \in EmailMessage,
         emails[id] # Null,
         doc.providerMessageId = emails[id].providerMessageId,
         emails[id].companyId # Null => doc.companyId # Null,
         emails[id].llmRawResult # Null => doc.llmRawResult # Null,
         updateEmail(id, doc)
  PROVE  /\ EmailsGrow(emails, emails')
         /\ \A r \in Request : emails[r] = Null => emails'[r] = Null
         /\ emails' \in [Request -> EmailMessage \cup {Null}]
         /\ emails'[id] = doc
         /\ emails'[id] # Null
<1>1. emails \in [Request -> EmailMessage \cup {Null}]
  BY DEF StoreTypeOK
<1>2. emails' = [emails EXCEPT ![id] = doc]
  BY DEF updateEmail
<1>3. doc # Null
  BY NullAssumption DEF NullAssumption
<1>4. emails' \in [Request -> EmailMessage \cup {Null}] /\ emails'[id] = doc
  BY <1>1, <1>2
<1>5. /\ EmailsGrow(emails, emails')
      /\ \A r \in Request : emails[r] = Null => emails'[r] = Null
  BY <1>1, <1>2, <1>3 DEF EmailsGrow
<1> QED BY <1>3, <1>4, <1>5

\* What a busy slot may rely on: its job and its email exist.
LEMMA SlotFacts ==
  ASSUME IInv, NEW s \in Slot, slots[s].pc # "idle"
  PROVE  /\ slots[s] \in SlotState
         /\ slots[s].job \in JobId
         /\ jobs[slots[s].job] \in Job
         /\ emailIdOf(s) \in Request
         /\ emails[emailIdOf(s)] \in EmailMessage
         /\ emails[emailIdOf(s)] # Null
<1>1. slots[s] \in SlotState
  BY DEF IInv, TypeOK, WorkerTypeOK
<1>2. slots[s].job \in JobId /\ jobs[slots[s].job] # Null
  BY DEF IInv, SlotOK
<1>3. jobs[slots[s].job] \in Job
  BY <1>2 DEF IInv, TypeOK, QueueTypeOK
<1>4. emailIdOf(s) \in Request
  BY <1>3 DEF Job, emailIdOf
<1>5. emails[emailIdOf(s)] # Null
  BY <1>2 DEF IInv, JobOK, emailIdOf
<1>6. emails[emailIdOf(s)] \in EmailMessage
  BY <1>4, <1>5 DEF IInv, TypeOK, StoreTypeOK
<1> QED BY <1>1, <1>2, <1>3, <1>4, <1>5, <1>6

\* A step of one slot keeps the slots well typed.
LEMMA SlotType ==
  ASSUME WorkerTypeOK, NEW s \in Slot, NEW slot \in SlotState,
         slots' = [slots EXCEPT ![s] = slot]
  PROVE  /\ slots' \in [Slot -> SlotState]
         /\ slots'[s] = slot
         /\ \A t \in Slot : t # s => slots'[t] = slots[t]
  BY DEF WorkerTypeOK

\* Moving a slot to another step changes nothing else of it.
LEMMA StepType ==
  ASSUME WorkerTypeOK, NEW s \in Slot, NEW pc \in ProcessStep, Step(s, pc)
  PROVE  /\ slots' = [slots EXCEPT ![s] = [slots[s] EXCEPT !.pc = pc]]
         /\ [slots[s] EXCEPT !.pc = pc] \in SlotState
         /\ slots'[s] = [slots[s] EXCEPT !.pc = pc]
<1>1. slots[s] \in SlotState
  BY DEF WorkerTypeOK
<1>2. [slots[s] EXCEPT !.pc = pc] \in SlotState
  BY <1>1 DEF SlotState
<1>3. slots' = [slots EXCEPT ![s] = [slots[s] EXCEPT !.pc = pc]]
  BY DEF Step, WorkerTypeOK
<1> QED BY <1>2, <1>3 DEF WorkerTypeOK

-------------------------------------------------------------------------------
(* The two shapes of a worker's step. *)

\* A step that only reads preserves the invariant if the slot may know what it
\* then claims to know.
LEMMA ReadStep ==
  ASSUME IInv, NEW s \in Slot, slots[s].pc # "idle",
         NEW slot \in SlotState, SlotOK(slot, emails, jobs, tasks),
         Read(s, slot), UNCHANGED <<requests, crashes>>
  PROVE  IInv'
<1>0. UNCHANGED <<emails, tasks, secondary, jobs, lockLosses, handlers, directory, moves>>
  BY DEF Read, Throws, storeVars, queueVars
<1>1. TypeOK /\ StoreTypeOK /\ WorkerTypeOK
  BY DEF IInv, TypeOK
<1>2. StoreTypeOK'
  BY <1>1, ThrowsType DEF Read, storeVars, StoreTypeOK
<1>3. /\ slots' \in [Slot -> SlotState]
      /\ \A t \in Slot : slots'[t] = slots[t] \/ SlotOK(slots'[t], emails', jobs', tasks')
  <2>1. CASE slots' = [slots EXCEPT ![s] = slot]
    BY <1>0, <1>1, <2>1, SlotType
  <2>2. CASE Step(s, "throw")
    <3>1. "throw" \in ProcessStep
      BY DEF ProcessStep
    <3>2. SlotOK([slots[s] EXCEPT !.pc = "throw"], emails, jobs, tasks)
      BY SlotFacts DEF IInv, SlotOK, SlotState, Resolved, Scoped, Classified, Recorded
    <3> QED BY <1>0, <1>1, <2>2, <3>1, <3>2, StepType, SlotType
  <2> QED BY <2>1, <2>2 DEF Read
<1>4. TypeOK'
  BY <1>0, <1>1, <1>2, <1>3 DEF TypeOK, QueueTypeOK, InboundTypeOK, WorkerTypeOK
<1> QED BY <1>0, <1>3, <1>4, GrowReflexive, Frame

\* A step that calls updateStatus preserves the invariant if the document keeps
\* what was recorded and the slot may know what the next step takes for granted.
LEMMA UpdateStep ==
  ASSUME IInv, NEW s \in Slot, slots[s].pc # "idle",
         NEW doc \in EmailMessage, NEW next \in ProcessStep,
         doc.providerMessageId = emails[emailIdOf(s)].providerMessageId,
         emails[emailIdOf(s)].companyId # Null => doc.companyId # Null,
         emails[emailIdOf(s)].llmRawResult # Null => doc.llmRawResult # Null,
         next \in Resolved => slots[s].tenant \in Company,
         next \in Scoped => doc.companyId # Null,
         next \in Classified => slots[s].verdict \in Verdict,
         next \in Recorded => doc.llmRawResult # Null,
         next # "markActionable",
         Update(s, doc, next), UNCHANGED <<requests, crashes>>
  PROVE  IInv'
<1>0. UNCHANGED <<tasks, secondary, jobs, lockLosses, handlers, directory, moves>>
  BY DEF Update, Throws, queueVars
<1>1. TypeOK /\ StoreTypeOK /\ WorkerTypeOK
  BY DEF IInv, TypeOK
<1>2. CASE updateEmail(emailIdOf(s), doc) /\ (Step(s, next) \/ Step(s, "throw"))
           /\ \E ok \in BOOLEAN : Outcome(ok)
  <2>1. /\ EmailsGrow(emails, emails')
        /\ \A r \in Request : emails[r] = Null => emails'[r] = Null
        /\ emails' \in [Request -> EmailMessage \cup {Null}]
        /\ emails'[emailIdOf(s)] = doc
    BY <1>1, <1>2, SlotFacts, UpdateGrows
  <2>2. StoreTypeOK'
    BY <1>0, <1>1, <1>2, <2>1, OutcomeBound DEF StoreTypeOK
  <2>3. PICK pc \in {next, "throw"} : Step(s, pc)
    BY <1>2
  <2>4. pc \in ProcessStep
    BY DEF ProcessStep
  <2> DEFINE slot == [slots[s] EXCEPT !.pc = pc]
  <2>5. SlotOK(slot, emails', jobs', tasks')
    <3>1. slots[s] \in SlotState /\ slots[s].job \in JobId
      BY SlotFacts
    <3>2. slot.pc = pc /\ slot.job = slots[s].job /\ slot.tenant = slots[s].tenant
            /\ slot.verdict = slots[s].verdict
      BY <3>1 DEF SlotState
    <3>3. emails'[jobs'[slot.job].emailMessageId] = doc
      BY <1>0, <2>1, <3>2 DEF emailIdOf
    <3>4. jobs'[slot.job] # Null
      BY <1>0, <3>1, <3>2, SlotFacts, NullJobAssumption DEF NullJobAssumption
    <3>5. "throw" \notin Resolved \cup Scoped \cup Classified \cup Recorded
      BY DEF Resolved, Scoped, Classified, Recorded
    <3>6. pc = next \/ pc = "throw"
      BY <2>3
    <3> HIDE DEF slot
    <3> QED BY <3>1, <3>2, <3>3, <3>4, <3>5, <3>6 DEF SlotOK
  <2>6. /\ slots' \in [Slot -> SlotState]
        /\ \A t \in Slot : slots'[t] = slots[t] \/ SlotOK(slots'[t], emails', jobs', tasks')
    BY <1>1, <2>3, <2>4, <2>5, StepType, SlotType
  <2>7. TypeOK'
    BY <1>0, <1>1, <2>2, <2>6 DEF TypeOK, QueueTypeOK, InboundTypeOK, WorkerTypeOK
  <2> QED BY <1>0, <2>1, <2>6, <2>7, GrowReflexive, Frame
<1>3. CASE Throws /\ Step(s, "throw")
  <2>1. slots[s] \in SlotState
    BY SlotFacts
  <2>2. SlotOK([slots[s] EXCEPT !.pc = "throw"], emails, jobs, tasks)
    BY <2>1, SlotFacts DEF IInv, SlotOK, SlotState, Resolved, Scoped, Classified, Recorded
  <2>3. "throw" \in ProcessStep
    BY DEF ProcessStep
  <2>4. Read(s, [slots[s] EXCEPT !.pc = "throw"])
    BY <1>0, <1>3 DEF Read, queueVars
  <2> QED BY <1>1, <2>2, <2>3, <2>4, <1>3, StepType, ReadStep
<1> QED BY <1>2, <1>3 DEF Update

-------------------------------------------------------------------------------
(* The steps of an attempt, one by one. *)

\* What processEmail's steps know of the slot that takes them.
LEMMA ProcessKeeps ==
  ASSUME IInv, NEW s \in Slot, Process(s), UNCHANGED <<requests, crashes>>
  PROVE  IInv'
<1> DEFINE id    == emailIdOf(s)
           email == emails[id]
           job   == slots[s].job
<1>a. slots[s].pc # "idle"
  BY DEF Process, Load, MarkProcessing, Resolve, MarkUnmatched, SetTenant, Classify,
         StoreRaw, MarkSkipped, FindTask, CreateTask, MarkActionable, MarkFailed, At
<1>b. /\ slots[s] \in SlotState /\ job \in JobId /\ jobs[job] \in Job /\ jobs[job] # Null
      /\ id \in Request /\ email \in EmailMessage /\ email # Null
  BY <1>a, SlotFacts, NullJobAssumption DEF NullJobAssumption
<1>c. SlotOK(slots[s], emails, jobs, tasks)
  BY DEF IInv
<1>d. /\ slots[s].pc \in Resolved => slots[s].tenant \in Company
      /\ slots[s].pc \in Scoped => email.companyId # Null
      /\ slots[s].pc \in Classified => slots[s].verdict \in Verdict
      /\ slots[s].pc \in Recorded => email.llmRawResult # Null
      /\ slots[s].pc = "markActionable" => slots[s].task \in DOMAIN tasks
  BY <1>a, <1>c DEF SlotOK, emailIdOf
<1>e. StoreTypeOK /\ WorkerTypeOK /\ TypeOK
  BY DEF IInv, TypeOK
<1>f. \A status \in EmailMessageStatus :
        /\ withStatus(id, status) \in EmailMessage
        /\ withStatus(id, status).providerMessageId = email.providerMessageId
        /\ withStatus(id, status).companyId = email.companyId
        /\ withStatus(id, status).llmRawResult = email.llmRawResult
  BY <1>b DEF withStatus, EmailMessage
<1>g. {"return", "throw", "load", "resolve", "classify", "findTask", "markSkipped",
       "markProcessing", "markUnmatched", "setTenant", "storeRaw", "markFailed",
       "createTask", "markActionable"} \subseteq ProcessStep
  BY DEF ProcessStep
<1>h. {"return", "throw", "resolve", "markProcessing", "markUnmatched"}
        \cap (Resolved \cup Scoped \cup Classified \cup Recorded) = {}
  BY DEF Resolved, Scoped, Classified, Recorded
<1>i. {"PROCESSING", "UNMATCHED", "SKIPPED", "ACTIONABLE", "FAILED"} \subseteq EmailMessageStatus
  BY DEF EmailMessageStatus
<1> HIDE DEF id, email, job
<1>1. CASE Load(s)
  <2>1. PICK pc \in {"return", "markProcessing"} : Read(s, [slots[s] EXCEPT !.pc = pc])
    BY <1>1 DEF Load
  <2>2. [slots[s] EXCEPT !.pc = pc] \in SlotState
    BY <1>b, <1>g DEF SlotState
  <2>3. SlotOK([slots[s] EXCEPT !.pc = pc], emails, jobs, tasks)
    BY <1>b, <1>h DEF SlotOK, SlotState, job
  <2> QED BY <1>a, <2>1, <2>2, <2>3, ReadStep
<1>2. CASE MarkProcessing(s)
  BY <1>2, <1>a, <1>b, <1>f, <1>g, <1>h, <1>i, UpdateStep DEF MarkProcessing, id, email
<1>3. CASE Resolve(s)
  <2> DEFINE tenant == directory[email.to]
             pc     == IF tenant = Null THEN "markUnmatched" ELSE "setTenant"
             slot   == [slots[s] EXCEPT !.tenant = tenant, !.pc = pc]
  <2>1. Read(s, slot)
    BY <1>3 DEF Resolve, id, email
  <2>2. tenant \in Company \cup {Null}
    BY <1>b, <1>e DEF WorkerTypeOK, EmailMessage
  <2>3. slot \in SlotState
    BY <1>b, <1>g, <2>2 DEF SlotState
  <2>4. SlotOK(slot, emails, jobs, tasks)
    BY <1>b, <1>h, <2>2 DEF SlotOK, SlotState, job, Resolved, Scoped, Classified, Recorded
  <2> QED BY <1>a, <2>1, <2>3, <2>4, ReadStep
<1>4. CASE MarkUnmatched(s)
  BY <1>4, <1>a, <1>b, <1>f, <1>g, <1>h, <1>i, UpdateStep DEF MarkUnmatched, id, email
<1>5. CASE SetTenant(s)
  <2> DEFINE doc == [withStatus(id, "PROCESSING") EXCEPT !.companyId = slots[s].tenant]
  <2>1. slots[s].tenant \in Company
    BY <1>5, <1>d DEF SetTenant, At, Resolved
  <2>2. /\ doc \in EmailMessage
        /\ doc.providerMessageId = email.providerMessageId
        /\ doc.companyId = slots[s].tenant
        /\ doc.llmRawResult = email.llmRawResult
    BY <1>f, <1>i, <2>1 DEF EmailMessage
  <2>3. doc.companyId # Null
    BY <2>1, <2>2, NullAssumption DEF NullAssumption
  <2>4. Update(s, doc, "classify")
    BY <1>5 DEF SetTenant, id
  <2>5. "classify" \notin Classified \cup Recorded
    BY DEF Classified, Recorded
  <2> HIDE DEF doc
  <2> QED BY <1>a, <1>g, <2>1, <2>2, <2>3, <2>4, <2>5, UpdateStep DEF id, email
<1>6. CASE Classify(s)
  <2>1. PICK v \in Verdict \cup {Null} :
          Read(s, [slots[s] EXCEPT !.verdict = v,
                                   !.pc = IF v = Null THEN "markFailed" ELSE "storeRaw"])
    <3>1. PICK response \in Response :
            Read(s, [slots[s] EXCEPT !.verdict = verdictOf(response),
                                     !.pc = IF verdictOf(response) = Null
                                            THEN "markFailed" ELSE "storeRaw"])
      BY <1>6 DEF Classify
    <3>2. verdictOf(response) \in Verdict \cup {Null}
      BY DEF verdictOf
    <3> QED BY <3>1, <3>2
  <2> DEFINE pc   == IF v = Null THEN "markFailed" ELSE "storeRaw"
             slot == [slots[s] EXCEPT !.verdict = v, !.pc = pc]
  <2>2. slot \in SlotState
    BY <1>b, <1>g DEF SlotState
  <2>3. slots[s].tenant \in Company /\ email.companyId # Null
    BY <1>6, <1>d DEF Classify, At, Resolved, Scoped
  <2>4. SlotOK(slot, emails, jobs, tasks)
    BY <1>b, <2>3 DEF SlotOK, SlotState, Resolved, Scoped, Classified, Recorded, job,
                      email, id, emailIdOf
  <2> QED BY <1>a, <2>1, <2>2, <2>4, ReadStep
<1>7. CASE StoreRaw(s)
  <2> DEFINE doc == [withStatus(id, "PROCESSING") EXCEPT !.llmRawResult = slots[s].verdict]
  <2>1. slots[s].verdict \in Verdict /\ slots[s].tenant \in Company /\ email.companyId # Null
    BY <1>7, <1>d DEF StoreRaw, At, Classified, Resolved, Scoped
  <2>2. /\ doc \in EmailMessage
        /\ doc.providerMessageId = email.providerMessageId
        /\ doc.companyId = email.companyId
        /\ doc.llmRawResult = slots[s].verdict
    BY <1>f, <1>i, <2>1 DEF EmailMessage
  <2>3. doc.llmRawResult # Null
    BY <2>1, <2>2, NullAssumption DEF NullAssumption
  <2>4. PICK next \in {"findTask", "markSkipped"} : Update(s, doc, next)
    BY <1>7 DEF StoreRaw, id
  <2> HIDE DEF doc
  <2> QED BY <1>a, <1>g, <2>1, <2>2, <2>3, <2>4, UpdateStep DEF id, email
<1>8. CASE MarkSkipped(s)
  BY <1>8, <1>a, <1>b, <1>f, <1>g, <1>h, <1>i, UpdateStep DEF MarkSkipped, id, email
<1>9. CASE FindTask(s)
  <2>1. PICK pc \in {"createTask", "return"} : Read(s, [slots[s] EXCEPT !.pc = pc])
    BY <1>9 DEF FindTask
  <2>2. [slots[s] EXCEPT !.pc = pc] \in SlotState
    BY <1>b, <1>g DEF SlotState
  <2>3. /\ slots[s].tenant \in Company /\ email.companyId # Null
        /\ slots[s].verdict \in Verdict /\ email.llmRawResult # Null
    BY <1>9, <1>d DEF FindTask, At, Resolved, Scoped, Classified, Recorded
  <2>4. SlotOK([slots[s] EXCEPT !.pc = pc], emails, jobs, tasks)
    BY <1>b, <2>3 DEF SlotOK, SlotState, job, email, id, emailIdOf
  <2> QED BY <1>a, <2>1, <2>2, <2>4, ReadStep
<1>10. CASE CreateTask(s)
  <2>1. /\ slots[s].tenant \in Company /\ email.companyId # Null
        /\ slots[s].verdict \in Verdict /\ email.llmRawResult # Null
    BY <1>10, <1>d DEF CreateTask, At, Resolved, Scoped, Classified, Recorded
  <2>2. CASE Step(s, "throw") /\ (UNCHANGED storeVars \/ Throws)
    <3>1. [slots[s] EXCEPT !.pc = "throw"] \in SlotState
      BY <1>b, <1>g DEF SlotState
    <3>2. SlotOK([slots[s] EXCEPT !.pc = "throw"], emails, jobs, tasks)
      BY <1>b, <1>h DEF SlotOK, SlotState, job
    <3>3. slots' = [slots EXCEPT ![s] = [slots[s] EXCEPT !.pc = "throw"]]
      BY <1>e, <1>g, <2>2, StepType
    <3>4. Read(s, [slots[s] EXCEPT !.pc = "throw"])
      BY <1>10, <2>2, <3>3 DEF CreateTask, Read
    <3> QED BY <1>a, <3>1, <3>2, <3>4, ReadStep
  <2>3. CASE /\ createTask(slots[s].tenant, id)
             /\ \E ok \in BOOLEAN : Outcome(ok)
             /\ UNCHANGED <<emails, secondary>>
             /\ \/ slots' = [slots EXCEPT ![s].pc = "markActionable", ![s].task = Len(tasks')]
                \/ Step(s, "throw")
    <3> DEFINE task == [companyId |-> slots[s].tenant, sourceEmailMessageId |-> id]
    <3>1. UNCHANGED <<jobs, lockLosses, handlers, directory, moves, requests, crashes>>
      BY <1>10 DEF CreateTask, queueVars
    <3>2. tasks \in Seq(Task) /\ task \in Task
      BY <1>b, <1>e, <2>1 DEF StoreTypeOK, Task
    <3>3. tasks' = Append(tasks, task)
      BY <2>3 DEF createTask
    <3>4. /\ tasks' \in Seq(Task)
          /\ Len(tasks') = Len(tasks) + 1
          /\ tasks'[Len(tasks')] = task
          /\ DOMAIN tasks' = 1..(Len(tasks) + 1)
          /\ Len(tasks') \in DOMAIN tasks' /\ Len(tasks') \in Nat
          /\ \A i \in DOMAIN tasks' : i \in DOMAIN tasks \/ i = Len(tasks')
          /\ TasksGrow(tasks, tasks')
      BY <3>2, <3>3 DEF TasksGrow
    <3>5. StoreTypeOK'
      BY <1>e, <2>3, <3>4, OutcomeBound DEF StoreTypeOK
    <3>6. TaskOK(task, emails')
      BY <1>b, <2>1, <2>3 DEF TaskOK, email
    <3>7. PICK slot \in SlotState :
             /\ slots' = [slots EXCEPT ![s] = slot]
             /\ SlotOK(slot, emails', jobs', tasks')
      <4>1. CASE Step(s, "throw")
        <5>1. SlotOK([slots[s] EXCEPT !.pc = "throw"], emails', jobs', tasks')
          BY <1>b, <1>h, <3>1 DEF SlotOK, SlotState, job
        <5> QED BY <1>e, <1>g, <4>1, <5>1, StepType
      <4>2. CASE slots' = [slots EXCEPT ![s].pc = "markActionable", ![s].task = Len(tasks')]
        <5> DEFINE slot == [slots[s] EXCEPT !.pc = "markActionable", !.task = Len(tasks')]
        <5>1. slots' = [slots EXCEPT ![s] = slot]
          BY <1>e, <4>2 DEF WorkerTypeOK
        <5>2. slot \in SlotState
          BY <1>b, <1>g, <3>4 DEF SlotState
        <5>3. SlotOK(slot, emails', jobs', tasks')
          BY <1>b, <2>1, <2>3, <3>1, <3>4
             DEF SlotOK, SlotState, job, email, id, emailIdOf
        <5> QED BY <5>1, <5>2, <5>3
      <4> QED BY <2>3, <4>1, <4>2
    <3>8. /\ slots' \in [Slot -> SlotState]
          /\ \A t \in Slot : slots'[t] = slots[t] \/ SlotOK(slots'[t], emails', jobs', tasks')
      BY <1>e, <3>7, SlotType
    <3>9. TypeOK'
      BY <1>e, <3>1, <3>5, <3>8 DEF TypeOK, QueueTypeOK, InboundTypeOK, WorkerTypeOK
    <3>10. \A i \in DOMAIN tasks' : i \in DOMAIN tasks \/ TaskOK(tasks'[i], emails')
      BY <3>4, <3>6
    <3> QED BY <2>3, <3>1, <3>4, <3>8, <3>9, <3>10, GrowReflexive, Frame
  <2> QED BY <1>10, <2>2, <2>3 DEF CreateTask, id
<1>11. CASE MarkActionable(s)
  <2> DEFINE doc == [withStatus(id, "ACTIONABLE") EXCEPT !.taskId = slots[s].task]
  <2>1. slots[s].task \in Nat \cup {Null}
    BY <1>b DEF SlotState
  <2>2. /\ doc \in EmailMessage
        /\ doc.providerMessageId = email.providerMessageId
        /\ doc.companyId = email.companyId
        /\ doc.llmRawResult = email.llmRawResult
    BY <1>f, <1>i, <2>1 DEF EmailMessage
  <2>3. Update(s, doc, "return")
    BY <1>11 DEF MarkActionable, id
  <2> HIDE DEF doc
  <2> QED BY <1>a, <1>g, <1>h, <2>2, <2>3, UpdateStep DEF id, email
<1>12. CASE MarkFailed(s)
  BY <1>12, <1>a, <1>b, <1>f, <1>g, <1>h, <1>i, UpdateStep DEF MarkFailed, id, email
<1> QED BY <1>1, <1>2, <1>3, <1>4, <1>5, <1>6, <1>7, <1>8, <1>9, <1>10, <1>11, <1>12
       DEF Process

-------------------------------------------------------------------------------
(* Steps of the queue. *)

\* A step of the queue on a job that exists keeps its email.
LEMMA JobUpdate ==
  ASSUME jobs \in [JobId -> Job \cup {Null}], NEW k \in JobId, NEW job \in Job,
         jobs[k] # Null, job.emailMessageId = jobs[k].emailMessageId,
         jobs' = [jobs EXCEPT ![k] = job]
  PROVE  /\ jobs' \in [JobId -> Job \cup {Null}]
         /\ JobsGrow(jobs, jobs')
         /\ \A j \in JobId : jobs'[j] = jobs[j] \/ jobs[j] # Null
         /\ jobs'[k] = job /\ jobs'[k] # Null
<1>1. job # Null
  BY NullJobAssumption DEF NullJobAssumption
<1> QED BY <1>1 DEF JobsGrow

\* Every operation of the queue on a job that exists is such a step.
LEMMA JobOperation ==
  ASSUME jobs \in [JobId -> Job \cup {Null}], NEW k \in JobId, jobs[k] # Null,
         \/ \E s \in Slot : LockJob(s, k)
         \/ CompleteJob(k) \/ FailJob(k) \/ FailStalledJob(k)
         \/ RecoverStalledJob(k) \/ LoseLock(k)
  PROVE  /\ jobs' \in [JobId -> Job \cup {Null}]
         /\ JobsGrow(jobs, jobs')
         /\ \A j \in JobId : jobs'[j] = jobs[j] \/ jobs[j] # Null
         /\ jobs'[k] # Null
<1>1. jobs[k] \in Job
  OBVIOUS
<1>n. jobs[k].attemptsMade + 1 \in Nat /\ jobs[k].stalled + 1 \in Nat
  BY <1>1 DEF Job
<1>2. CASE \E s \in Slot : LockJob(s, k)
  <2>1. PICK s \in Slot : LockJob(s, k)
    BY <1>2
  <2> DEFINE job == [jobs[k] EXCEPT !.state = "active", !.lock = s]
  <2>2. job \in Job /\ job.emailMessageId = jobs[k].emailMessageId
    BY <1>1 DEF Job
  <2>3. jobs' = [jobs EXCEPT ![k] = job]
    BY <2>1 DEF LockJob
  <2> QED BY <2>2, <2>3, JobUpdate
<1>3. CASE CompleteJob(k)
  <2> DEFINE job == [jobs[k] EXCEPT !.state = "completed", !.lock = Null]
  <2>2. job \in Job /\ job.emailMessageId = jobs[k].emailMessageId
    BY <1>1 DEF Job
  <2>3. jobs' = [jobs EXCEPT ![k] = job]
    BY <1>3 DEF CompleteJob
  <2> QED BY <2>2, <2>3, JobUpdate
<1>4. CASE FailJob(k)
  <2> DEFINE state == IF jobs[k].attemptsMade + 1 < JobAttempts THEN "waiting" ELSE "failed"
             job   == [jobs[k] EXCEPT !.attemptsMade = @ + 1, !.lock = Null, !.state = state]
  <2>1. state \in {"waiting", "failed"}
    OBVIOUS
  <2> HIDE DEF state
  <2>2. job \in Job /\ job.emailMessageId = jobs[k].emailMessageId
    BY <1>1, <1>n, <2>1 DEF Job
  <2>3. jobs' = [jobs EXCEPT ![k] = job]
    BY <1>4 DEF FailJob, state
  <2> QED BY <2>2, <2>3, JobUpdate
<1>5. CASE FailStalledJob(k)
  <2> DEFINE job == [jobs[k] EXCEPT !.attemptsMade = @ + 1, !.state = "failed"]
  <2>2. job \in Job /\ job.emailMessageId = jobs[k].emailMessageId
    BY <1>1, <1>n DEF Job
  <2>3. jobs' = [jobs EXCEPT ![k] = job]
    BY <1>5 DEF FailStalledJob
  <2> QED BY <2>2, <2>3, JobUpdate
<1>6. CASE RecoverStalledJob(k)
  <2> DEFINE job == [jobs[k] EXCEPT !.state = "waiting", !.stalled = @ + 1]
  <2>2. job \in Job /\ job.emailMessageId = jobs[k].emailMessageId
    BY <1>1, <1>n DEF Job
  <2>3. jobs' = [jobs EXCEPT ![k] = job]
    BY <1>6 DEF RecoverStalledJob
  <2> QED BY <2>2, <2>3, JobUpdate
<1>7. CASE LoseLock(k)
  <2> DEFINE job == [jobs[k] EXCEPT !.lock = Null]
  <2>2. job \in Job /\ job.emailMessageId = jobs[k].emailMessageId
    BY <1>1 DEF Job
  <2>3. jobs' = [jobs EXCEPT ![k] = job]
    BY <1>7 DEF LoseLock
  <2> QED BY <2>2, <2>3, JobUpdate
<1> QED BY <1>2, <1>3, <1>4, <1>5, <1>6, <1>7

\* A step that changes only the queue, slots and handlers.
LEMMA QueueStep ==
  ASSUME IInv, UNCHANGED <<storeVars, requests, directory, moves, crashes>>,
         jobs' \in [JobId -> Job \cup {Null}], JobsGrow(jobs, jobs'),
         \A k \in JobId : jobs'[k] = jobs[k] \/ jobs[k] # Null,
         lockLosses' \in 0..MaxLockLosses,
         slots' \in [Slot -> SlotState],
         \A s \in Slot : slots'[s] = slots[s] \/ SlotOK(slots'[s], emails', jobs', tasks'),
         handlers' \in [JobId -> {"idle", "load", "mark"}],
         \A k \in JobId : handlers'[k] = handlers[k] \/ HandlerOK(handlers'[k], jobs'[k])
  PROVE  IInv'
<1>1. UNCHANGED <<emails, tasks, secondary, faults>>
  BY DEF storeVars
<1>2. TypeOK
  BY DEF IInv
<1>3. TypeOK'
  BY <1>1, <1>2 DEF TypeOK, StoreTypeOK, QueueTypeOK, InboundTypeOK, WorkerTypeOK
<1> QED BY <1>1, <1>3, GrowReflexive, Frame

\* An idle slot claims nothing.
LEMMA IdleSlot ==
  /\ idleSlot \in SlotState
  /\ \A E, J, T : SlotOK(idleSlot, E, J, T)
  BY DEF idleSlot, SlotState, SlotOK

\* onFailed starts only for a job that exists.
LEMMA EmitKeeps ==
  ASSUME IInv, NEW k \in JobId, jobs'[k] # Null, EmitFailed(k)
  PROVE  /\ handlers' \in [JobId -> {"idle", "load", "mark"}]
         /\ \A j \in JobId : handlers'[j] = handlers[j] \/ HandlerOK(handlers'[j], jobs'[j])
  BY DEF IInv, TypeOK, WorkerTypeOK, EmitFailed, HandlerOK

\* Fetching a job, or finding that it stalled too often.
LEMMA FetchKeeps ==
  ASSUME IInv, Fetch
  PROVE  IInv'
<1>1. jobs \in [JobId -> Job \cup {Null}] /\ lockLosses \in 0..MaxLockLosses /\ WorkerTypeOK
  BY DEF IInv, TypeOK, QueueTypeOK
<1>2. ASSUME NEW s \in Slot, NEW k \in JobId, Take(s, k), UNCHANGED <<requests, crashes>>
      PROVE  IInv'
  <2> DEFINE slot == [idleSlot EXCEPT !.pc = "load", !.job = k]
  <2>1. jobs[k] # Null /\ LockJob(s, k)
    BY <1>2 DEF Take, LockJob, InState
  <2>2. /\ jobs' \in [JobId -> Job \cup {Null}] /\ JobsGrow(jobs, jobs')
        /\ \A j \in JobId : jobs'[j] = jobs[j] \/ jobs[j] # Null
        /\ jobs'[k] # Null
    BY <1>1, <2>1, JobOperation
  <2>3. slot \in SlotState /\ slots' = [slots EXCEPT ![s] = slot]
    BY <1>2, IdleSlot DEF Take, SlotState, ProcessStep
  <2>4. SlotOK(slot, emails', jobs', tasks')
    BY <2>2 DEF SlotOK, idleSlot, Resolved, Scoped, Classified, Recorded
  <2>5. UNCHANGED <<storeVars, lockLosses, handlers, directory, moves>>
    BY <1>2 DEF Take
  <2> QED BY <1>1, <1>2, <2>2, <2>3, <2>4, <2>5, SlotType, QueueStep DEF WorkerTypeOK
<1>3. ASSUME NEW k \in JobId, FailStalled(k), UNCHANGED <<requests, crashes>>
      PROVE  IInv'
  <2>1. jobs[k] # Null /\ FailStalledJob(k) /\ EmitFailed(k)
    BY <1>3 DEF FailStalled, FailStalledJob, InState
  <2>2. /\ jobs' \in [JobId -> Job \cup {Null}] /\ JobsGrow(jobs, jobs')
        /\ \A j \in JobId : jobs'[j] = jobs[j] \/ jobs[j] # Null
        /\ jobs'[k] # Null
    BY <1>1, <2>1, JobOperation
  <2>3. UNCHANGED <<storeVars, lockLosses, slots, directory, moves>>
    BY <1>3 DEF FailStalled
  <2> QED BY <1>1, <1>3, <2>1, <2>2, <2>3, EmitKeeps, QueueStep DEF WorkerTypeOK
<1> QED BY <1>2, <1>3 DEF Fetch

\* The end of an attempt, with or without the job's lock.
LEMMA EndKeeps ==
  ASSUME IInv, NEW s \in Slot, Complete(s) \/ Fail(s), UNCHANGED <<requests, crashes>>
  PROVE  IInv'
<1> DEFINE k == slots[s].job
<1>1. jobs \in [JobId -> Job \cup {Null}] /\ lockLosses \in 0..MaxLockLosses /\ WorkerTypeOK
  BY DEF IInv, TypeOK, QueueTypeOK
<1>2. k \in JobId /\ jobs[k] # Null
  BY SlotFacts, NullJobAssumption DEF Complete, Fail, At, NullJobAssumption
<1>3. /\ UNCHANGED <<storeVars, lockLosses, directory, moves>>
      /\ slots' = [slots EXCEPT ![s] = idleSlot]
  BY DEF Complete, Fail
<1>4. /\ slots' \in [Slot -> SlotState]
      /\ \A t \in Slot : slots'[t] = slots[t] \/ SlotOK(slots'[t], emails', jobs', tasks')
  BY <1>1, <1>3, IdleSlot, SlotType
<1>5. CASE UNCHANGED <<jobs, handlers>>
  BY <1>1, <1>3, <1>4, <1>5, GrowReflexive, QueueStep DEF WorkerTypeOK
<1>6. CASE CompleteJob(k) /\ UNCHANGED handlers
  BY <1>1, <1>2, <1>3, <1>4, <1>6, JobOperation, QueueStep DEF WorkerTypeOK
<1>7. CASE FailJob(k) /\ EmitFailed(k)
  <2>1. /\ jobs' \in [JobId -> Job \cup {Null}] /\ JobsGrow(jobs, jobs')
        /\ \A j \in JobId : jobs'[j] = jobs[j] \/ jobs[j] # Null
        /\ jobs'[k] # Null
    BY <1>1, <1>2, <1>7, JobOperation
  <2> QED BY <1>1, <1>2, <1>3, <1>4, <1>7, <2>1, EmitKeeps, QueueStep
<1> QED BY <1>5, <1>6, <1>7 DEF Complete, Fail

\* onFailed reads the email, then writes FAILED.
LEMMA ReactKeeps ==
  ASSUME IInv, NEW k \in JobId, React(k)
  PROVE  IInv'
<1>1. TypeOK /\ StoreTypeOK /\ WorkerTypeOK
  BY DEF IInv, TypeOK
<1>2. handlers[k] # "idle" /\ jobs[k] # Null
  BY DEF React, OnFailed, LoadFailed, MarkExhausted, IInv, HandlerOK
<1>3. UNCHANGED <<tasks, secondary, jobs, lockLosses, requests, slots, directory, moves, crashes>>
  BY DEF React, OnFailed, LoadFailed, MarkExhausted, Throws, queueVars, storeVars
<1>4. /\ handlers' \in [JobId -> {"idle", "load", "mark"}]
      /\ \A j \in JobId : handlers'[j] = handlers[j] \/ HandlerOK(handlers'[j], jobs'[j])
  <2>1. PICK pc \in {"idle", "mark"} : Handler(k, pc)
    BY DEF React, OnFailed, LoadFailed, MarkExhausted
  <2> QED BY <1>1, <1>2, <1>3, <2>1 DEF Handler, HandlerOK, WorkerTypeOK
<1>5. /\ EmailsGrow(emails, emails') /\ StoreTypeOK'
      /\ \A r \in Request : emails[r] = Null => emails'[r] = Null
  <2>1. CASE UNCHANGED storeVars \/ Throws
    <3>1. UNCHANGED emails
      BY <2>1 DEF storeVars, Throws
    <3> QED BY <1>1, <2>1, <3>1, GrowReflexive, ThrowsType DEF storeVars, StoreTypeOK
  <2>2. CASE /\ updateEmail(jobs[k].emailMessageId,
                             withStatus(jobs[k].emailMessageId, "FAILED"))
             /\ \E ok \in BOOLEAN : Outcome(ok)
    <3> DEFINE id  == jobs[k].emailMessageId
               doc == withStatus(id, "FAILED")
    <3>1. id \in Request /\ emails[id] # Null
      BY <1>1, <1>2 DEF IInv, JobOK, TypeOK, QueueTypeOK, Job
    <3>2. emails[id] \in EmailMessage
      BY <1>1, <3>1 DEF StoreTypeOK
    <3>3. /\ doc \in EmailMessage
          /\ doc.providerMessageId = emails[id].providerMessageId
          /\ doc.companyId = emails[id].companyId
          /\ doc.llmRawResult = emails[id].llmRawResult
      BY <3>2 DEF withStatus, EmailMessage, EmailMessageStatus
    <3>4. /\ EmailsGrow(emails, emails') /\ emails' \in [Request -> EmailMessage \cup {Null}]
          /\ \A r \in Request : emails[r] = Null => emails'[r] = Null
      BY <1>1, <2>2, <3>1, <3>3, UpdateGrows
    <3> QED BY <1>1, <1>3, <2>2, <3>4, OutcomeBound DEF StoreTypeOK
  <2> QED BY <2>1, <2>2 DEF React, OnFailed, LoadFailed, MarkExhausted
<1>6. TypeOK'
  BY <1>1, <1>3, <1>4, <1>5 DEF TypeOK, QueueTypeOK, InboundTypeOK, WorkerTypeOK
<1> QED BY <1>3, <1>4, <1>5, <1>6, GrowReflexive, Frame

\* The stalled check, a lock that expires.
LEMMA LockKeeps ==
  ASSUME IInv, NEW k \in JobId, Recover(k) \/ Expire(k)
  PROVE  IInv'
<1>1. /\ jobs \in [JobId -> Job \cup {Null}] /\ WorkerTypeOK
      /\ lockLosses \in 0..MaxLockLosses
  BY DEF IInv, TypeOK, QueueTypeOK
<1>2. jobs[k] # Null /\ (RecoverStalledJob(k) \/ LoseLock(k))
  BY DEF Recover, Expire, RecoverStalledJob, LoseLock, HoldsLock, InState
<1>3. UNCHANGED <<storeVars, requests, slots, handlers, directory, moves, crashes>>
  BY DEF Recover, Expire, workerVars
<1>4. lockLosses' \in 0..MaxLockLosses
  BY <1>1, <1>2, QueueAssumption DEF RecoverStalledJob, LoseLock, QueueAssumption
<1> QED BY <1>1, <1>2, <1>3, <1>4, JobOperation, QueueStep DEF WorkerTypeOK

\* The secondary catches up; an administrator moves a user; nothing happens.
LEMMA OutsideKeeps ==
  ASSUME IInv, CatchUp \/ Administer \/ Quiescent \/ UNCHANGED vars
  PROVE  IInv'
<1>1. UNCHANGED <<emails, tasks, faults, jobs, lockLosses, requests, slots, handlers, crashes>>
  BY DEF CatchUp, Replicate, Administer, MoveUsers, Quiescent, vars, storeVars, queueVars,
         workerVars
<1>2. TypeOK
  BY DEF IInv
<1>3. /\ secondary' \in [emails : [Request -> EmailMessage \cup {Null}], tasks : Seq(Task)]
      /\ directory' \in [Address -> Company \cup {Null}]
      /\ moves' \in 0..MaxMoves
  <2>1. CASE CatchUp
    BY <1>2, <2>1 DEF CatchUp, Replicate, workerVars, TypeOK, StoreTypeOK, WorkerTypeOK
  <2>2. CASE Administer
    BY <1>2, <2>2, DirectoryAssumption
       DEF Administer, MoveUsers, storeVars, DirectoryAssumption, TypeOK, StoreTypeOK, WorkerTypeOK
  <2>3. CASE UNCHANGED vars
    BY <1>2, <2>3 DEF vars, storeVars, workerVars, TypeOK, StoreTypeOK, WorkerTypeOK
  <2> QED BY <2>1, <2>2, <2>3 DEF Quiescent
<1>4. TypeOK'
  BY <1>1, <1>2, <1>3
     DEF TypeOK, StoreTypeOK, QueueTypeOK, InboundTypeOK, WorkerTypeOK
<1> QED BY <1>1, <1>4, GrowReflexive, Frame

\* A crash empties memory and releases locks; the store and jobs survive it.
LEMMA CrashKeeps ==
  ASSUME IInv, Crash
  PROVE  IInv'
<1>1. TypeOK
  BY DEF IInv
<1>2. UNCHANGED <<emails, tasks, secondary, faults, lockLosses, directory, moves>>
  BY DEF Crash, storeVars
<1>3. /\ jobs' \in [JobId -> Job \cup {Null}]
      /\ JobsGrow(jobs, jobs')
      /\ \A k \in JobId : jobs'[k] = jobs[k] \/ jobs[k] # Null
  <2>1. jobs \in [JobId -> Job \cup {Null}]
    BY <1>1 DEF TypeOK, QueueTypeOK
  <2>2. ASSUME NEW k \in JobId
        PROVE  /\ jobs'[k] \in Job \cup {Null}
               /\ jobs[k] = Null => jobs'[k] = Null
               /\ jobs[k] # Null => /\ jobs'[k] \in Job
                                    /\ jobs'[k].emailMessageId = jobs[k].emailMessageId
    <3>1. jobs'[k] = IF InState(k, "active") THEN [jobs[k] EXCEPT !.lock = Null] ELSE jobs[k]
      BY DEF Crash, ReleaseLocks
    <3>2. CASE jobs[k] = Null
      BY <3>1, <3>2 DEF InState
    <3>3. CASE jobs[k] # Null
      <4>1. jobs[k] \in Job
        BY <2>1, <3>3
      <4>2. /\ [jobs[k] EXCEPT !.lock = Null] \in Job
            /\ [jobs[k] EXCEPT !.lock = Null].emailMessageId = jobs[k].emailMessageId
        BY <4>1 DEF Job
      <4> QED BY <3>1, <3>3, <4>1, <4>2
    <3> QED BY <3>2, <3>3
  <2>3. jobs' \in [JobId -> Job \cup {Null}]
    BY <2>2 DEF Crash, ReleaseLocks
  <2> QED BY <2>2, <2>3, NullJobAssumption DEF JobsGrow, NullJobAssumption
<1>4. /\ slots' \in [Slot -> SlotState]
      /\ \A s \in Slot : SlotOK(slots'[s], emails', jobs', tasks')
  BY IdleSlot DEF Crash, DropAttempts
<1>5. /\ handlers' \in [JobId -> {"idle", "load", "mark"}]
      /\ \A k \in JobId : HandlerOK(handlers'[k], jobs'[k])
  BY DEF Crash, DropAttempts, HandlerOK
<1>6. /\ requests' \in [Request -> Delivery]
      /\ \A r \in Request : requests'[r] = requests[r] \/ DeliveryOK(r, requests'[r], emails')
  <2>1. requests \in [Request -> Delivery]
    BY <1>1 DEF TypeOK, InboundTypeOK
  <2>2. ASSUME NEW r \in Request
        PROVE  /\ requests'[r] \in Delivery
               /\ requests'[r] = requests[r] \/ DeliveryOK(r, requests'[r], emails')
    <3>1. requests[r] \in Delivery /\ DeliveryOK(r, requests[r], emails)
      BY <2>1 DEF IInv
    <3>2. CASE requests'[r] = requests[r]
      BY <3>1, <3>2
    <3>3. CASE /\ requests[r].pc \in HandlerStep
               /\ requests'[r] = [requests[r] EXCEPT !.pc = "dropped"]
      BY <1>2, <3>1, <3>3 DEF DeliveryOK, Delivery, HandlerStep
    <3> QED BY <3>2, <3>3 DEF Crash, DropRequests
  <2> QED BY <2>2 DEF Crash, DropRequests
<1>7. crashes' \in 0..MaxCrashes
  BY <1>1, CrashAssumption DEF Crash, TypeOK, CrashAssumption
<1>8. TypeOK'
  BY <1>1, <1>2, <1>3, <1>4, <1>5, <1>6, <1>7
     DEF TypeOK, StoreTypeOK, QueueTypeOK, InboundTypeOK, WorkerTypeOK
<1> QED BY <1>2, <1>3, <1>4, <1>5, <1>6, <1>8, GrowReflexive, Frame

-------------------------------------------------------------------------------
(* Steps of the webhook. *)

\* A step of one delivery preserves the invariant if the delivery may know what
\* it then claims, documents and jobs only grow, and a new job is as it should.
LEMMA RequestStep ==
  ASSUME IInv, NEW r \in Request, NEW delivery \in Delivery,
         requests' = [requests EXCEPT ![r] = delivery], delivery # requests[r],
         DeliveryOK(r, delivery, emails'),
         UNCHANGED <<tasks, lockLosses, workerVars, crashes>>,
         StoreTypeOK', EmailsGrow(emails, emails'),
         \A q \in Request : emails[q] = Null => emails'[q] = Null \/ q = r,
         jobs' \in [JobId -> Job \cup {Null}], JobsGrow(jobs, jobs'),
         \A k \in JobId : jobs'[k] = jobs[k] \/ jobs[k] # Null \/ JobOK(k, jobs'[k], emails')
  PROVE  IInv'
<1>1. /\ QueueTypeOK /\ WorkerTypeOK /\ crashes \in 0..MaxCrashes
      /\ requests \in [Request -> Delivery]
  BY DEF IInv, TypeOK, InboundTypeOK
<1>2. UNCHANGED <<slots, handlers, directory, moves>>
  BY DEF workerVars
<1>3. /\ requests' \in [Request -> Delivery]
      /\ requests'[r] = delivery
      /\ \A q \in Request : q # r => requests'[q] = requests[q]
  BY <1>1
<1>4. TypeOK'
  BY <1>1, <1>2, <1>3 DEF TypeOK, QueueTypeOK, InboundTypeOK, WorkerTypeOK
<1> QED BY <1>2, <1>3, <1>4, GrowReflexive, Frame

\* Moving to another call of the handler.
LEMMA GotoType ==
  ASSUME InboundTypeOK, NEW r \in Request, NEW pc \in HandlerStep, Goto(r, pc)
  PROVE  /\ requests' = [requests EXCEPT ![r] = [requests[r] EXCEPT !.pc = pc]]
         /\ [requests[r] EXCEPT !.pc = pc] \in Delivery
<1>1. requests[r] \in Delivery
  BY DEF InboundTypeOK
<1> QED BY <1>1 DEF Goto, Delivery

\* Answering the delivery.
LEMMA AnswerType ==
  ASSUME InboundTypeOK, NEW r \in Request, NEW status \in InboundEmailResultStatus,
         NEW id \in Request \cup {Null}, Answer(r, status, id)
  PROVE  LET delivery == [requests[r] EXCEPT !.pc = "answered", !.answer = status,
                                             !.id = id]
         IN  /\ requests' = [requests EXCEPT ![r] = delivery]
             /\ delivery \in Delivery
<1>1. requests[r] \in Delivery
  BY DEF InboundTypeOK
<1>2. [requests[r] EXCEPT !.pc = "answered", !.answer = status, !.id = id] \in Delivery
  BY <1>1 DEF Delivery
<1> QED BY <1>2 DEF Answer

\* An answer ends the handler: it promises nothing the invariant speaks of.
LEMMA AnswerKeeps ==
  ASSUME IInv, NEW r \in Request, requests[r].pc \in HandlerStep,
         NEW status \in InboundEmailResultStatus, NEW id \in Request \cup {Null},
         Answer(r, status, id),
         UNCHANGED <<tasks, lockLosses, workerVars, crashes>>,
         StoreTypeOK', EmailsGrow(emails, emails'),
         \A q \in Request : emails[q] = Null => emails'[q] = Null \/ q = r,
         jobs' \in [JobId -> Job \cup {Null}], JobsGrow(jobs, jobs'),
         \A k \in JobId : jobs'[k] = jobs[k] \/ jobs[k] # Null \/ JobOK(k, jobs'[k], emails')
  PROVE  IInv'
<1>1. requests[r] \in Delivery /\ InboundTypeOK /\ DeliveryOK(r, requests[r], emails)
  BY DEF IInv, TypeOK, InboundTypeOK
<1> DEFINE delivery == [requests[r] EXCEPT !.pc = "answered", !.answer = status, !.id = id]
<1>2. requests' = [requests EXCEPT ![r] = delivery] /\ delivery \in Delivery
  BY <1>1, AnswerType
<1>3. /\ delivery.pc = "answered"
      /\ delivery.providerMessageId = requests[r].providerMessageId
      /\ delivery.to = requests[r].to
  BY <1>1, <1>2 DEF Delivery
<1>4. requests[r].pc # "answered" /\ requests[r].pc # "unsent"
  BY DEF HandlerStep
<1> HIDE DEF delivery
<1>5. delivery # requests[r] /\ DeliveryOK(r, delivery, emails')
  BY <1>1, <1>3, <1>4 DEF DeliveryOK
<1> QED BY <1>2, <1>5, RequestStep

\* A delivery arrives.
LEMMA DeliverKeeps ==
  ASSUME IInv, NEW r \in Request, Deliver(r)
  PROVE  IInv'
<1>1. PICK m \in MessageId, a \in Address :
        requests' = [requests EXCEPT ![r].pc = "findExisting",
                                     ![r].providerMessageId = m, ![r].to = a]
  BY DEF Deliver, Receive
<1> DEFINE delivery == [requests[r] EXCEPT !.pc = "findExisting",
                                           !.providerMessageId = m, !.to = a]
<1>2. /\ requests[r].pc = "unsent"
      /\ UNCHANGED <<emails, tasks, secondary, faults, jobs, lockLosses, workerVars, crashes>>
  BY DEF Deliver, Receive, Handling, storeVars, queueVars
<1>3. /\ TypeOK /\ requests \in [Request -> Delivery]
      /\ DeliveryOK(r, requests[r], emails)
  BY DEF IInv, TypeOK, InboundTypeOK
<1>4. /\ delivery \in Delivery /\ delivery.pc = "findExisting"
      /\ delivery.providerMessageId = m /\ delivery.to = a
  BY <1>3 DEF Delivery, HandlerStep
<1>5. requests' = [requests EXCEPT ![r] = delivery]
  BY <1>1
<1>6. delivery # requests[r] /\ DeliveryOK(r, delivery, emails')
  BY <1>2, <1>3, <1>4 DEF DeliveryOK
<1>7. StoreTypeOK' /\ jobs' \in [JobId -> Job \cup {Null}]
  BY <1>2, <1>3 DEF TypeOK, StoreTypeOK, QueueTypeOK
<1> HIDE DEF delivery
<1> QED BY <1>2, <1>4, <1>5, <1>6, <1>7, GrowReflexive, RequestStep

\* A call of the handler that writes nothing.
LEMMA HandleReadKeeps ==
  ASSUME IInv, NEW r \in Request, FindExisting(r) \/ FindRaced(r),
         UNCHANGED <<workerVars, crashes>>
  PROVE  IInv'
<1>1. /\ TypeOK /\ InboundTypeOK /\ StoreTypeOK /\ requests[r] \in Delivery
      /\ DeliveryOK(r, requests[r], emails)
  BY DEF IInv, TypeOK, InboundTypeOK
<1>2. UNCHANGED <<emails, tasks, secondary, jobs, lockLosses>>
  BY DEF FindExisting, FindRaced, Throws, storeVars, queueVars
<1>3. StoreTypeOK' /\ jobs' \in [JobId -> Job \cup {Null}]
  BY <1>1, <1>2, ThrowsType
     DEF FindExisting, FindRaced, storeVars, StoreTypeOK, TypeOK, QueueTypeOK
<1>4. /\ EmailsGrow(emails, emails') /\ JobsGrow(jobs, jobs')
      /\ \A q \in Request : emails[q] = Null => emails'[q] = Null \/ q = r
      /\ \A k \in JobId : jobs'[k] = jobs[k]
  BY <1>2, GrowReflexive
<1>5. requests[r].pc \in {"findExisting", "findRaced"} /\ requests[r].pc \in HandlerStep
  BY DEF FindExisting, FindRaced, Handling, HandlerStep
<1>6. CASE \E status \in InboundEmailResultStatus, id \in Request \cup {Null} :
             Answer(r, status, id)
  BY <1>2, <1>3, <1>4, <1>5, <1>6, AnswerKeeps
<1>7. CASE Handling(r, "findExisting") /\ Goto(r, "createEmail")
  <2> DEFINE delivery == [requests[r] EXCEPT !.pc = "createEmail"]
  <2>1. requests' = [requests EXCEPT ![r] = delivery] /\ delivery \in Delivery
    BY <1>1, <1>7, GotoType DEF HandlerStep
  <2>2. /\ delivery.pc = "createEmail"
        /\ delivery.providerMessageId = requests[r].providerMessageId
        /\ delivery.to = requests[r].to
    BY <1>1, <2>1 DEF Delivery
  <2> HIDE DEF delivery
  <2>3. delivery # requests[r] /\ DeliveryOK(r, delivery, emails')
    BY <1>1, <1>2, <1>7, <2>2 DEF DeliveryOK, Handling
  <2> QED BY <1>2, <1>3, <1>4, <2>1, <2>3, RequestStep
<1>8. \/ Handling(r, "findExisting") /\ Goto(r, "createEmail")
      \/ Answer(r, "internal_error", Null)
      \/ \E id \in Request : \/ Answer(r, "already_exists", id)
                            \/ Answer(r, "race_condition", id)
  BY DEF FindExisting, FindRaced, findByProviderMessageId
<1>9. {"internal_error", "already_exists", "race_condition"} \subseteq InboundEmailResultStatus
  BY DEF InboundEmailResultStatus
<1> QED BY <1>6, <1>7, <1>8, <1>9

\* The insert of a document under the delivery's own id.
LEMMA CreateEmailKeeps ==
  ASSUME IInv, NEW r \in Request, CreateEmail(r), UNCHANGED <<workerVars, crashes>>
  PROVE  IInv'
<1>1. /\ TypeOK /\ InboundTypeOK /\ StoreTypeOK /\ requests[r] \in Delivery
      /\ DeliveryOK(r, requests[r], emails)
  BY DEF IInv, TypeOK, InboundTypeOK
<1>2. /\ requests[r].pc = "createEmail" /\ requests[r].pc \in HandlerStep
      /\ UNCHANGED <<tasks, secondary, jobs, lockLosses>>
  BY DEF CreateEmail, Throws, storeVars, queueVars, Handling, HandlerStep
<1>3. emails[r] = Null /\ messageOf(r) \in MessageId /\ requests[r].to \in Address
  BY <1>1, <1>2 DEF DeliveryOK, messageOf
<1>4. /\ jobs' \in [JobId -> Job \cup {Null}] /\ JobsGrow(jobs, jobs')
      /\ \A k \in JobId : jobs'[k] = jobs[k]
  BY <1>1, <1>2, GrowReflexive DEF TypeOK, QueueTypeOK
<1>5. {"enqueue", "findRaced"} \subseteq HandlerStep /\ "internal_error" \in InboundEmailResultStatus
  BY DEF HandlerStep, InboundEmailResultStatus
<1>6. CASE UNCHANGED storeVars /\ Goto(r, "findRaced")
  <2> DEFINE delivery == [requests[r] EXCEPT !.pc = "findRaced"]
  <2>1. requests' = [requests EXCEPT ![r] = delivery] /\ delivery \in Delivery
    BY <1>1, <1>5, <1>6, GotoType
  <2>2. /\ delivery.pc = "findRaced"
        /\ delivery.providerMessageId = requests[r].providerMessageId
        /\ delivery.to = requests[r].to
    BY <1>1, <2>1 DEF Delivery
  <2> HIDE DEF delivery
  <2>3. delivery # requests[r] /\ DeliveryOK(r, delivery, emails')
    BY <1>1, <1>2, <2>2 DEF DeliveryOK
  <2>4. UNCHANGED emails /\ StoreTypeOK'
    BY <1>1, <1>2, <1>6 DEF storeVars, StoreTypeOK
  <2> QED BY <1>2, <1>4, <2>1, <2>3, <2>4, GrowReflexive, RequestStep
<1>7. CASE Throws /\ Answer(r, "internal_error", Null)
  <2>1. UNCHANGED emails /\ StoreTypeOK'
    BY <1>1, <1>7, ThrowsType DEF Throws
  <2> QED BY <1>2, <1>4, <1>5, <1>7, <2>1, GrowReflexive, AnswerKeeps
<1>8. CASE /\ createEmail(r, messageOf(r), requests[r].to)
           /\ \E ok \in BOOLEAN : Outcome(ok)
           /\ Goto(r, "enqueue") \/ Answer(r, "internal_error", Null)
  <2> DEFINE doc == receivedEmail(messageOf(r), requests[r].to)
  <2>1. doc \in EmailMessage /\ doc.providerMessageId = messageOf(r)
    BY <1>3 DEF receivedEmail, EmailMessage, EmailMessageStatus
  <2>2. doc # Null
    BY <2>1, NullAssumption DEF NullAssumption
  <2> HIDE DEF doc
  <2>3. emails \in [Request -> EmailMessage \cup {Null}] /\ emails' = [emails EXCEPT ![r] = doc]
    BY <1>1, <1>8 DEF createEmail, StoreTypeOK, doc
  <2>4. /\ emails' \in [Request -> EmailMessage \cup {Null}]
        /\ emails'[r] = doc
        /\ \A q \in Request : q # r => emails'[q] = emails[q]
    BY <2>1, <2>3
  <2>5. EmailsGrow(emails, emails')
    BY <1>3, <2>4 DEF EmailsGrow
  <2>6. StoreTypeOK'
    BY <1>1, <1>2, <1>8, <2>4, OutcomeBound DEF StoreTypeOK
  <2>7. CASE Goto(r, "enqueue")
    <3> DEFINE delivery == [requests[r] EXCEPT !.pc = "enqueue"]
    <3>1. requests' = [requests EXCEPT ![r] = delivery] /\ delivery \in Delivery
      BY <1>1, <1>5, <2>7, GotoType
    <3>2. /\ delivery.pc = "enqueue"
          /\ delivery.providerMessageId = requests[r].providerMessageId
          /\ delivery.to = requests[r].to
      BY <1>1, <3>1 DEF Delivery
    <3> HIDE DEF delivery
    <3>3. delivery # requests[r] /\ DeliveryOK(r, delivery, emails')
      BY <1>2, <1>3, <2>1, <2>2, <2>4, <3>2 DEF DeliveryOK, messageOf
    <3> QED BY <1>2, <1>4, <2>4, <2>5, <2>6, <3>1, <3>3, RequestStep
  <2>8. CASE Answer(r, "internal_error", Null)
    BY <1>2, <1>4, <1>5, <2>4, <2>5, <2>6, <2>8, AnswerKeeps
  <2> QED BY <1>8, <2>7, <2>8
<1> QED BY <1>6, <1>7, <1>8 DEF CreateEmail

\* queue.add: the job it may add names the delivery's own document.
LEMMA EnqueueKeeps ==
  ASSUME IInv, NEW r \in Request, Enqueue(r), UNCHANGED <<workerVars, crashes>>
  PROVE  IInv'
<1> DEFINE k   == toEmailProcessingJobId(messageOf(r))
           job == [state |-> "waiting", emailMessageId |-> r, attemptsMade |-> 0,
                   stalled |-> 0, lock |-> Null]
<1>1. /\ TypeOK /\ InboundTypeOK /\ StoreTypeOK /\ requests[r] \in Delivery
      /\ DeliveryOK(r, requests[r], emails) /\ jobs \in [JobId -> Job \cup {Null}]
  BY DEF IInv, TypeOK, InboundTypeOK, QueueTypeOK
<1>2. /\ requests[r].pc = "enqueue" /\ requests[r].pc \in HandlerStep
      /\ UNCHANGED <<emails, tasks, secondary, lockLosses>>
  BY DEF Enqueue, Handling, HandlerStep
<1>3. /\ emails[r] # Null /\ emails[r].providerMessageId = messageOf(r)
      /\ messageOf(r) \in MessageId
  BY <1>1, <1>2 DEF DeliveryOK, messageOf
<1>4. k \in JobId
  BY <1>3 DEF JobId
<1>5. StoreTypeOK'
  <2>1. \E ok \in BOOLEAN : Outcome(ok)
    BY DEF Enqueue
  <2> QED BY <1>1, <1>2, <2>1, OutcomeBound DEF StoreTypeOK
<1>6. /\ jobs' \in [JobId -> Job \cup {Null}] /\ JobsGrow(jobs, jobs')
      /\ \A j \in JobId : jobs'[j] = jobs[j] \/ jobs[j] # Null \/ JobOK(j, jobs'[j], emails')
  <2>1. CASE UNCHANGED jobs
    BY <1>1, <2>1, GrowReflexive
  <2>2. CASE jobs[k] = Null /\ jobs' = [jobs EXCEPT ![k] = job]
    <3>1. job \in Job /\ job.emailMessageId = r
      BY DEF Job
    <3>2. JobOK(k, job, emails')
      BY <1>2, <1>3, <3>1 DEF JobOK
    <3> HIDE DEF job, k
    <3> QED BY <1>1, <1>4, <2>2, <3>1, <3>2 DEF JobsGrow
  <2> QED BY <2>1, <2>2 DEF Enqueue, AddJob
<1>7. EmailsGrow(emails, emails') /\ \A q \in Request : emails[q] = Null => emails'[q] = Null
  BY <1>2, GrowReflexive
<1>8. CASE Goto(r, "markQueued")
  <2> DEFINE delivery == [requests[r] EXCEPT !.pc = "markQueued"]
  <2>1. requests' = [requests EXCEPT ![r] = delivery] /\ delivery \in Delivery
    BY <1>1, <1>8, GotoType DEF HandlerStep
  <2>2. /\ delivery.pc = "markQueued"
        /\ delivery.providerMessageId = requests[r].providerMessageId
        /\ delivery.to = requests[r].to
    BY <1>1, <2>1 DEF Delivery
  <2> HIDE DEF delivery
  <2>3. delivery # requests[r] /\ DeliveryOK(r, delivery, emails')
    BY <1>1, <1>2, <2>2 DEF DeliveryOK
  <2> QED BY <1>2, <1>5, <1>6, <1>7, <2>1, <2>3, RequestStep
<1>9. CASE Answer(r, "internal_error", r)
  <2>1. "internal_error" \in InboundEmailResultStatus
    BY DEF InboundEmailResultStatus
  <2> QED BY <1>2, <1>5, <1>6, <1>7, <1>9, <2>1, AnswerKeeps
<1> QED BY <1>8, <1>9 DEF Enqueue

\* The write of QUEUED keeps what a worker may already have recorded.
LEMMA MarkQueuedKeeps ==
  ASSUME IInv, NEW r \in Request, MarkQueued(r), UNCHANGED <<workerVars, crashes>>
  PROVE  IInv'
<1>1. /\ TypeOK /\ InboundTypeOK /\ StoreTypeOK
      /\ DeliveryOK(r, requests[r], emails)
  BY DEF IInv, TypeOK, InboundTypeOK
<1>2. /\ requests[r].pc = "markQueued" /\ requests[r].pc \in HandlerStep
      /\ UNCHANGED <<tasks, secondary, jobs, lockLosses>>
  BY DEF MarkQueued, Throws, queueVars, Handling, HandlerStep
<1>3. /\ jobs' \in [JobId -> Job \cup {Null}] /\ JobsGrow(jobs, jobs')
      /\ \A k \in JobId : jobs'[k] = jobs[k]
  BY <1>1, <1>2, GrowReflexive DEF TypeOK, QueueTypeOK
<1>4. /\ EmailsGrow(emails, emails') /\ StoreTypeOK'
      /\ \A q \in Request : emails[q] = Null => emails'[q] = Null
  <2>1. CASE Throws
    BY <1>1, <2>1, ThrowsType, GrowReflexive DEF Throws
  <2>2. CASE /\ updateEmail(r, withStatus(r, "QUEUED"))
             /\ \E ok \in BOOLEAN : Outcome(ok)
    <3>1. emails[r] # Null
      BY <1>1, <1>2 DEF DeliveryOK
    <3>2. emails[r] \in EmailMessage
      BY <1>1, <3>1 DEF StoreTypeOK
    <3> DEFINE doc == withStatus(r, "QUEUED")
    <3>3. /\ doc \in EmailMessage
          /\ doc.providerMessageId = emails[r].providerMessageId
          /\ doc.companyId = emails[r].companyId
          /\ doc.llmRawResult = emails[r].llmRawResult
      BY <3>2 DEF withStatus, EmailMessage, EmailMessageStatus
    <3>4. /\ EmailsGrow(emails, emails')
          /\ \A q \in Request : emails[q] = Null => emails'[q] = Null
          /\ emails' \in [Request -> EmailMessage \cup {Null}]
      BY <1>1, <2>2, <3>1, <3>3, UpdateGrows
    <3> QED BY <1>1, <1>2, <2>2, <3>4, OutcomeBound DEF StoreTypeOK
  <2> QED BY <2>1, <2>2 DEF MarkQueued
<1>5. PICK status \in {"queued", "internal_error"} : Answer(r, status, r)
  BY DEF MarkQueued
<1>6. status \in InboundEmailResultStatus
  BY DEF InboundEmailResultStatus
<1> QED BY <1>2, <1>3, <1>4, <1>5, <1>6, AnswerKeeps

-------------------------------------------------------------------------------
(* The invariant, and what it gives for every value of the constants. *)

\* The initial states satisfy the invariant: nothing is stored, queued or running.
LEMMA InitEstablishes == Init => IInv
<1> SUFFICES ASSUME Init PROVE IInv
  OBVIOUS
<1> USE DEF Init, StoreInit, QueueInit, InboundInit, WorkerInit
<1>1. StoreTypeOK
  <2>1. tasks \in Seq(Task) /\ emails \in [Request -> EmailMessage \cup {Null}]
    OBVIOUS
  <2> QED BY <2>1, StoreAssumption DEF StoreTypeOK, StoreAssumption
<1>2. QueueTypeOK
  BY QueueAssumption DEF QueueTypeOK, QueueAssumption
<1>3. InboundTypeOK
  BY DEF InboundTypeOK, Delivery
<1>4. WorkerTypeOK
  BY IdleSlot, DirectoryAssumption DEF WorkerTypeOK, DirectoryAssumption
<1>5. TypeOK
  BY <1>1, <1>2, <1>3, <1>4, CrashAssumption DEF TypeOK, CrashAssumption
<1>6. /\ \A r \in Request : DeliveryOK(r, requests[r], emails)
      /\ \A k \in JobId : JobOK(k, jobs[k], emails)
      /\ \A k \in JobId : HandlerOK(handlers[k], jobs[k])
  BY DEF DeliveryOK, JobOK, HandlerOK
<1>7. \A s \in Slot : SlotOK(slots[s], emails, jobs, tasks)
  BY IdleSlot
<1>8. DOMAIN tasks = {}
  OBVIOUS
<1> QED BY <1>5, <1>6, <1>7, <1>8 DEF IInv

\* Every step of the service preserves the invariant.
LEMMA NextKeeps == IInv /\ [Next]_vars => IInv'
<1> SUFFICES ASSUME IInv, [Next]_vars PROVE IInv'
  OBVIOUS
<1>1. ASSUME NEW r \in Request, Deliver(r) \/ Handle(r) PROVE IInv'
  BY <1>1, DeliverKeeps, HandleReadKeeps, CreateEmailKeeps, EnqueueKeeps, MarkQueuedKeeps
     DEF Handle, HandleRequest
<1>2. CASE Fetch
  BY <1>2, FetchKeeps
<1>3. ASSUME NEW s \in Slot, Attempt(s) PROVE IInv'
  BY <1>3, ProcessKeeps, EndKeeps DEF Attempt
<1>4. ASSUME NEW k \in JobId, React(k) \/ Recover(k) \/ Expire(k) PROVE IInv'
  BY <1>4, ReactKeeps, LockKeeps
<1>5. CASE CatchUp \/ Administer \/ Quiescent \/ UNCHANGED vars
  BY <1>5, OutsideKeeps
<1>6. CASE Crash
  BY <1>6, CrashKeeps
<1> QED BY <1>1, <1>2, <1>3, <1>4, <1>5, <1>6 DEF Next, Work

\* IInv is an invariant of the service.
THEOREM InvariantHolds == Spec => []IInv
  BY InitEstablishes, NextKeeps, PTL DEF Spec

\* In every reachable state every variable holds a value of its type: no
\* interleaving writes a document, job or slot the schemas do not describe.
THEOREM TypeCorrect == Spec => []TypeOK
<1>1. IInv => TypeOK
  BY DEF IInv
<1> QED BY <1>1, InvariantHolds, PTL

===============================================================================
