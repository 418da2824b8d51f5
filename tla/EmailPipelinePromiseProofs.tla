----------------------- MODULE EmailPipelinePromiseProofs -----------------------
(***************************************************************************)
(* Proofs about the attempts of a job in EmailPipeline, one after the      *)
(* other, about what the first of them leaves on record, and that the      *)
(* pipeline keeps the promise EmailToTask.                                 *)
(*                                                                         *)
(* As long as no slot loses the lock of its job while it runs, an attempt  *)
(* is alone with its document, but for the late write of QUEUED and, after *)
(* the last attempt, onFailed.  What it read or wrote there is then still  *)
(* true at its next call.                                                  *)
(***************************************************************************)
EXTENDS EmailPipelineOnceProofs

\* No slot loses a lock; nobody moves; every read is of the primary.
Exclusive == MaxLockLosses = 0
Steady    == MaxMoves = 0
Fresh     == ~HasSecondary

-------------------------------------------------------------------------------
(* The inductive invariant. *)

LocksHeld ==
  /\ \A s \in Slot : slots[s].pc # "idle" => HoldsLock(s, slots[s].job)
  /\ \A k \in JobId : handlers[k] # "idle" => InState(k, "failed")

\* The worker is done with the document, unless QUEUED was written over it.
Settled(email, id, T) ==
  \/ email.status \in TERMINAL_EMAIL_STATUSES \cup {"QUEUED"}
  \/ /\ email.status = "PROCESSING"
     /\ \E i \in DOMAIN T : T[i].sourceEmailMessageId = id

Actionable == {"findTask", "createTask", "markActionable"}

\* What an attempt knows of its document.
AttemptOK(slot, email, id, T) ==
  /\ (Exclusive \/ Steady) /\ slot.pc \in Scoped => email.companyId = slot.tenant
  /\ slot.pc = "markActionable" =>
       T[slot.task] = [companyId |-> slot.tenant, sourceEmailMessageId |-> id]
  /\ slot.pc \in Actionable => slot.verdict = "actionable"
  /\ Exclusive /\ slot.pc \in Recorded => email.llmRawResult = slot.verdict
  /\ Exclusive /\ Fresh =>
       /\ slot.pc \in Writing => email.status \notin TERMINAL_EMAIL_STATUSES
       /\ slot.pc \in Resolved \cup {"resolve", "markUnmatched"} =>
            email.status \in {"PROCESSING", "QUEUED"}
       /\ slot.pc = "return" => Settled(email, id, T)

\* What is left behind by an attempt, and by the last one.
JobLeaves(job, handler, email, id, T) ==
  Exclusive /\ Fresh =>
    /\ handler = "mark" => email.status \notin TERMINAL_EMAIL_STATUSES
    /\ job.state = "completed" => Settled(email, id, T)

ActionableOK(email, id, T) ==
  email # Null /\ email.status = "ACTIONABLE" /\ (Exclusive \/ Steady) =>
    /\ email.taskId \in DOMAIN T
    /\ T[email.taskId] = [companyId |-> email.companyId, sourceEmailMessageId |-> id]

AttemptInv ==
  /\ IInv
  /\ SlotsFollowDirectory
  /\ Exclusive => LocksHeld
  /\ \A s \in Slot, id \in Request :
       slots[s].pc # "idle" /\ emailIdOf(s) = id => AttemptOK(slots[s], emails[id], id, tasks)
  /\ \A k \in JobId, id \in Request :
       jobs[k] # Null /\ jobs[k].emailMessageId = id =>
         JobLeaves(jobs[k], handlers[k], emails[id], id, tasks)
  /\ \A id \in Request : ActionableOK(emails[id], id, tasks)

-------------------------------------------------------------------------------
(* Locks. *)

\* Two slots that work on one document work on one job.
LEMMA SameJob ==
  ASSUME IInv, NEW s \in Slot, NEW t \in Slot, slots[s].pc # "idle", slots[t].pc # "idle",
         emailIdOf(s) = emailIdOf(t)
  PROVE  slots[s].job = slots[t].job
<1>1. /\ slots[s].job \in JobId /\ jobs[slots[s].job] # Null
      /\ slots[t].job \in JobId /\ jobs[slots[t].job] # Null
  BY SlotFacts, NullJobAssumption DEF NullJobAssumption
<1>2. /\ toEmailProcessingJobId(emails[emailIdOf(s)].providerMessageId) = slots[s].job
      /\ toEmailProcessingJobId(emails[emailIdOf(t)].providerMessageId) = slots[t].job
  BY <1>1 DEF IInv, JobOK, emailIdOf
<1> QED BY <1>2

\* A job whose document a slot works on is the slot's.
LEMMA JobOfSlot ==
  ASSUME IInv, NEW s \in Slot, slots[s].pc # "idle", NEW k \in JobId, jobs[k] # Null,
         jobs[k].emailMessageId = emailIdOf(s)
  PROVE  slots[s].job = k
<1>1. slots[s].job \in JobId /\ jobs[slots[s].job] # Null
  BY SlotFacts, NullJobAssumption DEF NullJobAssumption
<1>2. /\ toEmailProcessingJobId(emails[emailIdOf(s)].providerMessageId) = slots[s].job
      /\ toEmailProcessingJobId(emails[emailIdOf(s)].providerMessageId) = k
  BY <1>1 DEF IInv, JobOK, emailIdOf
<1> QED BY <1>2

\* A lock keeps others away from the job and its document.
LEMMA Alone ==
  ASSUME IInv, LocksHeld, NEW s \in Slot, slots[s].pc # "idle"
  PROVE  /\ InState(slots[s].job, "active") /\ jobs[slots[s].job].lock = s
         /\ handlers[slots[s].job] = "idle"
         /\ \A t \in Slot : slots[t].pc # "idle" /\ slots[t].job = slots[s].job => t = s
         /\ \A t \in Slot : slots[t].pc # "idle" /\ emailIdOf(t) = emailIdOf(s) => t = s
<1>1. InState(slots[s].job, "active") /\ jobs[slots[s].job].lock = s
  BY DEF LocksHeld, HoldsLock
<1>2. slots[s].job \in JobId
  BY SlotFacts
<1>3. \A t \in Slot : slots[t].pc # "idle" /\ slots[t].job = slots[s].job => t = s
  BY <1>1 DEF LocksHeld, HoldsLock
<1> QED BY <1>1, <1>2, <1>3, SameJob DEF LocksHeld, InState

\* A step of an attempt moves its slot only.
LEMMA ProcessMoves ==
  ASSUME IInv, NEW s \in Slot, Process(s)
  PROVE  /\ slots[s].pc # "idle"
         /\ UNCHANGED <<jobs, lockLosses, handlers>>
         /\ slots'[s].job = slots[s].job
         /\ \A t \in Slot : t # s => slots'[t] = slots[t]
<1>1. slots \in [Slot -> SlotState] /\ slots[s] \in SlotState
  BY DEF IInv, TypeOK, WorkerTypeOK
<1>2. slots[s].pc # "idle"
  BY DEF Process, Load, MarkProcessing, Resolve, MarkUnmatched, SetTenant, Classify,
         StoreRaw, MarkSkipped, FindTask, CreateTask, MarkActionable, MarkFailed, At
<1>3. ASSUME NEW new, slots' = [slots EXCEPT ![s] = new], new.job = slots[s].job
      PROVE  /\ slots'[s].job = slots[s].job
             /\ \A t \in Slot : t # s => slots'[t] = slots[t]
  BY <1>1, <1>3
<1>4. ASSUME NEW pc, Step(s, pc)
      PROVE  /\ slots'[s].job = slots[s].job
             /\ \A t \in Slot : t # s => slots'[t] = slots[t]
  <2>1. slots' = [slots EXCEPT ![s] = [slots[s] EXCEPT !.pc = pc]]
    BY <1>1, <1>4 DEF Step
  <2>2. [slots[s] EXCEPT !.pc = pc].job = slots[s].job
    BY <1>1 DEF SlotState
  <2> QED BY <1>3, <2>1, <2>2
<1>5. ASSUME NEW doc, NEW next, Update(s, doc, next)
      PROVE  /\ UNCHANGED <<jobs, lockLosses, handlers>>
             /\ slots'[s].job = slots[s].job
             /\ \A t \in Slot : t # s => slots'[t] = slots[t]
  BY <1>4, <1>5 DEF Update, queueVars
<1>6. ASSUME NEW new, Read(s, new), new.job = slots[s].job
      PROVE  /\ UNCHANGED <<jobs, lockLosses, handlers>>
             /\ slots'[s].job = slots[s].job
             /\ \A t \in Slot : t # s => slots'[t] = slots[t]
  BY <1>3, <1>4, <1>6 DEF Read, queueVars
<1>7. \A pc, x : /\ [slots[s] EXCEPT !.pc = pc].job = slots[s].job
                 /\ [slots[s] EXCEPT !.tenant = x, !.pc = pc].job = slots[s].job
                 /\ [slots[s] EXCEPT !.verdict = x, !.pc = pc].job = slots[s].job
                 /\ [slots[s] EXCEPT !.pc = pc, !.task = x].job = slots[s].job
  BY <1>1 DEF SlotState
<1>8. CASE Load(s) \/ Resolve(s) \/ Classify(s) \/ FindTask(s)
  BY <1>2, <1>6, <1>7, <1>8 DEF Load, Resolve, Classify, FindTask
<1>9. CASE CreateTask(s)
  <2>1. UNCHANGED <<jobs, lockLosses, handlers>>
    BY <1>9 DEF CreateTask, queueVars
  <2>2. CASE slots' = [slots EXCEPT ![s].pc = "markActionable", ![s].task = Len(tasks')]
    <3>1. slots' = [slots EXCEPT ![s] = [slots[s] EXCEPT !.pc = "markActionable",
                                                         !.task = Len(tasks')]]
      BY <1>1, <2>2
    <3> QED BY <1>2, <1>3, <1>7, <2>1, <3>1
  <2>3. CASE Step(s, "throw")
    BY <1>2, <1>4, <2>1, <2>3
  <2> QED BY <1>9, <2>2, <2>3 DEF CreateTask
<1>10. CASE \/ MarkProcessing(s) \/ MarkUnmatched(s) \/ SetTenant(s) \/ StoreRaw(s)
            \/ MarkSkipped(s) \/ MarkActionable(s) \/ MarkFailed(s)
  BY <1>2, <1>5, <1>10 DEF MarkProcessing, MarkUnmatched, SetTenant, StoreRaw, MarkSkipped,
                           MarkActionable, MarkFailed
<1> QED BY <1>8, <1>9, <1>10 DEF Process

\* What the operations of the queue leave of a job.
LEMMA JobStates ==
  ASSUME jobs \in [JobId -> Job \cup {Null}], NEW k \in JobId, jobs[k] # Null
  PROVE  /\ \A s \in Slot : LockJob(s, k) =>
              /\ jobs[k].state = "waiting"
              /\ jobs'[k].state = "active" /\ jobs'[k].lock = s
         /\ CompleteJob(k) => jobs'[k].state = "completed"
         /\ FailJob(k) => /\ jobs'[k].attemptsMade = jobs[k].attemptsMade + 1
                          /\ jobs'[k].state = IF jobs[k].attemptsMade + 1 < JobAttempts
                                              THEN "waiting" ELSE "failed"
         /\ FailStalledJob(k) => jobs[k].state = "waiting" /\ jobs'[k].state = "failed"
         /\ RecoverStalledJob(k) => /\ jobs[k].state = "active" /\ jobs[k].lock = Null
                                    /\ jobs'[k].state = "waiting"
         /\ \/ \E s \in Slot : LockJob(s, k)
            \/ CompleteJob(k) \/ FailJob(k) \/ FailStalledJob(k) \/ RecoverStalledJob(k)
            => \A j \in JobId : j # k => jobs'[j] = jobs[j]
<1>1. jobs[k] \in Job
  OBVIOUS
<1>2. \A s \in Slot : LockJob(s, k) =>
        /\ jobs[k].state = "waiting" /\ jobs'[k].state = "active" /\ jobs'[k].lock = s
        /\ \A j \in JobId : j # k => jobs'[j] = jobs[j]
  BY <1>1 DEF LockJob, InState, Job
<1>3. CompleteJob(k) => /\ jobs'[k].state = "completed"
                        /\ \A j \in JobId : j # k => jobs'[j] = jobs[j]
  BY <1>1 DEF CompleteJob, Job
<1>4. FailJob(k) => /\ jobs'[k].attemptsMade = jobs[k].attemptsMade + 1
                    /\ jobs'[k].state = IF jobs[k].attemptsMade + 1 < JobAttempts
                                        THEN "waiting" ELSE "failed"
                    /\ \A j \in JobId : j # k => jobs'[j] = jobs[j]
  BY <1>1 DEF FailJob, Job
<1>5. FailStalledJob(k) => /\ jobs[k].state = "waiting" /\ jobs'[k].state = "failed"
                           /\ \A j \in JobId : j # k => jobs'[j] = jobs[j]
  BY <1>1 DEF FailStalledJob, InState, Job
<1>6. RecoverStalledJob(k) => /\ jobs[k].state = "active" /\ jobs[k].lock = Null
                              /\ jobs'[k].state = "waiting"
                              /\ \A j \in JobId : j # k => jobs'[j] = jobs[j]
  BY <1>1 DEF RecoverStalledJob, HoldsLock, InState, Job
<1> QED BY <1>2, <1>3, <1>4, <1>5, <1>6

\* Where no lock expires, a slot holds the lock of its job to the end, and onFailed
\* runs after the last attempt.
LEMMA LocksKept ==
  ASSUME Exclusive, IInv, LocksHeld, [Next]_vars
  PROVE  LocksHeld'
<1>1. /\ jobs \in [JobId -> Job \cup {Null}] /\ slots \in [Slot -> SlotState]
      /\ handlers \in [JobId -> {"idle", "load", "mark"}]
      /\ Null \notin Slot /\ JobAttempts \in Nat
  BY QueueAssumption DEF IInv, TypeOK, QueueTypeOK, WorkerTypeOK, QueueAssumption
<1>j. ASSUME NEW k \in JobId, jobs[k] # Null PROVE jobs[k] \in Job /\ jobs'[k] # Null
  BY <1>1, <1>j, JobsStay DEF JobsGrow
<1>2. CASE UNCHANGED <<jobs, slots, handlers>>
  BY <1>2 DEF LocksHeld, HoldsLock, InState
<1>3. ASSUME NEW s \in Slot, Process(s) PROVE LocksHeld'
  BY <1>1, <1>3, ProcessMoves DEF LocksHeld, HoldsLock, InState
<1>4. ASSUME NEW s \in Slot, Complete(s) \/ Fail(s) PROVE LocksHeld'
  <2> DEFINE k == slots[s].job
  <2>1. slots[s].pc # "idle"
    BY <1>4 DEF Complete, Fail, At
  <2>2. k \in JobId /\ jobs[k] # Null
    BY <2>1, SlotFacts, NullJobAssumption DEF NullJobAssumption
  <2>3. HoldsLock(s, k) /\ handlers[k] = "idle"
    BY <2>1, <2>2, Alone DEF HoldsLock
  <2>4. slots' = [slots EXCEPT ![s] = idleSlot]
    BY <1>4 DEF Complete, Fail
  <2>5. \A t \in Slot : slots'[t].pc # "idle" => /\ slots'[t] = slots[t]
                                                /\ slots[t].job # k /\ slots[t].job \in JobId
    BY <1>1, <2>1, <2>4, Alone, SlotFacts DEF idleSlot
  <2>6. jobs'[k] # Null
    BY <1>j, <2>2
  <2>7. CASE CompleteJob(k) /\ UNCHANGED handlers
    <3>1. \A j \in JobId : j # k => jobs'[j] = jobs[j]
      BY <1>1, <2>2, <2>7, JobStates
    <3> QED BY <2>3, <2>5, <2>7, <3>1 DEF LocksHeld, HoldsLock, InState
  <2>8. CASE FailJob(k) /\ EmitFailed(k)
    <3>1. /\ \A j \in JobId : j # k => jobs'[j] = jobs[j]
          /\ jobs'[k].attemptsMade = jobs[k].attemptsMade + 1
          /\ jobs'[k].state = IF jobs[k].attemptsMade + 1 < JobAttempts
                              THEN "waiting" ELSE "failed"
      BY <1>1, <2>2, <2>8, JobStates
    <3>2. handlers'[k] # "idle" => jobs'[k].state = "failed"
      BY <2>3, <2>8, <3>1 DEF EmitFailed
    <3>3. \A j \in JobId : j # k => handlers'[j] = handlers[j]
      BY <1>1, <2>8 DEF EmitFailed
    <3> QED BY <2>5, <2>6, <3>1, <3>2, <3>3 DEF LocksHeld, HoldsLock, InState
  <2> QED BY <1>4, <2>3, <2>7, <2>8 DEF Complete, Fail
<1>5. ASSUME NEW s \in Slot, NEW k \in JobId, Take(s, k) PROVE LocksHeld'
  <2>1. LockJob(s, k) /\ UNCHANGED handlers /\ jobs[k] # Null
    BY <1>5 DEF Take, LockJob, InState
  <2>2. slots' = [slots EXCEPT ![s] = [idleSlot EXCEPT !.pc = "load", !.job = k]]
    BY <1>5 DEF Take
  <2>3. slots'[s].job = k /\ \A t \in Slot : t # s => slots'[t] = slots[t]
    BY <1>1, <2>2 DEF idleSlot
  <2>4. /\ jobs[k].state = "waiting" /\ jobs'[k].state = "active" /\ jobs'[k].lock = s
        /\ \A j \in JobId : j # k => jobs'[j] = jobs[j]
    BY <1>1, <2>1, JobStates
  <2>5. \A t \in Slot : slots[t].pc # "idle" => slots[t].job # k /\ slots[t].job \in JobId
    BY <2>4, SlotFacts DEF LocksHeld, HoldsLock, InState
  <2> QED BY <1>j, <2>1, <2>3, <2>4, <2>5 DEF LocksHeld, HoldsLock, InState
<1>6. ASSUME NEW k \in JobId, FailStalled(k) PROVE LocksHeld'
  <2>1. FailStalledJob(k) /\ EmitFailed(k) /\ UNCHANGED slots /\ jobs[k] # Null
    BY <1>6 DEF FailStalled, FailStalledJob, InState
  <2>2. /\ jobs[k].state = "waiting" /\ jobs'[k].state = "failed"
        /\ \A j \in JobId : j # k => jobs'[j] = jobs[j]
    BY <1>1, <2>1, JobStates
  <2>3. \A t \in Slot : slots[t].pc # "idle" => slots[t].job # k /\ slots[t].job \in JobId
    BY <2>2, SlotFacts DEF LocksHeld, HoldsLock, InState
  <2>4. \A j \in JobId : j # k => handlers'[j] = handlers[j]
    BY <1>1, <2>1 DEF EmitFailed
  <2> QED BY <1>j, <2>1, <2>2, <2>3, <2>4 DEF LocksHeld, HoldsLock, InState
<1>7. ASSUME NEW k \in JobId, Recover(k) PROVE LocksHeld'
  <2>1. /\ RecoverStalledJob(k) /\ UNCHANGED <<slots, handlers>> /\ jobs[k] # Null
    BY <1>7 DEF Recover, RecoverStalledJob, HoldsLock, InState, workerVars
  <2>2. /\ jobs[k].state = "active" /\ jobs[k].lock = Null
        /\ \A j \in JobId : j # k => jobs'[j] = jobs[j]
    BY <1>1, <2>1, JobStates
  <2>3. \A t \in Slot : slots[t].pc # "idle" => slots[t].job # k /\ slots[t].job \in JobId
    BY <1>1, <2>2, SlotFacts DEF LocksHeld, HoldsLock, InState
  <2> QED BY <2>1, <2>2, <2>3 DEF LocksHeld, HoldsLock, InState
<1>8. ASSUME NEW k \in JobId, Expire(k) PROVE FALSE
  <2>1. lockLosses \in 0..MaxLockLosses /\ lockLosses < MaxLockLosses
    BY <1>8 DEF Expire, LoseLock, IInv, TypeOK, QueueTypeOK
  <2> QED BY <2>1 DEF Exclusive
<1>9. ASSUME NEW k \in JobId, React(k) PROVE LocksHeld'
  <2>1. UNCHANGED <<jobs, slots>> /\ handlers[k] # "idle"
    BY <1>9 DEF React, OnFailed, LoadFailed, MarkExhausted, queueVars
  <2>2. \A j \in JobId : j # k => handlers'[j] = handlers[j]
    BY <1>1, <1>9 DEF React, OnFailed, LoadFailed, MarkExhausted, Handler
  <2> QED BY <2>1, <2>2 DEF LocksHeld, HoldsLock, InState
<1>10. CASE Crash
  BY <1>10 DEF Crash, DropAttempts, idleSlot, LocksHeld
<1>11. ASSUME NEW r \in Request, Deliver(r) \/ Handle(r) PROVE LocksHeld'
  <2>1. UNCHANGED <<slots, handlers>>
    BY <1>11 DEF Deliver, Handle, workerVars
  <2>2. \A k \in JobId : jobs[k] # Null => jobs'[k] = jobs[k]
    BY <1>1, <1>11 DEF Deliver, Receive, Handle, HandleRequest, FindExisting, CreateEmail,
                       FindRaced, Enqueue, MarkQueued, AddJob, queueVars
  <2>3. \A s \in Slot : slots[s].pc # "idle" => slots[s].job \in JobId
    BY SlotFacts
  <2> QED BY <2>1, <2>2, <2>3 DEF LocksHeld, HoldsLock, InState
<1>12. CASE CatchUp \/ Administer \/ Quiescent \/ UNCHANGED vars
  <2>1. UNCHANGED <<jobs, slots, handlers>>
    BY <1>12 DEF CatchUp, Administer, MoveUsers, Quiescent, vars, queueVars, workerVars
  <2> QED BY <1>2, <2>1
<1> QED BY <1>3, <1>4, <1>5, <1>6, <1>7, <1>8, <1>9, <1>10, <1>11, <1>12
       DEF Next, Work, Fetch, Attempt

-------------------------------------------------------------------------------
(* What an attempt knows survives the steps of others. *)

\* Two attempts at one document resolved one tenant, unless they overlap after a
\* move.
LEMMA TenantsAgree ==
  ASSUME AttemptInv, Exclusive \/ Steady, NEW s \in Slot, NEW t \in Slot,
         slots[s].pc \in Resolved, slots[t].pc \in Resolved, emailIdOf(s) = emailIdOf(t)
  PROVE  slots[s].tenant = slots[t].tenant
<1>1. slots[s].pc # "idle" /\ slots[t].pc # "idle" /\ IInv
  BY DEF Resolved, AttemptInv
<1>2. CASE Exclusive
  BY <1>1, <1>2, Alone DEF AttemptInv
<1>3. CASE Steady
  <2>1. moves = 0
    BY <1>1, <1>3 DEF Steady, IInv, TypeOK, WorkerTypeOK
  <2>2. /\ slots[s].job \in JobId /\ slots[t].job \in JobId
        /\ emailIdOf(s) \in Request
    BY <1>1, SlotFacts
  <2> QED BY <2>1, <2>2 DEF AttemptInv, SlotsFollowDirectory, emailIdOf
<1> QED BY <1>2, <1>3

\* A settled document stays settled when tasks are added.
LEMMA SettledGrows ==
  ASSUME NEW email, NEW id, NEW T, NEW U, TasksGrow(T, U), Settled(email, id, T)
  PROVE  Settled(email, id, U)
  BY DEF Settled, TasksGrow

\* An attempt that starts, ends or throws claims nothing.
LEMMA NothingKnown ==
  ASSUME NEW slot, slot.pc \in {"idle", "load", "throw"}, NEW email, NEW id, NEW T
  PROVE  AttemptOK(slot, email, id, T)
  BY DEF AttemptOK, Resolved, Scoped, Classified, Recorded, Writing, Actionable

\* A task that is added elsewhere changes nothing.
LEMMA AttemptGrows ==
  ASSUME NEW slot, NEW email, NEW id, NEW T, NEW U, TasksGrow(T, U),
         slot.pc = "markActionable" => slot.task \in DOMAIN T,
         AttemptOK(slot, email, id, T)
  PROVE  AttemptOK(slot, email, id, U)
  BY SettledGrows DEF AttemptOK, TasksGrow

\* Nor does the late write of QUEUED.
LEMMA AttemptRequeued ==
  ASSUME NEW slot, NEW email \in EmailMessage, NEW id, NEW T, NEW doc,
         doc = [email EXCEPT !.status = "QUEUED"],
         AttemptOK(slot, email, id, T)
  PROVE  AttemptOK(slot, doc, id, T)
<1>1. /\ doc.status = "QUEUED" /\ doc.companyId = email.companyId
      /\ doc.llmRawResult = email.llmRawResult
  BY DEF EmailMessage
<1>2. Settled(doc, id, T) /\ doc.status \notin TERMINAL_EMAIL_STATUSES
  BY <1>1 DEF Settled, TERMINAL_EMAIL_STATUSES
<1> QED BY <1>1, <1>2 DEF AttemptOK

\* Nor does another attempt that overlaps, if it agrees on the tenant.
LEMMA AttemptOverlapped ==
  ASSUME ~Exclusive, NEW slot, NEW email, NEW id, NEW T, NEW doc,
         AttemptOK(slot, email, id, T),
         \/ doc.companyId = email.companyId
         \/ Steady /\ slot.pc \in Scoped => doc.companyId = slot.tenant
  PROVE  AttemptOK(slot, doc, id, T)
  BY DEF AttemptOK

-------------------------------------------------------------------------------
(* The shapes of a step. *)

\* The invariant follows from what is new about slots, jobs and documents.
LEMMA AttemptFrame ==
  ASSUME AttemptInv, [Next]_vars, TasksGrow(tasks, tasks'),
         \A s \in Slot, id \in Request :
           slots'[s].pc # "idle" /\ jobs'[slots'[s].job].emailMessageId = id =>
             \/ /\ slots'[s] = slots[s] /\ emails'[id] = emails[id]
                /\ jobs[slots[s].job].emailMessageId = id
             \/ AttemptOK(slots'[s], emails'[id], id, tasks'),
         \A k \in JobId, id \in Request :
           jobs'[k] # Null /\ jobs'[k].emailMessageId = id =>
             \/ /\ jobs[k] # Null /\ jobs'[k].state = jobs[k].state
                /\ handlers'[k] = handlers[k] /\ emails'[id] = emails[id]
             \/ JobLeaves(jobs'[k], handlers'[k], emails'[id], id, tasks'),
         \A id \in Request : \/ emails'[id] = emails[id]
                             \/ ActionableOK(emails'[id], id, tasks')
  PROVE  AttemptInv'
<1>1. IInv /\ SlotsFollowDirectory /\ (Exclusive => LocksHeld)
  BY DEF AttemptInv
<1>2. IInv' /\ SlotsFollowDirectory' /\ (Exclusive => LocksHeld')
  BY <1>1, NextKeeps, SlotsFollowKept, LocksKept
<1>3. ASSUME NEW s \in Slot, NEW id \in Request, slots'[s].pc # "idle",
             jobs'[slots'[s].job].emailMessageId = id
      PROVE  AttemptOK(slots'[s], emails'[id], id, tasks')
  <2>1. CASE /\ slots'[s] = slots[s] /\ emails'[id] = emails[id]
             /\ jobs[slots[s].job].emailMessageId = id
    <3>1. AttemptOK(slots[s], emails[id], id, tasks)
      BY <1>3, <2>1 DEF AttemptInv, emailIdOf
    <3>2. slots[s].pc = "markActionable" => slots[s].task \in DOMAIN tasks
      BY <1>1 DEF IInv, SlotOK
    <3> QED BY <2>1, <3>1, <3>2, AttemptGrows
  <2> QED BY <1>3, <2>1
<1>4. ASSUME NEW k \in JobId, NEW id \in Request, jobs'[k] # Null,
             jobs'[k].emailMessageId = id
      PROVE  JobLeaves(jobs'[k], handlers'[k], emails'[id], id, tasks')
  <2>1. CASE /\ jobs[k] # Null /\ jobs'[k].state = jobs[k].state
             /\ handlers'[k] = handlers[k] /\ emails'[id] = emails[id]
    <3>1. jobs[k].emailMessageId = id
      BY <1>1, <1>4, <2>1, JobsStay DEF JobsGrow
    <3>2. JobLeaves(jobs[k], handlers[k], emails[id], id, tasks)
      BY <2>1, <3>1 DEF AttemptInv
    <3> QED BY <2>1, <3>2, SettledGrows DEF JobLeaves
  <2> QED BY <1>4, <2>1
<1>5. ASSUME NEW id \in Request PROVE ActionableOK(emails'[id], id, tasks')
  <2>1. CASE emails'[id] = emails[id]
    <3>1. ActionableOK(emails[id], id, tasks)
      BY DEF AttemptInv
    <3> QED BY <2>1, <3>1 DEF ActionableOK, TasksGrow
  <2> QED BY <2>1
<1> QED BY <1>2, <1>3, <1>4, <1>5 DEF AttemptInv, emailIdOf

\* What busy slots and jobs refer to, before and after a step.
LEMMA References ==
  ASSUME IInv, NEW k \in JobId, jobs[k] # Null
  PROVE  /\ jobs[k] \in Job /\ jobs[k].emailMessageId \in Request
         /\ emails[jobs[k].emailMessageId] # Null
         /\ emails[jobs[k].emailMessageId] \in EmailMessage
<1>1. jobs[k] \in Job /\ jobs[k].emailMessageId \in Request
  BY DEF IInv, TypeOK, QueueTypeOK, Job
<1>2. emails[jobs[k].emailMessageId] # Null
  BY DEF IInv, JobOK
<1> QED BY <1>1, <1>2 DEF IInv, TypeOK, StoreTypeOK

\* A step that writes no document: the slots and jobs it moves have to be right.
LEMMA NoWrite ==
  ASSUME AttemptInv, [Next]_vars, UNCHANGED emails, TasksGrow(tasks, tasks'),
         \A s \in Slot, id \in Request :
           \/ slots'[s] = slots[s]
           \/ slots'[s].pc # "idle" /\ jobs'[slots'[s].job].emailMessageId = id =>
                AttemptOK(slots'[s], emails[id], id, tasks'),
         \A k \in JobId, id \in Request :
           jobs'[k] # Null =>
             \/ jobs[k] # Null /\ jobs'[k].state = jobs[k].state /\ handlers'[k] = handlers[k]
             \/ jobs'[k].emailMessageId = id =>
                  JobLeaves(jobs'[k], handlers'[k], emails[id], id, tasks')
  PROVE  AttemptInv'
<1>1. IInv
  BY DEF AttemptInv
<1>2. ASSUME NEW s \in Slot, NEW id \in Request, slots'[s].pc # "idle", slots'[s] = slots[s],
             jobs'[slots'[s].job].emailMessageId = id
      PROVE  jobs[slots[s].job].emailMessageId = id
  <2>1. slots[s].job \in JobId /\ jobs[slots[s].job] # Null
    BY <1>1, <1>2, SlotFacts, NullJobAssumption DEF NullJobAssumption
  <2> QED BY <1>1, <1>2, <2>1, JobsStay DEF JobsGrow
<1> QED BY <1>2, AttemptFrame

\* A step of one attempt that only reads, and what it then knows.
LEMMA ReadAttempt ==
  ASSUME AttemptInv, [Next]_vars, NEW s \in Slot, Process(s), NEW slot \in SlotState,
         slot.job = slots[s].job,
         AttemptOK(slot, emails[emailIdOf(s)], emailIdOf(s), tasks),
         Read(s, slot)
  PROVE  AttemptInv'
<1>1. IInv /\ WorkerTypeOK
  BY DEF AttemptInv, IInv, TypeOK
<1>2. UNCHANGED <<emails, tasks, jobs, handlers>> /\ TasksGrow(tasks, tasks')
  BY DEF Read, Throws, storeVars, queueVars, TasksGrow
<1>3. slots'[s].job = slots[s].job /\ \A t \in Slot : t # s => slots'[t] = slots[t]
  BY <1>1, ProcessMoves
<1>4. AttemptOK(slots'[s], emails[emailIdOf(s)], emailIdOf(s), tasks)
  <2>1. CASE slots' = [slots EXCEPT ![s] = slot]
    BY <1>1, <2>1 DEF WorkerTypeOK
  <2>2. CASE Step(s, "throw")
    <3>1. slots'[s].pc = "throw"
      BY <1>1, <2>2 DEF Step, WorkerTypeOK, SlotState
    <3> QED BY <3>1, NothingKnown
  <2> QED BY <2>1, <2>2 DEF Read
<1>5. \A t \in Slot, id \in Request :
        \/ slots'[t] = slots[t]
        \/ slots'[t].pc # "idle" /\ jobs'[slots'[t].job].emailMessageId = id =>
             AttemptOK(slots'[t], emails[id], id, tasks')
  BY <1>2, <1>3, <1>4 DEF emailIdOf
<1> QED BY <1>2, <1>5, NoWrite

\* A step of one attempt that calls updateStatus, and what it then knows.
LEMMA UpdateAttempt ==
  ASSUME AttemptInv, [Next]_vars, NEW s \in Slot, Process(s), slots[s].pc \in Writing,
         NEW doc \in EmailMessage, NEW next \in ProcessStep,
         \/ doc.companyId = emails[emailIdOf(s)].companyId
         \/ slots[s].pc \in Resolved /\ doc.companyId = slots[s].tenant,
         AttemptOK([slots[s] EXCEPT !.pc = next], doc, emailIdOf(s), tasks),
         ActionableOK(doc, emailIdOf(s), tasks),
         Update(s, doc, next)
  PROVE  AttemptInv'
<1> DEFINE id == emailIdOf(s)
<1>1. IInv /\ WorkerTypeOK /\ emails \in [Request -> EmailMessage \cup {Null}]
  BY DEF AttemptInv, IInv, TypeOK, StoreTypeOK
<1>2. UNCHANGED <<tasks, jobs, handlers>> /\ TasksGrow(tasks, tasks')
  BY DEF Update, Throws, queueVars, TasksGrow
<1>3. /\ slots[s].pc # "idle" /\ slots'[s].job = slots[s].job
      /\ \A t \in Slot : t # s => slots'[t] = slots[t]
  BY <1>1, ProcessMoves
<1>4. /\ id \in Request /\ slots[s].job \in JobId /\ slots[s] \in SlotState
      /\ emails[id] \in EmailMessage
  BY <1>1, <1>3, SlotFacts
<1>5. CASE Throws /\ Step(s, "throw")
  <2>1. slots'[s].pc = "throw" /\ UNCHANGED emails
    BY <1>1, <1>5 DEF Step, WorkerTypeOK, SlotState, Throws
  <2>2. \A t \in Slot, e \in Request :
          slots'[t] = slots[t] \/ AttemptOK(slots'[t], emails[e], e, tasks')
    BY <1>3, <2>1, NothingKnown
  <2> QED BY <1>2, <2>1, <2>2, NoWrite
<1>6. CASE updateEmail(id, doc) /\ (Step(s, next) \/ Step(s, "throw"))
  <2>1. emails'[id] = doc /\ \A e \in Request : e # id => emails'[e] = emails[e]
    BY <1>1, <1>4, <1>6 DEF updateEmail
  <2>2. AttemptOK(slots'[s], doc, id, tasks)
    <3>1. CASE Step(s, next)
      <4>1. slots'[s] = [slots[s] EXCEPT !.pc = next]
        BY <1>1, <3>1 DEF Step, WorkerTypeOK
      <4> QED BY <4>1
    <3>2. CASE Step(s, "throw")
      <4>1. slots'[s].pc = "throw"
        BY <1>1, <3>2 DEF Step, WorkerTypeOK, SlotState
      <4> QED BY <4>1, NothingKnown
    <3> QED BY <1>6, <3>1, <3>2
  <2>3. ASSUME NEW t \in Slot, t # s, slots[t].pc # "idle", emailIdOf(t) = id
        PROVE  AttemptOK(slots[t], doc, id, tasks)
    <3>1. ~Exclusive
      BY <1>1, <1>3, <2>3, Alone DEF AttemptInv
    <3>2. AttemptOK(slots[t], emails[id], id, tasks)
      BY <1>4, <2>3 DEF AttemptInv
    <3>3. \/ doc.companyId = emails[id].companyId
          \/ Steady /\ slots[t].pc \in Scoped => doc.companyId = slots[t].tenant
      BY <2>3, TenantsAgree DEF Scoped
    <3> QED BY <3>1, <3>2, <3>3, AttemptOverlapped
  <2>4. \A t \in Slot, e \in Request :
          slots'[t].pc # "idle" /\ jobs'[slots'[t].job].emailMessageId = e =>
            \/ /\ slots'[t] = slots[t] /\ emails'[e] = emails[e]
               /\ jobs[slots[t].job].emailMessageId = e
            \/ AttemptOK(slots'[t], emails'[e], e, tasks')
    <3> TAKE t \in Slot, e \in Request
    <3>1. CASE t = s
      BY <1>2, <1>3, <2>1, <2>2, <3>1 DEF emailIdOf
    <3>2. CASE t # s /\ emailIdOf(t) = id
      BY <1>2, <1>3, <2>1, <2>3, <3>2 DEF emailIdOf
    <3>3. CASE t # s /\ emailIdOf(t) # id
      BY <1>2, <1>3, <2>1, <3>3 DEF emailIdOf
    <3> QED BY <3>1, <3>2, <3>3
  <2>5. \A k \in JobId, e \in Request :
          jobs'[k] # Null /\ jobs'[k].emailMessageId = e =>
            \/ /\ jobs[k] # Null /\ jobs'[k].state = jobs[k].state
               /\ handlers'[k] = handlers[k] /\ emails'[e] = emails[e]
            \/ JobLeaves(jobs'[k], handlers'[k], emails'[e], e, tasks')
    <3> TAKE k \in JobId, e \in Request
    <3>1. CASE e = id /\ jobs[k] # Null /\ jobs[k].emailMessageId = e
      <4>1. slots[s].job = k
        BY <1>1, <1>3, <3>1, JobOfSlot
      <4>2. Exclusive => jobs[k].state = "active" /\ handlers[k] = "idle"
        BY <1>1, <1>3, <4>1, Alone DEF AttemptInv, InState
      <4> QED BY <1>2, <4>2 DEF JobLeaves
    <3> QED BY <1>2, <2>1, <3>1
  <2>6. \A e \in Request : emails'[e] = emails[e] \/ ActionableOK(emails'[e], e, tasks')
    BY <1>2, <2>1
  <2> HIDE DEF id
  <2> QED BY <1>2, <2>4, <2>5, <2>6, AttemptFrame
<1> QED BY <1>5, <1>6 DEF Update

-------------------------------------------------------------------------------
(* The steps of an attempt. *)

\* What is known of the document at each read of an attempt.
LEMMA ReadingAttempt ==
  ASSUME AttemptInv, [Next]_vars, NEW s \in Slot,
         Load(s) \/ Resolve(s) \/ Classify(s) \/ FindTask(s)
  PROVE  AttemptInv'
<1> DEFINE id    == emailIdOf(s)
           email == emails[id]
           slot  == slots[s]
<1>1. IInv /\ Process(s) /\ slot.pc # "idle"
  BY DEF AttemptInv, Process, Load, Resolve, Classify, FindTask, At
<1>2. /\ slot \in SlotState /\ id \in Request /\ email # Null
      /\ email \in EmailMessage
  BY <1>1, SlotFacts
<1>3. AttemptOK(slot, email, id, tasks)
  BY <1>1, <1>2 DEF AttemptInv
<1>4. Fresh => visibleEmails = emails /\ visibleTasks = tasks
  BY DEF Fresh, visibleEmails, visibleTasks
<1> HIDE DEF id, email, slot
<1>5. ASSUME NEW new \in SlotState, new.job = slot.job, AttemptOK(new, email, id, tasks),
             Read(s, new)
      PROVE  AttemptInv'
  BY <1>1, <1>5, ReadAttempt DEF id, email, slot
<1>6. CASE Load(s)
  <2> DEFINE done == getById(id) = Null \/ getById(id).status \in TERMINAL_EMAIL_STATUSES
             new  == [slot EXCEPT !.pc = IF done THEN "return" ELSE "markProcessing"]
  <2>1. Read(s, new)
    BY <1>6 DEF Load, id, slot
  <2>2. /\ new \in SlotState /\ new.job = slot.job
        /\ new.pc = IF done THEN "return" ELSE "markProcessing"
    BY <1>2 DEF SlotState, ProcessStep
  <2>3. Fresh => getById(id) = email
    BY <1>4 DEF getById, email
  <2>4. Fresh /\ new.pc = "return" => email.status \in TERMINAL_EMAIL_STATUSES
    BY <1>2, <2>2, <2>3
  <2>5. Fresh /\ new.pc = "markProcessing" => email.status \notin TERMINAL_EMAIL_STATUSES
    BY <2>2, <2>3
  <2>6. new.pc \in {"return", "markProcessing"}
    BY <2>2
  <2> HIDE DEF new
  <2>7. AttemptOK(new, email, id, tasks)
    BY <2>4, <2>5, <2>6 DEF AttemptOK, Resolved, Scoped, Classified, Recorded, Actionable,
                            Writing, Settled
  <2> QED BY <1>5, <2>1, <2>2, <2>7
<1>7. CASE Resolve(s)
  <2> DEFINE tenant == directory[email.to]
             pc     == IF tenant = Null THEN "markUnmatched" ELSE "setTenant"
             new    == [slot EXCEPT !.tenant = tenant, !.pc = pc]
  <2>1. Read(s, new) /\ slot.pc = "resolve"
    BY <1>7 DEF Resolve, At, id, slot, email
  <2>2. tenant \in Company \cup {Null}
    BY <1>1, <1>2 DEF IInv, TypeOK, WorkerTypeOK, EmailMessage
  <2>3. /\ new \in SlotState /\ new.job = slot.job
        /\ new.pc \in {"markUnmatched", "setTenant"}
    BY <1>2, <2>2 DEF SlotState, ProcessStep
  <2> HIDE DEF new
  <2>4. AttemptOK(new, email, id, tasks)
    BY <1>3, <2>1, <2>3 DEF AttemptOK, Resolved, Scoped, Classified, Recorded, Actionable,
                            TERMINAL_EMAIL_STATUSES
  <2> QED BY <1>5, <2>1, <2>3, <2>4
<1>8. CASE Classify(s)
  <2>1. PICK response \in Response :
          LET verdict == verdictOf(response)
          IN  Read(s, [slot EXCEPT !.verdict = verdict,
                                   !.pc = IF verdict = Null THEN "markFailed"
                                                            ELSE "storeRaw"])
    BY <1>8 DEF Classify, slot
  <2> DEFINE verdict == verdictOf(response)
             pc      == IF verdict = Null THEN "markFailed" ELSE "storeRaw"
             new     == [slot EXCEPT !.verdict = verdict, !.pc = pc]
  <2>2. Read(s, new) /\ slot.pc = "classify"
    BY <1>8, <2>1 DEF Classify, At, slot
  <2>3. verdict \in Verdict \cup {Null}
    BY DEF verdictOf
  <2>4. /\ new \in SlotState /\ new.job = slot.job /\ new.tenant = slot.tenant
        /\ new.pc \in {"markFailed", "storeRaw"}
    BY <1>2, <2>3 DEF SlotState, ProcessStep
  <2> HIDE DEF new
  <2>5. AttemptOK(new, email, id, tasks)
    BY <1>3, <2>2, <2>4 DEF AttemptOK, Resolved, Scoped, Classified, Recorded, Actionable,
                            TERMINAL_EMAIL_STATUSES
  <2> QED BY <1>5, <2>2, <2>4, <2>5
<1>9. CASE FindTask(s)
  <2> DEFINE existing == findBySourceEmailMessageId(slot.tenant, id)
             pc       == IF existing = {} THEN "createTask" ELSE "return"
             new      == [slot EXCEPT !.pc = pc]
  <2>1. Read(s, new) /\ slot.pc = "findTask"
    BY <1>9 DEF FindTask, At, id, slot
  <2>2. /\ new \in SlotState /\ new.job = slot.job /\ new.tenant = slot.tenant
        /\ new.verdict = slot.verdict /\ new.pc = pc
    BY <1>2 DEF SlotState, ProcessStep
  <2>3. Fresh /\ new.pc = "return" => \E i \in DOMAIN tasks : tasks[i].sourceEmailMessageId = id
    BY <1>4, <2>2 DEF findBySourceEmailMessageId
  <2>4. new.pc \in {"createTask", "return"}
    BY <2>2
  <2> HIDE DEF new
  <2>5. AttemptOK(new, email, id, tasks)
    BY <1>3, <2>1, <2>2, <2>3, <2>4 DEF AttemptOK, Resolved, Scoped, Classified, Recorded,
                                        Actionable, Writing, Settled
  <2> QED BY <1>5, <2>1, <2>2, <2>5
<1> QED BY <1>6, <1>7, <1>8, <1>9

\* What an attempt writes on its document is what it knows of it afterwards.
LEMMA WritingAttempt ==
  ASSUME AttemptInv, [Next]_vars, NEW s \in Slot,
         \/ MarkProcessing(s) \/ MarkUnmatched(s) \/ SetTenant(s) \/ StoreRaw(s)
         \/ MarkSkipped(s) \/ MarkActionable(s) \/ MarkFailed(s)
  PROVE  AttemptInv'
<1> DEFINE id    == emailIdOf(s)
           email == emails[id]
           slot  == slots[s]
<1>1. IInv /\ Process(s) /\ slot.pc # "idle" /\ slot.pc \in Writing
  BY DEF AttemptInv, Process, MarkProcessing, MarkUnmatched, SetTenant, StoreRaw, MarkSkipped,
         MarkActionable, MarkFailed, At, Writing
<1>2. /\ slot \in SlotState /\ id \in Request /\ email # Null
      /\ email \in EmailMessage
  BY <1>1, SlotFacts
<1>3. AttemptOK(slot, email, id, tasks) /\ SlotOK(slot, emails, jobs, tasks)
  BY <1>1, <1>2 DEF AttemptInv, IInv
<1>4. \A status \in EmailMessageStatus :
        LET doc == withStatus(id, status)
        IN  /\ doc \in EmailMessage /\ doc.status = status
            /\ doc.companyId = email.companyId /\ doc.llmRawResult = email.llmRawResult
  BY <1>2, StatusUpdate
<1>5. \A next \in ProcessStep :
        /\ [slot EXCEPT !.pc = next].pc = next
        /\ [slot EXCEPT !.pc = next].tenant = slot.tenant
        /\ [slot EXCEPT !.pc = next].verdict = slot.verdict
  BY <1>2 DEF SlotState
<1> HIDE DEF id, email, slot
<1>6. ASSUME NEW doc \in EmailMessage, NEW next \in ProcessStep, Update(s, doc, next),
             \/ doc.companyId = email.companyId
             \/ slot.pc \in Resolved /\ doc.companyId = slot.tenant,
             AttemptOK([slot EXCEPT !.pc = next], doc, id, tasks),
             ActionableOK(doc, id, tasks)
      PROVE  AttemptInv'
  BY <1>1, <1>6, UpdateAttempt DEF id, email, slot
<1>7. ASSUME NEW doc \in EmailMessage, Update(s, doc, "return"),
             doc.companyId = email.companyId, doc.status \in TERMINAL_EMAIL_STATUSES,
             ActionableOK(doc, id, tasks)
      PROVE  AttemptInv'
  <2> DEFINE new == [slot EXCEPT !.pc = "return"]
  <2>1. "return" \in ProcessStep
    BY DEF ProcessStep
  <2>2. new.pc = "return"
    BY <1>5, <2>1
  <2> HIDE DEF new
  <2>3. AttemptOK(new, doc, id, tasks)
    BY <1>7, <2>2 DEF AttemptOK, Resolved, Scoped, Classified, Recorded, Actionable, Writing,
                      Settled
  <2> QED BY <1>6, <1>7, <2>1, <2>3 DEF new
<1>8. ASSUME NEW status \in {"UNMATCHED", "SKIPPED", "FAILED"},
             Update(s, withStatus(id, status), "return")
      PROVE  AttemptInv'
  <2>1. status \in EmailMessageStatus /\ status \in TERMINAL_EMAIL_STATUSES
        /\ status # "ACTIONABLE"
    BY DEF EmailMessageStatus, TERMINAL_EMAIL_STATUSES
  <2>2. /\ withStatus(id, status) \in EmailMessage
        /\ withStatus(id, status).status = status
        /\ withStatus(id, status).companyId = email.companyId
    BY <1>4, <2>1
  <2>3. ActionableOK(withStatus(id, status), id, tasks)
    BY <2>1, <2>2 DEF ActionableOK
  <2> QED BY <1>7, <1>8, <2>1, <2>2, <2>3
<1>9. CASE MarkUnmatched(s) \/ MarkSkipped(s) \/ MarkFailed(s)
  BY <1>8, <1>9 DEF MarkUnmatched, MarkSkipped, MarkFailed, id
<1>10. /\ withStatus(id, "PROCESSING") \in EmailMessage
       /\ withStatus(id, "PROCESSING").status = "PROCESSING"
       /\ withStatus(id, "PROCESSING").companyId = email.companyId
       /\ withStatus(id, "PROCESSING").llmRawResult = email.llmRawResult
  BY <1>4 DEF EmailMessageStatus
<1>11. CASE MarkProcessing(s)
  <2> DEFINE doc == withStatus(id, "PROCESSING")
             new == [slot EXCEPT !.pc = "resolve"]
  <2>1. Update(s, doc, "resolve")
    BY <1>11 DEF MarkProcessing, id
  <2>2. "resolve" \in ProcessStep
    BY DEF ProcessStep
  <2>3. new.pc = "resolve"
    BY <1>5, <2>2
  <2> HIDE DEF new, doc
  <2>4. AttemptOK(new, doc, id, tasks) /\ ActionableOK(doc, id, tasks)
    BY <1>10, <2>3 DEF AttemptOK, ActionableOK, Resolved, Scoped, Classified, Recorded,
                       Actionable, Writing, doc
  <2> QED BY <1>6, <1>10, <2>1, <2>2, <2>4 DEF new, doc
<1>12. CASE SetTenant(s)
  <2> DEFINE doc == [withStatus(id, "PROCESSING") EXCEPT !.companyId = slot.tenant]
             new == [slot EXCEPT !.pc = "classify"]
  <2>1. Update(s, doc, "classify") /\ slot.pc = "setTenant"
    BY <1>12 DEF SetTenant, At, id, slot
  <2>2. "classify" \in ProcessStep
    BY DEF ProcessStep
  <2>3. new.pc = "classify" /\ new.tenant = slot.tenant
    BY <1>5, <2>2
  <2>4. slot.tenant \in Company \cup {Null}
    BY <1>2 DEF SlotState
  <2>5. doc \in EmailMessage /\ doc.companyId = slot.tenant /\ doc.status = "PROCESSING"
    BY <1>10, <2>4 DEF EmailMessage
  <2> HIDE DEF new, doc
  <2>6. AttemptOK(new, doc, id, tasks) /\ ActionableOK(doc, id, tasks)
    BY <2>3, <2>5 DEF AttemptOK, ActionableOK, Classified, Recorded, Actionable, Writing
  <2>7. slot.pc \in Resolved
    BY <2>1 DEF Resolved
  <2> QED BY <1>6, <2>1, <2>2, <2>5, <2>6, <2>7 DEF new
<1>13. CASE StoreRaw(s)
  <2> DEFINE doc  == [withStatus(id, "PROCESSING") EXCEPT !.llmRawResult = slot.verdict]
             next == IF slot.verdict = "actionable" THEN "findTask" ELSE "markSkipped"
             new  == [slot EXCEPT !.pc = next]
  <2>1. Update(s, doc, next) /\ slot.pc = "storeRaw"
    BY <1>13 DEF StoreRaw, At, id, slot
  <2>2. next \in ProcessStep
    BY DEF ProcessStep
  <2>3. new.pc = next /\ new.tenant = slot.tenant /\ new.verdict = slot.verdict
    BY <1>5, <2>2
  <2>4. slot.verdict \in Verdict \cup {Null}
    BY <1>2 DEF SlotState
  <2>5. /\ doc \in EmailMessage /\ doc.companyId = email.companyId
        /\ doc.status = "PROCESSING" /\ doc.llmRawResult = slot.verdict
    BY <1>10, <2>4 DEF EmailMessage
  <2>6. new.pc \in Actionable => slot.verdict = "actionable"
    BY <2>3 DEF Actionable
  <2>7. new.pc \in {"findTask", "markSkipped"}
    BY <2>3
  <2>8. Exclusive \/ Steady => email.companyId = slot.tenant
    BY <1>3, <2>1 DEF AttemptOK, Scoped, Resolved
  <2> HIDE DEF new, doc, next
  <2>9. AttemptOK(new, doc, id, tasks)
    BY <2>3, <2>5, <2>6, <2>7, <2>8 DEF AttemptOK, TERMINAL_EMAIL_STATUSES
  <2>10. ActionableOK(doc, id, tasks)
    BY <2>5 DEF ActionableOK
  <2> QED BY <1>6, <2>1, <2>2, <2>5, <2>9, <2>10 DEF new
<1>14. CASE MarkActionable(s)
  <2> DEFINE doc == [withStatus(id, "ACTIONABLE") EXCEPT !.taskId = slot.task]
  <2>1. Update(s, doc, "return") /\ slot.pc = "markActionable"
    BY <1>14 DEF MarkActionable, At, id, slot
  <2>2. slot.task \in Nat \cup {Null}
    BY <1>2 DEF SlotState
  <2>3. /\ doc \in EmailMessage /\ doc.companyId = email.companyId
        /\ doc.status = "ACTIONABLE" /\ doc.taskId = slot.task
    <3>1. "ACTIONABLE" \in EmailMessageStatus
      BY DEF EmailMessageStatus
    <3> QED BY <1>4, <2>2, <3>1 DEF EmailMessage
  <2>4. slot.task \in DOMAIN tasks
    BY <1>1, <1>3, <2>1 DEF SlotOK
  <2>5. /\ tasks[slot.task] = [companyId |-> slot.tenant, sourceEmailMessageId |-> id]
        /\ Exclusive \/ Steady => email.companyId = slot.tenant
    BY <1>3, <2>1 DEF AttemptOK, Scoped, Resolved
  <2> HIDE DEF doc
  <2>6. ActionableOK(doc, id, tasks)
    BY <2>3, <2>4, <2>5 DEF ActionableOK
  <2>7. doc.status \in TERMINAL_EMAIL_STATUSES
    BY <2>3 DEF TERMINAL_EMAIL_STATUSES
  <2> QED BY <1>7, <2>1, <2>3, <2>6, <2>7
<1> QED BY <1>9, <1>11, <1>12, <1>13, <1>14

\* An attempt that inserted its task knows which one it is.
LEMMA CreatingAttempt ==
  ASSUME AttemptInv, [Next]_vars, NEW s \in Slot, CreateTask(s)
  PROVE  AttemptInv'
<1> DEFINE id   == emailIdOf(s)
           slot == slots[s]
<1>1. IInv /\ Process(s) /\ slot.pc # "idle" /\ slot.pc = "createTask"
  BY DEF AttemptInv, Process, CreateTask, At
<1>2. /\ slot \in SlotState /\ id \in Request
      /\ slots \in [Slot -> SlotState]
  BY <1>1, SlotFacts DEF IInv, TypeOK, WorkerTypeOK
<1>3. AttemptOK(slot, emails[id], id, tasks)
  BY <1>1, <1>2 DEF AttemptInv
<1>4. /\ UNCHANGED <<emails, jobs, handlers>>
      /\ slots'[s].job = slot.job /\ \A t \in Slot : t # s => slots'[t] = slots[t]
  BY <1>1, ProcessMoves DEF CreateTask, storeVars, Throws
<1> HIDE DEF id, slot
<1>5. ASSUME TasksGrow(tasks, tasks'), AttemptOK(slots'[s], emails[id], id, tasks')
      PROVE  AttemptInv'
  <2>1. \A t \in Slot, e \in Request :
          \/ slots'[t] = slots[t]
          \/ slots'[t].pc # "idle" /\ jobs'[slots'[t].job].emailMessageId = e =>
               AttemptOK(slots'[t], emails[e], e, tasks')
    BY <1>4, <1>5 DEF emailIdOf, id, slot
  <2> QED BY <1>4, <1>5, <2>1, NoWrite
<1>6. CASE Step(s, "throw") /\ UNCHANGED tasks
  <2>1. slots'[s].pc = "throw"
    BY <1>2, <1>6 DEF Step, SlotState
  <2>2. TasksGrow(tasks, tasks')
    BY <1>6 DEF TasksGrow
  <2> QED BY <1>5, <2>1, <2>2, NothingKnown
<1>7. CASE AddsTask(s)
  <2> DEFINE new == Len(tasks) + 1
  <2>1. /\ DOMAIN tasks' = DOMAIN tasks \cup {new}
        /\ \A i \in DOMAIN tasks : tasks'[i] = tasks[i]
        /\ tasks'[new] = [companyId |-> slot.tenant, sourceEmailMessageId |-> id]
    BY <1>1, <1>7, AddedTask DEF id, slot
  <2>2. TasksGrow(tasks, tasks')
    BY <2>1 DEF TasksGrow
  <2>3. CASE Step(s, "throw")
    <3>1. slots'[s].pc = "throw"
      BY <1>2, <2>3 DEF Step, SlotState
    <3> QED BY <1>5, <2>2, <3>1, NothingKnown
  <2>4. CASE slots' = [slots EXCEPT ![s].pc = "markActionable", ![s].task = Len(tasks')]
    <3>1. Len(tasks') = new
      <4>1. tasks \in Seq(Task) /\ tasks' \in Seq(Task)
        BY <1>1, NextKeeps DEF IInv, TypeOK, StoreTypeOK
      <4>2. Len(tasks) \in Nat /\ DOMAIN tasks = 1..Len(tasks)
            /\ Len(tasks') \in Nat /\ DOMAIN tasks' = 1..Len(tasks')
        BY <4>1
      <4> QED BY <2>1, <4>2
    <3>2. slots'[s] = [slot EXCEPT !.pc = "markActionable", !.task = new]
      BY <1>2, <2>4, <3>1 DEF slot
    <3>3. /\ slots'[s].pc = "markActionable" /\ slots'[s].task = new
          /\ slots'[s].tenant = slot.tenant /\ slots'[s].verdict = slot.verdict
      BY <1>2, <3>2 DEF SlotState
    <3>4. AttemptOK(slot, emails[id], id, tasks')
      BY <1>1, <1>3, <2>2, AttemptGrows
    <3>5. slot.pc \in Scoped /\ slot.pc \in Actionable /\ slot.pc \in Recorded
          /\ slot.pc \in Resolved
      BY <1>1 DEF Scoped, Resolved, Actionable, Recorded, Classified
    <3> HIDE DEF new
    <3>6. AttemptOK(slots'[s], emails[id], id, tasks')
      BY <2>1, <3>3, <3>4, <3>5 DEF AttemptOK, TERMINAL_EMAIL_STATUSES
    <3> QED BY <1>5, <2>2, <3>6
  <2> QED BY <1>7, <2>3, <2>4, <1>6 DEF CreateTask, AddsTask
<1>8. AddsTask(s) \/ (Step(s, "throw") /\ UNCHANGED tasks)
  BY DEF CreateTask, AddsTask, At, Throws, storeVars
<1> QED BY <1>6, <1>7, <1>8

-------------------------------------------------------------------------------
(* The steps around an attempt. *)

\* A step that moves jobs and handlers, claims nothing and completes no job.
LEMMA QuietStep ==
  ASSUME AttemptInv, [Next]_vars, UNCHANGED <<emails, tasks>>,
         \A s \in Slot : slots'[s] = slots[s] \/ slots'[s].pc \in {"idle", "load", "throw"},
         \A k \in JobId :
           jobs'[k] # Null =>
             \/ /\ jobs[k] # Null
                /\ jobs'[k].state = jobs[k].state \/ jobs'[k].state # "completed"
                /\ handlers'[k] = handlers[k] \/ handlers'[k] # "mark"
             \/ jobs'[k].state # "completed" /\ handlers'[k] # "mark"
  PROVE  AttemptInv'
<1>1. IInv /\ TasksGrow(tasks, tasks')
  BY DEF AttemptInv, TasksGrow
<1>2. \A s \in Slot, id \in Request :
        \/ slots'[s] = slots[s]
        \/ slots'[s].pc # "idle" /\ jobs'[slots'[s].job].emailMessageId = id =>
             AttemptOK(slots'[s], emails[id], id, tasks')
  BY NothingKnown
<1>3. ASSUME NEW k \in JobId, NEW id \in Request, jobs'[k] # Null, jobs'[k].emailMessageId = id
      PROVE  JobLeaves(jobs'[k], handlers'[k], emails[id], id, tasks')
  <2>1. CASE jobs'[k].state # "completed" /\ handlers'[k] # "mark"
    BY <2>1 DEF JobLeaves
  <2>2. CASE /\ jobs[k] # Null
             /\ jobs'[k].state = jobs[k].state \/ jobs'[k].state # "completed"
             /\ handlers'[k] = handlers[k] \/ handlers'[k] # "mark"
    <3>1. jobs[k].emailMessageId = id
      BY <1>1, <1>3, <2>2, JobsStay DEF JobsGrow
    <3>2. JobLeaves(jobs[k], handlers[k], emails[id], id, tasks)
      BY <2>2, <3>1 DEF AttemptInv
    <3> QED BY <2>2, <3>2 DEF JobLeaves
  <2> QED BY <1>3, <2>1, <2>2
<1> QED BY <1>1, <1>2, <1>3, NoWrite

\* The end of an attempt: only one that returned completes its job.
LEMMA EndingAttempt ==
  ASSUME AttemptInv, [Next]_vars, NEW s \in Slot, Complete(s) \/ Fail(s)
  PROVE  AttemptInv'
<1> DEFINE k == slots[s].job
<1>1. /\ IInv /\ slots[s].pc # "idle"
      /\ UNCHANGED <<emails, tasks>> /\ TasksGrow(tasks, tasks')
      /\ slots' = [slots EXCEPT ![s] = idleSlot]
  BY DEF AttemptInv, Complete, Fail, At, storeVars, TasksGrow
<1>2. /\ k \in JobId /\ jobs[k] # Null /\ jobs \in [JobId -> Job \cup {Null}]
      /\ handlers \in [JobId -> {"idle", "load", "mark"}]
      /\ emailIdOf(s) \in Request
  BY <1>1, SlotFacts, NullJobAssumption DEF NullJobAssumption, IInv, TypeOK, QueueTypeOK,
                                            WorkerTypeOK
<1>3. \A t \in Slot : slots'[t] = slots[t] \/ slots'[t].pc = "idle"
  BY <1>1 DEF IInv, TypeOK, WorkerTypeOK, idleSlot
<1>4. CASE UNCHANGED <<jobs, handlers>>
  BY <1>1, <1>3, <1>4, QuietStep
<1>5. CASE FailJob(k) /\ EmitFailed(k)
  <2>1. /\ jobs'[k].state # "completed"
        /\ \A j \in JobId : j # k => jobs'[j] = jobs[j]
    BY <1>2, <1>5, JobStates
  <2>2. /\ handlers'[k] = handlers[k] \/ handlers'[k] # "mark"
        /\ \A j \in JobId : j # k => handlers'[j] = handlers[j]
    BY <1>2, <1>5 DEF EmitFailed
  <2> HIDE DEF k
  <2>3. \A j \in JobId :
          jobs'[j] # Null =>
            /\ jobs[j] # Null
            /\ jobs'[j].state = jobs[j].state \/ jobs'[j].state # "completed"
            /\ handlers'[j] = handlers[j] \/ handlers'[j] # "mark"
    BY <1>2, <2>1, <2>2
  <2> QED BY <1>1, <1>3, <2>3, QuietStep
<1>6. CASE At(s, "return") /\ CompleteJob(k) /\ UNCHANGED handlers
  <2>1. /\ jobs'[k].state = "completed"
        /\ \A j \in JobId : j # k => jobs'[j] = jobs[j]
    BY <1>2, <1>6, JobStates
  <2>2. \A t \in Slot, id \in Request :
          \/ slots'[t] = slots[t]
          \/ slots'[t].pc # "idle" /\ jobs'[slots'[t].job].emailMessageId = id =>
               AttemptOK(slots'[t], emails[id], id, tasks')
    BY <1>3
  <2>3. ASSUME NEW id \in Request, jobs'[k].emailMessageId = id
        PROVE  JobLeaves(jobs'[k], handlers'[k], emails[id], id, tasks')
    <3>1. id = emailIdOf(s)
      BY <1>1, <1>2, <2>3, JobsStay DEF JobsGrow, emailIdOf
    <3>2. AttemptOK(slots[s], emails[id], id, tasks)
      BY <1>1, <1>2, <3>1 DEF AttemptInv
    <3>3. Exclusive => handlers[k] = "idle"
      BY <1>1, Alone DEF AttemptInv
    <3> QED BY <1>1, <1>6, <3>2, <3>3 DEF JobLeaves, AttemptOK, At
  <2> HIDE DEF k
  <2>4. \A j \in JobId, id \in Request :
          jobs'[j] # Null =>
            \/ jobs[j] # Null /\ jobs'[j].state = jobs[j].state /\ handlers'[j] = handlers[j]
            \/ jobs'[j].emailMessageId = id =>
                 JobLeaves(jobs'[j], handlers'[j], emails[id], id, tasks')
    BY <1>6, <2>1, <2>3
  <2> QED BY <1>1, <2>2, <2>4, NoWrite
<1> QED BY <1>4, <1>5, <1>6 DEF Complete, Fail

\* Fetching a job, stalls, expiring locks and a crash settle nothing.
LEMMA QueueingAttempt ==
  ASSUME AttemptInv, [Next]_vars,
         Fetch \/ Crash \/ \E k \in JobId : Recover(k) \/ Expire(k)
  PROVE  AttemptInv'
<1>1. /\ IInv /\ jobs \in [JobId -> Job \cup {Null}]
      /\ handlers \in [JobId -> {"idle", "load", "mark"}]
      /\ slots \in [Slot -> SlotState]
  BY DEF AttemptInv, IInv, TypeOK, QueueTypeOK, WorkerTypeOK
<1>2. UNCHANGED <<emails, tasks>>
  BY DEF Fetch, Take, FailStalled, Crash, Recover, Expire, storeVars
<1>3. ASSUME NEW s \in Slot, NEW k \in JobId, Take(s, k) PROVE AttemptInv'
  <2>1. LockJob(s, k) /\ UNCHANGED handlers /\ jobs[k] # Null
    BY <1>3 DEF Take, LockJob, InState
  <2>2. slots' = [slots EXCEPT ![s] = [idleSlot EXCEPT !.pc = "load", !.job = k]]
    BY <1>3 DEF Take
  <2>3. slots'[s].pc = "load" /\ \A t \in Slot : t # s => slots'[t] = slots[t]
    BY <1>1, <2>2 DEF idleSlot
  <2>4. /\ jobs'[k].state # "completed"
        /\ \A j \in JobId : j # k => jobs'[j] = jobs[j]
    BY <1>1, <2>1, JobStates
  <2>5. \A t \in Slot : slots'[t] = slots[t] \/ slots'[t].pc \in {"idle", "load", "throw"}
    BY <2>3
  <2>6. \A j \in JobId :
          jobs'[j] # Null =>
            /\ jobs[j] # Null
            /\ jobs'[j].state = jobs[j].state \/ jobs'[j].state # "completed"
            /\ handlers'[j] = handlers[j] \/ handlers'[j] # "mark"
    BY <2>1, <2>4
  <2> QED BY <1>2, <2>5, <2>6, QuietStep
<1>4. ASSUME NEW k \in JobId, FailStalled(k) \/ Recover(k) PROVE AttemptInv'
  <2>1. /\ FailStalledJob(k) \/ RecoverStalledJob(k)
        /\ EmitFailed(k) \/ UNCHANGED handlers
        /\ UNCHANGED slots /\ jobs[k] # Null
    BY <1>4 DEF FailStalled, FailStalledJob, Recover, RecoverStalledJob, HoldsLock, InState,
                workerVars
  <2>2. /\ jobs'[k].state # "completed"
        /\ \A j \in JobId : j # k => jobs'[j] = jobs[j]
    BY <1>1, <2>1, JobStates
  <2>3. /\ handlers'[k] = handlers[k] \/ handlers'[k] # "mark"
        /\ \A j \in JobId : j # k => handlers'[j] = handlers[j]
    BY <1>1, <2>1 DEF EmitFailed
  <2>4. \A j \in JobId :
          jobs'[j] # Null =>
            /\ jobs[j] # Null
            /\ jobs'[j].state = jobs[j].state \/ jobs'[j].state # "completed"
            /\ handlers'[j] = handlers[j] \/ handlers'[j] # "mark"
    BY <2>1, <2>2, <2>3
  <2> QED BY <1>2, <2>1, <2>4, QuietStep
<1>5. ASSUME NEW k \in JobId, Expire(k) PROVE AttemptInv'
  <2>1. /\ jobs' = [jobs EXCEPT ![k].lock = Null] /\ jobs[k] # Null
        /\ UNCHANGED <<slots, handlers>>
    BY <1>5 DEF Expire, LoseLock, InState, workerVars
  <2>2. jobs[k] \in Job
    BY <1>1, <2>1
  <2>3. /\ jobs'[k].state = jobs[k].state
        /\ \A j \in JobId : j # k => jobs'[j] = jobs[j]
    BY <1>1, <2>1, <2>2 DEF Job
  <2>4. \A j \in JobId :
          jobs'[j] # Null => jobs[j] # Null /\ jobs'[j].state = jobs[j].state
    BY <2>1, <2>3
  <2> QED BY <1>2, <2>1, <2>4, QuietStep
<1>6. CASE Crash
  <2>1. \A j \in JobId : jobs'[j] # Null => jobs[j] # Null /\ jobs'[j].state = jobs[j].state
    <3> SUFFICES ASSUME NEW j \in JobId, jobs'[j] # Null
                 PROVE  jobs[j] # Null /\ jobs'[j].state = jobs[j].state
      OBVIOUS
    <3>1. \/ jobs[j] # Null /\ jobs'[j] = [jobs[j] EXCEPT !.lock = Null]
          \/ jobs'[j] = jobs[j]
      BY <1>6 DEF Crash, ReleaseLocks, InState
    <3>2. jobs[j] # Null => jobs[j] \in Job
      BY <1>1
    <3> QED BY <3>1, <3>2 DEF Job
  <2>2. /\ \A s \in Slot : slots'[s].pc = "idle"
        /\ \A k \in JobId : handlers'[k] = "idle"
    BY <1>6 DEF Crash, DropAttempts, idleSlot
  <2>3. \A j \in JobId :
          jobs'[j] # Null =>
            /\ jobs[j] # Null
            /\ jobs'[j].state = jobs[j].state \/ jobs'[j].state # "completed"
            /\ handlers'[j] = handlers[j] \/ handlers'[j] # "mark"
    BY <2>1, <2>2
  <2> QED BY <1>2, <2>2, <2>3, QuietStep
<1> QED BY <1>3, <1>4, <1>5, <1>6 DEF Fetch

\* A step of a delivery: only the late write of QUEUED can meet an attempt.
LEMMA DeliveringAttempt ==
  ASSUME AttemptInv, [Next]_vars, NEW r \in Request, Deliver(r) \/ Handle(r)
  PROVE  AttemptInv'
<1>1. /\ IInv /\ UNCHANGED <<slots, handlers, tasks>> /\ TasksGrow(tasks, tasks')
      /\ jobs \in [JobId -> Job \cup {Null}]
      /\ emails \in [Request -> EmailMessage \cup {Null}]
  BY DEF AttemptInv, IInv, TypeOK, QueueTypeOK, StoreTypeOK, TasksGrow, Deliver, Receive, Handle,
         HandleRequest, FindExisting, CreateEmail, FindRaced, Enqueue, MarkQueued, Throws,
         storeVars, workerVars
<1>2. CASE UNCHANGED emails
  <2>1. \A k \in JobId :
          jobs'[k] # Null =>
            \/ jobs'[k] = jobs[k]
            \/ jobs[k] = Null /\ jobs'[k].state = "waiting"
    <3>1. CASE UNCHANGED jobs
      BY <3>1
    <3>2. CASE AddJob(toEmailProcessingJobId(messageOf(r)), r)
      BY <1>1, <3>2 DEF AddJob
    <3>3. UNCHANGED jobs \/ AddJob(toEmailProcessingJobId(messageOf(r)), r)
      BY DEF Deliver, Receive, Handle, HandleRequest, FindExisting, CreateEmail, FindRaced,
             Enqueue, MarkQueued, queueVars
    <3> QED BY <3>1, <3>2, <3>3
  <2>2. \A k \in JobId :
          jobs'[k] # Null =>
            \/ /\ jobs[k] # Null
               /\ jobs'[k].state = jobs[k].state \/ jobs'[k].state # "completed"
               /\ handlers'[k] = handlers[k] \/ handlers'[k] # "mark"
            \/ jobs'[k].state # "completed" /\ handlers'[k] # "mark"
    BY <1>1, <2>1 DEF IInv, HandlerOK
  <2> QED BY <1>1, <1>2, <2>2, QuietStep
<1>3. CASE CreateEmail(r) /\ ~UNCHANGED emails
  <2>1. /\ emails' = [emails EXCEPT ![r] = receivedEmail(messageOf(r), requests[r].to)]
        /\ requests[r].pc = "createEmail" /\ UNCHANGED jobs
    BY <1>3 DEF CreateEmail, createEmail, Throws, Handling, storeVars, queueVars
  <2>2. emails[r] = Null
    BY <2>1 DEF IInv, DeliveryOK, AttemptInv
  <2>3. emails'[r].status = "RECEIVED" /\ \A e \in Request : e # r => emails'[e] = emails[e]
    BY <1>1, <2>1 DEF receivedEmail
  <2>4. \A s \in Slot : slots[s].pc # "idle" => emailIdOf(s) # r
    BY <1>1, <2>2, SlotFacts
  <2>5. \A k \in JobId : jobs[k] # Null => jobs[k].emailMessageId # r
    BY <1>1, <2>2, References
  <2>6. ActionableOK(emails'[r], r, tasks')
    BY <2>3 DEF ActionableOK
  <2>7. \A e \in Request : emails'[e] = emails[e] \/ ActionableOK(emails'[e], e, tasks')
    BY <2>3, <2>6
  <2>8. \A s \in Slot, e \in Request :
          slots'[s].pc # "idle" /\ jobs'[slots'[s].job].emailMessageId = e =>
            /\ slots'[s] = slots[s] /\ emails'[e] = emails[e]
            /\ jobs[slots[s].job].emailMessageId = e
    BY <1>1, <2>1, <2>3, <2>4 DEF emailIdOf
  <2>9. \A k \in JobId, e \in Request :
          jobs'[k] # Null /\ jobs'[k].emailMessageId = e =>
            /\ jobs[k] # Null /\ jobs'[k].state = jobs[k].state
            /\ handlers'[k] = handlers[k] /\ emails'[e] = emails[e]
    BY <1>1, <2>1, <2>3, <2>5
  <2> QED BY <1>1, <2>7, <2>8, <2>9, AttemptFrame
<1>4. CASE MarkQueued(r) /\ ~UNCHANGED emails
  <2> DEFINE doc == withStatus(r, "QUEUED")
  <2>1. /\ emails' = [emails EXCEPT ![r] = doc]
        /\ requests[r].pc = "markQueued" /\ UNCHANGED jobs
    BY <1>4 DEF MarkQueued, updateEmail, Throws, Handling, queueVars
  <2>2. emails[r] # Null /\ emails[r] \in EmailMessage
    BY <1>1, <2>1 DEF IInv, DeliveryOK
  <2>3. doc = [emails[r] EXCEPT !.status = "QUEUED"] /\ doc.status = "QUEUED"
    BY <2>2, StatusUpdate DEF EmailMessageStatus
  <2> HIDE DEF doc
  <2>4. emails'[r] = doc /\ \A e \in Request : e # r => emails'[e] = emails[e]
    BY <1>1, <2>1
  <2>5. ActionableOK(doc, r, tasks')
    BY <2>3 DEF ActionableOK
  <2>6. \A e \in Request : emails'[e] = emails[e] \/ ActionableOK(emails'[e], e, tasks')
    BY <2>4, <2>5
  <2>7. ASSUME NEW s \in Slot, slots[s].pc # "idle", emailIdOf(s) = r
        PROVE  AttemptOK(slots[s], doc, r, tasks')
    <3>1. AttemptOK(slots[s], emails[r], r, tasks)
      BY <2>7 DEF AttemptInv
    <3> QED BY <1>1, <2>2, <2>3, <3>1, AttemptRequeued
  <2>8. \A s \in Slot, e \in Request :
          slots'[s].pc # "idle" /\ jobs'[slots'[s].job].emailMessageId = e =>
            \/ /\ slots'[s] = slots[s] /\ emails'[e] = emails[e]
               /\ jobs[slots[s].job].emailMessageId = e
            \/ AttemptOK(slots'[s], emails'[e], e, tasks')
    BY <1>1, <2>1, <2>4, <2>7 DEF emailIdOf
  <2>9. \A job, handler : JobLeaves(job, handler, doc, r, tasks')
    BY <2>3 DEF JobLeaves, Settled, TERMINAL_EMAIL_STATUSES
  <2>10. \A k \in JobId, e \in Request :
           jobs'[k] # Null /\ jobs'[k].emailMessageId = e =>
             \/ /\ jobs[k] # Null /\ jobs'[k].state = jobs[k].state
                /\ handlers'[k] = handlers[k] /\ emails'[e] = emails[e]
             \/ JobLeaves(jobs'[k], handlers'[k], emails'[e], e, tasks')
    BY <1>1, <2>1, <2>4, <2>9
  <2> QED BY <1>1, <2>6, <2>8, <2>10, AttemptFrame
<1>5. UNCHANGED emails \/ CreateEmail(r) \/ MarkQueued(r)
  BY DEF Deliver, Receive, Handle, HandleRequest, FindExisting, FindRaced, Enqueue, storeVars,
         Throws
<1> QED BY <1>2, <1>3, <1>4, <1>5

\* onFailed: it writes FAILED on a document that no attempt works on, unless a
\* slot lost its lock.
LEMMA ReactingAttempt ==
  ASSUME AttemptInv, [Next]_vars, NEW k \in JobId, React(k)
  PROVE  AttemptInv'
<1> DEFINE id == jobs[k].emailMessageId
<1>1. /\ IInv /\ UNCHANGED <<slots, jobs, tasks>> /\ TasksGrow(tasks, tasks')
      /\ handlers[k] # "idle"
      /\ emails \in [Request -> EmailMessage \cup {Null}]
      /\ handlers \in [JobId -> {"idle", "load", "mark"}]
  BY DEF AttemptInv, IInv, TypeOK, WorkerTypeOK, StoreTypeOK, TasksGrow, React, OnFailed,
         LoadFailed, MarkExhausted, Throws, storeVars, queueVars
<1>2. jobs[k] # Null
  BY <1>1 DEF IInv, HandlerOK
<1>3. id \in Request /\ emails[id] # Null /\ emails[id] \in EmailMessage
  BY <1>1, <1>2, References
<1>4. /\ \A j \in JobId : j # k => handlers'[j] = handlers[j]
      /\ handlers'[k] \in {"idle", "mark"}
      /\ MarkExhausted(k) => handlers'[k] = "idle"
  BY <1>1 DEF React, OnFailed, LoadFailed, MarkExhausted, Handler
<1> HIDE DEF id
<1>5. CASE UNCHANGED emails /\ handlers'[k] = "idle"
  <2>1. \A j \in JobId :
          jobs'[j] # Null =>
            /\ jobs[j] # Null /\ jobs'[j].state = jobs[j].state
            /\ handlers'[j] = handlers[j] \/ handlers'[j] # "mark"
    BY <1>1, <1>4, <1>5
  <2> QED BY <1>1, <1>5, <2>1, QuietStep
<1>6. CASE LoadFailed(k) /\ handlers'[k] # "idle"
  <2>1. /\ UNCHANGED emails
        /\ getById(id) # Null /\ getById(id).status \notin TERMINAL_EMAIL_STATUSES
    BY <1>1, <1>6 DEF LoadFailed, Handler, storeVars, Throws, id
  <2>2. Fresh => emails[id].status \notin TERMINAL_EMAIL_STATUSES
    BY <2>1 DEF Fresh, getById, visibleEmails
  <2>3. JobLeaves(jobs[k], handlers[k], emails[id], id, tasks)
    BY <1>2, <1>3 DEF AttemptInv, id
  <2>4. JobLeaves(jobs'[k], handlers'[k], emails[id], id, tasks')
    BY <1>1, <2>2, <2>3 DEF JobLeaves
  <2>5. \A j \in JobId, e \in Request :
          jobs'[j] # Null =>
            \/ jobs[j] # Null /\ jobs'[j].state = jobs[j].state /\ handlers'[j] = handlers[j]
            \/ jobs'[j].emailMessageId = e =>
                 JobLeaves(jobs'[j], handlers'[j], emails[e], e, tasks')
    BY <1>1, <1>4, <2>4 DEF id
  <2> QED BY <1>1, <2>1, <2>5, NoWrite
<1>7. CASE MarkExhausted(k) /\ ~UNCHANGED emails
  <2> DEFINE doc == withStatus(id, "FAILED")
  <2>1. emails' = [emails EXCEPT ![id] = doc] /\ handlers[k] = "mark"
    BY <1>7 DEF MarkExhausted, updateEmail, Throws, id
  <2>2. doc.status = "FAILED" /\ doc.companyId = emails[id].companyId
    BY <1>3, StatusUpdate DEF EmailMessageStatus
  <2> HIDE DEF doc
  <2>3. emails'[id] = doc /\ \A e \in Request : e # id => emails'[e] = emails[e]
    BY <1>1, <1>3, <2>1
  <2>4. ActionableOK(doc, id, tasks')
    BY <2>2 DEF ActionableOK
  <2>5. \A e \in Request : emails'[e] = emails[e] \/ ActionableOK(emails'[e], e, tasks')
    BY <2>3, <2>4
  <2>6. ASSUME NEW s \in Slot, slots[s].pc # "idle", emailIdOf(s) = id
        PROVE  AttemptOK(slots[s], doc, id, tasks')
    <3>1. slots[s].job = k
      BY <1>1, <1>2, <2>6, JobOfSlot DEF id
    <3>2. ~Exclusive
      BY <1>1, <2>6, <3>1, Alone DEF AttemptInv
    <3>3. AttemptOK(slots[s], emails[id], id, tasks)
      BY <1>3, <2>6 DEF AttemptInv
    <3> QED BY <1>1, <2>2, <3>2, <3>3, AttemptOverlapped
  <2>7. \A s \in Slot, e \in Request :
          slots'[s].pc # "idle" /\ jobs'[slots'[s].job].emailMessageId = e =>
            \/ /\ slots'[s] = slots[s] /\ emails'[e] = emails[e]
               /\ jobs[slots[s].job].emailMessageId = e
            \/ AttemptOK(slots'[s], emails'[e], e, tasks')
    BY <1>1, <2>3, <2>6 DEF emailIdOf
  <2>8. \A job : JobLeaves(job, "idle", doc, id, tasks')
    BY <2>2 DEF JobLeaves, Settled, TERMINAL_EMAIL_STATUSES
  <2>9. \A j \in JobId : jobs[j] # Null /\ jobs[j].emailMessageId = id => j = k
    BY <1>1, <1>2 DEF IInv, JobOK, id
  <2>10. \A j \in JobId, e \in Request :
           jobs'[j] # Null /\ jobs'[j].emailMessageId = e =>
             \/ /\ jobs[j] # Null /\ jobs'[j].state = jobs[j].state
                /\ handlers'[j] = handlers[j] /\ emails'[e] = emails[e]
             \/ JobLeaves(jobs'[j], handlers'[j], emails'[e], e, tasks')
    <3> TAKE j \in JobId, e \in Request
    <3>1. CASE j = k /\ e = id
      BY <1>4, <1>7, <2>3, <2>8, <3>1
    <3>2. CASE e = id /\ j # k
      BY <1>1, <2>9, <3>2
    <3>3. CASE e # id /\ j # k
      BY <1>1, <1>4, <2>3, <3>3
    <3>4. CASE e # id /\ j = k
      BY <1>1, <3>4 DEF id
    <3> QED BY <3>1, <3>2, <3>3, <3>4
  <2> QED BY <1>1, <2>5, <2>7, <2>10, AttemptFrame
<1>8. \/ LoadFailed(k) /\ UNCHANGED emails
      \/ MarkExhausted(k)
  BY DEF React, OnFailed, LoadFailed, Throws, storeVars
<1> QED BY <1>4, <1>5, <1>6, <1>7, <1>8

-------------------------------------------------------------------------------
(* The attempt invariant, and what it gives for every value of the constants. *)

\* Whatever locks, faults and moves are allowed, the invariant is kept; what it
\* says is stronger the fewer there are.
LEMMA AttemptHolds == Spec => []AttemptInv
<1>1. Init => AttemptInv
  <2> SUFFICES ASSUME Init PROVE AttemptInv
    OBVIOUS
  <2>1. /\ \A id \in Request : emails[id] = Null
        /\ \A s \in Slot : slots[s].pc = "idle"
        /\ \A k \in JobId : jobs[k] = Null /\ handlers[k] = "idle"
    BY DEF Init, StoreInit, QueueInit, WorkerInit, idleSlot
  <2>2. SlotsFollowDirectory
    BY <2>1 DEF SlotsFollowDirectory, Resolved
  <2> QED BY <2>1, <2>2, InitEstablishes DEF AttemptInv, LocksHeld, ActionableOK
<1>2. AttemptInv /\ [Next]_vars => AttemptInv'
  <2> SUFFICES ASSUME AttemptInv, [Next]_vars PROVE AttemptInv'
    OBVIOUS
  <2>1. ASSUME NEW s \in Slot, Process(s) PROVE AttemptInv'
    BY <2>1, ReadingAttempt, WritingAttempt, CreatingAttempt DEF Process
  <2>2. CASE CatchUp \/ Administer \/ Quiescent \/ UNCHANGED vars
    <3>1. UNCHANGED <<emails, tasks, jobs, slots, handlers>>
      BY <2>2 DEF CatchUp, Replicate, Administer, MoveUsers, Quiescent, vars, storeVars,
                  queueVars, workerVars
    <3> QED BY <3>1, QuietStep
  <2> QED BY <2>1, <2>2, EndingAttempt, QueueingAttempt, DeliveringAttempt, ReactingAttempt
         DEF Next, Work, Attempt
<1> QED BY <1>1, <1>2, PTL DEF Spec

\* A job is completed only when its email is settled, as long as no slot loses a
\* lock and reads are of the primary: whatever fails, crashes, stalls or is
\* retried in between (processEmail).
THEOREM CompletedIsSettled ==
  ASSUME Exclusive, Fresh
  PROVE  Spec => []CompletedJobSettlesEmail
<1>1. AttemptInv => CompletedJobSettlesEmail
  <2> SUFFICES ASSUME AttemptInv, NEW k \in JobId, jobs[k] # Null,
                      jobs[k].state = "completed"
               PROVE  LET id == jobs[k].emailMessageId
                      IN  Settled(emails[id], id, tasks)
    BY DEF CompletedJobSettlesEmail, InState, EmailStatusIn, Settled
  <2>1. jobs[k].emailMessageId \in Request
    BY References DEF AttemptInv
  <2> QED BY <2>1 DEF AttemptInv, JobLeaves
<1> QED BY <1>1, AttemptHolds, PTL

\* Only the late write of QUEUED takes an email out of a terminal status, under
\* the same conditions: no attempt and no onFailed writes over one.
THEOREM TerminalIsKept ==
  ASSUME Exclusive, Fresh
  PROVE  Spec => TerminalOnlyRequeued
<1>1. ASSUME AttemptInv, [Next]_vars
      PROVE  \A id \in Request :
               emails[id] # Null /\ emails[id].status \in TERMINAL_EMAIL_STATUSES
               => emails'[id].status \in {emails[id].status, "QUEUED"}
  <2> SUFFICES ASSUME NEW id \in Request, emails[id] # Null,
                      emails[id].status \in TERMINAL_EMAIL_STATUSES, emails'[id] # emails[id]
               PROVE  emails'[id].status = "QUEUED"
    OBVIOUS
  <2>1. IInv /\ emails \in [Request -> EmailMessage \cup {Null}]
    BY <1>1 DEF AttemptInv, IInv, TypeOK, StoreTypeOK
  <2>2. Rewrites(id)
    <3>1. ASSUME NEW r \in Request, Inserts(r) PROVE FALSE
      <4>1. emails' = [emails EXCEPT ![r] = receivedEmail(messageOf(r), requests[r].to)]
            /\ requests[r].pc = "createEmail"
        BY <3>1 DEF Inserts, createEmail
      <4>2. emails[r] = Null
        BY <2>1, <4>1 DEF IInv, DeliveryOK
      <4> QED BY <2>1, <4>1, <4>2
    <3>2. ASSUME NEW r \in Request, Rewrites(r) PROVE r = id
      BY <2>1, <3>2 DEF Rewrites, updateEmail
    <3> QED BY <1>1, <2>1, <3>1, <3>2, EmailSteps
  <2>3. ASSUME NEW s \in Slot, slots[s].pc \in Writing, emailIdOf(s) = id PROVE FALSE
    <3>1. AttemptOK(slots[s], emails[id], id, tasks)
      BY <1>1, <2>3 DEF AttemptInv, Writing
    <3> QED BY <2>3, <3>1 DEF AttemptOK
  <2>4. ASSUME NEW k \in JobId, handlers[k] = "mark", jobs[k].emailMessageId = id PROVE FALSE
    <3>1. jobs[k] # Null
      BY <2>1, <2>4 DEF IInv, HandlerOK
    <3>2. JobLeaves(jobs[k], handlers[k], emails[id], id, tasks)
      BY <1>1, <2>4, <3>1 DEF AttemptInv
    <3> QED BY <2>4, <3>2 DEF JobLeaves
  <2>5. updateEmail(id, withStatus(id, "QUEUED"))
    BY <2>2, <2>3, <2>4 DEF Rewrites, Writer
  <2>6. emails'[id] = withStatus(id, "QUEUED")
    BY <2>1, <2>5 DEF updateEmail
  <2> QED BY <2>1, <2>6, StatusUpdate DEF EmailMessageStatus
<1>2. AttemptInv /\ [Next]_vars =>
        \A id \in Request :
          emails[id] # Null /\ emails[id].status \in TERMINAL_EMAIL_STATUSES
          => emails'[id].status \in {emails[id].status, "QUEUED"}
  BY <1>1
<1> QED BY <1>2, AttemptHolds, PTL DEF Spec, TerminalOnlyRequeued

\* An ACTIONABLE email points at a task made from it for the company on it, as
\* long as attempts do not overlap or nobody moves; on a replica set as well.
THEOREM ActionableHasItsTask ==
  ASSUME Exclusive \/ Steady
  PROVE  Spec => []ActionableEmailHasItsTask
<1>1. AttemptInv => ActionableEmailHasItsTask
  BY DEF AttemptInv, ActionableOK, ActionableEmailHasItsTask
<1> QED BY <1>1, AttemptHolds, PTL

-------------------------------------------------------------------------------
(* A task and the record it was made from.                                     *)
(*                                                                             *)
(* While a job has never been redone, one attempt at most was ever made at it: *)
(* whatever its email has on record was written by that attempt, and a task of *)
(* the email is that attempt's last word but one.                              *)

FirstRun(job) == job # Null /\ job.attemptsMade = 0 /\ job.stalled = 0

WorksOn(s, k) == slots[s].pc # "idle" /\ slots[s].job = k

NoTaskOf(id, T) == \A i \in DOMAIN T : T[i].sourceEmailMessageId # id

\* What the first attempt has established by each step.
FirstAttemptOK(slot, email, id, T) ==
  /\ slot.pc \in Scoped => email.companyId = slot.tenant
  /\ slot.pc \in Recorded => email.llmRawResult = slot.verdict
  /\ slot.pc \in {"findTask", "createTask"} => slot.verdict = "actionable"
  /\ slot.pc \notin {"markActionable", "return", "throw"} => NoTaskOf(id, T)

\* The tasks of a document are the ones its record led to.
RecordLedTo(email, id, T) ==
  \A i \in DOMAIN T :
    T[i].sourceEmailMessageId = id =>
      email.companyId = T[i].companyId /\ email.llmRawResult = "actionable"

FirstRunOK(k) ==
  LET id == jobs[k].emailMessageId
  IN  /\ \A s, t \in Slot : WorksOn(s, k) /\ WorksOn(t, k) => s = t
      /\ \A s \in Slot : WorksOn(s, k) =>
           /\ jobs[k].state # "waiting"
           /\ FirstAttemptOK(slots[s], emails[id], id, tasks)
      /\ jobs[k].state = "waiting" => NoTaskOf(id, tasks)
      /\ RecordLedTo(emails[id], id, tasks)

FirstRunsOK == \A k \in JobId : FirstRun(jobs[k]) => FirstRunOK(k)

TasksNeedJobs == \A i \in DOMAIN tasks : Named(tasks[i].sourceEmailMessageId)

\* Until the first move, whatever company an attempt wrote is the directory's.
EmailsFollowDirectory ==
  moves = 0 =>
    \A id \in Request :
      emails[id] # Null /\ emails[id].companyId # Null =>
        emails[id].companyId = directory[emails[id].to]

AuditInv ==
  /\ IInv
  /\ SlotsFollowDirectory
  /\ TasksFollowDirectory
  /\ EmailsFollowDirectory
  /\ TasksNeedJobs
  /\ FirstRunsOK

\* A job that was given up by an attempt or taken for stalled is never again in its
\* first run; what else happens to a job leaves its run as it is.
LEMMA RunsEnd ==
  ASSUME jobs \in [JobId -> Job \cup {Null}], NEW k \in JobId, jobs[k] # Null
  PROVE  /\ (\E s \in Slot : LockJob(s, k)) \/ CompleteJob(k) \/ LoseLock(k) \/ ReleaseLocks
              => /\ FirstRun(jobs'[k]) => FirstRun(jobs[k])
                 /\ jobs'[k].state = "waiting" => jobs[k].state = "waiting"
         /\ FailJob(k) \/ FailStalledJob(k) \/ RecoverStalledJob(k) => ~FirstRun(jobs'[k])
<1>1. jobs[k] \in Job /\ jobs[k].attemptsMade \in Nat /\ jobs[k].stalled \in Nat
  BY DEF Job
<1>2. ASSUME NEW s \in Slot, LockJob(s, k)
      PROVE  /\ FirstRun(jobs'[k]) => FirstRun(jobs[k])
             /\ jobs'[k].state = "waiting" => jobs[k].state = "waiting"
  BY <1>1, <1>2 DEF LockJob, Job, FirstRun
<1>3. ASSUME CompleteJob(k) \/ LoseLock(k)
      PROVE  /\ FirstRun(jobs'[k]) => FirstRun(jobs[k])
             /\ jobs'[k].state = "waiting" => jobs[k].state = "waiting"
  BY <1>1, <1>3 DEF CompleteJob, LoseLock, Job, FirstRun
<1>4. ASSUME ReleaseLocks
      PROVE  /\ FirstRun(jobs'[k]) => FirstRun(jobs[k])
             /\ jobs'[k].state = "waiting" => jobs[k].state = "waiting"
  <2>1. jobs'[k] = jobs[k] \/ jobs'[k] = [jobs[k] EXCEPT !.lock = Null]
    BY <1>4 DEF ReleaseLocks
  <2> QED BY <1>1, <2>1 DEF Job, FirstRun
<1>5. FailJob(k) => ~FirstRun(jobs'[k])
  BY <1>1 DEF FailJob, Job, FirstRun
<1>6. FailStalledJob(k) => ~FirstRun(jobs'[k])
  BY <1>1 DEF FailStalledJob, Job, FirstRun
<1>7. RecoverStalledJob(k) => ~FirstRun(jobs'[k])
  BY <1>1 DEF RecoverStalledJob, Job, FirstRun
<1> QED BY <1>2, <1>3, <1>4, <1>5, <1>6, <1>7

\* What a call of updateStatus leaves of the document and the slot.
LEMMA UpdateLeaves ==
  ASSUME IInv, NEW s \in Slot, slots[s].pc # "idle", NEW doc, NEW next, Update(s, doc, next)
  PROVE  LET id == emailIdOf(s)
         IN  /\ UNCHANGED tasks
             /\ \A e \in Request : e # id => emails'[e] = emails[e]
             /\ \/ slots'[s].pc = "throw" /\ emails'[id] \in {emails[id], doc}
                \/ /\ slots'[s].pc = next /\ slots'[s].tenant = slots[s].tenant
                   /\ slots'[s].verdict = slots[s].verdict /\ emails'[id] = doc
<1> DEFINE id == emailIdOf(s)
<1>1. /\ slots \in [Slot -> SlotState] /\ slots[s] \in SlotState
      /\ emails \in [Request -> EmailMessage \cup {Null}] /\ id \in Request
  BY SlotFacts DEF IInv, TypeOK, WorkerTypeOK, StoreTypeOK
<1>2. \A pc : Step(s, pc) => /\ slots'[s].pc = pc /\ slots'[s].tenant = slots[s].tenant
                             /\ slots'[s].verdict = slots[s].verdict
  BY <1>1 DEF Step, SlotState
<1>3. CASE Throws /\ Step(s, "throw")
  BY <1>2, <1>3 DEF Throws
<1>4. CASE updateEmail(id, doc) /\ UNCHANGED tasks /\ (Step(s, next) \/ Step(s, "throw"))
  <2>1. emails'[id] = doc /\ \A e \in Request : e # id => emails'[e] = emails[e]
    BY <1>1, <1>4 DEF updateEmail
  <2> HIDE DEF id
  <2> QED BY <1>2, <1>4, <2>1 DEF id
<1> QED BY <1>3, <1>4 DEF Update

\* What a call that only reads leaves of the slot.
LEMMA ReadLeaves ==
  ASSUME IInv, NEW s \in Slot, NEW new, Read(s, new)
  PROVE  UNCHANGED <<emails, tasks>> /\ (slots'[s].pc = "throw" \/ slots'[s] = new)
<1>1. slots \in [Slot -> SlotState] /\ slots[s] \in SlotState
  BY DEF IInv, TypeOK, WorkerTypeOK
<1> QED BY <1>1 DEF Read, Throws, Step, SlotState, storeVars

\* Only SetTenant writes the company of a document, and only StoreRaw its verdict.
LEMMA RecordWrites ==
  ASSUME IInv, [Next]_vars, NEW id \in Request, emails[id] # Null
  PROVE  \/ /\ emails'[id].companyId = emails[id].companyId
            /\ emails'[id].llmRawResult = emails[id].llmRawResult
         \/ \E s \in Slot : (SetTenant(s) \/ StoreRaw(s)) /\ emailIdOf(s) = id
<1>1. /\ emails \in [Request -> EmailMessage \cup {Null}] /\ emails[id] \in EmailMessage
  BY DEF IInv, TypeOK, StoreTypeOK
<1> DEFINE Same == /\ emails'[id].companyId = emails[id].companyId
                   /\ emails'[id].llmRawResult = emails[id].llmRawResult
<1>2. ASSUME NEW r \in Request, NEW status \in EmailMessageStatus,
             updateEmail(r, withStatus(r, status)) \/ UNCHANGED emails
      PROVE  Same
  <2>1. withStatus(id, status).companyId = emails[id].companyId
        /\ withStatus(id, status).llmRawResult = emails[id].llmRawResult
    BY <1>1, StatusUpdate
  <2> QED BY <1>1, <1>2, <2>1 DEF updateEmail
<1>3. CASE UNCHANGED emails
  BY <1>3
<1>4. ASSUME NEW r \in Request, Deliver(r) \/ Handle(r) PROVE Same
  <2>1. CASE CreateEmail(r)
    <3>1. r # id
      BY <2>1 DEF IInv, DeliveryOK, CreateEmail, Handling
    <3> QED BY <1>1, <1>3, <2>1, <3>1 DEF CreateEmail, createEmail, Throws, storeVars
  <2>2. CASE MarkQueued(r)
    BY <1>2, <2>2 DEF MarkQueued, Throws, EmailMessageStatus
  <2>3. CASE Deliver(r) \/ FindExisting(r) \/ FindRaced(r) \/ Enqueue(r)
    BY <1>3, <2>3 DEF Deliver, Receive, FindExisting, FindRaced, Enqueue, Throws, storeVars
  <2> QED BY <1>4, <2>1, <2>2, <2>3 DEF Handle, HandleRequest
<1>5. ASSUME NEW s \in Slot, Process(s)
      PROVE  Same \/ ((SetTenant(s) \/ StoreRaw(s)) /\ emailIdOf(s) = id)
  <2>1. slots[s].pc # "idle"
    BY <1>5, ProcessMoves
  <2>2. ASSUME NEW doc, NEW next, Update(s, doc, next),
               \/ emailIdOf(s) # id
               \/ /\ doc.companyId = emails[id].companyId
                  /\ doc.llmRawResult = emails[id].llmRawResult
        PROVE  Same
    BY <2>1, <2>2, UpdateLeaves
  <2>3. CASE MarkProcessing(s) \/ MarkUnmatched(s) \/ MarkSkipped(s) \/ MarkFailed(s)
    <3>1. PICK status \in EmailMessageStatus, next \in ProcessStep :
            Update(s, withStatus(emailIdOf(s), status), next)
      BY <2>3 DEF MarkProcessing, MarkUnmatched, MarkSkipped, MarkFailed, EmailMessageStatus,
                  ProcessStep
    <3>2. withStatus(id, status).companyId = emails[id].companyId
          /\ withStatus(id, status).llmRawResult = emails[id].llmRawResult
      BY <1>1, StatusUpdate
    <3> QED BY <2>2, <3>1, <3>2
  <2>4. CASE MarkActionable(s)
    <3> DEFINE doc == [withStatus(emailIdOf(s), "ACTIONABLE") EXCEPT !.taskId = slots[s].task]
    <3>1. Update(s, doc, "return")
      BY <2>4 DEF MarkActionable
    <3>2. emailIdOf(s) = id => /\ doc.companyId = emails[id].companyId
                               /\ doc.llmRawResult = emails[id].llmRawResult
      BY <1>1, StatusUpdate DEF EmailMessage, EmailMessageStatus
    <3> HIDE DEF doc
    <3> QED BY <2>2, <3>1, <3>2
  <2>5. CASE SetTenant(s) /\ emailIdOf(s) # id
    BY <2>2, <2>5 DEF SetTenant
  <2>6. CASE StoreRaw(s) /\ emailIdOf(s) # id
    BY <2>2, <2>6 DEF StoreRaw
  <2>7. CASE Load(s) \/ Resolve(s) \/ Classify(s) \/ FindTask(s) \/ CreateTask(s)
    BY <1>3, <2>7 DEF Load, Resolve, Classify, FindTask, CreateTask, Read, Throws, storeVars
  <2> QED BY <1>5, <2>3, <2>4, <2>5, <2>6, <2>7 DEF Process
<1>6. ASSUME NEW k \in JobId, React(k) PROVE Same
  <2>1. jobs[k] # Null
    BY <1>6 DEF React, OnFailed, LoadFailed, MarkExhausted, IInv, HandlerOK
  <2>2. jobs[k].emailMessageId \in Request
    BY <2>1, References
  <2> QED BY <1>2, <1>3, <1>6, <2>2
         DEF React, OnFailed, LoadFailed, MarkExhausted, Throws, storeVars, EmailMessageStatus
<1>7. ASSUME NEW s \in Slot, Complete(s) \/ Fail(s) PROVE UNCHANGED emails
  BY <1>7 DEF Complete, Fail, storeVars
<1>8. ASSUME \/ Fetch \/ CatchUp \/ Crash \/ Administer \/ Quiescent \/ UNCHANGED vars
             \/ \E k \in JobId : Recover(k) \/ Expire(k)
      PROVE  UNCHANGED emails
  BY <1>8 DEF Fetch, Take, FailStalled, CatchUp, Replicate, Crash, Administer, MoveUsers,
              Quiescent, Recover, Expire, vars, storeVars
<1> QED BY <1>3, <1>4, <1>5, <1>6, <1>7, <1>8 DEF Next, Work, Attempt

\* Until the first move, SetTenant writes what the directory says.
LEMMA EmailsFollowKept ==
  ASSUME IInv, SlotsFollowDirectory, EmailsFollowDirectory, [Next]_vars
  PROVE  EmailsFollowDirectory'
<1> SUFFICES ASSUME moves' = 0, NEW id \in Request, emails'[id] # Null,
                    emails'[id].companyId # Null
             PROVE  emails'[id].companyId = directory'[emails'[id].to]
  BY DEF EmailsFollowDirectory
<1>1. moves = 0 /\ UNCHANGED directory
  BY MovesAreCounted
<1>2. CASE emails[id] = Null
  <2>1. emails \in [Request -> EmailMessage \cup {Null}]
    BY DEF IInv, TypeOK, StoreTypeOK
  <2>2. PICK r \in Request : Inserts(r) \/ Rewrites(r)
    BY <1>2, EmailSteps
  <2>3. CASE Rewrites(r)
    BY <1>2, <2>1, <2>3 DEF Rewrites, updateEmail
  <2>4. CASE Inserts(r)
    BY <1>2, <2>1, <2>4 DEF Inserts, createEmail, receivedEmail
  <2> QED BY <2>2, <2>3, <2>4
<1>3. CASE emails[id] # Null
  <2>1. emails'[id].to = emails[id].to
    BY <1>3, DocumentsStay
  <2>2. CASE emails'[id].companyId = emails[id].companyId
    BY <1>1, <1>3, <2>1, <2>2 DEF EmailsFollowDirectory
  <2>3. ASSUME NEW s \in Slot, SetTenant(s), emailIdOf(s) = id
        PROVE  emails'[id].companyId \in {emails[id].companyId, directory[emails[id].to]}
    <3> DEFINE doc == [withStatus(id, "PROCESSING") EXCEPT !.companyId = slots[s].tenant]
    <3>1. slots[s].pc = "setTenant" /\ Update(s, doc, "classify")
      BY <2>3 DEF SetTenant, At
    <3>2. emails[id] \in EmailMessage
      BY <1>3 DEF IInv, TypeOK, StoreTypeOK
    <3>3. doc.companyId = slots[s].tenant
      BY <3>2, StatusUpdate DEF EmailMessage, EmailMessageStatus
    <3> HIDE DEF doc
    <3>4. emails'[id] \in {emails[id], doc}
      BY <2>3, <3>1, UpdateLeaves
    <3>5. slots[s].job \in JobId
      BY <3>1, SlotFacts
    <3>6. slots[s].tenant = directory[emails[id].to]
      BY <1>1, <2>3, <3>1, <3>5 DEF SlotsFollowDirectory, Resolved, emailIdOf
    <3> QED BY <3>3, <3>4, <3>6
  <2>4. ASSUME NEW s \in Slot, StoreRaw(s), emailIdOf(s) = id
        PROVE  emails'[id].companyId = emails[id].companyId
    <3> DEFINE doc  == [withStatus(id, "PROCESSING") EXCEPT !.llmRawResult = slots[s].verdict]
               next == IF slots[s].verdict = "actionable" THEN "findTask" ELSE "markSkipped"
    <3>1. slots[s].pc # "idle" /\ Update(s, doc, next)
      BY <2>4 DEF StoreRaw, At
    <3>2. emails[id] \in EmailMessage
      BY <1>3 DEF IInv, TypeOK, StoreTypeOK
    <3>3. doc.companyId = emails[id].companyId
      BY <3>2, StatusUpdate DEF EmailMessage, EmailMessageStatus
    <3> HIDE DEF doc, next
    <3> QED BY <2>4, <3>1, <3>3, UpdateLeaves
  <2>5. emails'[id].companyId \in {emails[id].companyId, directory[emails[id].to]}
    BY <1>3, <2>3, <2>4, RecordWrites
  <2> QED BY <1>1, <2>1, <2>2, <2>5
<1> QED BY <1>2, <1>3

\* A task is made by an attempt, whose job goes on naming the document.
LEMMA TasksNeedJobsKept ==
  ASSUME IInv, TasksNeedJobs, [Next]_vars
  PROVE  TasksNeedJobs'
<1>1. \A id \in Request : Named(id) => Named(id)'
  BY JobsStay, NamedStays
<1> SUFFICES ASSUME NEW i \in DOMAIN tasks' PROVE Named(tasks[i].sourceEmailMessageId)'
  BY DEF TasksNeedJobs
<1>2. CASE i \in DOMAIN tasks /\ tasks'[i] = tasks[i]
  <2>1. tasks[i] \in Task /\ tasks[i].sourceEmailMessageId \in Request
    <3>1. tasks \in Seq(Task)
      BY DEF IInv, TypeOK, StoreTypeOK
    <3>2. tasks[i] \in Task
      BY <1>2, <3>1
    <3> QED BY <3>2 DEF Task
  <2> QED BY <1>1, <1>2, <2>1 DEF TasksNeedJobs, Named
<1>3. ASSUME NEW s \in Slot, AddsTask(s)
      PROVE  \/ i \in DOMAIN tasks /\ tasks'[i] = tasks[i]
             \/ Named(tasks[i].sourceEmailMessageId)'
  <2>1. slots[s].job \in JobId /\ jobs[slots[s].job] # Null /\ emailIdOf(s) \in Request
    BY <1>3, SlotFacts, NullJobAssumption DEF AddsTask, NullJobAssumption
  <2>2. Named(emailIdOf(s))
    BY <2>1 DEF Named, emailIdOf
  <2>3. /\ DOMAIN tasks' = DOMAIN tasks \cup {Len(tasks) + 1}
        /\ \A j \in DOMAIN tasks : tasks'[j] = tasks[j]
        /\ tasks'[Len(tasks) + 1] = [companyId |-> slots[s].tenant,
                                     sourceEmailMessageId |-> emailIdOf(s)]
    BY <1>3, AddedTask
  <2>4. PICK k \in JobId : jobs'[k] # Null /\ jobs'[k].emailMessageId = emailIdOf(s)
    BY <1>1, <2>1, <2>2 DEF Named
  <2> QED BY <2>3, <2>4 DEF Named
<1> QED BY <1>2, <1>3, TaskSteps

\* Where it works alone, an attempt at a job in its first run leaves its document as
\* the task, if there is one, has it.
LEMMA FirstAttemptMoves ==
  ASSUME AuditInv, [Next]_vars, NEW s \in Slot, Process(s), FirstRun(jobs[slots[s].job])
  PROVE  LET id == emailIdOf(s)
         IN  /\ FirstAttemptOK(slots'[s], emails'[id], id, tasks')
             /\ RecordLedTo(emails'[id], id, tasks')
<1> DEFINE id    == emailIdOf(s)
           email == emails[id]
           slot  == slots[s]
           Goal  == /\ FirstAttemptOK(slots'[s], emails'[id], id, tasks')
                    /\ RecordLedTo(emails'[id], id, tasks')
<1> SUFFICES Goal
  OBVIOUS
<1>1. /\ IInv /\ slot.pc # "idle" /\ slot.job \in JobId /\ id \in Request
      /\ slot \in SlotState /\ email # Null /\ email \in EmailMessage
  BY ProcessMoves, SlotFacts DEF AuditInv
<1>2. FirstAttemptOK(slot, email, id, tasks) /\ RecordLedTo(email, id, tasks)
  BY <1>1 DEF AuditInv, FirstRunsOK, FirstRunOK, WorksOn, emailIdOf
<1>3. \A status \in EmailMessageStatus :
        LET doc == withStatus(id, status)
        IN  /\ doc \in EmailMessage
            /\ doc.companyId = email.companyId /\ doc.llmRawResult = email.llmRawResult
  BY <1>1, StatusUpdate
<1>4. ASSUME NEW doc, NEW next, Update(s, doc, next)
      PROVE  /\ UNCHANGED tasks
             /\ \/ slots'[s].pc = "throw" /\ emails'[id] \in {email, doc}
                \/ /\ slots'[s].pc = next /\ slots'[s].tenant = slot.tenant
                   /\ slots'[s].verdict = slot.verdict /\ emails'[id] = doc
  BY <1>1, <1>4, UpdateLeaves
<1>5. ASSUME NEW new, Read(s, new)
      PROVE  UNCHANGED <<emails, tasks>> /\ (slots'[s].pc = "throw" \/ slots'[s] = new)
  BY <1>1, <1>5, ReadLeaves
<1> HIDE DEF id, email, slot
\* As long as there is no task, only what the attempt has in hand is to be shown.
<1>6. ASSUME slot.pc \notin {"markActionable", "return", "throw"}, UNCHANGED tasks,
             slots'[s].pc \in Scoped => emails'[id].companyId = slots'[s].tenant,
             slots'[s].pc \in Recorded => emails'[id].llmRawResult = slots'[s].verdict,
             slots'[s].pc \in {"findTask", "createTask"} => slots'[s].verdict = "actionable"
      PROVE  Goal
  BY <1>2, <1>6 DEF FirstAttemptOK, RecordLedTo, NoTaskOf
<1>7. "throw" \notin Scoped /\ "throw" \notin Recorded
  BY DEF Scoped, Resolved, Recorded, Classified
<1>8. CASE Load(s)
  <2>1. PICK pc \in {"return", "markProcessing"} : Read(s, [slot EXCEPT !.pc = pc])
    BY <1>8 DEF Load, slot
  <2>2. [slot EXCEPT !.pc = pc].pc = pc
    BY <1>1 DEF SlotState
  <2>3. UNCHANGED tasks /\ slots'[s].pc \in {"throw", "return", "markProcessing"}
    BY <1>5, <2>1, <2>2
  <2>4. slot.pc = "load"
    BY <1>8 DEF Load, At, slot
  <2> QED BY <1>6, <2>3, <2>4 DEF Scoped, Resolved, Recorded, Classified
<1>9. CASE Resolve(s)
  <2> DEFINE tenant == directory[email.to]
             pc     == IF tenant = Null THEN "markUnmatched" ELSE "setTenant"
             new    == [slot EXCEPT !.tenant = tenant, !.pc = pc]
  <2>1. Read(s, new) /\ slot.pc = "resolve"
    BY <1>9 DEF Resolve, At, id, email, slot
  <2>2. new.pc \in {"markUnmatched", "setTenant"}
    BY <1>1 DEF SlotState
  <2> HIDE DEF new
  <2>3. UNCHANGED tasks /\ slots'[s].pc \in {"throw", "markUnmatched", "setTenant"}
    BY <1>5, <2>1, <2>2
  <2> QED BY <1>6, <2>1, <2>3 DEF Scoped, Resolved, Recorded, Classified
<1>10. CASE Classify(s)
  <2>1. PICK verdict \in Verdict \cup {Null}, pc \in {"markFailed", "storeRaw"} :
          Read(s, [slot EXCEPT !.verdict = verdict, !.pc = pc])
    BY <1>10 DEF Classify, verdictOf, slot
  <2>2. LET new == [slot EXCEPT !.verdict = verdict, !.pc = pc]
        IN  new.pc = pc /\ new.tenant = slot.tenant
    BY <1>1 DEF SlotState
  <2>3. /\ UNCHANGED <<emails, tasks>>
        /\ \/ slots'[s].pc = "throw"
           \/ slots'[s].pc \in {"markFailed", "storeRaw"} /\ slots'[s].tenant = slot.tenant
    BY <1>5, <2>1, <2>2
  <2>4. slot.pc = "classify" /\ emails'[id] = email
    BY <1>10, <2>3 DEF Classify, At, slot, email
  <2>5. email.companyId = slot.tenant
    BY <1>2, <2>4 DEF FirstAttemptOK, Scoped, Resolved
  <2> QED BY <1>6, <1>7, <2>3, <2>4, <2>5 DEF Recorded, Classified
<1>11. CASE FindTask(s)
  <2>1. PICK pc \in {"createTask", "return"} : Read(s, [slot EXCEPT !.pc = pc])
    BY <1>11 DEF FindTask, slot
  <2>2. LET new == [slot EXCEPT !.pc = pc]
        IN  new.pc = pc /\ new.tenant = slot.tenant /\ new.verdict = slot.verdict
    BY <1>1 DEF SlotState
  <2>3. /\ UNCHANGED <<emails, tasks>>
        /\ \/ slots'[s].pc = "throw"
           \/ /\ slots'[s].pc \in {"createTask", "return"}
              /\ slots'[s].tenant = slot.tenant /\ slots'[s].verdict = slot.verdict
    BY <1>5, <2>1, <2>2
  <2>4. slot.pc = "findTask" /\ emails'[id] = email
    BY <1>11, <2>3 DEF FindTask, At, slot, email
  <2>5. /\ email.companyId = slot.tenant /\ email.llmRawResult = slot.verdict
        /\ slot.verdict = "actionable"
    BY <1>2, <2>4 DEF FirstAttemptOK, Scoped, Resolved, Recorded, Classified
  <2> QED BY <1>6, <1>7, <2>3, <2>4, <2>5
<1>12. CASE MarkProcessing(s) \/ MarkUnmatched(s) \/ MarkSkipped(s) \/ MarkFailed(s)
  <2>1. PICK status \in EmailMessageStatus, next \in {"resolve", "return"} :
          Update(s, withStatus(id, status), next)
    BY <1>12 DEF MarkProcessing, MarkUnmatched, MarkSkipped, MarkFailed, EmailMessageStatus, id
  <2>2. UNCHANGED tasks /\ slots'[s].pc \in {"throw", "resolve", "return"}
    BY <1>4, <2>1
  <2>3. slot.pc \in {"markProcessing", "markUnmatched", "markSkipped", "markFailed"}
    BY <1>12 DEF MarkProcessing, MarkUnmatched, MarkSkipped, MarkFailed, At, slot
  <2> QED BY <1>6, <2>2, <2>3 DEF Scoped, Resolved, Recorded, Classified
<1>13. CASE SetTenant(s)
  <2> DEFINE doc == [withStatus(id, "PROCESSING") EXCEPT !.companyId = slot.tenant]
  <2>1. Update(s, doc, "classify") /\ slot.pc = "setTenant"
    BY <1>13 DEF SetTenant, At, id, slot
  <2>2. doc.companyId = slot.tenant
    BY <1>3 DEF EmailMessage, EmailMessageStatus
  <2> HIDE DEF doc
  <2>3. /\ UNCHANGED tasks
        /\ \/ slots'[s].pc = "throw"
           \/ /\ slots'[s].pc = "classify" /\ slots'[s].tenant = slot.tenant
              /\ emails'[id].companyId = slot.tenant
    BY <1>4, <2>1, <2>2
  <2> QED BY <1>6, <1>7, <2>1, <2>3 DEF Recorded, Classified
<1>14. CASE StoreRaw(s)
  <2> DEFINE doc  == [withStatus(id, "PROCESSING") EXCEPT !.llmRawResult = slot.verdict]
             next == IF slot.verdict = "actionable" THEN "findTask" ELSE "markSkipped"
  <2>1. Update(s, doc, next) /\ slot.pc = "storeRaw"
    BY <1>14 DEF StoreRaw, At, id, slot
  <2>2. doc.companyId = email.companyId /\ doc.llmRawResult = slot.verdict
    BY <1>3 DEF EmailMessage, EmailMessageStatus
  <2>3. next = "findTask" => slot.verdict = "actionable"
    OBVIOUS
  <2>4. next \in {"findTask", "markSkipped"}
    OBVIOUS
  <2> HIDE DEF doc, next
  <2>5. /\ UNCHANGED tasks
        /\ \/ slots'[s].pc = "throw"
           \/ /\ slots'[s].pc = next /\ slots'[s].tenant = slot.tenant
              /\ slots'[s].verdict = slot.verdict
              /\ emails'[id].companyId = email.companyId
              /\ emails'[id].llmRawResult = slot.verdict
    BY <1>4, <2>1, <2>2
  <2>6. email.companyId = slot.tenant
    BY <1>2, <2>1 DEF FirstAttemptOK, Scoped, Resolved
  <2> QED BY <1>6, <1>7, <2>1, <2>3, <2>4, <2>5, <2>6
<1>15. CASE MarkActionable(s)
  <2> DEFINE doc == [withStatus(id, "ACTIONABLE") EXCEPT !.taskId = slot.task]
  <2>1. Update(s, doc, "return")
    BY <1>15 DEF MarkActionable, id, slot
  <2>2. doc.companyId = email.companyId /\ doc.llmRawResult = email.llmRawResult
    BY <1>3 DEF EmailMessage, EmailMessageStatus
  <2> HIDE DEF doc
  <2>3. /\ UNCHANGED tasks /\ slots'[s].pc \in {"throw", "return"}
        /\ emails'[id].companyId = email.companyId
        /\ emails'[id].llmRawResult = email.llmRawResult
    BY <1>4, <2>1, <2>2
  <2> QED BY <1>2, <2>3 DEF FirstAttemptOK, RecordLedTo, Scoped, Resolved, Recorded, Classified
<1>16. CASE CreateTask(s)
  <2>1. slot.pc = "createTask" /\ UNCHANGED emails
    BY <1>16 DEF CreateTask, At, Throws, storeVars, slot
  <2>2. emails'[id] = email
    BY <2>1 DEF email
  <2>3. /\ email.companyId = slot.tenant /\ email.llmRawResult = slot.verdict
        /\ slot.verdict = "actionable" /\ NoTaskOf(id, tasks)
    BY <1>2, <2>1 DEF FirstAttemptOK, Scoped, Resolved, Recorded, Classified
  <2>4. slots \in [Slot -> SlotState]
    BY <1>1 DEF IInv, TypeOK, WorkerTypeOK
  <2>5. CASE UNCHANGED tasks /\ Step(s, "throw")
    <3>1. slots'[s].pc = "throw"
      BY <2>4, <2>5 DEF Step, SlotState
    <3> QED BY <1>6, <1>7, <2>1, <2>5, <3>1
  <2>6. CASE AddsTask(s)
    <3> DEFINE new == Len(tasks) + 1
    <3>1. /\ DOMAIN tasks' = DOMAIN tasks \cup {new}
          /\ \A i \in DOMAIN tasks : tasks'[i] = tasks[i]
          /\ tasks'[new] = [companyId |-> slot.tenant, sourceEmailMessageId |-> id]
      BY <1>1, <2>6, AddedTask DEF id, slot
    <3> HIDE DEF new
    <3>2. RecordLedTo(emails'[id], id, tasks')
      BY <2>2, <2>3, <3>1 DEF RecordLedTo, NoTaskOf
    <3>3. CASE Step(s, "throw")
      <4>1. slots'[s].pc = "throw"
        BY <2>4, <3>3 DEF Step, SlotState
      <4> QED BY <3>2, <4>1, <1>7 DEF FirstAttemptOK
    <3>4. CASE slots' = [slots EXCEPT ![s].pc = "markActionable", ![s].task = Len(tasks')]
      <4>1. slots'[s] = [slot EXCEPT !.pc = "markActionable", !.task = Len(tasks')]
        BY <2>4, <3>4 DEF slot
      <4>2. /\ slots'[s].pc = "markActionable" /\ slots'[s].tenant = slot.tenant
            /\ slots'[s].verdict = slot.verdict
        BY <1>1, <4>1 DEF SlotState
      <4> QED BY <2>2, <2>3, <3>2, <4>2 DEF FirstAttemptOK
    <3> QED BY <1>16, <2>6, <3>3, <3>4, <2>5 DEF CreateTask
  <2>7. AddsTask(s) \/ (UNCHANGED tasks /\ Step(s, "throw"))
    BY <1>16 DEF CreateTask, AddsTask, At, Throws, storeVars
  <2> QED BY <2>5, <2>6, <2>7
<1> QED BY <1>8, <1>9, <1>10, <1>11, <1>12, <1>13, <1>14, <1>15, <1>16 DEF Process

\* A step that moves neither jobs nor slots, makes no task and writes no record.
LEMMA FirstRunsQuiet ==
  ASSUME AuditInv, [Next]_vars, UNCHANGED <<slots, jobs, tasks>>,
         ~\E s \in Slot : Process(s)
  PROVE  FirstRunsOK'
<1> SUFFICES ASSUME NEW k \in JobId, FirstRun(jobs[k]) PROVE FirstRunOK(k)'
  BY DEF FirstRunsOK
<1> DEFINE id == jobs[k].emailMessageId
<1>1. IInv /\ FirstRunOK(k) /\ id \in Request /\ emails[id] # Null
  BY References DEF AuditInv, FirstRunsOK, FirstRun
<1>2. /\ emails'[id].companyId = emails[id].companyId
      /\ emails'[id].llmRawResult = emails[id].llmRawResult
  BY <1>1, RecordWrites DEF Process
<1> HIDE DEF id
<1>3. /\ \A s \in Slot : FirstAttemptOK(slots[s], emails[id], id, tasks)
                           => FirstAttemptOK(slots[s], emails'[id], id, tasks)
      /\ RecordLedTo(emails[id], id, tasks) => RecordLedTo(emails'[id], id, tasks)
  BY <1>2 DEF FirstAttemptOK, RecordLedTo
<1> QED BY <1>1, <1>3 DEF FirstRunOK, WorksOn, id

\* A step of an attempt, at its job or at another.
LEMMA FirstRunsProcess ==
  ASSUME AuditInv, [Next]_vars, NEW s \in Slot, Process(s)
  PROVE  FirstRunsOK'
<1>1. /\ IInv /\ slots[s].pc # "idle" /\ UNCHANGED jobs /\ slots'[s].job = slots[s].job
      /\ \A t \in Slot : t # s => slots'[t] = slots[t]
  BY ProcessMoves DEF AuditInv
<1> SUFFICES ASSUME NEW k \in JobId, FirstRun(jobs[k]) PROVE FirstRunOK(k)'
  BY <1>1 DEF FirstRunsOK
<1> DEFINE id == jobs[k].emailMessageId
<1>2. FirstRunOK(k) /\ jobs[k] # Null /\ id \in Request /\ emails[id] # Null
  BY <1>1, References DEF AuditInv, FirstRunsOK, FirstRun
<1>3. \A t \in Slot : WorksOn(t, k)' => WorksOn(t, k)
  BY <1>1 DEF WorksOn
<1>4. CASE slots[s].job = k
  <2>1. id = emailIdOf(s) /\ WorksOn(s, k)
    BY <1>1, <1>4 DEF emailIdOf, WorksOn
  <2>2. /\ FirstAttemptOK(slots'[s], emails'[id], id, tasks')
        /\ RecordLedTo(emails'[id], id, tasks')
    BY <1>4, <2>1, FirstAttemptMoves
  <2>3. jobs[k].state # "waiting" /\ \A t \in Slot : WorksOn(t, k) => t = s
    BY <1>2, <2>1 DEF FirstRunOK
  <2> HIDE DEF id
  <2> QED BY <1>1, <1>3, <2>2, <2>3 DEF FirstRunOK, id
<1>5. CASE slots[s].job # k
  <2>1. emailIdOf(s) # id
    BY <1>1, <1>2, <1>5, JobOfSlot
  <2>2. emails'[id] = emails[id]
    BY <1>1, <1>2, <2>1, ProcessRewrites DEF Rewrites, updateEmail, IInv, TypeOK, StoreTypeOK
  <2>3. \A i \in DOMAIN tasks' :
          tasks'[i].sourceEmailMessageId = id => i \in DOMAIN tasks /\ tasks'[i] = tasks[i]
    <3>1. CASE UNCHANGED tasks
      BY <3>1
    <3>2. CASE AddsTask(s)
      <4>1. /\ DOMAIN tasks' = DOMAIN tasks \cup {Len(tasks) + 1}
            /\ \A i \in DOMAIN tasks : tasks'[i] = tasks[i]
            /\ tasks'[Len(tasks) + 1] = [companyId |-> slots[s].tenant,
                                         sourceEmailMessageId |-> emailIdOf(s)]
        BY <1>1, <3>2, AddedTask
      <4>2. tasks'[Len(tasks) + 1].sourceEmailMessageId # id
        BY <2>1, <4>1
      <4> QED BY <4>1, <4>2
    <3> QED BY <3>1, <3>2, AttemptTasks
  <2> HIDE DEF id
  <2>4. /\ NoTaskOf(id, tasks) => NoTaskOf(id, tasks')
        /\ RecordLedTo(emails[id], id, tasks) => RecordLedTo(emails'[id], id, tasks')
    BY <2>2, <2>3 DEF NoTaskOf, RecordLedTo
  <2>5. \A t \in Slot :
          FirstAttemptOK(slots[t], emails[id], id, tasks)
            => FirstAttemptOK(slots[t], emails'[id], id, tasks')
    BY <2>2, <2>4 DEF FirstAttemptOK
  <2>6. \A t \in Slot : WorksOn(t, k)' => slots'[t] = slots[t]
    BY <1>1, <1>5 DEF WorksOn
  <2> QED BY <1>1, <1>2, <1>3, <2>4, <2>5, <2>6 DEF FirstRunOK, id
<1> QED BY <1>4, <1>5

\* A step of the queue at one job: it may put the job in other hands, unless the job
\* is then no longer in its first run.
LEMMA FirstRunsQueue ==
  ASSUME AuditInv, [Next]_vars, UNCHANGED <<emails, tasks>>, NEW k \in JobId,
         \A j \in JobId : j # k => jobs'[j] = jobs[j],
         \A t \in Slot :
           \/ slots'[t] = slots[t]
           \/ slots'[t].pc = "idle"
           \/ slots'[t].job = k /\ slots[t].pc = "idle",
         FirstRun(jobs'[k]) => FirstRun(jobs[k]) /\ FirstRunOK(k)'
  PROVE  FirstRunsOK'
<1>1. IInv /\ JobsGrow(jobs, jobs')
  BY JobsStay DEF AuditInv
<1> SUFFICES ASSUME NEW j \in JobId, j # k, FirstRun(jobs[j]), jobs'[j] = jobs[j]
             PROVE  FirstRunOK(j)'
  BY DEF FirstRunsOK
<1>2. \A t \in Slot : WorksOn(t, j)' => WorksOn(t, j) /\ slots'[t] = slots[t]
  BY DEF WorksOn
<1>3. FirstRunOK(j)
  BY DEF AuditInv, FirstRunsOK
<1> QED BY <1>2, <1>3 DEF FirstRunOK

\* An attempt that ends leaves its job to the next, or for good.
LEMMA FirstRunsEnd ==
  ASSUME AuditInv, [Next]_vars, NEW s \in Slot, Complete(s) \/ Fail(s)
  PROVE  FirstRunsOK'
<1>1. /\ IInv /\ slots[s].pc # "idle" /\ UNCHANGED <<emails, tasks>>
      /\ slots' = [slots EXCEPT ![s] = idleSlot]
  BY DEF AuditInv, Complete, Fail, At, storeVars
<1>2. PICK k \in JobId : k = slots[s].job /\ jobs[k] # Null
  BY <1>1, SlotFacts, NullJobAssumption DEF NullJobAssumption
<1>j. jobs \in [JobId -> Job \cup {Null}]
  BY <1>1 DEF IInv, TypeOK, QueueTypeOK
<1>3. \A t \in Slot : slots'[t] = slots[t] \/ slots'[t].pc = "idle"
  BY <1>1 DEF IInv, TypeOK, WorkerTypeOK, idleSlot
<1>4. \/ UNCHANGED jobs
      \/ CompleteJob(k)
      \/ FailJob(k)
  BY <1>2 DEF Complete, Fail
<1>5. \A j \in JobId : j # k => jobs'[j] = jobs[j]
  BY <1>2, <1>j, <1>4, JobStates
<1>6. FirstRun(jobs'[k]) => /\ FirstRun(jobs[k])
                            /\ jobs'[k].state = "waiting" => jobs[k].state = "waiting"
  BY <1>2, <1>j, <1>4, RunsEnd
<1>7. FirstRun(jobs'[k]) => FirstRunOK(k)'
  <2> SUFFICES ASSUME FirstRun(jobs'[k]) PROVE FirstRunOK(k)'
    OBVIOUS
  <2>1. FirstRunOK(k) /\ (jobs'[k].state = "waiting" => jobs[k].state = "waiting")
    BY <1>2, <1>6 DEF AuditInv, FirstRunsOK
  <2>2. jobs'[k].emailMessageId = jobs[k].emailMessageId
    BY <1>1, <1>2, JobsStay DEF JobsGrow
  <2>3. \A t \in Slot : WorksOn(t, k)' => WorksOn(t, k) /\ slots'[t] = slots[t]
    BY <1>3 DEF WorksOn
  <2> QED BY <1>1, <2>1, <2>2, <2>3 DEF FirstRunOK
<1> QED BY <1>1, <1>2, <1>3, <1>5, <1>6, <1>7, FirstRunsQueue

\* A job in its first run is fetched once: nobody else works on it, and nobody has.
LEMMA FirstRunsTake ==
  ASSUME AuditInv, [Next]_vars, NEW s \in Slot, NEW k \in JobId, Take(s, k)
  PROVE  FirstRunsOK'
<1>1. /\ IInv /\ UNCHANGED <<emails, tasks>> /\ slots[s].pc = "idle" /\ LockJob(s, k)
      /\ jobs[k] # Null /\ jobs \in [JobId -> Job \cup {Null}] /\ slots \in [Slot -> SlotState]
  BY DEF AuditInv, IInv, TypeOK, QueueTypeOK, WorkerTypeOK, Take, LockJob, InState, At,
         storeVars
<1>2. /\ slots'[s].pc = "load" /\ slots'[s].job = k
      /\ \A t \in Slot : t # s => slots'[t] = slots[t]
  BY <1>1 DEF Take, idleSlot
<1>3. /\ jobs[k].state = "waiting" /\ jobs'[k].state = "active"
      /\ \A j \in JobId : j # k => jobs'[j] = jobs[j]
      /\ FirstRun(jobs'[k]) => FirstRun(jobs[k])
  BY <1>1, JobStates, RunsEnd
<1>4. FirstRun(jobs'[k]) => FirstRunOK(k)'
  <2> SUFFICES ASSUME FirstRun(jobs'[k]) PROVE FirstRunOK(k)'
    OBVIOUS
  <2> DEFINE id == jobs[k].emailMessageId
  <2>1. FirstRunOK(k)
    BY <1>3 DEF AuditInv, FirstRunsOK
  <2>2. jobs'[k].emailMessageId = id
    BY <1>1, JobsStay DEF JobsGrow
  <2>3. NoTaskOf(id, tasks) /\ \A t \in Slot : ~WorksOn(t, k)
    BY <1>3, <2>1 DEF FirstRunOK
  <2>4. \A t \in Slot : WorksOn(t, k)' => t = s
    BY <1>2, <2>3 DEF WorksOn
  <2> HIDE DEF id
  <2>5. FirstAttemptOK(slots'[s], emails[id], id, tasks)
    BY <1>2, <2>3 DEF FirstAttemptOK, Scoped, Resolved, Recorded, Classified
  <2>6. RecordLedTo(emails[id], id, tasks)
    BY <2>3 DEF RecordLedTo, NoTaskOf
  <2> QED BY <1>1, <1>3, <2>2, <2>3, <2>4, <2>5, <2>6 DEF FirstRunOK
<1> QED BY <1>1, <1>2, <1>3, <1>4, FirstRunsQueue

\* A stall ends the first run; a lock that expires does not, but lets nobody in.
LEMMA FirstRunsStall ==
  ASSUME AuditInv, [Next]_vars, NEW k \in JobId, FailStalled(k) \/ Recover(k) \/ Expire(k)
  PROVE  FirstRunsOK'
<1>1. /\ IInv /\ UNCHANGED <<emails, tasks, slots>> /\ jobs[k] # Null
      /\ jobs \in [JobId -> Job \cup {Null}]
  BY DEF AuditInv, IInv, TypeOK, QueueTypeOK, FailStalled, Recover, Expire, FailStalledJob,
         RecoverStalledJob, LoseLock, HoldsLock, InState, storeVars, workerVars
<1>2. FailStalledJob(k) \/ RecoverStalledJob(k) \/ LoseLock(k)
  BY DEF FailStalled, Recover, Expire
<1>3. \A j \in JobId : j # k => jobs'[j] = jobs[j]
  <2>1. LoseLock(k) => \A j \in JobId : j # k => jobs'[j] = jobs[j]
    BY <1>1 DEF LoseLock
  <2> QED BY <1>1, <1>2, <2>1, JobStates
<1>4. FirstRun(jobs'[k]) => /\ FirstRun(jobs[k])
                            /\ jobs'[k].state = "waiting" => jobs[k].state = "waiting"
  BY <1>1, <1>2, RunsEnd
<1>5. FirstRun(jobs'[k]) => FirstRunOK(k)'
  <2>1. jobs'[k].emailMessageId = jobs[k].emailMessageId
    BY <1>1, JobsStay DEF JobsGrow
  <2> QED BY <1>1, <1>4, <2>1 DEF AuditInv, FirstRunsOK, FirstRunOK, WorksOn
<1> QED BY <1>1, <1>3, <1>4, <1>5, FirstRunsQueue

\* A crash leaves nobody at work.
LEMMA FirstRunsCrash ==
  ASSUME AuditInv, [Next]_vars, Crash
  PROVE  FirstRunsOK'
<1>1. /\ IInv /\ UNCHANGED <<emails, tasks>> /\ ReleaseLocks
      /\ jobs \in [JobId -> Job \cup {Null}]
      /\ \A s \in Slot : slots'[s].pc = "idle"
  BY DEF AuditInv, IInv, TypeOK, QueueTypeOK, Crash, DropAttempts, idleSlot, storeVars
<1> SUFFICES ASSUME NEW k \in JobId, FirstRun(jobs'[k]) PROVE FirstRunOK(k)'
  BY DEF FirstRunsOK
<1>2. jobs[k] # Null
  BY <1>1 DEF ReleaseLocks, InState, FirstRun
<1>3. /\ FirstRun(jobs[k]) /\ FirstRunOK(k)
      /\ jobs'[k].state = "waiting" => jobs[k].state = "waiting"
  BY <1>1, <1>2, RunsEnd DEF AuditInv, FirstRunsOK
<1>4. jobs'[k].emailMessageId = jobs[k].emailMessageId
  BY <1>1, <1>2, JobsStay DEF JobsGrow
<1> QED BY <1>1, <1>3, <1>4 DEF FirstRunOK, WorksOn

\* A job is added where nobody has made a task yet.
LEMMA FirstRunsEnqueue ==
  ASSUME AuditInv, [Next]_vars, NEW r \in Request, Handle(r), Enqueue(r)
  PROVE  FirstRunsOK'
<1> DEFINE job == [state |-> "waiting", emailMessageId |-> r, attemptsMade |-> 0,
                   stalled |-> 0, lock |-> Null]
<1>1. /\ IInv /\ UNCHANGED <<emails, tasks, slots>> /\ jobs \in [JobId -> Job \cup {Null}]
      /\ emails[r] # Null /\ emails[r].providerMessageId = messageOf(r)
      /\ messageOf(r) \in MessageId
  BY DEF AuditInv, IInv, TypeOK, QueueTypeOK, DeliveryOK, Handle, Enqueue, Handling,
         messageOf, workerVars
<1>2. PICK k \in JobId : k = toEmailProcessingJobId(messageOf(r))
  BY <1>1 DEF JobId
<1>3. UNCHANGED jobs \/ (jobs[k] = Null /\ jobs' = [jobs EXCEPT ![k] = job])
  BY <1>2 DEF Enqueue, AddJob
<1>4. CASE UNCHANGED jobs
  BY <1>1, <1>4 DEF AuditInv, FirstRunsOK, FirstRunOK, WorksOn
<1>5. CASE jobs[k] = Null /\ jobs' = [jobs EXCEPT ![k] = job]
  <2>1. jobs'[k] = job /\ \A j \in JobId : j # k => jobs'[j] = jobs[j]
    BY <1>1, <1>2, <1>5
  <2>2. jobs'[k].state = "waiting" /\ jobs'[k].emailMessageId = r
    BY <2>1
  <2>3. \A s \in Slot : ~WorksOn(s, k)
    BY <1>1, <1>5, SlotFacts, NullJobAssumption DEF WorksOn, NullJobAssumption
  <2>4. ~Named(r)
    BY <1>1, <1>2, <1>5 DEF Named, IInv, JobOK
  <2> HIDE DEF job
  <2>5. NoTaskOf(r, tasks)
    BY <2>4 DEF AuditInv, TasksNeedJobs, NoTaskOf
  <2>6. RecordLedTo(emails[r], r, tasks)
    BY <2>5 DEF RecordLedTo, NoTaskOf
  <2>7. FirstRunOK(k)'
    BY <1>1, <2>2, <2>3, <2>5, <2>6 DEF FirstRunOK, WorksOn
  <2> QED BY <1>1, <2>1, <2>7 DEF AuditInv, FirstRunsOK, FirstRunOK, WorksOn
<1> QED BY <1>3, <1>4, <1>5

\* Whatever is delivered, retried, stalled, overlapping, stale, lost or moved, all of
\* it is invariant.
LEMMA AuditHolds == Spec => []AuditInv
<1>1. Init => AuditInv
  <2> SUFFICES ASSUME Init PROVE AuditInv
    OBVIOUS
  <2>1. /\ \A id \in Request : emails[id] = Null
        /\ \A s \in Slot : slots[s].pc = "idle"
        /\ \A k \in JobId : jobs[k] = Null
        /\ DOMAIN tasks = {}
    BY DEF Init, StoreInit, QueueInit, WorkerInit, idleSlot
  <2>2. SlotsFollowDirectory /\ TasksFollowDirectory /\ EmailsFollowDirectory
    BY <2>1 DEF SlotsFollowDirectory, TasksFollowDirectory, EmailsFollowDirectory, Resolved
  <2>3. TasksNeedJobs /\ FirstRunsOK
    BY <2>1 DEF TasksNeedJobs, FirstRunsOK, FirstRun
  <2> QED BY <2>2, <2>3, InitEstablishes DEF AuditInv
<1>2. AuditInv /\ [Next]_vars => AuditInv'
  <2> SUFFICES ASSUME AuditInv, [Next]_vars PROVE AuditInv'
    OBVIOUS
  <2>1. /\ IInv' /\ SlotsFollowDirectory' /\ TasksFollowDirectory' /\ EmailsFollowDirectory'
        /\ TasksNeedJobs'
    BY NextKeeps, SlotsFollowKept, TasksFollowKept, EmailsFollowKept, TasksNeedJobsKept
       DEF AuditInv
  <2>2. FirstRunsOK'
    <3>1. ASSUME NEW s \in Slot, Attempt(s) PROVE FirstRunsOK'
      BY <3>1, FirstRunsProcess, FirstRunsEnd DEF Attempt
    <3>2. CASE Fetch \/ Crash \/ \E k \in JobId : Recover(k) \/ Expire(k)
      BY <3>2, FirstRunsTake, FirstRunsStall, FirstRunsCrash DEF Fetch
    <3>3. ASSUME NEW r \in Request, Handle(r), Enqueue(r) PROVE FirstRunsOK'
      BY <3>3, FirstRunsEnqueue
    <3>4. CASE UNCHANGED <<slots, jobs, tasks>> /\ ~\E s \in Slot : Process(s)
      BY <3>4, FirstRunsQuiet
    <3>5. CASE \E s \in Slot : Process(s)
      BY <3>5, FirstRunsProcess
    <3>6. ASSUME NEW r \in Request, Deliver(r) \/ Handle(r), ~Enqueue(r)
          PROVE  UNCHANGED <<slots, jobs, tasks>>
      BY <3>6 DEF Deliver, Receive, Handle, HandleRequest, FindExisting, CreateEmail,
                  FindRaced, MarkQueued, Throws, storeVars, queueVars, workerVars
    <3>7. ASSUME NEW k \in JobId, React(k) PROVE UNCHANGED <<slots, jobs, tasks>>
      BY <3>7 DEF React, OnFailed, LoadFailed, MarkExhausted, Throws, storeVars, queueVars
    <3>8. CatchUp \/ Administer \/ Quiescent \/ UNCHANGED vars
            => UNCHANGED <<slots, jobs, tasks>>
      BY DEF CatchUp, Replicate, Administer, MoveUsers, Quiescent, vars, storeVars, queueVars,
             workerVars
    <3> QED BY <3>1, <3>2, <3>3, <3>4, <3>5, <3>6, <3>7, <3>8
            DEF Next, Work, Deliver, Receive, Handle, HandleRequest
  <2> QED BY <2>1, <2>2 DEF AuditInv
<1> QED BY <1>1, <1>2, PTL DEF Spec

\* The email of a task carries the verdict that led to the task and the tenant it was
\* made for, with any number of deliveries, overlapping attempts, lost locks, faults,
\* crashes and moves, with or without unique indexes or stale reads, unless the job
\* was redone: then only another attempt's verdict, and another tenant only after a
\* move (processEmail's updateStatus of companyId and llmRawResult).
THEOREM TasksAreAudited == Spec => []TaskIsAudited
<1>1. AuditInv => TaskIsAudited
  <2> SUFFICES ASSUME AuditInv, NEW i \in DOMAIN tasks
               PROVE  LET id    == tasks[i].sourceEmailMessageId
                          moved == Redone(id) /\ moves > 0
                      IN  /\ emails[id].llmRawResult \in
                               IF Redone(id) THEN Verdict ELSE {"actionable"}
                          /\ emails[id].companyId \in
                               IF moved THEN Company ELSE {tasks[i].companyId}
    BY DEF TaskIsAudited
  <2> DEFINE id == tasks[i].sourceEmailMessageId
  <2>1. IInv /\ moves \in Nat /\ TaskOK(tasks[i], emails) /\ tasks \in Seq(Task)
    BY DirectoryAssumption
       DEF AuditInv, IInv, TypeOK, StoreTypeOK, WorkerTypeOK, DirectoryAssumption
  <2>2. tasks[i] \in Task /\ id \in Request /\ emails[id] # Null /\ emails[id] \in EmailMessage
    <3>1. tasks[i] \in Task
      BY <2>1
    <3> QED BY <2>1, <3>1 DEF Task, TaskOK, IInv, TypeOK, StoreTypeOK
  <2>3. emails[id].companyId \in Company /\ emails[id].llmRawResult \in Verdict
    BY <2>1, <2>2 DEF TaskOK, EmailMessage
  <2>4. PICK k \in JobId : jobs[k] # Null /\ jobs[k].emailMessageId = id
    BY DEF AuditInv, TasksNeedJobs, Named
  <2>5. jobOf(id) = jobs[k] /\ jobs[k] \in Job
    BY <2>1, <2>4, References DEF jobOf, IInv, JobOK
  <2>6. jobs[k].attemptsMade \in Nat /\ jobs[k].stalled \in Nat
    BY <2>5 DEF Job
  <2>7. ~Redone(id) => FirstRun(jobs[k])
    BY <2>4, <2>5, <2>6 DEF Redone, FirstRun
  <2>8. ~Redone(id) => /\ emails[id].llmRawResult = "actionable"
                       /\ emails[id].companyId = tasks[i].companyId
    BY <2>4, <2>7 DEF AuditInv, FirstRunsOK, FirstRunOK, RecordLedTo
  <2>9. moves = 0 => emails[id].companyId = tasks[i].companyId
    BY <2>2, <2>3, NullAssumption
       DEF NullAssumption, AuditInv, EmailsFollowDirectory, TasksFollowDirectory
  <2> HIDE DEF id
  <2>10. ~(moves > 0) => moves = 0
    BY <2>1
  <2> QED BY <2>3, <2>8, <2>9, <2>10 DEF id
<1> QED BY <1>1, AuditHolds, PTL

-------------------------------------------------------------------------------
(* The pipeline implements EmailToTask. *)

stored   == [m \in MessageId |-> documentsOf(m)]
queued   == {m \in MessageId : jobFor(m) # Null}
onRecord == [m \in MessageId |->
               IF jobFor(m) = Null THEN Null ELSE emails[jobFor(m).emailMessageId].llmRawResult]
created  == [m \in MessageId |-> tasksOf(m)]
settled  == {m \in MessageId : Finished(toEmailProcessingJobId(m))}

promised == <<stored, queued, onRecord, created, settled>>

\* Only an attempt of the document's job records a verdict on it.
RecordsNeedJobs ==
  \A id \in Request : emails[id] # Null /\ emails[id].llmRawResult # Null => Named(id)

PromiseInv ==
  /\ OnceInv
  /\ JobsComeFirst
  /\ AttemptInv
  /\ RecordsNeedJobs

\* A document that has a verdict goes on having a job.
LEMMA RecordsKept ==
  ASSUME IInv, JobsComeFirst, RecordsNeedJobs, [Next]_vars
  PROVE  RecordsNeedJobs'
<1> SUFFICES ASSUME NEW id \in Request, emails'[id] # Null, emails'[id].llmRawResult # Null
             PROVE  Named(id)'
  BY DEF RecordsNeedJobs
<1>1. JobsGrow(jobs, jobs') /\ emails \in [Request -> EmailMessage \cup {Null}]
  BY JobsStay DEF IInv, TypeOK, StoreTypeOK
<1>2. Named(id)
  <2>1. CASE emails'[id] = emails[id]
    BY <2>1 DEF RecordsNeedJobs
  <2>2. ASSUME NEW r \in Request, Inserts(r) PROVE emails'[id] = emails[id]
    <3>1. emails' = [emails EXCEPT ![r] = receivedEmail(messageOf(r), requests[r].to)]
      BY <2>2 DEF Inserts, createEmail
    <3>2. receivedEmail(messageOf(r), requests[r].to).llmRawResult = Null
      BY DEF receivedEmail
    <3> QED BY <1>1, <3>1, <3>2
  <2>3. ASSUME NEW r \in Request, Rewrites(r) PROVE Named(id) \/ emails'[id] = emails[id]
    <3>1. Named(r)
      BY <2>3, WriterIsNamed DEF Rewrites, JobsComeFirst
    <3> QED BY <1>1, <2>3, <3>1 DEF Rewrites, updateEmail
  <2> QED BY <2>1, <2>2, <2>3, EmailSteps
<1> QED BY <1>1, <1>2, NamedStays

\* The documents of a message change only when one is inserted.
LEMMA StoredStays ==
  ASSUME IInv, [Next]_vars,
         \A id \in Request : emails[id] = Null => emails'[id] = Null
  PROVE  UNCHANGED stored
<1>1. \A id \in Request : emails[id] # Null =>
        /\ emails'[id] # Null
        /\ emails'[id].providerMessageId = emails[id].providerMessageId
  BY DocumentsStay
<1>2. \A m \in MessageId : documentsOf(m)' = documentsOf(m)
  BY <1>1 DEF documentsOf
<1> QED BY <1>2 DEF stored

\* The tasks of a message change only when one is inserted.
LEMMA CreatedStays ==
  ASSUME IInv, [Next]_vars, UNCHANGED tasks
  PROVE  UNCHANGED created
<1>1. \A i \in DOMAIN tasks : tasks[i].sourceEmailMessageId \in Request
  <2>1. \A i \in DOMAIN tasks : tasks[i] \in Task
    BY DEF IInv, TypeOK, StoreTypeOK
  <2> QED BY <2>1 DEF Task
<1>2. ASSUME NEW m \in MessageId PROVE tasksOf(m)' = tasksOf(m)
  <2>1. ASSUME NEW i \in DOMAIN tasks
        PROVE  tasks[i].sourceEmailMessageId \in documentsOf(m)' <=>
               tasks[i].sourceEmailMessageId \in documentsOf(m)
    <3> DEFINE id == tasks[i].sourceEmailMessageId
    <3>1. id \in Request /\ emails[id] # Null
      BY <1>1 DEF IInv, TaskOK
    <3>2. /\ emails'[id] # Null
          /\ emails'[id].providerMessageId = emails[id].providerMessageId
      BY <3>1, DocumentsStay
    <3> QED BY <3>1, <3>2 DEF documentsOf
  <2>2. {i \in DOMAIN tasks : tasks[i].sourceEmailMessageId \in documentsOf(m)'} =
        {i \in DOMAIN tasks : tasks[i].sourceEmailMessageId \in documentsOf(m)}
    BY <2>1
  <2> QED BY <2>2 DEF tasksOf
<1>3. \A m \in MessageId : tasksOf(m)' = tasksOf(m)
  BY <1>2
<1> QED BY <1>3 DEF created

\* A message is queued when its job is added.
LEMMA QueuedStays ==
  ASSUME IInv, [Next]_vars, \A k \in JobId : jobs[k] = Null => jobs'[k] = Null
  PROVE  UNCHANGED queued
<1>1. \A m \in MessageId : toEmailProcessingJobId(m) \in JobId
  BY DEF JobId
<1>2. \A k \in JobId : jobs'[k] = Null <=> jobs[k] = Null
  BY JobsStay DEF JobsGrow
<1> QED BY <1>1, <1>2 DEF queued, jobFor

\* A verdict on record changes only when one is written.
LEMMA RecordStays ==
  ASSUME IInv, [Next]_vars, \A k \in JobId : jobs[k] = Null => jobs'[k] = Null,
         \A id \in Request :
           emails[id] # Null => emails'[id].llmRawResult = emails[id].llmRawResult
  PROVE  UNCHANGED onRecord
<1>1. \A m \in MessageId : toEmailProcessingJobId(m) \in JobId
  BY DEF JobId
<1>2. ASSUME NEW k \in JobId
      PROVE  /\ jobs'[k] = Null <=> jobs[k] = Null
             /\ jobs[k] # Null =>
                  emails'[jobs'[k].emailMessageId].llmRawResult =
                    emails[jobs[k].emailMessageId].llmRawResult
  <2>1. jobs[k] # Null => jobs'[k] # Null /\ jobs'[k].emailMessageId = jobs[k].emailMessageId
    BY JobsStay DEF JobsGrow
  <2>2. jobs[k] # Null => /\ jobs[k].emailMessageId \in Request
                          /\ emails[jobs[k].emailMessageId] # Null
    BY References
  <2> QED BY <2>1, <2>2
<1> QED BY <1>1, <1>2 DEF onRecord, jobFor

\* A message is settled when its job finishes.
LEMMA SettledStays ==
  ASSUME \A k \in JobId : \/ jobs'[k] = jobs[k]
                          \/ /\ jobs[k] # Null /\ jobs'[k] # Null
                             /\ \/ jobs'[k].state = jobs[k].state
                                \/ {jobs[k].state, jobs'[k].state} \subseteq {"waiting", "active"}
  PROVE  UNCHANGED settled
<1>1. \A m \in MessageId : toEmailProcessingJobId(m) \in JobId
  BY DEF JobId
<1>2. \A k \in JobId : Finished(k)' <=> Finished(k)
  BY DEF Finished, InState
<1> QED BY <1>1, <1>2 DEF settled

\* The message of a document that a job names has this job.
LEMMA MessageOfJob ==
  ASSUME IInv, NEW k \in JobId, jobs[k] # Null
  PROVE  LET m == emails[jobs[k].emailMessageId].providerMessageId
         IN  m \in MessageId /\ toEmailProcessingJobId(m) = k
BY References DEF IInv, JobOK, EmailMessage

\* A step that inserts nothing, records nothing, adds no job and finishes none.
LEMMA Stutters ==
  ASSUME IInv, [Next]_vars, UNCHANGED tasks,
         \A id \in Request :
           \/ emails'[id] = emails[id]
           \/ emails[id] # Null /\ emails'[id].llmRawResult = emails[id].llmRawResult,
         \A k \in JobId :
           \/ jobs'[k] = jobs[k]
           \/ /\ jobs[k] # Null /\ jobs'[k] # Null
              /\ \/ jobs'[k].state = jobs[k].state
                 \/ {jobs[k].state, jobs'[k].state} \subseteq {"waiting", "active"}
  PROVE  UNCHANGED promised
<1>1. /\ \A id \in Request : emails[id] = Null => emails'[id] = Null
      /\ \A id \in Request : emails'[id].llmRawResult = emails[id].llmRawResult
      /\ \A k \in JobId : jobs[k] = Null => jobs'[k] = Null
  OBVIOUS
<1> QED BY <1>1, StoredStays, CreatedStays, QueuedStays, RecordStays, SettledStays DEF promised

\* An insert stores a message that had no document.
LEMMA InsertStores ==
  ASSUME UniqueIndexes, IInv, [Next]_vars, NEW r \in Request, CreateEmail(r), Inserts(r)
  PROVE  Promise!Next
<1> DEFINE m == messageOf(r)
<1>1. /\ requests[r].pc = "createEmail" /\ UNCHANGED <<tasks, jobs>>
      /\ emails' = [emails EXCEPT ![r] = receivedEmail(m, requests[r].to)]
      /\ \A id \in Request : emails[id] # Null => emails[id].providerMessageId # m
  BY DEF CreateEmail, Inserts, createEmail, DuplicateMessageKey, queueVars
<1>2. m \in MessageId /\ requests[r].to \in Address /\ emails[r] = Null
  BY <1>1 DEF IInv, DeliveryOK, messageOf
<1>3. emails \in [Request -> EmailMessage \cup {Null}]
  BY DEF IInv, TypeOK, StoreTypeOK
<1> DEFINE doc == receivedEmail(m, requests[r].to)
<1>4. doc # Null /\ doc.providerMessageId = m
  <2>1. doc \in EmailMessage
    BY <1>2 DEF receivedEmail, EmailMessage, EmailMessageStatus
  <2> QED BY <2>1, NullAssumption DEF NullAssumption, receivedEmail
<1> HIDE DEF m, doc
<1>5. emails'[r] = doc /\ \A id \in Request : id # r => emails'[id] = emails[id]
  BY <1>1, <1>3 DEF doc, m
<1>6. documentsOf(m) = {}
  BY <1>1 DEF documentsOf, m
<1>7. ASSUME NEW n \in MessageId
      PROVE  documentsOf(n)' = IF n = m THEN {r} ELSE documentsOf(n)
  <2>1. documentsOf(n)' = {id \in Request : emails'[id] # Null /\ emails'[id].providerMessageId = n}
    BY DEF documentsOf
  <2>2. CASE n = m
    BY <1>1, <1>4, <1>5, <2>1, <2>2 DEF m
  <2>3. CASE n # m
    BY <1>2, <1>4, <1>5, <2>1, <2>3 DEF documentsOf
  <2> QED BY <2>2, <2>3
<1>8. \A n \in MessageId : documentsOf(n)' = IF n = m THEN {r} ELSE documentsOf(n)
  BY <1>7
<1>9. stored' = [stored EXCEPT ![m] = {r}]
  BY <1>8 DEF stored
<1>10. stored[m] = {}
  BY <1>2, <1>6 DEF stored, m
<1>11. \A id \in Request :
         emails[id] # Null => emails'[id].llmRawResult = emails[id].llmRawResult
  BY <1>2, <1>5
<1>12. UNCHANGED <<queued, onRecord, created, settled>>
  BY <1>1, <1>11, CreatedStays, QueuedStays, RecordStays, SettledStays
<1>13. Promise!Store(m)
  BY <1>9, <1>10, <1>12 DEF Promise!Store, stored, queued, onRecord, created, settled
<1> QED BY <1>2, <1>13 DEF Promise!Next, m

\* The first queue.add of a message queues it; nothing was recorded of it before.
LEMMA AddQueues ==
  ASSUME DistinctJobIds, PromiseInv, [Next]_vars, NEW r \in Request, Enqueue(r), jobs' # jobs
  PROVE  Promise!Next
<1> DEFINE m   == messageOf(r)
           k   == toEmailProcessingJobId(m)
           job == [state |-> "waiting", emailMessageId |-> r, attemptsMade |-> 0,
                   stalled |-> 0, lock |-> Null]
<1>1. /\ IInv /\ jobs \in [JobId -> Job \cup {Null}]
      /\ UNCHANGED <<emails, tasks>> /\ requests[r].pc = "enqueue"
      /\ jobs[k] = Null /\ jobs' = [jobs EXCEPT ![k] = job]
  BY DEF PromiseInv, OnceInv, IInv, TypeOK, QueueTypeOK, Enqueue, AddJob, Handling
<1>2. emails[r] # Null /\ emails[r].providerMessageId = m /\ m \in MessageId
  BY <1>1 DEF IInv, DeliveryOK, messageOf
<1>3. k \in JobId
  BY <1>2 DEF JobId
<1>4. job # Null /\ job.emailMessageId = r /\ job.state = "waiting"
  <2>1. job \in Job
    BY DEF Job
  <2> QED BY <2>1, NullJobAssumption DEF NullJobAssumption
<1> HIDE DEF m, job, k
<1>5. jobs'[k] = job /\ \A j \in JobId : j # k => jobs'[j] = jobs[j]
  BY <1>1, <1>3
<1>6. \A n \in MessageId : /\ toEmailProcessingJobId(n) \in JobId
                           /\ toEmailProcessingJobId(n) = k <=> n = m
  BY <1>2 DEF JobId, DistinctJobIds, k
<1>7. emails[r].llmRawResult = Null
  <2>1. ~Named(r)
    BY <1>1, <1>2 DEF Named, IInv, JobOK, k
  <2> QED BY <1>2, <2>1 DEF PromiseInv, RecordsNeedJobs
<1>8. queued' = queued \cup {m} /\ m \notin queued
  BY <1>1, <1>2, <1>4, <1>5, <1>6 DEF queued, jobFor
<1>9. UNCHANGED onRecord
  <2>1. ASSUME NEW n \in MessageId
        PROVE  (IF jobFor(n)' = Null THEN Null
                ELSE emails'[jobFor(n)'.emailMessageId].llmRawResult) =
               (IF jobFor(n) = Null THEN Null
                ELSE emails[jobFor(n).emailMessageId].llmRawResult)
    BY <1>1, <1>4, <1>5, <1>6, <1>7 DEF jobFor
  <2> QED BY <2>1 DEF onRecord
<1>10. UNCHANGED settled
  <2>1. \A j \in JobId : Finished(j)' <=> Finished(j)
    BY <1>1, <1>4, <1>5 DEF Finished, InState
  <2> QED BY <1>6, <2>1 DEF settled
<1>11. UNCHANGED stored /\ UNCHANGED created
  BY <1>1, StoredStays, CreatedStays
<1>12. stored[m] # {}
  BY <1>2 DEF stored, documentsOf
<1>13. Promise!Enqueue(m)
  BY <1>8, <1>9, <1>10, <1>11, <1>12
     DEF Promise!Enqueue, stored, queued, onRecord, created, settled
<1> QED BY <1>2, <1>13 DEF Promise!Next

\* The message that an attempt works for: its job is under way, as no lock is lost.
LEMMA MessageUnderWay ==
  ASSUME Exclusive, DistinctJobIds, PromiseInv, NEW s \in Slot, slots[s].pc # "idle"
  PROVE  LET id == emailIdOf(s)
             m  == emails[id].providerMessageId
         IN  /\ m \in MessageId /\ m \in queued \ settled
             /\ documentsOf(m) = {id}
             /\ onRecord[m] = emails[id].llmRawResult
             /\ jobFor(m) # Null /\ jobFor(m).emailMessageId = id
             /\ \A n \in MessageId : n # m /\ jobFor(n) # Null => jobFor(n).emailMessageId # id
<1> DEFINE id == emailIdOf(s)
           m  == emails[id].providerMessageId
           k  == slots[s].job
<1>1. /\ IInv /\ k \in JobId /\ jobs[k] # Null /\ id \in Request
      /\ jobs[k].emailMessageId = id /\ emails[id] # Null
  BY SlotFacts, NullJobAssumption DEF NullJobAssumption, PromiseInv, OnceInv, emailIdOf
<1>2. m \in MessageId /\ toEmailProcessingJobId(m) = k
  BY <1>1, MessageOfJob
<1>3. jobs[k].state = "active"
  BY <1>1, Alone DEF PromiseInv, AttemptInv, InState
<1>4. OneDocument
  BY DEF PromiseInv, OnceInv
<1>5. ASSUME NEW n \in MessageId, jobFor(n) # Null, jobFor(n).emailMessageId = id
      PROVE  n = m
  <2>1. toEmailProcessingJobId(n) \in JobId
    BY DEF JobId
  <2>2. toEmailProcessingJobId(m) = toEmailProcessingJobId(n)
    BY <1>1, <1>5, <2>1 DEF jobFor, IInv, JobOK
  <2> QED BY <1>2, <2>2 DEF DistinctJobIds
<1> HIDE DEF id, k
<1>6. documentsOf(m) = {id}
  BY <1>1, <1>4 DEF documentsOf, OneDocument
<1>7. jobFor(m) = jobs[k]
  BY <1>2 DEF jobFor
<1> HIDE DEF m
<1>8. m \in queued \ settled
  BY <1>1, <1>2, <1>3, <1>7 DEF queued, settled, Finished, InState
<1>9. onRecord[m] = emails[id].llmRawResult
  BY <1>1, <1>2, <1>7 DEF onRecord
<1> QED BY <1>1, <1>2, <1>5, <1>6, <1>7, <1>8, <1>9 DEF id, m

\* An attempt that records its verdict classifies the message.
LEMMA StoreRawClassifies ==
  ASSUME Exclusive, DistinctJobIds, PromiseInv, [Next]_vars, NEW s \in Slot, StoreRaw(s)
  PROVE  Promise!Next \/ UNCHANGED promised
<1> DEFINE id  == emailIdOf(s)
           m   == emails[id].providerMessageId
           doc == [withStatus(id, "PROCESSING") EXCEPT !.llmRawResult = slots[s].verdict]
<1>1. IInv /\ slots[s].pc = "storeRaw"
  BY DEF PromiseInv, OnceInv, StoreRaw, At
<1>2. /\ slots[s] \in SlotState /\ id \in Request
      /\ emails[id] \in EmailMessage /\ emails[id] # Null
      /\ emails \in [Request -> EmailMessage \cup {Null}]
  BY <1>1, SlotFacts DEF IInv, TypeOK, StoreTypeOK
<1>3. slots[s].verdict \in Verdict
  BY <1>1 DEF IInv, SlotOK, Classified
<1>4. doc.llmRawResult = slots[s].verdict
  BY <1>2, StatusUpdate DEF EmailMessageStatus, EmailMessage
<1>5. /\ UNCHANGED <<tasks, jobs>>
      /\ UNCHANGED emails \/ emails' = [emails EXCEPT ![id] = doc]
  BY DEF StoreRaw, Update, updateEmail, Throws, queueVars
<1>6. /\ m \in MessageId /\ m \in queued \ settled
      /\ jobFor(m) # Null /\ jobFor(m).emailMessageId = id
      /\ \A n \in MessageId : n # m /\ jobFor(n) # Null => jobFor(n).emailMessageId # id
  BY <1>1, MessageUnderWay
<1> HIDE DEF doc, id, m
<1>7. CASE UNCHANGED emails
  BY <1>1, <1>5, <1>7, Stutters
<1>8. CASE emails' = [emails EXCEPT ![id] = doc]
  <2>1. emails'[id] = doc /\ \A e \in Request : e # id => emails'[e] = emails[e]
    BY <1>2, <1>8
  <2>2. \A n \in MessageId : toEmailProcessingJobId(n) \in JobId /\ jobFor(n)' = jobFor(n)
    BY <1>5 DEF jobFor, JobId
  <2>3. \A n \in MessageId : jobFor(n) # Null => jobFor(n).emailMessageId \in Request
    BY <1>1, <2>2, References DEF jobFor
  <2>4. ASSUME NEW n \in MessageId
        PROVE  (IF jobFor(n)' = Null THEN Null
                ELSE emails'[jobFor(n)'.emailMessageId].llmRawResult) =
               (IF n = m THEN slots[s].verdict
                ELSE IF jobFor(n) = Null THEN Null
                     ELSE emails[jobFor(n).emailMessageId].llmRawResult)
    BY <1>4, <1>6, <2>1, <2>2, <2>3
  <2>5. onRecord' = [onRecord EXCEPT ![m] = slots[s].verdict]
    BY <2>4 DEF onRecord
  <2>6. \A e \in Request : emails[e] = Null => emails'[e] = Null
    BY <1>2, <2>1
  <2>7. UNCHANGED <<stored, queued, created, settled>>
    BY <1>1, <1>5, <2>6, StoredStays, CreatedStays, QueuedStays, SettledStays
  <2>8. Promise!Classify(m)
    BY <1>3, <1>6, <2>5, <2>7 DEF Promise!Classify, stored, queued, onRecord, created, settled
  <2> QED BY <1>6, <2>8 DEF Promise!Next
<1> QED BY <1>5, <1>7, <1>8

\* An attempt that inserts a task makes the first task of its message, on an
\* actionable verdict that is on record.
LEMMA AddCreates ==
  ASSUME Exclusive, Steady, UniqueIndexes, DistinctJobIds, PromiseInv, [Next]_vars,
         NEW s \in Slot, CreateTask(s), AddsTask(s)
  PROVE  Promise!Next
<1> DEFINE id == emailIdOf(s)
           m  == emails[id].providerMessageId
           c  == slots[s].tenant
<1>1. /\ IInv /\ OnceInv /\ slots[s].pc = "createTask"
      /\ UNCHANGED <<emails, jobs>> /\ moves = 0
  BY DEF PromiseInv, OnceInv, AddsTask, CreateTask, queueVars, IInv, TypeOK, WorkerTypeOK, Steady
<1>2. /\ m \in MessageId /\ m \in queued \ settled
      /\ documentsOf(m) = {id} /\ onRecord[m] = emails[id].llmRawResult
  BY <1>1, MessageUnderWay
<1>3. slots[s].pc # "idle" /\ slots[s].pc \in Actionable /\ slots[s].pc \in Recorded
      /\ slots[s].pc \in Resolved
  BY <1>1 DEF Actionable, Recorded, Classified, Resolved
<1>4. id \in Request /\ slots[s].job \in JobId
  BY <1>1, <1>3, SlotFacts
<1>5. onRecord[m] = "actionable"
  <2>1. AttemptOK(slots[s], emails[id], id, tasks)
    BY <1>3, <1>4 DEF PromiseInv, AttemptInv
  <2> QED BY <1>2, <1>3, <2>1 DEF AttemptOK
<1>6. c = directory[emails[id].to]
  BY <1>1, <1>3, <1>4 DEF OnceInv, SlotsFollowDirectory, emailIdOf
<1>7. \A i \in DOMAIN tasks : tasks[i].sourceEmailMessageId # id
  BY <1>1, <1>4, <1>6 DEF OnceInv, TasksFollowDirectory, AddsTask, DuplicateTaskKey
<1> DEFINE new == Len(tasks) + 1
<1>8. /\ DOMAIN tasks' = DOMAIN tasks \cup {new}
      /\ \A i \in DOMAIN tasks : tasks'[i] = tasks[i]
      /\ tasks'[new] = [companyId |-> c, sourceEmailMessageId |-> id]
      /\ c \in Company
  BY <1>1, AddedTask
<1>9. tasks'[new].companyId = c /\ tasks'[new].sourceEmailMessageId = id
  BY <1>8
<1> HIDE DEF id, m, c, new
<1>10. tasksOf(m) = {}
  BY <1>2, <1>7 DEF tasksOf
<1>11. ASSUME NEW n \in MessageId
       PROVE  tasksOf(n)' = IF n = m THEN {<<c, id>>} ELSE tasksOf(n)
  <2> DEFINE made(T) == {i \in DOMAIN T : T[i].sourceEmailMessageId \in documentsOf(n)}
  <2>1. documentsOf(n)' = documentsOf(n)
    BY <1>1 DEF documentsOf
  <2>2. /\ tasksOf(n) = {<<tasks[i].companyId, tasks[i].sourceEmailMessageId>> : i \in made(tasks)}
        /\ tasksOf(n)' =
             {<<tasks'[i].companyId, tasks'[i].sourceEmailMessageId>> : i \in made(tasks')}
    BY <2>1 DEF tasksOf
  <2>3. CASE n = m
    <3>1. made(tasks') = {new}
      BY <1>2, <1>7, <1>8, <1>9, <2>3
    <3> QED BY <1>9, <2>2, <2>3, <3>1
  <2>4. CASE n # m
    <3>1. id \notin documentsOf(n)
      BY <2>4 DEF documentsOf, m
    <3>2. made(tasks') = made(tasks)
      BY <1>8, <1>9, <3>1
    <3>3. \A i \in made(tasks) : tasks'[i] = tasks[i]
      BY <1>8
    <3> HIDE DEF made
    <3> QED BY <2>2, <2>4, <3>2, <3>3
  <2> QED BY <2>3, <2>4
<1>12. \A n \in MessageId : tasksOf(n)' = IF n = m THEN {<<c, id>>} ELSE tasksOf(n)
  BY <1>11
<1>13. created' = [created EXCEPT ![m] = {<<c, id>>}] /\ created[m] = {}
  BY <1>2, <1>10, <1>12 DEF created
<1>14. UNCHANGED <<stored, queued, onRecord, settled>>
  BY <1>1, StoredStays, QueuedStays, RecordStays, SettledStays
<1>15. <<c, id>> \in Company \X Request
  BY <1>4, <1>8
<1>16. Promise!CreateTask(m)
  BY <1>2, <1>5, <1>13, <1>14, <1>15
     DEF Promise!CreateTask, stored, queued, onRecord, created, settled
<1> QED BY <1>2, <1>16 DEF Promise!Next

\* A job that finishes settles its message.
LEMMA FinishSettles ==
  ASSUME DistinctJobIds, IInv, [Next]_vars, UNCHANGED <<emails, tasks>>,
         NEW k \in JobId, jobs[k] # Null, jobs'[k] # Null,
         jobs[k].state \in {"waiting", "active"}, jobs'[k].state \in {"completed", "failed"},
         \A j \in JobId : j # k => jobs'[j] = jobs[j]
  PROVE  Promise!Next
<1> DEFINE m == emails[jobs[k].emailMessageId].providerMessageId
<1>1. m \in MessageId /\ toEmailProcessingJobId(m) = k
  BY MessageOfJob
<1> HIDE DEF m
<1>2. \A n \in MessageId : /\ toEmailProcessingJobId(n) \in JobId
                           /\ toEmailProcessingJobId(n) = k <=> n = m
  BY <1>1 DEF JobId, DistinctJobIds
<1>3. ~Finished(k) /\ Finished(k)' /\ \A j \in JobId : j # k => (Finished(j)' <=> Finished(j))
  BY DEF Finished, InState
<1>4. settled' = settled \cup {m} /\ m \notin settled
  BY <1>1, <1>2, <1>3 DEF settled
<1>5. m \in queued
  BY <1>1 DEF queued, jobFor
<1>6. UNCHANGED <<stored, queued, onRecord, created>>
  BY StoredStays, CreatedStays, QueuedStays, RecordStays
<1>7. Promise!Settle(m)
  BY <1>4, <1>5, <1>6 DEF Promise!Settle, stored, queued, onRecord, created, settled
<1> QED BY <1>1, <1>7 DEF Promise!Next

\* Every step of the pipeline is a step of EmailToTask or changes nothing of it.
LEMMA PromiseStep ==
  ASSUME Exclusive, Steady, UniqueIndexes, DistinctJobIds, PromiseInv, [Next]_vars
  PROVE  Promise!Next \/ UNCHANGED promised
<1>1. /\ IInv /\ jobs \in [JobId -> Job \cup {Null}]
      /\ emails \in [Request -> EmailMessage \cup {Null}]
  BY DEF PromiseInv, OnceInv, IInv, TypeOK, QueueTypeOK, StoreTypeOK
<1>2. \A k \in JobId : jobs[k] # Null => jobs'[k] # Null /\ jobs[k] \in Job
  BY <1>1, JobsStay DEF JobsGrow
<1>3. CASE UNCHANGED <<emails, tasks, jobs>>
  BY <1>1, <1>3, Stutters
<1>4. ASSUME NEW id \in Request, emails[id] \in EmailMessage, emails[id] # Null,
             UNCHANGED <<tasks, jobs>>, NEW doc, doc.llmRawResult = emails[id].llmRawResult,
             emails' = [emails EXCEPT ![id] = doc]
      PROVE  UNCHANGED promised
  <2>1. emails'[id] = doc /\ \A e \in Request : e # id => emails'[e] = emails[e]
    BY <1>1, <1>4
  <2>2. \A e \in Request :
          \/ emails'[e] = emails[e]
          \/ emails[e] # Null /\ emails'[e].llmRawResult = emails[e].llmRawResult
    BY <1>4, <2>1
  <2> QED BY <1>1, <1>4, <2>2, Stutters
<1>5. ASSUME NEW r \in Request, Deliver(r) \/ Handle(r)
      PROVE  Promise!Next \/ UNCHANGED promised
  <2>1. CASE CreateEmail(r)
    <3>1. Inserts(r) \/ UNCHANGED <<emails, tasks, jobs>>
      BY <2>1 DEF CreateEmail, Inserts, Throws, storeVars, queueVars, Handling
    <3> QED BY <1>1, <1>3, <2>1, <3>1, InsertStores
  <2>2. CASE Enqueue(r)
    <3>1. UNCHANGED <<emails, tasks>>
      BY <2>2 DEF Enqueue
    <3> QED BY <1>3, <2>2, <3>1, AddQueues
  <2>3. CASE MarkQueued(r)
    <3>1. /\ UNCHANGED <<tasks, jobs>>
          /\ \/ UNCHANGED emails
             \/ emails' = [emails EXCEPT ![r] = withStatus(r, "QUEUED")]
          /\ emails[r] # Null
      BY <1>1, <2>3 DEF MarkQueued, updateEmail, Throws, queueVars, Handling, IInv, DeliveryOK
    <3>2. /\ emails[r] \in EmailMessage
          /\ withStatus(r, "QUEUED").llmRawResult = emails[r].llmRawResult
      BY <1>1, <3>1, StatusUpdate DEF EmailMessageStatus
    <3> QED BY <1>3, <1>4, <3>1, <3>2
  <2>4. CASE Deliver(r) \/ FindExisting(r) \/ FindRaced(r)
    BY <1>3, <2>4 DEF Deliver, Receive, FindExisting, FindRaced, Throws, storeVars, queueVars
  <2> QED BY <1>5, <2>1, <2>2, <2>3, <2>4 DEF Handle, HandleRequest
<1>6. ASSUME NEW s \in Slot, Process(s) PROVE Promise!Next \/ UNCHANGED promised
  <2> DEFINE id == emailIdOf(s)
  <2>1. /\ id \in Request /\ emails[id] # Null /\ emails[id] \in EmailMessage
        /\ slots[s] \in SlotState
    BY <1>1, <1>6, SlotFacts, ProcessMoves
  <2>2. \A status \in EmailMessageStatus :
          /\ withStatus(id, status) \in EmailMessage
          /\ withStatus(id, status).llmRawResult = emails[id].llmRawResult
    BY <2>1, StatusUpdate
  <2> HIDE DEF id
  <2>3. ASSUME NEW doc, NEW next, Update(s, doc, next),
               doc.llmRawResult = emails[id].llmRawResult
        PROVE  UNCHANGED promised
    <3>1. /\ UNCHANGED <<tasks, jobs>>
          /\ UNCHANGED emails \/ emails' = [emails EXCEPT ![id] = doc]
      BY <2>3 DEF Update, updateEmail, Throws, queueVars, id
    <3>2. UNCHANGED emails => UNCHANGED promised
      BY <1>1, <3>1, Stutters
    <3> QED BY <1>4, <2>1, <2>3, <3>1, <3>2
  <2>4. CASE MarkProcessing(s) \/ MarkUnmatched(s) \/ MarkSkipped(s) \/ MarkFailed(s)
    <3>1. PICK status \in EmailMessageStatus, next \in ProcessStep :
            Update(s, withStatus(id, status), next)
      BY <2>4 DEF MarkProcessing, MarkUnmatched, MarkSkipped, MarkFailed, EmailMessageStatus,
                  ProcessStep, id
    <3> QED BY <2>2, <2>3, <3>1
  <2>5. CASE SetTenant(s)
    <3> DEFINE doc == [withStatus(id, "PROCESSING") EXCEPT !.companyId = slots[s].tenant]
    <3>1. doc.llmRawResult = emails[id].llmRawResult
      BY <2>2 DEF EmailMessage, EmailMessageStatus
    <3>2. Update(s, doc, "classify")
      BY <2>5 DEF SetTenant, id
    <3> HIDE DEF doc
    <3> QED BY <2>3, <3>1, <3>2
  <2>6. CASE MarkActionable(s)
    <3> DEFINE doc == [withStatus(id, "ACTIONABLE") EXCEPT !.taskId = slots[s].task]
    <3>1. doc.llmRawResult = emails[id].llmRawResult
      BY <2>2 DEF EmailMessage, EmailMessageStatus
    <3>2. Update(s, doc, "return")
      BY <2>6 DEF MarkActionable, id
    <3> HIDE DEF doc
    <3> QED BY <2>3, <3>1, <3>2
  <2>7. CASE StoreRaw(s)
    BY <2>7, StoreRawClassifies
  <2>8. CASE CreateTask(s)
    <3>1. AddsTask(s) \/ UNCHANGED <<emails, tasks, jobs>>
      BY <2>8 DEF CreateTask, AddsTask, At, Throws, storeVars, queueVars
    <3> QED BY <1>3, <2>8, <3>1, AddCreates
  <2>9. CASE Load(s) \/ Resolve(s) \/ Classify(s) \/ FindTask(s)
    BY <1>3, <2>9 DEF Load, Resolve, Classify, FindTask, Read, Throws, storeVars, queueVars
  <2> QED BY <1>6, <2>4, <2>5, <2>6, <2>7, <2>8, <2>9 DEF Process
<1>7. ASSUME NEW k \in JobId, jobs[k] # Null, UNCHANGED <<emails, tasks>>,
             \A j \in JobId : j # k => jobs'[j] = jobs[j],
             jobs[k].state \in {"waiting", "active"}
      PROVE  Promise!Next \/ UNCHANGED promised
  <2>1. CASE jobs'[k].state \in {"completed", "failed"}
    BY <1>1, <1>2, <1>7, <2>1, FinishSettles
  <2>2. CASE jobs'[k].state \in {"waiting", "active"}
    <3>1. \A j \in JobId :
            \/ jobs'[j] = jobs[j]
            \/ /\ jobs[j] # Null /\ jobs'[j] # Null
               /\ {jobs[j].state, jobs'[j].state} \subseteq {"waiting", "active"}
      BY <1>2, <1>7, <2>2
    <3> QED BY <1>1, <1>7, <3>1, Stutters
  <2>3. jobs'[k] \in Job
    <3>1. IInv' /\ jobs'[k] # Null
      BY <1>1, <1>2, <1>7, NextKeeps
    <3> QED BY <3>1 DEF IInv, TypeOK, QueueTypeOK
  <2>4. jobs'[k].state \in {"waiting", "active", "completed", "failed"}
    BY <2>3 DEF Job
  <2> QED BY <2>1, <2>2, <2>4
<1>8. ASSUME NEW s \in Slot, Complete(s) \/ Fail(s) PROVE Promise!Next \/ UNCHANGED promised
  <2> DEFINE k == slots[s].job
  <2>1. slots[s].pc # "idle" /\ UNCHANGED <<emails, tasks>>
    BY <1>8 DEF Complete, Fail, At, storeVars
  <2>2. k \in JobId /\ jobs[k] # Null /\ jobs[k].state = "active"
    BY <1>1, <2>1, SlotFacts, Alone, NullJobAssumption
       DEF NullJobAssumption, PromiseInv, AttemptInv, InState
  <2>3. CASE UNCHANGED jobs
    BY <1>3, <2>1, <2>3
  <2>4. CASE CompleteJob(k) \/ FailJob(k)
    <3>1. \A j \in JobId : j # k => jobs'[j] = jobs[j]
      BY <1>1, <2>2, <2>4, JobStates
    <3> QED BY <1>7, <2>1, <2>2, <3>1
  <2> QED BY <1>8, <2>3, <2>4 DEF Complete, Fail
<1>9. CASE Fetch \/ \E k \in JobId : Recover(k)
  <2>1. PICK k \in JobId : (\E s \in Slot : LockJob(s, k)) \/ FailStalledJob(k)
                                                            \/ RecoverStalledJob(k)
    BY <1>9 DEF Fetch, Take, FailStalled, Recover
  <2>2. jobs[k] # Null /\ UNCHANGED <<emails, tasks>>
    BY <1>9, <2>1 DEF LockJob, FailStalledJob, RecoverStalledJob, HoldsLock, InState, Fetch,
                      Take, FailStalled, Recover, storeVars
  <2>3. \A j \in JobId : j # k => jobs'[j] = jobs[j]
    BY <1>1, <2>1, <2>2, JobStates
  <2>4. jobs[k].state \in {"waiting", "active"}
    BY <2>1 DEF LockJob, FailStalledJob, RecoverStalledJob, HoldsLock, InState
  <2> QED BY <1>7, <2>2, <2>3, <2>4
<1>10. CASE Crash \/ \E k \in JobId : Expire(k)
  <2>1. UNCHANGED <<emails, tasks>>
    BY <1>10 DEF Crash, Expire, storeVars
  <2>2. \A j \in JobId : jobs'[j] = jobs[j]
                         \/ (jobs[j] # Null /\ jobs'[j] = [jobs[j] EXCEPT !.lock = Null])
    BY <1>1, <1>10 DEF Crash, ReleaseLocks, Expire, LoseLock, InState
  <2>3. \A j \in JobId :
          \/ jobs'[j] = jobs[j]
          \/ jobs[j] # Null /\ jobs'[j] # Null /\ jobs'[j].state = jobs[j].state
    BY <1>2, <2>2 DEF Job
  <2> QED BY <1>1, <2>1, <2>3, Stutters
<1>11. ASSUME NEW k \in JobId, React(k) PROVE Promise!Next \/ UNCHANGED promised
  <2> DEFINE id == jobs[k].emailMessageId
  <2>1. UNCHANGED <<tasks, jobs>> /\ jobs[k] # Null
    BY <1>1, <1>11 DEF React, OnFailed, LoadFailed, MarkExhausted, Throws, storeVars, queueVars,
                       IInv, HandlerOK
  <2>2. id \in Request /\ emails[id] # Null /\ emails[id] \in EmailMessage
    BY <1>1, <2>1, References
  <2>3. UNCHANGED emails \/ emails' = [emails EXCEPT ![id] = withStatus(id, "FAILED")]
    BY <1>11 DEF React, OnFailed, LoadFailed, MarkExhausted, updateEmail, Throws, storeVars
  <2>4. withStatus(id, "FAILED").llmRawResult = emails[id].llmRawResult
    BY <2>2, StatusUpdate DEF EmailMessageStatus
  <2> HIDE DEF id
  <2> QED BY <1>3, <1>4, <2>1, <2>2, <2>3, <2>4
<1>12. CASE CatchUp \/ Administer \/ Quiescent \/ UNCHANGED vars
  BY <1>3, <1>12 DEF CatchUp, Replicate, Administer, MoveUsers, Quiescent, vars, storeVars,
                     queueVars
<1> QED BY <1>5, <1>6, <1>8, <1>9, <1>10, <1>11, <1>12 DEF Next, Work, Attempt

\* What every reachable state holds for the mapping.
LEMMA PromiseInvHolds ==
  ASSUME UniqueIndexes, DistinctJobIds
  PROVE  Spec => []PromiseInv
<1>1. Init => JobsComeFirst /\ RecordsNeedJobs
  BY DEF Init, StoreInit, InboundInit, JobsComeFirst, RecordsNeedJobs
<1>2. OnceInv /\ JobsComeFirst /\ RecordsNeedJobs /\ [Next]_vars
        => JobsComeFirst' /\ RecordsNeedJobs'
  BY JobsComeFirstKept, RecordsKept DEF OnceInv
<1>3. OnceInv /\ AttemptInv /\ JobsComeFirst /\ RecordsNeedJobs => PromiseInv
  BY DEF PromiseInv
<1> QED BY <1>1, <1>2, <1>3, OnceHolds, AttemptHolds, PTL DEF Spec

\* The pipeline implements EmailToTask: whatever is delivered twice, retried,
\* stalled or crashed, a message is stored once, queued once after that, made
\* into at most one task, only under way and on a verdict on record, and settled
\* once; as long as the unique indexes exist, job ids tell messages apart, no
\* slot loses a lock and nobody moves.
THEOREM PipelineKeepsPromise ==
  ASSUME Exclusive, Steady, UniqueIndexes, DistinctJobIds
  PROVE  Spec => KeepsPromise
<1>1. Init => Promise!Init
  <2> SUFFICES ASSUME Init PROVE Promise!Init
    OBVIOUS
  <2>1. /\ \A id \in Request : emails[id] = Null
        /\ \A k \in JobId : jobs[k] = Null
        /\ DOMAIN tasks = {}
    BY DEF Init, StoreInit, QueueInit
  <2>2. \A m \in MessageId : /\ toEmailProcessingJobId(m) \in JobId
                             /\ documentsOf(m) = {} /\ tasksOf(m) = {}
    BY <2>1 DEF documentsOf, tasksOf, JobId
  <2>3. /\ stored = [m \in MessageId |-> {}] /\ created = [m \in MessageId |-> {}]
        /\ queued = {} /\ settled = {} /\ onRecord = [m \in MessageId |-> Null]
    BY <2>1, <2>2 DEF stored, created, queued, settled, onRecord, jobFor, Finished, InState
  <2> QED BY <2>3 DEF Promise!Init, stored, created, queued, settled, onRecord
<1>2. PromiseInv /\ [Next]_vars => [Promise!Next]_promised
  BY PromiseStep
<1> QED BY <1>1, <1>2, PromiseInvHolds, PTL DEF Spec, KeepsPromise, Promise!Spec, Promise!vars,
            promised, stored, queued, onRecord, created, settled

===============================================================================
