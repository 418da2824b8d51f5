------------------------ MODULE EmailPipelineOnceProofs ------------------------
(***************************************************************************)
(* Proofs that EmailPipeline handles a message once: one document, one id  *)
(* in the answers, one job behind it and one task, for every value of the  *)
(* constants.                                                              *)
(*                                                                         *)
(* The unique index on providerMessageId gives one document per message;   *)
(* since documents keep their message and their recipient and jobs their   *)
(* document, whatever names a document names the same one for good.        *)
(***************************************************************************)
EXTENDS EmailPipelineProofs

\* Message ids that differ give job ids that differ (CollidingJobIds is the run
\* in which they do not).
DistinctJobIds ==
  \A m, n \in MessageId :
    toEmailProcessingJobId(m) = toEmailProcessingJobId(n) => m = n

-------------------------------------------------------------------------------
(* The parts of the inductive invariant. *)

OneDocument ==
  \A a, b \in Request :
    /\ emails[a] # Null
    /\ emails[b] # Null
    /\ emails[a].providerMessageId = emails[b].providerMessageId
    => a = b

\* What the secondary shows is in the collection, for the same message.
SecondaryFollows ==
  \A id \in Request :
    secondary.emails[id] # Null =>
      /\ emails[id] # Null
      /\ emails[id].providerMessageId = secondary.emails[id].providerMessageId

\* An id in an answer is that of a document of the delivery's message.
AnswersNameDocuments ==
  \A r, id \in Request :
    requests[r].id = id /\ id # Null =>
      /\ requests[r].pc # "unsent"
      /\ emails[id] # Null
      /\ emails[id].providerMessageId = messageOf(r)

\* Some job is for this document.
Named(id) == \E k \in JobId : jobs[k] # Null /\ jobs[k].emailMessageId = id

\* Whoever may write a status other than RECEIVED found a job for the document.
JobsComeFirst ==
  \A id \in Request :
    \/ emails[id] # Null /\ emails[id].status # "RECEIVED"
    \/ requests[id].pc = "markQueued"
    => Named(id)

OneTaskPerKey == \A i, j \in DOMAIN tasks : tasks[i] = tasks[j] => i = j

\* Until the first move, whoever resolved the recipient found the company that
\* the directory still gives.
TasksFollowDirectory ==
  moves = 0 =>
    \A i \in DOMAIN tasks, id \in Request :
      tasks[i].sourceEmailMessageId = id => tasks[i].companyId = directory[emails[id].to]

SlotsFollowDirectory ==
  moves = 0 =>
    \A s \in Slot, k \in JobId, id \in Request :
      /\ slots[s].pc \in Resolved
      /\ slots[s].job = k
      /\ jobs[k].emailMessageId = id
      => slots[s].tenant = directory[emails[id].to]

-------------------------------------------------------------------------------
(* What a step does to the documents. *)

\* A delivery inserts its document, which nothing else holds.
Inserts(r) ==
  /\ requests[r].pc = "createEmail"
  /\ ~DuplicateMessageKey(messageOf(r))
  /\ createEmail(r, messageOf(r), requests[r].to)
  /\ UNCHANGED <<tasks, secondary>>

\* The steps at which an attempt calls updateStatus.
Writing == {"markProcessing", "markUnmatched", "setTenant", "storeRaw", "markSkipped",
            "markActionable", "markFailed"}

\* The callers of updateStatus: the delivery that queued the document, an attempt
\* of the job that names it, the handler of that job's last failure.
Writer(id) ==
  \/ requests[id].pc = "markQueued" /\ updateEmail(id, withStatus(id, "QUEUED"))
  \/ \E s \in Slot : slots[s].pc \in Writing /\ emailIdOf(s) = id
  \/ \E k \in JobId : handlers[k] = "mark" /\ jobs[k].emailMessageId = id

\* An update leaves a document its message and its recipient.
Rewrites(id) ==
  /\ emails[id] # Null
  /\ Writer(id)
  /\ UNCHANGED <<tasks, secondary>>
  /\ \E doc \in EmailMessage :
       /\ updateEmail(id, doc)
       /\ doc.providerMessageId = emails[id].providerMessageId
       /\ doc.to = emails[id].to

\* Writing a status, and what goes with it, leaves the rest of a document.
LEMMA StatusUpdate ==
  ASSUME NEW id, emails[id] \in EmailMessage, NEW status \in EmailMessageStatus
  PROVE  LET doc == withStatus(id, status)
         IN  /\ doc \in EmailMessage
             /\ doc = [emails[id] EXCEPT !.status = status]
             /\ doc.providerMessageId = emails[id].providerMessageId
             /\ doc.to = emails[id].to
             /\ doc.status = status
             /\ doc.companyId = emails[id].companyId
             /\ doc.llmRawResult = emails[id].llmRawResult
             /\ doc.taskId = emails[id].taskId
  BY DEF withStatus, EmailMessage

\* The worker's calls of updateStatus rewrite the document of the slot's job.
LEMMA UpdateRewrites ==
  ASSUME IInv, NEW s \in Slot, slots[s].pc \in Writing,
         NEW doc \in EmailMessage, NEW next,
         doc.providerMessageId = emails[emailIdOf(s)].providerMessageId,
         doc.to = emails[emailIdOf(s)].to,
         Update(s, doc, next)
  PROVE  UNCHANGED emails \/ Rewrites(emailIdOf(s))
<1>1. emails[emailIdOf(s)] # Null
  BY SlotFacts DEF Writing
<1>2. Writer(emailIdOf(s))
  BY DEF Writer
<1> QED BY <1>1, <1>2 DEF Update, Throws, Rewrites

\* So does every step of an attempt that writes a document.
LEMMA ProcessRewrites ==
  ASSUME IInv, NEW s \in Slot, Process(s)
  PROVE  UNCHANGED emails \/ Rewrites(emailIdOf(s))
<1> DEFINE id == emailIdOf(s)
<1>1. slots[s].pc # "idle"
  BY DEF Process, Load, MarkProcessing, Resolve, MarkUnmatched, SetTenant, Classify,
         StoreRaw, MarkSkipped, FindTask, CreateTask, MarkActionable, MarkFailed, At
<1>2. /\ slots[s] \in SlotState /\ id \in Request
      /\ emails[id] \in EmailMessage /\ emails[id] # Null
      /\ SlotOK(slots[s], emails, jobs, tasks)
  BY <1>1, SlotFacts DEF IInv
<1>3. {"PROCESSING", "UNMATCHED", "SKIPPED", "ACTIONABLE", "FAILED"} \subseteq EmailMessageStatus
  BY DEF EmailMessageStatus
<1>4. \A status \in EmailMessageStatus :
        /\ withStatus(id, status) \in EmailMessage
        /\ withStatus(id, status).providerMessageId = emails[id].providerMessageId
        /\ withStatus(id, status).to = emails[id].to
  BY <1>2, StatusUpdate
<1> HIDE DEF id
<1>5. CASE /\ slots[s].pc \in Writing
           /\ \E status \in EmailMessageStatus, next \in ProcessStep :
                Update(s, withStatus(id, status), next)
  BY <1>4, <1>5, UpdateRewrites DEF id
<1>6. CASE SetTenant(s)
  <2> DEFINE doc == [withStatus(id, "PROCESSING") EXCEPT !.companyId = slots[s].tenant]
  <2>1. slots[s].tenant \in Company \cup {Null}
    BY <1>2 DEF SlotState
  <2>2. /\ doc \in EmailMessage /\ doc.to = emails[id].to
        /\ doc.providerMessageId = emails[id].providerMessageId
    BY <1>3, <1>4, <2>1 DEF EmailMessage
  <2>3. Update(s, doc, "classify")
    BY <1>6 DEF SetTenant, id
  <2> HIDE DEF doc
  <2>4. slots[s].pc \in Writing
    BY <1>6 DEF SetTenant, At, Writing
  <2> QED BY <2>2, <2>3, <2>4, UpdateRewrites DEF id
<1>7. CASE StoreRaw(s)
  <2> DEFINE doc == [withStatus(id, "PROCESSING") EXCEPT !.llmRawResult = slots[s].verdict]
  <2>1. slots[s].verdict \in Verdict \cup {Null}
    BY <1>2 DEF SlotState
  <2>2. /\ doc \in EmailMessage /\ doc.to = emails[id].to
        /\ doc.providerMessageId = emails[id].providerMessageId
    BY <1>3, <1>4, <2>1 DEF EmailMessage
  <2>3. PICK next : Update(s, doc, next)
    BY <1>7 DEF StoreRaw, id
  <2> HIDE DEF doc
  <2>4. slots[s].pc \in Writing
    BY <1>7 DEF StoreRaw, At, Writing
  <2> QED BY <2>2, <2>3, <2>4, UpdateRewrites DEF id
<1>8. CASE MarkActionable(s)
  <2> DEFINE doc == [withStatus(id, "ACTIONABLE") EXCEPT !.taskId = slots[s].task]
  <2>1. slots[s].task \in Nat \cup {Null}
    BY <1>2 DEF SlotState
  <2>2. /\ doc \in EmailMessage /\ doc.to = emails[id].to
        /\ doc.providerMessageId = emails[id].providerMessageId
    BY <1>3, <1>4, <2>1 DEF EmailMessage
  <2>3. Update(s, doc, "return")
    BY <1>8 DEF MarkActionable, id
  <2> HIDE DEF doc
  <2>4. slots[s].pc \in Writing
    BY <1>8 DEF MarkActionable, At, Writing
  <2> QED BY <2>2, <2>3, <2>4, UpdateRewrites DEF id
<1>9. CASE MarkProcessing(s) \/ MarkUnmatched(s) \/ MarkSkipped(s) \/ MarkFailed(s)
  <2>1. PICK status \in EmailMessageStatus, next \in ProcessStep :
          Update(s, withStatus(id, status), next)
    <3>1. {"resolve", "return"} \subseteq ProcessStep
      BY DEF ProcessStep
    <3> QED BY <1>3, <1>9, <3>1 DEF MarkProcessing, MarkUnmatched, MarkSkipped, MarkFailed, id
  <2>2. slots[s].pc \in Writing
    BY <1>9 DEF MarkProcessing, MarkUnmatched, MarkSkipped, MarkFailed, At, Writing
  <2> QED BY <1>5, <2>1, <2>2
<1>10. CASE Load(s) \/ Resolve(s) \/ Classify(s) \/ FindTask(s) \/ CreateTask(s)
  BY <1>10 DEF Load, Resolve, Classify, FindTask, CreateTask, Read, Throws, storeVars
<1> QED BY <1>6, <1>7, <1>8, <1>9, <1>10 DEF Process, id

\* A step leaves the documents alone, inserts one, or rewrites one.
LEMMA EmailSteps ==
  ASSUME IInv, [Next]_vars
  PROVE  \/ UNCHANGED emails
         \/ \E r \in Request : Inserts(r)
         \/ \E id \in Request : Rewrites(id)
<1>1. ASSUME NEW r \in Request, Deliver(r) \/ Handle(r)
      PROVE  UNCHANGED emails \/ Inserts(r) \/ Rewrites(r)
  <2>1. CASE CreateEmail(r)
    BY <2>1 DEF CreateEmail, Inserts, Throws, storeVars, Handling
  <2>2. CASE MarkQueued(r)
    <3>1. requests[r].pc = "markQueued" /\ DeliveryOK(r, requests[r], emails)
      BY <2>2 DEF MarkQueued, Handling, IInv
    <3>2. emails[r] # Null /\ emails[r] \in EmailMessage
      BY <3>1 DEF DeliveryOK, IInv, TypeOK, StoreTypeOK
    <3> DEFINE doc == withStatus(r, "QUEUED")
    <3>3. /\ doc \in EmailMessage /\ doc.to = emails[r].to
          /\ doc.providerMessageId = emails[r].providerMessageId
      BY <3>2, StatusUpdate DEF EmailMessageStatus
    <3>4. UNCHANGED emails \/ (updateEmail(r, doc) /\ UNCHANGED <<tasks, secondary>>)
      BY <2>2 DEF MarkQueued, Throws
    <3>5. updateEmail(r, doc) => Writer(r)
      BY <3>1 DEF Writer
    <3> HIDE DEF doc
    <3> QED BY <3>2, <3>3, <3>4, <3>5 DEF Rewrites
  <2>3. CASE Deliver(r) \/ FindExisting(r) \/ FindRaced(r) \/ Enqueue(r)
    BY <2>3 DEF Deliver, Receive, FindExisting, FindRaced, Enqueue, Throws, storeVars
  <2> QED BY <1>1, <2>1, <2>2, <2>3 DEF Handle, HandleRequest
<1>2. ASSUME NEW s \in Slot, Attempt(s)
      PROVE  UNCHANGED emails \/ \E id \in Request : Rewrites(id)
  <2>1. CASE Process(s)
    <3>1. slots[s].pc # "idle"
      BY <2>1 DEF Process, Load, MarkProcessing, Resolve, MarkUnmatched, SetTenant, Classify,
             StoreRaw, MarkSkipped, FindTask, CreateTask, MarkActionable, MarkFailed, At
    <3> QED BY <2>1, <3>1, ProcessRewrites, SlotFacts
  <2>2. CASE Complete(s) \/ Fail(s)
    BY <2>2 DEF Complete, Fail, storeVars
  <2> QED BY <1>2, <2>1, <2>2 DEF Attempt
<1>3. ASSUME NEW k \in JobId, React(k)
      PROVE  UNCHANGED emails \/ \E id \in Request : Rewrites(id)
  <2>1. CASE LoadFailed(k)
    BY <2>1 DEF LoadFailed, Throws, storeVars
  <2>2. CASE MarkExhausted(k)
    <3> DEFINE id  == jobs[k].emailMessageId
               doc == withStatus(id, "FAILED")
    <3>1. jobs[k] # Null
      BY <2>2 DEF MarkExhausted, IInv, HandlerOK
    <3>2. id \in Request /\ emails[id] # Null
      BY <3>1 DEF IInv, JobOK, TypeOK, QueueTypeOK, Job
    <3>3. emails[id] \in EmailMessage
      BY <3>2 DEF IInv, TypeOK, StoreTypeOK
    <3>4. /\ doc \in EmailMessage /\ doc.to = emails[id].to
          /\ doc.providerMessageId = emails[id].providerMessageId
      BY <3>3, StatusUpdate DEF EmailMessageStatus
    <3>5. UNCHANGED emails \/ (updateEmail(id, doc) /\ UNCHANGED <<tasks, secondary>>)
      BY <2>2 DEF MarkExhausted, Throws
    <3>6. Writer(id)
      BY <2>2 DEF MarkExhausted, Writer
    <3> HIDE DEF doc, id
    <3> QED BY <3>2, <3>4, <3>5, <3>6 DEF Rewrites
  <2> QED BY <1>3, <2>1, <2>2 DEF React, OnFailed
<1>4. CASE Fetch
  BY <1>4 DEF Fetch, Take, FailStalled, storeVars
<1>5. ASSUME NEW k \in JobId, Recover(k) \/ Expire(k) PROVE UNCHANGED emails
  BY <1>5 DEF Recover, Expire, storeVars
<1>6. CASE CatchUp \/ Crash \/ Administer \/ Quiescent \/ UNCHANGED vars
  BY <1>6 DEF CatchUp, Replicate, Crash, Administer, MoveUsers, Quiescent, vars, storeVars
<1> QED BY <1>1, <1>2, <1>3, <1>4, <1>5, <1>6 DEF Next, Work

\* Documents stay, for the same message and recipient, and a new one comes only
\* by an insert under the id of its delivery.
LEMMA DocumentsStay ==
  ASSUME IInv, [Next]_vars, NEW id \in Request, emails[id] # Null
  PROVE  /\ emails'[id] # Null
         /\ emails'[id].providerMessageId = emails[id].providerMessageId
         /\ emails'[id].to = emails[id].to
<1>1. emails \in [Request -> EmailMessage \cup {Null}]
  BY DEF IInv, TypeOK, StoreTypeOK
<1>2. ASSUME NEW r \in Request, Inserts(r) PROVE emails'[id] = emails[id]
  <2>1. r # id
    BY <1>2 DEF Inserts, IInv, DeliveryOK
  <2> QED BY <1>1, <1>2, <2>1 DEF Inserts, createEmail
<1>3. ASSUME NEW r \in Request, Rewrites(r)
      PROVE  /\ emails'[id] # Null
             /\ emails'[id].providerMessageId = emails[id].providerMessageId
             /\ emails'[id].to = emails[id].to
  <2>1. PICK doc \in EmailMessage :
          /\ emails' = [emails EXCEPT ![r] = doc]
          /\ doc.providerMessageId = emails[r].providerMessageId
          /\ doc.to = emails[r].to
    BY <1>3 DEF Rewrites, updateEmail
  <2>2. doc # Null
    BY NullAssumption DEF NullAssumption
  <2> QED BY <1>1, <2>1, <2>2
<1> QED BY <1>2, <1>3, EmailSteps

\* With the unique index, a message keeps to one document.
LEMMA OneDocumentKept ==
  ASSUME UniqueIndexes, IInv, OneDocument, [Next]_vars
  PROVE  OneDocument'
<1> SUFFICES ASSUME NEW a \in Request, NEW b \in Request,
                    emails'[a] # Null, emails'[b] # Null,
                    emails'[a].providerMessageId = emails'[b].providerMessageId
             PROVE  a = b
  BY DEF OneDocument
<1>1. emails \in [Request -> EmailMessage \cup {Null}]
  BY DEF IInv, TypeOK, StoreTypeOK
<1>2. CASE \E r \in Request : Inserts(r)
  <2>1. PICK r \in Request : Inserts(r)
    BY <1>2
  <2>2. /\ emails' = [emails EXCEPT ![r] = receivedEmail(messageOf(r), requests[r].to)]
        /\ \A id \in Request : emails[id] # Null => emails[id].providerMessageId # messageOf(r)
    BY <2>1 DEF Inserts, createEmail, DuplicateMessageKey
  <2>3. emails'[r].providerMessageId = messageOf(r)
    BY <1>1, <2>2 DEF receivedEmail
  <2>4. /\ a # r => emails'[a] = emails[a]
        /\ b # r => emails'[b] = emails[b]
    BY <1>1, <2>2
  <2> QED BY <2>2, <2>3, <2>4 DEF OneDocument
<1>3. CASE ~\E r \in Request : Inserts(r)
  <2>1. \A id \in Request : emails'[id] # Null => emails[id] # Null
    <3>1. ASSUME NEW r \in Request, Rewrites(r), NEW id \in Request, emails'[id] # Null
          PROVE  emails[id] # Null
      BY <1>1, <3>1 DEF Rewrites, updateEmail
    <3> QED BY <1>3, <3>1, EmailSteps
  <2>2. emails[a] # Null /\ emails[b] # Null
    BY <2>1
  <2>3. emails[a].providerMessageId = emails[b].providerMessageId
    BY <2>2, DocumentsStay
  <2> QED BY <2>2, <2>3 DEF OneDocument
<1> QED BY <1>2, <1>3

\* The secondary shows what the collection held, and documents stay.
LEMMA SecondaryKept ==
  ASSUME IInv, SecondaryFollows, [Next]_vars
  PROVE  SecondaryFollows'
<1>1. CASE UNCHANGED secondary
  BY <1>1, DocumentsStay DEF SecondaryFollows
<1>2. CASE CatchUp
  BY <1>2 DEF CatchUp, Replicate, SecondaryFollows
<1>3. UNCHANGED secondary \/ CatchUp
  <2>1. ASSUME NEW r \in Request, Deliver(r) \/ Handle(r) PROVE UNCHANGED secondary
    BY <2>1 DEF Deliver, Receive, Handle, HandleRequest, FindExisting, CreateEmail, FindRaced,
                Enqueue, MarkQueued, Throws, storeVars
  <2>2. ASSUME NEW s \in Slot, Attempt(s) PROVE UNCHANGED secondary
    <3>1. CASE Complete(s) \/ Fail(s)
      BY <3>1 DEF Complete, Fail, storeVars
    <3>2. ASSUME NEW doc, NEW next, Update(s, doc, next) \/ Read(s, next)
          PROVE  UNCHANGED secondary
      BY <3>2 DEF Update, Read, Throws, storeVars
    <3>3. CASE CreateTask(s)
      BY <3>3 DEF CreateTask, Throws, storeVars
    <3>4. CASE Process(s) /\ ~CreateTask(s)
      BY <3>2, <3>4 DEF Process, Load, MarkProcessing, Resolve, MarkUnmatched, SetTenant,
           Classify, StoreRaw, MarkSkipped, FindTask, MarkActionable, MarkFailed
    <3> QED BY <2>2, <3>1, <3>3, <3>4 DEF Attempt
  <2>3. ASSUME NEW k \in JobId, React(k) \/ Recover(k) \/ Expire(k) PROVE UNCHANGED secondary
    BY <2>3 DEF React, OnFailed, LoadFailed, MarkExhausted, Recover, Expire, Throws, storeVars
  <2>4. CASE Fetch \/ Crash \/ Administer \/ Quiescent \/ UNCHANGED vars
    BY <2>4 DEF Fetch, Take, FailStalled, Crash, Administer, MoveUsers, Quiescent, vars, storeVars
  <2> QED BY <2>1, <2>2, <2>3, <2>4 DEF Next, Work
<1> QED BY <1>1, <1>2, <1>3

-------------------------------------------------------------------------------
(* What a step does to the deliveries. *)

\* A delivery keeps its message and the id it answered with, arrives, or answers
\* with an id that it looked up or that is its own.
DeliverySteps(r, new) ==
  \/ /\ new.providerMessageId = messageOf(r)
     /\ requests[r].pc # "unsent" => new.pc # "unsent"
     /\ \/ new.id = requests[r].id
        \/ new.pc # "unsent" /\ new.id \in findByProviderMessageId(messageOf(r)) \cup {Null}
        \/ requests[r].pc \in {"enqueue", "markQueued"} /\ new.id = r /\ new.pc = "answered"
  \/ requests[r].pc = "unsent" /\ new.pc = "findExisting" /\ new.id = requests[r].id

\* It gets to write QUEUED only from the call that found or added its job.
EnqueueComesFirst(r, new) ==
  new.pc = "markQueued" =>
    /\ new.providerMessageId = messageOf(r)
    /\ UNCHANGED emails \/ requests[r].pc = "markQueued"
    /\ \/ requests[r].pc = "markQueued"
       \/ /\ requests[r].pc = "enqueue"
          /\ jobs'[toEmailProcessingJobId(messageOf(r))] # Null

\* A step of the handler of one delivery.
LEMMA HandlerSteps ==
  ASSUME IInv, NEW r \in Request, Deliver(r) \/ Handle(r)
  PROVE  /\ \A q \in Request : q # r => requests'[q] = requests[q]
         /\ DeliverySteps(r, requests'[r])
         /\ EnqueueComesFirst(r, requests'[r])
<1>1. requests \in [Request -> Delivery] /\ requests[r] \in Delivery
  BY DEF IInv, TypeOK, InboundTypeOK
<1>2. ASSUME NEW status, NEW id, Answer(r, status, id), requests[r].pc # "unsent",
             \/ id \in findByProviderMessageId(messageOf(r)) \cup {Null}
             \/ id = r /\ requests[r].pc \in {"enqueue", "markQueued"}
      PROVE  /\ \A q \in Request : q # r => requests'[q] = requests[q]
             /\ DeliverySteps(r, requests'[r])
             /\ EnqueueComesFirst(r, requests'[r])
  <2>1. /\ requests'[r].pc = "answered" /\ requests'[r].id = id
        /\ requests'[r].providerMessageId = messageOf(r)
        /\ \A q \in Request : q # r => requests'[q] = requests[q]
    BY <1>1, <1>2 DEF Answer, Delivery, messageOf
  <2> QED BY <1>2, <2>1 DEF DeliverySteps, EnqueueComesFirst
<1>3. ASSUME NEW pc \in HandlerStep, Goto(r, pc), requests[r].pc # "unsent",
             pc = "markQueued" => /\ requests[r].pc = "enqueue" /\ UNCHANGED emails
                                  /\ jobs'[toEmailProcessingJobId(messageOf(r))] # Null
      PROVE  /\ \A q \in Request : q # r => requests'[q] = requests[q]
             /\ DeliverySteps(r, requests'[r])
             /\ EnqueueComesFirst(r, requests'[r])
  <2>1. /\ requests'[r].pc = pc /\ requests'[r].id = requests[r].id
        /\ requests'[r].providerMessageId = messageOf(r)
        /\ \A q \in Request : q # r => requests'[q] = requests[q]
    BY <1>1, <1>3 DEF Goto, Delivery, messageOf
  <2>2. pc # "unsent"
    BY <1>3 DEF HandlerStep
  <2> QED BY <1>3, <2>1, <2>2 DEF DeliverySteps, EnqueueComesFirst
<1>4. CASE Deliver(r)
  <2>1. /\ requests[r].pc = "unsent" /\ requests'[r].pc = "findExisting"
        /\ requests'[r].id = requests[r].id
        /\ \A q \in Request : q # r => requests'[q] = requests[q]
    <3>1. PICK m \in MessageId, a \in Address :
            requests' = [requests EXCEPT ![r].pc = "findExisting",
                                         ![r].providerMessageId = m, ![r].to = a]
      BY <1>4 DEF Deliver, Receive
    <3>2. requests' = [requests EXCEPT ![r] =
                         [requests[r] EXCEPT !.pc = "findExisting",
                                             !.providerMessageId = m, !.to = a]]
      BY <3>1
    <3>3. requests[r].pc = "unsent"
      BY <1>4 DEF Deliver, Receive, Handling
    <3> QED BY <1>1, <3>2, <3>3 DEF Delivery
  <2> QED BY <2>1 DEF DeliverySteps, EnqueueComesFirst
<1>5. CASE FindExisting(r) \/ FindRaced(r)
  <2>1. requests[r].pc # "unsent"
    BY <1>5 DEF FindExisting, FindRaced, Handling
  <2>2. "createEmail" \in HandlerStep
    BY DEF HandlerStep
  <2> QED BY <1>2, <1>3, <1>5, <2>1, <2>2 DEF FindExisting, FindRaced
<1>6. CASE CreateEmail(r)
  <2>1. requests[r].pc # "unsent"
    BY <1>6 DEF CreateEmail, Handling
  <2>2. {"findRaced", "enqueue"} \subseteq HandlerStep
    BY DEF HandlerStep
  <2> QED BY <1>2, <1>3, <1>6, <2>1, <2>2 DEF CreateEmail
<1>7. CASE Enqueue(r)
  <2>1. requests[r].pc = "enqueue" /\ UNCHANGED emails
    BY <1>7 DEF Enqueue, Handling
  <2>2. CASE Goto(r, "markQueued") /\ AddJob(toEmailProcessingJobId(messageOf(r)), r)
    <3> DEFINE k == toEmailProcessingJobId(messageOf(r))
    <3>1. k \in JobId /\ jobs \in [JobId -> Job \cup {Null}]
      BY <2>1 DEF IInv, DeliveryOK, JobId, messageOf, TypeOK, QueueTypeOK
    <3>2. jobs'[k] # Null
      <4> DEFINE job == [state |-> "waiting", emailMessageId |-> r, attemptsMade |-> 0,
                         stalled |-> 0, lock |-> Null]
      <4>1. job \in Job
        BY DEF Job
      <4>2. job # Null
        BY <4>1, NullJobAssumption DEF NullJobAssumption
      <4>3. jobs' = IF jobs[k] = Null THEN [jobs EXCEPT ![k] = job] ELSE jobs
        BY <2>2 DEF AddJob
      <4> HIDE DEF job, k
      <4> QED BY <3>1, <4>2, <4>3
    <3>3. "markQueued" \in HandlerStep
      BY DEF HandlerStep
    <3> QED BY <1>3, <2>1, <2>2, <3>2, <3>3
  <2>3. CASE Answer(r, "internal_error", r)
    BY <1>2, <2>1, <2>3
  <2> QED BY <1>7, <2>2, <2>3 DEF Enqueue
<1>8. CASE MarkQueued(r)
  <2>1. requests[r].pc = "markQueued"
    BY <1>8 DEF MarkQueued, Handling
  <2> QED BY <1>2, <1>8, <2>1 DEF MarkQueued
<1> QED BY <1>4, <1>5, <1>6, <1>7, <1>8 DEF Handle, HandleRequest

\* What every step does to every delivery.
LEMMA RequestSteps ==
  ASSUME IInv, [Next]_vars, NEW r \in Request
  PROVE  DeliverySteps(r, requests'[r]) /\ EnqueueComesFirst(r, requests'[r])
<1>1. requests[r] \in Delivery
  BY DEF IInv, TypeOK, InboundTypeOK
<1>2. CASE requests'[r] = requests[r] /\ requests[r].pc # "markQueued"
  BY <1>2 DEF DeliverySteps, EnqueueComesFirst, messageOf
<1>3. CASE requests'[r] = requests[r] /\ requests[r].pc = "markQueued"
  BY <1>3 DEF DeliverySteps, EnqueueComesFirst, messageOf
<1>4. ASSUME NEW q \in Request, Deliver(q) \/ Handle(q)
      PROVE  \/ requests'[r] = requests[r]
             \/ DeliverySteps(r, requests'[r]) /\ EnqueueComesFirst(r, requests'[r])
  BY <1>4, HandlerSteps
<1>5. CASE Crash
  <2>1. \/ requests'[r] = requests[r]
        \/ /\ requests'[r] = [requests[r] EXCEPT !.pc = "dropped"]
           /\ requests[r].pc \in HandlerStep
    BY <1>5 DEF Crash, DropRequests
  <2>2. CASE requests'[r] = [requests[r] EXCEPT !.pc = "dropped"]
    BY <1>1, <2>2 DEF DeliverySteps, EnqueueComesFirst, messageOf, Delivery
  <2> QED BY <1>2, <1>3, <2>1, <2>2
<1>6. ASSUME NEW s \in Slot, Attempt(s) PROVE requests'[r] = requests[r]
  BY <1>6 DEF Attempt
<1>7. ASSUME NEW k \in JobId, React(k) \/ Recover(k) \/ Expire(k)
      PROVE  requests'[r] = requests[r]
  BY <1>7 DEF React, Recover, Expire
<1>8. Fetch \/ CatchUp \/ Administer \/ Quiescent \/ UNCHANGED vars
        => requests'[r] = requests[r]
  BY DEF Fetch, CatchUp, Administer, Quiescent, vars
<1>9. requests'[r] = requests[r]
        => DeliverySteps(r, requests'[r]) /\ EnqueueComesFirst(r, requests'[r])
  BY <1>2, <1>3
<1> QED BY <1>4, <1>5, <1>6, <1>7, <1>8, <1>9 DEF Next, Work

\* An id that was looked up is that of a document of the message.
LEMMA LookupFinds ==
  ASSUME SecondaryFollows, NEW m, NEW id \in findByProviderMessageId(m)
  PROVE  id \in Request /\ emails[id] # Null /\ emails[id].providerMessageId = m
<1>1. /\ id \in Request /\ visibleEmails[id] # Null
      /\ visibleEmails[id].providerMessageId = m
  BY DEF findByProviderMessageId
<1>2. CASE HasSecondary
  BY <1>1, <1>2 DEF SecondaryFollows, visibleEmails
<1>3. CASE ~HasSecondary
  BY <1>1, <1>3 DEF visibleEmails
<1> QED BY <1>2, <1>3

\* Answers go on naming documents of their own message.
LEMMA AnswersKept ==
  ASSUME IInv, SecondaryFollows, AnswersNameDocuments, [Next]_vars
  PROVE  AnswersNameDocuments'
<1> SUFFICES ASSUME NEW r \in Request, NEW id \in Request, requests'[r].id = id, id # Null
             PROVE  /\ requests'[r].pc # "unsent"
                    /\ emails'[id] # Null
                    /\ emails'[id].providerMessageId = requests'[r].providerMessageId
  BY DEF AnswersNameDocuments, messageOf
<1>1. DeliverySteps(r, requests'[r])
  BY RequestSteps
<1>2. CASE requests'[r].id = requests[r].id
  <2>1. /\ requests[r].pc # "unsent" /\ emails[id] # Null
        /\ emails[id].providerMessageId = messageOf(r)
    BY <1>2 DEF AnswersNameDocuments
  <2>2. requests'[r].providerMessageId = messageOf(r) /\ requests'[r].pc # "unsent"
    BY <1>1, <2>1 DEF DeliverySteps
  <2> QED BY <2>1, <2>2, DocumentsStay
<1>3. CASE /\ requests'[r].id \in findByProviderMessageId(messageOf(r)) \cup {Null}
           /\ requests'[r].pc # "unsent" /\ requests'[r].providerMessageId = messageOf(r)
  BY <1>3, LookupFinds, DocumentsStay
<1>4. CASE /\ requests[r].pc \in {"enqueue", "markQueued"} /\ requests'[r].id = r
           /\ requests'[r].pc = "answered" /\ requests'[r].providerMessageId = messageOf(r)
  <2>1. emails[r] # Null /\ emails[r].providerMessageId = messageOf(r)
    BY <1>4 DEF IInv, DeliveryOK, messageOf
  <2> QED BY <1>4, <2>1, DocumentsStay
<1> QED BY <1>1, <1>2, <1>3, <1>4 DEF DeliverySteps

-------------------------------------------------------------------------------
(* Jobs come first. *)

\* Who rewrites a document knows that a job names it.
LEMMA WriterIsNamed ==
  ASSUME IInv, NEW id \in Request, Writer(id)
  PROVE  requests[id].pc = "markQueued" \/ Named(id)
<1>1. ASSUME NEW s \in Slot, slots[s].pc \in Writing, emailIdOf(s) = id PROVE Named(id)
  <2>1. slots[s].job \in JobId /\ jobs[slots[s].job] # Null
    BY <1>1, SlotFacts, NullJobAssumption DEF NullJobAssumption, Writing
  <2> QED BY <1>1, <2>1 DEF Named, emailIdOf
<1>2. ASSUME NEW k \in JobId, handlers[k] = "mark", jobs[k].emailMessageId = id
      PROVE  Named(id)
  BY <1>2 DEF Named, IInv, HandlerOK
<1> QED BY <1>1, <1>2 DEF Writer

\* A document that a job names goes on being named.
LEMMA NamedStays ==
  ASSUME JobsGrow(jobs, jobs'), NEW id \in Request, Named(id)
  PROVE  Named(id)'
  BY DEF Named, JobsGrow

\* No step takes a job away or gives it to another document.
LEMMA JobsStay ==
  ASSUME IInv, [Next]_vars
  PROVE  JobsGrow(jobs, jobs')
<1>1. jobs \in [JobId -> Job \cup {Null}]
  BY DEF IInv, TypeOK, QueueTypeOK
<1>2. CASE UNCHANGED jobs
  BY <1>2, GrowReflexive
<1>3. ASSUME NEW r \in Request, Handle(r) PROVE JobsGrow(jobs, jobs')
  <2>1. CASE Enqueue(r) /\ jobs' # jobs
    <3> DEFINE k   == toEmailProcessingJobId(messageOf(r))
               job == [state |-> "waiting", emailMessageId |-> r, attemptsMade |-> 0,
                       stalled |-> 0, lock |-> Null]
    <3>1. jobs[k] = Null /\ jobs' = [jobs EXCEPT ![k] = job]
      BY <2>1 DEF Enqueue, AddJob
    <3> HIDE DEF k, job
    <3> QED BY <1>1, <3>1 DEF JobsGrow
  <2>2. CASE FindExisting(r) \/ CreateEmail(r) \/ FindRaced(r) \/ MarkQueued(r)
    BY <1>2, <2>2 DEF FindExisting, CreateEmail, FindRaced, MarkQueued, queueVars
  <2> QED BY <1>2, <1>3, <2>1, <2>2 DEF Handle, HandleRequest
<1>4. ASSUME NEW s \in Slot, Attempt(s) PROVE JobsGrow(jobs, jobs')
  <2>1. CASE Process(s)
    <3>1. ASSUME NEW doc, NEW next, Update(s, doc, next) \/ Read(s, next)
          PROVE  UNCHANGED jobs
      BY <3>1 DEF Update, Read, queueVars
    <3>2. CreateTask(s) => UNCHANGED jobs
      BY DEF CreateTask, queueVars
    <3>3. ~CreateTask(s) => UNCHANGED jobs
      BY <2>1, <3>1 DEF Process, Load, MarkProcessing, Resolve, MarkUnmatched, SetTenant,
           Classify, StoreRaw, MarkSkipped, FindTask, MarkActionable, MarkFailed
    <3> QED BY <1>2, <3>2, <3>3
  <2>2. CASE Complete(s) \/ Fail(s)
    <3>1. slots[s].job \in JobId /\ jobs[slots[s].job] # Null
      BY <2>2, SlotFacts, NullJobAssumption DEF Complete, Fail, At, NullJobAssumption
    <3> QED BY <1>1, <1>2, <2>2, <3>1, JobOperation DEF Complete, Fail
  <2> QED BY <1>2, <1>4, <2>1, <2>2 DEF Attempt
<1>5. CASE Fetch
  <2>1. ASSUME NEW k \in JobId, (\E s \in Slot : LockJob(s, k)) \/ FailStalledJob(k)
        PROVE  JobsGrow(jobs, jobs')
    <3>1. jobs[k] # Null
      BY <2>1 DEF LockJob, FailStalledJob, InState
    <3> QED BY <1>1, <2>1, <3>1, JobOperation
  <2> QED BY <1>5, <2>1 DEF Fetch, Take, FailStalled
<1>6. ASSUME NEW k \in JobId, Recover(k) \/ Expire(k) PROVE JobsGrow(jobs, jobs')
  <2>1. jobs[k] # Null
    BY <1>6 DEF Recover, Expire, RecoverStalledJob, LoseLock, HoldsLock, InState
  <2> QED BY <1>1, <1>6, <2>1, JobOperation DEF Recover, Expire
<1>7. CASE Crash
  <2>1. ASSUME NEW k \in JobId, jobs[k] # Null
        PROVE  jobs'[k] # Null /\ jobs'[k].emailMessageId = jobs[k].emailMessageId
    <3>1. jobs'[k] = jobs[k] \/ jobs'[k] = [jobs[k] EXCEPT !.lock = Null]
      BY <1>7 DEF Crash, ReleaseLocks
    <3>2. jobs[k] \in Job
      BY <1>1, <2>1
    <3>3. /\ [jobs[k] EXCEPT !.lock = Null] \in Job
          /\ [jobs[k] EXCEPT !.lock = Null].emailMessageId = jobs[k].emailMessageId
      BY <3>2 DEF Job
    <3> QED BY <2>1, <3>1, <3>3, NullJobAssumption DEF NullJobAssumption
  <2> QED BY <2>1 DEF JobsGrow
<1>8. ASSUME \/ \E r \in Request : Deliver(r)
             \/ \E k \in JobId : React(k)
             \/ CatchUp \/ Administer \/ Quiescent \/ UNCHANGED vars
      PROVE  JobsGrow(jobs, jobs')
  BY <1>2, <1>8 DEF Deliver, Receive, React, OnFailed, LoadFailed, MarkExhausted, CatchUp, Administer,
         MoveUsers, Quiescent, vars, queueVars
<1> QED BY <1>3, <1>4, <1>5, <1>6, <1>7, <1>8 DEF Next, Work

\* With one document per message and one message per job id, the job under the
\* id that a document's message gives is the document's.
LEMMA JobOfDocument ==
  ASSUME DistinctJobIds, OneDocument, NEW id \in Request, NEW job \in Job,
         emails \in [Request -> EmailMessage \cup {Null}], emails[id] # Null,
         JobOK(toEmailProcessingJobId(emails[id].providerMessageId), job, emails)
  PROVE  job.emailMessageId = id
<1> DEFINE other == job.emailMessageId
<1>1. job # Null /\ other \in Request
  BY NullJobAssumption DEF NullJobAssumption, Job
<1>2. /\ emails[other] # Null
      /\ toEmailProcessingJobId(emails[other].providerMessageId)
           = toEmailProcessingJobId(emails[id].providerMessageId)
  BY <1>1 DEF JobOK
<1>3. /\ emails[id].providerMessageId \in MessageId
      /\ emails[other].providerMessageId \in MessageId
  BY <1>1, <1>2 DEF EmailMessage
<1>4. emails[other].providerMessageId = emails[id].providerMessageId
  BY <1>2, <1>3 DEF DistinctJobIds
<1> QED BY <1>1, <1>2, <1>4 DEF OneDocument

\* Whoever may write a status goes on having found the document's job.
LEMMA JobsComeFirstKept ==
  ASSUME UniqueIndexes, DistinctJobIds, IInv, OneDocument, JobsComeFirst, [Next]_vars
  PROVE  JobsComeFirst'
<1>1. IInv' /\ OneDocument' /\ JobsGrow(jobs, jobs')
  BY NextKeeps, OneDocumentKept, JobsStay
<1>2. emails \in [Request -> EmailMessage \cup {Null}]
  BY DEF IInv, TypeOK, StoreTypeOK
<1> SUFFICES ASSUME NEW id \in Request,
                    \/ emails'[id] # Null /\ emails'[id].status # "RECEIVED"
                    \/ requests'[id].pc = "markQueued"
             PROVE  Named(id)'
  BY DEF JobsComeFirst
<1>3. CASE Named(id)
  BY <1>1, <1>3, NamedStays
<1>4. CASE requests'[id].pc = "markQueued" /\ requests[id].pc # "markQueued"
  <2> DEFINE k == toEmailProcessingJobId(messageOf(id))
  <2>1. /\ requests[id].pc = "enqueue" /\ UNCHANGED emails /\ jobs'[k] # Null
    BY <1>4, RequestSteps DEF EnqueueComesFirst
  <2>2. /\ emails[id] # Null /\ emails[id].providerMessageId = messageOf(id)
        /\ emails[id] \in EmailMessage
    BY <1>2, <2>1 DEF IInv, DeliveryOK, messageOf
  <2>3. k \in JobId
    BY <2>2 DEF JobId, EmailMessage
  <2>4. jobs'[k] \in Job /\ JobOK(k, jobs'[k], emails')
    BY <1>1, <2>1, <2>3 DEF IInv, TypeOK, QueueTypeOK
  <2>5. jobs'[k].emailMessageId = id
    BY <1>2, <2>1, <2>2, <2>4, JobOfDocument
  <2> QED BY <2>1, <2>3, <2>5 DEF Named
<1>5. CASE emails'[id] # Null /\ emails'[id].status # "RECEIVED" /\ ~Named(id)
  <2>0. ~(emails[id] # Null /\ emails[id].status # "RECEIVED") /\ requests[id].pc # "markQueued"
    BY <1>5 DEF JobsComeFirst
  <2>1. CASE UNCHANGED emails
    BY <1>5, <2>0, <2>1
  <2>2. ASSUME NEW r \in Request, Inserts(r) PROVE FALSE
    <3>1. emails' = [emails EXCEPT ![r] = receivedEmail(messageOf(r), requests[r].to)]
      BY <2>2 DEF Inserts, createEmail
    <3>2. receivedEmail(messageOf(r), requests[r].to).status = "RECEIVED"
      BY DEF receivedEmail
    <3> QED BY <1>2, <1>5, <2>0, <3>1, <3>2
  <2>3. ASSUME NEW r \in Request, Rewrites(r) PROVE FALSE
    <3>1. Named(r)
      BY <2>3, WriterIsNamed DEF Rewrites, JobsComeFirst
    <3>2. emails'[id] = emails[id]
      BY <1>2, <1>5, <2>3, <3>1 DEF Rewrites, updateEmail
    <3> QED BY <1>5, <2>0, <3>2
  <2> QED BY <2>1, <2>2, <2>3, EmailSteps
<1>6. CASE requests[id].pc = "markQueued"
  BY <1>3, <1>6 DEF JobsComeFirst
<1> QED BY <1>3, <1>4, <1>5, <1>6

-------------------------------------------------------------------------------
(* One task per message. *)

\* A slot inserts the task of its job's document, which has none of this company.
AddsTask(s) ==
  /\ slots[s].pc = "createTask"
  /\ ~DuplicateTaskKey(slots[s].tenant, emailIdOf(s))
  /\ createTask(slots[s].tenant, emailIdOf(s))
  /\ UNCHANGED emails

\* A step of an attempt leaves the tasks alone or inserts its own.
LEMMA AttemptTasks ==
  ASSUME NEW s \in Slot, Process(s)
  PROVE  UNCHANGED tasks \/ AddsTask(s)
<1>1. ASSUME NEW doc, NEW next, Update(s, doc, next) \/ Read(s, next)
      PROVE  UNCHANGED tasks
  BY <1>1 DEF Update, Read, Throws, storeVars
<1>2. CASE CreateTask(s)
  BY <1>2 DEF CreateTask, Throws, storeVars, AddsTask, At
<1>3. CASE ~CreateTask(s)
  BY <1>1, <1>3 DEF Process, Load, MarkProcessing, Resolve, MarkUnmatched, SetTenant,
       Classify, StoreRaw, MarkSkipped, FindTask, MarkActionable, MarkFailed
<1> QED BY <1>2, <1>3

\* A step leaves the tasks alone or inserts one.
LEMMA TaskSteps ==
  ASSUME IInv, [Next]_vars
  PROVE  UNCHANGED tasks \/ \E s \in Slot : AddsTask(s)
<1>1. ASSUME NEW r \in Request, Deliver(r) \/ Handle(r) PROVE UNCHANGED tasks
  BY <1>1 DEF Deliver, Receive, Handle, HandleRequest, FindExisting, CreateEmail, FindRaced,
              Enqueue, MarkQueued, Throws, storeVars
<1>2. ASSUME NEW s \in Slot, Attempt(s) PROVE UNCHANGED tasks \/ AddsTask(s)
  <2>1. CASE Complete(s) \/ Fail(s)
    BY <2>1 DEF Complete, Fail, storeVars
  <2> QED BY <1>2, <2>1, AttemptTasks DEF Attempt
<1>3. ASSUME NEW k \in JobId, React(k) \/ Recover(k) \/ Expire(k) PROVE UNCHANGED tasks
  BY <1>3 DEF React, OnFailed, LoadFailed, MarkExhausted, Recover, Expire, Throws, storeVars
<1>4. CASE Fetch \/ CatchUp \/ Crash \/ Administer \/ Quiescent \/ UNCHANGED vars
  BY <1>4 DEF Fetch, Take, FailStalled, CatchUp, Replicate, Crash, Administer, MoveUsers,
              Quiescent, vars, storeVars
<1> QED BY <1>1, <1>2, <1>3, <1>4 DEF Next, Work

\* What the inserted task is, and that it is the only one that is new.
LEMMA AddedTask ==
  ASSUME IInv, NEW s \in Slot, AddsTask(s)
  PROVE  LET new == Len(tasks) + 1
         IN  /\ DOMAIN tasks' = DOMAIN tasks \cup {new}
             /\ \A i \in DOMAIN tasks : tasks'[i] = tasks[i]
             /\ tasks'[new] = [companyId |-> slots[s].tenant,
                               sourceEmailMessageId |-> emailIdOf(s)]
             /\ emailIdOf(s) \in Request /\ slots[s].job \in JobId
             /\ slots[s].tenant \in Company
<1>1. tasks \in Seq(Task)
  BY DEF IInv, TypeOK, StoreTypeOK
<1>2. /\ emailIdOf(s) \in Request /\ slots[s].job \in JobId
      /\ slots[s].tenant \in Company
  BY SlotFacts DEF AddsTask, IInv, SlotOK, Resolved
<1>3. [companyId |-> slots[s].tenant, sourceEmailMessageId |-> emailIdOf(s)] \in Task
  BY <1>2 DEF Task
<1> QED BY <1>1, <1>2, <1>3 DEF AddsTask, createTask

\* With the unique index, no two tasks are of one company and one document.
LEMMA TaskKeysKept ==
  ASSUME UniqueIndexes, IInv, OneTaskPerKey, [Next]_vars
  PROVE  OneTaskPerKey'
<1>1. CASE UNCHANGED tasks
  BY <1>1 DEF OneTaskPerKey
<1>2. ASSUME NEW s \in Slot, AddsTask(s) PROVE OneTaskPerKey'
  <2> DEFINE new == Len(tasks) + 1
  <2>1. \A i \in DOMAIN tasks : \/ tasks[i].companyId # slots[s].tenant
                                \/ tasks[i].sourceEmailMessageId # emailIdOf(s)
    BY <1>2 DEF AddsTask, DuplicateTaskKey
  <2>2. /\ DOMAIN tasks' = DOMAIN tasks \cup {new}
        /\ \A i \in DOMAIN tasks : tasks'[i] = tasks[i]
        /\ tasks'[new] = [companyId |-> slots[s].tenant,
                          sourceEmailMessageId |-> emailIdOf(s)]
    BY <1>2, AddedTask
  <2> HIDE DEF new
  <2>3. \A i \in DOMAIN tasks : tasks'[i] # tasks'[new]
    BY <2>1, <2>2
  <2> QED BY <2>2, <2>3 DEF OneTaskPerKey
<1> QED BY <1>1, <1>2, TaskSteps

\* Neither the webhook nor the worker changes the directory.
LEMMA WorkKeepsDirectory ==
  ASSUME Work
  PROVE  UNCHANGED <<directory, moves>>
<1>1. ASSUME NEW r \in Request, Deliver(r) \/ Handle(r) PROVE UNCHANGED <<directory, moves>>
  BY <1>1 DEF Deliver, Handle, workerVars
<1>2. ASSUME NEW s \in Slot, Attempt(s) PROVE UNCHANGED <<directory, moves>>
  <2>1. CASE Complete(s) \/ Fail(s)
    BY <2>1 DEF Complete, Fail
  <2>2. ASSUME NEW doc, NEW next, Update(s, doc, next) \/ Read(s, next)
        PROVE  UNCHANGED <<directory, moves>>
    BY <2>2 DEF Update, Read
  <2>3. CASE CreateTask(s)
    BY <2>3 DEF CreateTask
  <2>4. CASE Process(s) /\ ~CreateTask(s)
    BY <2>2, <2>4 DEF Process, Load, MarkProcessing, Resolve, MarkUnmatched, SetTenant,
         Classify, StoreRaw, MarkSkipped, FindTask, MarkActionable, MarkFailed
  <2> QED BY <1>2, <2>1, <2>3, <2>4 DEF Attempt
<1>3. ASSUME NEW k \in JobId, React(k) \/ Recover(k) \/ Expire(k)
      PROVE  UNCHANGED <<directory, moves>>
  BY <1>3 DEF React, OnFailed, LoadFailed, MarkExhausted, Recover, Expire, workerVars
<1>4. CASE Fetch \/ CatchUp \/ Crash
  BY <1>4 DEF Fetch, Take, FailStalled, CatchUp, Crash, workerVars
<1> QED BY <1>1, <1>2, <1>3, <1>4 DEF Work

\* The directory changes only in a move, which is counted.
LEMMA MovesAreCounted ==
  ASSUME IInv, [Next]_vars, moves' = 0
  PROVE  moves = 0 /\ UNCHANGED directory
<1>1. moves \in Nat
  BY DirectoryAssumption DEF IInv, TypeOK, WorkerTypeOK, DirectoryAssumption
<1>2. CASE Administer
  BY <1>1, <1>2 DEF Administer, MoveUsers
<1>3. CASE Quiescent \/ UNCHANGED vars
  BY <1>3 DEF Quiescent, vars, workerVars
<1> QED BY <1>2, <1>3, WorkKeepsDirectory DEF Next

\* A slot that has a tenant had it before or has just read it off the directory,
\* for the same job.
LEMMA TenantSteps ==
  ASSUME IInv, [Next]_vars, NEW s \in Slot, slots'[s].pc \in Resolved
  PROVE  /\ slots[s].pc # "idle" /\ slots'[s].job = slots[s].job
         /\ \/ slots[s].pc \in Resolved /\ slots'[s].tenant = slots[s].tenant
            \/ slots'[s].tenant = directory[emails[emailIdOf(s)].to]
<1>1. slots \in [Slot -> SlotState] /\ slots[s] \in SlotState
  BY DEF IInv, TypeOK, WorkerTypeOK
<1>2. "idle" \notin Resolved /\ "load" \notin Resolved /\ "throw" \notin Resolved
  BY DEF Resolved
<1>3. CASE slots'[s] = slots[s]
  BY <1>2, <1>3
<1>4. CASE slots'[s] = idleSlot
  BY <1>2, <1>4 DEF idleSlot
<1>5. CASE Process(s)
  <2>1. slots[s].pc # "idle"
    BY <1>5 DEF Process, Load, MarkProcessing, Resolve, MarkUnmatched, SetTenant, Classify,
           StoreRaw, MarkSkipped, FindTask, CreateTask, MarkActionable, MarkFailed, At
  <2>2. ASSUME NEW pc, Step(s, pc), slots[s].pc \in Resolved \/ pc \notin Resolved
        PROVE  /\ slots'[s].job = slots[s].job
               /\ slots[s].pc \in Resolved /\ slots'[s].tenant = slots[s].tenant
    BY <1>1, <2>2 DEF Step, SlotState
  <2>3. CASE Resolve(s)
    <3> DEFINE tenant == directory[emails[emailIdOf(s)].to]
               pc     == IF tenant = Null THEN "markUnmatched" ELSE "setTenant"
    <3>1. \/ slots' = [slots EXCEPT ![s] = [slots[s] EXCEPT !.tenant = tenant, !.pc = pc]]
          \/ Step(s, "throw")
      BY <2>3 DEF Resolve, Read
    <3>2. CASE slots' = [slots EXCEPT ![s] = [slots[s] EXCEPT !.tenant = tenant, !.pc = pc]]
      BY <1>1, <2>1, <3>2 DEF SlotState
    <3> QED BY <1>2, <2>1, <2>2, <3>1, <3>2
  <2>4. CASE Load(s) \/ MarkProcessing(s) \/ MarkUnmatched(s)
    <3>1. PICK pc \in {"return", "markProcessing", "resolve", "throw"} :
            Step(s, pc) \/ slots' = [slots EXCEPT ![s] = [slots[s] EXCEPT !.pc = pc]]
      BY <2>4 DEF Load, MarkProcessing, MarkUnmatched, Read, Update
    <3>2. Step(s, pc)
      BY <1>1, <3>1 DEF Step
    <3>3. pc \notin Resolved
      BY DEF Resolved
    <3> QED BY <2>1, <2>2, <3>2, <3>3
  <2>5. CASE /\ slots[s].pc \in Resolved
             /\ \E new : /\ slots' = [slots EXCEPT ![s] = new]
                         /\ new.job = slots[s].job /\ new.tenant = slots[s].tenant
    BY <1>1, <2>1, <2>5
  <2>6. ASSUME NEW pc, Step(s, pc)
        PROVE  \E new : /\ slots' = [slots EXCEPT ![s] = new]
                        /\ new.job = slots[s].job /\ new.tenant = slots[s].tenant
    <3>1. slots' = [slots EXCEPT ![s] = [slots[s] EXCEPT !.pc = pc]]
      BY <1>1, <2>6 DEF Step
    <3>2. /\ [slots[s] EXCEPT !.pc = pc].job = slots[s].job
          /\ [slots[s] EXCEPT !.pc = pc].tenant = slots[s].tenant
      BY <1>1 DEF SlotState
    <3> QED BY <3>1, <3>2
  <2>7. CASE Classify(s) \/ FindTask(s) \/ CreateTask(s)
    <3>1. slots[s].pc \in Resolved
      BY <2>7 DEF Classify, FindTask, CreateTask, At, Resolved
    <3>2. CASE \E pc : Step(s, pc)
      BY <2>5, <2>6, <3>1, <3>2
    <3>3. CASE \E pc, v : slots' = [slots EXCEPT ![s] =
                                      [slots[s] EXCEPT !.verdict = v, !.pc = pc]]
      <4>1. PICK pc, v : slots' = [slots EXCEPT ![s] =
                                     [slots[s] EXCEPT !.verdict = v, !.pc = pc]]
        BY <3>3
      <4>2. /\ [slots[s] EXCEPT !.verdict = v, !.pc = pc].job = slots[s].job
            /\ [slots[s] EXCEPT !.verdict = v, !.pc = pc].tenant = slots[s].tenant
        BY <1>1 DEF SlotState
      <4> QED BY <2>5, <3>1, <4>1, <4>2
    <3>4. CASE \E pc : slots' = [slots EXCEPT ![s] = [slots[s] EXCEPT !.pc = pc]]
      BY <1>1, <3>2, <3>4 DEF Step
    <3>5. CASE slots' = [slots EXCEPT ![s].pc = "markActionable", ![s].task = Len(tasks')]
      <4>1. slots' = [slots EXCEPT ![s] = [slots[s] EXCEPT !.pc = "markActionable",
                                                           !.task = Len(tasks')]]
        BY <1>1, <3>5
      <4>2. LET new == [slots[s] EXCEPT !.pc = "markActionable", !.task = Len(tasks')]
            IN  new.job = slots[s].job /\ new.tenant = slots[s].tenant
        BY <1>1 DEF SlotState
      <4> QED BY <2>5, <3>1, <4>1, <4>2
    <3> QED BY <2>7, <3>2, <3>3, <3>4, <3>5 DEF Classify, FindTask, CreateTask, Read
  <2>8. CASE SetTenant(s) \/ StoreRaw(s) \/ MarkSkipped(s) \/ MarkActionable(s) \/ MarkFailed(s)
    <3>1. slots[s].pc \in Resolved
      BY <2>8 DEF SetTenant, StoreRaw, MarkSkipped, MarkActionable, MarkFailed, At, Resolved
    <3>2. \E pc : Step(s, pc)
      BY <2>8 DEF SetTenant, StoreRaw, MarkSkipped, MarkActionable, MarkFailed, Update
    <3> QED BY <2>5, <2>6, <3>1, <3>2
  <2> QED BY <1>5, <2>3, <2>4, <2>7, <2>8 DEF Process
<1>6. ASSUME NEW t \in Slot, Attempt(t)
      PROVE  slots'[s] = slots[s] \/ slots'[s] = idleSlot \/ Process(s)
  <2>1. CASE Complete(t) \/ Fail(t)
    BY <1>1, <2>1 DEF Complete, Fail
  <2>2. CASE Process(t) /\ t # s
    <3>1. ASSUME NEW doc, NEW next, Update(t, doc, next) \/ Read(t, next)
          PROVE  slots'[s] = slots[s]
      BY <1>1, <2>2, <3>1 DEF Update, Read, Step
    <3>2. CreateTask(t) => slots'[s] = slots[s]
      BY <1>1, <2>2 DEF CreateTask, Step
    <3> QED BY <2>2, <3>1, <3>2 DEF Process, Load, MarkProcessing, Resolve, MarkUnmatched,
              SetTenant, Classify, StoreRaw, MarkSkipped, FindTask, MarkActionable, MarkFailed
  <2> QED BY <1>6, <2>1, <2>2 DEF Attempt
<1>7. ASSUME Fetch PROVE slots'[s] = slots[s] \/ slots'[s].pc = "load"
  BY <1>1, <1>7 DEF Fetch, Take, FailStalled, idleSlot
<1>8. ASSUME NEW r \in Request, Deliver(r) \/ Handle(r) PROVE slots'[s] = slots[s]
  BY <1>8 DEF Deliver, Handle, workerVars
<1>9. ASSUME NEW k \in JobId, React(k) \/ Recover(k) \/ Expire(k) PROVE slots'[s] = slots[s]
  BY <1>9 DEF React, OnFailed, LoadFailed, MarkExhausted, Recover, Expire, workerVars
<1>10. ASSUME CatchUp \/ Administer \/ Quiescent \/ UNCHANGED vars PROVE slots'[s] = slots[s]
  BY <1>10 DEF CatchUp, Administer, MoveUsers, Quiescent, vars, workerVars
<1>11. Crash => slots'[s] = idleSlot
  BY DEF Crash, DropAttempts
<1> QED BY <1>2, <1>3, <1>4, <1>5, <1>6, <1>7, <1>8, <1>9, <1>10, <1>11 DEF Next, Work

\* Until the first move the directory gives every slot the company it resolved.
LEMMA SlotsFollowKept ==
  ASSUME IInv, SlotsFollowDirectory, [Next]_vars
  PROVE  SlotsFollowDirectory'
<1> SUFFICES ASSUME moves' = 0, NEW s \in Slot, NEW k \in JobId, NEW id \in Request,
                    slots'[s].pc \in Resolved, slots'[s].job = k,
                    jobs'[k].emailMessageId = id
             PROVE  slots'[s].tenant = directory'[emails'[id].to]
  BY DEF SlotsFollowDirectory
<1>1. moves = 0 /\ UNCHANGED directory
  BY MovesAreCounted
<1>2. /\ slots[s].pc # "idle" /\ slots[s].job = k
      /\ \/ slots[s].pc \in Resolved /\ slots'[s].tenant = slots[s].tenant
         \/ slots'[s].tenant = directory[emails[emailIdOf(s)].to]
  BY TenantSteps
<1>3. emails[emailIdOf(s)] # Null /\ jobs[k] # Null
  BY <1>2, SlotFacts, NullJobAssumption DEF NullJobAssumption
<1>4. jobs[k].emailMessageId = id
  BY <1>3, JobsStay DEF JobsGrow
<1>5. emailIdOf(s) = id
  BY <1>2, <1>4 DEF emailIdOf
<1>6. emails'[id].to = emails[id].to
  BY <1>3, <1>5, DocumentsStay
<1>7. slots'[s].tenant = directory[emails[id].to]
  <2>1. CASE slots[s].pc \in Resolved /\ slots'[s].tenant = slots[s].tenant
    BY <1>1, <1>2, <1>4, <2>1 DEF SlotsFollowDirectory
  <2>2. CASE slots'[s].tenant = directory[emails[emailIdOf(s)].to]
    BY <1>5, <2>2
  <2> QED BY <1>2, <2>1, <2>2
<1> QED BY <1>1, <1>6, <1>7

\* ... and every task the company it was made for.
LEMMA TasksFollowKept ==
  ASSUME IInv, SlotsFollowDirectory, TasksFollowDirectory, [Next]_vars
  PROVE  TasksFollowDirectory'
<1> SUFFICES ASSUME moves' = 0, NEW i \in DOMAIN tasks', NEW id \in Request,
                    tasks'[i].sourceEmailMessageId = id
             PROVE  tasks'[i].companyId = directory'[emails'[id].to]
  BY DEF TasksFollowDirectory
<1>1. moves = 0 /\ UNCHANGED directory
  BY MovesAreCounted
<1>2. CASE i \in DOMAIN tasks /\ tasks'[i] = tasks[i]
  <2>1. emails[id] # Null
    BY <1>2 DEF IInv, TaskOK
  <2>2. tasks[i].companyId = directory[emails[id].to]
    BY <1>1, <1>2 DEF TasksFollowDirectory
  <2> QED BY <1>1, <1>2, <2>1, <2>2, DocumentsStay
<1>3. ASSUME NEW s \in Slot, AddsTask(s), i \notin DOMAIN tasks
      PROVE  tasks'[i].companyId = directory'[emails'[id].to]
  <2>1. /\ tasks'[i] = [companyId |-> slots[s].tenant, sourceEmailMessageId |-> emailIdOf(s)]
        /\ slots[s].job \in JobId
    BY <1>3, AddedTask
  <2>2. slots[s].pc \in Resolved /\ UNCHANGED emails
    BY <1>3 DEF AddsTask, Resolved
  <2>3. tasks'[i].companyId = slots[s].tenant /\ emailIdOf(s) = id
    BY <2>1
  <2>4. slots[s].tenant = directory[emails[id].to]
    BY <1>1, <2>1, <2>2, <2>3 DEF SlotsFollowDirectory, emailIdOf
  <2> QED BY <1>1, <2>2, <2>3, <2>4
<1>4. ASSUME NEW s \in Slot, AddsTask(s), i \in DOMAIN tasks PROVE tasks'[i] = tasks[i]
  BY <1>4, AddedTask
<1> QED BY <1>2, <1>3, <1>4, TaskSteps

-------------------------------------------------------------------------------
(* The invariants, and what they give for every value of the constants. *)

OnceInv ==
  /\ IInv
  /\ OneDocument
  /\ SecondaryFollows
  /\ AnswersNameDocuments
  /\ OneTaskPerKey
  /\ SlotsFollowDirectory
  /\ TasksFollowDirectory

\* With the unique indexes, all of it is invariant.
LEMMA OnceHolds ==
  ASSUME UniqueIndexes
  PROVE  Spec => []OnceInv
<1>1. Init => OnceInv
  <2> SUFFICES ASSUME Init PROVE OnceInv
    OBVIOUS
  <2>1. /\ \A id \in Request : emails[id] = Null /\ secondary.emails[id] = Null
        /\ \A r \in Request : requests[r].id = Null
        /\ DOMAIN tasks = {}
    BY DEF Init, StoreInit, InboundInit
  <2>2. \A s \in Slot : slots[s].pc \notin Resolved
    BY DEF Init, WorkerInit, idleSlot, Resolved
  <2>3. OneDocument /\ SecondaryFollows /\ AnswersNameDocuments
    BY <2>1 DEF OneDocument, SecondaryFollows, AnswersNameDocuments
  <2>4. OneTaskPerKey /\ TasksFollowDirectory
    BY <2>1 DEF OneTaskPerKey, TasksFollowDirectory
  <2>5. SlotsFollowDirectory
    BY <2>2 DEF SlotsFollowDirectory
  <2> QED BY <2>3, <2>4, <2>5, InitEstablishes DEF OnceInv
<1>2. OnceInv /\ [Next]_vars => OnceInv'
  BY NextKeeps, OneDocumentKept, SecondaryKept, AnswersKept, TaskKeysKept, SlotsFollowKept,
     TasksFollowKept DEF OnceInv
<1> QED BY <1>1, <1>2, PTL DEF Spec

\* However deliveries of one message interleave, crash or fail and whatever reads
\* are stale, every answer that names a document names the same one, as long as
\* the unique index on providerMessageId exists (receiveInbound).
THEOREM AnswersAgree ==
  ASSUME UniqueIndexes
  PROVE  Spec => []SameMessageSameId
<1>1. OnceInv => SameMessageSameId
  <2> SUFFICES ASSUME OnceInv, NEW r1 \in Request, NEW r2 \in Request,
                      messageOf(r1) = messageOf(r2),
                      requests[r1].id # Null, requests[r2].id # Null
               PROVE  requests[r1].id = requests[r2].id
    BY DEF SameMessageSameId
  <2>1. requests[r1].id \in Request /\ requests[r2].id \in Request
    BY DEF OnceInv, IInv, TypeOK, InboundTypeOK, Delivery
  <2> QED BY <2>1 DEF OnceInv, AnswersNameDocuments, OneDocument
<1> QED BY <1>1, OnceHolds, PTL

\* As long as recipients stay where they are, one message makes at most one task,
\* with any number of deliveries, attempts that overlap, faults, crashes and
\* stale reads; by the two unique indexes alone (createFromExtraction).
THEOREM OneMessageOneTask ==
  ASSUME UniqueIndexes
  PROVE  Spec => []OneTaskPerMessage
<1>1. OnceInv => OneTaskPerMessage
  <2> SUFFICES ASSUME OnceInv, NEW i \in DOMAIN tasks, NEW j \in DOMAIN tasks, moves = 0,
                      emails[tasks[i].sourceEmailMessageId].providerMessageId =
                        emails[tasks[j].sourceEmailMessageId].providerMessageId
               PROVE  i = j
    BY DEF OneTaskPerMessage
  <2>1. tasks[i] \in Task /\ tasks[j] \in Task
    BY DEF OnceInv, IInv, TypeOK, StoreTypeOK
  <2>2. /\ tasks[i].sourceEmailMessageId \in Request
        /\ tasks[j].sourceEmailMessageId \in Request
    BY <2>1 DEF Task
  <2>3. tasks[i].sourceEmailMessageId = tasks[j].sourceEmailMessageId
    BY <2>2 DEF OnceInv, IInv, TaskOK, OneDocument
  <2>4. tasks[i].companyId = tasks[j].companyId
    BY <2>2, <2>3 DEF OnceInv, TasksFollowDirectory
  <2>5. tasks[i] = tasks[j]
    BY <2>1, <2>3, <2>4 DEF Task
  <2> QED BY <2>5 DEF OnceInv, OneTaskPerKey
<1> QED BY <1>1, OnceHolds, PTL

\* No crash, error or race leaves an email beyond RECEIVED without a job for this
\* very document, as long as the index exists and messages differ in their job ids.
THEOREM JobsBehindEmails ==
  ASSUME UniqueIndexes, DistinctJobIds
  PROVE  Spec => []LeftReceivedHasJob
<1>1. Init => JobsComeFirst
  BY DEF Init, StoreInit, InboundInit, JobsComeFirst
<1>2. OnceInv /\ JobsComeFirst /\ [Next]_vars => JobsComeFirst'
  BY JobsComeFirstKept DEF OnceInv
<1>3. OnceInv /\ JobsComeFirst => LeftReceivedHasJob
  <2> SUFFICES ASSUME OnceInv, JobsComeFirst, NEW id \in Request,
                      emails[id] # Null, emails[id].status # "RECEIVED"
               PROVE  jobOf(id) # Null /\ jobOf(id).emailMessageId = id
    BY DEF LeftReceivedHasJob
  <2>1. PICK k \in JobId : jobs[k] # Null /\ jobs[k].emailMessageId = id
    BY DEF JobsComeFirst, Named
  <2>2. toEmailProcessingJobId(emails[id].providerMessageId) = k
    BY <2>1 DEF OnceInv, IInv, JobOK
  <2> QED BY <2>1, <2>2 DEF jobOf
<1> QED BY <1>1, <1>2, <1>3, OnceHolds, PTL DEF Spec

-------------------------------------------------------------------------------
(* The emails without a job. *)

\* The provider was not told that the document is queued, and will not be.
Reported(delivery) ==
  \/ delivery.pc \in {"enqueue", "dropped"}
  \/ delivery.pc = "answered" /\ delivery.answer = "internal_error"

UnqueuedAreReported ==
  \A id \in Request : emails[id] # Null => Named(id) \/ Reported(requests[id])

\* The delivery that inserted a document either gets its job added or reports that
\* it could not, unless it dies with the process.
LEMMA UnqueuedReportedKept ==
  ASSUME UniqueIndexes, DistinctJobIds, IInv, OneDocument, UnqueuedAreReported, [Next]_vars
  PROVE  UnqueuedAreReported'
<1>1. IInv' /\ OneDocument' /\ JobsGrow(jobs, jobs')
  BY NextKeeps, OneDocumentKept, JobsStay
<1>2. /\ emails \in [Request -> EmailMessage \cup {Null}] /\ InboundTypeOK
      /\ requests \in [Request -> Delivery]
  BY DEF IInv, TypeOK, StoreTypeOK, InboundTypeOK
<1> SUFFICES ASSUME NEW id \in Request, emails'[id] # Null, ~Named(id)'
             PROVE  Reported(requests'[id])
  BY DEF UnqueuedAreReported
<1>3. ~Named(id)
  BY <1>1, NamedStays
<1>4. emails[id] # Null => Reported(requests[id])
  BY <1>3 DEF UnqueuedAreReported
<1>5. CASE requests'[id] = requests[id] /\ emails[id] # Null
  BY <1>4, <1>5
<1>6. ASSUME NEW r \in Request, Deliver(r) \/ Handle(r)
      PROVE  \/ requests'[id] = requests[id] /\ emails[id] # Null
             \/ Reported(requests'[id])
  <2>1. \A status \in InboundEmailResultStatus, e \in Request \cup {Null} :
          Answer(id, status, e) => requests'[id].pc = "answered" /\ requests'[id].answer = status
    BY <1>2 DEF Answer, Delivery
  <2>2. \A pc : Goto(id, pc) => requests'[id].pc = pc
    BY <1>2 DEF Goto, Delivery
  <2>3. CASE r # id
    <3>1. requests'[id] = requests[id]
      BY <1>6, <2>3, HandlerSteps
    <3>2. emails[id] # Null
      BY <1>2, <1>6, <2>3 DEF Deliver, Receive, Handle, HandleRequest, FindExisting, CreateEmail,
             createEmail, FindRaced, Enqueue, MarkQueued, updateEmail, Throws, storeVars
    <3> QED BY <3>1, <3>2
  <2>4. CASE r = id /\ CreateEmail(id)
    <3>1. emails[id] = Null
      BY <2>4 DEF CreateEmail, Handling, IInv, DeliveryOK
    <3>2. Goto(id, "enqueue") \/ Answer(id, "internal_error", Null)
      BY <2>4, <3>1 DEF CreateEmail, Throws, storeVars
    <3> QED BY <2>1, <2>2, <3>2 DEF Reported, InboundEmailResultStatus
  <2>5. CASE r = id /\ Enqueue(id)
    <3>1. CASE Answer(id, "internal_error", id)
      BY <2>1, <3>1 DEF Reported, InboundEmailResultStatus
    <3>2. CASE AddJob(toEmailProcessingJobId(messageOf(id)), id)
      <4>1. PICK k \in JobId : k = toEmailProcessingJobId(emails[id].providerMessageId)
        BY <1>2, <2>5 DEF Enqueue, Handling, IInv, DeliveryOK, JobId, EmailMessage
      <4>2. /\ emails[id] # Null /\ UNCHANGED emails
            /\ emails[id].providerMessageId = messageOf(id)
        BY <2>5 DEF Enqueue, Handling, IInv, DeliveryOK, messageOf
      <4>3. jobs'[k] # Null
        <5>1. jobs \in [JobId -> Job \cup {Null}]
          BY DEF IInv, TypeOK, QueueTypeOK
        <5>2. CASE jobs[k] = Null
          <6> DEFINE job == [state |-> "waiting", emailMessageId |-> id, attemptsMade |-> 0,
                             stalled |-> 0, lock |-> Null]
          <6>1. jobs'[k] = job
            BY <3>2, <4>1, <4>2, <5>1, <5>2 DEF AddJob
          <6>2. job \in Job
            BY DEF Job
          <6> QED BY <6>1, <6>2, NullJobAssumption DEF NullJobAssumption
        <5>3. CASE jobs[k] # Null
          BY <1>1, <5>3 DEF JobsGrow
        <5> QED BY <5>2, <5>3
      <4>4. jobs'[k] \in Job /\ JobOK(k, jobs'[k], emails')
        BY <1>1, <4>3 DEF IInv, TypeOK, QueueTypeOK
      <4>5. jobs'[k].emailMessageId = id
        BY <1>2, <4>1, <4>2, <4>4, JobOfDocument
      <4>6. Named(id)'
        BY <4>3, <4>5 DEF Named
      <4> QED BY <4>6
    <3> QED BY <2>5, <3>1, <3>2 DEF Enqueue
  <2>6. CASE r = id /\ ~CreateEmail(id) /\ ~Enqueue(id)
    <3>1. requests[id].pc \in {"unsent", "findExisting", "findRaced", "markQueued"}
      BY <1>6, <2>6 DEF Deliver, Receive, Handle, HandleRequest, FindExisting, FindRaced,
                        MarkQueued, Handling
    <3>2. ~Reported(requests[id])
      BY <3>1 DEF Reported
    <3>3. emails[id] = Null
      BY <1>4, <3>2
    <3>4. requests[id].pc # "markQueued" /\ UNCHANGED emails
      BY <1>6, <2>6, <3>1, <3>3
         DEF IInv, DeliveryOK, Deliver, Receive, Handle, HandleRequest, FindExisting, FindRaced,
             MarkQueued, Handling, Throws, storeVars
    <3> QED BY <3>3, <3>4
  <2> QED BY <2>3, <2>4, <2>5, <2>6
<1>7. CASE requests'[id] = requests[id]
  <2>1. CASE emails[id] = Null
    <3>1. PICK r \in Request : Inserts(r) \/ Rewrites(r)
      BY <2>1, EmailSteps
    <3>2. CASE Rewrites(r)
      BY <1>2, <2>1, <3>2 DEF Rewrites, updateEmail
    <3>3. CASE Inserts(r)
      <4>1. r = id /\ requests[id].pc = "createEmail"
        BY <1>2, <2>1, <3>3 DEF Inserts, createEmail
      <4> QED BY <1>1, <1>7, <4>1 DEF IInv, DeliveryOK
    <3> QED BY <3>1, <3>2, <3>3
  <2> QED BY <1>5, <1>7, <2>1
<1>8. CASE Crash
  <2>1. requests'[id] = requests[id] \/ requests'[id] = [requests[id] EXCEPT !.pc = "dropped"]
    BY <1>8 DEF Crash, DropRequests
  <2>2. requests'[id] = requests[id] \/ requests'[id].pc = "dropped"
    BY <1>2, <2>1 DEF Delivery
  <2> QED BY <1>7, <2>2 DEF Reported
<1>9. \/ \E r \in Request : Deliver(r) \/ Handle(r)
      \/ Crash
      \/ requests'[id] = requests[id]
  BY DEF Next, Work, Fetch, Attempt, React, Recover, Expire, CatchUp, Administer, Quiescent, vars
<1> QED BY <1>5, <1>6, <1>7, <1>8, <1>9

\* No crash, error or race strands a stored email without its job while the provider
\* was told that it is queued: its delivery is about to add the job, died, or was
\* answered internal_error, as long as the index exists and messages differ in their
\* job ids (the enqueue of receiveInbound).
THEOREM UnqueuedEmailsAreReported ==
  ASSUME UniqueIndexes, DistinctJobIds
  PROVE  Spec => []UnqueuedEmailIsReported
<1>1. Init => UnqueuedAreReported
  BY DEF Init, StoreInit, UnqueuedAreReported
<1>2. OnceInv /\ UnqueuedAreReported /\ [Next]_vars => UnqueuedAreReported'
  BY UnqueuedReportedKept DEF OnceInv
<1>3. OnceInv /\ UnqueuedAreReported => UnqueuedEmailIsReported
  <2> SUFFICES ASSUME OnceInv, UnqueuedAreReported, NEW id \in Request, emails[id] # Null,
                      jobOf(id) = Null \/ jobOf(id).emailMessageId # id
               PROVE  \/ requests[id].pc \in {"enqueue", "dropped"}
                      \/ requests[id].answer = "internal_error"
    BY DEF UnqueuedEmailIsReported
  <2>1. ~Named(id)
    BY DEF OnceInv, IInv, JobOK, Named, jobOf
  <2> QED BY <2>1 DEF UnqueuedAreReported, Reported
<1> QED BY <1>1, <1>2, <1>3, OnceHolds, PTL DEF Spec

===============================================================================
