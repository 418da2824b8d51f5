----------------------------- MODULE InboundEmail -----------------------------
(***************************************************************************)
(* POST /email/inbound/webhook: InboundEmailService.receiveInbound.        *)
(*                                                                         *)
(* Every delivery runs the handler once.  Each await of the handler is a   *)
(* step of its own, so deliveries of the same message interleave between   *)
(* the pre-check, the insert, the enqueue and the write of QUEUED.         *)
(*                                                                         *)
(* requests[r].pc is the next call the handler makes; answer and id are    *)
(* data.status and data.id of the 202 response.                            *)
(***************************************************************************)
EXTENDS JobQueue

VARIABLE requests

InboundEmailResultStatus ==
  {"queued", "already_exists", "race_condition", "internal_error"}

HandlerStep == {"findExisting", "createEmail", "findRaced", "enqueue", "markQueued"}

Delivery ==
  [pc                : HandlerStep \cup {"unsent", "answered", "dropped"},
   providerMessageId : MessageId \cup {Null},
   to                : Address \cup {Null},
   answer            : InboundEmailResultStatus \cup {Null},
   id                : Request \cup {Null}]

InboundInit ==
  requests = [r \in Request |->
                [pc |-> "unsent", providerMessageId |-> Null, to |-> Null,
                 answer |-> Null, id |-> Null]]

messageOf(r) == requests[r].providerMessageId

-------------------------------------------------------------------------------

Handling(r, pc) == requests[r].pc = pc

Goto(r, pc) == requests' = [requests EXCEPT ![r].pc = pc]

Answer(r, status, id) ==
  requests' = [requests EXCEPT ![r].pc = "answered",
                               ![r].answer = status,
                               ![r].id = id]

\* The provider delivers a message, or delivers it again.
Receive(r) ==
  /\ Handling(r, "unsent")
  /\ \E m \in MessageId, a \in Address :
       requests' = [requests EXCEPT ![r].pc = "findExisting",
                                    ![r].providerMessageId = m,
                                    ![r].to = a]
  /\ UNCHANGED <<storeVars, queueVars>>

\* The pre-check; an error reaches the catch of receiveInbound.
FindExisting(r) ==
  /\ Handling(r, "findExisting")
  /\ \/ /\ \E id \in findByProviderMessageId(messageOf(r)) :
             Answer(r, "already_exists", id)
        /\ UNCHANGED storeVars
     \/ /\ findByProviderMessageId(messageOf(r)) = {}
        /\ Goto(r, "createEmail")
        /\ UNCHANGED storeVars
     \/ Throws /\ Answer(r, "internal_error", Null)
  /\ UNCHANGED queueVars

\* The insert: refused by the unique index, applied (the answer may be lost
\* on the way back), or failed.
CreateEmail(r) ==
  /\ Handling(r, "createEmail")
  /\ \/ /\ DuplicateMessageKey(messageOf(r))
        /\ Goto(r, "findRaced")
        /\ UNCHANGED storeVars
     \/ /\ ~DuplicateMessageKey(messageOf(r))
        /\ createEmail(r, messageOf(r), requests[r].to)
        /\ \/ Outcome(TRUE)  /\ Goto(r, "enqueue")
           \/ Outcome(FALSE) /\ Answer(r, "internal_error", Null)
        /\ UNCHANGED <<tasks, secondary>>
     \/ Throws /\ Answer(r, "internal_error", Null)
  /\ UNCHANGED queueVars

\* Mutant: the insert is tried again for ever.
FindRacedRetries(r) ==
  /\ Handling(r, "findRaced")
  /\ Goto(r, "createEmail")
  /\ UNCHANGED <<storeVars, queueVars>>

\* After a duplicate key error: look up the document that won the race.
FindRaced(r) ==
  /\ Handling(r, "findRaced")
  /\ \/ /\ \E id \in findByProviderMessageId(messageOf(r)) :
             Answer(r, "race_condition", id)
        /\ UNCHANGED storeVars
     \/ /\ findByProviderMessageId(messageOf(r)) = {}
        /\ Answer(r, "internal_error", Null)
        /\ UNCHANGED storeVars
     \/ Throws /\ Answer(r, "internal_error", Null)
  /\ UNCHANGED queueVars

\* Mutant: the error of queue.add is swallowed.
EnqueueSwallowsErrors(r) ==
  /\ Handling(r, "enqueue")
  /\ \/ AddJob(toEmailProcessingJobId(messageOf(r)), r) /\ Outcome(TRUE)
     \/ Outcome(FALSE) /\ UNCHANGED jobs
  /\ Goto(r, "markQueued")
  /\ UNCHANGED <<emails, tasks, secondary, lockLosses>>

\* queue.add; a Redis error may come after the job was added.
Enqueue(r) ==
  /\ Handling(r, "enqueue")
  /\ \/ /\ AddJob(toEmailProcessingJobId(messageOf(r)), r)
        /\ \/ Outcome(TRUE)  /\ Goto(r, "markQueued")
           \/ Outcome(FALSE) /\ Answer(r, "internal_error", r)
     \/ /\ Outcome(FALSE)
        /\ Answer(r, "internal_error", r)
        /\ UNCHANGED jobs
  /\ UNCHANGED <<emails, tasks, secondary, lockLosses>>

\* The write of QUEUED, which a worker may already have overtaken.
MarkQueued(r) ==
  /\ Handling(r, "markQueued")
  /\ \/ /\ updateEmail(r, withStatus(r, "QUEUED"))
        /\ \/ Outcome(TRUE)  /\ Answer(r, "queued", r)
           \/ Outcome(FALSE) /\ Answer(r, "internal_error", r)
        /\ UNCHANGED <<tasks, secondary>>
     \/ Throws /\ Answer(r, "internal_error", r)
  /\ UNCHANGED queueVars

HandleRequest(r) ==
  \/ FindExisting(r) \/ CreateEmail(r) \/ FindRaced(r)
  \/ Enqueue(r)      \/ MarkQueued(r)

\* The process dies: handlers under way never answer.
DropRequests ==
  requests' = [r \in Request |-> IF requests[r].pc \in HandlerStep
                                 THEN [requests[r] EXCEPT !.pc = "dropped"]
                                 ELSE requests[r]]

InboundTypeOK == requests \in [Request -> Delivery]

===============================================================================
