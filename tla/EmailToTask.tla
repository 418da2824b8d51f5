------------------------------ MODULE EmailToTask ------------------------------
(***************************************************************************)
(* What the service promises of each provider message, whatever is         *)
(* delivered twice, retried, crashed or raced: it is stored once, queued   *)
(* once after it was stored, and turned into at most one task, only while  *)
(* its job is under way and only on an actionable verdict that is already  *)
(* on record; a queued message is eventually done with.                    *)
(***************************************************************************)
CONSTANTS MessageId, EmailId, TaskId, Verdict, NoVerdict

VARIABLES stored,    \* the documents that hold a message
          queued,    \* the messages that have had a job
          verdict,   \* the verdict on record
          created,   \* the tasks made from a message
          settled    \* the messages whose job has finished

vars == <<stored, queued, verdict, created, settled>>

Init ==
  /\ stored = [m \in MessageId |-> {}]
  /\ queued = {}
  /\ verdict = [m \in MessageId |-> NoVerdict]
  /\ created = [m \in MessageId |-> {}]
  /\ settled = {}

Store(m) ==
  /\ stored[m] = {}
  /\ \E id \in EmailId : stored' = [stored EXCEPT ![m] = {id}]
  /\ UNCHANGED <<queued, verdict, created, settled>>

Enqueue(m) ==
  /\ stored[m] # {}
  /\ m \notin queued
  /\ queued' = queued \cup {m}
  /\ UNCHANGED <<stored, verdict, created, settled>>

\* An attempt records its verdict; a later attempt may record another one.
Classify(m) ==
  /\ m \in queued \ settled
  /\ \E v \in Verdict : verdict' = [verdict EXCEPT ![m] = v]
  /\ UNCHANGED <<stored, queued, created, settled>>

CreateTask(m) ==
  /\ m \in queued \ settled
  /\ verdict[m] = "actionable"
  /\ created[m] = {}
  /\ \E t \in TaskId : created' = [created EXCEPT ![m] = {t}]
  /\ UNCHANGED <<stored, queued, verdict, settled>>

Settle(m) ==
  /\ m \in queued \ settled
  /\ settled' = settled \cup {m}
  /\ UNCHANGED <<stored, queued, verdict, created>>

Next ==
  \E m \in MessageId :
    Store(m) \/ Enqueue(m) \/ Classify(m) \/ CreateTask(m) \/ Settle(m)

Spec == Init /\ [][Next]_vars

\* A queued message does not stay queued for ever.
FairSpec == Spec /\ \A m \in MessageId : WF_vars(Settle(m))

===============================================================================
