------------------------------- MODULE JobQueue -------------------------------
(***************************************************************************)
(* The BullMQ queue "email-processing" kept in Redis, an external service  *)
(* modelled from how the producer (InboundEmailService) and the consumer   *)
(* (EmailProcessingProcessor) use it.                                      *)
(*                                                                         *)
(* jobs:       one record per job id; a finished job keeps its id, since   *)
(*             the code sets neither removeOnComplete nor removeOnFail.    *)
(*             A job that waits for its backoff is "waiting": only the     *)
(*             delay is abstracted.  lock is the worker slot whose lock on *)
(*             an active job is still valid.                               *)
(* lockLosses: how many locks have expired under a slot that still runs.   *)
(***************************************************************************)
EXTENDS EmailStore, EmailProcessingConstants

CONSTANTS Slot,             \* the worker's concurrent slots
          JobAttempts,      \* the option attempts of a job
          MaxStalledCount,  \* BullMQ's maxStalledCount, 1 by default
          MaxLockLosses     \* bound on the locks lost by running slots

ASSUME QueueAssumption ==
  /\ JobAttempts \in Nat \ {0}
  /\ MaxStalledCount \in Nat
  /\ MaxLockLosses \in Nat
  /\ Null \notin Slot

VARIABLES jobs, lockLosses

queueVars == <<jobs, lockLosses>>

JobId == {toEmailProcessingJobId(m) : m \in MessageId}

Job == [state          : {"waiting", "active", "completed", "failed"},
        emailMessageId : Request,
        attemptsMade   : Nat,
        stalled        : Nat,
        lock           : Slot \cup {Null}]

ASSUME NullJobAssumption == Null \notin JobId /\ Null \notin Job

QueueInit ==
  /\ jobs = [k \in JobId |-> Null]
  /\ lockLosses = 0

-------------------------------------------------------------------------------

InState(k, state) == jobs[k] # Null /\ jobs[k].state = state

HoldsLock(s, k) == InState(k, "active") /\ jobs[k].lock = s

\* queue.add with a custom jobId: a job id that exists is left as it is.
AddJob(k, id) ==
  jobs' = IF jobs[k] = Null
          THEN [jobs EXCEPT ![k] = [state |-> "waiting", emailMessageId |-> id,
                                    attemptsMade |-> 0, stalled |-> 0,
                                    lock |-> Null]]
          ELSE jobs

StalledTooOften(k) == jobs[k].stalled > MaxStalledCount

LockJob(s, k) ==
  /\ InState(k, "waiting")
  /\ ~StalledTooOften(k)
  /\ jobs' = [jobs EXCEPT ![k].state = "active", ![k].lock = s]

CompleteJob(k) ==
  jobs' = [jobs EXCEPT ![k].state = "completed", ![k].lock = Null]

\* moveToFailed counts the attempt; the job waits again unless it was the last.
FailJob(k) ==
  jobs' = [jobs EXCEPT
             ![k].attemptsMade = @ + 1,
             ![k].lock = Null,
             ![k].state = IF jobs[k].attemptsMade + 1 < JobAttempts
                          THEN "waiting" ELSE "failed"]

\* A job that stalled too often fails for good when it is next fetched.
FailStalledJob(k) ==
  /\ InState(k, "waiting")
  /\ StalledTooOften(k)
  /\ jobs' = [jobs EXCEPT ![k].attemptsMade = @ + 1, ![k].state = "failed"]

\* The stalled check returns an active job that nobody locks to the queue.
RecoverStalledJob(k) ==
  /\ HoldsLock(Null, k)
  /\ jobs' = [jobs EXCEPT ![k].state = "waiting", ![k].stalled = @ + 1]
  /\ UNCHANGED lockLosses

\* A slot loses its lock (renewals did not reach Redis) but keeps running.
LoseLock(k) ==
  /\ InState(k, "active")
  /\ jobs[k].lock # Null
  /\ lockLosses < MaxLockLosses
  /\ jobs' = [jobs EXCEPT ![k].lock = Null]
  /\ lockLosses' = lockLosses + 1

\* The process dies: no active job has a lock any more.
ReleaseLocks ==
  jobs' = [k \in JobId |-> IF InState(k, "active")
                           THEN [jobs[k] EXCEPT !.lock = Null]
                           ELSE jobs[k]]

QueueTypeOK ==
  /\ jobs \in [JobId -> Job \cup {Null}]
  /\ lockLosses \in 0..MaxLockLosses

===============================================================================
