------------------------------- MODULE ReviewOnce -------------------------------
(***************************************************************************)
(* What the human review promises: a task waits for its review until some  *)
(* request decides it, and that decision is the last.  A request that was  *)
(* told it decided a task is the one that did.                             *)
(***************************************************************************)
CONSTANTS TaskId, Review, Undecided, Outcome, Nobody

VARIABLES outcome,  \* the decision on each task
          winner    \* the request that was told it made the decision

Init ==
  /\ outcome = [t \in TaskId |-> Undecided]
  /\ winner = [t \in TaskId |-> Nobody]

\* A request decides a task; it may never learn that it did.
Decide(t) ==
  /\ outcome[t] = Undecided
  /\ \E d \in Outcome : outcome' = [outcome EXCEPT ![t] = d]
  /\ \E r \in Review \cup {Nobody} : winner' = [winner EXCEPT ![t] = r]

Next == \E t \in TaskId : Decide(t)

Spec == Init /\ [][Next]_<<outcome, winner>>

===============================================================================
