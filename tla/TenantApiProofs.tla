---------------------------- MODULE TenantApiProofs ----------------------------
(***************************************************************************)
(* Proofs about TenantApi, for any number of companies, users, tasks and   *)
(* calls.  The review of tasks and the two uniqueness promises have an     *)
(* inductive invariant each; every invariant mentions only the variables   *)
(* its promise is about, and the steps of the other components leave those *)
(* alone.                                                                  *)
(***************************************************************************)
EXTENDS TenantApi, TLAPS

-------------------------------------------------------------------------------
(* Reviews. *)

\* What a review under way has established, and what an answer "ok" means.
ReviewOK(review, T) ==
  /\ review.pc # "unsent" => review.decision \in Decision
  /\ review.pc = "updateReview" => review.taskId \in TaskId
  /\ review.answer # Null => review.pc = "answered"
  /\ review.answer = "ok" =>
       /\ review.taskId \in TaskId
       /\ T[review.taskId] # Null
       /\ T[review.taskId].status = review.decision

ReviewTypes ==
  /\ tasks \in [TaskId -> Task \cup {Null}]
  /\ reviews \in [Review -> ReviewState]

ReviewInv == ReviewTypes /\ \A r \in Review : ReviewOK(reviews[r], tasks)

\* The steps of the other components leave tasks and reviews alone.
LEMMA OthersKeepReviews ==
  ASSUME Next,
         ~ \E r \in Review : Reviewing(r),
         ~ \E t \in TaskId : Creating(t)
  PROVE  UNCHANGED <<tasks, reviews>>
<1>1. CASE \E c \in CompanyCall : CompanyStep(c)
  BY <1>1 DEF CompanyStep, ReceiveCompanyCall, HandleCompanyCall, FindCompany, CheckKey,
     WriteCompany, CompanyThrows, storeVars
<1>2. CASE \E u \in UserCall : UserStep(u)
  BY <1>2 DEF UserStep, ReceiveUserCall, HandleUserCall, FindUser, EnsureCompanyExists,
     EnsureEmailsAreUnique, WriteUser, storeVars
<1>3. CASE CatchUp
  BY <1>3 DEF CatchUp, Replicate
<1>4. CASE Quiescent
  BY <1>4 DEF Quiescent, vars, storeVars
<1> QED
  BY <1>1, <1>2, <1>3, <1>4 DEF Next

\* A decision, once made, is not touched.
DecisionsStay ==
  \A t \in TaskId :
    tasks[t] # Null /\ tasks[t].status # "PENDING_REVIEW" => tasks'[t] = tasks[t]

\* One review changes: the others keep what they established.
LEMMA OneReviewChanges ==
  ASSUME ReviewInv, NEW r \in Review, NEW new \in ReviewState,
         reviews' = [reviews EXCEPT ![r] = new],
         tasks' \in [TaskId -> Task \cup {Null}],
         DecisionsStay,
         ReviewOK(new, tasks')
  PROVE  ReviewInv'
<1>1. ReviewTypes'
  BY DEF ReviewInv, ReviewTypes
<1>2. ASSUME NEW q \in Review, q # r
      PROVE  ReviewOK(reviews'[q], tasks')
  <2>1. reviews'[q] = reviews[q] /\ ReviewOK(reviews[q], tasks)
    BY <1>2 DEF ReviewInv, ReviewTypes
  <2>2. CASE reviews[q].answer = "ok"
    <3>1. /\ reviews[q].answer # Null
          /\ reviews[q].taskId \in TaskId
          /\ tasks[reviews[q].taskId] # Null
          /\ tasks[reviews[q].taskId].status \in Decision
      BY <2>1, <2>2, ReviewAssumption DEF ReviewOK, ReviewOutcome
    <3>2. tasks'[reviews[q].taskId] = tasks[reviews[q].taskId]
      BY <3>1 DEF DecisionsStay, Decision
    <3> QED
      BY <2>1, <3>2 DEF ReviewOK
  <2>3. CASE reviews[q].answer # "ok"
    BY <2>1, <2>3 DEF ReviewOK
  <2> QED
    BY <2>2, <2>3
<1>3. ReviewOK(reviews'[r], tasks')
  BY DEF ReviewInv, ReviewTypes
<1> QED
  BY <1>1, <1>2, <1>3 DEF ReviewInv

\* A review is answered, with anything but "ok".
LEMMA ReviewRefused ==
  ASSUME ReviewInv, NEW r \in Review, NEW answer \in ReviewOutcome \ {"ok"},
         reviews[r].pc # "unsent",
         ReviewAnswer(r, answer),
         tasks' \in [TaskId -> Task \cup {Null}],
         DecisionsStay
  PROVE  ReviewInv'
<1> DEFINE new == [reviews[r] EXCEPT !.pc = "answered", !.answer = answer]
<1>1. reviews[r] \in ReviewState /\ ReviewOK(reviews[r], tasks)
  BY DEF ReviewInv, ReviewTypes
<1>2. new \in ReviewState
  BY <1>1 DEF ReviewState
<1>3. new.pc = "answered" /\ new.answer = answer /\ new.decision = reviews[r].decision
  BY <1>1 DEF ReviewState
<1>4. ReviewOK(new, tasks')
  BY <1>1, <1>3 DEF ReviewOK
<1>5. reviews' = [reviews EXCEPT ![r] = new]
  BY <1>1 DEF ReviewAnswer, ReviewInv, ReviewTypes, ReviewState
<1> HIDE DEF new
<1> QED
  BY <1>2, <1>4, <1>5, OneReviewChanges

LEMMA ReceiveReviewKeeps ==
  ASSUME ReviewInv, NEW r \in Review, ReceiveReview(r)
  PROVE  ReviewInv' /\ DecisionsStay /\ UNCHANGED tasks
<1>1. PICK key \in HeaderKey \cup {Null}, decision \in Decision,
           t \in {t \in TaskId : tasks[t] # Null} \cup {Null} :
             reviews' = [reviews EXCEPT ![r].pc = "guard", ![r].xCompanyApiKey = key,
                                        ![r].taskId = t, ![r].decision = decision]
  BY DEF ReceiveReview
<1> DEFINE new == [reviews[r] EXCEPT !.pc = "guard", !.xCompanyApiKey = key,
                                     !.taskId = t, !.decision = decision]
<1>2. reviews[r] \in ReviewState /\ ReviewOK(reviews[r], tasks) /\ reviews[r].pc = "unsent"
  BY DEF ReviewInv, ReviewTypes, ReceiveReview, ReviewAt
<1>3. new \in ReviewState
  BY <1>2 DEF ReviewState
<1>4. new.pc = "guard" /\ new.decision \in Decision /\ new.answer = reviews[r].answer
  BY <1>2 DEF ReviewState
<1>5. reviews' = [reviews EXCEPT ![r] = new]
  BY <1>1, <1>2 DEF ReviewInv, ReviewTypes, ReviewState
<1>6. UNCHANGED tasks
  BY DEF ReceiveReview, storeVars
<1>7. ReviewOK(new, tasks')
  BY <1>2, <1>4, ReviewAssumption DEF ReviewOK, ReviewOutcome
<1> HIDE DEF new
<1>8. DecisionsStay /\ tasks' \in [TaskId -> Task \cup {Null}]
  BY <1>6 DEF DecisionsStay, ReviewInv, ReviewTypes
<1> QED
  BY <1>3, <1>5, <1>6, <1>7, <1>8, OneReviewChanges

LEMMA GuardKeeps ==
  ASSUME ReviewInv, NEW r \in Review, Guard(r)
  PROVE  ReviewInv' /\ DecisionsStay /\ UNCHANGED tasks
<1>1. UNCHANGED tasks
  BY DEF Guard, storeVars
<1>2. DecisionsStay /\ tasks' \in [TaskId -> Task \cup {Null}]
  BY <1>1 DEF DecisionsStay, ReviewInv, ReviewTypes
<1>3. reviews[r].pc = "guard"
  BY DEF Guard, ReviewAt
<1>4. CASE \E answer \in ReviewOutcome \ {"ok"} : ReviewAnswer(r, answer)
  BY <1>1, <1>2, <1>3, <1>4, ReviewRefused
<1>5. CASE \E c \in CompanyId :
             reviews' = [reviews EXCEPT ![r].pc = "findTask", ![r].tenant = c]
  <2>1. PICK c \in CompanyId :
             reviews' = [reviews EXCEPT ![r].pc = "findTask", ![r].tenant = c]
    BY <1>5
  <2> DEFINE new == [reviews[r] EXCEPT !.pc = "findTask", !.tenant = c]
  <2>2. reviews[r] \in ReviewState /\ ReviewOK(reviews[r], tasks)
    BY DEF ReviewInv, ReviewTypes
  <2>3. new \in ReviewState
    BY <2>2 DEF ReviewState
  <2>4. new.pc = "findTask" /\ new.decision = reviews[r].decision
                           /\ new.answer = reviews[r].answer
    BY <2>2 DEF ReviewState
  <2>5. reviews' = [reviews EXCEPT ![r] = new]
    BY <2>1, <2>2 DEF ReviewInv, ReviewTypes, ReviewState
  <2>6. ReviewOK(new, tasks')
    BY <1>3, <2>2, <2>4, ReviewAssumption DEF ReviewOK, ReviewOutcome
  <2> HIDE DEF new
  <2> QED
    BY <1>1, <1>2, <2>3, <2>5, <2>6, OneReviewChanges
<1> QED
  BY <1>4, <1>5 DEF Guard, ReviewOutcome, findByApiKey

LEMMA FindTaskKeeps ==
  ASSUME ReviewInv, NEW r \in Review, FindTask(r)
  PROVE  ReviewInv' /\ DecisionsStay /\ UNCHANGED tasks
<1>1. UNCHANGED tasks
  BY DEF FindTask, storeVars
<1>2. DecisionsStay /\ tasks' \in [TaskId -> Task \cup {Null}]
  BY <1>1 DEF DecisionsStay, ReviewInv, ReviewTypes
<1>3. reviews[r].pc = "findTask"
  BY DEF FindTask, ReviewAt
<1>4. CASE \E answer \in ReviewOutcome \ {"ok"} : ReviewAnswer(r, answer)
  BY <1>1, <1>2, <1>3, <1>4, ReviewRefused
<1>5. CASE /\ reviews[r].taskId # Null
           /\ reviews' = [reviews EXCEPT ![r].pc = "updateReview"]
  <2> DEFINE new == [reviews[r] EXCEPT !.pc = "updateReview"]
  <2>2. reviews[r] \in ReviewState /\ ReviewOK(reviews[r], tasks)
    BY DEF ReviewInv, ReviewTypes
  <2>3. new \in ReviewState
    BY <2>2 DEF ReviewState
  <2>4. new.pc = "updateReview" /\ new.decision = reviews[r].decision
          /\ new.answer = reviews[r].answer /\ new.taskId = reviews[r].taskId
    BY <2>2 DEF ReviewState
  <2>5. reviews' = [reviews EXCEPT ![r] = new]
    BY <1>5, <2>2 DEF ReviewInv, ReviewTypes, ReviewState
  <2>6. new.taskId \in TaskId
    BY <1>5, <2>2, <2>4 DEF ReviewState
  <2>7. ReviewOK(new, tasks')
    BY <1>3, <2>2, <2>4, <2>6, ReviewAssumption DEF ReviewOK, ReviewOutcome
  <2> HIDE DEF new
  <2> QED
    BY <1>1, <1>2, <2>3, <2>5, <2>7, OneReviewChanges
<1> QED
  BY <1>4, <1>5 DEF FindTask, ReviewOutcome

LEMMA AddTaskKeeps ==
  ASSUME ReviewInv, NEW t \in TaskId, AddTask(t), UNCHANGED reviews
  PROVE  ReviewInv' /\ DecisionsStay
<1>1. PICK c \in CompanyId :
        tasks' = [tasks EXCEPT ![t] = [companyId |-> c, status |-> "PENDING_REVIEW"]]
  BY DEF AddTask
<1>2. ReviewTypes'
  BY <1>1 DEF ReviewInv, ReviewTypes, Task, TaskStatus
<1>3. \A u \in TaskId : tasks[u] # Null => tasks'[u] = tasks[u]
  BY <1>1 DEF AddTask, ReviewInv, ReviewTypes
<1>4. DecisionsStay
  BY <1>3 DEF DecisionsStay
<1>5. ASSUME NEW r \in Review
      PROVE  ReviewOK(reviews[r], tasks')
  BY <1>3 DEF ReviewInv, ReviewOK
<1> QED
  BY <1>2, <1>4, <1>5 DEF ReviewInv

\* The write that decides a task.
Decides(r) ==
  /\ reviewable(reviews[r].taskId, reviews[r].tenant)
  /\ tasks' = [tasks EXCEPT ![reviews[r].taskId].status = reviews[r].decision]
  /\ \E answer \in {"ok", "error"} : ReviewAnswer(r, answer)

\* It turns a pending task into a decided one and leaves all others alone.
LEMMA DecidesOne ==
  ASSUME ReviewInv, NEW r \in Review, reviews[r].pc = "updateReview", Decides(r)
  PROVE  LET t == reviews[r].taskId
         IN  /\ t \in TaskId
             /\ reviews[r].decision \in Decision
             /\ tasks[t] # Null
             /\ tasks[t].status = "PENDING_REVIEW"
             /\ tasks[t].companyId = reviews[r].tenant
             /\ tasks' \in [TaskId -> Task \cup {Null}]
             /\ tasks'[t] # Null
             /\ tasks'[t].status = reviews[r].decision
             /\ tasks'[t].companyId = tasks[t].companyId
             /\ \A u \in TaskId : u # t => tasks'[u] = tasks[u]
             /\ DecisionsStay
<1> DEFINE t == reviews[r].taskId
           new == [tasks[t] EXCEPT !.status = reviews[r].decision]
<1>1. t \in TaskId /\ reviews[r].decision \in Decision
  BY DEF ReviewInv, ReviewOK
<1>2. tasks[t] # Null /\ tasks[t].status = "PENDING_REVIEW"
        /\ tasks[t].companyId = reviews[r].tenant
  BY DEF Decides, reviewable, ofCompany
<1>3. tasks[t] \in Task
  BY <1>1, <1>2 DEF ReviewInv, ReviewTypes
<1>4. new \in Task
  BY <1>1, <1>3 DEF Task, TaskStatus, Decision
<1>5. new.status = reviews[r].decision /\ new.companyId = tasks[t].companyId
  BY <1>3 DEF Task
<1>6. tasks' = [tasks EXCEPT ![t] = new]
  BY DEF Decides
<1>7. new # Null
  BY <1>4, NullDocumentAssumption
<1> HIDE DEF new
<1>8. tasks' \in [TaskId -> Task \cup {Null}] /\ tasks'[t] = new
        /\ \A u \in TaskId : u # t => tasks'[u] = tasks[u]
  BY <1>1, <1>4, <1>6 DEF ReviewInv, ReviewTypes
<1>9. DecisionsStay
  BY <1>2, <1>8 DEF DecisionsStay
<1> QED
  BY <1>1, <1>2, <1>5, <1>7, <1>8, <1>9

LEMMA UpdateReviewKeeps ==
  ASSUME ReviewInv, NEW r \in Review, UpdateReview(r)
  PROVE  /\ ReviewInv' /\ DecisionsStay
         /\ \/ Decides(r)
            \/ UNCHANGED tasks /\ \E answer \in ReviewOutcome \ {"ok"} : ReviewAnswer(r, answer)
<1>1. reviews[r].pc = "updateReview"
  BY DEF UpdateReview, ReviewAt
<1>2. CASE UNCHANGED tasks /\ \E answer \in ReviewOutcome \ {"ok"} : ReviewAnswer(r, answer)
  <2>1. DecisionsStay /\ tasks' \in [TaskId -> Task \cup {Null}]
    BY <1>2 DEF DecisionsStay, ReviewInv, ReviewTypes
  <2> QED
    BY <1>1, <1>2, <2>1, ReviewRefused
<1>3. CASE Decides(r)
  <2>1. PICK answer \in {"ok", "error"} : ReviewAnswer(r, answer)
    BY <1>3 DEF Decides
  <2>2. CASE answer = "error"
    BY <1>1, <1>3, <2>1, <2>2, DecidesOne, ReviewRefused DEF ReviewOutcome
  <2>3. CASE answer = "ok"
    <3> DEFINE new == [reviews[r] EXCEPT !.pc = "answered", !.answer = "ok"]
    <3>1. reviews[r] \in ReviewState /\ ReviewOK(reviews[r], tasks)
      BY DEF ReviewInv, ReviewTypes
    <3>2. new \in ReviewState
      BY <3>1 DEF ReviewState, ReviewOutcome
    <3>3. new.pc = "answered" /\ new.answer = "ok" /\ new.taskId = reviews[r].taskId
            /\ new.decision = reviews[r].decision
      BY <3>1 DEF ReviewState
    <3>4. reviews' = [reviews EXCEPT ![r] = new]
      BY <2>1, <2>3, <3>1 DEF ReviewAnswer, ReviewInv, ReviewTypes, ReviewState
    <3> HIDE DEF new
    <3>5. ReviewOK(new, tasks')
      BY <1>1, <1>3, <3>3, DecidesOne DEF ReviewOK
    <3> QED
      BY <1>1, <1>3, <3>2, <3>4, <3>5, DecidesOne, OneReviewChanges
  <2> QED
    BY <2>1, <2>2, <2>3
<1> QED
  BY <1>2, <1>3 DEF UpdateReview, Decides, ReviewOutcome

LEMMA ReviewInvInit ==
  ASSUME Init
  PROVE  ReviewInv
<1>1. tasks = [t \in TaskId |-> Null]
  BY DEF Init
<1>2. reviews = [r \in Review |->
                   [pc |-> "unsent", xCompanyApiKey |-> Null, taskId |-> Null,
                    decision |-> Null, tenant |-> Null, answer |-> Null]]
  BY DEF Init, ReviewInit
<1> QED
  BY <1>1, <1>2, ReviewAssumption DEF ReviewInv, ReviewTypes, ReviewState, ReviewOK, ReviewOutcome

LEMMA ReviewInvStep ==
  ASSUME ReviewInv, [Next]_vars
  PROVE  ReviewInv' /\ DecisionsStay
<1>1. CASE UNCHANGED <<tasks, reviews>>
  BY <1>1 DEF ReviewInv, ReviewTypes, DecisionsStay
<1>2. CASE \E r \in Review : Reviewing(r)
  BY <1>2, ReceiveReviewKeeps, GuardKeeps, FindTaskKeeps, UpdateReviewKeeps
     DEF Reviewing, HandleReview
<1>3. CASE \E t \in TaskId : Creating(t)
  BY <1>3, AddTaskKeeps DEF Creating
<1>4. CASE UNCHANGED vars
  BY <1>1, <1>4 DEF vars, storeVars
<1> QED
  BY <1>1, <1>2, <1>3, <1>4, OthersKeepReviews

LEMMA ReviewInvHolds == Spec => []ReviewInv
  BY ReviewInvInit, ReviewInvStep, PTL DEF Spec

\* For any number of reviewers of any number of tasks, whatever else is going
\* on: a decision that reviewTask answered is the task's decision for good.
THEOREM AnswersStand == Spec => []AnsweredDecisionStands
<1>1. ReviewInv => AnsweredDecisionStands
  BY DEF ReviewInv, ReviewOK, AnsweredDecisionStands
<1> QED
  BY <1>1, ReviewInvHolds, PTL

-------------------------------------------------------------------------------
(* Reviews implement ReviewOnce. *)

\* The two variables of ReviewOnce, as the refinement maps them.
outcomes == [t \in TaskId |-> IF Decided(t) THEN tasks[t].status ELSE "PENDING_REVIEW"]
winners == [t \in TaskId |-> winnersOf(t)]

\* A step of a review changes that review only, and no answer it already gave.
LEMMA ReviewingOne ==
  ASSUME ReviewInv, NEW r \in Review, ReceiveReview(r) \/ HandleReview(r)
  PROVE  /\ \A q \in Review : q # r => reviews'[q] = reviews[q]
         /\ reviews[r].answer # "ok"
<1>1. \A q \in Review : q # r => reviews'[q] = reviews[q]
  BY DEF ReceiveReview, HandleReview, Guard, FindTask, UpdateReview, ReviewAnswer,
     ReviewInv, ReviewTypes
<1>2. reviews[r].pc # "answered"
  BY DEF ReceiveReview, HandleReview, Guard, FindTask, UpdateReview, ReviewAt
<1>3. reviews[r].answer # "ok"
  BY <1>2, ReviewAssumption DEF ReviewInv, ReviewOK, ReviewOutcome
<1> QED
  BY <1>1, <1>3

\* If the one review that changes is not answered "ok", the winners stay.
LEMMA WinnersStay ==
  ASSUME NEW r \in Review,
         \A q \in Review : q # r => reviews'[q] = reviews[q],
         reviews[r].answer # "ok", reviews'[r].answer # "ok"
  PROVE  \A t \in TaskId : winnersOf(t)' = winnersOf(t)
  BY DEF winnersOf

LEMMA RefusedIsNotOk ==
  ASSUME ReviewInv, NEW r \in Review, NEW answer \in ReviewOutcome, ReviewAnswer(r, answer)
  PROVE  /\ reviews'[r].answer = answer
         /\ reviews'[r].taskId = reviews[r].taskId
  BY DEF ReviewInv, ReviewTypes, ReviewState, ReviewAnswer

\* Only the write that decides a task answers "ok".
LEMMA NotOk ==
  ASSUME ReviewInv, NEW r \in Review, ReceiveReview(r) \/ HandleReview(r),
         ~ (UpdateReview(r) /\ Decides(r))
  PROVE  UNCHANGED tasks /\ \A t \in TaskId : winnersOf(t)' = winnersOf(t)
<1>1. CASE ReceiveReview(r)
  <2>1. PICK key \in HeaderKey \cup {Null}, decision \in Decision,
             t \in {t \in TaskId : tasks[t] # Null} \cup {Null} :
               reviews' = [reviews EXCEPT ![r].pc = "guard", ![r].xCompanyApiKey = key,
                                          ![r].taskId = t, ![r].decision = decision]
    BY <1>1 DEF ReceiveReview
  <2>2. reviews'[r].answer = reviews[r].answer
    BY <2>1 DEF ReviewInv, ReviewTypes, ReviewState
  <2> QED
    BY <1>1, <2>2, ReceiveReviewKeeps, ReviewingOne, WinnersStay
<1>2. CASE UNCHANGED tasks /\ \E answer \in ReviewOutcome \ {"ok"} : ReviewAnswer(r, answer)
  BY <1>2, RefusedIsNotOk, ReviewingOne, WinnersStay
<1>3. CASE Guard(r)
  <2>1. CASE \E c \in CompanyId :
               reviews' = [reviews EXCEPT ![r].pc = "findTask", ![r].tenant = c]
    <3>1. reviews'[r].answer = reviews[r].answer
      BY <2>1 DEF ReviewInv, ReviewTypes, ReviewState
    <3> QED
      BY <1>3, <3>1, GuardKeeps, ReviewingOne, WinnersStay
  <2> QED
    BY <1>2, <1>3, <2>1, GuardKeeps DEF Guard, ReviewOutcome, findByApiKey
<1>4. CASE FindTask(r)
  <2>1. CASE reviews' = [reviews EXCEPT ![r].pc = "updateReview"]
    <3>1. reviews'[r].answer = reviews[r].answer
      BY <2>1 DEF ReviewInv, ReviewTypes, ReviewState
    <3> QED
      BY <1>4, <3>1, FindTaskKeeps, ReviewingOne, WinnersStay
  <2> QED
    BY <1>2, <1>4, <2>1, FindTaskKeeps DEF FindTask, ReviewOutcome
<1>5. CASE UpdateReview(r)
  BY <1>2, <1>5, UpdateReviewKeeps
<1> QED
  BY <1>1, <1>3, <1>4, <1>5 DEF HandleReview

\* One task is decided, and at most one review learns it: the abstract step.
LEMMA AbstractDecide ==
  ASSUME NEW t \in TaskId, NEW d \in Decision, NEW w \in Singletons(Review) \cup {{}},
         outcomes[t] = "PENDING_REVIEW",
         outcomes' = [outcomes EXCEPT ![t] = d],
         winners' = [winners EXCEPT ![t] = w]
  PROVE  ReviewPromise!Next
<1>1. ReviewPromise!Decide(t)
  BY DEF ReviewPromise!Decide, outcomes, winners
<1> QED
  BY <1>1 DEF ReviewPromise!Next

LEMMA DecidesRefines ==
  ASSUME ReviewInv, NEW r \in Review, UpdateReview(r), Decides(r)
  PROVE  ReviewPromise!Next
<1>1. reviews[r].pc = "updateReview"
  BY DEF UpdateReview, ReviewAt
<1>2. PICK t \in TaskId, d \in Decision : t = reviews[r].taskId /\ d = reviews[r].decision
  BY <1>1, DecidesOne
<1>3. /\ tasks[t] # Null /\ tasks[t].status = "PENDING_REVIEW"
      /\ tasks'[t] # Null /\ tasks'[t].status = d
      /\ \A u \in TaskId : u # t => tasks'[u] = tasks[u]
  BY <1>1, <1>2, DecidesOne
<1>4. PICK answer \in {"ok", "error"} : ReviewAnswer(r, answer)
  BY DEF Decides
<1>5. reviews'[r].answer = answer /\ reviews'[r].taskId = t
  BY <1>2, <1>4, RefusedIsNotOk DEF ReviewOutcome
<1>6. /\ \A q \in Review : q # r => reviews'[q] = reviews[q]
      /\ reviews[r].answer # "ok"
  BY ReviewingOne DEF HandleReview
<1>7. \A u \in TaskId : u # t => winnersOf(u)' = winnersOf(u)
  BY <1>2, <1>5, <1>6 DEF winnersOf
<1>8. \A q \in Review : ~(reviews[q].taskId = t /\ reviews[q].answer = "ok")
  <2>1. SUFFICES ASSUME NEW q \in Review, reviews[q].taskId = t, reviews[q].answer = "ok"
                 PROVE  FALSE
    OBVIOUS
  <2>2. reviews[q].decision = "PENDING_REVIEW"
    BY <1>3, <2>1 DEF ReviewInv, ReviewOK
  <2>3. reviews[q].answer # Null
    BY <2>1, ReviewAssumption DEF ReviewOutcome
  <2>4. reviews[q].decision \in Decision
    BY <2>3 DEF ReviewInv, ReviewOK
  <2> QED
    BY <2>2, <2>4 DEF Decision
<1>9. winnersOf(t)' = IF answer = "ok" THEN {r} ELSE {}
  BY <1>5, <1>6, <1>8 DEF winnersOf
<1>10. outcomes[t] = "PENDING_REVIEW" /\ outcomes' = [outcomes EXCEPT ![t] = d]
  BY <1>3 DEF outcomes, Decided, Decision
<1>11. winners' = [winners EXCEPT ![t] = winnersOf(t)']
  BY <1>7 DEF winners
<1>12. PICK w \in Singletons(Review) \cup {{}} : w = winnersOf(t)'
  BY <1>9 DEF Singletons
<1> QED
  BY <1>10, <1>11, <1>12, AbstractDecide

\* Every step that leaves the decisions and the winners alone is a stutter.
LEMMA AbstractStutter ==
  ASSUME outcomes' = outcomes, winners' = winners
  PROVE  [ReviewPromise!Next]_<<outcomes, winners>>
  OBVIOUS

LEMMA AddTaskStutters ==
  ASSUME ReviewInv, NEW t \in TaskId, AddTask(t), UNCHANGED reviews
  PROVE  outcomes' = outcomes /\ winners' = winners
<1>1. PICK c \in CompanyId :
        tasks' = [tasks EXCEPT ![t] = [companyId |-> c, status |-> "PENDING_REVIEW"]]
  BY DEF AddTask
<1>2. tasks[t] = Null
  BY DEF AddTask
<1>3. outcomes' = outcomes
  BY <1>1, <1>2 DEF outcomes, Decided, ReviewInv, ReviewTypes
<1> QED
  BY <1>3 DEF winners, winnersOf

LEMMA ReviewStepRefines ==
  ASSUME ReviewInv, [Next]_vars
  PROVE  [ReviewPromise!Next]_<<outcomes, winners>>
<1>1. CASE UNCHANGED <<tasks, reviews>>
  BY <1>1, AbstractStutter DEF outcomes, winners, winnersOf, Decided
<1>2. CASE \E r \in Review : Reviewing(r)
  <2>1. PICK r \in Review : ReceiveReview(r) \/ HandleReview(r)
    BY <1>2 DEF Reviewing
  <2>2. CASE UpdateReview(r) /\ Decides(r)
    BY <2>2, DecidesRefines
  <2>3. CASE ~ (UpdateReview(r) /\ Decides(r))
    <3>1. UNCHANGED tasks /\ \A t \in TaskId : winnersOf(t)' = winnersOf(t)
      BY <2>1, <2>3, NotOk
    <3> QED
      BY <3>1, AbstractStutter DEF outcomes, winners, Decided
  <2> QED
    BY <2>2, <2>3
<1>3. CASE \E t \in TaskId : Creating(t)
  BY <1>3, AddTaskStutters, AbstractStutter DEF Creating
<1>4. CASE UNCHANGED vars
  BY <1>1, <1>4 DEF vars, storeVars
<1> QED
  BY <1>1, <1>2, <1>3, <1>4, OthersKeepReviews

LEMMA ReviewInitRefines ==
  ASSUME Init
  PROVE  ReviewPromise!Init
<1>1. tasks = [t \in TaskId |-> Null]
  BY DEF Init
<1>2. \A r \in Review : reviews[r].answer # "ok"
  BY ReviewAssumption DEF Init, ReviewInit, ReviewOutcome
<1>3. outcomes = [t \in TaskId |-> "PENDING_REVIEW"]
  BY <1>1 DEF outcomes, Decided
<1>4. winners = [t \in TaskId |-> {}]
  BY <1>2 DEF winners, winnersOf
<1> QED
  BY <1>3, <1>4 DEF ReviewPromise!Init, outcomes, winners

\* The review of tasks implements ReviewOnce: no interleaving of requests, with
\* whatever else goes on, decides a task twice or tells two that they did.
THEOREM ReviewsKeepPromise == Spec => KeepsReviewPromise
<1>1. Init => ReviewPromise!Init
  BY ReviewInitRefines
<1>2. ReviewInv /\ [Next]_vars => [ReviewPromise!Next]_<<outcomes, winners>>
  BY ReviewStepRefines
<1> QED
  BY <1>1, <1>2, ReviewInvHolds, PTL DEF Spec, KeepsReviewPromise, ReviewPromise!Spec,
     outcomes, winners

-------------------------------------------------------------------------------
(* Tenants. *)

\* The review that decided a task is answered: nothing changes it any more.
DecidersStay ==
  \A t \in TaskId :
    Decided(t) => \E r \in Review : /\ reviews[r].pc = "answered"
                                    /\ reviews[r].taskId = t
                                    /\ reviews[r].tenant = tasks[t].companyId
                                    /\ reviews[r].decision = tasks[t].status

TenantInv == ReviewInv /\ DecidersStay

\* No step changes an answered review or, of the tasks, more than one pending.
LEMMA AnsweredStay ==
  ASSUME ReviewInv, [Next]_vars, NEW r \in Review, reviews[r].pc = "answered"
  PROVE  reviews'[r] = reviews[r]
<1>1. CASE UNCHANGED reviews
  BY <1>1
<1>2. CASE \E q \in Review : Reviewing(q)
  <2>1. PICK q \in Review : ReceiveReview(q) \/ HandleReview(q)
    BY <1>2 DEF Reviewing
  <2>2. q # r
    BY <2>1 DEF ReceiveReview, HandleReview, Guard, FindTask, UpdateReview, ReviewAt
  <2> QED
    BY <2>1, <2>2, ReviewingOne
<1>3. CASE UNCHANGED vars
  BY <1>3 DEF vars
<1> QED
  BY <1>1, <1>2, <1>3, OthersKeepReviews DEF Creating

\* A task that becomes decided was decided by a review of its own tenant.
LEMMA DeciderIsTenant ==
  ASSUME ReviewInv, [Next]_vars, NEW t \in TaskId, ~ Decided(t), Decided(t)'
  PROVE  \E r \in Review : /\ reviews'[r].pc = "answered"
                           /\ reviews'[r].taskId = t
                           /\ reviews'[r].tenant = tasks'[t].companyId
                           /\ reviews'[r].decision = tasks'[t].status
<1>1. ~ UNCHANGED tasks
  BY DEF Decided
<1>2. CASE \E r \in Review : Reviewing(r)
  <2>1. PICK r \in Review : ReceiveReview(r) \/ HandleReview(r)
    BY <1>2 DEF Reviewing
  <2>2. UpdateReview(r) /\ Decides(r)
    BY <1>1, <2>1, NotOk
  <2>3. reviews[r].pc = "updateReview"
    BY <2>2 DEF UpdateReview, ReviewAt
  <2>4. /\ \A u \in TaskId : u # reviews[r].taskId => tasks'[u] = tasks[u]
        /\ tasks'[reviews[r].taskId].companyId = reviews[r].tenant
        /\ tasks'[reviews[r].taskId].status = reviews[r].decision
    BY <2>2, <2>3, DecidesOne
  <2>5. reviews[r].taskId = t
    BY <2>4 DEF Decided
  <2>6. PICK answer \in {"ok", "error"} : ReviewAnswer(r, answer)
    BY <2>2 DEF Decides
  <2>7. /\ reviews'[r].pc = "answered" /\ reviews'[r].taskId = reviews[r].taskId
        /\ reviews'[r].tenant = reviews[r].tenant
        /\ reviews'[r].decision = reviews[r].decision
    BY <2>6 DEF ReviewAnswer, ReviewInv, ReviewTypes, ReviewState
  <2> QED
    BY <2>4, <2>5, <2>7
<1>3. CASE \E u \in TaskId : Creating(u)
  <2>1. PICK u \in TaskId, c \in CompanyId :
          tasks' = [tasks EXCEPT ![u] = [companyId |-> c, status |-> "PENDING_REVIEW"]]
    BY <1>3 DEF Creating, AddTask
  <2> QED
    BY <2>1 DEF Decided, ReviewInv, ReviewTypes
<1>4. CASE UNCHANGED vars
  BY <1>1, <1>4 DEF vars, storeVars
<1> QED
  BY <1>1, <1>2, <1>3, <1>4, OthersKeepReviews

LEMMA TenantInvStep ==
  ASSUME TenantInv, [Next]_vars
  PROVE  TenantInv'
<1>1. ReviewInv' /\ DecisionsStay
  BY ReviewInvStep DEF TenantInv
<1>2. ASSUME NEW t \in TaskId, Decided(t)'
      PROVE  \E r \in Review : /\ reviews'[r].pc = "answered"
                               /\ reviews'[r].taskId = t
                               /\ reviews'[r].tenant = tasks'[t].companyId
                               /\ reviews'[r].decision = tasks'[t].status
  <2>1. CASE ~ Decided(t)
    BY <1>2, <2>1, DeciderIsTenant DEF TenantInv
  <2>2. CASE Decided(t)
    <3>1. tasks'[t] = tasks[t]
      BY <1>1, <2>2 DEF DecisionsStay, Decided
    <3>2. PICK r \in Review : /\ reviews[r].pc = "answered"
                              /\ reviews[r].taskId = t
                              /\ reviews[r].tenant = tasks[t].companyId
                              /\ reviews[r].decision = tasks[t].status
      BY <2>2 DEF TenantInv, DecidersStay
    <3>3. reviews'[r] = reviews[r]
      BY <3>2, AnsweredStay DEF TenantInv
    <3> QED
      BY <3>1, <3>2, <3>3
  <2> QED
    BY <2>1, <2>2
<1> QED
  BY <1>1, <1>2 DEF TenantInv, DecidersStay

\* For every number of tenants: a task was decided by a request that presented
\* a key of the task's own company, in the way it asked for.
THEOREM TenantsAreApart == Spec => []DecidedByOwnTenant
<1>1. Init => TenantInv
  <2>1. ASSUME Init
        PROVE  DecidersStay
    <3>1. tasks = [t \in TaskId |-> Null]
      BY <2>1 DEF Init
    <3> QED
      BY <3>1 DEF DecidersStay, Decided
  <2> QED
    BY <2>1, ReviewInvInit DEF TenantInv
<1>2. TenantInv /\ [Next]_vars => TenantInv'
  BY TenantInvStep
<1>3. TenantInv => DecidedByOwnTenant
  BY DEF TenantInv, DecidersStay, DecidedByOwnTenant
<1> QED
  BY <1>1, <1>2, <1>3, PTL DEF Spec

-------------------------------------------------------------------------------
(* Api keys. *)

KeyInv ==
  /\ companies = [c \in CompanyId |-> companies[c]]
  /\ OneCompanyPerKey

\* A write under the unique index: no other company has the key.
LEMMA WriteKeyKeeps ==
  ASSUME KeyInv, UniqueIndexes, NEW c \in CompanyCall, WriteKey(c)
  PROVE  KeyInv'
<1> DEFINE id  == companyCalls[c].id
           key == companyCalls[c].apiKey
<1>1. companies' = [companies EXCEPT ![id] = key]
  BY DEF WriteKey
<1>2. \A d \in CompanyId \ {id} : companies[d] # key
  BY DEF WriteKey, DuplicateApiKey
<1>3. \A d \in CompanyId : companies'[d] = IF d = id THEN key ELSE companies[d]
  BY <1>1 DEF KeyInv
<1>4. companies' = [d \in CompanyId |-> companies'[d]]
  BY <1>1 DEF KeyInv
<1>5. OneCompanyPerKey'
  BY <1>2, <1>3 DEF OneCompanyPerKey, KeyInv
<1> QED
  BY <1>4, <1>5 DEF KeyInv

LEMMA DeleteCompanyKeeps ==
  ASSUME KeyInv, NEW id, companies' = [companies EXCEPT ![id] = Null]
  PROVE  KeyInv'
<1>1. \A d \in CompanyId : companies'[d] # Null => companies'[d] = companies[d]
  BY DEF KeyInv
<1>2. companies' = [d \in CompanyId |-> companies'[d]]
  BY DEF KeyInv
<1>3. OneCompanyPerKey'
  BY <1>1 DEF OneCompanyPerKey, KeyInv
<1> QED
  BY <1>2, <1>3 DEF KeyInv

LEMMA KeyInvStep ==
  ASSUME KeyInv, UniqueIndexes, [Next]_vars
  PROVE  KeyInv'
<1>1. CASE UNCHANGED companies
  BY <1>1 DEF KeyInv, OneCompanyPerKey
<1>2. CASE \E c \in CompanyCall : CompanyStep(c)
  <2>1. PICK c \in CompanyCall : ReceiveCompanyCall(c) \/ HandleCompanyCall(c)
    BY <1>2 DEF CompanyStep
  <2>2. CASE WriteCompany(c)
    BY <1>1, <2>2, WriteKeyKeeps, DeleteCompanyKeeps
       DEF WriteCompany, CompanyThrows, storeVars
  <2> QED
    BY <1>1, <2>1, <2>2 DEF ReceiveCompanyCall, HandleCompanyCall, FindCompany, CheckKey,
       storeVars
<1>3. CASE \E u \in UserCall : UserStep(u)
  BY <1>1, <1>3 DEF UserStep, ReceiveUserCall, HandleUserCall, FindUser,
     EnsureCompanyExists, EnsureEmailsAreUnique, WriteUser, storeVars
<1>4. CASE \E r \in Review : Reviewing(r)
  BY <1>1, <1>4 DEF Reviewing, ReceiveReview, HandleReview, Guard, FindTask,
     UpdateReview, storeVars
<1>5. CASE (\E t \in TaskId : Creating(t)) \/ CatchUp \/ Quiescent
  BY <1>1, <1>5 DEF Creating, AddTask, CatchUp, Replicate, Quiescent, vars, storeVars
<1>6. CASE UNCHANGED vars
  BY <1>1, <1>6 DEF vars, storeVars
<1> QED
  BY <1>2, <1>3, <1>4, <1>5, <1>6 DEF Next

LEMMA KeyInvInit ==
  ASSUME Init
  PROVE  KeyInv
<1>1. companies = [c \in CompanyId |-> IF c \in DOMAIN Seeded THEN Seeded[c] ELSE Null]
  BY DEF Init
<1>2. \A c \in CompanyId : companies[c] # Null => c \in DOMAIN Seeded /\ companies[c] = Seeded[c]
  BY <1>1
<1>3. OneCompanyPerKey
  BY <1>2, SeedAssumption DEF OneCompanyPerKey
<1> QED
  BY <1>1, <1>3 DEF KeyInv

\* With the unique index of CompanySchema, a key opens at most one company,
\* however many creations and rotations race; the check of
\* ensureApiKeyIsUnique, whose answer may be stale, is not needed for it.
THEOREM KeysStayUnique ==
  ASSUME UniqueIndexes
  PROVE  Spec => []OneCompanyPerKey
<1>1. KeyInv /\ [Next]_vars => KeyInv'
  BY KeyInvStep
<1>2. Init => KeyInv
  BY KeyInvInit
<1>3. KeyInv => OneCompanyPerKey
  BY DEF KeyInv
<1> QED
  BY <1>1, <1>2, <1>3, PTL DEF Spec

-------------------------------------------------------------------------------
(* Addresses. *)

\* A call under way names a user, and a call that writes carries one.
UserOK(call) ==
  call.pc # "unsent" => call.id \in UserId /\ (call.op = "delete" \/ call.user \in User)

UserCallsOK ==
  /\ userCalls \in [UserCall -> UserCallState]
  /\ \A u \in UserCall : UserOK(userCalls[u])

\* An address has one owner.
SingleOwner ==
  \A u, v \in UserId :
    /\ users[u] # Null /\ users[v] # Null
    /\ users[u].emails \cap users[v].emails # {}
    => u = v

BookInv ==
  /\ users \in [UserId -> User \cup {Null}]
  /\ UserCallsOK
  /\ SingleOwner

LEMMA UserRequestKeeps ==
  ASSUME UserCallsOK, NEW u \in UserCall, NEW op \in {"create", "update", "delete"},
         NEW pc \in {"ensureCompany", "find"}, NEW id \in UserId,
         NEW user \in User \cup {Null}, op = "delete" \/ user \in User,
         UserRequest(u, pc, op, id, user)
  PROVE  UserCallsOK'
<1> DEFINE new == [pc |-> pc, op |-> op, id |-> id, user |-> user, answer |-> Null]
<1>1. new \in UserCallState
  BY DEF UserCallState
<1>2. UserOK(new)
  BY DEF UserOK
<1>3. userCalls' = [userCalls EXCEPT ![u] = new]
  BY DEF UserRequest
<1> HIDE DEF new
<1> QED
  BY <1>1, <1>2, <1>3 DEF UserCallsOK

LEMMA UserMoves ==
  ASSUME UserCallsOK, NEW u \in UserCall, userCalls[u].pc # "unsent",
         \/ \E pc \in {"ensureCompany", "checkEmails", "write"} : UserGoto(u, pc)
         \/ \E answer \in UserOutcome : UserAnswer(u, answer)
  PROVE  UserCallsOK'
<1> DEFINE new == userCalls'[u]
<1>1. userCalls[u] \in UserCallState /\ UserOK(userCalls[u])
  BY DEF UserCallsOK
<1>2. new \in UserCallState /\ new.id = userCalls[u].id /\ new.op = userCalls[u].op
        /\ new.user = userCalls[u].user
  BY <1>1 DEF UserCallsOK, UserCallState, UserOutcome, UserGoto, UserAnswer
<1>3. UserOK(new)
  BY <1>1, <1>2 DEF UserOK
<1>4. userCalls' = [userCalls EXCEPT ![u] = new]
  BY <1>1 DEF UserCallsOK, UserGoto, UserAnswer, UserCallState
<1> HIDE DEF new
<1> QED
  BY <1>2, <1>3, <1>4 DEF UserCallsOK

LEMMA UserCallsStep ==
  ASSUME UserCallsOK, NEW u \in UserCall, ReceiveUserCall(u) \/ HandleUserCall(u)
  PROVE  UserCallsOK'
<1>1. CASE ReceiveUserCall(u)
  <2>1. CASE \E id \in UserId : UserRequest(u, "find", "delete", id, Null)
    BY <2>1, UserRequestKeeps
  <2>2. CASE \E c \in CompanyId, spellings \in SUBSET Spelling \ {{}} :
               LET user == [companyId |-> c, emails |-> normalizeEmails(spellings)]
               IN  \/ UserRequest(u, "ensureCompany", "create", u, user)
                   \/ \E id \in UserId : UserRequest(u, "find", "update", id, user)
    <3>1. PICK c \in CompanyId, spellings \in SUBSET Spelling :
                 LET user == [companyId |-> c, emails |-> normalizeEmails(spellings)]
                 IN  \/ UserRequest(u, "ensureCompany", "create", u, user)
                     \/ \E id \in UserId : UserRequest(u, "find", "update", id, user)
      BY <2>2
    <3> DEFINE user == [companyId |-> c, emails |-> normalizeEmails(spellings)]
    <3>2. user \in User
      BY DEF User, normalizeEmails, Spelling
    <3>3. u \in UserId
      BY UserCallAssumption
    <3>4. \/ UserRequest(u, "ensureCompany", "create", u, user)
          \/ \E id \in UserId : UserRequest(u, "find", "update", id, user)
      BY <3>1
    <3> HIDE DEF user
    <3> QED
      BY <3>2, <3>3, <3>4, UserRequestKeeps
  <2> QED
    BY <1>1, <2>1, <2>2 DEF ReceiveUserCall
<1>2. CASE HandleUserCall(u)
  BY <1>2, UserMoves DEF HandleUserCall, UserAt, FindUser, EnsureCompanyExists,
     EnsureEmailsAreUnique, WriteUser, UserOutcome
<1> QED
  BY <1>1, <1>2

\* What a step does to the users: nothing, or one user gets its addresses, all
\* of them free of other owners, or loses all.
Owning(id, user) ==
  /\ user \in User \cup {Null}
  /\ users' = [users EXCEPT ![id] = user]
  /\ user # Null =>
       \A v \in UserId \ {id} : users[v] # Null => users[v].emails \cap user.emails = {}

LEMMA WriteUserOwns ==
  ASSUME UserCallsOK, UniqueIndexes, NEW u \in UserCall, WriteUser(u)
  PROVE  \/ UNCHANGED users
         \/ \E id \in UserId, user \in User \cup {Null} : Owning(id, user)
<1>1. userCalls[u].pc = "write" /\ UserOK(userCalls[u])
  BY DEF WriteUser, UserAt, UserCallsOK
<1>2. userCalls[u].id \in UserId
  BY <1>1 DEF UserOK
<1>3. CASE userCalls[u].op # "delete" /\ WriteUserDocument(u)
  <2>1. userCalls[u].user \in User
    BY <1>1, <1>3 DEF UserOK
  <2>2. Owning(userCalls[u].id, userCalls[u].user)
    BY <1>3, <2>1 DEF Owning, WriteUserDocument, DuplicateEmail
  <2> QED
    BY <1>2, <2>1, <2>2
<1>4. CASE users' = [users EXCEPT ![userCalls[u].id] = Null]
  BY <1>2, <1>4 DEF Owning
<1> QED
  BY <1>3, <1>4 DEF WriteUser, storeVars

LEMMA OwningKeeps ==
  ASSUME users \in [UserId -> User \cup {Null}], SingleOwner,
         NEW id \in UserId, NEW user \in User \cup {Null}, Owning(id, user)
  PROVE  users' \in [UserId -> User \cup {Null}] /\ SingleOwner'
<1>1. users' \in [UserId -> User \cup {Null}]
  BY DEF Owning
<1>2. \A v \in UserId : users'[v] = IF v = id THEN user ELSE users[v]
  BY DEF Owning
<1>3. SUFFICES ASSUME NEW v \in UserId, NEW w \in UserId,
                      users'[v] # Null, users'[w] # Null,
                      users'[v].emails \cap users'[w].emails # {}
               PROVE  v = w
  BY <1>1 DEF SingleOwner
<1>4. CASE v = id /\ w # id
  BY <1>2, <1>3, <1>4 DEF Owning
<1>5. CASE w = id /\ v # id
  <2>1. users[v].emails \cap user.emails = {}
    BY <1>2, <1>3, <1>5 DEF Owning
  <2> QED
    BY <1>2, <1>3, <1>5, <2>1
<1>6. CASE v # id /\ w # id
  BY <1>2, <1>3, <1>6 DEF SingleOwner
<1> QED
  BY <1>4, <1>5, <1>6

\* Every step either leaves the users alone or is Owning.
LEMMA BookStep ==
  ASSUME BookInv, UniqueIndexes, [Next]_vars
  PROVE  /\ UserCallsOK'
         /\ \/ UNCHANGED users
            \/ \E id \in UserId, user \in User \cup {Null} : Owning(id, user)
<1> UserCallsOK
  BY DEF BookInv
<1>1. CASE UNCHANGED <<users, userCalls>>
  BY <1>1 DEF UserCallsOK
<1>2. CASE \E u \in UserCall : UserStep(u)
  <2>1. PICK u \in UserCall : ReceiveUserCall(u) \/ HandleUserCall(u)
    BY <1>2 DEF UserStep
  <2>2. UserCallsOK'
    BY <2>1, UserCallsStep
  <2>3. UNCHANGED users \/ WriteUser(u)
    BY <2>1 DEF ReceiveUserCall, HandleUserCall, FindUser, EnsureCompanyExists,
       EnsureEmailsAreUnique, storeVars
  <2> QED
    BY <2>2, <2>3, WriteUserOwns
<1>3. CASE \E c \in CompanyCall : CompanyStep(c)
  BY <1>1, <1>3 DEF CompanyStep, ReceiveCompanyCall, HandleCompanyCall, FindCompany, CheckKey,
     WriteCompany, CompanyThrows, storeVars
<1>4. CASE \E r \in Review : Reviewing(r)
  BY <1>1, <1>4 DEF Reviewing, ReceiveReview, HandleReview, Guard, FindTask,
     UpdateReview, storeVars
<1>5. CASE (\E t \in TaskId : Creating(t)) \/ CatchUp \/ Quiescent
  BY <1>1, <1>5 DEF Creating, AddTask, CatchUp, Replicate, Quiescent, vars, storeVars
<1>6. CASE UNCHANGED vars
  BY <1>1, <1>6 DEF vars, storeVars
<1> QED
  BY <1>2, <1>3, <1>4, <1>5, <1>6 DEF Next

LEMMA BookInvStep ==
  ASSUME BookInv, UniqueIndexes, [Next]_vars
  PROVE  BookInv'
<1>1. CASE UNCHANGED users
  BY <1>1, BookStep DEF BookInv, SingleOwner
<1>2. CASE \E id \in UserId, user \in User \cup {Null} : Owning(id, user)
  BY <1>2, BookStep, OwningKeeps DEF BookInv
<1> QED
  BY <1>1, <1>2, BookStep

LEMMA BookInvInit ==
  ASSUME Init
  PROVE  BookInv
<1>1. users = [u \in UserId |-> IF u \in DOMAIN SeededUsers THEN SeededUsers[u] ELSE Null]
  BY DEF Init
<1>2. users \in [UserId -> User \cup {Null}]
  BY <1>1, SeedAssumption
<1>3. \A u \in UserId : users[u] # Null => u \in DOMAIN SeededUsers /\ users[u] = SeededUsers[u]
  BY <1>1
<1>4. SingleOwner
  BY <1>3, SeedAssumption DEF SingleOwner
<1>5. UserCallsOK
  BY DEF Init, UserInit, UserCallsOK, UserCallState, UserOK
<1> QED
  BY <1>2, <1>4, <1>5 DEF BookInv

LEMMA BookInvHolds ==
  ASSUME UniqueIndexes
  PROVE  Spec => []BookInv
<1>1. BookInv /\ [Next]_vars => BookInv'
  BY BookInvStep
<1>2. Init => BookInv
  BY BookInvInit
<1> QED
  BY <1>1, <1>2, PTL DEF Spec

\* The variable of AddressBook, as the refinement maps it.
owners == [a \in Address |-> ownersOf(a)]

\* Under the index, the owners of an address are nobody or one user.
LEMMA OwnersAre ==
  ASSUME BookInv
  PROVE  /\ \A a \in Address : ownersOf(a) \in Singletons(UserId) \cup {{}}
         /\ \A a \in Address, u \in UserId : u \in ownersOf(a) => ownersOf(a) = {u}
<1>1. ASSUME NEW a \in Address, NEW u \in UserId, u \in ownersOf(a)
      PROVE  ownersOf(a) = {u}
  BY <1>1 DEF BookInv, SingleOwner, ownersOf
<1>2. ASSUME NEW a \in Address
      PROVE  ownersOf(a) \in Singletons(UserId) \cup {{}}
  <2>1. CASE ownersOf(a) = {}
    BY <2>1
  <2>2. CASE \E u \in UserId : u \in ownersOf(a)
    BY <1>1, <2>2 DEF Singletons
  <2> QED
    BY <2>1, <2>2 DEF ownersOf
<1> QED
  BY <1>1, <1>2

\* The user id gets exactly the addresses in S: the abstract step.
LEMMA AbstractOwn ==
  ASSUME NEW id \in UserId, NEW S \in SUBSET Address,
         \A a \in S : ownersOf(a) \in {{id}, {}},
         \A a \in Address : ownersOf(a)' = IF a \in S THEN {id}
                                           ELSE IF ownersOf(a) = {id} THEN {}
                                           ELSE ownersOf(a)
  PROVE  BookPromise!Next
<1>1. PICK u \in Singletons(UserId) : u = {id}
  BY DEF Singletons
<1>2. /\ \A a \in S : owners[a] \in {u, {}}
      /\ owners' = [a \in Address |-> IF a \in S THEN u
                                      ELSE IF owners[a] = u THEN {} ELSE owners[a]]
  BY <1>1 DEF owners
<1>3. BookPromise!Own(u, S)
  BY <1>2 DEF BookPromise!Own, owners
<1> QED
  BY <1>3 DEF BookPromise!Next

LEMMA OwningRefines ==
  ASSUME BookInv, NEW id \in UserId, NEW user \in User \cup {Null}, Owning(id, user)
  PROVE  BookPromise!Next
<1> DEFINE S == IF user = Null THEN {} ELSE user.emails
<1>1. S \in SUBSET Address
  BY DEF User
<1>2. \A v \in UserId : users'[v] = IF v = id THEN user ELSE users[v]
  BY DEF Owning, BookInv
<1>3. ASSUME NEW a \in S
      PROVE  ownersOf(a) \in {{id}, {}}
  <2>1. \A v \in UserId \ {id} : v \notin ownersOf(a)
    BY <1>3 DEF Owning, ownersOf
  <2> QED
    BY <2>1 DEF ownersOf
<1>4. ASSUME NEW a \in Address
      PROVE  ownersOf(a)' = IF a \in S THEN {id}
                            ELSE IF ownersOf(a) = {id} THEN {} ELSE ownersOf(a)
  <2>1. \A v \in UserId : v \in ownersOf(a)' <=>
          IF v = id THEN a \in S ELSE v \in ownersOf(a)
    BY <1>2 DEF ownersOf
  <2>2. CASE a \in S
    BY <1>3, <2>1, <2>2 DEF ownersOf
  <2>3. CASE a \notin S /\ id \in ownersOf(a)
    BY <2>1, <2>3, OwnersAre DEF ownersOf
  <2>4. CASE a \notin S /\ id \notin ownersOf(a)
    BY <2>1, <2>4 DEF ownersOf
  <2> QED
    BY <2>2, <2>3, <2>4
<1> HIDE DEF S
<1> QED
  BY <1>1, <1>3, <1>4, AbstractOwn

LEMMA BookStepRefines ==
  ASSUME BookInv, UniqueIndexes, [Next]_vars
  PROVE  [BookPromise!Next]_owners
<1>1. CASE UNCHANGED users
  BY <1>1 DEF owners, ownersOf
<1>2. CASE \E id \in UserId, user \in User \cup {Null} : Owning(id, user)
  BY <1>2, OwningRefines
<1> QED
  BY <1>1, <1>2, BookStep

LEMMA BookInitRefines ==
  ASSUME Init
  PROVE  BookPromise!Init
<1>1. owners \in [Address -> Singletons(UserId) \cup {{}}]
  BY BookInvInit, OwnersAre DEF owners
<1> QED
  BY <1>1 DEF BookPromise!Init, owners

\* With the unique index of UserSchema, the administration of users implements
\* AddressBook: whatever races, an address never has two owners and is never
\* handed from one user to another in one step.
THEOREM UsersKeepBook ==
  ASSUME UniqueIndexes
  PROVE  Spec => KeepsBookPromise
<1>1. Init => BookPromise!Init
  BY BookInitRefines
<1>2. BookInv /\ [Next]_vars => [BookPromise!Next]_owners
  BY BookStepRefines
<1> QED
  BY <1>1, <1>2, BookInvHolds, PTL DEF Spec, KeepsBookPromise, BookPromise!Spec, owners

===============================================================================
