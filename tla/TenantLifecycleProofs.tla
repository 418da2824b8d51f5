-------------------------- MODULE TenantLifecycleProofs --------------------------
(***************************************************************************)
(* Proofs about what becomes of companies, users and tasks in TenantApi    *)
(* over time: what is deleted stays deleted, what points at nothing points *)
(* at something that was deleted, what cannot be reviewed never can.       *)
(*                                                                         *)
(* The argument is the same for companies and users.  An id that a call    *)
(* creates under is absent, on the primary and on the secondary, until     *)
(* that call is answered; a delete that got past its lookup saw the        *)
(* document, so its creator is answered; and no other call writes under an *)
(* id that is absent.                                                      *)
(***************************************************************************)
EXTENDS TenantApiProofs

-------------------------------------------------------------------------------
(* The inductive invariant. *)

\* What the code has established about a call at each of its awaits.
CompanyCallOK(c, call) ==
  /\ call.pc = "unsent" \/ call.op \in {"create", "update", "delete"}
  /\ call.pc # "unsent" => call.id \in CompanyId /\ (call.op = "delete" \/ call.apiKey \in Key)
  /\ call.pc # "unsent" /\ call.op = "create" => call.id = c
  /\ call.pc = "checkKey" => call.op # "delete"
  /\ call.pc # "answered" => call.answer = Null

UserCallOK(u, call) ==
  /\ call.pc = "unsent" \/ call.op \in {"create", "update", "delete"}
  /\ call.pc # "unsent" => call.id \in UserId /\ (call.op = "delete" \/ call.user \in User)
  /\ call.pc # "unsent" /\ call.op = "create" => call.id = u
  /\ call.pc \in {"ensureCompany", "checkEmails"} => call.op # "delete"
  /\ call.pc # "answered" => call.answer = Null

CompaniesOK ==
  /\ companies \in [CompanyId -> Key \cup {Null}]
  /\ companyCalls \in [CompanyCall -> CompanyCallState]
  /\ \A c \in CompanyCall : CompanyCallOK(c, companyCalls[c])

UsersOK ==
  /\ users \in [UserId -> User \cup {Null}]
  /\ userCalls \in [UserCall -> UserCallState]
  /\ \A u \in UserCall : UserCallOK(u, userCalls[u])

\* The call that creates under this id has not been answered, or creates nothing.
CompanyUnborn(c) ==
  /\ c \in CompanyCall
  /\ ~(companyCalls[c].op = "create" /\ companyCalls[c].pc = "answered")

UserUnborn(u) ==
  /\ u \in UserCall
  /\ ~(userCalls[u].op = "create" /\ userCalls[u].pc = "answered")

\* Nobody sees a document before its creation, and who deletes one saw it.
CompanyLives ==
  /\ \A c \in CompanyId :
       CompanyUnborn(c) => companies[c] = Null /\ secondary.companies[c] = Null
  /\ \A c \in CompanyCall, k \in CompanyId :
       /\ companyCalls[c].op = "delete" /\ companyCalls[c].id = k
       /\ companyCalls[c].pc = "write" \/ companyCalls[c].answer = "ok"
       => ~CompanyUnborn(k)

UserLives ==
  /\ \A u \in UserId : UserUnborn(u) => users[u] = Null /\ secondary.users[u] = Null
  /\ \A u \in UserCall, k \in UserId :
       /\ userCalls[u].op = "delete" /\ userCalls[u].id = k
       /\ userCalls[u].pc = "write" \/ userCalls[u].answer = "ok"
       => ~UserUnborn(k)

\* A call deleted the company, whatever its client was told.
WasDeleted(k) ==
  \E c \in CompanyCall : /\ companyCalls[c].op = "delete"
                         /\ companyCalls[c].id = k
                         /\ companyCalls[c].answer \in {"ok", "error"}

\* Somebody took the company to exist: a user of it, a call about to write one,
\* or the secondary, for itself or one of its users.
Relied(k) ==
  \/ secondary.companies[k] # Null
  \/ \E u \in UserId : users[u] # Null /\ users[u].companyId = k
  \/ \E u \in UserId : secondary.users[u] # Null /\ secondary.users[u].companyId = k
  \/ \E u \in UserCall : /\ userCalls[u].pc \in {"checkEmails", "write"}
                         /\ userCalls[u].op # "delete"
                         /\ userCalls[u].user.companyId = k

\* The company exists or has existed.
Founded(k) == companies[k] # Null \/ WasDeleted(k)

RelianceIsFounded == \A k \in CompanyId : Relied(k) => Founded(k)

-------------------------------------------------------------------------------
(* What a step of a call does. *)

\* The call only moves on: it writes nothing and is not answered "ok".
CompanyWaits(c, old, new) ==
  /\ UNCHANGED companies
  /\ new.answer # "ok"
  /\ new.op = "delete" /\ new.pc = "write" => visible.companies[new.id] # Null

\* It inserts its company, or changes one that is there.
CompanyPuts(c, old, new) ==
  /\ new.op = old.op /\ new.op # "delete"
  /\ new.pc = "answered"
  /\ companies' = [companies EXCEPT ![new.id] = new.apiKey]
  /\ new.op = "update" => companies[new.id] # Null

\* It deletes the company it looked up.
CompanyDrops(c, old, new) ==
  /\ old.pc = "write" /\ old.op = "delete" /\ new.op = "delete" /\ new.id = old.id
  /\ new.answer \in {"ok", "error"}
  /\ companies' = [companies EXCEPT ![new.id] = Null]

CompanyMoves(c, new) ==
  /\ new \in CompanyCallState
  /\ CompanyCallOK(c, new)
  /\ companyCalls[c].pc # "answered"
  /\ companyCalls' = [companyCalls EXCEPT ![c] = new]
  /\ UNCHANGED <<users, tasks, secondary>>
  /\ \/ CompanyWaits(c, companyCalls[c], new)
     \/ CompanyPuts(c, companyCalls[c], new)
     \/ CompanyDrops(c, companyCalls[c], new)

\* The keys a request may bring are keys.
LEMMA CompanyReceiveMoves ==
  ASSUME CompaniesOK, NEW c \in CompanyCall, ReceiveCompanyCall(c)
  PROVE  \E new \in CompanyCallState : CompanyMoves(c, new)
<1>1. companyCalls[c].pc = "unsent" /\ UNCHANGED storeVars
  BY DEF ReceiveCompanyCall, CompanyAt
<1>2. c \in CompanyId /\ Null \notin CompanyOutcome
  BY CompanyCallAssumption
<1>3. PICK pc \in {"find", "checkKey"}, op \in {"create", "update", "delete"},
           id \in CompanyId, key \in Key \cup {Null} :
             /\ CompanyRequest(c, pc, op, id, key)
             /\ op # "delete" => key \in Key
             /\ op = "create" => id = c
             /\ pc = "checkKey" => op # "delete"
  <2>1. CASE \/ CompanyRequest(c, "checkKey", "create", c, uuidv4(c))
             \/ \E raw \in RawKey :
                  CompanyRequest(c, "checkKey", "create", c,
                                 IF trim(raw) = <<>> THEN uuidv4(c) ELSE trim(raw))
    <3>1. PICK key \in Key : CompanyRequest(c, "checkKey", "create", c, key)
      BY <2>1, KeyAssumption
    <3> QED
      BY <1>2, <3>1
  <2>2. CASE \E raw \in RawKey, id \in CompanyId :
               CompanyRequest(c, "find", "update", id, trim(raw))
    BY <2>2, KeyAssumption
  <2>3. CASE \E id \in CompanyId : CompanyRequest(c, "find", "delete", id, Null)
    BY <2>3
  <2> QED
    BY <2>1, <2>2, <2>3 DEF ReceiveCompanyCall
<1> DEFINE new == [pc |-> pc, op |-> op, id |-> id, apiKey |-> key, answer |-> Null]
<1>4. new \in CompanyCallState /\ CompanyCallOK(c, new)
  BY <1>3 DEF CompanyCallState, CompanyCallOK
<1>5. companyCalls' = [companyCalls EXCEPT ![c] = new]
  BY <1>3 DEF CompanyRequest
<1>6. CompanyWaits(c, companyCalls[c], new)
  BY <1>1, <1>2 DEF CompanyWaits, storeVars, CompanyOutcome
<1> HIDE DEF new
<1> QED
  BY <1>1, <1>4, <1>5, <1>6 DEF CompanyMoves, storeVars

LEMMA CompanyHandleMoves ==
  ASSUME CompaniesOK, NEW c \in CompanyCall, HandleCompanyCall(c)
  PROVE  \E new \in CompanyCallState : CompanyMoves(c, new)
<1> DEFINE old == companyCalls[c]
           new == companyCalls'[c]
<1>1. old \in CompanyCallState /\ CompanyCallOK(c, old) /\ old.pc \in {"find", "checkKey", "write"}
  BY DEF CompaniesOK, HandleCompanyCall, FindCompany, CheckKey, WriteCompany, CompanyAt
<1>2. Null \notin CompanyOutcome
  BY CompanyCallAssumption
<1>3. /\ companyCalls' = [companyCalls EXCEPT ![c] = new]
      /\ new \in CompanyCallState
      /\ new.op = old.op /\ new.id = old.id /\ new.apiKey = old.apiKey
      /\ new.answer = old.answer \/ new.pc = "answered"
      /\ new.pc \in {"checkKey", "write", "answered"}
  BY <1>1 DEF CompaniesOK, HandleCompanyCall, FindCompany, CheckKey, WriteCompany, CompanyThrows,
     CompanyGoto, CompanyAnswer, CompanyCallState, CompanyOutcome
<1>4. new.pc = "checkKey" => old.op # "delete"
  BY <1>1 DEF CompaniesOK, HandleCompanyCall, FindCompany, CheckKey, WriteCompany, CompanyThrows,
     CompanyGoto, CompanyAnswer, CompanyCallState, CompanyAt, CompanyCallOK
<1>5. CompanyCallOK(c, new)
  BY <1>1, <1>3, <1>4 DEF CompanyCallOK
<1>6. UNCHANGED <<users, tasks, secondary>>
  BY DEF HandleCompanyCall, FindCompany, CheckKey, WriteCompany, CompanyThrows, storeVars
<1>7. CASE FindCompany(c)
  <2>1. new.pc = "write" => visible.companies[old.id] # Null
    BY <1>1, <1>7 DEF FindCompany, CompanyGoto, CompanyAnswer, CompaniesOK, CompanyCallState
  <2>2. new.answer # "ok"
    BY <1>1, <1>2, <1>7 DEF FindCompany, CompanyGoto, CompanyAnswer, CompaniesOK,
       CompanyCallState, CompanyCallOK, CompanyOutcome
  <2> QED
    BY <1>1, <1>3, <1>5, <1>6, <1>7, <2>1, <2>2
       DEF CompanyMoves, CompanyWaits, FindCompany, storeVars
<1>8. CASE CheckKey(c)
  <2>1. new.answer # "ok"
    BY <1>1, <1>2, <1>8 DEF CheckKey, CompanyGoto, CompanyAnswer, CompaniesOK,
       CompanyCallState, CompanyCallOK, CompanyOutcome
  <2>2. old.op # "delete"
    BY <1>1, <1>8 DEF CheckKey, CompanyAt, CompanyCallOK
  <2> QED
    BY <1>1, <1>3, <1>5, <1>6, <1>8, <2>1, <2>2
       DEF CompanyMoves, CompanyWaits, CheckKey, storeVars
<1>9. CASE WriteCompany(c)
  <2>1. old.pc = "write" /\ new.pc = "answered" /\ new.answer \in {"ok", "error"}
    BY <1>1, <1>9 DEF WriteCompany, CompanyAt, CompanyThrows, CompanyAnswer, CompaniesOK,
       CompanyCallState
  <2>2. CASE old.op # "delete" /\ WriteKey(c)
    <3>1. CompanyPuts(c, old, new)
      BY <1>3, <2>1, <2>2 DEF CompanyPuts, WriteKey
    <3> QED
      BY <1>1, <1>3, <1>5, <1>6, <3>1 DEF CompanyMoves
  <2>3. CASE old.op = "delete" /\ companies' = [companies EXCEPT ![old.id] = Null]
    <3>1. CompanyDrops(c, old, new)
      BY <1>3, <2>1, <2>3 DEF CompanyDrops
    <3> QED
      BY <1>1, <1>3, <1>5, <1>6, <3>1 DEF CompanyMoves
  <2>4. CASE CompanyThrows(c)
    <3>1. new.answer = "error" /\ UNCHANGED companies
      BY <1>1, <2>4 DEF CompanyThrows, CompanyAnswer, CompaniesOK, CompanyCallState, storeVars
    <3>2. CompanyWaits(c, old, new)
      BY <2>1, <3>1 DEF CompanyWaits
    <3> QED
      BY <1>1, <1>3, <1>5, <1>6, <3>2 DEF CompanyMoves
  <2> QED
    BY <1>9, <2>2, <2>3, <2>4 DEF WriteCompany
<1> QED
  BY <1>7, <1>8, <1>9 DEF HandleCompanyCall

\* A step of the whole is a move of one company call, or leaves the companies
\* and their calls alone.
LEMMA CompanySteps ==
  ASSUME CompaniesOK, [Next]_vars
  PROVE  \/ UNCHANGED <<companies, companyCalls>>
         \/ /\ \E c \in CompanyCall : \E new \in CompanyCallState : CompanyMoves(c, new)
            /\ UNCHANGED <<userCalls, reviews>>
<1>1. CASE \E c \in CompanyCall : CompanyStep(c)
  BY <1>1, CompanyReceiveMoves, CompanyHandleMoves DEF CompanyStep
<1>2. CASE \E u \in UserCall : UserStep(u)
  BY <1>2 DEF UserStep, ReceiveUserCall, HandleUserCall, FindUser,
     EnsureCompanyExists, EnsureEmailsAreUnique, WriteUser, storeVars
<1>3. CASE \E r \in Review : Reviewing(r)
  BY <1>3 DEF Reviewing, ReceiveReview, HandleReview, Guard, FindTask, UpdateReview, storeVars
<1>4. CASE (\E t \in TaskId : Creating(t)) \/ CatchUp \/ Quiescent
  BY <1>4 DEF Creating, AddTask, CatchUp, Replicate, Quiescent, vars, storeVars
<1>5. CASE UNCHANGED vars
  BY <1>5 DEF vars, storeVars
<1> QED
  BY <1>1, <1>2, <1>3, <1>4, <1>5 DEF Next

\* A move keeps the types of companies and of their calls.
LEMMA CompanyMovesType ==
  ASSUME CompaniesOK, NEW c \in CompanyCall, NEW new \in CompanyCallState, CompanyMoves(c, new)
  PROVE  CompaniesOK'
<1>1. new.pc # "unsent" /\ new.op # "delete" => new.apiKey \in Key /\ new.id \in CompanyId
  BY DEF CompanyMoves, CompanyCallOK
<1>2. companies' \in [CompanyId -> Key \cup {Null}]
  BY <1>1 DEF CompaniesOK, CompanyMoves, CompanyWaits, CompanyPuts, CompanyDrops
<1>3. companyCalls' \in [CompanyCall -> CompanyCallState]
  BY DEF CompaniesOK, CompanyMoves
<1>4. \A d \in CompanyCall : CompanyCallOK(d, companyCalls'[d])
  <2> SUFFICES ASSUME NEW d \in CompanyCall PROVE CompanyCallOK(d, companyCalls'[d])
    OBVIOUS
  <2>1. companyCalls'[d] = IF d = c THEN new ELSE companyCalls[d]
    BY DEF CompaniesOK, CompanyMoves
  <2> QED
    BY <2>1 DEF CompaniesOK, CompanyMoves
<1> QED
  BY <1>2, <1>3, <1>4 DEF CompaniesOK

LEMMA CompaniesOKStep ==
  ASSUME CompaniesOK, [Next]_vars
  PROVE  CompaniesOK'
<1>1. CASE UNCHANGED <<companies, companyCalls>>
  BY <1>1 DEF CompaniesOK
<1> QED
  BY <1>1, CompanySteps, CompanyMovesType

LEMMA CompaniesOKInit ==
  ASSUME Init
  PROVE  CompaniesOK
<1>1. companies = [c \in CompanyId |-> IF c \in DOMAIN Seeded THEN Seeded[c] ELSE Null]
  BY DEF Init
<1>2. companyCalls = [c \in CompanyCall |->
                       [pc |-> "unsent", op |-> Null, id |-> Null, apiKey |-> Null,
                        answer |-> Null]]
  BY DEF Init, CompanyInit
<1>3. companies \in [CompanyId -> Key \cup {Null}]
  BY <1>1, SeedAssumption
<1>4. companyCalls \in [CompanyCall -> CompanyCallState]
  BY <1>2 DEF CompanyCallState
<1>5. \A c \in CompanyCall : CompanyCallOK(c, companyCalls[c])
  <2> SUFFICES ASSUME NEW c \in CompanyCall PROVE CompanyCallOK(c, companyCalls[c])
    OBVIOUS
  <2> QED
    BY <1>2 DEF CompanyCallOK
<1> QED
  BY <1>3, <1>4, <1>5 DEF CompaniesOK

-------------------------------------------------------------------------------
(* Companies live once. *)

\* A creator that has been answered stays answered.
LEMMA CompanyStaysBorn ==
  ASSUME CompaniesOK, NEW k \in CompanyId, CompanyUnborn(k)',
         \/ UNCHANGED companyCalls
         \/ \E c \in CompanyCall : \E new \in CompanyCallState : CompanyMoves(c, new)
  PROVE  CompanyUnborn(k)
<1>1. CASE UNCHANGED companyCalls
  BY <1>1 DEF CompanyUnborn
<1>2. CASE \E c \in CompanyCall : \E new \in CompanyCallState : CompanyMoves(c, new)
  <2>1. PICK c \in CompanyCall, new \in CompanyCallState : CompanyMoves(c, new)
    BY <1>2
  <2>2. CASE k = c
    BY <2>1, <2>2 DEF CompanyUnborn, CompanyMoves
  <2>3. CASE k # c
    <3>1. k \in CompanyCall => companyCalls'[k] = companyCalls[k]
      BY <2>1, <2>3 DEF CompanyMoves, CompaniesOK
    <3> QED
      BY <3>1 DEF CompanyUnborn
  <2> QED
    BY <2>2, <2>3
<1> QED
  BY <1>1, <1>2

\* Only the call that creates under an absent id writes there, and is answered.
LEMMA CompanyBirth ==
  ASSUME CompaniesOK, NEW c \in CompanyCall, NEW new \in CompanyCallState, CompanyMoves(c, new),
         NEW k \in CompanyId, companies[k] = Null, companies'[k] # Null
  PROVE  k = c /\ ~CompanyUnborn(k)'
<1>1. companyCalls'[c] = new
  BY DEF CompaniesOK, CompanyMoves
<1>2. CompanyPuts(c, companyCalls[c], new) /\ new.id = k
  BY DEF CompanyMoves, CompanyWaits, CompanyPuts, CompanyDrops, CompaniesOK
<1>3. new.pc = "answered" /\ new.op # "delete" /\ new.op # "update"
  BY <1>2 DEF CompanyPuts
<1>4. new.op = "create" /\ k = c
  BY <1>2, <1>3 DEF CompanyMoves, CompanyCallOK
<1> QED
  BY <1>1, <1>3, <1>4 DEF CompanyUnborn

LEMMA CompanyLivesMove ==
  ASSUME CompaniesOK, CompanyLives, NEW c \in CompanyCall, NEW new \in CompanyCallState,
         CompanyMoves(c, new)
  PROVE  CompanyLives'
<1>1. UNCHANGED secondary
  BY DEF CompanyMoves
<1>2. ASSUME NEW k \in CompanyId, CompanyUnborn(k)'
      PROVE  companies'[k] = Null /\ secondary'.companies[k] = Null
  <2>1. CompanyUnborn(k)
    BY <1>2, CompanyStaysBorn
  <2>2. companies[k] = Null /\ secondary.companies[k] = Null
    BY <2>1 DEF CompanyLives
  <2> QED
    BY <1>1, <1>2, <2>2, CompanyBirth
<1>3. ASSUME NEW d \in CompanyCall, NEW k \in CompanyId,
             companyCalls'[d].op = "delete", companyCalls'[d].id = k,
             companyCalls'[d].pc = "write" \/ companyCalls'[d].answer = "ok"
      PROVE  ~CompanyUnborn(k)'
  <2>1. companyCalls'[d] = IF d = c THEN new ELSE companyCalls[d]
    BY DEF CompaniesOK, CompanyMoves
  <2>2. SUFFICES ~CompanyUnborn(k)
    BY CompanyStaysBorn
  <2>3. CASE d # c \/ CompanyDrops(c, companyCalls[c], new)
    BY <1>3, <2>1, <2>3 DEF CompanyLives, CompanyDrops
  <2>4. CASE d = c /\ CompanyWaits(c, companyCalls[c], new)
    <3>1. visible.companies[k] # Null
      BY <1>3, <2>1, <2>4 DEF CompanyWaits
    <3> QED
      BY <3>1 DEF CompanyLives, visible, primary
  <2>5. CASE d = c /\ CompanyPuts(c, companyCalls[c], new)
    BY <1>3, <2>1, <2>5 DEF CompanyPuts
  <2> QED
    BY <2>3, <2>4, <2>5 DEF CompanyMoves
<1> QED
  BY <1>2, <1>3 DEF CompanyLives

\* Only catching up changes the secondary, and then it is what the primary is.
LEMMA SecondaryFollows ==
  ASSUME [Next]_vars
  PROVE  \/ UNCHANGED secondary
         \/ secondary' = primary /\ UNCHANGED <<companies, users, tasks>>
<1>1. CASE \E c \in CompanyCall : CompanyStep(c)
  BY <1>1 DEF CompanyStep, ReceiveCompanyCall, HandleCompanyCall, FindCompany, CheckKey,
     WriteCompany, CompanyThrows, storeVars
<1>2. CASE \E u \in UserCall : UserStep(u)
  BY <1>2 DEF UserStep, ReceiveUserCall, HandleUserCall, FindUser,
     EnsureCompanyExists, EnsureEmailsAreUnique, WriteUser, storeVars
<1>3. CASE \E r \in Review : Reviewing(r)
  BY <1>3 DEF Reviewing, ReceiveReview, HandleReview, Guard, FindTask, UpdateReview, storeVars
<1>4. CASE CatchUp
  BY <1>4 DEF CatchUp, Replicate
<1>5. CASE (\E t \in TaskId : Creating(t)) \/ Quiescent \/ UNCHANGED vars
  BY <1>5 DEF Creating, AddTask, Quiescent, vars, storeVars
<1> QED
  BY <1>1, <1>2, <1>3, <1>4, <1>5 DEF Next

LEMMA CompanyLivesStep ==
  ASSUME CompaniesOK, CompanyLives, [Next]_vars
  PROVE  CompanyLives'
<1>1. CASE UNCHANGED <<companies, companyCalls>>
  <2>1. \A k \in CompanyId : CompanyUnborn(k)' = CompanyUnborn(k)
    BY <1>1 DEF CompanyUnborn
  <2>2. \A k \in CompanyId : CompanyUnborn(k)' =>
          companies'[k] = Null /\ secondary'.companies[k] = Null
    BY <1>1, <2>1, SecondaryFollows DEF CompanyLives, primary
  <2> QED
    BY <1>1, <2>1, <2>2 DEF CompanyLives
<1> QED
  BY <1>1, CompanySteps, CompanyLivesMove

LEMMA CompanyLivesInit ==
  ASSUME Init
  PROVE  CompanyLives
<1>1. companies = [c \in CompanyId |-> IF c \in DOMAIN Seeded THEN Seeded[c] ELSE Null]
  BY DEF Init
<1>2. secondary.companies = companies
  BY DEF Init, primary
<1>3. companyCalls = [c \in CompanyCall |->
                       [pc |-> "unsent", op |-> Null, id |-> Null, apiKey |-> Null,
                        answer |-> Null]]
  BY DEF Init, CompanyInit
<1>4. \A k \in CompanyId : CompanyUnborn(k) => companies[k] = Null
  BY <1>1, SeedAssumption DEF CompanyUnborn
<1>5. \A c \in CompanyCall : ~(companyCalls[c].pc = "write" \/ companyCalls[c].answer = "ok")
  BY <1>3, CompanyCallAssumption DEF CompanyOutcome
<1> QED
  BY <1>2, <1>4, <1>5 DEF CompanyLives

LEMMA CompanyInvHolds == Spec => [](CompaniesOK /\ CompanyLives)
<1>1. Init => CompaniesOK /\ CompanyLives
  BY CompaniesOKInit, CompanyLivesInit
<1>2. CompaniesOK /\ CompanyLives /\ [Next]_vars => (CompaniesOK /\ CompanyLives)'
  BY CompaniesOKStep, CompanyLivesStep
<1> QED
  BY <1>1, <1>2, PTL DEF Spec

LEMMA DeletedCompanyStep ==
  ASSUME CompaniesOK, CompanyLives, DeletedCompanyIsGone, [Next]_vars
  PROVE  DeletedCompanyIsGone'
<1>1. CASE UNCHANGED <<companies, companyCalls>>
  BY <1>1 DEF DeletedCompanyIsGone
<1>2. CASE \E c \in CompanyCall : \E new \in CompanyCallState : CompanyMoves(c, new)
  <2>1. PICK c \in CompanyCall, new \in CompanyCallState : CompanyMoves(c, new)
    BY <1>2
  <2>2. SUFFICES ASSUME NEW d \in CompanyCall, companyCalls'[d].op = "delete",
                        companyCalls'[d].answer = "ok"
                 PROVE  companies'[companyCalls'[d].id] = Null
    BY DEF DeletedCompanyIsGone
  <2>3. companyCalls'[d] = IF d = c THEN new ELSE companyCalls[d]
    BY <2>1 DEF CompaniesOK, CompanyMoves
  <2>4. companyCalls'[d].id \in CompanyId
    BY <2>1, <2>2, <2>3, CompanyCallAssumption
       DEF CompanyMoves, CompanyCallOK, CompaniesOK, CompanyOutcome
  <2>5. CASE d = c
    BY <2>1, <2>2, <2>3, <2>4, <2>5
       DEF CompanyMoves, CompanyWaits, CompanyPuts, CompanyDrops, CompaniesOK
  <2>6. CASE d # c
    <3> DEFINE k == companyCalls[d].id
    <3>1. companies[k] = Null /\ ~CompanyUnborn(k) /\ k \in CompanyId
      BY <2>2, <2>3, <2>4, <2>6 DEF DeletedCompanyIsGone, CompanyLives
    <3>2. companies'[k] # Null => k = c
      BY <2>1, <3>1, CompanyBirth
    <3>3. k # c
      BY <2>1, <3>1 DEF CompanyMoves, CompanyUnborn
    <3> QED
      BY <2>3, <2>6, <3>2, <3>3
  <2> QED
    BY <2>5, <2>6
<1> QED
  BY <1>1, <1>2, CompanySteps

\* Whatever creations and updates race with it, a company that deleteCompany
\* answered as deleted never comes back: an update in flight finds nothing to
\* change, and no creation uses its id again.
THEOREM DeletedCompaniesStayGone == Spec => []DeletedCompanyIsGone
<1>1. Init => DeletedCompanyIsGone
  BY CompanyCallAssumption DEF Init, CompanyInit, DeletedCompanyIsGone, CompanyOutcome
<1>2. CompaniesOK /\ CompanyLives /\ DeletedCompanyIsGone /\ [Next]_vars => DeletedCompanyIsGone'
  BY DeletedCompanyStep
<1> QED
  BY <1>1, <1>2, CompanyInvHolds, PTL DEF Spec

-------------------------------------------------------------------------------
(* Users live once. *)

UserWaits(u, old, new) ==
  /\ UNCHANGED users
  /\ new.answer # "ok"
  /\ new.op = "delete" /\ new.pc = "write" => visible.users[new.id] # Null

UserPuts(u, old, new) ==
  /\ old.pc = "write" /\ new.op = old.op /\ new.op # "delete"
  /\ new.user = old.user
  /\ new.pc = "answered"
  /\ users' = [users EXCEPT ![new.id] = new.user]
  /\ new.op = "update" => users[new.id] # Null

UserDrops(u, old, new) ==
  /\ old.pc = "write" /\ old.op = "delete" /\ new.op = "delete" /\ new.id = old.id
  /\ new.pc = "answered"
  /\ users' = [users EXCEPT ![new.id] = Null]

\* Past ensureCompanyExists, the call found the company of its user.
FoundCompany(u, old, new) ==
  new.pc \in {"checkEmails", "write"} /\ new.op # "delete" =>
    \/ visible.companies[new.user.companyId] # Null
    \/ old.pc = "checkEmails" /\ old.op = new.op /\ old.user = new.user

UserMovesTo(u, new) ==
  /\ new \in UserCallState
  /\ UserCallOK(u, new)
  /\ userCalls[u].pc # "answered"
  /\ userCalls' = [userCalls EXCEPT ![u] = new]
  /\ UNCHANGED <<companies, tasks, secondary>>
  /\ FoundCompany(u, userCalls[u], new)
  /\ \/ UserWaits(u, userCalls[u], new)
     \/ UserPuts(u, userCalls[u], new)
     \/ UserDrops(u, userCalls[u], new)

LEMMA UserReceiveMoves ==
  ASSUME UsersOK, NEW u \in UserCall, ReceiveUserCall(u)
  PROVE  \E new \in UserCallState : UserMovesTo(u, new)
<1>1. userCalls[u].pc = "unsent" /\ UNCHANGED storeVars
  BY DEF ReceiveUserCall, UserAt
<1>2. u \in UserId /\ Null \notin UserOutcome
  BY UserCallAssumption
<1>3. PICK pc \in {"find", "ensureCompany"}, op \in {"create", "update", "delete"},
           id \in UserId, user \in User \cup {Null} :
             /\ UserRequest(u, pc, op, id, user)
             /\ op # "delete" => user \in User
             /\ op = "create" => id = u
             /\ pc = "ensureCompany" => op # "delete"
  <2>1. CASE \E c \in CompanyId, spellings \in SUBSET Spelling \ {{}} :
               LET user == [companyId |-> c, emails |-> normalizeEmails(spellings)]
               IN  \/ UserRequest(u, "ensureCompany", "create", u, user)
                   \/ \E id \in UserId : UserRequest(u, "find", "update", id, user)
    <3>1. PICK c \in CompanyId, spellings \in SUBSET Spelling :
                 LET user == [companyId |-> c, emails |-> normalizeEmails(spellings)]
                 IN  \/ UserRequest(u, "ensureCompany", "create", u, user)
                     \/ \E id \in UserId : UserRequest(u, "find", "update", id, user)
      BY <2>1
    <3> DEFINE user == [companyId |-> c, emails |-> normalizeEmails(spellings)]
    <3>2. user \in User
      BY DEF User, normalizeEmails, Spelling
    <3>3. \/ UserRequest(u, "ensureCompany", "create", u, user)
          \/ \E id \in UserId : UserRequest(u, "find", "update", id, user)
      BY <3>1
    <3> HIDE DEF user
    <3> QED
      BY <1>2, <3>2, <3>3
  <2>2. CASE \E id \in UserId : UserRequest(u, "find", "delete", id, Null)
    BY <2>2
  <2> QED
    BY <2>1, <2>2 DEF ReceiveUserCall
<1> DEFINE new == [pc |-> pc, op |-> op, id |-> id, user |-> user, answer |-> Null]
<1>4. new \in UserCallState /\ UserCallOK(u, new)
  BY <1>3 DEF UserCallState, UserCallOK
<1>5. userCalls' = [userCalls EXCEPT ![u] = new]
  BY <1>3 DEF UserRequest
<1>6. UserWaits(u, userCalls[u], new) /\ FoundCompany(u, userCalls[u], new)
  BY <1>1, <1>2 DEF UserWaits, FoundCompany, storeVars, UserOutcome
<1> HIDE DEF new
<1> QED
  BY <1>1, <1>4, <1>5, <1>6 DEF UserMovesTo, storeVars

LEMMA UserHandleMoves ==
  ASSUME UsersOK, NEW u \in UserCall, HandleUserCall(u)
  PROVE  \E new \in UserCallState : UserMovesTo(u, new)
<1> DEFINE old == userCalls[u]
           new == userCalls'[u]
<1>1. old \in UserCallState /\ UserCallOK(u, old)
        /\ old.pc \in {"find", "ensureCompany", "checkEmails", "write"}
  BY DEF UsersOK, HandleUserCall, FindUser, EnsureCompanyExists, EnsureEmailsAreUnique, WriteUser,
     UserAt
<1>2. Null \notin UserOutcome
  BY UserCallAssumption
<1>3. /\ userCalls' = [userCalls EXCEPT ![u] = new]
      /\ new \in UserCallState
      /\ new.op = old.op /\ new.id = old.id /\ new.user = old.user
      /\ new.answer = old.answer \/ new.pc = "answered"
      /\ new.pc \in {"ensureCompany", "checkEmails", "write", "answered"}
  BY <1>1 DEF UsersOK, HandleUserCall, FindUser, EnsureCompanyExists, EnsureEmailsAreUnique,
     WriteUser, UserGoto, UserAnswer, UserCallState, UserOutcome
<1>4. new.pc \in {"ensureCompany", "checkEmails"} => old.op # "delete"
  BY <1>1 DEF UsersOK, HandleUserCall, FindUser, EnsureCompanyExists, EnsureEmailsAreUnique,
     WriteUser, UserGoto, UserAnswer, UserCallState, UserAt, UserCallOK
<1>5. UserCallOK(u, new)
  BY <1>1, <1>3, <1>4 DEF UserCallOK
<1>6. UNCHANGED <<companies, tasks, secondary>>
  BY DEF HandleUserCall, FindUser, EnsureCompanyExists, EnsureEmailsAreUnique, WriteUser, storeVars
<1>7. CASE FindUser(u)
  <2>1. new.pc = "write" => old.op = "delete" /\ visible.users[old.id] # Null
    BY <1>1, <1>7 DEF FindUser, UserGoto, UserAnswer, UsersOK, UserCallState
  <2>2. new.answer # "ok" /\ new.pc # "checkEmails"
    BY <1>1, <1>2, <1>7 DEF FindUser, UserGoto, UserAnswer, UsersOK, UserCallState, UserCallOK,
       UserOutcome
  <2> QED
    BY <1>1, <1>3, <1>5, <1>6, <1>7, <2>1, <2>2
       DEF UserMovesTo, UserWaits, FoundCompany, FindUser, storeVars
<1>8. CASE EnsureCompanyExists(u)
  <2>1. new.answer # "ok"
    BY <1>1, <1>2, <1>8 DEF EnsureCompanyExists, UserGoto, UserAnswer, UsersOK, UserCallState,
       UserCallOK, UserOutcome
  <2>2. /\ old.op # "delete"
        /\ new.pc \in {"checkEmails", "write"} => visible.companies[old.user.companyId] # Null
    BY <1>1, <1>8 DEF EnsureCompanyExists, UserAt, UserCallOK, UserGoto, UserAnswer, UsersOK,
       UserCallState
  <2> QED
    BY <1>1, <1>3, <1>5, <1>6, <1>8, <2>1, <2>2
       DEF UserMovesTo, UserWaits, FoundCompany, EnsureCompanyExists, storeVars
<1>9. CASE EnsureEmailsAreUnique(u)
  <2>1. new.answer # "ok"
    BY <1>1, <1>2, <1>9 DEF EnsureEmailsAreUnique, UserGoto, UserAnswer, UsersOK, UserCallState,
       UserCallOK, UserOutcome
  <2>2. old.op # "delete" /\ old.pc = "checkEmails"
    BY <1>1, <1>9 DEF EnsureEmailsAreUnique, UserAt, UserCallOK
  <2> QED
    BY <1>1, <1>3, <1>5, <1>6, <1>9, <2>1, <2>2
       DEF UserMovesTo, UserWaits, FoundCompany, EnsureEmailsAreUnique, storeVars
<1>10. CASE WriteUser(u)
  <2>1. old.pc = "write" /\ new.pc = "answered"
    BY <1>1, <1>10 DEF WriteUser, UserAt, UserAnswer, UsersOK, UserCallState
  <2>2. FoundCompany(u, old, new)
    BY <2>1 DEF FoundCompany
  <2>3. CASE old.op # "delete" /\ WriteUserDocument(u)
    <3>1. UserPuts(u, old, new)
      BY <1>3, <2>1, <2>3 DEF UserPuts, WriteUserDocument
    <3> QED
      BY <1>1, <1>3, <1>5, <1>6, <2>2, <3>1 DEF UserMovesTo
  <2>4. CASE old.op = "delete" /\ users' = [users EXCEPT ![old.id] = Null]
    <3>1. UserDrops(u, old, new)
      BY <1>3, <2>1, <2>4 DEF UserDrops
    <3> QED
      BY <1>1, <1>3, <1>5, <1>6, <2>2, <3>1 DEF UserMovesTo
  <2>5. CASE UserAnswer(u, "error") /\ UNCHANGED storeVars
    <3>1. new.answer = "error" /\ UNCHANGED users
      BY <1>1, <2>5 DEF UserAnswer, UsersOK, UserCallState, storeVars
    <3>2. UserWaits(u, old, new)
      BY <2>1, <3>1 DEF UserWaits
    <3> QED
      BY <1>1, <1>3, <1>5, <1>6, <2>2, <3>2 DEF UserMovesTo
  <2> QED
    BY <1>10, <2>3, <2>4, <2>5 DEF WriteUser
<1> QED
  BY <1>7, <1>8, <1>9, <1>10 DEF HandleUserCall

LEMMA UserSteps ==
  ASSUME UsersOK, [Next]_vars
  PROVE  \/ UNCHANGED <<users, userCalls>>
         \/ /\ \E u \in UserCall : \E new \in UserCallState : UserMovesTo(u, new)
            /\ UNCHANGED <<companyCalls, reviews>>
<1>1. CASE \E u \in UserCall : UserStep(u)
  BY <1>1, UserReceiveMoves, UserHandleMoves DEF UserStep
<1>2. CASE \E c \in CompanyCall : CompanyStep(c)
  BY <1>2 DEF CompanyStep, ReceiveCompanyCall, HandleCompanyCall, FindCompany, CheckKey,
     WriteCompany, CompanyThrows, storeVars
<1>3. CASE \E r \in Review : Reviewing(r)
  BY <1>3 DEF Reviewing, ReceiveReview, HandleReview, Guard, FindTask, UpdateReview, storeVars
<1>4. CASE (\E t \in TaskId : Creating(t)) \/ CatchUp \/ Quiescent
  BY <1>4 DEF Creating, AddTask, CatchUp, Replicate, Quiescent, vars, storeVars
<1>5. CASE UNCHANGED vars
  BY <1>5 DEF vars, storeVars
<1> QED
  BY <1>1, <1>2, <1>3, <1>4, <1>5 DEF Next

LEMMA UserMovesType ==
  ASSUME UsersOK, NEW u \in UserCall, NEW new \in UserCallState, UserMovesTo(u, new)
  PROVE  UsersOK'
<1>1. new.pc # "unsent" /\ new.op # "delete" => new.user \in User /\ new.id \in UserId
  BY DEF UserMovesTo, UserCallOK
<1>2. users' \in [UserId -> User \cup {Null}]
  BY <1>1 DEF UsersOK, UserMovesTo, UserWaits, UserPuts, UserDrops
<1>3. userCalls' \in [UserCall -> UserCallState]
  BY DEF UsersOK, UserMovesTo
<1>4. \A v \in UserCall : UserCallOK(v, userCalls'[v])
  <2> SUFFICES ASSUME NEW v \in UserCall PROVE UserCallOK(v, userCalls'[v])
    OBVIOUS
  <2>1. userCalls'[v] = IF v = u THEN new ELSE userCalls[v]
    BY DEF UsersOK, UserMovesTo
  <2> QED
    BY <2>1 DEF UsersOK, UserMovesTo
<1> QED
  BY <1>2, <1>3, <1>4 DEF UsersOK

LEMMA UsersOKStep ==
  ASSUME UsersOK, [Next]_vars
  PROVE  UsersOK'
<1>1. CASE UNCHANGED <<users, userCalls>>
  BY <1>1 DEF UsersOK
<1> QED
  BY <1>1, UserSteps, UserMovesType

LEMMA UsersOKInit ==
  ASSUME Init
  PROVE  UsersOK
<1>1. users = [u \in UserId |-> IF u \in DOMAIN SeededUsers THEN SeededUsers[u] ELSE Null]
  BY DEF Init
<1>2. userCalls = [u \in UserCall |->
                     [pc |-> "unsent", op |-> Null, id |-> Null, user |-> Null,
                      answer |-> Null]]
  BY DEF Init, UserInit
<1>3. users \in [UserId -> User \cup {Null}]
  BY <1>1, SeedAssumption
<1>4. userCalls \in [UserCall -> UserCallState]
  BY <1>2 DEF UserCallState
<1>5. \A u \in UserCall : UserCallOK(u, userCalls[u])
  <2> SUFFICES ASSUME NEW u \in UserCall PROVE UserCallOK(u, userCalls[u])
    OBVIOUS
  <2> QED
    BY <1>2 DEF UserCallOK
<1> QED
  BY <1>3, <1>4, <1>5 DEF UsersOK

LEMMA UserStaysBorn ==
  ASSUME UsersOK, NEW k \in UserId, UserUnborn(k)',
         \/ UNCHANGED userCalls
         \/ \E u \in UserCall : \E new \in UserCallState : UserMovesTo(u, new)
  PROVE  UserUnborn(k)
<1>1. CASE UNCHANGED userCalls
  BY <1>1 DEF UserUnborn
<1>2. CASE \E u \in UserCall : \E new \in UserCallState : UserMovesTo(u, new)
  <2>1. PICK u \in UserCall, new \in UserCallState : UserMovesTo(u, new)
    BY <1>2
  <2>2. CASE k = u
    BY <2>1, <2>2 DEF UserUnborn, UserMovesTo
  <2>3. CASE k # u
    <3>1. k \in UserCall => userCalls'[k] = userCalls[k]
      BY <2>1, <2>3 DEF UserMovesTo, UsersOK
    <3> QED
      BY <3>1 DEF UserUnborn
  <2> QED
    BY <2>2, <2>3
<1> QED
  BY <1>1, <1>2

LEMMA UserBirth ==
  ASSUME UsersOK, NEW u \in UserCall, NEW new \in UserCallState, UserMovesTo(u, new),
         NEW k \in UserId, users[k] = Null, users'[k] # Null
  PROVE  k = u /\ ~UserUnborn(k)'
<1>1. userCalls'[u] = new
  BY DEF UsersOK, UserMovesTo
<1>2. UserPuts(u, userCalls[u], new) /\ new.id = k
  BY DEF UserMovesTo, UserWaits, UserPuts, UserDrops, UsersOK
<1>3. new.pc = "answered" /\ new.op # "delete" /\ new.op # "update"
  BY <1>2 DEF UserPuts
<1>4. new.op = "create" /\ k = u
  BY <1>2, <1>3 DEF UserMovesTo, UserCallOK
<1> QED
  BY <1>1, <1>3, <1>4 DEF UserUnborn

LEMMA UserLivesMove ==
  ASSUME UsersOK, UserLives, NEW u \in UserCall, NEW new \in UserCallState, UserMovesTo(u, new)
  PROVE  UserLives'
<1>1. UNCHANGED secondary
  BY DEF UserMovesTo
<1>2. ASSUME NEW k \in UserId, UserUnborn(k)'
      PROVE  users'[k] = Null /\ secondary'.users[k] = Null
  <2>1. UserUnborn(k)
    BY <1>2, UserStaysBorn
  <2>2. users[k] = Null /\ secondary.users[k] = Null
    BY <2>1 DEF UserLives
  <2> QED
    BY <1>1, <1>2, <2>2, UserBirth
<1>3. ASSUME NEW v \in UserCall, NEW k \in UserId,
             userCalls'[v].op = "delete", userCalls'[v].id = k,
             userCalls'[v].pc = "write" \/ userCalls'[v].answer = "ok"
      PROVE  ~UserUnborn(k)'
  <2>1. userCalls'[v] = IF v = u THEN new ELSE userCalls[v]
    BY DEF UsersOK, UserMovesTo
  <2>2. SUFFICES ~UserUnborn(k)
    BY UserStaysBorn
  <2>3. CASE v # u \/ UserDrops(u, userCalls[u], new)
    BY <1>3, <2>1, <2>3 DEF UserLives, UserDrops
  <2>4. CASE v = u /\ UserWaits(u, userCalls[u], new)
    <3>1. visible.users[k] # Null
      BY <1>3, <2>1, <2>4 DEF UserWaits
    <3> QED
      BY <3>1 DEF UserLives, visible, primary
  <2>5. CASE v = u /\ UserPuts(u, userCalls[u], new)
    BY <1>3, <2>1, <2>5 DEF UserPuts
  <2> QED
    BY <2>3, <2>4, <2>5 DEF UserMovesTo
<1> QED
  BY <1>2, <1>3 DEF UserLives

LEMMA UserLivesStep ==
  ASSUME UsersOK, UserLives, [Next]_vars
  PROVE  UserLives'
<1>1. CASE UNCHANGED <<users, userCalls>>
  <2>1. \A k \in UserId : UserUnborn(k)' = UserUnborn(k)
    BY <1>1 DEF UserUnborn
  <2>2. \A k \in UserId : UserUnborn(k)' => users'[k] = Null /\ secondary'.users[k] = Null
    BY <1>1, <2>1, SecondaryFollows DEF UserLives, primary
  <2> QED
    BY <1>1, <2>1, <2>2 DEF UserLives
<1> QED
  BY <1>1, UserSteps, UserLivesMove

LEMMA UserLivesInit ==
  ASSUME Init
  PROVE  UserLives
<1>1. users = [u \in UserId |-> IF u \in DOMAIN SeededUsers THEN SeededUsers[u] ELSE Null]
  BY DEF Init
<1>2. secondary.users = users
  BY DEF Init, primary
<1>3. userCalls = [u \in UserCall |->
                     [pc |-> "unsent", op |-> Null, id |-> Null, user |-> Null,
                      answer |-> Null]]
  BY DEF Init, UserInit
<1>4. \A k \in UserId : UserUnborn(k) => users[k] = Null
  BY <1>1, SeedAssumption DEF UserUnborn
<1>5. \A u \in UserCall : ~(userCalls[u].pc = "write" \/ userCalls[u].answer = "ok")
  BY <1>3, UserCallAssumption DEF UserOutcome
<1> QED
  BY <1>2, <1>4, <1>5 DEF UserLives

LEMMA UserInvHolds == Spec => [](UsersOK /\ UserLives)
<1>1. Init => UsersOK /\ UserLives
  BY UsersOKInit, UserLivesInit
<1>2. UsersOK /\ UserLives /\ [Next]_vars => (UsersOK /\ UserLives)'
  BY UsersOKStep, UserLivesStep
<1> QED
  BY <1>1, <1>2, PTL DEF Spec

LEMMA DeletedUserStep ==
  ASSUME UsersOK, UserLives, DeletedUserIsGone, [Next]_vars
  PROVE  DeletedUserIsGone'
<1>1. CASE UNCHANGED <<users, userCalls>>
  BY <1>1 DEF DeletedUserIsGone
<1>2. CASE \E u \in UserCall : \E new \in UserCallState : UserMovesTo(u, new)
  <2>1. PICK u \in UserCall, new \in UserCallState : UserMovesTo(u, new)
    BY <1>2
  <2>2. SUFFICES ASSUME NEW v \in UserCall, userCalls'[v].op = "delete",
                        userCalls'[v].answer = "ok"
                 PROVE  users'[userCalls'[v].id] = Null
    BY DEF DeletedUserIsGone
  <2>3. userCalls'[v] = IF v = u THEN new ELSE userCalls[v]
    BY <2>1 DEF UsersOK, UserMovesTo
  <2>4. userCalls'[v].id \in UserId
    BY <2>1, <2>2, <2>3, UserCallAssumption DEF UserMovesTo, UserCallOK, UsersOK, UserOutcome
  <2>5. CASE v = u
    BY <2>1, <2>2, <2>3, <2>4, <2>5 DEF UserMovesTo, UserWaits, UserPuts, UserDrops, UsersOK
  <2>6. CASE v # u
    <3> DEFINE k == userCalls[v].id
    <3>1. users[k] = Null /\ ~UserUnborn(k) /\ k \in UserId
      BY <2>2, <2>3, <2>4, <2>6 DEF DeletedUserIsGone, UserLives
    <3>2. users'[k] # Null => k = u
      BY <2>1, <3>1, UserBirth
    <3>3. k # u
      BY <2>1, <3>1 DEF UserMovesTo, UserUnborn
    <3> QED
      BY <2>3, <2>6, <3>2, <3>3
  <2> QED
    BY <2>5, <2>6
<1> QED
  BY <1>1, <1>2, UserSteps

\* A user that deleteUser answered as deleted never comes back, and so gives
\* its addresses back for good: no update in flight upserts it.
THEOREM DeletedUsersStayGone == Spec => []DeletedUserIsGone
<1>1. Init => DeletedUserIsGone
  BY UserCallAssumption DEF Init, UserInit, DeletedUserIsGone, UserOutcome
<1>2. UsersOK /\ UserLives /\ DeletedUserIsGone /\ [Next]_vars => DeletedUserIsGone'
  BY DeletedUserStep
<1> QED
  BY <1>1, <1>2, UserInvHolds, PTL DEF Spec

-------------------------------------------------------------------------------
(* Types. *)

SecondaryOK ==
  secondary \in [companies : [CompanyId -> Key \cup {Null}],
                 users     : [UserId -> User \cup {Null}],
                 tasks     : [TaskId -> Task \cup {Null}]]

LEMMA TypeStep ==
  ASSUME CompaniesOK, UsersOK, ReviewInv, SecondaryOK, [Next]_vars
  PROVE  SecondaryOK'
<1>1. CASE UNCHANGED secondary
  BY <1>1 DEF SecondaryOK
<1>2. CASE secondary' = primary
  BY <1>2 DEF SecondaryOK, primary, CompaniesOK, UsersOK, ReviewInv, ReviewTypes
<1> QED
  BY <1>1, <1>2, SecondaryFollows

\* Every variable of the model keeps its type: in particular every key and every
\* user that a call carries to its write is one the collections may hold.
THEOREM TenantTypes == Spec => []TypeOK
<1>1. Init => SecondaryOK
  <2>1. Init => CompaniesOK /\ UsersOK /\ ReviewInv /\ secondary = primary
    BY CompaniesOKInit, UsersOKInit, ReviewInvInit DEF Init
  <2> QED
    BY <2>1 DEF SecondaryOK, primary, CompaniesOK, UsersOK, ReviewInv, ReviewTypes
<1>2. CompaniesOK /\ UsersOK /\ ReviewInv /\ SecondaryOK /\ [Next]_vars => SecondaryOK'
  BY TypeStep
<1>3. CompaniesOK /\ UsersOK /\ ReviewInv /\ SecondaryOK => TypeOK
  BY DEF TypeOK, StoreTypeOK, CompanyTypeOK, UserTypeOK, ReviewTypeOK, SecondaryOK, CompaniesOK,
     UsersOK, ReviewInv, ReviewTypes
<1> QED
  BY <1>1, <1>2, <1>3, CompanyInvHolds, UserInvHolds, ReviewInvHolds, PTL DEF Spec

-------------------------------------------------------------------------------
(* Users of companies that are not there. *)

\* A company that goes was deleted, and stays one that was.
LEMMA FoundedMove ==
  ASSUME CompaniesOK, NEW c \in CompanyCall, NEW new \in CompanyCallState,
         CompanyMoves(c, new), NEW k \in CompanyId, Founded(k)
  PROVE  Founded(k)'
<1>0. {"ok", "error"} \cap {Null} = {} /\ Null \notin Key
  BY CompanyCallAssumption, TenantStoreAssumption DEF CompanyOutcome
<1>2. \A d \in CompanyCall : companyCalls'[d] = IF d = c THEN new ELSE companyCalls[d]
  BY DEF CompaniesOK, CompanyMoves
<1>3. CASE WasDeleted(k)
  <2>1. PICK d \in CompanyCall : /\ companyCalls[d].op = "delete"
                                 /\ companyCalls[d].id = k
                                 /\ companyCalls[d].answer \in {"ok", "error"}
    BY <1>3 DEF WasDeleted
  <2>2. d # c
    BY <1>0, <2>1 DEF CompanyMoves, CompaniesOK, CompanyCallOK
  <2> QED
    BY <1>2, <2>1, <2>2 DEF WasDeleted, Founded
<1>4. CASE companies[k] # Null
  <2>1. CASE CompanyWaits(c, companyCalls[c], new)
    BY <1>4, <2>1 DEF CompanyWaits, Founded
  <2>2. CASE CompanyPuts(c, companyCalls[c], new)
    <3>1. new.apiKey \in Key
      BY <2>2 DEF CompanyPuts, CompanyMoves, CompanyCallOK
    <3> QED
      BY <1>0, <1>4, <2>2, <3>1 DEF CompanyPuts, CompaniesOK, Founded
  <2>3. CASE CompanyDrops(c, companyCalls[c], new)
    <3>1. CASE new.id = k
      BY <1>2, <2>3, <3>1 DEF CompanyDrops, WasDeleted, Founded
    <3>2. CASE new.id # k
      BY <1>4, <2>3, <3>2 DEF CompanyDrops, CompaniesOK, Founded
    <3> QED
      BY <3>1, <3>2
  <2> QED
    BY <2>1, <2>2, <2>3 DEF CompanyMoves
<1> QED
  BY <1>3, <1>4 DEF Founded

\* So no step makes a company one that never was.
LEMMA FoundedStays ==
  ASSUME CompaniesOK, [Next]_vars, NEW k \in CompanyId, Founded(k)
  PROVE  Founded(k)'
<1>1. CASE UNCHANGED <<companies, companyCalls>>
  BY <1>1 DEF Founded, WasDeleted
<1> QED
  BY <1>1, CompanySteps, FoundedMove

\* What a company step leaves of a reliance.
LEMMA CompanyMoveFounds ==
  ASSUME CompaniesOK, RelianceIsFounded, NEW c \in CompanyCall, NEW new \in CompanyCallState,
         CompanyMoves(c, new), UNCHANGED userCalls
  PROVE  RelianceIsFounded'
<1> SUFFICES ASSUME NEW k \in CompanyId, Relied(k)'
             PROVE  Founded(k)'
  BY DEF RelianceIsFounded
<1>1. Relied(k)
  BY DEF Relied, CompanyMoves
<1> QED
  BY <1>1, FoundedMove DEF RelianceIsFounded

\* A user step relies on a company only if its call found it, now or before.
LEMMA UserMoveFounds ==
  ASSUME UsersOK, RelianceIsFounded, NEW u \in UserCall, NEW new \in UserCallState,
         UserMovesTo(u, new), UNCHANGED companyCalls
  PROVE  RelianceIsFounded'
<1> SUFFICES ASSUME NEW k \in CompanyId, Relied(k)'
             PROVE  Founded(k)'
  BY DEF RelianceIsFounded
<1>1. UNCHANGED <<companies, secondary>>
  BY DEF UserMovesTo
<1>2. \A v \in UserCall : userCalls'[v] = IF v = u THEN new ELSE userCalls[v]
  BY DEF UsersOK, UserMovesTo
<1>3. visible.companies[k] # Null => Relied(k) \/ companies[k] # Null
  BY DEF Relied, visible, primary
<1>4. Relied(k) \/ visible.companies[k] # Null
  <2>1. CASE \/ secondary'.companies[k] # Null
             \/ \E v \in UserId : secondary'.users[v] # Null /\ secondary'.users[v].companyId = k
    BY <1>1, <2>1 DEF Relied
  <2>2. ASSUME NEW v \in UserId, users'[v] # Null, users'[v].companyId = k
        PROVE  Relied(k)
    <3>1. CASE users'[v] = users[v]
      BY <2>2, <3>1 DEF Relied
    <3>2. CASE UserPuts(u, userCalls[u], new) /\ new.id = v
      <4>1. userCalls[u].pc = "write" /\ userCalls[u].op # "delete" /\ userCalls[u].user = users'[v]
        BY <3>2 DEF UserPuts, UsersOK
      <4> QED
        BY <2>2, <4>1 DEF Relied
    <3> QED
      BY <2>2, <3>1, <3>2 DEF UserMovesTo, UserWaits, UserPuts, UserDrops, UsersOK
  <2>3. ASSUME NEW v \in UserCall, userCalls'[v].pc \in {"checkEmails", "write"},
               userCalls'[v].op # "delete", userCalls'[v].user.companyId = k
        PROVE  Relied(k) \/ visible.companies[k] # Null
    <3>1. CASE v # u
      BY <1>2, <2>3, <3>1 DEF Relied
    <3>2. CASE v = u
      <4>1. \/ visible.companies[k] # Null
            \/ userCalls[u].pc = "checkEmails" /\ userCalls[u].op = new.op
                                               /\ userCalls[u].user = new.user
        BY <1>2, <2>3, <3>2 DEF UserMovesTo, FoundCompany
      <4> QED
        BY <1>2, <2>3, <3>2, <4>1 DEF Relied
    <3> QED
      BY <3>1, <3>2
  <2> QED
    BY <2>1, <2>2, <2>3 DEF Relied
<1> QED
  BY <1>1, <1>3, <1>4 DEF RelianceIsFounded, Founded, WasDeleted

LEMMA RelianceStep ==
  ASSUME CompaniesOK, UsersOK, RelianceIsFounded, [Next]_vars
  PROVE  RelianceIsFounded'
<1>1. CASE \E c \in CompanyCall : \E new \in CompanyCallState :
             CompanyMoves(c, new) /\ UNCHANGED userCalls
  BY <1>1, CompanyMoveFounds
<1>2. CASE \E u \in UserCall : \E new \in UserCallState :
             UserMovesTo(u, new) /\ UNCHANGED companyCalls
  BY <1>2, UserMoveFounds
<1>3. CASE UNCHANGED <<companies, companyCalls, users, userCalls>>
  <2> SUFFICES ASSUME NEW k \in CompanyId, Relied(k)'
               PROVE  Founded(k)'
    BY DEF RelianceIsFounded
  <2>1. Relied(k) \/ companies[k] # Null
    BY <1>3, SecondaryFollows DEF Relied, primary
  <2> QED
    BY <1>3, <2>1 DEF RelianceIsFounded, Founded, WasDeleted
<1> QED
  BY <1>1, <1>2, <1>3, CompanySteps, UserSteps

\* The users that exist at the start are users of companies that exist.
SeededUsersHaveCompanies ==
  \A u \in DOMAIN SeededUsers : SeededUsers[u].companyId \in DOMAIN Seeded

LEMMA RelianceInit ==
  ASSUME Init, SeededUsersHaveCompanies
  PROVE  RelianceIsFounded
<1>1. \A c \in CompanyId : c \in DOMAIN Seeded => companies[c] # Null
  BY SeedAssumption, TenantStoreAssumption DEF Init
<1>2. \A u \in UserId : users[u] # Null => users[u].companyId \in DOMAIN Seeded
  BY DEF Init, SeededUsersHaveCompanies
<1>3. \A u \in UserCall : userCalls[u].pc = "unsent"
  BY DEF Init, UserInit
<1>4. secondary.companies = companies /\ secondary.users = users
  BY DEF Init, primary
<1> QED
  BY <1>1, <1>2, <1>3, <1>4 DEF RelianceIsFounded, Relied, Founded

\* Of a database whose users had companies at the start: nobody ever relies on a
\* company that never was.
LEMMA RelianceHolds ==
  ASSUME SeededUsersHaveCompanies
  PROVE  Spec => []RelianceIsFounded
<1>1. Init => RelianceIsFounded
  BY RelianceInit
<1>2. CompaniesOK /\ UsersOK /\ RelianceIsFounded /\ [Next]_vars => RelianceIsFounded'
  BY RelianceStep
<1> QED
  BY <1>1, <1>2, CompanyInvHolds, UserInvHolds, PTL DEF Spec

\* Of a database whose users had companies at the start: a user whose company is
\* not there had one, and a call deleted it.  ensureCompanyExists is an await
\* apart from the write of the user and may read a lagging secondary, so the
\* company may go in between; but no call writes a user for one that never was.
THEOREM DanglingUsersHadCompany ==
  ASSUME SeededUsersHaveCompanies
  PROVE  Spec => []DanglingCompanyWasDeleted
<1>1. UsersOK /\ RelianceIsFounded => DanglingCompanyWasDeleted
  <2> SUFFICES ASSUME UsersOK, RelianceIsFounded, NEW u \in UserId, users[u] # Null,
                      companies[users[u].companyId] = Null
               PROVE  WasDeleted(users[u].companyId)
    BY DEF DanglingCompanyWasDeleted, WasDeleted
  <2>1. users[u].companyId \in CompanyId /\ Relied(users[u].companyId)
    BY DEF UsersOK, User, Relied
  <2> QED
    BY <2>1 DEF RelianceIsFounded, Founded
<1> QED
  BY <1>1, RelianceHolds, UserInvHolds, PTL

-------------------------------------------------------------------------------
(* Tasks that cannot be reviewed. *)

\* A task is neither deleted nor given to another company.
LEMMA TasksKeepTenants ==
  ASSUME ReviewInv, [Next]_vars, NEW t \in TaskId, tasks[t] # Null
  PROVE  tasks'[t] # Null /\ tasks'[t].companyId = tasks[t].companyId
<1>1. CASE UNCHANGED tasks
  BY <1>1
<1>2. CASE \E r \in Review : Reviewing(r)
  <2>1. PICK r \in Review : ReceiveReview(r) \/ HandleReview(r)
    BY <1>2 DEF Reviewing
  <2>2. CASE UpdateReview(r) /\ Decides(r)
    <3>1. reviews[r].pc = "updateReview"
      BY <2>2 DEF UpdateReview, ReviewAt
    <3>2. /\ \A u \in TaskId : u # reviews[r].taskId => tasks'[u] = tasks[u]
          /\ tasks'[reviews[r].taskId] # Null
          /\ tasks'[reviews[r].taskId].companyId = tasks[reviews[r].taskId].companyId
      BY <2>2, <3>1, DecidesOne
    <3> QED
      BY <3>2
  <2> QED
    BY <1>1, <2>1, <2>2, NotOk
<1>3. CASE \E u \in TaskId : Creating(u)
  BY <1>3 DEF Creating, AddTask, ReviewInv, ReviewTypes
<1>4. CASE UNCHANGED vars
  BY <1>1, <1>4 DEF vars, storeVars
<1> QED
  BY <1>1, <1>2, <1>3, <1>4, OthersKeepReviews

\* What a review's task id and an answer "no such task" mean.
NotFoundOK(r) ==
  /\ reviews[r].pc # "unsent" /\ reviews[r].taskId # Null => tasks[reviews[r].taskId] # Null
  /\ /\ reviews[r].answer = "task_not_found" /\ reviews[r].taskId # Null
     /\ tasks[reviews[r].taskId].companyId = reviews[r].tenant
     => Decided(reviews[r].taskId)

\* A review that does not change stays right about its task.
LEMMA NotFoundStays ==
  ASSUME ReviewInv, [Next]_vars, NEW r \in Review, NotFoundOK(r), reviews'[r] = reviews[r]
  PROVE  NotFoundOK(r)'
<1>1. DecisionsStay
  BY ReviewInvStep
<1>2. CASE reviews[r].pc = "unsent" \/ reviews[r].taskId = Null
  BY <1>2, ReviewAssumption DEF NotFoundOK, ReviewInv, ReviewOK, ReviewOutcome
<1>3. CASE reviews[r].pc # "unsent" /\ reviews[r].taskId # Null
  <2>1. PICK t \in TaskId : t = reviews[r].taskId
    BY <1>3 DEF ReviewInv, ReviewTypes, ReviewState
  <2>2. tasks[t] # Null /\ tasks'[t] # Null /\ tasks'[t].companyId = tasks[t].companyId
    BY <1>3, <2>1, TasksKeepTenants DEF NotFoundOK
  <2>3. Decided(t) => Decided(t)'
    BY <1>1 DEF DecisionsStay, Decided
  <2> QED
    BY <2>1, <2>2, <2>3 DEF NotFoundOK
<1> QED
  BY <1>2, <1>3

LEMMA NotFoundMove ==
  ASSUME ~HasSecondary, ReviewInv, NEW r \in Review, NotFoundOK(r),
         ReceiveReview(r) \/ HandleReview(r)
  PROVE  NotFoundOK(r)'
<1> DEFINE old == reviews[r]
           new == reviews'[r]
<1>0. old \in ReviewState /\ ReviewOK(old, tasks) /\ "task_not_found" # Null
  BY ReviewAssumption DEF ReviewInv, ReviewTypes, ReviewOutcome
<1>1. CASE ReceiveReview(r)
  <2>1. UNCHANGED tasks /\ new.answer = old.answer /\ old.pc = "unsent"
          /\ (new.taskId = Null \/ tasks[new.taskId] # Null)
    <3>1. PICK key \in HeaderKey \cup {Null}, decision \in Decision,
               t \in {t \in TaskId : tasks[t] # Null} \cup {Null} :
                 reviews' = [reviews EXCEPT ![r].pc = "guard", ![r].xCompanyApiKey = key,
                                            ![r].taskId = t, ![r].decision = decision]
      BY <1>1 DEF ReceiveReview
    <3>2. new.answer = old.answer /\ new.taskId = t
      BY <1>0, <3>1 DEF ReviewInv, ReviewTypes, ReviewState
    <3> QED
      BY <1>1, <3>2 DEF ReceiveReview, ReviewAt, storeVars
  <2> QED
    BY <1>0, <2>1 DEF NotFoundOK, ReviewOK
<1>2. CASE Guard(r)
  <2>1. UNCHANGED tasks /\ new.taskId = old.taskId /\ old.pc = "guard"
    BY <1>2 DEF Guard, ReviewAnswer, ReviewAt, ReviewInv, ReviewTypes, ReviewState, storeVars
  <2>2. new.answer # "task_not_found"
    BY <1>0, <1>2 DEF Guard, ReviewAnswer, ReviewAt, ReviewInv, ReviewTypes, ReviewState, ReviewOK
  <2> QED
    BY <2>1, <2>2 DEF NotFoundOK
<1>3. CASE FindTask(r)
  <2>1. UNCHANGED tasks /\ new.taskId = old.taskId /\ new.tenant = old.tenant /\ old.pc = "findTask"
    BY <1>3 DEF FindTask, ReviewAnswer, ReviewAt, ReviewInv, ReviewTypes, ReviewState, storeVars
  <2>2. new.answer = "task_not_found" =>
          old.taskId = Null \/ ~ofCompany(tasks[old.taskId], old.tenant)
    BY <1>0, <1>3 DEF FindTask, ReviewAnswer, ReviewAt, ReviewInv, ReviewTypes, ReviewState,
       ReviewOK, visible, primary
  <2> QED
    BY <2>1, <2>2 DEF NotFoundOK, ofCompany
<1>4. CASE UpdateReview(r)
  <2>1. old.pc = "updateReview" /\ new.taskId = old.taskId /\ new.tenant = old.tenant
    BY <1>4 DEF UpdateReview, ReviewAnswer, ReviewAt, ReviewInv, ReviewTypes, ReviewState
  <2>2. CASE Decides(r)
    <3>1. new.answer # "task_not_found"
      BY <2>2 DEF Decides, ReviewAnswer, ReviewInv, ReviewTypes, ReviewState
    <3> QED
      BY <2>1, <2>2, <3>1, DecidesOne DEF NotFoundOK
  <2>3. CASE ~reviewable(old.taskId, old.tenant) /\ UNCHANGED tasks
    BY <2>1, <2>3 DEF NotFoundOK, reviewable, ofCompany, Decided
  <2>4. CASE ReviewAnswer(r, "error") /\ UNCHANGED tasks
    <3>1. new.answer # "task_not_found"
      BY <2>4 DEF ReviewAnswer, ReviewInv, ReviewTypes, ReviewState
    <3> QED
      BY <2>1, <2>4, <3>1 DEF NotFoundOK
  <2> QED
    BY <1>4, <2>2, <2>3, <2>4 DEF UpdateReview, Decides
<1> QED
  BY <1>1, <1>2, <1>3, <1>4 DEF HandleReview

LEMMA NotFoundStep ==
  ASSUME ~HasSecondary, ReviewInv, \A r \in Review : NotFoundOK(r), [Next]_vars
  PROVE  \A r \in Review : NotFoundOK(r)'
<1> SUFFICES ASSUME NEW r \in Review PROVE NotFoundOK(r)'
  OBVIOUS
<1>1. CASE reviews'[r] = reviews[r]
  BY <1>1, NotFoundStays
<1>2. CASE Reviewing(r)
  BY <1>2, NotFoundMove DEF Reviewing
<1>3. CASE \E q \in Review \ {r} : Reviewing(q)
  BY <1>1, <1>3, ReviewingOne DEF Reviewing
<1>4. CASE UNCHANGED vars
  BY <1>1, <1>4 DEF vars
<1> QED
  BY <1>1, <1>2, <1>3, <1>4, OthersKeepReviews DEF Creating

\* Where reads are not stale: a reviewer is told that a task of its own company
\* does not exist only if the task is decided, however many reviews race.
THEOREM NotFoundIsTooLate ==
  ASSUME ~HasSecondary
  PROVE  Spec => []NotFoundMeansDecided
<1> DEFINE Inv == \A r \in Review : NotFoundOK(r)
<1>1. Init => Inv
  BY ReviewAssumption DEF Init, ReviewInit, NotFoundOK, ReviewOutcome
<1>2. ReviewInv /\ Inv /\ [Next]_vars => Inv'
  BY NotFoundStep
<1>3. Inv => NotFoundMeansDecided
  BY DEF NotFoundOK, NotFoundMeansDecided
<1> HIDE DEF Inv
<1> QED
  BY <1>1, <1>2, <1>3, ReviewInvHolds, PTL DEF Spec

\* A review that is past the guard was there already, for the same company, or
\* has just shown the key of a company that exists.
LEMMA GuardOpens ==
  ASSUME ~HasSecondary, ReviewInv, [Next]_vars, NEW r \in Review,
         reviews'[r].pc \in {"findTask", "updateReview"}
  PROVE  \/ /\ reviews[r].pc \in {"findTask", "updateReview"}
            /\ reviews'[r].tenant = reviews[r].tenant
         \/ companies[reviews'[r].tenant] # Null /\ UNCHANGED companies
<1>1. CASE reviews'[r] = reviews[r]
  BY <1>1
<1>2. CASE Reviewing(r)
  <2>1. CASE ReceiveReview(r)
    BY <2>1 DEF ReceiveReview, ReviewInv, ReviewTypes, ReviewState
  <2>2. CASE Guard(r)
    <3>1. PICK c \in CompanyId :
             /\ ~BlankKey(reviews[r].xCompanyApiKey)
             /\ c \in findByApiKey(trim(reviews[r].xCompanyApiKey))
             /\ reviews' = [reviews EXCEPT ![r].pc = "findTask", ![r].tenant = c]
      BY <2>2 DEF Guard, ReviewAnswer, ReviewInv, ReviewTypes, ReviewState, findByApiKey
    <3>2. trim(reviews[r].xCompanyApiKey) # Null
      BY <3>1, ReviewAssumption DEF BlankKey, ReviewInv, ReviewTypes, ReviewState
    <3>3. companies[c] # Null /\ reviews'[r].tenant = c
      BY <3>1, <3>2 DEF findByApiKey, visible, primary, ReviewInv, ReviewTypes, ReviewState
    <3> QED
      BY <2>2, <3>3 DEF Guard, storeVars
  <2>3. CASE FindTask(r)
    BY <2>3 DEF FindTask, ReviewAnswer, ReviewAt, ReviewInv, ReviewTypes, ReviewState
  <2>4. CASE UpdateReview(r)
    BY <2>4 DEF UpdateReview, ReviewAnswer, ReviewInv, ReviewTypes, ReviewState
  <2> QED
    BY <1>2, <2>1, <2>2, <2>3, <2>4 DEF Reviewing, HandleReview
<1>3. CASE \E q \in Review \ {r} : Reviewing(q)
  BY <1>1, <1>3, ReviewingOne DEF Reviewing
<1>4. CASE UNCHANGED vars
  BY <1>1, <1>4 DEF vars
<1> QED
  BY <1>1, <1>2, <1>3, <1>4, OthersKeepReviews DEF Creating

LEMMA OrphanStep ==
  ASSUME ~HasSecondary, CompaniesOK, ReviewInv, [Next]_vars, NEW t \in TaskId, Orphaned(t)
  PROVE  Orphaned(t)'
<1>1. PICK k \in CompanyId : k = tasks[t].companyId
  BY DEF Orphaned, ReviewInv, ReviewTypes, Task
<1>2. /\ tasks[t] # Null /\ ~Decided(t) /\ companies[k] = Null
      /\ k \in CompanyCall => companyCalls[k].pc = "answered"
      /\ \A r \in Review :
           reviews[r].pc \in {"findTask", "updateReview"} => reviews[r].tenant # k
  BY <1>1 DEF Orphaned, CompanyAt, ReviewAt
<1>3. tasks'[t] = tasks[t]
  <2>1. CASE UNCHANGED tasks
    BY <2>1
  <2>2. ASSUME NEW r \in Review, Reviewing(r)
        PROVE  tasks'[t] = tasks[t]
    <3>1. CASE UpdateReview(r) /\ Decides(r)
      <4>1. reviews[r].pc = "updateReview"
        BY <3>1 DEF UpdateReview, ReviewAt
      <4>2. /\ \A u \in TaskId : u # reviews[r].taskId => tasks'[u] = tasks[u]
            /\ tasks[reviews[r].taskId].companyId = reviews[r].tenant
        BY <3>1, <4>1, DecidesOne
      <4> QED
        BY <1>1, <1>2, <4>1, <4>2
    <3> QED
      BY <2>2, <3>1, NotOk DEF Reviewing
  <2>3. CASE \E u \in TaskId : Creating(u)
    BY <1>2, <2>3 DEF Creating, AddTask, ReviewInv, ReviewTypes
  <2>4. CASE UNCHANGED vars
    BY <2>4 DEF vars, storeVars
  <2> QED
    BY <2>1, <2>2, <2>3, <2>4, OthersKeepReviews
<1>4. companies'[k] = Null /\ (k \in CompanyCall => companyCalls'[k].pc = "answered")
  <2>1. CASE UNCHANGED <<companies, companyCalls>>
    BY <1>2, <2>1
  <2>2. CASE \E c \in CompanyCall : \E new \in CompanyCallState : CompanyMoves(c, new)
    <3>1. PICK c \in CompanyCall, new \in CompanyCallState : CompanyMoves(c, new)
      BY <2>2
    <3>2. k # c
      BY <1>2, <3>1 DEF CompanyMoves
    <3>3. k \in CompanyCall => companyCalls'[k] = companyCalls[k]
      BY <3>1, <3>2 DEF CompanyMoves, CompaniesOK
    <3> QED
      BY <1>2, <3>1, <3>2, <3>3, CompanyBirth
  <2> QED
    BY <2>1, <2>2, CompanySteps
<1>5. ASSUME NEW r \in Review, reviews'[r].pc \in {"findTask", "updateReview"}
      PROVE  reviews'[r].tenant # k
  BY <1>2, <1>4, <1>5, GuardOpens
<1> QED
  BY <1>1, <1>2, <1>3, <1>4, <1>5 DEF Orphaned, Decided, CompanyAt, ReviewAt

\* Where reads are not stale: once a pending task's company is gone and no
\* review of that company is past the guard, nothing that any client does
\* decides the task.
THEOREM OrphansStay == Spec => OrphanStaysOrphan
<1>1. CompaniesOK /\ ReviewInv /\ [Next]_vars =>
        (~HasSecondary => \A t \in TaskId : Orphaned(t) => Orphaned(t)')
  BY OrphanStep
<1> QED
  BY <1>1, CompanyInvHolds, ReviewInvHolds, PTL DEF Spec, OrphanStaysOrphan

===============================================================================
