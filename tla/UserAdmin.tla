------------------------------- MODULE UserAdmin -------------------------------
(***************************************************************************)
(* UserService behind /users, which decides whom an email is for.  Each    *)
(* await is a step.  A call that creates a user inserts it under an id of  *)
(* its own; any database call may throw, before or after it took effect.   *)
(***************************************************************************)
EXTENDS TenantStore

CONSTANT UserCall  \* calls of /users

VARIABLE userCalls

UserOutcome == {"ok", "not_found", "conflict", "error"}

ASSUME UserCallAssumption == UserCall \subseteq UserId /\ Null \notin UserOutcome

\* An address as a request spells it: its lower-case form and its letter case.
Spelling == [mailbox : Address, upper : BOOLEAN]

\* Lower case, without duplicates (validation leaves nothing to trim).
normalizeEmails(spellings) == {s.mailbox : s \in spellings}

UserCallState ==
  [pc     : {"unsent", "find", "ensureCompany", "checkEmails", "write", "answered"},
   op     : {"create", "update", "delete"} \cup {Null},
   id     : UserId \cup {Null},
   user   : User \cup {Null},
   answer : UserOutcome \cup {Null}]

UserInit ==
  userCalls = [u \in UserCall |->
                 [pc |-> "unsent", op |-> Null, id |-> Null, user |-> Null,
                  answer |-> Null]]

-------------------------------------------------------------------------------

UserAt(u, pc) == userCalls[u].pc = pc

UserGoto(u, pc) == userCalls' = [userCalls EXCEPT ![u].pc = pc]

UserAnswer(u, answer) ==
  userCalls' = [userCalls EXCEPT ![u].pc = "answered", ![u].answer = answer]

UserRequest(u, pc, op, id, user) ==
  userCalls' = [userCalls EXCEPT ![u] = [pc |-> pc, op |-> op, id |-> id,
                                         user |-> user, answer |-> Null]]

\* A request arrives; validation asks for at least one address.
ReceiveUserCall(u) ==
  /\ UserAt(u, "unsent")
  /\ \/ \E c \in CompanyId, spellings \in SUBSET Spelling \ {{}} :
          LET user == [companyId |-> c, emails |-> normalizeEmails(spellings)]
          IN  \/ UserRequest(u, "ensureCompany", "create", u, user)
              \/ \E id \in UserId : UserRequest(u, "find", "update", id, user)
     \/ \E id \in UserId : UserRequest(u, "find", "delete", id, Null)
  /\ UNCHANGED storeVars

\* findUserOrThrow
FindUser(u) ==
  /\ UserAt(u, "find")
  /\ LET found == visible.users[userCalls[u].id]
     IN  \/ found = Null /\ UserAnswer(u, "not_found")
         \/ /\ found # Null
            /\ UserGoto(u, IF userCalls[u].op = "delete" THEN "write"
                                                        ELSE "ensureCompany")
         \/ UserAnswer(u, "error")
  /\ UNCHANGED storeVars

\* Mutant: only a creation checks the company.
EnsureCompanyOnCreateOnly(u) ==
  /\ UserAt(u, "ensureCompany")
  /\ LET company == visible.companies[userCalls[u].user.companyId]
     IN  \/ company = Null /\ userCalls[u].op = "create" /\ UserAnswer(u, "not_found")
         \/ /\ company # Null \/ userCalls[u].op = "update"
            /\ UserGoto(u, "checkEmails")
  /\ UNCHANGED storeVars

EnsureCompanyExists(u) ==
  /\ UserAt(u, "ensureCompany")
  /\ LET company == visible.companies[userCalls[u].user.companyId]
     IN  \/ company = Null /\ UserAnswer(u, "not_found")
         \/ company # Null /\ UserGoto(u, "checkEmails")
         \/ UserAnswer(u, "error")
  /\ UNCHANGED storeVars

\* ensureEmailsAreUnique: the user being updated is no conflict.
EnsureEmailsAreUnique(u) ==
  /\ UserAt(u, "checkEmails")
  /\ LET call      == userCalls[u]
         conflicts == findByAnyEmail(call.user.emails,
                                     IF call.op = "update" THEN {call.id} ELSE {})
     IN  \/ conflicts # {} /\ UserAnswer(u, "conflict")
         \/ conflicts = {} /\ UserGoto(u, "write")
         \/ UserAnswer(u, "error")
  /\ UNCHANGED storeVars

\* Mutant: findOneAndUpdate with upsert.
WriteUserDocumentUpserts(u) ==
  /\ ~DuplicateEmail(userCalls[u].id, userCalls[u].user.emails)
  /\ users' = [users EXCEPT ![userCalls[u].id] = userCalls[u].user]

\* create inserts; findOneAndUpdate replaces the user if it still exists.
WriteUserDocument(u) ==
  LET call == userCalls[u]
  IN  /\ ~DuplicateEmail(call.id, call.user.emails)
      /\ call.op = "update" => users[call.id] # Null
      /\ users' = [users EXCEPT ![call.id] = call.user]

\* The write.  A duplicate address, and an update of a user that is gone, are
\* errors; deleteOne answers deleted whether or not it found the user.
WriteUser(u) ==
  /\ UserAt(u, "write")
  /\ \/ /\ \/ userCalls[u].op # "delete" /\ WriteUserDocument(u)
           \/ /\ userCalls[u].op = "delete"
              /\ users' = [users EXCEPT ![userCalls[u].id] = Null]
        /\ \E answer \in {"ok", "error"} : UserAnswer(u, answer)
        /\ UNCHANGED <<companies, tasks, secondary>>
     \/ UserAnswer(u, "error") /\ UNCHANGED storeVars

HandleUserCall(u) ==
  FindUser(u) \/ EnsureCompanyExists(u) \/ EnsureEmailsAreUnique(u) \/ WriteUser(u)

UserTypeOK == userCalls \in [UserCall -> UserCallState]

===============================================================================
