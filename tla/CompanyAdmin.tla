------------------------------ MODULE CompanyAdmin ------------------------------
(***************************************************************************)
(* CompanyService behind /companies.  Each await is a step, so calls       *)
(* interleave between the lookup, the uniqueness check and the write.      *)
(*                                                                         *)
(* A call that creates a company inserts it under an id of its own.  Any   *)
(* database call may throw, before or after it took effect; the client     *)
(* then sees a 500.  So does one whose process died under the call.        *)
(***************************************************************************)
EXTENDS TenantStore

CONSTANTS CompanyCall,  \* calls of /companies
          RawKey        \* the apiKey of a request body, before trim

VARIABLE companyCalls

CompanyOutcome == {"ok", "not_found", "conflict", "error"}

ASSUME CompanyCallAssumption ==
  /\ CompanyCall \subseteq CompanyId
  /\ Null \notin RawKey
  /\ Null \notin CompanyOutcome

\* uuidv4: a key nobody typed.
uuidv4(c) == <<c>>

ASSUME KeyAssumption ==
  /\ \A raw \in RawKey : trim(raw) \in Key
  /\ \A c \in CompanyCall : uuidv4(c) \in Key
  /\ \A raw \in RawKey, c \in CompanyCall : trim(raw) # uuidv4(c)

CompanyCallState ==
  [pc     : {"unsent", "find", "checkKey", "write", "answered"},
   op     : {"create", "update", "delete"} \cup {Null},
   id     : CompanyId \cup {Null},
   apiKey : Key \cup {Null},
   answer : CompanyOutcome \cup {Null}]

CompanyInit ==
  companyCalls = [c \in CompanyCall |->
                    [pc |-> "unsent", op |-> Null, id |-> Null, apiKey |-> Null,
                     answer |-> Null]]

-------------------------------------------------------------------------------

CompanyAt(c, pc) == companyCalls[c].pc = pc

CompanyGoto(c, pc) == companyCalls' = [companyCalls EXCEPT ![c].pc = pc]

CompanyAnswer(c, answer) ==
  companyCalls' = [companyCalls EXCEPT ![c].pc = "answered", ![c].answer = answer]

CompanyThrows(c) == CompanyAnswer(c, "error") /\ UNCHANGED storeVars

CompanyRequest(c, pc, op, id, key) ==
  companyCalls' = [companyCalls EXCEPT ![c] = [pc |-> pc, op |-> op, id |-> id,
                                               apiKey |-> key, answer |-> Null]]

\* A request arrives; validation lets through any apiKey that is not "".
ReceiveCompanyCall(c) ==
  /\ CompanyAt(c, "unsent")
  /\ \/ CompanyRequest(c, "checkKey", "create", c, uuidv4(c))
     \/ \E raw \in RawKey :
          CompanyRequest(c, "checkKey", "create", c,
                         IF trim(raw) = <<>> THEN uuidv4(c) ELSE trim(raw))
     \/ \E raw \in RawKey, id \in CompanyId :
          CompanyRequest(c, "find", "update", id, trim(raw))
     \/ \E id \in CompanyId : CompanyRequest(c, "find", "delete", id, Null)
  /\ UNCHANGED storeVars

\* findCompanyOrThrow; an update that keeps the key skips the uniqueness check.
FindCompany(c) ==
  /\ CompanyAt(c, "find")
  /\ LET call  == companyCalls[c]
         found == visible.companies[call.id]
     IN  \/ found = Null /\ CompanyAnswer(c, "not_found")
         \/ /\ found # Null
            /\ CompanyGoto(c, IF call.op = "update" /\ call.apiKey # found
                              THEN "checkKey" ELSE "write")
         \/ CompanyAnswer(c, "error")
  /\ UNCHANGED storeVars

\* ensureApiKeyIsUnique: a holder other than the company itself is a conflict.
CheckKey(c) ==
  /\ CompanyAt(c, "checkKey")
  /\ LET call    == companyCalls[c]
         holders == findByApiKey(call.apiKey)
     IN  \/ \E h \in holders : h # call.id /\ CompanyAnswer(c, "conflict")
         \/ (holders = {} \/ call.id \in holders) /\ CompanyGoto(c, "write")
         \/ CompanyAnswer(c, "error")
  /\ UNCHANGED storeVars

\* Mutant: findOneAndUpdate with upsert.
WriteKeyUpserts(c) ==
  /\ ~DuplicateApiKey(companyCalls[c].id, companyCalls[c].apiKey)
  /\ companies' = [companies EXCEPT ![companyCalls[c].id] = companyCalls[c].apiKey]

\* create inserts; findOneAndUpdate changes the company if it still exists.
WriteKey(c) ==
  LET call == companyCalls[c]
  IN  /\ ~DuplicateApiKey(call.id, call.apiKey)
      /\ call.op = "update" => companies[call.id] # Null
      /\ companies' = [companies EXCEPT ![call.id] = call.apiKey]

\* The write.  A duplicate key, and an update of a company that is gone, are
\* errors; deleteOne answers deleted whether or not it found the company.
WriteCompany(c) ==
  /\ CompanyAt(c, "write")
  /\ \/ /\ \/ companyCalls[c].op # "delete" /\ WriteKey(c)
           \/ /\ companyCalls[c].op = "delete"
              /\ companies' = [companies EXCEPT ![companyCalls[c].id] = Null]
        /\ \E answer \in {"ok", "error"} : CompanyAnswer(c, answer)
        /\ UNCHANGED <<users, tasks, secondary>>
     \/ CompanyThrows(c)

HandleCompanyCall(c) == FindCompany(c) \/ CheckKey(c) \/ WriteCompany(c)

CompanyTypeOK == companyCalls \in [CompanyCall -> CompanyCallState]

===============================================================================
