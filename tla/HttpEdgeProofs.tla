----------------------------- MODULE HttpEdgeProofs -----------------------------
(***************************************************************************)
(* Proofs about HttpEdge, for any headers, credentials and configuration:  *)
(* first what the two parsers compute, by the least elements of finite and *)
(* well-founded sets, then the invariants of a request that rest on them.  *)
(*                                                                         *)
(* The stages are disjoint in what they know: EdgeInv says what each has   *)
(* established, three lemmas say how a request leaves a stage (it is       *)
(* thrown out, passes on, or its handler returns), and the lemmas of the   *)
(* steps apply them.                                                       *)
(***************************************************************************)
EXTENDS HttpEdge, FiniteSetTheorems, SequenceTheorems, WellFoundedInduction,
        NaturalsInduction, TLAPS

-------------------------------------------------------------------------------
(* resolveLanguage. *)

\* The weight the service sorts by is a number for any part.
LEMMA QualityType ==
  ASSUME NEW part \in Part
  PROVE  quality(part) \in Int
BY DEF quality, Part

\* The sort puts one part of any set of them first: the order has a least
\* element, for the parts before a part that is not least include fewer parts.
LEMMA SomePartIsFirst ==
  ASSUME NEW header \in Seq(Part), NEW S \in SUBSET DOMAIN header, S # {}
  PROVE  \E i \in S : \A j \in S \ {i} : before(header, i, j)
<1> DEFINE Before(i) == {j \in S : before(header, j, i)}
           T == {Before(i) : i \in S}
<1>1. S \subseteq Nat /\ \A i \in S : quality(header[i]) \in Int
  <2>1. \A i \in S : header[i] \in Part
    BY LenProperties, ElementOfSeq
  <2> QED
    BY <2>1, LenProperties, QualityType
<1>2. IsFiniteSet(S)
  <2>1. Len(header) \in Nat /\ DOMAIN header = 1..Len(header)
    BY LenProperties
  <2>2. IsFiniteSet(1..Len(header))
    BY <2>1, FS_Interval
  <2> QED
    BY <2>1, <2>2, FS_Subset
<1>3. T \subseteq FiniteSubsetsOf(S) /\ T # {}
  <2>1. T \subseteq SUBSET S /\ T # {}
    OBVIOUS
  <2> QED
    BY <2>1, <1>2, FS_FiniteSubsetsOfFinite, Zenon
<1>4. PICK least \in T : \A B \in T : <<B, least>> \notin StrictSubsetOrdering(S)
  BY <1>3, FS_StrictSubsetOrderingWellFounded, WFMin
<1>5. PICK i \in S : least = Before(i)
  BY <1>4
<1>6. Before(i) = {}
  <2> SUFFICES ASSUME NEW j \in Before(i)
               PROVE  FALSE
    OBVIOUS
  <2>1. \A k \in Before(j) : k \in Before(i)
    BY <1>1 DEF before
  <2>2. j \notin Before(j)
    BY <1>1 DEF before
  <2>3. <<Before(j), Before(i)>> \in StrictSubsetOrdering(S)
    BY <2>1, <2>2 DEF StrictSubsetOrdering
  <2> QED
    BY <2>3, <1>4, <1>5
<1>7. ASSUME NEW j \in S \ {i}
      PROVE  before(header, i, j)
  BY <1>1, <1>6, <1>7 DEF before
<1> QED
  BY <1>7

\* The language of a request is a supported one, and if the header names one,
\* then the language of its first supported part in the order of the sort.
LEMMA ResolvesFirst ==
  ASSUME NEW header \in Seq(Part)
  PROVE  LET supported == supportedParts(header)
         IN  /\ supported = {} => resolveLanguage(header) = "en"
             /\ supported # {} =>
                  \E i \in supported :
                    /\ resolveLanguage(header) = header[i].language
                    /\ \A j \in supported \ {i} : before(header, i, j)
<1> DEFINE supported == supportedParts(header)
           first(i)  == \A j \in supported \ {i} : before(header, i, j)
<1>1. supported # {} => \E i \in supported : first(i)
  BY SomePartIsFirst DEF supportedParts
<1>2. supported # {} =>
        /\ (CHOOSE i \in supported : first(i)) \in supported
        /\ first(CHOOSE i \in supported : first(i))
  BY <1>1
<1>3. resolveLanguage(header) =
        IF supported = {} THEN "en"
        ELSE header[CHOOSE i \in supported : first(i)].language
  BY DEF resolveLanguage, supportedParts, DEFAULT_LANGUAGE
<1> QED
  BY <1>2, <1>3

\* Whatever the header, the request gets a language the service speaks.
LEMMA ResolvesSupported ==
  ASSUME NEW header \in Seq(Part)
  PROVE  resolveLanguage(header) \in SupportedLanguage
BY ResolvesFirst DEF supportedParts, SupportedLanguage

-------------------------------------------------------------------------------
(* BasicAuthGuard. *)

\* indexOf finds the first ":".
LEMMA SeparatorIsFirst ==
  ASSUME NEW decoded \in Text, separators(decoded) # {}
  PROVE  /\ separatorIndex(decoded) \in separators(decoded)
         /\ separatorIndex(decoded) \in 1..Len(decoded)
         /\ \A j \in separators(decoded) : separatorIndex(decoded) <= j
<1> DEFINE first(i) == \A j \in separators(decoded) : i <= j
<1>1. separators(decoded) \subseteq 1..Len(decoded) /\ Len(decoded) \in Nat
  BY LenProperties DEF separators, Text
<1>2. separators(decoded) \subseteq Nat
  BY <1>1
<1>3. PICK i \in separators(decoded) :
        \A j \in separators(decoded) : <<j, i>> \notin OpToRel(<, Nat)
  BY <1>2, NatLessThanWellFounded, WFMin, Zenon
<1>4. first(i)
  <2>1. OpToRel(<, Nat) = {ss \in Nat \X Nat : ss[1] < ss[2]}
    BY DEF OpToRel
  <2>2. \A j \in separators(decoded) : ~ (j < i)
    BY <1>2, <1>3, <2>1
  <2> QED
    BY <1>2, <2>2
<1>5. \E k \in separators(decoded) : first(k)
  BY <1>4
<1>6. /\ (CHOOSE k \in separators(decoded) : first(k)) \in separators(decoded)
      /\ first(CHOOSE k \in separators(decoded) : first(k))
  BY <1>5
<1> QED
  BY <1>1, <1>6 DEF separatorIndex

\* Who is let through showed exactly the configured user and password.
LEMMA AdmittedCredentials ==
  ASSUME NEW decoded \in Text, canActivate(decoded)
  PROVE  decoded = rightCredentials
<1> DEFINE k == separatorIndex(decoded)
           n == Len(decoded)
<1>1. k \in 1..n /\ n \in Nat /\ decoded[k] = ":"
  BY SeparatorIsFirst, LenProperties DEF canActivate, separators, Text
<1>2. decoded = SubSeq(decoded, 1, n)
  BY SubSeqFull DEF Text
<1>3. SubSeq(decoded, 1, k) = SubSeq(decoded, 1, k - 1) \o <<decoded[k]>>
  BY <1>1, SubSeqRecursiveSecond DEF Text
<1>4. SubSeq(decoded, 1, k) \o SubSeq(decoded, k + 1, n) = SubSeq(decoded, 1, n)
  <2>1. 1 \in 1..n + 1 /\ k \in 1 - 1..n /\ n \in k..n
    BY <1>1
  <2> QED
    BY <2>1, ConcatAdjacentSubSeq DEF Text
<1> QED
  <2>1. /\ SubSeq(decoded, 1, k - 1) = ExpectedUser
        /\ SubSeq(decoded, k + 1, n) = ExpectedPass
    BY DEF canActivate, username, password
  <2> HIDE DEF k, n
  <2> QED
    BY <1>1, <1>2, <1>3, <1>4, <2>1 DEF rightCredentials

\* The configured user and password are let through, whatever is in the password,
\* if the user name has no ":".
LEMMA RightCredentialsAdmitted ==
  ASSUME separators(ExpectedUser) = {}
  PROVE  rightCredentials \in Text /\ canActivate(rightCredentials)
<1> DEFINE u == Len(ExpectedUser)
           p == Len(ExpectedPass)
           d == rightCredentials
<1>1. /\ ExpectedUser \in Seq(Char) /\ ExpectedPass \in Seq(Char)
      /\ <<":">> \in Seq(Char)
  <2>1. <<":">> \in Seq(Char)
    BY HttpAssumption
  <2> QED
    BY <2>1, HttpAssumption DEF Text
<1>2. u \in Nat /\ p \in Nat /\ DOMAIN ExpectedUser = 1..u
  BY <1>1, LenProperties
<1>3. /\ ExpectedUser \o <<":">> \in Seq(Char)
      /\ Len(ExpectedUser \o <<":">>) = u + 1
      /\ \A i \in 1..u : (ExpectedUser \o <<":">>)[i] = ExpectedUser[i]
      /\ (ExpectedUser \o <<":">>)[u + 1] = ":"
  BY <1>1, <1>2, ConcatProperties
<1>4. /\ d \in Seq(Char)
      /\ Len(d) = u + 1 + p
      /\ \A i \in 1..u : d[i] = ExpectedUser[i]
      /\ d[u + 1] = ":"
      /\ \A i \in 1..p : d[u + 1 + i] = ExpectedPass[i]
  BY <1>1, <1>2, <1>3, ConcatProperties DEF rightCredentials
<1>5. DOMAIN d = 1..Len(d)
  BY <1>4, LenProperties
<1>6. \A i \in 1..u : d[i] # ":"
  BY <1>2, <1>4 DEF separators
<1>7. u + 1 \in separators(d)
  BY <1>2, <1>4, <1>5 DEF separators
<1>8. separatorIndex(d) = u + 1
  <2>1. /\ separatorIndex(d) \in 1..Len(d) /\ d[separatorIndex(d)] = ":"
        /\ separatorIndex(d) <= u + 1
    BY <1>4, <1>7, SeparatorIsFirst DEF Text, separators
  <2> QED
    BY <2>1, <1>2, <1>6
<1>9. username(d) = ExpectedUser
  <2>1. \A i \in 1..u : d[i] \in Char
    BY <1>4, <1>1, ElementOfSeq
  <2>2. /\ SubSeq(d, 1, u) \in Seq(Char) /\ Len(SubSeq(d, 1, u)) = u
        /\ \A i \in 1..u : SubSeq(d, 1, u)[i] = d[i]
    BY <2>1, <1>2, SubSeqProperties
  <2> HIDE DEF d, u
  <2>3. SubSeq(d, 1, u) = ExpectedUser
    BY <2>2, <1>1, <1>2, <1>4, SeqEqual DEF u
  <2> QED
    BY <2>3, <1>2, <1>8 DEF username
<1>10. password(d) = ExpectedPass
  <2>1. SubSeq(d, u + 2, Len(d)) = ExpectedPass
    <3>1. \A i \in u + 2..u + 1 + p : d[i] \in Char
      BY <1>2, <1>4, ElementOfSeq
    <3>2. /\ SubSeq(d, u + 2, u + 1 + p) \in Seq(Char)
          /\ Len(SubSeq(d, u + 2, u + 1 + p)) = p
          /\ \A i \in 1..p : SubSeq(d, u + 2, u + 1 + p)[i] = d[u + 1 + i]
      BY <3>1, <1>2, SubSeqProperties
    <3> HIDE DEF d, u, p
    <3> QED
      BY <3>2, <1>1, <1>2, <1>4, SeqEqual DEF p
  <2> QED
    BY <2>1, <1>2, <1>8 DEF password
<1> QED
  BY <1>4, <1>7, <1>9, <1>10, HttpAssumption DEF canActivate, Text

-------------------------------------------------------------------------------
(* What is known of a request wherever it is: who has passed which stage, in  *)
(* what language it is answered, and what the health check has seen.          *)

inHandler == request.pc \in {"handler", "checkMongo", "checkRedis"}

AdmissionOK ==
  /\ (inHandler \/ request.pc = "pipe") /\ request.route \in basicAuthRoutes
     => canActivate(request.authorization)
  /\ inHandler /\ request.route \notin {"health", "unknown"} => request.valid
  /\ request.pc = "answered" /\ request.answer.from = "handler"
     => /\ request.route \in basicAuthRoutes => canActivate(request.authorization)
        /\ request.route \notin {"health", "unknown"} => request.valid
  /\ request.pc = "answered" /\ request.answer.status = 401
     => ~canActivate(request.authorization)

LanguageOK ==
  /\ request.language = IF request.acceptLanguage = Null THEN DEFAULT_LANGUAGE
                                                         ELSE resolveLanguage(request.acceptLanguage)
  /\ request.pc = "answered" => request.answer.clientMessage \in {Null, request.language}

HealthOK ==
  /\ request.found \subseteq request.wasUp
  /\ request.pc \notin {"checkRedis", "answered"} => request.found = {}
  /\ request.pc \in {"checkMongo", "checkRedis"} => up \subseteq request.wasUp
  /\ request.pc = "answered" /\ request.answer.health = "ok" => request.wasUp = Dependency

EdgeInv ==
  /\ TypeOK
  /\ request.answer # Null <=> request.pc = "answered"
  /\ AdmissionOK
  /\ LanguageOK
  /\ HealthOK
  /\ CodeNamesTheCause

\* The exceptions of the model.
Thrown ==
  {BadRequestError, UnauthorizedError, NotFoundError, ConflictError, MalformedBody,
   ValidationFailed, ThrottlerException, RouteNotFound, Unexpected}

\* What the filter makes of each of them.
LEMMA Codes ==
  /\ resolveErrorCode(BadRequestError)    = "BAD_REQUEST"
  /\ resolveErrorCode(UnauthorizedError)  = "UNAUTHORIZED"
  /\ resolveErrorCode(NotFoundError)      = "NOT_FOUND"
  /\ resolveErrorCode(ConflictError)      = "CONFLICT"
  /\ resolveErrorCode(MalformedBody)      = "BAD_REQUEST"
  /\ resolveErrorCode(ValidationFailed)   = "VALIDATION_ERROR"
  /\ resolveErrorCode(ThrottlerException) = "TOO_MANY_REQUESTS"
  /\ resolveErrorCode(RouteNotFound)      = "NOT_FOUND"
  /\ resolveErrorCode(Unexpected)         = "INTERNAL_SERVER_ERROR"
BY NullAssumption
   DEF resolveErrorCode, HTTP_STATUS_TO_ERROR_CODE, ErrorCode, Exception, AppHttpException,
       BadRequestError, UnauthorizedError, NotFoundError, ConflictError, MalformedBody,
       ValidationFailed, ThrottlerException, RouteNotFound, Unexpected

\* The status each of them is answered with.
LEMMA Statuses ==
  /\ BadRequestError.status = 400 /\ UnauthorizedError.status = 401
  /\ NotFoundError.status = 404 /\ ConflictError.status = 409
  /\ MalformedBody.status = 400 /\ ValidationFailed.status = 400
  /\ ThrottlerException.status = 429 /\ RouteNotFound.status = 404
  /\ Unexpected.status = 500
BY DEF Exception, AppHttpException, BadRequestError, UnauthorizedError, NotFoundError,
       ConflictError, MalformedBody, ValidationFailed, ThrottlerException, RouteNotFound,
       Unexpected

\* The causes that an exception's code may name, by the stage that throws it.
Matches(e, pc, route) ==
  LET code == resolveErrorCode(e)
  IN  /\ code = "TOO_MANY_REQUESTS"     <=> pc = "throttle"
      /\ code = "VALIDATION_ERROR"      <=> pc = "pipe"
      /\ code = "UNAUTHORIZED"          <=> pc = "guard" /\ route # "tasks"
      /\ code = "INTERNAL_SERVER_ERROR" <=> e.status = 500

\* The filter answers an exception thrown before or in the handler.
LEMMA ThrowKeeps ==
  ASSUME EdgeInv, UNCHANGED <<up, flips>>,
         request.pc \in {"middleware", "throttle", "guard", "pipe", "handler"},
         NEW e \in Thrown, Throw(e),
         Matches(e, request.pc, request.route),
         e.status = 401 => ~canActivate(request.authorization)
  PROVE  EdgeInv'
<1> DEFINE answer == [status |-> e.status, code |-> resolveErrorCode(e),
                      clientMessage |-> clientMessage(e, request.language),
                      from |-> request.pc, health |-> Null]
<1>1. /\ answer \in Answer
      /\ answer.clientMessage \in {Null, request.language}
  <2>1. e.status \in {400, 401, 404, 409, 429, 500}
    BY Statuses DEF Thrown
  <2>2. resolveErrorCode(e) \in ErrorCode
    BY Codes DEF Thrown, ErrorCode
  <2>3. request.language \in SupportedLanguage
    BY DEF EdgeInv, TypeOK, RequestState
  <2> QED
    BY <2>1, <2>2, <2>3 DEF Answer, clientMessage
<1>2. /\ request \in RequestState
      /\ request' = [request EXCEPT !.pc = "answered", !.answer = answer]
  BY DEF EdgeInv, TypeOK, Throw, Reply
<1>3. /\ answer.status = e.status /\ answer.code = resolveErrorCode(e)
      /\ answer.from = request.pc /\ answer.health = Null
  OBVIOUS
<1> HIDE DEF answer
<1>4. TypeOK' /\ request'.answer = answer /\ request'.pc = "answered"
  BY <1>1, <1>2 DEF EdgeInv, TypeOK, RequestState
<1>5. answer # Null
  BY <1>1, NullAssumption
<1>6. AdmissionOK'
  BY <1>2, <1>3 DEF EdgeInv, AdmissionOK, inHandler, RequestState
<1>7. LanguageOK'
  BY <1>1, <1>2 DEF EdgeInv, LanguageOK, RequestState
<1>8. HealthOK'
  BY <1>2, <1>3, NullAssumption DEF EdgeInv, HealthOK, RequestState
<1>9. CodeNamesTheCause'
  BY <1>2, <1>3 DEF CodeNamesTheCause, Matches, RequestState
<1> QED
  BY <1>4, <1>5, <1>6, <1>7, <1>8, <1>9 DEF EdgeInv

\* A request passes on to the next stage.
LEMMA GotoKeeps ==
  ASSUME EdgeInv, UNCHANGED <<up, flips>>, request.pc \notin {"checkRedis", "answered"},
         NEW pc \in {"throttle", "guard", "pipe", "handler"}, Goto(pc),
         pc \in {"pipe", "handler"} /\ request.route \in basicAuthRoutes
         => canActivate(request.authorization),
         pc = "handler" /\ request.route \notin {"health", "unknown"} => request.valid
  PROVE  EdgeInv'
<1>1. /\ request \in RequestState
      /\ request' = [request EXCEPT !.pc = pc]
      /\ request.answer = Null
  BY DEF EdgeInv, TypeOK, Goto
<1>2. TypeOK'
  BY <1>1 DEF EdgeInv, TypeOK, RequestState
<1>3. AdmissionOK'
  BY <1>1 DEF AdmissionOK, inHandler, RequestState
<1>4. LanguageOK'
  BY <1>1 DEF EdgeInv, LanguageOK, RequestState
<1>5. HealthOK'
  BY <1>1 DEF EdgeInv, HealthOK, RequestState
<1>6. CodeNamesTheCause'
  BY <1>1 DEF CodeNamesTheCause, Answered, RequestState
<1> QED
  BY <1>1, <1>2, <1>3, <1>4, <1>5, <1>6 DEF EdgeInv, RequestState

\* A handler returns.
LEMMA SucceedKeeps ==
  ASSUME EdgeInv, UNCHANGED <<up, flips>>, inHandler,
         NEW status \in {200, 201, 202}, NEW health \in {"ok", "degraded", Null},
         Succeed(status, health),
         health = "ok" => request.wasUp = Dependency
  PROVE  EdgeInv'
<1> DEFINE answer == [status |-> status, code |-> Null, clientMessage |-> Null,
                      from |-> "handler", health |-> health]
<1>1. answer \in Answer
  BY DEF Answer
<1>2. /\ request \in RequestState
      /\ request' = [request EXCEPT !.pc = "answered", !.answer = answer]
  BY DEF EdgeInv, TypeOK, Succeed, Reply
<1>3. /\ answer.status # 401 /\ answer.code = Null /\ answer.clientMessage = Null
      /\ answer.from = "handler" /\ answer.health = health
  OBVIOUS
<1> HIDE DEF answer
<1>4. TypeOK' /\ request'.answer = answer /\ request'.pc = "answered"
  BY <1>1, <1>2 DEF EdgeInv, TypeOK, RequestState
<1>5. answer # Null
  BY <1>1, NullAssumption
<1>6. AdmissionOK'
  BY <1>2, <1>3 DEF EdgeInv, AdmissionOK, inHandler, RequestState
<1>7. LanguageOK'
  BY <1>2, <1>3 DEF EdgeInv, LanguageOK, RequestState
<1>8. HealthOK'
  BY <1>2, <1>3 DEF EdgeInv, HealthOK, RequestState
<1>9. CodeNamesTheCause'
  BY <1>2, <1>3 DEF CodeNamesTheCause, RequestState
<1> QED
  BY <1>4, <1>5, <1>6, <1>7, <1>8, <1>9 DEF EdgeInv

-------------------------------------------------------------------------------
(* The steps. *)

\* A request that was not sent yet has passed nothing.
LEMMA InitEstablishes == Init => EdgeInv
<1> SUFFICES ASSUME Init PROVE EdgeInv
  OBVIOUS
<1>1. TypeOK
  BY HttpAssumption DEF Init, TypeOK, RequestState, Route, SupportedLanguage, DEFAULT_LANGUAGE
<1> QED
  BY <1>1 DEF Init, EdgeInv, AdmissionOK, inHandler, LanguageOK, HealthOK,
              CodeNamesTheCause, Answered

\* The headers decide the language; the middlewares may answer a preflight.
LEMMA ReceiveKeeps == EdgeInv /\ Receive => EdgeInv'
<1> SUFFICES ASSUME EdgeInv, Receive PROVE EdgeInv'
  OBVIOUS
<1>1. PICK route \in Route, header \in AcceptLanguage \cup {Null},
           authorization \in Credential \cup {Null}, valid \in BOOLEAN :
        \/ request' = [request EXCEPT
                         !.pc = "middleware", !.route = route, !.acceptLanguage = header,
                         !.language = IF header = Null THEN DEFAULT_LANGUAGE
                                                       ELSE resolveLanguage(header),
                         !.authorization = authorization, !.valid = valid]
        \/ Reply([status |-> 204, code |-> Null, clientMessage |-> Null,
                  from |-> "middleware", health |-> Null])
  BY DEF Receive
<1>2. request \in RequestState /\ request.pc = "unsent" /\ UNCHANGED <<up, flips>>
  BY DEF EdgeInv, TypeOK, Receive, At
<1>3. CASE Reply([status |-> 204, code |-> Null, clientMessage |-> Null,
                  from |-> "middleware", health |-> Null])
  <2> DEFINE answer == [status |-> 204, code |-> Null, clientMessage |-> Null,
                        from |-> "middleware", health |-> Null]
  <2>1. answer \in Answer
    BY DEF Answer
  <2>2. request' = [request EXCEPT !.pc = "answered", !.answer = answer]
    BY <1>3 DEF Reply
  <2>3. /\ answer.status # 401 /\ answer.code = Null /\ answer.clientMessage = Null
        /\ answer.from = "middleware" /\ answer.health = Null
    OBVIOUS
  <2> HIDE DEF answer
  <2>4. TypeOK' /\ request'.answer = answer /\ request'.pc = "answered"
    BY <2>1, <2>2, <1>2 DEF EdgeInv, TypeOK, RequestState
  <2>5. answer # Null
    BY <2>1, NullAssumption
  <2>6. AdmissionOK' /\ LanguageOK' /\ HealthOK' /\ CodeNamesTheCause'
    BY <2>2, <2>3, <1>2, NullAssumption
       DEF EdgeInv, AdmissionOK, inHandler, LanguageOK, HealthOK, CodeNamesTheCause,
           RequestState
  <2> QED
    BY <2>4, <2>5, <2>6 DEF EdgeInv
<1>4. CASE request' = [request EXCEPT
                         !.pc = "middleware", !.route = route, !.acceptLanguage = header,
                         !.language = IF header = Null THEN DEFAULT_LANGUAGE
                                                       ELSE resolveLanguage(header),
                         !.authorization = authorization, !.valid = valid]
  <2> DEFINE language == IF header = Null THEN DEFAULT_LANGUAGE ELSE resolveLanguage(header)
  <2>1. language \in SupportedLanguage
    BY ResolvesSupported, HttpAssumption DEF DEFAULT_LANGUAGE, SupportedLanguage
  <2> HIDE DEF language
  <2>2. request' = [request EXCEPT
                      !.pc = "middleware", !.route = route, !.acceptLanguage = header,
                      !.language = language, !.authorization = authorization,
                      !.valid = valid]
    BY <1>4 DEF language
  <2>3. TypeOK'
    BY <2>1, <2>2, <1>2 DEF EdgeInv, TypeOK, RequestState
  <2>4. /\ request'.pc = "middleware" /\ request'.answer = request.answer
        /\ request'.found = request.found /\ request'.wasUp = request.wasUp
        /\ request'.acceptLanguage = header /\ request'.language = language
    BY <2>2, <1>2 DEF RequestState
  <2>5. LanguageOK'
    BY <2>4 DEF LanguageOK, language
  <2>6. AdmissionOK' /\ HealthOK' /\ CodeNamesTheCause' /\ request'.answer = Null
    BY <2>4, <1>2
       DEF EdgeInv, AdmissionOK, inHandler, HealthOK, CodeNamesTheCause, Answered
  <2> QED
    BY <2>3, <2>4, <2>5, <2>6 DEF EdgeInv
<1> QED
  BY <1>1, <1>3, <1>4

\* Middlewares, throttler, guard and pipe let a request pass or throw.
LEMMA StagesKeep ==
  EdgeInv /\ (ParseBody \/ Throttle \/ Guard \/ Pipe) => EdgeInv'
<1> SUFFICES ASSUME EdgeInv, ParseBody \/ Throttle \/ Guard \/ Pipe PROVE EdgeInv'
  OBVIOUS
<1>1. CASE ParseBody
  <2>1. request.pc = "middleware" /\ UNCHANGED <<up, flips>>
    BY <1>1 DEF ParseBody, At
  <2>2. CASE \E e \in {MalformedBody, Unexpected} : Throw(e)
    BY <2>1, <2>2, Codes, Statuses, ThrowKeeps DEF Matches, Thrown
  <2>3. CASE Goto(IF request.route = "unknown" THEN "handler" ELSE "throttle")
    BY <2>1, <2>3, GotoKeeps DEF basicAuthRoutes
  <2> QED
    BY <1>1, <2>2, <2>3 DEF ParseBody
<1>2. CASE Throttle
  <2>1. request.pc = "throttle" /\ UNCHANGED <<up, flips>>
    BY <1>2 DEF Throttle, At
  <2>2. CASE Throw(ThrottlerException)
    BY <2>1, <2>2, Codes, Statuses, ThrowKeeps DEF Matches, Thrown
  <2>3. CASE Goto("guard")
    BY <2>1, <2>3, GotoKeeps
  <2> QED
    BY <1>2, <2>2, <2>3 DEF Throttle
<1>3. CASE Guard
  <2>1. request.pc = "guard" /\ UNCHANGED <<up, flips>>
    BY <1>3 DEF Guard, At
  <2>2. CASE /\ request.route \in basicAuthRoutes
             /\ canActivate(request.authorization) /\ Goto("pipe")
    BY <2>1, <2>2, GotoKeeps
  <2>3. CASE /\ request.route \in basicAuthRoutes
             /\ ~canActivate(request.authorization) /\ Throw(UnauthorizedError)
    BY <2>1, <2>3, Codes, Statuses, ThrowKeeps DEF Matches, Thrown, basicAuthRoutes
  <2>4. CASE request.route \in {"tasks", "health"} /\ Goto("pipe")
    BY <2>1, <2>4, GotoKeeps DEF basicAuthRoutes
  <2>5. CASE /\ request.route = "tasks"
             /\ \E e \in {BadRequestError, NotFoundError, Unexpected} : Throw(e)
    BY <2>1, <2>5, Codes, Statuses, ThrowKeeps DEF Matches, Thrown
  <2> QED
    BY <1>3, <2>2, <2>3, <2>4, <2>5 DEF Guard, BasicAuthGuard, TenantContextGuard
<1>4. CASE Pipe
  <2>1. request.pc = "pipe" /\ UNCHANGED <<up, flips>>
    BY <1>4 DEF Pipe, At
  <2>2. CASE (request.valid \/ request.route = "health") /\ Goto("handler")
    BY <2>1, <2>2, GotoKeeps DEF EdgeInv, AdmissionOK
  <2>3. CASE Throw(ValidationFailed)
    BY <2>1, <2>3, Codes, Statuses, ThrowKeeps DEF Matches, Thrown
  <2> QED
    BY <1>4, <2>2, <2>3 DEF Pipe
<1> QED
  BY <1>1, <1>2, <1>3, <1>4

\* A handler returns, throws, or is the health check, which begins.
LEMMA HandleKeeps == EdgeInv /\ Handle => EdgeInv'
<1> SUFFICES ASSUME EdgeInv, Handle PROVE EdgeInv'
  OBVIOUS
<1>1. /\ request \in RequestState /\ up \in SUBSET Dependency
      /\ request.pc = "handler" /\ inHandler /\ UNCHANGED <<up, flips>>
  BY DEF Handle, At, inHandler, EdgeInv, TypeOK
<1>2. CASE /\ request.route = "health"
           /\ request' = [request EXCEPT !.pc = "checkMongo", !.wasUp = up]
  <2>1. request.found = {}
    BY <1>1 DEF EdgeInv, HealthOK
  <2>2. TypeOK'
    BY <1>1, <1>2 DEF EdgeInv, TypeOK, RequestState
  <2>3. /\ request'.pc = "checkMongo" /\ request'.wasUp = up /\ request'.found = {}
        /\ request'.route = "health" /\ request'.answer = request.answer
        /\ request'.acceptLanguage = request.acceptLanguage
        /\ request'.language = request.language
    BY <2>1, <1>1, <1>2 DEF RequestState
  <2>4. AdmissionOK' /\ LanguageOK' /\ HealthOK' /\ CodeNamesTheCause'
        /\ request'.answer = Null
    BY <2>3, <1>1
       DEF EdgeInv, AdmissionOK, inHandler, LanguageOK, HealthOK, CodeNamesTheCause,
           Answered, basicAuthRoutes
  <2> QED
    BY <2>2, <2>3, <2>4 DEF EdgeInv
<1>3. CASE /\ request.route \notin {"health", "unknown"}
           /\ \E status \in successStatus[request.route] : Succeed(status, Null)
  <2>1. successStatus[request.route] \subseteq {200, 201, 202}
    BY <1>1, <1>3 DEF successStatus, RequestState
  <2> QED
    BY <2>1, <1>1, <1>3, NullAssumption, SucceedKeeps
<1>4. CASE \E e \in thrownBy[request.route] : Throw(e)
  <2>1. thrownBy[request.route]
          \subseteq {NotFoundError, ConflictError, RouteNotFound, Unexpected}
    BY <1>1 DEF thrownBy, RequestState
  <2> QED
    BY <2>1, <1>1, <1>4, Codes, Statuses, ThrowKeeps DEF Matches, Thrown
<1> QED
  BY <1>2, <1>3, <1>4 DEF Handle

\* The health check looks at one dependency, then at the other, while they change.
LEMMA HealthKeeps == EdgeInv /\ (CheckMongo \/ CheckRedis \/ Flip) => EdgeInv'
<1> SUFFICES ASSUME EdgeInv, CheckMongo \/ CheckRedis \/ Flip PROVE EdgeInv'
  OBVIOUS
<1>1. /\ request \in RequestState /\ up \in SUBSET Dependency /\ flips \in 0..MaxFlips
      /\ request.pc \in {"checkMongo", "checkRedis"} /\ inHandler
      /\ up \subseteq request.wasUp /\ request.answer = Null
  BY DEF CheckMongo, CheckRedis, Flip, At, inHandler, EdgeInv, TypeOK, HealthOK
<1>2. CASE CheckMongo
  <2>1. PICK found \in SUBSET (up \cap {"mongo"}) :
          request' = [request EXCEPT !.pc = "checkRedis", !.found = found]
    BY <1>2 DEF CheckMongo
  <2>2. UNCHANGED <<up, flips>> /\ found \subseteq request.wasUp
    BY <1>1, <1>2 DEF CheckMongo
  <2>3. found \in SUBSET Dependency
    BY <1>1
  <2>4. TypeOK'
    BY <2>1, <2>2, <2>3, <1>1 DEF EdgeInv, TypeOK, RequestState
  <2>5. /\ request'.pc = "checkRedis" /\ request'.found = found
        /\ request'.wasUp = request.wasUp /\ request'.route = request.route
        /\ request'.authorization = request.authorization
        /\ request'.valid = request.valid /\ request'.answer = request.answer
        /\ request'.acceptLanguage = request.acceptLanguage
        /\ request'.language = request.language
    BY <2>1, <1>1 DEF RequestState
  <2>6. AdmissionOK' /\ LanguageOK' /\ HealthOK' /\ CodeNamesTheCause'
    BY <2>2, <2>5, <1>1
       DEF EdgeInv, AdmissionOK, inHandler, LanguageOK, HealthOK, CodeNamesTheCause,
           Answered
  <2> QED
    BY <2>4, <2>5, <2>6, <1>1 DEF EdgeInv
<1>3. CASE CheckRedis
  <2>1. PICK found \in SUBSET (up \cap {"redis"}) :
          Succeed(200, IF request.found \cup found = Dependency THEN "ok" ELSE "degraded")
    BY <1>3 DEF CheckRedis
  <2> DEFINE health == IF request.found \cup found = Dependency THEN "ok" ELSE "degraded"
  <2>2. health = "ok" => request.wasUp = Dependency
    BY <1>1 DEF EdgeInv, HealthOK, RequestState
  <2>3. health \in {"ok", "degraded", Null}
    OBVIOUS
  <2> HIDE DEF health
  <2>4. Succeed(200, health) /\ UNCHANGED <<up, flips>>
    BY <2>1, <1>3 DEF health, CheckRedis
  <2> QED
    BY <2>2, <2>3, <2>4, <1>1, SucceedKeeps
<1>4. CASE Flip
  <2>1. /\ up' \in SUBSET Dependency /\ flips' \in 0..MaxFlips
        /\ request' = [request EXCEPT !.wasUp = @ \cup up']
    BY <1>1, <1>4, HttpAssumption DEF Flip
  <2>2. TypeOK'
    BY <2>1, <1>1 DEF EdgeInv, TypeOK, RequestState
  <2>3. /\ request'.pc = request.pc /\ request'.found = request.found
        /\ request'.wasUp = request.wasUp \cup up' /\ request'.route = request.route
        /\ request'.authorization = request.authorization
        /\ request'.valid = request.valid /\ request'.answer = request.answer
        /\ request'.acceptLanguage = request.acceptLanguage
        /\ request'.language = request.language
    BY <2>1, <1>1 DEF RequestState
  <2>4. AdmissionOK' /\ LanguageOK' /\ HealthOK' /\ CodeNamesTheCause'
    BY <2>1, <2>3, <1>1
       DEF EdgeInv, AdmissionOK, inHandler, LanguageOK, HealthOK, CodeNamesTheCause,
           Answered
  <2> QED
    BY <2>2, <2>3, <2>4, <1>1 DEF EdgeInv
<1> QED
  BY <1>2, <1>3, <1>4

\* The invariant holds of every request.
THEOREM EdgeInvariantHolds == Spec => []EdgeInv
<1>1. ASSUME EdgeInv, Next PROVE EdgeInv'
  <2>1. CASE Receive
    BY <2>1, <1>1, ReceiveKeeps
  <2>2. CASE ParseBody \/ Throttle \/ Guard \/ Pipe
    BY <2>2, <1>1, StagesKeep
  <2>3. CASE Handle
    BY <2>3, <1>1, HandleKeeps
  <2>4. CASE CheckMongo \/ CheckRedis \/ Flip
    BY <2>4, <1>1, HealthKeeps
  <2>5. CASE Done
    BY <2>5, <1>1 DEF Done, vars, EdgeInv, TypeOK, AdmissionOK, inHandler, LanguageOK,
                      HealthOK, CodeNamesTheCause, Answered
  <2> QED
    BY <1>1, <2>1, <2>2, <2>3, <2>4, <2>5 DEF Next
<1>2. ASSUME EdgeInv, UNCHANGED vars PROVE EdgeInv'
  BY <1>2 DEF vars, EdgeInv, TypeOK, AdmissionOK, inHandler, LanguageOK, HealthOK,
              CodeNamesTheCause, Answered
<1> QED
  BY <1>1, <1>2, InitEstablishes, PTL DEF Spec

-------------------------------------------------------------------------------

\* Every value of every variable has its type: in particular the language of an
\* answer is one of the three that the service speaks.
THEOREM EdgeTypeCorrect == Spec => []TypeOK
<1>1. EdgeInv => TypeOK
  BY DEF EdgeInv
<1> QED
  BY <1>1, EdgeInvariantHolds, PTL

\* For any configured user and password, only these open a handler behind
\* BasicAuthGuard; and if the user has no ":", they are never answered 401.
THEOREM AdmissionIsExact == Spec => []OnlyAdmittedRun
<1>1. EdgeInv => OnlyAdmittedRun
  <2> SUFFICES ASSUME EdgeInv PROVE OnlyAdmittedRun
    OBVIOUS
  <2>1. request.authorization \in Text \cup {Null} /\ (Answered <=> request.pc = "answered")
    BY HttpAssumption DEF EdgeInv, TypeOK, RequestState, Answered
  <2>2. canActivate(request.authorization) => request.authorization = rightCredentials
    BY <2>1, AdmittedCredentials DEF canActivate
  <2>3. separators(ExpectedUser) = {} => canActivate(rightCredentials)
    BY RightCredentialsAdmitted
  <2> QED
    BY <2>1, <2>2, <2>3 DEF EdgeInv, AdmissionOK, inHandler, OnlyAdmittedRun
<1> QED
  BY <1>1, EdgeInvariantHolds, PTL

\* For any header, an error in the service's words is in the supported language of
\* the highest weight: the stable sort and find of resolveLanguage choose it.
THEOREM LanguageIsPreferred == Spec => []ErrorsSpeakThePreferredLanguage
<1>1. EdgeInv => ErrorsSpeakThePreferredLanguage
  <2> SUFFICES ASSUME EdgeInv, Answered, request.answer.clientMessage # Null,
                      request.acceptLanguage # Null,
                      PlainlyWeighted(request.acceptLanguage)
               PROVE  LET header == request.acceptLanguage
                      IN  IF supportedParts(header) = {}
                          THEN request.answer.clientMessage = "en"
                          ELSE \E i \in supportedParts(header) :
                                 /\ request.answer.clientMessage = header[i].language
                                 /\ \A j \in supportedParts(header) :
                                      weightOf(header[j]) <= weightOf(header[i])
    BY DEF ErrorsSpeakThePreferredLanguage
  <2> DEFINE header == request.acceptLanguage
  <2>1. header \in Seq(Part)
    BY HttpAssumption DEF EdgeInv, TypeOK, RequestState
  <2>2. request.answer.clientMessage = resolveLanguage(header)
    BY DEF EdgeInv, LanguageOK, Answered
  <2>3. \A i \in DOMAIN header :
          /\ quality(header[i]) = weightOf(header[i])
          /\ weightOf(header[i]) \in Int
    <3> SUFFICES ASSUME NEW i \in DOMAIN header
                 PROVE  /\ quality(header[i]) = weightOf(header[i])
                        /\ weightOf(header[i]) \in Int
      OBVIOUS
    <3>1. header[i] \in Part
      BY <2>1, LenProperties, ElementOfSeq
    <3>2. quality(header[i]) = weightOf(header[i])
      BY DEF PlainlyWeighted, quality, weightOf
    <3> QED
      BY <3>1, <3>2, QualityType
  <2>4. supportedParts(header) \subseteq DOMAIN header
    BY DEF supportedParts
  <2> HIDE DEF header
  <2>5. CASE supportedParts(header) = {}
    BY <2>1, <2>2, <2>5, ResolvesFirst DEF header
  <2>6. CASE supportedParts(header) # {}
    <3>1. PICK i \in supportedParts(header) :
            /\ resolveLanguage(header) = header[i].language
            /\ \A j \in supportedParts(header) \ {i} : before(header, i, j)
      BY <2>1, <2>6, ResolvesFirst
    <3>2. \A j \in supportedParts(header) : weightOf(header[j]) <= weightOf(header[i])
      BY <3>1, <2>3, <2>4 DEF before
    <3> QED
      BY <3>1, <3>2, <2>2, <2>6 DEF header
  <2> QED
    BY <2>5, <2>6 DEF header
<1> QED
  BY <1>1, EdgeInvariantHolds, PTL

\* The code of an error names who refused the request.
THEOREM CodesNameCauses == Spec => []CodeNamesTheCause
<1>1. EdgeInv => CodeNamesTheCause
  BY DEF EdgeInv
<1> QED
  BY <1>1, EdgeInvariantHolds, PTL

\* "ok" of GET /health is backed by a sighting of each dependency, however often
\* they come and go.
THEOREM HealthIsBacked == Spec => []HealthIsOfTheCall
<1>1. EdgeInv => HealthIsOfTheCall
  BY DEF EdgeInv, HealthOK, HealthIsOfTheCall, Answered
<1> QED
  BY <1>1, EdgeInvariantHolds, PTL

===============================================================================
