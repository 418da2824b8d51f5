-------------------------------- MODULE HttpEdge --------------------------------
(***************************************************************************)
(* What every request passes before and after its handler: the middlewares *)
(* of Application.configureMiddlewares, the throttler, the guard of its    *)
(* controller, validation, and on the way back the response interceptor or *)
(* the exception filter.  What the guard of /tasks and the handlers do is  *)
(* modelled elsewhere; here they let the request through, return or throw. *)
(*                                                                         *)
(* Requests share nothing here but the counters of the throttler, which is *)
(* external and may refuse at any time, so one request stands for all.     *)
(*                                                                         *)
(* GET /health looks at the two dependencies one after the other, while    *)
(* they come and go.                                                       *)
(***************************************************************************)
EXTENDS Integers, Sequences, FiniteSets

CONSTANTS AcceptLanguage, \* Accept-Language headers: sequences of parts
          Char,           \* the characters of credentials
          Credential,     \* what Basic authorization headers decode to
          ExpectedUser,   \* WEBHOOK_BASIC_AUTH_USER
          ExpectedPass,   \* WEBHOOK_BASIC_AUTH_PASS
          MaxFlips,       \* bound on the changes of the dependencies
          Null

VARIABLES request, up, flips

vars == <<request, up, flips>>

Text == Seq(Char)

\* A part of a header names a language (its primary tag, lower case) and may have
\* a weight of so many tenths, written with or without a blank before "q=";
\* tenths is Null for a number that parseFloat does not read.
Part ==
  [language : STRING,
   weight   : [blank : BOOLEAN, tenths : Int \cup {Null}] \cup {Null}]

ASSUME HttpAssumption ==
  /\ AcceptLanguage \subseteq Seq(Part)
  /\ ":" \in Char
  /\ ExpectedUser \in Text
  /\ ExpectedPass \in Text
  /\ Credential \subseteq Text
  /\ MaxFlips \in Nat
  /\ Null \notin Text

-------------------------------------------------------------------------------
(* Accept-Language. *)

SupportedLanguage == {"en", "ru", "uz"}

DEFAULT_LANGUAGE == "en"

quality(part) ==
  IF part.weight = Null THEN 10
  ELSE IF part.weight.blank THEN 10
  ELSE IF part.weight.tenths = Null THEN 0 ELSE part.weight.tenths

\* Mutant: the lowest quality first.
beforeAscending(header, i, j) ==
  \/ quality(header[i]) < quality(header[j])
  \/ quality(header[i]) = quality(header[j]) /\ i < j

\* The order of the sort, which is stable.
before(header, i, j) ==
  \/ quality(header[i]) > quality(header[j])
  \/ quality(header[i]) = quality(header[j]) /\ i < j

\* Mutant: the first candidate, supported or not.
resolveAnyLanguage(header) ==
  IF header = <<>> THEN DEFAULT_LANGUAGE
  ELSE header[CHOOSE i \in DOMAIN header :
                \A j \in DOMAIN header \ {i} : before(header, i, j)].language

\* The first supported candidate in that order.
resolveLanguage(header) ==
  LET supported == {i \in DOMAIN header : header[i].language \in SupportedLanguage}
  IN  IF supported = {} THEN DEFAULT_LANGUAGE
      ELSE header[CHOOSE i \in supported :
                    \A j \in supported \ {i} : before(header, i, j)].language

-------------------------------------------------------------------------------
(* BasicAuthGuard. *)

separators(decoded) == {i \in DOMAIN decoded : decoded[i] = ":"}

\* Mutant: lastIndexOf.
lastSeparatorIndex(decoded) ==
  CHOOSE i \in separators(decoded) : \A j \in separators(decoded) : j <= i

\* indexOf(":")
separatorIndex(decoded) ==
  CHOOSE i \in separators(decoded) : \A j \in separators(decoded) : i <= j

username(decoded) == SubSeq(decoded, 1, separatorIndex(decoded) - 1)

password(decoded) == SubSeq(decoded, separatorIndex(decoded) + 1, Len(decoded))

\* authorization is Null without a header of the Basic scheme.
canActivate(authorization) ==
  /\ authorization # Null
  /\ separators(authorization) # {}
  /\ username(authorization) = ExpectedUser
  /\ password(authorization) = ExpectedPass

-------------------------------------------------------------------------------
(* Exceptions, and what ResponseService makes of them.  An exception is an   *)
(* HttpException with a status and a response, or any other throw.  message  *)
(* is "text", a "list" or Null; messages tells if there are texts in every   *)
(* language; a response that is a string is bare.                            *)

HTTP_STATUS_TO_ERROR_CODE(status) ==
  CASE status = 400 -> "BAD_REQUEST"
    [] status = 401 -> "UNAUTHORIZED"
    [] status = 403 -> "FORBIDDEN"
    [] status = 404 -> "NOT_FOUND"
    [] status = 409 -> "CONFLICT"
    [] status = 422 -> "VALIDATION_ERROR"
    [] status = 429 -> "TOO_MANY_REQUESTS"
    [] OTHER -> "INTERNAL_SERVER_ERROR"

Exception(status, bare, code, messages, message) ==
  [status |-> status, bare |-> bare, code |-> code, messages |-> messages,
   message |-> message]

AppHttpException(status) ==
  Exception(status, FALSE, HTTP_STATUS_TO_ERROR_CODE(status), TRUE, "text")

BadRequestError   == AppHttpException(400)
UnauthorizedError == AppHttpException(401)
NotFoundError     == AppHttpException(404)
ConflictError     == AppHttpException(409)

\* Nest's own: a body that is not JSON, a failed validation, a throttled request,
\* a path without handler.
MalformedBody      == Exception(400, FALSE, Null, FALSE, "text")
ValidationFailed   == Exception(400, FALSE, Null, FALSE, "list")
ThrottlerException == Exception(429, TRUE, Null, FALSE, "text")
RouteNotFound      == Exception(404, FALSE, Null, FALSE, "text")

\* Anything else that is thrown, a body above the limit included: the filter puts
\* its own text in its place.
Unexpected == Exception(500, TRUE, Null, TRUE, "text")

\* The language the client's message is written in; Null for the texts of Nest.
clientMessage(e, language) == IF e.messages THEN language ELSE Null

\* Mutant: the status decides alone.
resolveErrorCodeByStatus(e) == HTTP_STATUS_TO_ERROR_CODE(e.status)

resolveErrorCode(e) ==
  IF ~e.bare /\ e.code # Null THEN e.code
  ELSE IF e.status = 400 /\ ~e.bare /\ e.message = "list" THEN "VALIDATION_ERROR"
  ELSE HTTP_STATUS_TO_ERROR_CODE(e.status)

-------------------------------------------------------------------------------
(* The life of a request. *)

Route == {"webhook", "companies", "users", "tasks", "health", "unknown"}

basicAuthRoutes == {"webhook", "companies", "users"}

\* What a handler answers when it returns, and what may come out of it.
successStatus ==
  [r \in Route |-> CASE r = "webhook" -> {202}
                     [] r = "health"  -> {200}
                     [] OTHER         -> {200, 201}]

thrownBy ==
  [r \in Route |-> CASE r \in {"companies", "users"} -> {NotFoundError, ConflictError, Unexpected}
                     [] r = "tasks"   -> {NotFoundError, Unexpected}
                     [] r = "unknown" -> {RouteNotFound}
                     [] OTHER         -> {}]

Dependency == {"mongo", "redis"}

ErrorCode ==
  {"BAD_REQUEST", "UNAUTHORIZED", "FORBIDDEN", "NOT_FOUND", "CONFLICT",
   "VALIDATION_ERROR", "TOO_MANY_REQUESTS", "INTERNAL_SERVER_ERROR"}

Answer ==
  [status        : {200, 201, 202, 204, 400, 401, 404, 409, 429, 500},
   code          : ErrorCode \cup {Null},
   clientMessage : SupportedLanguage \cup {Null},
   from          : {"middleware", "throttle", "guard", "pipe", "handler"},
   health        : {"ok", "degraded"} \cup {Null}]

\* wasUp: history, the dependencies that were up at some moment of the check.
RequestState ==
  [pc             : {"unsent", "middleware", "throttle", "guard", "pipe",
                     "handler", "checkMongo", "checkRedis", "answered"},
   route          : Route,
   acceptLanguage : AcceptLanguage \cup {Null},
   language       : SupportedLanguage,
   authorization  : Credential \cup {Null},
   valid          : BOOLEAN,
   found          : SUBSET Dependency,
   wasUp          : SUBSET Dependency,
   answer         : Answer \cup {Null}]

ASSUME NullAssumption ==
  /\ Null \notin ErrorCode \cup SupportedLanguage \cup {"ok", "degraded"}
  /\ Null \notin Answer
  /\ Null \notin AcceptLanguage

Init ==
  /\ request = [pc |-> "unsent", route |-> "unknown", acceptLanguage |-> Null,
                language |-> DEFAULT_LANGUAGE, authorization |-> Null, valid |-> FALSE,
                found |-> {}, wasUp |-> {}, answer |-> Null]
  /\ up \in SUBSET Dependency
  /\ flips = 0

At(pc) == request.pc = pc

Goto(pc) == request' = [request EXCEPT !.pc = pc]

Reply(answer) == request' = [request EXCEPT !.pc = "answered", !.answer = answer]

\* ResponseInterceptor wraps what a handler returns.
Succeed(status, health) ==
  Reply([status |-> status, code |-> Null, clientMessage |-> Null, from |-> "handler",
         health |-> health])

\* HttpExceptionFilter.catch
Throw(e) ==
  Reply([status |-> e.status, code |-> resolveErrorCode(e),
         clientMessage |-> clientMessage(e, request.language), from |-> request.pc,
         health |-> Null])

\* The middlewares set the language and answer a preflight.
Receive ==
  /\ At("unsent")
  /\ \E route \in Route, header \in AcceptLanguage \cup {Null},
        authorization \in Credential \cup {Null}, valid \in BOOLEAN :
       \/ request' = [request EXCEPT
                        !.pc = "middleware", !.route = route, !.acceptLanguage = header,
                        !.language = IF header = Null THEN DEFAULT_LANGUAGE
                                                      ELSE resolveLanguage(header),
                        !.authorization = authorization, !.valid = valid]
       \/ Reply([status |-> 204, code |-> Null, clientMessage |-> Null,
                 from |-> "middleware", health |-> Null])
  /\ UNCHANGED <<up, flips>>

\* express.json.  A path without a handler passes neither throttler nor guard.
ParseBody ==
  /\ At("middleware")
  /\ \/ \E e \in {MalformedBody, Unexpected} : Throw(e)
     \/ Goto(IF request.route = "unknown" THEN "handler" ELSE "throttle")
  /\ UNCHANGED <<up, flips>>

\* ThrottlerGuard, the global guard: before the guard of the controller.
Throttle ==
  /\ At("throttle")
  /\ \/ Throw(ThrottlerException)
     \/ Goto("guard")
  /\ UNCHANGED <<up, flips>>

BasicAuthGuard ==
  IF canActivate(request.authorization) THEN Goto("pipe") ELSE Throw(UnauthorizedError)

\* The header may be blank, name no company, or the lookup fail.
TenantContextGuard ==
  Goto("pipe") \/ \E e \in {BadRequestError, NotFoundError, Unexpected} : Throw(e)

\* The guard that the controller names; GET /health names none.
Guard ==
  /\ At("guard")
  /\ \/ request.route \in basicAuthRoutes /\ BasicAuthGuard
     \/ request.route = "tasks"  /\ TenantContextGuard
     \/ request.route = "health" /\ Goto("pipe")
  /\ UNCHANGED <<up, flips>>

\* ValidationPipe; GET /health takes nothing that it could refuse.
Pipe ==
  /\ At("pipe")
  /\ IF request.valid \/ request.route = "health"
     THEN Goto("handler") ELSE Throw(ValidationFailed)
  /\ UNCHANGED <<up, flips>>

Handle ==
  /\ At("handler")
  /\ \/ /\ request.route = "health"
        /\ request' = [request EXCEPT !.pc = "checkMongo", !.wasUp = up]
     \/ /\ request.route \notin {"health", "unknown"}
        /\ \E status \in successStatus[request.route] : Succeed(status, Null)
     \/ \E e \in thrownBy[request.route] : Throw(e)
  /\ UNCHANGED <<up, flips>>

\* Mutant: a ping that throws is taken for an answer.
CheckMongoOptimistic ==
  /\ At("checkMongo")
  /\ request' = [request EXCEPT !.pc = "checkRedis", !.found = {"mongo"}]
  /\ UNCHANGED <<up, flips>>

\* checkMongo: readyState may lag behind what a ping would find.
CheckMongo ==
  /\ At("checkMongo")
  /\ \E found \in SUBSET (up \cap {"mongo"}) :
       request' = [request EXCEPT !.pc = "checkRedis", !.found = found]
  /\ UNCHANGED <<up, flips>>

\* checkRedis, on a connection of its own that may time out; then the answer.
CheckRedis ==
  /\ At("checkRedis")
  /\ \E found \in SUBSET (up \cap {"redis"}) :
       Succeed(200, IF request.found \cup found = Dependency THEN "ok" ELSE "degraded")
  /\ UNCHANGED <<up, flips>>

\* MongoDB or Redis goes down or comes back; before the check it makes no
\* difference.
Flip ==
  /\ At("checkMongo") \/ At("checkRedis")
  /\ flips < MaxFlips
  /\ \E d \in Dependency : up' = IF d \in up THEN up \ {d} ELSE up \cup {d}
  /\ flips' = flips + 1
  /\ request' = [request EXCEPT !.wasUp = @ \cup up']

Done == At("answered") /\ UNCHANGED vars

Next ==
  \/ Receive \/ ParseBody \/ Throttle \/ Guard \/ Pipe \/ Handle \/ CheckMongo \/ CheckRedis
  \/ Flip
  \/ Done

Spec == Init /\ [][Next]_vars

-------------------------------------------------------------------------------

\* Every variable holds a value of its type.
TypeOK ==
  /\ request \in RequestState
  /\ up \in SUBSET Dependency
  /\ flips \in 0..MaxFlips

Answered == request.answer # Null

\* The parts of a header that name a supported language, and a header whose
\* weights are all numbers without a blank before them.
supportedParts(header) ==
  {i \in DOMAIN header : header[i].language \in SupportedLanguage}

PlainlyWeighted(header) ==
  \A i \in DOMAIN header :
    header[i].weight # Null => ~header[i].weight.blank /\ header[i].weight.tenths # Null

weightOf(part) == IF part.weight = Null THEN 10 ELSE part.weight.tenths

\* An error in the service's own words comes in the supported language to which
\* the client gives the highest weight, wherever it stands in the header, and in
\* English if there is none.
ErrorsSpeakThePreferredLanguage ==
  LET header == request.acceptLanguage
  IN  /\ Answered
      /\ request.answer.clientMessage # Null
      /\ header # Null
      /\ PlainlyWeighted(header)
      => IF supportedParts(header) = {} THEN request.answer.clientMessage = "en"
         ELSE \E i \in supportedParts(header) :
                /\ request.answer.clientMessage = header[i].language
                /\ \A j \in supportedParts(header) :
                     weightOf(header[j]) <= weightOf(header[i])

\* The code of an error tells who refused the request, although the throttler,
\* the guards, the pipe, the handlers and the filter build it in five ways.
CodeNamesTheCause ==
  Answered /\ request.answer.code # Null =>
    LET answer == request.answer
    IN  /\ answer.code = "TOO_MANY_REQUESTS"     <=> answer.from = "throttle"
        /\ answer.code = "VALIDATION_ERROR"      <=> answer.from = "pipe"
        /\ answer.code = "UNAUTHORIZED"          <=> answer.from = "guard" /\ request.route # "tasks"
        /\ answer.code = "INTERNAL_SERVER_ERROR" <=> answer.status = 500

rightCredentials == ExpectedUser \o <<":">> \o ExpectedPass

\* A handler runs only for a valid request, behind basic authentication only for
\* one with the configured user and password; and whoever shows these is never
\* answered 401, even if the password holds a ":" itself.
OnlyAdmittedRun ==
  /\ \/ request.pc \in {"handler", "checkMongo", "checkRedis"}
     \/ Answered /\ request.answer.from = "handler"
     => /\ request.route \in basicAuthRoutes => request.authorization = rightCredentials
        /\ request.route \notin {"health", "unknown"} => request.valid
  /\ /\ separators(ExpectedUser) = {}
     /\ request.authorization = rightCredentials
     /\ Answered
     => request.answer.status # 401

\* GET /health says "ok" only if each dependency was up at some moment of the
\* check, though perhaps never both at once.
HealthIsOfTheCall ==
  Answered /\ request.answer.health = "ok" => request.wasUp = Dependency

===============================================================================
