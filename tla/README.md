# A TLA+ model of the email-to-task service

The service receives emails through a webhook, stores them in MongoDB, queues
them with BullMQ (Redis), classifies them with a language model in a background
worker, and turns the actionable ones into tasks of a tenant company, which
people of that company accept or reject.  These modules model the service at the
grain of one step per `await`: whatever can happen between two database, Redis
or model calls can happen between two steps.

Paths below are relative to the repository, whose implementation is `src/`.

## 1. The system

### 1.1 Components

| component | code | state | operations | model |
|---|---|---|---|---|
| inbound webhook | `src/api/email` | none of its own; a request holds the id of the document it inserted | `POST /email/inbound/webhook`: pre-check, insert, raced lookup, `queue.add`, write of QUEUED | `InboundEmail` |
| email store | `src/domain/repositories/emailMessages`, `src/database/schemas/emailMessages` | collection `email_messages`, unique on `providerMessageId` | `create`, `getById`, `findByProviderMessageId`, `updateStatus` | `EmailStore` |
| job queue | BullMQ, configured in `src/AppModule.ts`, `InboundEmailService.ts`, `EmailProcessingConstants.ts` | jobs by id, attempts, stalls, locks | add, fetch, complete, fail and retry, stalled check | `JobQueue`, `EmailProcessingConstants` |
| email worker | `src/services/emailProcessing/processor` | attempts under way, `failed` handlers under way | `process`, `processEmail`, `onFailed` | `EmailProcessing` |
| LLM classification | `OpenAiService.ts`, `ExtractionResultSchema.ts` | none | `classifyEmail` | `EmailProcessing!Classify` over `Response` |
| tenant resolution | `TenantResolverService.ts` | none (reads users) | `resolve` | `EmailProcessing!Resolve`, over the users of `UserAdmin` in `Service` |
| task creation | `TaskCreationService.ts`, `TaskRepository.ts`, `TaskSchema.ts` | collection `tasks`, unique on `(companyId, sourceEmailMessageId)` | `createFromExtraction` | `EmailProcessing!FindTask`, `CreateTask`, `MarkActionable` |
| tenant guard | `src/common/guards/TenantContextGuard.ts` | the tenant of a request | `canActivate` | `TaskReview!Guard` |
| task review | `src/api/task` | (tasks) | `reviewTask`, `listTasks` | `TaskReview`, `TaskList` |
| company administration | `src/api/company`, `companies` repository and schema | collection `companies`, unique on `apiKey` | create, update, delete; reads | `CompanyAdmin` |
| user administration | `src/api/user`, `users` repository and schema | collection `users`, unique multikey on `emails` | create, update, delete; reads | `UserAdmin` |
| admin authentication | `src/common/guards/BasicAuthGuard.ts` | none | `canActivate` | `HttpEdge!canActivate` |
| response envelope, exception filter | `ResponseService.ts`, `ResponseInterceptor.ts`, `HttpExceptionFilter.ts`, `src/infra/errors` | none | wrap an answer, map an error | `HttpEdge!Succeed`, `Throw`, `resolveErrorCode` |
| language negotiation | `src/common/i18n`, `LanguageMiddleware.ts` | the language of a request | pick `en`, `ru` or `uz` | `HttpEdge!resolveLanguage` |
| other middlewares | `src/common/middlewares` | none | preflight, headers | their order and the preflight, `HttpEdge!Receive` |
| health check | `src/api/health` | none | ping MongoDB, ping Redis | `HttpEdge!CheckMongo`, `CheckRedis` |
| startup, configuration | `main.ts`, `Application.ts`, `AppModule.ts`, `src/config`, `src/database` | connections | wiring | the order of the stages in `HttpEdge`; two settings are constants |
| correlation, logs, operation audit | `src/lib`, `src/infra/operations` | log files | write only | not modelled |
| scripts | `src/scripts` | none | development helpers | not modelled |

### 1.2 How they interact

The webhook writes an email document and then adds a job whose id is derived from
the provider's message id; the job carries only the document's id.  A worker slot
of the same process fetches the job and re-reads the document.  The two therefore
share the document and the job, and both write the document's `status`.  The
worker reads the users collection to decide which company an email belongs to;
`/users` changes that collection under it.  Tasks appear for reviewers as soon as
they are inserted, on pages a client asks for one after the other.  The review API resolves a company from the key in
`x-company-api-key` and filters every query on tasks by that company; `/companies`
changes keys under it.  Nothing is transactional: uniqueness is only ever enforced
by the unique indexes and by the one conditional update of the review.  Deleting a
company leaves its users and tasks behind.

Every request passes the middlewares, the throttler, the guard of its controller and
validation, in this order, before its handler, and the interceptor or the exception
filter after it.

### 1.3 What is hard here

Each is listed, at its line, under `hazards` in `PROJECT.json`.

- The webhook writes QUEUED *after* `queue.add`, so the worker may be ahead of it.
- Two deliveries of one message pass the pre-check together.
- A crash, an error, or a lost acknowledgement between any two calls.
- A job runs again after a failure, a crash or a stall, possibly while its earlier
  attempt is still running, and the model's verdict may differ each time.
- The directory of recipients changes between and during attempts.
- Reads may lag behind writes (`readPreference: secondaryPreferred`).
- Check-then-write races of keys, addresses and review decisions.
- A company is deleted under its users, its tasks and the worker.
- A page of tasks and its total are two queries, and pages are cut by `skip` out of a
  list that grows and shrinks.
- An error is answered in one of three languages, picked from a weighted header.

### 1.4 What makes each component correct

| component | properties |
|---|---|
| webhook | answers for one message name one document; no email leaves RECEIVED without its job, and none is left without one while the provider is told that it is queued; every delivery ends |
| worker | a completed job settles its email; no attempt and no `failed` handler takes an email out of a terminal status; exhausted attempts end in FAILED; every job finishes |
| tasks | one task per message; an ACTIONABLE email points at its own task for its own company; a task's email carries the verdict and the tenant that led to the task, unless the job was redone |
| whole service | a task is decided only by a company the email's recipient belonged to; a task for a company that does not exist is for one that was deleted |
| review | a task is decided once, by a holder of its company's key, and the one who is told so is the one who did it; "not found" for an own task means it was already decided; pages never mix tenants, and a client that pages to the end misses at most one task for each that a review took out of its filter |
| companies | a key opens one company; a deleted company stays deleted, and so nobody ever decides the tasks it left |
| users | an address has one owner, and never passes directly from one user to another; a deleted user stays deleted; a user's company existed once |
| HTTP edge | handlers run for admitted, valid requests only, and the right credentials are never refused; a code names its cause, a text is in the preferred language; "ok" of the health check was seen |

## 2. Modules

```
EmailProcessingConstants    job ids
        |
EmailStore -- JobQueue -- InboundEmail ----+
                  |                        +-- EmailPipeline -- MCEmailPipeline
                  +------ EmailProcessing -+     |   |   \
                                                 |   |    implements EmailToTask
                                                 |   EmailPipelineInvariants -- EmailPipelineProofs --
                                                 |     EmailPipelineOnceProofs -- EmailPipelinePromiseProofs
                                              Service -- MCService, ServiceProofs
TenantStore -- CompanyAdmin --+                  | (INSTANCE TenantApi)
       |------ UserAdmin -----+-- TenantApi -----+-- TaskList -- MCTaskList, TaskListProofs
       +------ TaskReview ----+    |  |   \
                                   |  |    implements ReviewOnce and AddressBook
                                   |  MCTenantApi
                                   TenantApiProofs -- TenantLifecycleProofs

HttpEdge -- MCHttpEdge, HttpEdgeProofs
```

### 2.1 The pipeline

**`EmailStore`** holds `emails` and `tasks` (the documents), `secondary` (what a
lagging secondary serves) and `faults` (how many calls have thrown).  A delivery
inserts at most one document, so a member of `Request` names both.  Of a document
the model keeps the message id, the recipient, the status, the company, the raw
result and the task id; the other fields are copied and never read.
`Throws` is a call that fails before it has any effect; `Outcome(FALSE)` after a
write is a call that took effect and whose acknowledgement was lost.  Duplicate
keys are refused on the primary when `UniqueIndexes` holds.

**`EmailProcessingConstants`** is `toEmailProcessingJobId`: every `:` becomes `_`.
Message ids are short sequences of characters so that this can collide.

**`JobQueue`** is BullMQ as the code uses it: `add` with a job id that exists does
nothing (finished jobs are never removed); an attempt that throws counts and the
job waits again until `attempts` is reached; an active job whose lock nobody holds
is returned to the queue by the stalled check, and fails for good when it stalled
more than `maxStalledCount` times.  BullMQ itself is external; its definitions are
marked so in the map.

**`InboundEmail`** has one action per await of `processInbound`: `FindExisting`,
`CreateEmail`, `FindRaced`, `Enqueue`, `MarkQueued`.  The early returns are the
answers `already_exists`, `race_condition`, `queued`, `internal_error`.  One catch
covers `queue.add` and the write of QUEUED, as in the code.

**`EmailProcessing`** has one action per await of `processEmail`: `Load`,
`MarkProcessing`, `Resolve`, `MarkUnmatched`, `SetTenant`, `Classify`, `StoreRaw`,
`MarkSkipped`, `FindTask`, `CreateTask`, `MarkActionable`, `MarkFailed`, then
`Complete` or `Fail`.  `onFailed` is `EmitFailed` (the early return while attempts
are left), `LoadFailed`, `MarkExhausted`.  `classifyEmail` looks at a `Response` of the
model: an error is thrown and the attempt fails, a refusal or a text that is empty,
malformed or not of the schema is a content failure (`verdictOf` is Null) and the email
FAILED, the rest is a verdict.  `directory` is the users collection as `findByEmail` sees it.

**`EmailPipeline`** composes them with the environment: `Deliver` (a provider that
may deliver again), `Crash`, `Expire` (a lock lost under a running slot), `Recover`
(the stalled check), `CatchUp` (replication), `Administer` (addresses move).  `Work` is
its next-state relation without `Administer`, which `Service` replaces by `/users`.

**`EmailToTask`** is the abstract specification: of each message, what is stored,
queued, on record as the verdict, created and settled.  `EmailPipeline!Promise` is
the refinement mapping; the abstract settle step is the job reaching `completed`
or `failed`.

### 2.2 The tenant-facing API

**`TenantStore`** holds `companies` (their keys), `users` (company and addresses),
`tasks` (company and status) and `secondary`.  **`CompanyAdmin`**, **`UserAdmin`**
and **`TaskReview`** have one action per await of the services behind
`/companies`, `/users` and `/tasks/:id/review`, the guard included.
A write that throws after it took effect answers `error`, and so, as far as the
client can tell, does a process that dies under a call; there is therefore no
separate crash.  **`TenantApi`** composes the three around one database.

**`ReviewOnce`** is what the review promises: a task is decided once and at most one
request is told that it did so.  **`AddressBook`** is what the worker relies on when it
resolves a recipient: one owner per address, changed only through nobody.  In both
mappings the concrete winners or owners are mapped as *sets*, with the abstract
names instantiated to singletons and nobody to the empty set: two owners at once would
be a value that no abstract state has.

**`TaskList`** extends `TenantApi` with clients that page through the tasks of their
company to the end: `ReceiveList` and `NextPage` send a request, `GuardList` is the
guard, and `FindPage` and `CountTasks` are the two queries of `Promise.all`, in either
order.  `createdAt` is set by the process before it inserts, so a task may appear behind
a newer one.  `newestFirst` is every order that `sort({ createdAt: -1 })` allows.

### 2.3 The whole service

**`Service`** runs the pipeline and the API on one database.  `Working` is a step of the
webhook or the worker; a task it inserts becomes a task that companies review
(`Api!Creating`).  `Serving` is a step of the API; what it does to users changes the
`directory` the worker resolves recipients in (`companyOfAddress` is `findByEmail`).
`owners` is a history of the companies an address belonged to.

### 2.4 The HTTP edge

**`HttpEdge`** follows one request: `Receive` (language, preflight), `ParseBody`,
`Throttle`, `Guard`, `Pipe`, `Handle`, and for `GET /health` `CheckMongo` and `CheckRedis`
while `Flip` takes the dependencies down and up.  What the handlers and the guard of
`/tasks` do is in the other modules; here they return or throw.  A credential is a
sequence of characters, since its separator may occur in it; a header is a sequence of
languages with weights.  An exception is what the filter looks at: its status, its
response's code, texts and message.  One request stands for all, as requests share
only the counters of the throttler, which may refuse at any time.

### 2.5 Simplifications

- Data that no property distinguishes is left out: subject, text, title,
  description, due date, assignee, names, the wording of the prompt.  The lookup of the
  assignee is part of `CreateTask`.  Pure reads that change nothing (`getById` endpoints,
  the lists of `/companies` and `/users`) are not actions.
- The Redis connection and BullMQ's internals are modelled by their effect on a job.
  The backoff delay is not modelled: a waiting job may be fetched at any time.
- A secondary lags as a whole: it serves one earlier state of all collections.
- In `TenantApi` alone, `TaskReview!AddTask` makes a task for any company at any time;
  in `EmailPipeline` alone, addresses move at any time.  `Service` replaces both by what
  the other part does, and `ServiceProofs` shows that they allow it.
- A JSON text, base64 and the comparison in constant time are modelled by their result.

## 3. What is checked

`Quiescent` (every delivery, job, handler and call is over) is the only state in
which a model may stop (`Done` in `HttpEdge`, and in `Service` both parts together);
deadlock checking is on in every run.

| run | bounds | checks |
|---|---|---|
| `pipeline_faults` | 2 deliveries of either of 2 messages, 1 slot, 3 attempts, 2 faults, 2 crashes | `TypeOK`, `SameMessageSameId`, `LeftReceivedHasJob`, `UnqueuedEmailIsReported`, `CompletedJobSettlesEmail`, `TerminalOnlyRequeued` |
| `pipeline_zombies` | 2 deliveries of 1 message, 2 slots, 1 lock lost, 1 crash, 1 move between 2 companies or away, lagging reads | `TaskIsAudited`, `OneTaskPerMessage` |
| `pipeline_promise` | 2 deliveries of 1 message, 2 attempts, 2 faults (what it takes to exhaust a job), 1 crash, fair | `KeepsFairPromise`, `EveryDeliveryEnds`, `EveryJobFinishes`, `ExhaustedEmailIsSettled` |
| `tenant_reviews` | 2 reviews, 1 task, 2 company calls, 3 companies | `TypeOK`, `OneCompanyPerKey`, `DeletedCompanyIsGone`, `AnsweredDecisionStands`, `DecidedByOwnTenant`, `NotFoundMeansDecided`, `KeepsReviewPromise`, `OrphanStaysOrphan` |
| `tenant_users` | 2 user calls, 1 company call, 1 user and 1 company at the start, 2 addresses, lagging reads | `DeletedUserIsGone`, `DanglingCompanyWasDeleted`, `KeepsBookPromise` |
| `tenant_lists` | 1 client that pages to the end with a limit of 1 or 2, 1 review, 3 tasks of 2 companies, 3 timestamps | `ListTypeOK`, `PagesAreOneTenants`, `PageAndTotalAreOfTheCall`, `PagingMissesOnePerReview` |
| `service` | 1 delivery, 1 slot, 2 attempts, 1 fault, 1 move, 1 company call, 1 user call, 1 review, 2 companies, 2 users | `ServiceTypeOK`, `ActionableEmailHasItsTask`, `DecidedByTheRecipientsCompany`, `TaskOfGoneCompanyWasDeleted` |
| `http_requests` | 1 request of every route, with every header of up to 2 parts and of 3 plain ones, 5 credentials, 2 changes of the dependencies | `TypeOK`, `ErrorsSpeakThePreferredLanguage`, `CodeNamesTheCause`, `OnlyAdmittedRun`, `HealthIsOfTheCall` |

Why the bounds suffice: the webhook's races are between two deliveries of one
message; a third would see what the second sees.  Two messages meet only in the
job id and in the slot they share.  Three attempts is the code's own number; two
are enough for "an earlier attempt did something", and two crashes reach BullMQ's
limit of one stall.  Two slots and one lost lock are the smallest overlap of two
attempts on one job.  Two faults hit two different calls, of the webhook, of the worker
or of `onFailed`; each also stands for a lost acknowledgement.  Company, user and
review calls race in pairs: each is a check followed by one atomic write.  A page can
miss a task only if another one appears or moves beside it, so three tasks and pages of
one or two show it.  In `service` the parts meet in one email, its recipient, its task
and its company, and each can be changed once under the others; the review shows the
key of the company that a call creates, since that of the first company is decided
upon in `tenant_reviews`.  One request stands for all in `http_requests`, and a header of
three parts has every order of supported and unsupported ones.

Where a property needs an assumption it says so.  `OneTaskPerMessage` speaks of
messages whose recipient has not moved (a move between attempts can give one message a
task in each company, the unique index being per company).  `TaskIsAudited` excepts the verdict
of a job that was redone, since another attempt records its own over the first (3.2), and the
tenant of one that was redone after a move.  `LeftReceivedHasJob` and `UnqueuedEmailIsReported`
want message ids that give different job ids.  `TerminalOnlyRequeued` is
checked with one slot (overlapping attempts may undo each other's terminal status), and
so is `ActionableEmailHasItsTask`.  `NotFoundMeansDecided` and `OrphanStaysOrphan` want
reads that do not lag.  `ExhaustedEmailIsSettled` excepts runs in which the process
died, and its run leaves no fault for `onFailed`.  `PagingMissesOnePerReview` wants
no two tasks of a company with one timestamp.  `ErrorsSpeakThePreferredLanguage`
excludes headers with a weight that is not read (3.2).

Every property has a mutant, a plausible bug in the code that the run catches; the
mutated operators stand beside the originals and say so.

### 3.1 Fairness

`FairSpec` assumes weak fairness of the handlers and attempts (Node runs every
pending callback, and every call answers or throws: the model call has a
client timeout, `OpenAiService.ts:29`), of fetching (an idle worker polls), of
`React` (an emitted event is handled) and of `Recover` (the stalled check is
periodic).  Nothing is owed by deliveries, faults, crashes, lost locks,
replication or administrators.

### 3.2 Where the repository says otherwise

Four runs refute a statement of the repository; `findings` quotes it.

| run | property | what happens |
|---|---|---|
| `terminal_status` | `TerminalStatusIsFinal` | The webhook writes QUEUED without looking; the worker may already have finished.  The email is then QUEUED for ever, although its task exists. |
| `colliding_job_ids` | `QueuedAnswerHasJob` | `a:` and `a_` share a job id.  The second email is stored and answered "queued", and never processed. |
| `email_of_task` | `EmailOfTaskIsActionable` | A crash between the task and the write of ACTIONABLE, and a second attempt.  Either it finds the task, reports ACTIONABLE and leaves the email PROCESSING; or it gets another verdict, records it over the first and marks the email SKIPPED, while the task stays for review.  The two counterexamples are equally short. |
| `blank_key` | `EveryCompanyHasKey` | An update with a key of blanks passes validation, is trimmed and stored as the empty key, which the guard never accepts. |

Others were met while modelling.  Each is a behaviour of the models that no run asks
about, since the repository says nothing that it would refute, or says it of another case:

- On a replica set a worker may not yet see the email it was queued for.  It then
  completes the job (`EmailProcessingProcessor.ts:59`) and the email stays unprocessed.
- A retry whose answer of the model cannot be used marks an email FAILED although its task
  exists.
- A client may be told "stored but failed to enqueue" although the job exists.
- A client that pages through the pending tasks while they are reviewed misses some
  (`PagingMissesOnePerReview` says how many), and so does one whose tasks have equal
  timestamps.
- The pending tasks of a deleted company can never be decided, and the worker goes on
  making tasks for it as long as its users are there.
- `README.md:76` and `DESIGN.md:31` call the webhook's answer "always 202"; that is said
  of its outcomes: a request may be answered 401, 400, 429 or 500 before the handler.
- A weight written `; q=0.3`, with the usual blank, is read as 1
  (`SupportedLanguage.ts:30`).
- A body above 256 kB is answered 500, as the filter knows no other status for what
  `express.json` throws.
- `POST /tasks/:id/review` is answered 201, Nest's default, where the Swagger decorator
  says 200.
- `test/AppE2eSpec.ts:215` sends no `x-company-api-key`; the guard answers 400 to that.

## 4. What is proved

Everything in this section is checked by TLAPS to the last leaf and holds for
every value of the constants that satisfies the `ASSUME`s of the modules: any
number of deliveries, messages, slots, companies, users, tasks, calls, faults,
crashes, lost locks and moves, any header, credential and configuration.  The
assumptions say that the counters' bounds are natural numbers, that `Null` is no
document, job, key or answer, that the settings are Booleans, that a call creates under
an id of its own, that a trimmed key is a key and none is ever one that `uuidv4` makes,
that what exists at the start respects the unique indexes, and that headers are
sequences of parts and credentials sequences of characters, `:` among them.  TLC
evaluates them in the runs of their modules; `ApiAssumption` states those of `TenantApi`
for the constants that `Service` gives it.

Every invariant and every safety action property of the passing runs is a theorem, and
so is the safety half of each refinement.  A hypothesis in the third column is a setting under which the statement
is made; where none is given, it holds with the unique indexes and without, on a replica
set and on a single server, whatever overlaps.

| module | theorem | says | if |
|---|---|---|---|
| `EmailPipelineProofs` | `InvariantHolds` | `Spec => []IInv` | |
| | `TypeCorrect` | `Spec => []TypeOK` | |
| `EmailPipelineOnceProofs` | `AnswersAgree` | `Spec => []SameMessageSameId` | `UniqueIndexes` |
| | `OneMessageOneTask` | `Spec => []OneTaskPerMessage` | `UniqueIndexes` |
| | `JobsBehindEmails` | `Spec => []LeftReceivedHasJob` | `UniqueIndexes`, `DistinctJobIds` |
| | `UnqueuedEmailsAreReported` | `Spec => []UnqueuedEmailIsReported` | `UniqueIndexes`, `DistinctJobIds` |
| `EmailPipelinePromiseProofs` | `CompletedIsSettled` | `Spec => []CompletedJobSettlesEmail` | `Exclusive`, `Fresh` |
| | `TerminalIsKept` | `Spec => TerminalOnlyRequeued` | `Exclusive`, `Fresh` |
| | `ActionableHasItsTask` | `Spec => []ActionableEmailHasItsTask` | `Exclusive` or `Steady` |
| | `TasksAreAudited` | `Spec => []TaskIsAudited` | |
| | `PipelineKeepsPromise` | `Spec => KeepsPromise`, the refinement of `EmailToTask` | `Exclusive`, `Steady`, `UniqueIndexes`, `DistinctJobIds` |
| `TenantApiProofs` | `AnswersStand` | `Spec => []AnsweredDecisionStands` | |
| | `TenantsAreApart` | `Spec => []DecidedByOwnTenant` | |
| | `ReviewsKeepPromise` | `Spec => KeepsReviewPromise`, the refinement of `ReviewOnce` | |
| | `KeysStayUnique` | `Spec => []OneCompanyPerKey` | `UniqueIndexes` |
| | `UsersKeepBook` | `Spec => KeepsBookPromise`, the refinement of `AddressBook` | `UniqueIndexes` |
| `TenantLifecycleProofs` | `TenantTypes` | `Spec => []TypeOK` | |
| | `DeletedCompaniesStayGone` | `Spec => []DeletedCompanyIsGone` | |
| | `DeletedUsersStayGone` | `Spec => []DeletedUserIsGone` | |
| | `DanglingUsersHadCompany` | `Spec => []DanglingCompanyWasDeleted` | `SeededUsersHaveCompanies` |
| | `NotFoundIsTooLate` | `Spec => []NotFoundMeansDecided` | `~HasSecondary` |
| | `OrphansStay` | `Spec => OrphanStaysOrphan` | |
| `TaskListProofs` | `ListTypes` | `ListSpec => []ListTypeOK` | |
| | `PagesShowOneTenant` | `ListSpec => []PagesAreOneTenants` | |
| | `PagesAreOfTheCall` | `ListSpec => []PageAndTotalAreOfTheCall` | |
| | `PagingMissesFew` | `ListSpec => []PagingMissesOnePerReview` | `~HasSecondary`, `CompanyCall = {}` |
| `ServiceProofs` | `ServiceRunsThePipeline` | `ServiceSpec => Spec`, that of `EmailPipeline` | |
| | `ServiceRunsTheApi` | `ServiceSpec => Api!Spec`, that of `TenantApi` | |
| | `ServiceTypes` | `ServiceSpec => []ServiceTypeOK` | |
| | `RecipientsCompanyDecides` | `ServiceSpec => []DecidedByTheRecipientsCompany` | |
| | `GoneCompaniesWereThere` | `ServiceSpec => []TaskOfGoneCompanyWasDeleted` | `SeededUsersHaveCompanies` |
| | `ServiceLinksTasks` | `ServiceSpec => []ActionableEmailHasItsTask` | `Exclusive` or `Steady` |
| `HttpEdgeProofs` | `EdgeInvariantHolds` | `Spec => []EdgeInv` | |
| | `EdgeTypeCorrect` | `Spec => []TypeOK` | |
| | `AdmissionIsExact` | `Spec => []OnlyAdmittedRun` | |
| | `LanguageIsPreferred` | `Spec => []ErrorsSpeakThePreferredLanguage` | |
| | `CodesNameCauses` | `Spec => []CodeNamesTheCause` | |
| | `HealthIsBacked` | `Spec => []HealthIsOfTheCall` | |

The hypotheses are settings a deployment may have, and each is needed: `UniqueIndexes`
(`autoIndex` is off, so a deployment must create them); `DistinctJobIds`, that message
ids which differ give job ids which differ (the run `colliding_job_ids` is one in which they
do not); `Exclusive`, `MaxLockLosses = 0`, no slot loses the lock of a job it is still
running; `Steady`, `MaxMoves = 0`, nobody moves; `Fresh` and `~HasSecondary`, reads do not
lag; `SeededUsersHaveCompanies`, the users at the start have companies that exist;
`CompanyCall = {}`, no key changes hands while a client pages.

**The pipeline's types.**  `TypeOK` is not inductive: it does not say that the document a
slot is about to write exists, that a verdict is there when it is stored, or that the
task a slot is about to link was made.  `IInv` (in `EmailPipelineInvariants`) adds what
each program counter has established: `DeliveryOK`, `JobOK`, `SlotOK`, `HandlerOK`, and
that a task's email has some tenant and some raw result, `TaskOK`.  An
attempt relies on facts about documents that *other* attempts, deliveries and
handlers write in the meantime; these facts survive because no step takes them
back: a document keeps its message id and never loses its company or its raw
result (`EmailsGrow`), a job keeps the document it names (`JobsGrow`), and tasks
are only appended (`TasksGrow`).  A lemma per component shows that its step keeps its
own part and that growth; `NextKeeps` puts them together.

**Once.**  With the index there is one document per message (`OneDocument`), and an id in
an answer is that of a document of the delivery's message (`AnswersNameDocuments`), found
on the primary, on a secondary that lags (`SecondaryFollows`: it shows nothing that is not
in the collection) or inserted by the delivery itself; so two answers name one document.
A task is unique per company and document by its index, and until the first move whoever
resolved the recipient read the same company off the directory (`SlotsFollowDirectory`,
`TasksFollowDirectory`); so one message has one task.  That an attempt looked for an
existing task plays no part: with lagging reads it may not see it.  Whoever may write a
status other than RECEIVED found a job that names the document (`JobsComeFirst`), and job
ids that differ lead from the message to that job.  The delivery that inserts a document
goes on to add its job: `UnqueuedAreReported` follows it through the handler, to the job, to
`internal_error`, or to the crash.

**Attempts.**  `AttemptInv` says what an attempt knows of its document and what it leaves
behind.  While no lock is lost, the slot that runs a job is the only one
(`LocksHeld`), so between two of its writes only the webhook's late QUEUED and nobody's
terminal status can come: what it found not terminal stays so until it writes itself, and
it returns only from an email that is `Settled`.  The handler of the last failure runs
when the job is failed, hence when no slot has it.  That an ACTIONABLE email agrees with
its task needs less: the slots of a job may overlap if all resolve one company.

**The audit.**  What led to a task is on its email as long as nobody else has written there,
and another attempt can only come after the first was counted as failed or stalled.
`FirstRunsOK` says what holds of a job until then: one slot at most works on it, what it
has resolved and recorded is what the email says, there is no task before it makes
one, and then that task agrees with the record.  Here no lock need be held: a slot
that lost its lock still is the only one until the stalled check has counted the stall.
Once a job is redone any verdict may be on record; the tenant then is that of the task
because, until the first move, email, slot and task all carry what the directory says
(`EmailsFollowDirectory`, `SlotsFollowDirectory`, `TasksFollowDirectory`).

**The promise.**  With `AttemptInv` and the uniqueness of documents, jobs and tasks, an
insert is the abstract store, `queue.add` the abstract queueing, `storeRaw` a verdict on
record, `createTask` the abstract creation for the verdict on record, and a job that
completes or fails for good settles; `PromiseStep` shows that every other step leaves the
abstract state alone.

**The review.**  `ReviewInv` says what a review under way has established and what
the answer "ok" means, `ReviewOK`.  Other reviews cannot disturb it, since a
decision, once made, is not touched (`DecisionsStay`): this is what the filter on
PENDING_REVIEW in `updateReview` gives, and without it the lemma `DecidesOne` fails.
The refinement follows: the one write that decides a task is the abstract `Decide`
(`DecidesRefines`) and all else is a stutter.  `DecidersStay` strengthens
`DecidedByOwnTenant` by saying that the decider is answered, so its tenant and
decision no longer change.

**Keys and addresses.**  `OneCompanyPerKey` is inductive once it is known that the
writes go through the index (`WriteKeyKeeps`).  For users, every step either leaves the
collection alone or gives one user addresses that are free of other owners
(`Owning`), and each such step is the abstract `Own`.  The checks before the
writes play no part in the proofs: they may read stale data, and it is the
indexes alone that keep the promises.  Without the indexes nothing is proved about either.

**Deletions.**  The id a call creates under is absent, on the primary and the secondary,
until that call is answered, and who deletes a document has seen it, so its creator is
answered (`CompanyLives`, `UserLives`); every other write of `/companies` and `/users`
changes what is there.  Hence what is deleted stays deleted.  `RelianceIsFounded` says
that whatever names a company - a user, a call about to write one, the secondary - names
one that exists or that a call deleted: `ensureCompanyExists` saw it, stale or not.  An
orphan stays one since the guard opens only for a key that some company holds
(`GuardOpens`), and its company is created no more.

**Pages.**  Tasks are neither deleted nor given away (`TasksKeepTenants`), so what the
company had when a call passed the guard is contained in what each of the two queries sees
and that in what it has at the answer; `PageSize` turns the containment of sets into that
of pages.  For `PagingMissesOnePerReview`, call a task owed if it was there at the
start, was not taken out by a review and has not been shown.  The invariant is that of the
tasks before the position the client has come to (`through`) at most as many are owed as
were taken out (`PagesOK`): a page shows everything at its positions, a task put in moves
others away from the client's past (`FirstSize`), and one taken out moves at most one owed
task into it (`MovedUp`).  The order of the sort exists for finite sets only, so
that only finitely many tasks exist at a time is part of the invariant.

**The edge.**  The two parsers choose an element of a set that is least in some order, and
what they return is known only once there is one.  For `indexOf` it exists because `<`
on the naturals is well-founded (`SeparatorIsFirst`).  For the sort of the header it
exists because the parts that come before a part that is not least include fewer parts,
and proper inclusion of finite sets is well-founded (`SomePartIsFirst`): this needs no
induction over the header.  `AdmittedCredentials` and `RightCredentialsAdmitted` say that
splitting at the first `:` and joining are inverse, the latter only for a user without
`:`.  None of the properties but `CodeNamesTheCause` is inductive: `EdgeInv` says what a
request in each stage has passed, that its language is that of its header, and that
what the health check has found was up at some moment of the call.

**The composition.**  A step of the API is, for the webhook and the worker, a step in
which addresses move, or none; a step of the worker is, for the API, the creation of a task,
or none.  So what is proved of `EmailPipeline` holds of the service, and what is proved of
`TenantApi` holds of it under the assumptions of that module (`ApiLife` is `TenantApi` with
its theorems).  `ServiceInv` ties the parts together: the directory is what `findByEmail`
answers, the two views of the tasks agree, and a slot's tenant and a task's company are
among the companies the recipient's address has belonged to, since the recipient of a
document is fixed, a slot resolves while the directory says so, and `owners` forgets
nothing.  That a task was decided by its own tenant is then that it was decided by a
company of the recipient; and that every company an address has belonged to is founded
follows from `RelianceIsFounded`, since the directory shows companies of users only.

## 5. What is only model-checked

The liveness properties: `EveryDeliveryEnds`, `EveryJobFinishes`,
`ExhaustedEmailIsSettled` and the fairness of `KeepsFairPromise`, whose safety half is
`PipelineKeepsPromise`.  They need weak fairness, hence ENABLED, and counting arguments
over attempts, which the prover does not reason about.  What `toEmailProcessingJobId` and
`trim` compute is evaluated on the instances; the proofs treat them as arbitrary functions
but for the assumptions above.  The four violations of 3.2 are counterexamples of TLC.

## 6. What is not modelled

- Correlation ids, logs and the operation audit: nothing reads what they write.
- Startup and configuration but for the order of the stages of a request and the settings
  that change behaviour: `autoIndex` and `readPreference` are the constants `UniqueIndexes` and
  `HasSecondary`.  The rest is wiring that runs once before the first request.
- The scripts, which are no part of the running service.
- The wording and the truncation of the prompt; the title, description, due date
  and assignee of a task.
- The headers that `helmet` and `CorsMiddleware` set.
- Operations of the repositories that no code calls, and the reads of `/companies` and
  `/users`, each of which is one query that changes nothing.

## 7. Plan

1. Done: the pipeline and its promise; the tenant-facing API and its two promises; the
   lists; the whole service; the HTTP edge.  Every safety property that a passing run
   checks is proved, with the hypotheses of section 4.
2. Proofs that would say more, in this order: `PagingMissesOnePerReview` while companies
   are re-keyed, as long as the key of the client is not (now `CompanyCall = {}`);
   `OneTaskPerMessage` with moves but one slot, by the job id (now by the index and without
   moves); the refinement of `EmailToTask` in the service while no user of a queued
   message's recipient moves (now `Steady`); what the abstract specifications themselves
   promise, as invariants of `EmailToTask`, `ReviewOnce` and `AddressBook`.
