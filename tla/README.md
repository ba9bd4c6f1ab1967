# A TLA+ verification of aml-svc

aml-svc is the backend of an anti-money-laundering platform: a Cloudflare Worker over D1
(SQLite behind Prisma), R2 and a handful of queues.  Its tenants register clients, beneficial
controllers and operations; it screens people against watchlists, detects operations that must be
reported, opens alerts for them, collects the alerts of a month in a notice (*aviso*) for the SAT,
imports clients and operations in bulk, lets clients complete their own file in a KYC session, rates
the risk of every client and of the tenant itself, and trains the tenant's staff.

This directory holds TLA+ models of the parts of it that have behaviour across several requests,
statements or messages, the TLC runs that check them, and proofs, checked by TLAPS, that their
safety properties hold for every number of notices, alerts, imports, rows, entities, searches,
sessions, shareholders, enrolments, jobs and workers.

What makes the code hard to test is the same everywhere.  **D1 offers no interactive
transactions**: every statement is atomic, a request is not, and even `prisma.$transaction([...])`
runs its statements one after another.  A handler reads a row, checks it, and writes later,
unconditionally.  Between two statements other requests and queue messages run, and the worker may
be evicted.  Queues deliver at least once.  The models therefore take *one D1 statement (or one
external call) as one action*, and let everything else happen in between.

## 1. Inventory

| component | state it keeps | operations | talks to |
|---|---|---|---|
| **Notices** `domain/notice`, `routes/notices.ts` | `notices`, `notice_events`, XML object in R2, the `noticeId` of alerts | create, delete, generate, submit, acknowledge, rebuke, revert, add and remove alerts | alerts (shared table), SAT XML, R2 |
| **Alerts** `domain/alert` | `alerts`: status, noticeId, isOverdue, deadline | create (idempotency key), PUT, PATCH, cancel, delete, overdue sweep on every list | notices, detection, dashboards |
| **Alert detection** `domain/alert-detection`, `lib/alert-queue.ts` | alerts by idempotency key | queue consumer: run the seekers of a client, create alerts, notify | operations, alerts, notifications |
| **Seekers, rule evaluator** | none | pure: thresholds and accumulation windows | operations, UMA values |
| **Bulk import** `domain/import`, `routes/imports.ts` | `imports`, `import_row_results`, file in R2 | create, start, delete, queue consumer, event stream | clients, operations, queue |
| **Watchlist screening** `lib/watchlist-*`, `lib/screening-snapshot.ts`, `routes/internal-screening.ts` | screening columns of clients and beneficial controllers, `screening_snapshots` | screen on save, weekly rescan, refresh worker, asynchronous callbacks | the watchlist service, notifications |
| **KYC sessions** `domain/kyc-session` | `kyc_sessions`: status, expiry, section progress | create, start, save a section, submit, approve, reject, revoke, expire | clients, e-mail |
| **Risk assessment** `domain/risk`, `lib/risk-queue*` | versioned assessments, `clients.riskLevel` | queue consumer: assess, store the next version, copy it to the client | scoring engine |
| **Risk scoring, quiz scoring** | none | pure | catalogs |
| **Training** `domain/training`, `cron/training-*` | courses, enrolments, attempts, certificates | enrol, record progress, start and submit a quiz, issue, expire, remind | certificate queue |
| **Operations, clients, shareholders, beneficial controllers** | rows, one extension table per activity | CRUD with soft delete | screening, detection, KYC progress |
| **Reports, SAT XML, invoices, settings, sidebar, chat, admin** | rows, documents | CRUD, formatting, proxies | - |
| **Usage rights, authentication, tenancy** | none here | guards in front of every handler | other services |
| **Catalogs, UMA, exchange rates** | reference data | CRUD, one active UMA value | - |

How they interact.  Saving an operation queues a detection job for its client; the job creates
alerts; alerts wait until somebody opens a notice for their month, which links them; generating
the notice stores an XML in R2 and moves the alerts along; submitting files both; a rebuke by the
SAT sends both back.  Saving a client or a controller starts a watchlist search after the response;
sanction-list matches come with its answer, PEP and adverse-media matches in callbacks, minutes or
weeks later.  An import creates clients and operations row by row, and through them all of this.

What is hard, and what makes each component correct (the full list, with lines, is `hazards` in
PROJECT.json):

* **Notices and alerts**: requests on one notice or one period overlapping; a stop between the
  statement on the notice and that on its alerts; an XML built from a stale list.  Correct is: what
  the SAT was sent is what the notice holds; no alert is reported twice; a filed alert stays filed;
  links are never dangling or stolen; the audit trail and the counts agree with the rows.
* **Imports**: redelivery after any statement, one failing row among many, a lost send.  Correct
  is: no row takes effect twice, a completed import lost nothing and counts right, an operation is
  there twice only where two imports overlapped, a sent import ends.
* **Screening**: three kinds of searches and three kinds of callbacks in any order, for the current
  or a superseded search; a stop between history and row; retries.  Correct is: a match reaches
  the right entity and is not forgotten, the result never flatters the flags, history and row agree,
  nobody is told twice.
* **KYC sessions**: five handlers check a status they read and write another one later,
  unconditionally, while a cron closes what has expired; the file they are about belongs to the client, whose
  other sessions and whose organization write it too.  Correct is: what is approved is what the client
  submitted unless one of these wrote it since, closed sessions stay closed, expiry takes hold, no reminder is
  repeated.
* **The client's file**: depth and ownership are checked before the row is written, and the summary on
  the client's row is recomputed from what was read before.  Correct is: no client's shares of one parent add up to
  more than 100 %, levels are as the checks want them, the summary is true again once things are quiet, but
  for operations that grew old since.
* **Training**: the attempt limit and the number of the next certificate are computed from what was
  read before; a quiz can be rewritten while somebody takes it.  Correct is: no attempt beyond the
  limit, who has completed has a certificate, numbers without gaps, no passing on half a quiz.
* **Alert detection**: redelivery, consumers that overlap on one client, a retry inside a retry.  Correct
  is: what must be reported, alone or together with other operations of its window, gets its alert, and
  the organization is told.
* **Risk**: overlapping assessments of one client number themselves from the same latest version; an
  organization's assessment is many statements.  Correct is: what was on record when the last job was sent is assessed, HIGH is
  announced, what is in force is whole, a review that is due happens.  **Scoring** is arithmetic with
  many ranges in two implementations.  Correct is: worse facts never rate lower, and the two agree.

## 2. The modules

| module | what it is |
|---|---|
| `NoticeLifecycle` | abstract specification: what the notice module promises, each operation atomic |
| `Notices` | notices, alerts, R2 and the audit trail, statement by statement; implements `NoticeLifecycle` |
| `Notices_proofs` | theorems about `Notices`, and that it implements `NoticeLifecycle` |
| `Imports`, `Imports_proofs` | imports, row results, queue deliveries and what the rows create |
| `Screening`, `Screening_proofs` | screening columns, snapshots, the watchlist service, and the workers in between |
| `KycSessions`, `KycSessions_proofs` | sessions, the client's and the officer's requests, the two crons |
| `ClientFile`, `ClientFile_proofs` | documents, shareholders, controllers and operations of a client, and the summary of them on its row |
| `Training`, `Training_proofs` | one course: enrolments, modules, quiz attempts, certificates; the quiz score |
| `AlertDetection`, `AlertDetection_proofs` | the detection queue, its consumer and the seekers, as operators over the operations read |
| `RiskAssessment`, `Risk_proofs` | the risk queue and its consumer, versions, copies, announcements, the review cron |
| `RiskScoring`, `Risk_proofs` | the arithmetic: scores by the seed methodology, by the rules in the code, and of the organization |
| `<module>_proofs` | the theorems about a component, their inductive invariants and lemmas, and nothing that models code |
| `MC<module>` | for each component: model values, inputs, symmetry and views for TLC |

The modules of components are checked one by one.  Where two components meet, the one module holds what it
needs of the other: `Notices` the alerts that detection creates (`CreateAlert`) and everything that later
happens to them; `Screening` and `RiskAssessment` the saves of clients; `Imports` the entities its
rows create.  `RiskAssessment` takes the level of a client as what the engine finds, which is what
`RiskScoring` computes.

Definitions named "Fault: ..." in a component module are plausible mistakes in the code (a forgotten
filter, a swapped order); each replaces a definition in one mutant of PROJECT.json, and shows that
the property it is paired with would notice.

### Notices

| variable | code |
|---|---|
| `alert` | table `alerts`: `status`, `noticeId`, `isOverdue` ("UNBORN"/"DELETED": no such row) |
| `notice` | table `notices`: `status`, `recordCount`, `amendmentCycle`, whether `xmlFileUrl` is set |
| `file` | the R2 object of a notice, as the set of alerts in its XML |
| `trail` | the last row of `notice_events` |
| `job[w]` | the request worker `w` executes: operation, next statement, what it read |
| `past` | alerts whose `submissionDeadline` has passed (the clock) |
| `interrupted` | history variable: notices one of whose requests was cut short |

A request begins in a `Start...` action, which is the read of the notice and the status check at the
top of the handler.  Then follow its statements: `InsertNotice`, `AssignAlerts`, `SetRecordCount`
(create); `UnlinkAlerts`, `DeleteNotice`; `SnapshotAlerts`, `PutFile`, `RereadNotice`,
`WriteStatus`, `MarkAlertsGenerated` (generate); `WriteStatus`, `MarkAlertsSubmitted` (submit);
`WriteStatus` (acknowledge, rebuke); `ResetAlerts`, `ReopenNotice` (revert); `AddAlerts` or
`RemoveAlerts`, `ShiftRecordCount`; and `LogEvent`.  `RowGone` is Prisma's exception on a row deleted
meanwhile, `Crash` a failing statement or a dead worker.  Alerts change by `CreateAlert`,
`ListAlerts` (GET runs `updateOverdueStatus` first), `StartPatch`/`WritePatch` (PUT, PATCH, cancel)
and `DeleteAlert`; deleting a notice applies the foreign keys (`ON DELETE SET NULL` for alerts,
`CASCADE` for events).

`Overlap = FALSE` means at most one request per notice in flight, which is how one compliance officer
works and *which the code does not enforce*.  `LinkedNoticeExists` and `NoAlertStolen` hold
without it (run `notices_overlap`, and theorems); `FiledAlertStays` does not, which is a finding.

### Imports

`imports`, `results` (`import_row_results` in order of insertion) and `entities` (the clients and
operations that were created, each remembering which delivery of which row made it and which other imports
were about to create the same: `Beside`) are tables;
`job[i]` is the queue message of import `i` with the local variables of the consumer, which every
delivery starts afresh; `deliveries[i]` counts them.  `StartImport`/`SendJob`/`SendFails` are the
request, `Deliver` and `Retry` the queue, `Claim` ... `Notify` the statements of `processJob`, with
`RowFails`, `CreateClient`, `FindClient`, `CheckImportHash`, `CreateOperation` inside `processRow`
and `Throw`/`MarkFailed` its catch block.  An import that died in PROCESSING is skipped by every
later delivery and so never ends: the code has no repair, and the property `SentEnds` names this as one
of the ways an import may not end.  The `WARNING` status is unreachable because the unique index the
code waits for does not exist (section 5).

### Screening

`row` holds the screening columns of an entity (its flags as a set, `watchlistQueryId`,
`screeningResult`), `snapshot` the last snapshot of an entity that is not an error, `search` the watchlist
service (external: what a search found, and what its callbacks will say), `job[w]` what a request or
message is doing.  A save, a rescan, a PATCH of `watchlist-query` and a callback begin in `StartSave`,
`StartRescan`, `Patch` and `Callback`; `SearchAnswers` and `SearchFails` end the call to the service;
`WriteSnapshot` and `WriteRow` are the two statements, `Notify` the message to the organization,
`Crash` a stop in between; `ResetController` is PUT of a beneficial controller.  The service may send
a callback late, twice, after a newer search, or never; a callback marked failed writes nothing.
`Patch` writes what its caller passes: the list flags of a client, and of a controller `isPEP` and
`adverseMediaFlagged` too, each TRUE only for what the caller's search found, and any `screeningResult` or none;
that of a client goes through a snapshot, that of a controller does not.

Five history variables say to whom the properties do not apply.  `passed`: entities whose row shows the result or
the flags a caller of PATCH passed, until a search of the program writes it anew.  `unseen`: controllers on whose row a
PATCH put a PEP or adverse-media match that no snapshot has yet.  `raced`: entities handled by two workers
at once, since nothing in the code orders their writes.  `torn`: entities whose snapshot was written and
whose row was not.  `announced`: list matches a rescan told the organization about and that every
snapshot since has.

### KYC sessions

`session` is the table (status, expiry), `file` how much has been written into the file of each client, which all
its sessions share, `job[w]` a
request with the status it read and whether that was past the expiry, `cron` the run of the cron with the
sessions it still has to remind of, `marked` the keys in KV that say a reminder was sent.  Time is
counted in half days, the distance of two runs.  `Create` is the officer's POST; a decision is
`StartDecision` (read, `Decidable`) and `Decide` (the unconditional `updateStatus`).  Every request with
the client's token begins in `StartClient` (`getByToken`, which may `Expire` the session) and goes on by
`RereadToStart`/`MarkStarted` (a first view), `Write` (a section) or `RereadToSubmit`/`MarkSubmitted`.  `Amend` is the organization's own write of the
file (PATCH of the client, its documents and so on).  The cron
is `ExpireStale`, `ListExpiring`, and for each session `SkipMarked`, `Remind`, `Mark`, with `RemindFails`,
`MarkFails` and `CronDies`.

`raced` holds the sessions at which two requests met of which one may change the status; what holds only
without that says so.  `touched` holds those whose file was written by the organization or through another session
since they were submitted.  `reminded` holds those of whom a run of the cron reminded and for which it left its mark.

### The client's file

`holders`, `documents`, `controllers` and `operations` are tables, `summary` the derived columns of the row of
one client, `Subject`.  The shareholders are those of all clients: `validateDepth` looks the parent up by its id alone, so
it may be another client's, while `validateOwnershipCap` sums within (client, parent) (`SumUnder`).  `recent` are
the operations of the last six months, which alone count towards the cumulative amount; `Age` takes one out.  Creating and patching a shareholder is `StartCreate`/`StartPatch` (the read, and `validateDepth` of
the parent, which asks nothing about what the shareholder itself owns shares of), `CheckCap`
(`validateOwnershipCap`) and `Insert`/`Update`; `DeleteHolder` (with its cascade), `WriteDocument`, `WriteController` and `WriteOperation` are single statements.  All of them end in
`recalculateKycProgress`: `ReadRows`, `ReadTier`, `Store`, any of which may not be reached (`Die`); a write for another
client ends in that of the other (`StoreElsewhere`).

`raced` says that two requests which write shareholders met; `stale` that requests met, or one died, since the
last recalculation that ran alone; `patched` which shareholders were ever patched; `counted` which operations were recent
when the summary was computed.

### Training

`enrollment`, `progress`, `attempts` and `certificate` are tables, `others` the numbers taken by other tenants
(numbers are global), `quiz` how many questions of the quiz are in place: `StartPutQuiz` and
`PutQuestion` are the delete and the inserts of a rewrite.  A request is `StartProgress`, `RecordProgress`,
`MarkInProgress`; `StartQuiz`, `CheckLimit`, `CheckOpen`, `CheckCooldown`, `CreateAttempt`; or `StartSubmit`
(which also reads the quiz and scores: `scorePercent`, `Right`), `CheckAttempt`, `CloseAttempt`, `CountSubmitted`,
`WriteFailed` or `WriteCompleted`, `NextCertificateNumber`, `CreateCertificate`, `SendJobs`, with `StopSubmit`
anywhere.  `Lapse` and `CoolDown` let time pass, `Expire` is the cron.

### Alert detection

`operations` is what the database holds of one client in the order of entry, each with its `operationDate`, `now` the day it
is (`Tick`), `since` (history) the day on which the last was entered, `queue` the jobs waiting with the
number of their deliveries, `alerts` the table by idempotency key (seeker, ids of what matched), `job[w]`
a consumer.  `CreateOperation` and `ChangeClient` save and send (or fail to send) a job; `Deliver` may leave the
job in the queue; `ReadOperations` starts afresh; for each seeker that matches,
`LookForAlert`, `InsertAlert`, `TellOrganization`, with `AttemptFails` as the retries inside and `Retry` the
retries of the queue.  The seekers are operators over what was read and the day on which they run: `matchedOperations`, with `InWindow` for the
accumulation window (`filterOperationsInWindow`: neither too old nor in the future), `MinimalTriggeringSet` for the
latest operations in it that reach the threshold, `Reaching` for the threshold, and `KeyOf` for the idempotency key,
of which the week is part for some seekers.

### Risk

`RiskAssessment`: `assessments`, `client` and `org` are tables; `facts` stands for everything the engine reads of a
client (`RiskScoring` says what that gives), with a count of changes so that an assessment can be said to know
of one, and, as history, how far it was when a job about the client was last sent (`Asked`).  `Record` are the requests
that change facts and send a job (POST of a client or of one operation, import of clients, a completed callback, a
rescan), `Edit` those that change them and send none (PUT and PATCH of a client, its documents and controllers; bulk and
internal POST, import, PUT and DELETE of operations; the search after a save; PATCH of `watchlist-query`).  `Deliver` ...
`Announce` are the statements of `processRiskJob` for a client or a batch, `NumberOrg` ... `InsertElements` for
the organization, `Retry` a failure, `SkipClient` the `catch` inside a batch, `Cron` the review of whom is due.

`RiskScoring`: operators named like the functions they translate, in integers of a hundredth.  The one variable,
`onRecord`, is what is on record of a client, and its actions are what may happen to it, so that properties compare
the rating before and after.

## 3. The runs

Every run finishes within seconds to a few minutes.  "mutant" in PROJECT.json names, for each
property of each passing run, a fault in the code under which TLC finds it violated.

| run | instance | properties |
|---|---|---|
| `notices_crash` | 2 notices, 2 alerts (1 not reportable), 1 worker, one stop anywhere, one amendment | `FileMatchesLinks`, `RecordCountCoversLinks`, `AuditTrailCurrent`, `AlertsFollowNotice`, `NoDoubleReport`, `FiledAlertStays`, `ImplementsLifecycle` |
| `notices_overlap` | 2 notices, 1 alert with a deadline, 2 workers on any notice, patches | `LinkedNoticeExists`, `NoAlertStolen` |
| `notices_unfiled` | 2 notices, 1 alert, 2 workers on any notice | `FiledAlertStays`, violated: section 5 |
| `imports_redelivery` | 1 file of clients or of operations, 1 file of operations (up to 2 rows), 2 deliveries each | `CountsMatchRows`, `RowMadeOnce`, `NothingLost`, `OperationsUnique`, `SentEnds` |
| `screening_history` | 1 entity, 2 searches, 1 sanction list, 1 worker, PATCH of a list flag and of isPEP | `ResultNotTooGood`, `AsyncMatchesRecorded`, `NotAnnouncedTwice` |
| `screening_overlap` | 2 entities, 2 searches, 1 sanction list, 2 workers, PATCH of isPEP | `MatchBelongs`, `PepNeverForgotten` |
| `kyc_review` | 2 sessions of one client, 2 requests in flight, 4 half days, 1 write of the file | `ApprovedAsSubmitted`, `ApprovedWasSubmitted`, `RemindedOnce`, `ClosedStays`, `ExpiryTakesHold` |
| `client_file` | 2 clients, 3 shareholders of 60 %, 1 document, 1 controller, 2 operations that grow old, 2 requests in flight | `OwnershipCap`, `LevelsAsCreated`, `SummaryCurrent` |
| `training_quiz` | 1 enrolment, a quiz of 2 questions, 2 attempts allowed and 3 looked at, 1 rewrite, 2 requests in flight | `AttemptLimit`, `CompletedIsCertified`, `NumberedInTurn`, `PassedOnWholeQuiz` |
| `detection_delivery` | 3 operations of 9 or 10 with a threshold of 10 and dates around a window, 2 days, 2 consumers, 2 deliveries, 1 fault | `LargeOperationAlerted`, `TogetherAlerted`, `AlertTold` |
| `risk_jobs` | 1 client, 2 levels, 2 consumers, 2 deliveries, 2 requests, 1 review, 1 fault | `ChangeAssessed`, `HighAnnounced`, `OrgAssessmentStands`, `ReviewHappens` |
| `risk_scores` | 1 client, 2 countries, up to 3 controllers and 2 operations | `WorseNotLower`, `SeedNear` |

Every component module but `RiskScoring` also states `TypeOK`; it is proved (section 4).  The shape of the one variable of
`RiskScoring` is `Recorded` of `Risk_proofs`.

**Bounds and why they are enough.**

* *Notices.*  Two notices of one month and two alerts are what stealing, double reporting and a
  second pending notice need; alerts of different months never meet.  `MaxCycle` bounds reverts (0
  or 1: one amendment visits every status again), `MaxCrashes` the notices with an interrupted request.
  `PatchStatuses` is {CANCELLED} where hand edits are not the subject: PATCH accepts any status, so no
  property about statuses could survive arbitrary edits.  `Reportable` is constant: which alerts
  the XML can carry depends on their operation, not on the protocol.  Runs say `CHECK_DEADLOCK FALSE`:
  ids are never reused, so when all notices and alerts of the instance are deleted nothing is left
  to do.  Parallel requests on *different* notices are covered by the theorems, for any number of workers.
* *Imports.*  `MaxDeliveries` is 1 + `max_retries`; two deliveries are the first and one repetition.
  Two rows in batches of one make "half inserted" and "half processed" reachable.  The operations file
  repeats a row, or has an invalid one; its client is made by the other import, which may fail, or was there before
  (`Registered`).  The other import may as well hold the same operation, so that both look for it before either
  creates it.  Once all imports ended the system stops.
* *Screening.*  An entity is a client or a controller as it pleases; two searches give a current and a superseded one.
  Results, history and announcements are of one entity, so one is enough in `screening_history`; whether a match
  reaches somebody else takes two, in `screening_overlap`.  `PassedFlags` are the flags callers of PATCH may pass: one that
  a client may have and `isPEP`, which only a controller's PATCH writes; adverse media goes the same way as
  `isPEP` there.  Query ids run out, but rescans that fail and controllers that are reset remain possible: no deadlock.
* *KYC.*  Sessions of one client share its file and nothing else, so two are enough, and two requests are what a race
  takes.  Reminders and expiry are of one session: the constraint `TwoAtTheStart` lets neither the clock nor the cron
  move while both sessions exist, and the behaviours of one session in time are complete, which is what
  `ExpiryTakesHold` is checked on.  A session lives 2 half days, is in the window of 2 half days (24 hours) from its
  start, and is past its expiry before the clock stops at 3; the mark of a reminder lives 2 half days (24 hours), so both runs of the cron that fall
  into one window happen.  One write tells a file that was changed after it was submitted from one that was not.
* *Client file.*  Two shareholders of 60 % exceed the whole on one level and do not on two, nor if they are of two clients;
  two requests are what two stale sums need.  Two shareholders are of the client whose summary is looked at, one is
  of another client, and each may be put below each other.  Creating a company of the first level, a person of the
  second, a PATCH of each kind (type, share, parent) and both deletions are in `Inputs`.  Two operations of 6 reach the
  notice threshold of 12 only together and while both are recent, one of 10 the identification threshold alone.  The
  constraint `Apart` leaves the rest of the file empty while there is more than one shareholder, or a controller: they
  meet the rest in the summary alone, and there as a number.
* *Training.*  One attempt more than allowed is looked at, or the limit could not be seen broken; one question of
  each kind, and a sheet that is right in one and nearly right in the other; one certificate of another tenant
  competes for the number.  Nothing is left to do once all bounds are used: `CHECK_DEADLOCK FALSE`.
* *Detection.*  Amounts just below and at the threshold: one operation alone, two together, also for the
  seeker of structuring (whose minimum is set to 2 here).  Three operations also let
  a set that triggers grow after it was reported.  The operations are dated a day before, on or after the first day, and the
  windows are of one day, so that one can be too old, in the window, or still to come, and the second day changes
  which.  The constraint `Third` keeps three operations to one date, one day and an unchanged client; two, of any dates, days
  and changes, are enough for every way a window can move over a set.  The queue may redeliver each job once, beside one
  fault.
  Once everything is entered and worked off the system stops.
* *Risk jobs.*  Versions belong to one client, and the organization is a subject of its own; two consumers, two
  requests and one fault give overlapping assessments, redelivery, a loss, and a change between read and copy, of
  those that send a job and of those that do not; a change without a job is followed by a job of the cron or of a person.
  `MaxQueued` keeps the cron from filling the queue with duplicates: it sends when at most that many
  jobs are waiting, which with `ReviewHappens` only makes reviews rarer.
* *Risk scores.*  The values cross the end of every range that the run can reach: 0 to 3 controllers, age 0 and
  13 months, amounts around the last range, cash payments up to twice the operations (the shares
  exceed 1), a country that is home and one with the worst risk, results of screening from none to listed.


**Symmetry and views.**  Notices, workers, entities, queries, shareholders and operations are interchangeable in the
runs that use `SYMMETRY` (no liveness property among them).  `GuardView` forgets counts, files and events, which no
guard reads and no property of `notices_overlap` mentions; `FlagView` forgets snapshots, results and
announcements, which never flow back into flags or queries; `HistoryView` tells searches apart only by what a row or a
worker that names them can still get from them; `Seen` of `MCClientFile` forgets the summary while
`stale` holds, when the one property about it says nothing and before `stale` can end it is overwritten,
and what a request that is not alone has read for it, since storing that leaves `stale` as it is.  All keep
everything the next states of what they keep depend on.

**Fairness.**

* `Imports`: `WF_vars(Queue(i))` for each import: the queue delivers what it holds, and a consumer goes on or is given
  up, which redelivers.  That is Cloudflare's contract for queues.  Requests of users are under no
  fairness anywhere; `Crash`, `Retry` and `Throw` can always happen instead.
* `KycSessions`: `WF_vars(Cron)`: the platform starts the cron twice a day, and a run of it ends.  `ExpiryTakesHold`
  needs no request to be completed: even one that reopens an expired session loses to the next run.
* `RiskAssessment`: `WF_vars(Cron)`, weak fairness of each consumer's statements and of delivery, by the same
  contract.  Faults are bounded, which says that not every attempt fails for ever; jobs may be lost all the same,
  and it is the cron that repeats them.
* Notices, Screening, ClientFile, Training and AlertDetection state safety alone, since nothing in their code
  promises that a request is completed by anybody but its caller, or that a lost job is sent again.

## 4. The proofs

TLAPS proves the following for *all* values of the constants (under the named `ASSUME`s: finite sets of
alerts, null values outside the id sets, lists and asynchronous sources disjoint, ...), hence for any number of
notices, alerts, imports, rows, operations, entities, lists, searches, sessions, shareholders, enrolments,
questions, workers, deliveries, crashes and amendments.  Every invariant and action property the runs check is
stated by a theorem.

| theorem | property | inductive invariant |
|---|---|---|
| `Notices_proofs!TypeCorrect` | `TypeOK` | `TypeInv`: with `JobsShaped`, which statements a request of each kind can be at |
| `Notices_proofs!LinksSound` | `LinkedNoticeExists` | `LinkInv`: with `AbsentFree`, alerts without a row hold no link |
| `Notices_proofs!NoTheft` | `NoAlertStolen` | `TypeInv` |
| `Notices_proofs!FiledStays` | `FiledAlertStays` if `Overlap = FALSE` | `SerialInv`: one request per notice, so the status checked at its start still holds (`ChecksHold`) |
| `Notices_proofs!FilesMatch` | `FileMatchesLinks` if `Overlap = FALSE` | `FilesInv`: at every statement of generate, what the request holds, the file and the links agree |
| `Notices_proofs!NeverReportedTwice` | `NoDoubleReport` if `Overlap = FALSE` | `FilesInv`, and that two notices never hold one alert |
| `Notices_proofs!CountCovers` | `RecordCountCoversLinks` if `Overlap = FALSE` | `CountInv`: for each notice, `recordCount` covers its links, or the one request at work on it carries the difference and its next statement stores it; the cardinalities are compared through `FS_AddElement` and `FS_Subset` |
| `Notices_proofs!TrailTells` | `AuditTrailCurrent` if `Overlap = FALSE` | `RowInv` and `TrailInv`: the row agrees with the statement its request is at, and the last event with the row unless that request has still to log one, and then with what it will log |
| `Notices_proofs!AlertsFollow` | `AlertsFollowNotice` if `Overlap = FALSE` and `PatchStatuses \subseteq {"CANCELLED", "UNBORN"}` | `FollowInv`: the alerts follow the row, or submit has the alerts still to mark, or revert has reset them all and the row still to reopen; `PatchInv`: a patch in flight cancels or sets no status |
| `Notices_proofs!ImplementsNotices` | `ImplementsLifecycle` if `Overlap = FALSE` | `GatherInv`: what generate gathered, and then the file, are the reportable alerts of the notice but for rows deleted since; then every action is one of `NoticeLifecycle` or a stutter (`StepMapped`, one lemma per action) |
| `Imports_proofs!TypeCorrect` | `TypeOK` | `TypeInv`: with `Phase` (which statements a status allows), `Counted` and `Walk` (where in its file the consumer can be) |
| `Imports_proofs!RowsMadeOnce` | `RowMadeOnce` | `MadeInv`: only the delivery that got as far as the rows makes anything, of rows up to the one in hand, and of that one nothing before its creation |
| `Imports_proofs!CountsAgree` | `CountsMatchRows` | `CountsInv`: every row is listed before the first is processed, results are PENDING from the row in hand on, and the running counts are the numbers of settled rows before it |
| `Imports_proofs!NothingIsLost` | `NothingLost` | `HandledInv`: every row behind the consumer is in the database or has an ERROR |
| `Imports_proofs!TwiceOnlySideBySide` | `OperationsUnique` | `UniqueInv`: whoever made a living operation that an import is about to create knew that it was about to (`Known`) |
| `Screening_proofs!TypeCorrect` | `TypeOK` | `TypeInv`: a worker that is not idle handles an entity |
| `Screening_proofs!PepStays` | `PepNeverForgotten` | `PepKept`: no worker but that of a controller's PATCH takes the PEP flag from the row it will write |
| `Screening_proofs!MatchesBelong` | `MatchBelongs` | `Known`: rows and workers name searches for their entity, and the flags they have or will set were found by one |
| `Screening_proofs!ResultSound` | `ResultNotTooGood` | `ResultInv`: what a worker is going to write fits together, given that the row it read has not changed |
| `Screening_proofs!MatchesRecorded` | `AsyncMatchesRecorded` | `RecordInv`: before the snapshot the row is on record, after it what the worker will write |
| `Screening_proofs!AnnouncedOnce` | `NotAnnouncedTwice` | `ToldInv`: what was announced is in the snapshot, so the state a rescan compares with has it |
| `KycSessions_proofs!TypeCorrect` | `TypeOK` | `TypeInv`: with `Bound`, a request under way is about a session that exists |
| `KycSessions_proofs!SubmittedFirst` | `ApprovedWasSubmitted` | `Filed`: what is submitted, approved or about to be approved was filed once |
| `KycSessions_proofs!ApprovalIsOfTheFile` | `ApprovedAsSubmitted` | `Safe`: where no two requests met, no two are in flight but views and edits (`Solo`), what a request read still holds (`Counts`), and unless somebody else wrote the client's file it agrees with what was submitted (`Matches`) |
| `KycSessions_proofs!ClosedForGood` | `ClosedStays` | `Safe` |
| `KycSessions_proofs!RemindsOnce` | `RemindedOnce` if `Window <= KeptFor` | `Marks`: who was reminded and is still in the window has a mark that is still kept |
| `ClientFile_proofs!TypeCorrect` | `TypeOK` | `TypeInv`: with `Shaped`, what a request at each statement was given |
| `ClientFile_proofs!LevelsStand` | `LevelsAsCreated` | `LevelInv`: nobody owns shares of a shareholder that is gone (`NoOrphan`), and what a POST checked of the parent still holds unless that was patched or deleted (`Awaited`) |
| `ClientFile_proofs!SummaryTrue` | `SummaryCurrent` | `SumInv`: unless `stale`, there is at most one request; what a request that was left alone has read is true but for operations grown old since, and if none recalculates so is the summary |
| `ClientFile_proofs!LevelsAddUp` | `OwnershipCap` | `CapInv`: unless `raced`, one request at most writes shares, what it checked is what it will write (`Asked`) and fits what its client owns of the parent (`Fits`), whatever was deleted since |
| `Training_proofs!TypeCorrect` | `TypeOK` | `TypeInv`: a request is about an enrolment and an attempt that exist |
| `Training_proofs!Numbering` | `NumberedInTurn` | `NumInv`: the numbers given out are 1..k, each once, and every request holds one of 1..k+1 |
| `Training_proofs!Certification` | `CompletedIsCertified` | itself, given `TypeInv` |
| `Training_proofs!Limit` | `AttemptLimit` | `LimitInv`: one request at a time (`Alone`), and at each check of `startQuiz` room for what it is about to create (`Rooms`) |
| `Training_proofs!PassedEarned` | `PassedOnWholeQuiz` | `ScoreInv`: a request that counts as passed holds a sheet that earns it; with `Rounding`, what the rounded percentage means for the number of right answers |
| `AlertDetection_proofs!TypeCorrect` | `TypeOK` | `TypeInv`: with rows read being rows that are there (`Holds`), and every operation entered once (`Distinct`) |
| `AlertDetection_proofs!LargeOperations` | `LargeOperationAlerted` if the seeker is registered | `OwnInv`: what an operation shows by itself has its alert, or its own job is queued or has that seeker still to run |
| `AlertDetection_proofs!TogetherIsAlerted` | `TogetherAlerted` | `TogetherInv`: what the table showed together on some day since the last entry has its alert (`Seen`), or a job is queued or has read all of it and has that seeker still to run; with `DayInv`, such a seeker ran on one of those days |
| `AlertDetection_proofs!AlertsAreTold` | `AlertTold` | `ToldInv`: an alert for an operation was told, or a job that reports that operation is queued or has the seeker still before it |
| `Risk_proofs!TypeCorrect` | `TypeOK` | `TypeInv`: with `ClientInv`, versions and copies of a client |
| `Risk_proofs!ChangesAreAssessed` | `ChangeAssessed` | `ChangeInv`: an assessment knows of all that was on record when the last job was sent, or a message that names the client is queued, or a consumer has the client still to assess, or has assessed it as it is and not stored that yet |
| `Risk_proofs!HighIsAnnounced` | `HighAnnounced` | `HighInv`: whoever is owed an announcement has a message in the queue or a consumer on the way to it |
| `Risk_proofs!OrgStands` | `OrgAssessmentStands` | `OrgInv`: if none is in force a job is about to write one (`InForce`), and one without its elements has a job that writes them or will supersede it (`Complete`) |
| `Risk_proofs!SeedIsNear` | `SeedNear` | `Recorded`: every fact on record is one of those its column can hold |
| `Risk_proofs!WorseIsNotLower` | `WorseNotLower` | `Recorded` before and after, and that who the client is does not change |

The properties alone are not inductive: they speak of rows at rest, and what a request read before its
last statement decides what it will do to them.  Each invariant therefore says, for every statement a request
may be at, how what it holds relates to the tables.  `Screening_proofs` separates this into one
lemma per action that says what the action does (`...Facts`), one that an action about one entity leaves the rest
alone (`StepOn`, `Others...`), and one case analysis per invariant.

The theorems about overlapping requests say exactly how far the code carries: `SubmittedFirst`, `Numbering` and
`LevelsStand` hold however requests overlap, and `TwiceOnlySideBySide` however imports do, since it names the overlap
that makes a double; `ApprovalIsOfTheFile`, `ClosedForGood` and `Limit` only for
sessions and enrolments at which no two requests met, which the definitions name (`raced`, `met`).  `RemindsOnce`
has the assumption `Fits == Window <= KeptFor`, which is the relation of two constants in different
files (`EXPIRY_WINDOW_HOURS` and the `expirationTtl` of the mark).

Two theorems say what they need of the environment, in their statement.
`AlertsFollow` assumes that people cancel alerts and set no other status by hand: PATCH accepts any status, and a
filed alert that somebody sets back to DETECTED is open while its notice is filed.  `LargeOperations` assumes that
`operation_amount_uma` is among the seekers registered, as `createAllUniversalSeekers` has it.  The theorems under
`Overlap = FALSE` are about one request at a time *per notice*; requests on different notices, patches, sweeps and
deletions of alerts still overlap freely.

Sums and queues.  `OwnershipCap` is about a sum over the shareholders of a level.  The induction theorems of the
library take an operator and cannot be used with the installed provers; what can be is that a non-empty set of
finite sets has a smallest element (`Smallest`, from `WFMin` and the well-foundedness of strict inclusion), so that a
sum that is not what it should be is refuted at the smallest set at which it is not.  That gives `TotalWithout`
(a member taken out takes its share along) and `TotalFewer` (fewer members never sum to more), stated once and used at
every statement that writes a row.  The same argument over the numbers (`LeastNatural`) names the first operation
that reaches the threshold and the message that comes first.

The scores.  `RiskScoring` needs no invariant beyond the shape of the facts; what is hard is that a score goes through
the interpreter of a methodology that is data: sums over factors and operations, the first range that is hit, the
highest of some levels.  The proofs take it apart once.  `SumFunction` is a fold over subsets, so it is shown to be the one
function that adds one member at a time (`FoldedOnce`, `FoldedExists`, `SumIs`), which makes a sum over 1..6 an
addition (`SumOfSix`) and gives what sums over operations keep (`SumWithout`, `SumLess`).  `FirstHit` and `FourRanges` say
what a list of ranges makes of a value that lies between two of them.  With these, each category of the seed is a
formula in the facts (`SeedClientIs` ... `SeedTransactionIs`) and the rating a score and its place among the
thresholds (`SeedIs`); `LegacyIs` does the same for the rules in the code.  `ScoreNear` then compares the two
formulas factor by factor: -0.07 to +0.32 of 9, whatever the reference data, the number of operations and their
amounts.  For `WorseIsNotLower` every factor, count and share
is monotone (`WorseFacts`, `WorseCash`, `DivMore`, `OrgGrown`), mitigants are antitone (`WorseMitigants`, `OrgMitigants`), and
so are the ranks, the due diligence of the profile and the months to the next review (`WorseWatched`).  The facts may be any: the
theorems hold for all operations, controllers and ages, not only those of the run.

*Only model-checked*: liveness (`SentEnds`, `ExpiryTakesHold`, `ReviewHappens`), which like anything with ENABLED is out
of the prover's reach.  No module uses RECURSIVE operators.

## 5. What the code does not keep

One run shows a violation that TLC must find:

* `notices_unfiled`: DELETE of a generated notice that overlaps a submit takes the alerts, then the row, of a
  notice that was just filed (`notice/repository.ts:265`).

The rest was met while modelling.  Most of it is in the models, as behaviour that the properties above allow
for; it is written down here with its place in the code.

**Notices and alerts.**

* Reverting a rebuked notice while the amendment of its period is open leaves two pending notices
  (`notice/repository.ts:719`), and so do two POSTs that overlap (`notice/service.ts:123`).
* Filing a notice leaves `isOverdue` on its alerts (`notice/repository.ts:583`); a later revert makes them
  invisible to the sweep, which asks for `isOverdue: false`.
* A delete that stops after unlinking leaves a generated notice with a stale XML.  Generate overlapping remove,
  and alerts of other activities or cancelled ones in a notice, give alerts whose status moves with a notice whose
  XML does not have them.

**Imports.**  Nothing makes an RFC unique, so a client imported twice exists twice
(`import/processors/client-processor.ts:269`).  An import whose send fails, or whose consumer dies in
PROCESSING, never ends.  Two imports that both look for an importHash before either creates the operation
make it twice (`operation/service.ts:46`): no index backs the look.  The event stream skips rows settled while it writes.

**Screening.**  A PEP callback without a match clears an entity with adverse media
(`internal-screening.ts:520`).  PUT of a beneficial controller erases its screening
(`beneficial-controller/mappers.ts:133`).  The internal PATCH of a controller writes `isPEP` and
`adverseMediaFlagged` as passed, without a snapshot (`beneficial-controllers.ts:593`): it may take a PEP match back, and the
next rescan takes one it brought for new.  PATCH writes any `screeningResult`, also one that its flags
contradict.  A rescan that stops before its notification finds its own snapshot when
it is retried, and tells nobody.

**KYC sessions.**  `PENDING_REVIEW` is never written.  Rejected sessions never expire.  The first opening of the
page reads, then writes IN_PROGRESS unconditionally: a session approved or revoked in between is open again
(`kyc-session/repository.ts:107`).  A session is approved without a look at the file: another session of the
client (`public-kyc.ts:301`) or the organization may have written it since the submission.

**The client's file.**  PATCH moves a company that has sub-shareholders below another, which makes a third level
(`shareholder/service.ts:115`, against `:154`), turns such a company into a person, and accepts a shareholder as its own
parent.  PUT writes an empty `clientId` (`shareholder/mappers.ts:59`) and fails on the foreign key.  The parent of a
shareholder may be another client's (`shareholder/service.ts:158`), while shares are summed within one client
(`shareholder/repository.ts:163`): those of one company held under two clients may exceed 100 % together, and
deleting the company takes the other client's shareholders along and leaves that client's count as it was.  The
identification tier is recomputed on writes only, not when operations leave the six-month window.

**Training.**  A retake after COMPLETED can make the enrolment FAILED.  `recordProgress`
(`training/service.ts:344`) puts back a quiz passed meanwhile.  A renewal finds the unique `enrollmentId` taken, so the
certificate is not renewed; a collision of numbers leaves COMPLETED without a certificate.  A quiz being rewritten has no
questions for a moment, and everybody passes it.  The reminders never concern an enrolment that is ASSIGNED.

**Alert detection.**  `getClientOperations` includes `payments`, and the seekers of cash, foreign and virtual currency,
split and third-party payments read `paymentMethods`: they never trigger.  Others read columns nothing writes.
`initializeSeekers()` registers the universal seekers once more for every processor constructed
(`seekers/index.ts:67`), so they run several times.  Updating an operation queues nothing; soft-deleted
operations still count.  A seeker judges the window of the day on which it runs: an operation dated in the future that no
later job meets is looked for by none when its day comes.  A redelivered job notifies again.

**Risk.**  Overlapping jobs give one version number twice, and the client's row may show the older.
`client_changed` and `org_changed` are lost on redelivery.  Changes of a client, its documents and controllers
(`routes/clients.ts:538`), operations that come in bulk, from inside or by import (`routes/operations.ts:728`, `:945`,
`operation-processor.ts:365`), PUT and DELETE of an operation (`:801`), the search after a save (`routes/clients.ts:416`), a
result that is patched (`internal-screening.ts:248`), and changes of the methodology, queue no reassessment: until the next
job of another cause the assessment is of what was there before.  Two jobs of the organization may leave two assessments ACTIVE.

**Scoring and methodologies.**  The seed is said to capture the parameters in the code (`risk/methodology/defaults.ts:4`) and
differs by up to 0.32 of 9 (`SeedNear` says by how much; one controller is 3.0 against 1.5, no activity 1 against 0,
all cash 8 against 9).  The rules in the code are unreachable, since `resolve` always seeds.  An OFAC-listed client or
a PEP with otherwise mild facts is rated LOW.  The share of cash is of payments over operations
and may exceed 1.  A null country counts as cross-border.  Operations are
looked up by postal prefix where states are keyed otherwise, so the organization's element of geography is always 0.  The
FP rating is always LOW.  PUT of a methodology stores no environment while `resolve` filters on
it; between archiving the old and creating the new one, an assessment seeds another, and a crash loses the
override.  Unique constraints with a NULL column never bind (`schema.prisma:1831`).

## 6. Not modelled, and why

* Within modelled parts.  *Notices*: notes, folios, receipts and the `submittedAt` a client sets by hand; downloads
  and statistics; a deployment without the R2 bucket.  *Imports*: the `/internal/imports` routes, the event stream.
  *Screening*: which entities the rescan cron selects; deletion of screened entities; the HTTP route for PATCH of a client's `watchlist-query`, which never succeeds (the
  path is handed on with a leading slash that no pattern matches), while the RPC entry point does.  *KYC*: the trail of
  events, e-mails, what the fields of the file hold.  *Client file*: the client's own fields and addresses.
  *Training*: printing certificates, reminders, administration of courses.  *Detection*: the seekers named in section 5
  that never trigger, and statistics in floating point.  *Risk*: notifications about the organization, methodologies
  other than the seed, the tables of reference data (constants here), the FP rating, justifications.
* One tenant: queries filter on it, so tenants share nothing but the numbers of certificates, which `Training` has, and
  methodologies, which are stored for production whoever saves them (section 5).
* Reports, SAT XML text, notifications, invoices, settings, sidebar, chat and admin: pure I/O, formatting, proxies and
  CRUD of single rows.  Usage rights and authentication are decided in other services.  `openapi.ts`, the generators of
  synthetic data and the scripts are not part of the running system's logic.
* Catalogs, UMA and exchange rates: reference data; activating one UMA value is a small protocol that is planned.

## 7. Plan

Done: notices (protocol, refinement), imports, screening, KYC sessions, the client's file, training, alert detection,
risk jobs and risk scoring, each with the proofs of its safety properties.  Next, most important first:

1. Proofs: what the alert of an overlapping notice keeps where `Overlap` is TRUE; the part of `OwnershipCap` that
   holds when requests do meet.
2. Methodologies: archive, create and the seeding `resolve` as statements of several requests, against "one ACTIVE
   methodology per scope"; the activation of a UMA value in the same module.
3. Notice periods (17th to 16th) and deadlines as operators, against a reference over a year of days.
4. The composition of `AlertDetection` with the life of alerts in `Notices` (an alert deleted between two deliveries).
