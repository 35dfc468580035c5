# A TLA+ model of SocialOps

SocialOps is a workbench for social media operators: a Next.js application over PostgreSQL (through Prisma, at the
default isolation level READ COMMITTED) and a separate worker process that publishes scheduled content. This
directory holds TLA+ modules translated from the source, TLC configurations that check them on small instances,
and theorems about them that the TLA+ proof system checks. Paths below are relative to the repository.

## 1. Inventory

| Component | State it keeps | Operations | Interacts with | Here |
|---|---|---|---|---|
| Publish worker and queue (`services/publish-worker-service.ts`, `worker.ts`) | `PublishJob` (status, lease, attempts), `PublishAttempt`, the memory of each worker process | recover stale jobs, claim, load, gate, call the adapter with a heartbeat beside it, record the result | content items (row lock), adapters, tasks, notifications | partly |
| Failure policy (`lib/publish-safety.ts`) | none | classify a failure, decide on a retry | the worker | modelled |
| Content lifecycle (`services/content-service.ts` and beside it) | `ContentItem`, `ContentVersion`, `Approval` | generate, edit, compose, submit, review, schedule | jobs (cancels, creates, revives), queue slots | partly |
| Product facts (`services/product-service.ts`) | `Product.dataVersion` | update facts | invalidates items, cancels jobs and manual tasks | modelled |
| Client settings (`app/api/settings/route.ts`) | `Client.mode` | change the mode | worker, scheduling, generation | modelled |
| Reconciliation, remote query (`services/platform-publish-query-service.ts`) | the job again | ask the platform about an unknown outcome; an operator decides | job, attempt, item, connection | modelled |
| Manual publishing (`services/manual-publish-service.ts`) | job in MANUAL_PENDING or RUNNING, task, evidence | start, record a result | job, item, task | modelled |
| Calendar and queues (`services/calendar-service.ts`, `schedule-queue-service.ts`, `lib/timezone.ts`) | queue rules, `scheduledAt` | local times to instants; save a queue, assign, reschedule in bulk | scheduling, manual results | modelled |
| Graph adapters (`lib/adapters/*-graph.ts`, `lib/platforms/*`) | none of their own | sequences of HTTP requests, classification of failures | the platform | partly |
| Notifications (`services/notification-service.ts`) | `NotificationDelivery` with a lease | prepare in a transaction, dispatch, claim, retry | worker tick | partly |
| Usage (`services/usage-service.ts`) | reservations with a time to live, monthly totals | reserve, settle, release, sweep | every call of the text model | modelled |
| Social strategies (`services/social-strategy-service.ts`) | drafts and the confirmed strategy | create, confirm | content is bound to one | modelled |
| Platform connections (`services/platform-connection-service.ts`, `facebook-service.ts`, `instagram-service.ts`) | connection, accounts, secrets, OAuth states | authorize, choose, disconnect, set up by hand | active jobs, the worker's resolver | partly |
| Login rate limit and sessions (`services/login-rate-limit-service.ts`, `app/api/auth/login`) | a counter and a block per e-mail and origin | check, record a failure, clear | login route | partly |
| Asset library and storage (`services/product-service.ts`, `asset-library-service.ts`, `lib/adapters/storage.ts`) | stored objects and `Asset` rows | upload with clean-up, list by pages | products | partly |
| Leads and interactions (`services/interaction-service.ts`, `facebook-service.ts`) | `Interaction`, `Lead`, its task | import, sync comments, follow up | notifications | modelled |
| Analytics, reports and reviews (`services/analytics-service.ts`, `monthly-review-service.ts`, `report-service.ts`) | metric snapshots, monthly reports | sync metrics, overview, comparison, health, report | jobs, interactions | partly |
| Brand profile and AI text (`services/brand-autofill-service.ts`, pipelines) | plain values | suggest, with a call of the model | usage | partly |
| Views and readiness, token vault, pages | derived data; encryption; none | read; compute; render | - | not modelled |

The behaviours that are hard to test are nearly all of one kind: a process reads rows, lets go of them (between two
transactions, or during an HTTP call that may last longer than a lease), and writes later; any other process may
run in between, and the process may die there. The others are replies that are lost or make no sense, limits that several
requests reach together, and boundaries (the last page, the last instant of a month, the last attempt). `PROJECT.json` lists
these places one by one, at their lines, with the properties that guard them.

What makes the components correct, in short: a job's post is created at most once and its recorded outcome never
contradicts the platform; nothing is sent that is not approved, and it does not change while it is sent; an uncertain outcome is put
before an operator and never resent; limits (attempts, quota, slots, login failures) hold under concurrency; every
lease ends; what is read page by page or summed up is complete and counted once.

## 2. Modules

| Module | Contents |
|---|---|
| `PublishSafety` | the classes of failure codes and the retry decision of `publish-safety.ts` |
| `PublishWorker` | the queue, the worker processes, the platform call, and the web handlers that touch a scheduled job |
| `AtMostOncePublish` | abstract specification: what the queue promises of one job |
| `GraphAdapters` | one `publish` call of the Instagram or the Facebook adapter: its requests, their losses, what it reports |
| `NotificationDelivery` | events, the cooldown, and the delivery of external notifications under leases |
| `ContentLifecycle` | items with their versions, review, schedules, bulk moves, manual publishing, the rows of their jobs and tasks |
| `ContentGeneration` | calls of the text model: what they read, reserve, pay and write; strategies |
| `ScheduleTimes` | local times and their instants in zones that change their offset; a queue's occurrences; forms that outlive the client's zone |
| `PlatformConnections` | authorization, choice of accounts, disconnection, and what jobs and late readers do to a connection |
| `LoginRateLimit` | failed logins counted by concurrent requests |
| `AssetStore`, `AssetPages` | an upload over object storage and database; the library page by page |
| `LeadImport` | comments imported by overlapping syncs, their leads, tasks and notifications |
| `MonthlyReport` | a report read by several queries while rows are written |
| `AnalyticsQueries` | what the analytics pages make of the rows that syncs of metrics leave |
| `MCPublishWorker`, `MCGraphAdapters`, `MCContentLifecycle`, `MCLeadImport` | bounds for TLC |
| `MCPublishing`, `MCPlanning`, `MCEdges`, `MCDeliveries` | bounds for TLC of several components |
| `PublishWorkerProofs`, `PublishQueueProofs`, `GraphAdaptersProofs`, `NotificationDeliveryProofs`, `ContentLifecycleProofs`, `PlatformConnectionsProofs` | theorems about the module they name |
| `PlanningProofs` | theorems about `ContentGeneration` and `ScheduleTimes` |
| `EdgeProofs` | theorems about `LoginRateLimit`, `AssetStore`, `LeadImport`, `AssetPages`, `MonthlyReport` and `AnalyticsQueries` |

How they meet. `PublishWorker` and `GraphAdapters` meet in `adapter.publish`: the first assumes what is
proved of the second, that its steps are the steps the first has for a call (`AdaptersKeepAssumption`, section 4). `ContentLifecycle` and `PublishWorker` meet at the job row: the first keeps all of what the
handlers do to it and of the worker only the writes (`Claim`, `GiveUpClaim`, `Dispatch`, `RecordResult`); the second keeps the worker's leases,
its calls and deaths, and of the handlers only what reaches a scheduled job. `PlatformConnections` has the job as the account needs it:
none, waiting or running. `NotificationDelivery` takes any business transaction for the one that reports an event.
In the modules `MCPublishing`, `MCPlanning`, `MCEdges` and `MCDeliveries` several components that share no state are checked in one run:
`active` names the one a behaviour is about and `On(c)` lets the others rest, so the run explores their sum and not their product.

### `PublishWorker`

`job` is the `PublishJob` row (`status`, `lockedBy`, `attemptCount`, whether `nextAttemptAt` has passed, the
environment it was created for). Its `lockedAt` is represented by what the code compares it with: `stale` says that
it is older than the lock timeout, and `passed` is the set of workers whose recovery cutoff it precedes. Both are
cleared by every write of `lockedAt`. `attempts[j]` is the sequence of attempt rows. `item` is the status of the
content item, `gate` the three facts the dispatch gate reads of the job's version (is it current, is its latest
approval APPROVED, are its product facts current). `task` is the set of failure tasks raised for a job. `posts` counts
posts on the platform, which the program cannot see. `worker` holds, for each process, its program point and what it
remembers: rows of its recovery scan, job, lease token, attempt number, whether its checks passed (`valid`),
whether the heartbeat found the lease lost, whether its request took effect (`made`), the answer.

| Action | Code |
|---|---|
| `ScanStaleJobs`, `RecoverStaleJob` | `recoverStaleJobs`: the `findMany`, then one transaction per row found |
| `ClaimNextJob` | `claimNextJob` and `claimPublishJob` (one statement); it may claim any due job, which covers both |
| `LoadJob` | the reads at the head of `processPublishJob`, up to the check of the mode |
| `CancelClaim`, `AdapterUnavailable` | its early ends |
| `OpenAttempt`, `GateRefuses`, `AttemptNumberTaken` | the gate transaction: lets through, refuses, or rolls back on the unique key |
| `PlatformCreatesPost`, `AdapterReturns` | `adapter.publish`: the effect on the platform and the answer, apart from each other |
| `Heartbeat`, `HeartbeatFails` | `startLeaseHeartbeat` |
| `RecordResult` | the result transaction, or nothing if the lease is lost |
| `Crash`, `Restart` | a worker process dies and is started again |
| `LeaseGoesStale`, `BecomesDue` | time |
| `EditContentVersion`, `SubmitForReview`, `ReviewContent`, `UpdateProductFacts`, `SchedulePublication`, `ReconcileUnknownPublish`, `ChangeMode` | the handlers of the web process |

Abstractions. One job has one content item of its own; several versions and jobs of an item are in `ContentLifecycle`.
The gate transaction is atomic: it holds the item's lock, and its cancel branch (line 177), which writes by
id after a plain read, is taken as one step with that read. The three reads at the head of `processPublishJob` are
one step: the gate repeats all of them but the mode. The adapter is an environment with two assumptions: it reports
success only of a post that exists, and reports a failure that leaves no doubt only if there is none, and a call
causes one post at most. The adapters of the Graph API keep all of this (`AdaptersKeepAssumption`, section 4). The order of claims
(`nextAttemptAt`, `createdAt`) is left out, as are tenant checks, audit rows and notifications.

`AtMostOncePublish` describes one job from outside: OPEN, SENT, then PUBLISHED, FAILED or UNKNOWN. Calls come one
after the other; a job goes back to OPEN only when its call is over without a post; PUBLISHED and FAILED, when not
decided by an operator, agree with the platform. `KeepsPromise` is the refinement: a RUNNING job with an open attempt
is SENT, and a call is in flight while some worker is at program point `calling`.

### `GraphAdapters`

`call` is where the adapter is: program point, asset, tries of the request in hand, polls of a container, the
reply. `remote` is the platform: whether it was sent anything, how many posts it holds, whether the post is public,
whether a lost request may still be carried out, whether the id of the post was told. Instagram creates a container
for every asset (and one more for a carousel), polls those of videos, and publishes; Facebook posts in one request;
both then confirm by the id. `Replies` are all ways a request can end: nothing in time, a broken connection, a body
that is no JSON, an error that the code knows by its number (`GraphErrors`, one member for all numbers read alike) with
every HTTP status the code tells apart, success with or without an id. A request and what the platform makes of it are one step; a lost
one may be carried out later (`PlatformPostsLate`). Of the platform it is assumed that an error naming its cause (token,
permission, rate, rejected content, bad media) or HTTP 429 means that the request was not carried out: that
is what the code takes them for. An abort by the caller does not occur: `publish` passes no signal.

### `NotificationDelivery`

`row[k][c]` are the delivery rows of a key and a channel in the order of creation, `note` the notification's count,
`lock` the advisory lock, `proc` what each process remembers. `StartEvent`, `PlanEvent`, `CommitEvent` and `RollBackEvent` are
`prepareNotificationEvent` in its transaction (the time is read before the lock, so it may be old when the lock comes);
`ClaimPrepared`, `SkipPrepared` and `DispatchEnds` are `dispatchPreparedNotification`, `ClaimNext` the loop of the worker;
`LoadDelivery`, `EndpointReceives`, `TransportEnds`, `MarkingThrows` and `MarkDelivery` are `dispatchClaimedNotificationDelivery`. A row is
stamped when it is inserted (Prisma computes `now()` per statement). A claim's number stands for its random token.
A process that ends on a database error outside the try block counts as a crash.

### `ContentLifecycle`

`item[i]` is a content item (status, account, the version on show, its slot), `decision[i][v]` the latest
approval of a version, `job[i][v]` and `task[i][v]` the publish job of a version and its manual task, `txns` the
transactions that have validated and not yet committed (they hold their rows), `inquiries` what is under way about outcomes (an item, a version and a stage), `moved`
whether the product's facts have changed since its items were written, `checked` the items whose version a submission has checked outside a transaction, `mode` the client's mode. Handlers that lock the item and do everything under that lock are one action
(`CheckForReview`, `SubmitForReview`, `EditContentVersion`, `ReviewContent`, `RequestContentChanges`, `StartManualPublish`, `RecordManualPublishResult`,
`UpdateTask`, `UpdateProductFacts`). Those that look at rows they do not lock are more: `BeginSchedule`,
`BeginQueueAssignment` and `CommitSchedule`; `BeginMove` and `CommitMove`; `BeginReconciliation`, which locks the item and reads the job, and `ReconcileUnknownPublish`, which writes
over whatever the job has become. A question to the platform has three steps: `AskPlatform`; `ReceiveAnswer`, in whose transaction the job is written and the item read without a lock
(stage "answering"; `platform-publish-query-service.ts:40-53`, and the same in `facebook-service.ts:248-250`); and `WriteAnswer`, which waits for the item's lock and writes it by its id. Between the last two an
edit may give the item a new version. `Free(i)` says that neither a schedule nor a reconciliation holds the item; an answer under way holds the job, so it and a reconciliation of that job wait for
each other, and one of them is rolled back. What `queryPlatformPublish` has written of the job is seen when its transaction commits.
`Schedulable`, `Near` and the conflict check are those of `validatePublicationInTransaction`. Time is a number of slots; a claim may take any waiting job.

### `ContentGeneration`

`genCall[r]` is a request: where it is and what it has read (facts, mode, strategy, version of the item); `genRow` is the reservation of a request,
`genUsed` what the month has used, `genFacts`, `genStrategy`, `genMode` the product, the strategies and the mode, `genItem` the items. `ReadProduct`, `ReadFacts`, `ReadItem` and
`BeginBrandAutofill` start a request; `ReserveUsage`, `SettleUsage`, `SimulatedAnswer` and `CallFails` are `withUsageReservation` around
the model; `GenerateContentPlan`, `WriteVariant` and `WriteRefused` the transaction that compares what was read with what holds and
writes; `ProcessDies`, `ReservationLapses` and `MonthTurns` need nobody. `CreateManualContent`, `EditByHand`,
`CreateSocialStrategyDraft`, `ConfirmSocialStrategy`, `ProductFactsChange` and `ClientModeChanges` run beside it.

### `PlatformConnections`

`conLink`, `conAccount` and `conLegacy` are the connections, the accounts and the page set up by hand; `conFlow` the
authorizations under way, `conTxn` the handlers between their checks and their commit, `conSharing` the schedules that hold the client's row
for share, `conJob` the job an account has, `conReads` the reads of the platform that have not answered. `StartPlatformConnection`, `ConsumeState`, `BeginComplete`,
`BeginSelect`, `BeginDisconnect` with their commits are the owner's handlers; `ConfigureFacebookPage` and `ValidateFacebookPage` the older setup; `BeginLiveSchedule`,
`ResolvePublishAdapter`, `JobMoves`, `PublishRefused`, `BeginRead` and `EndRead` those that need an account. `ClientFree` is the row lock
(`FOR UPDATE` against `FOR SHARE`), as a condition of the first half of a handler.

### The others

`LoginRateLimit`: `logRow` the rows, `logAttempt` the requests, `logSeen` how many failures of a window there really were. A failure is `ReadFailures` and `RecordFailure` under
the advisory lock of a key; its time is taken before it waits for the lock. `AssetStore`: an upload puts its object, creates its
row, and when that fails or its answer is lost looks for the row before it deletes the object; the process may stop anywhere. `AssetPages`: `FetchBatch` reads
rows below the cursor until the page is full or enough were scanned. `LeadImport`: `importInteraction` and `syncFacebookComments` with every unique-key
conflict (`FindInteraction`, `FindLead`) and the backfill of a lead that an earlier import left out; every text is of one of three kinds. `MonthlyReport`: `createMockMetricSnapshots`,
`syncFacebookMetrics`, jobs and interactions write rows whose time precedes their commit; the report reads `buildMonthlyReviewFactsV1` from the snapshot of
its first query. `ScheduleTimes`: time is counted in the quarters of an hour that the conversion steps by, and a zone changes its offset once. `timForm` is what an open page showed
(zone and planned time), `timQueue` the queue, `timPlan` the time planned or reported together with the local time and the zone that were given for it. `SchedulePublication`, `MoveOnBoard`, `ReportPublishedAt` and
`assignContentToQueue` all go through `zonedLocalDateTimeToUtc` and the comparison of zones; `SaveTimezone` may come between any two of them. Which
occurrence is free is in `ContentLifecycle`. `AnalyticsQueries`: syncs store rows; `getAnalyticsOverview`, `compareAccounts` and `getAnalyticsDataHealth` are operators over the rows,
with the loops of the code (`LatestBy`: the first of the latest of a key is kept) and both orders that the database may give rows of one instant in (`Ties`).

## 3. Runs

| Run | Instance | Shows |
|---|---|---|
| `worker_safety` | two workers, all modes, pauses past the timeout at `loaded`, `calling`, `answered`, one crash | one call in flight, one post, attempts that agree with the job, content frozen in a call, no blind resend, no denial of a post, and the refinement `KeepsPromise` |
| `worker_overslept` | pauses anywhere, LIVE only | what is left when a worker outsleeps its lease before it has read the row: an unknown outcome is handed over all the same |
| `worker_live` | no pauses of live workers, one crash, fairness | every lease ends; every queued job reaches an outcome or is parked by name |
| `deliveries` | senders of notifications that die and do not stall, with fairness; one publish call of either adapter | one sender at a time, a repeat only after a crash, every delivery settles; what a call reports may be believed, and it returns |
| `content` | one item with every handler, the worker and two questions to the platform; two connections with a page and a profile | what waits is ready, items, jobs and tasks agree, manual results can be recorded, nothing unapproved or stale is sent, outcomes are final; active jobs keep their account, and secrets go with their connection |
| `planning` | two items of one account; two requests to the text model; one publication planned by local times | slots stay apart; planned times mean what they say; the monthly limit holds, no reservation leaks, labels tell what a text was written from, LIVE content has a confirmed strategy |
| `edges` | notifications that stall, logins, uploads, library pages, comments, the monthly report, analytics | nine properties, one or two of each |
| `adopted_lease`, `mode_switch`, `adapter_facebook`, `review_reopened`, `textless_comment` | the instances above | violations, section 5 |

### What the properties say

- The worker: `OneCallInFlight`, `NoDuplicatePost`, `AttemptLedger`, `ContentFrozenInCall`, `NoBlindResend`, `PostIsNotDenied`,
  `UnknownIsHandedOver` and the refinement `KeepsPromise`; section 4 proves each.
- `QueuedIsReady`: a job that waits for its first attempt is of the version on show, approved, written from the facts in force, at the time the item says.
  `ItemAgreesWithJob`, `ManualTaskMatches`, `ManualResultRecordable`: item, job and task tell the same story, and a result that a person may have
  to report is never locked out; the one tale that may differ is that of an item edited between the two statements of an answer: it says PUBLISHED of a version that has no job, when the platform
  confirmed an earlier one (section 5), and never RUNNING, FAILED or UNKNOWN. `SentAsApproved`, `OutcomeIsFinal`: what a step may never do, whatever is read without a lock. `SlotsApart`: two publications
  of an account that wait are a window apart, although the transactions that plan them do not lock each other's items (they lock the account).
- `ActiveJobKeepsAccount`: no authorization, selection or disconnection takes an account from under a job that needs it.
  `SecretsGoTogether`: a connection without a token leaves no account of its own with one, whichever late answer marks it.
- `TimesMeanWhatTheySay`: a local time on a form, of a queue's slot or kept by the board becomes the one instant at which clocks in its zone show it, or is refused; a
  queue offers each of its slots on the days of its horizon, but where it does not exist or comes twice.
- `UsageWithinLimit`: what is reserved, with what was paid from reservations in time, never passes the limit, and only a
  request under way, or a dead one until its time is over, holds units.
- `LabelsTellTheTruth`: a text's facts version is the one it was written from, though product and fields are read by two queries and the model takes its time.
- `CooldownKept`, `LeaseProtects`, `OneSenderAtATime`, `ResentAfterCrashOnly`, `EveryDeliverySettles`: notifications.
- `EnoughFailuresBlock`, `FailuresKeepBlocks`: concurrent failures are not lost, and a late one does not shorten a block.
- `AssetsHaveTheirFiles`: no row without its file, no file left behind by an upload that ended. `PagesShowEverything`: pages that are
  turned to the end have shown every matching asset that was there at the first page, and none twice. `NoIntentLost`: an import that answered for a comment that asks
  to buy has left a lead, task and notification. `ReportIsSound`: a report's numbers are those of one instant and of its month.
  `NumbersAreRead`: the overview adds up what was read, one newest reading of an interval; the comparison agrees with it; the health is that of the latest rows.

### Bounds

The worker: one job, two workers, `MaxAttempts` = 2, one crash (`MaxCrashes`), the modes the settings form may
choose (`Modes`), six lease tokens. A job interacts with another one only through a worker that turns from one
to the other, and it then remembers nothing of the first (`Rest`); two workers are enough for every pair of
holder, former holder, recoverer and claimer; two attempts reach the retry and its limit. At most five tokens are remembered at once
(the job's row, and the token and the one scanned row of each worker), so there is always a fresh one and the guard
`FreshTokens # {}` never binds. The theorems of section 4 do not depend on these bounds.

| Component | Bounds | Why these |
|---|---|---|
| content | one product item, two versions, an API and a by-hand account, one slot, every mode, two queries | an outcome of an old version meets a new one; a second answer meets what the first wrote; an edit, a review and a reconciliation come between the statements of an answer |
| connections | two principals, one page, one profile, one authorization and one read under way, three rows made | the page changes hands; a late read meets each change |
| calendar | two items of one account, three slots, a window of one, LIVE | two transactions of any two kinds overlap; a conflict on either side |
| times | a zone whose clocks go forward and one whose clocks go back by two quarters, days of four, weeks of two, a horizon of two days, two sets of slots, now from 0 to 3 | a slot that does not exist and one that comes twice; the conversion looks two quarters around, as far as an offset changes (three hours in the code) |
| generation | two requests, a limit of 1, two facts versions, two edits, two strategies | one passes and one is refused at the limit; each fact read changes once |
| notifications in `edges` | one key, one channel, two workers, three events, stalls anywhere, one crash | two rows of a channel and one refused by the cooldown; a claim after a stall and one after a crash |
| notifications in `deliveries` | one key, two channels, a worker and a web process, two crashes | the dispatcher of the web process races the loop; a repeat that is repeated |
| adapters | both, up to two assets, two polls, three reads | an asset more than the first, a poll repeated, a read tried again |
| logins | two attempts at a time, two failures block, window 2, block 3, lag 1 | the limit is reached by two requests at once; times 0 to 5 let a block run out |
| uploads | two of one file | the row of the other is found by its checksum |
| pages | two a page, batches of two, three scanned, six assets | pages full, cut short and empty; batches that end within a page |
| comments | two importers, two comments, any earlier imports | every conflict; a page that ends early |
| report | one simulated job, two rows, times 0 to 3, days of two instants, a commit lag of one, zones with a change forward and back | a row committed during the report; a month that ends at a change |
| analytics | one account with a post, a day, week and month of 1, 2 and 3 instants, three syncs, readings 0 and 2, three rows of health | the same interval read twice, a failure after a reading, ties; three rows push one out of the health |

CHECK_DEADLOCK is off in `edges`, `deliveries`, `adapter_facebook` and `textless_comment`: requests, uploads, imports and the one call of an adapter come to an end there. `worker_*`, `content` and `planning` check deadlock.

Between two statements of one transaction the model lets an edit, a submission and a review of the item come, but not a schedule of its new version too (`~Overtaken(i)` in
`Validate`): an interactive transaction of Prisma ends after five seconds unless it is given more, which no caller of `queryPlatformPublish` does, and all four would have to commit in that time. If they did, the
item would say PUBLISHED over a job that waits: a worker would still send it, for its gate does not ask the item's status; a manual start and a bulk move would be refused, for they do.

### Fairness

`Fairness` of `PublishWorker`: every worker keeps taking steps (`tick` runs in an endless loop; adapters set request timeouts,
so a call returns), a dead worker is started again (`docker-compose.yml` and `--once` under a scheduler), and time
passes. Heartbeats, crashes, the platform and the web handlers are not fair: nothing makes them happen.
In `deliveries` transactions, requests, the worker's loop, restarts and the expiry of a dead process's lease are fair;
events, crashes and the endpoint are not. A stall past the lease is left out there because it would need a pause
of 50 seconds beside a request of ten (`OneSenderAtATime` is false with stalls, and the code does not claim it: the
endpoint gets a delivery id to drop repeats by). `PublishReturns` states its own assumption, that the adapter keeps taking steps (every
request has a time limit); the platform is not fair.
The liveness run of the queue has one job, so it says nothing of one job starving another; the code's order of claims is not
modelled.

## 4. Proofs

The theorems hold for every value of the constants that satisfies the assumptions named here: any number of jobs, workers,
items, requests, accounts, rows and crashes. Each rests on an inductive invariant: there is one lemma per action, and lemmas for
steps of one shape.

### Publishing

`PublishWorkerProofs` proves `Spec => []TypeOK`. `PublishQueueProofs` proves `Spec => [](TypeOK /\ QueueInv)` under the
assumption `"claimed" \notin StallPoints`: no worker outsleeps its lease between its claim and its read of the row. The
assumption is necessary (run `adopted_lease`) and is the only one besides `ConstantsAssumption`. None of the safety properties
is inductive. `QueueInv` adds what they rest on:
`LeaseInv` (a token names one running job and at most one worker), `CallInv` (what a worker knows before its call,
and during it: either it holds the lease, its attempt is the last one and open, and the content is frozen, or the
job is over), `ScanInv` (a scanned row that can still be recovered is as it was scanned: this is where the renewal
of `lockedAt` in the gate meets the cutoff in the recovery's update), `LedgerInv`, `PostInv` (the platform has a post
only of a job that is over or has an open attempt; an answer agrees with `made`) and `BudgetInv` (a job that may be
sent again has tries left). The shared lemmas are about a worker that
forgets everything (`RestStep`), a job given back before its call (`GivenBackStep`), a write of a job without a
lease (`UnleasedStep`), a step that moves only clocks (`ClockStep`). From it follow the safety properties of the worker's runs, that
`maxAttempts` bounds the calls (`BudgetKept`), and, for the two action properties, `OnlyTheGateCalls` (no other step adds an attempt) and `DenialStep`, which goes
through the ways in which a worker gives a job up.

That an unknown outcome is handed over (`UnknownHandedOver`) needs no such assumption, as the run `worker_overslept` suggests: two workers under one token
may spoil the ledger and the budget, but not this. Its invariant `HandOverInv` is short: the attempt that a call or a
recovery will write about exists, because attempts are never taken away.

`QueueKeepsPromise` proves the refinement `KeepsPromise`, under the assumption of `QueueInvariant`: the initial states of the queue are initial states of
`AtMostOncePublish`, and every step of it is a step or a stutter of that. `PromiseStep(j)` is what a step may be for one job; most steps change neither the phase of a job nor
whether a call for it is in flight (`PromiseStutters`), and no step moves two jobs (`PromiseMoves`). The gate sends (`GateKeepsPromise`), the platform posts, and a result is where `QueueInv` is used
most: by `PostInv` the outcome that is written agrees with the post, by `LedgerInv` and `ScanInv` a job goes back to OPEN only without an open attempt.

`GraphAdaptersProofs` proves, for any number of assets, polls and tries, that a result which makes the worker end or
retry a job leaves no post, present or to come (`FailuresAreHonest`), that a call posts at most once (`CallPostsOnce`), that
a success has its post (`SuccessIsHonest`), that a told id is kept (`ToldIdStays`) and that Instagram is reported as published only of a public post with its id (`InstagramConfirms`; of
Facebook this is false, run `adapter_facebook`). The invariant `Inv` says which of the platform's facts can
have come about at each program point: before `post` nothing is posted, at `confirm` the post exists and its id was told, and a
reply that is waiting to be read fixes what the platform did with the request. `ConfirmInv` adds what is Instagram's own: the platform makes a post public before it tells
its id, and the adapter does not lose an id it was told.

`AdaptersKeepAssumption` joins the two modules. `Before` is any state of the queue (of the types of `PublishWorker`) in which the worker `Caller` is in its call and the platform has not
carried it out. With the caller's row and the posts of its job read off the adapter's state (`CallerNow`, `PostsNow`), an adapter's
behaviour begins in `Before` and every step of it is `PlatformCreatesPost(Caller)`, `AdapterReturns(Caller)` or a stutter, as `PublishWorker` defines them, whatever the
number of the attempt: so a call is two steps at most, one post at most, and its outcome one of `PossibleOutcomes`. A post that a lost request
may still create counts as made from the moment it is lost (`Made`), since the queue has posts only during a call. The queue's other steps
(heartbeats, a crash, time, other workers) touch nothing of the adapter, and a request in hand when its caller dies is a lost one. The step that carries the
proof is `OutcomeIsPossible`: what is decided of a failure is the same for every attempt when it counts as sent, and a failure that counts as not sent is certain. With this theorem what
`PublishWorker` assumes of its environment is proved of the code on the other side.

### Content, accounts, times

`ContentLifecycleProofs` proves seven properties for any number of items, versions, accounts, instants and queries. `LifeInv` is
`TypeOK`, `RowsInv` (`Sound`: what may be said of each version with its job, its task, the item, a question and a reconciliation about it; `ItemAgreesWithJob` is not inductive without
the versions that are not on show, nor `ManualTaskMatches` without what an unknown outcome leaves open), `LateInv` (what an answer leaves that goes over the item of another version: an
item is shown as PUBLISHED without a job only if an earlier version's post was confirmed and no reconciliation is about to deny it; and an item that an answer may still go over has no job), `TxnsInv` (what a transaction has validated
still holds, because it holds its items, and because no two transactions are about one account) and `ApartInv`. `SlotsApart` is where they meet: the
items a transaction compares itself with are not locked, and only the lock on the account keeps them where they are. From it follow
`WaitingIsReady`, `ItemsAgree`, `TasksMatch`, `ResultsRecordable` and `ApartAlways`, and by the steps `SentIsApproved` and `OutcomesStand`.

`PlatformConnectionsProofs` proves that active jobs keep their account (`JobsKeepTheirAccount`) and that secrets leave with their connection (`SecretsLeaveTogether`). Neither is inductive.
`JobInv` says what a job's account has, by the kind of adapter; `SharingInv` that what a schedule has validated under its share of
the client's row holds until it writes; `TxnInv` that no schedule is under way while an authorization, a choice or a disconnection is between its check of the jobs and its
commit, so that the check still holds then; `LinkInv` that only a connection with a token is called connected, whichever late answer rewrites its status. The older setup of a page
takes no lock, and the invariant shows why that is harmless here: it rewrites rows, and removes none that an active job needs.

`PlanningProofs` has two parts. `GenInv`, of `ContentGeneration`, joins `QuotaInv` (what is counted against the month, with who still uses it: the check and
the reservation are one transaction, and a settlement takes its own reservation away), `ReadsInv` (no text is newer than the product, the first text of an item is of the version in its label, and what a request has read
is no newer than what is there) and `StrategyInv`; `QuotaIsKept`, `LabelsAreTrue` and `LiveIsConfirmed` follow. `ConversionIsExact` proves of `zonedLocalDateTimeToUtc` that its three corrections and its
look around return the one instant that reads so in the zone, and nothing if there is none or two; it assumes of zones what `ZonesAssumption` says, that an offset changes once
and by no more than the code looks around. With `TimInv` it gives `TimesAreKept`: what a page or a queue plans is what was meant. `QueuesAssumption` is about a queue's rules (days of
the week, times of the day).

### Notifications

`NotificationDeliveryProofs` proves, for any number of keys, channels, processes, events, claims and crashes, that the cooldown
holds (`CooldownHolds`), that no insert of a notification hits the unique key (`KeysDoNotConflict`), that a settled delivery is
never written again (`SettledStays`) and that a fresh lease keeps everyone but its claimant from the row (`LeaseHolds`); and,
if no process is paused past its lease (`StallPoints = {}`), that two are never in the request of one delivery (`OneSender`) and that an endpoint gets a delivery
once, and once more for every crash at most (`ResentOnlyAfterCrash`). The
invariant `Inv` joins what the planner read under the lock to the holder of the lock (`PlanInv`), tokens to the claims of
their row (`RowInv`, `SendInv`), and tells apart the tokens of two senders of one delivery (`TokenInv`); `OneSender` adds
`HoldInv`, and `ResentOnlyAfterCrash` adds `ClaimsInv`: a claim that nobody works on was cut off by a crash, and a crash cuts off
one claim at most, so a row has no more claims than crashes and one. `StepInv` carries `Inv` over every step that creates no row; `RowSteps` says once what a step may do to a row, for the
results that need it. Tokens are numbered claims in the model, and random in the code: the proofs take two random tokens for different, as the code does.

### Edges

`EdgeProofs` is about the small components, each with its own invariant.

- Logins: as many failures as the limit block the key (`EnoughBlocks`). `LogInv` adds `HolderInv` (a request between its read
  and its write is alone with the key, but for a success that deletes the row), `CountInv` (a row counts no fewer failures than there were, and enough of them have it blocked) and `LagInv`. That
  no failure lifts a block (`BlocksKept`) needs `LagIsShort == MaxLag < BlockTime`: the failure's time is taken before the lock, and a
  failure that waited longer than a block lasts could end one.
- Uploads: `AssetsKeepTheirFiles`; `UploadInv` says what each phase knows of its object and its row.
- Imports: `LeadsAreNotLost`; `LeadsComplete` (a lead has its task and notification) and `KnowsLead` (what an import has read or met at each step).
- Pages: `PagesShowAll`. `PagInv` says that the answers have shown the matching rows down to the cursor, and that a request has collected those between the cursor and the position its scan has come to. The page's
  cursor is a least element of a set, so the section begins with the least and the greatest number of a set.
- The report: `ReportsAreSound`. `BoundaryIsExact` proves that the search of `monthBoundaryUtc` by halves ends at the first instant of the month; `WindowIsMonth` that a report's window
  is the month up to its instant; `FactsInv` that each query that was answered told the truth about the snapshot of the first. `CalendarAssumption` is what it takes of the world: a zone changes its offset once, by
  at most a day either side of UTC, and no change sets the calendar back into a month that has ended. (A search by halves needs that the months do not go back.)
- The analytics: `NumbersAreRight`. `AnaInv` says of the rows that an id is of one row, that none is of the future, and that one with a value was available; the rest is about what is
  computed from any such rows. `LatestBy` reads the rows one by one and keeps a set: `PlacesAreInOrder` and `OrderedInOrder` show that the places of the rows are the numbers up to
  their count, each of one row (if a place were empty the others would be too few), and `LatestIsFirst` that what is kept after the loop is the first row of every key. A key's first row is one of its newest, and so `SumIsOfNewest`;
  `BoundsOfPeriods` has the bounds around now hold the instants of one period and no others. `OverviewIsOfRead`, `ComparisonIsOverview` and `HealthOfLatest` put these together. Nothing is proved about what a sum is: both sides
  of an equation add up the same rows, and which rows they are is what the code could get wrong.

The library's theorems of induction cannot be instantiated here, but every set of natural numbers that is not empty has a least one (`NatLessThanWellFounded` and `WFMin`), and that is how the proofs that
need induction are done: `LargestExists` for the attempts of a job, `LeastOf` and `GreatestOf` for cursors, for the recursive search by halves the least length of an interval on which it would be wrong, and for the loop of the analytics the least number of rows after which
it would have kept others than the first of their keys.

### Only model-checked

Liveness, which needs ENABLED: `EveryLeaseEnds`, `QueueDrains`, `EveryDeliverySettles` and `PublishReturns`. Every safety property and every refinement that a passing run
checks is a theorem of section 4, under the assumption named there; of the other safety properties of the worker nothing is claimed
under pauses anywhere: `adopted_lease` shows one of them violated there. That what the five violated properties say is false is shown by TLC's counterexamples. No module declares a RECURSIVE operator.

## 5. Where the code and its documents differ

- `adopted_lease`. `processPublishJob` receives a job id and adopts the token it finds in the row
  (`publish-worker-service.ts:111`). A worker that is paused past `JOB_LOCK_TIMEOUT_SECONDS` between its claim and that read
  can find the job recovered and claimed anew; it then works under the other worker's lease, both pass the gate one
  after the other, and two calls are in flight. The documents speak of a unique lease token per claim (`docs/exec-plans/completed/phase-1.md:14`,
  `README.md:48`).
- `mode_switch`. The mode is checked before the gate transaction and not in it. `README.md:154` says that the Graph API
  is called only while the client is LIVE.
- `adapter_facebook`. `request` reads a body that is no JSON as `{}` (`facebook-graph.ts:245`) and the confirming query takes a
  reply that does not say `is_published: false` for a published post. A cut reply makes a video that is still processed
  "published", without the id the platform had told. `docs/decisions/0002-facebook-live-boundary.md:16` has the system save the
  state it queried by the id, and `tests/facebook-adapter.test.ts:104` keeps the id and stays UNKNOWN until the video is confirmed.
- `review_reopened`. An approved version that is submitted again loses its job, and its approval stays the latest one. Neither the scheduling
  transaction (`content-service.ts:543`) nor the worker's gate asks for the item's status, so content that waits for a decision is scheduled again, or
  sent by a worker that had claimed it before. `docs/exec-plans/active/ui-architecture-v2.md:1156` says that REVIEW_PENDING needs a human decision.
- `textless_comment`. A comment without text, a photo or a sticker, is read as one with the empty text, which the schema of an import refuses; the refusal ends
  the sync of its post (`facebook-service.ts:190`), and the comments after it are never imported. `docs/exec-plans/active/phase-2-facebook-page.md:49` lists
  the import of a post's comments as done.

### Observed while modelling

Behaviour that no run is about, that the models have, and that a maintainer may want to know of. Where a document says otherwise, the item names it.

- Late answers: `queryPlatformPublish` (and `queryFacebookPublish`) reads the item without a lock and then writes it by its id
  (`platform-publish-query-service.ts:52-54`). An edit that commits between the two statements, or that holds the item while the second one waits, gives the item a new version, and that
  draft is then shown as PUBLISHED: it has no job, and its editor has to submit it from there. `docs/exec-plans/active/ui-architecture-v2.md:1160` says that PUBLISHED means a
  confirmed remote result; the test "does not let reconciliation of an old UNKNOWN version overwrite a newer draft" is about a reconciliation, which locks the item. `ShowsEarlierPost` is
  that state, and `ItemAgreesWithJob` says that nothing worse comes of it.
- Late reconciliations: `reconcileUnknownPublish` locks the item and not the job (`publish-worker-service.ts:322-327`). When the version is no longer on show, an answer of the platform
  does not touch the item, may commit between the read of the job and its write, and a confirmed post is then recorded as FAILED. `OutcomeIsFinal` names this as the only way.
- Usage: an answer that comes after its reservation ran out and was swept is refused, and its use is not logged. Units settled may exceed the reservation. Reservations of
  last month do not count. `reserveUsage` and `settleUsage` are kept apart only by the foreign key of `UsageLog` on `Client`.
- Dead ends: an item whose product's facts have changed cannot be brought up to date by an edit, which keeps the facts' version (`content-service.ts:358`), though the
  message of the cancelled job asks for one (`product-service.ts:205`); content reviewed again after its
  first attempt was cancelled cannot be scheduled (`content-service.ts:646-668`) while the publishing page still offers it.
- Times: a publication made by hand in an hour that comes twice cannot be reported through the page, which offers a local time only, and is refused as ambiguous. The settings store any text as
  the zone (`app/api/settings/route.ts:33`); it is refused only where it is used. A queue saved before the client's zone was changed refuses every assignment until it is saved anew; so does an `after` in the past
  whose first free slot is past too.
- Leads: setting a lead back to NEW does not reopen its tasks; the task of a lead that is added later quotes the stored text, not the new one. A sync reads the first page
  of comments only, as `discoverAccounts` does of `/me/accounts`.
- Connections: `facebook-service.ts:36` moves a page's rows under queued jobs without the client's lock; late invalidations (`platform-publish-query-service.ts:108`, `facebook-service.ts:350`) can mark a
  connection that was renewed or ended meanwhile; a job of the older setup is refused when the account's OAuth token has expired.
- Analytics: nothing in `src/` calls `markAnalyticsSync*`, so reports call a sync's state missing. A failed read counts as fresh. Rows of one instant come in
  no determined order in the overview and the health (`docs/exec-plans/active/core-capability-expansion.md:92` has the latest selected deterministically). The overview adds simulated and real samples, and intervals that overlap. A denied read of post engagement keeps an account's
  health denied until it is out of the last hundred rows, because later successes are stored by other names. A result recorded by hand after the report of its month is in no report.
- Logins: a success that clears the counter is undone by a failure that read it before.
- `refreshPlatformConnection` cannot be reached with the registered adapter; `queryFacebookPublish` and `generateOperationReport` are called by scripts only.

## 6. Mutants

Each checked property has a mutant in `PROJECT.json`: a definition of the model changed the way a plausible bug would
(a token left out of a where clause, a cutoff not tested again, a `lockedAt` not renewed, a limit off by one, a reading
counted twice). The mutated forms stand beside the definitions they replace.

## 7. Not modelled, and what is left

Not modelled: views and readiness (projections for pages: `client-readiness-service.ts` reads several tables without a snapshot and its verdict binds
nobody), the token vault (cryptography; a secret is there or not), pages and components.

Left out of parts that are modelled: the refusal of the gate as two steps (`publish-worker-service.ts:176-177` writes CANCELLED by the id alone, in the transaction that read the job);
the order of claims and the tenant checks of the worker; comments on approvals, text analysis and
platform policies (a check passes or not); `validateConnection` of the adapters; notification rules, the inbox and events
without a key; the HTTP side of an authorization and `refreshPlatformConnection`; sessions (rows found by a hash); asset tags, range reads and signed
URLs; the tables of single posts and the patterns made of them; prompts. Row locks that two transactions take in different orders end in one of them being rolled back by
the database, which the models have as a transaction that does not happen; `LockOrder` is therefore not a module.

Left to do: whether the readiness view and the worker's resolver give one verdict on an account; the order in which the queue is drained, without which the liveness of the queue is that of
one job.
