# Verification of max_service in TLA+

max_service is a marketplace of home services: customers open requests, providers
propose, an accepted proposal becomes a booking, money moves in a sandbox ledger,
and partners, advertisers and the operation work around that. The API
(`src/api`, NestJS) keeps its state in PostgreSQL, files in a private S3 bucket,
counters in Redis; `src/app` is a Next.js front end that proxies to it.

This directory holds the models of the parts whose correctness depends on
concurrency and failure, the TLC runs that check them on small instances, and the
TLAPS proofs of what matters most for instances of any size.

## 1. Inventory

What all parts share: a handler opens one READ COMMITTED transaction
(`DatabaseService.withActor`), every statement sees what is committed when it
starts, triggers and row-level policies run inside it, and any exception rolls
everything back. Handlers run concurrently over a pool of connections and in
several processes. Nothing is retried by the server: the callers retry.

| Component | State | Operations | Hard behaviour | What makes it correct |
|---|---|---|---|---|
| Idempotent mutations (`idempotency/`, `database/`) | `api_idempotency_records` | `execute`, `withActor` | duplicates in parallel, retries after a crash or a lost COMMIT acknowledgement, waits on the unique index, expiry | one effect per key, one answer per key, no key stuck, nobody hangs |
| Private uploads and storage (`marketplace/`, `messaging/`, `verifications/`, `support/`, `storage/`) | metadata rows, bucket objects | put, insert, compensate | two stores without a common transaction | metadata, record and bytes agree; the limit of images holds |
| Reconciliation (`scripts/private-storage-reconciliation.mjs`) | runs, a snapshot of references and objects | list, recheck, HEAD, conditional DELETE | stale snapshots against uploads | deletes orphans only, and all of them in the end |
| Marketplace (`marketplace/`, trigger of 0040) | requests, proposals, matching profiles | createProposal, acceptProposal, updateProviderMatching | proposals against acceptances, capacity counted before commit, deadlocks | one acceptance per booking, limits, decisions final |
| Bookings (`bookings/`) | bookings, histories, cancellations, reviews | transition, cancel, review | start, end and cancellation at once | one outcome, the request follows the booking |
| Provider schedule (0042) | weekly hours, blocks, version of the settings | save the week, block, release, slots | a block against a booking, two tabs, slots read unlocked | no period taken twice, one event for each version |
| Finance sandbox (`finance/`) | intents, allocations, transactions, ledger | snapshot at booking, settlement, refund | duplicated and reordered signed events | ledger equals settled intents |
| Campaigns (`campaigns/`) | campaigns, reservations, validation attempts | validate, reserve, redeem, create, pause | limits counted while others are not committed | limits hold, guesses are limited |
| Advertising (`advertising/`) | campaigns, deliveries, clicks | submit, moderate, deliver, click | the limit is counted without a lock | the overrun is bounded, moderation is final |
| Notifications and push (`notifications/`) | notifications, subscriptions, deliveries | queue, claim, finish, revoke | leases, retries, revocation while claimed, processes that hang or die | at most five attempts, no outcome rewritten, every delivery ends |
| Messaging (`messaging/`, `PersistentMessages`) | messages, read cursors | send, sync, read | a cursor against commits out of order, failed and late synchronisations | later messages appear, reading never goes back |
| Support, partner support (`support/`, `operations/`) | cases, triage, SLA, disputes, files | open, triage, reply, decide | messages that do not lock the case, two operators | nothing but late messages after a resolution; one dispute, decided once |
| Verification (`verifications/`) | verification, items | review an item, decide | items change while they are counted | the verdict matches the items |
| Referrals (`partners/`, `operations/`) | referrals, risk assessments and reviews | invite, capture, review risk, triage | counts and lookups without a lock | duplicates are flagged, approval needs the clearance |
| Onboarding (`onboarding/`) | profile, coverage, matching, consents, events | complete, change matching | two tabs, first rows that nobody can lock | the event trails tell the state |
| Privacy (`privacy/`) | requests, events, receipts | open, export, decide | export against decision | access is fulfilled with its receipt only |
| Operations (`operations/`) | gates, goals, categories, regions, report schedules | versioned updates, reports | counts before the lock, order before the wait, two connections for one call | guards hold for committed states, trails chain |
| Sessions (`auth/`, `app/api/v1`) | sessions, the cookie, what each tab believes | create, resolve, revoke, expire, call | answers that cross, revocations that fail | calls run in a role their route allows, the one shown unless the route is of several; no session forgotten |
| Rate limit (`security/`) | Redis sorted sets or buckets in memory | consume | scripts that run after their timeout, eviction | windows hold, refusals cost nothing |
| The page (`app/demo`) | keys of pending mutations, what panels show | click, retry, leave, read, poll | answers lost, late or out of order | executed once until seen; panels go back only where answers cross |
| Observability, headers, migrations, backup | counters, probes, files | reads | none | not modelled |

Interactions: every mutation runs inside Idempotency; acceptance creates the
booking, whose triggers check the schedule and create the financial snapshot
(and redeem a campaign); ending a booking closes the request and opens the way
to settlement or refund; most mutations insert notifications, whose trigger
queues push deliveries. `PROJECT.json` lists each component with its status, and
under `hazards` the places, line by line, where tests would hardly reach.

## 2. Modules

| Module | Models | Composes |
|---|---|---|
| `KeyedOnce` | the abstract promise of an idempotency key: decided once, every answer repeats the decision | |
| `Idempotency` | `IdempotencyService.execute` in `withActor`, statement by statement | implements `KeyedOnce` |
| `IdempotencyProofs` | the inductive invariant and the theorems | extends `Idempotency` |
| `PrivateUpload` | `uploadRequestAttachment` as the protected operation, the bucket, and `reconcilePrivateStorage` | extends `Idempotency` |
| `Marketplace` | `createProposal`, `acceptProposal`, the insert trigger, row locks and deadlocks | |
| `FinancialSnapshot` | the arithmetic of the trigger that freezes price, discount, shares and allocations | |
| `FinancialSnapshotProofs` | that allocations and discounts reconcile for every rule, reservation and amount | extends `FinancialSnapshot` |
| `BookingLifecycle` | transition, cancel, review and the signed finance events, statement by statement | extends `FinancialSnapshot` |
| `BookingLifecycleProofs` | the inductive invariant and the theorems | extends `BookingLifecycle`, `FinancialSnapshotProofs` |
| `PrivateUploadProofs` | that an upload follows the protocol of the key, and the safety of files and limits | extends `PrivateUpload`, `IdempotencyProofs` |
| `MarketplaceProofs` | the safety of proposals and acceptances | extends `Marketplace` |
| `DeliveryProofs` | the safety of push delivery, report simulations and a conversation | extends `MCDelivery` |
| `ConsoleProofs` | inductive invariants of the operators' workflows: regions, catalog, versioned records, verification, privacy, tickets, referrals | extends those modules |
| `WorkflowsProofs` | those of the other workflows and of the page, and the theorems of all fifteen | extends `MCWorkflows`, `ConsoleProofs` |
| `PushDelivery` | the queue of push deliveries, the processes that serve it and the recipient | |
| `ReportSchedules` | the status of a report schedule and `simulateReportDelivery` over a bounded pool | |
| `Conversation` | sending, synchronisation by cursor and read cursors, page and service | |
| `ServiceRegions`, `ServiceCatalog`, `OperationDesk` | the console: regions and quarters, categories, and the versioned records with their trails | |
| `Referrals`, `Campaigns`, `PartnerSupport`, `Verification`, `PrivacyRights`, `AdDelivery` | one workflow each | |
| `RateWindow` | the sliding windows, in Redis and in memory | |
| `ProviderSchedule` | the agenda against bookings, with the triggers of 0042 | |
| `Onboarding` | completion against the dashboard's change of the matching profile | |
| `Sessions` | tabs, cookie, BFF and the sessions of the API | |
| `PageMutations` | how the forms of the page choose, keep and drop their idempotency keys | |
| `PageReads` | how its panels read, poll, abort and show | |
| `MCIdempotency`, `MCPrivateUpload`, `MCMarketplace`, `MCBookingLifecycle`, `MCRegions` | instances for TLC | |
| `MCDelivery` | one instance of the three systems that must end | composes `PushDelivery`, `ReportSchedules`, `Conversation` |
| `MCWorkflows` | one instance of the fifteen other workflows | composes them and `MCRegions` |

### Idempotency

`pc` is the next statement of the call a connection serves; `staged` and
`mutated` are what its open transaction has written (the record, and the
business effect); `table` is what is committed. `Reserve` and `FindExisting` are
the two outcomes of `INSERT ... ON CONFLICT DO NOTHING`, both blocked while
another open transaction holds the key (`Reserved`), as the unique index does.
`Replay` and `Conflict` are the branches after the SELECT, `Complete` the UPDATE
to 'completed'. `Commit` publishes and answers; `CommitUnacknowledged` publishes
and fails; `Throw` followed by `Rollback` is any exception; `Crash` is the loss of
the process or connection. `effects` counts committed effects and `answers`
records every successful response: both are history variables for the
properties. Content is its hash, so the SHA-256 is taken as injective; a response
that serialises to SQL NULL cannot occur, since the operations return objects.

### PrivateUpload

The upload handler is the operation of `Idempotency`; `phase` is how far it is,
`named` whether `objectKey` is assigned, which is what the catch looks at.
Attachment id and object key derive from the idempotency key, so one element
of `Keys` names the call, the row and the object. The insert trigger takes an
advisory lock of the request, held to the end of the transaction: the guard of
`InsertMetadata` on `phase[d] # "inserted"`. `Attach` is what COMMIT publishes
beside the record. `Compensate` is the remove in the catch, after the ROLLBACK.
The reconciliation is a second process: `RunStarts` fixes the cutoff,
`LoadReferences` and `ListObjects` happen in any order, then the second reading
of the references, and HEAD and conditional DELETE per candidate in key order.
`aged` is "LastModified older than the minimum age now"; `run.stale` is the same
measured at the cutoff of the run, from which later puts remove the object.

Assumed: an upload ends within the 24 hours of the minimum age (`Age` waits for
uploads of that key), and a put whose handler died does not arrive later.

### Marketplace

A transaction holds its writes in `draft` until COMMIT. A row with an
uncommitted write is locked: `Blockers` says which transactions the next
statement waits for, `Deadlocked` when they wait in a circle, of which
`DeadlockVictim` cancels one. The insert trigger is two statements:
`TriggerReadsRequest` locks nothing, `TriggerChecksCapacity` waits for the profile
row (`FOR UPDATE`, held to the end) and counts what is committed by then. The
decline statement of the acceptance fixes its rows when it starts (`ScanOthers`)
and then locks them one by one. `SetAvailability` and `EndBooking` stand for
`updateProviderMatching` and the end of a booking. Left out because no
property depends on them: notifications, histories, audit rows, messages,
estimated minutes and the slot itself; idempotency is covered by its own module.

### FinancialSnapshot and BookingLifecycle

`FinancialSnapshot` is integer arithmetic in cents: `Share` is
`floor(amount * bps / 10000)`, the provider gets what the three rounded shares
leave, and `Discount` is capped so that one real is left to pay. `Rules` carries
the CHECK on the sum of the percentages; amounts are those the proposal DTO
accepts.

In `BookingLifecycle` each handler is a path of statements (`InTransition`,
`InCancel`, `InReview`, `InEvent`), one action each. A statement that writes or
locks (`Lock`) waits for the transactions that hold what it wants (`Wanted`,
`Blockers`); its own condition is read after the wait, as READ COMMITTED does
when it evaluates the row again or meets a unique key. A statement that only
reads (`Look`) does not wait. Writes appear at COMMIT, all in one step. The values
a handler carries from one statement to another are in `read`: the status that
`transition` and `cancel` compare in their UPDATE, and the booking status of
the event's join, which `FOR UPDATE OF` the intent does not refresh. That is why
the join is an action of its own (`JoinBooking`), before `LockIntent`. `Abandon`
is every way to end without a write: a failed condition, a refused signature
or time window, a duplicate, an error, a crash. It is always enabled, so the
model holds whichever of them happens, and a call the code refuses early can only
do less. The acceptance is one step here, `InsertBooking`, with the trigger's
snapshot; its own interleavings are the subject of `Marketplace`.
The request's statuses are written in the words of the booking ('booked' is
"scheduled"). A ledger is kept as its balance per entry.

### PushDelivery, ReportSchedules and Conversation

`PushDelivery` follows one recipient. A notification is queued by the trigger for
every device and enabled category; `Claimable` is the condition of the claiming
function of 0031 (not ended, attempts left, lease lapsed, preferences and
quiet hours now), a claim takes the lease and counts the attempt. A process may be
`late` (its lease lapses while it works), die, or lose its finish; what the provider
took is counted apart from what the row says. Delays between attempts are a choice of
when.

`ReportSchedules` has the three transactions of `simulateReportDelivery` (the check, the
report and the delivery), each on a connection of a pool of `PoolSize`: the second is
asked for while the first is held, and `PoolTimesOut` is the only way out when
all are held so. A repeated call has the key and the version of the first.

`Conversation` orders messages by the time their transaction began, as `created_at`
does, while they appear at COMMIT. The page's cursor is the last message it has;
its synchronisations fail, and confirmations of reading travel on their own.

### The console and the other workflows

Every handler is cut where another may come in between: a SELECT fixes what it sees
when it starts, then waits for the rows it locks, then the checks, triggers and writes
follow, and COMMIT publishes. What a statement saw before its wait is kept in the
record of the call (`counted`, `listed`, `review`, ...) and used after it, as the code
does; only the row it locks is read again. Each module has an action that ends a
call without a write at any point, which stands for refusals, errors and crashes.

- `ServiceRegions`: the counts of `manageRegion` and `manageRegionNeighborhood` are
  those before the lock; the triggers of 0038 look again but lock nothing.
- `ServiceCatalog`: the whole list is locked, in the order seen before the wait.
- `OperationDesk`: a readiness gate (by version), the goals of a period (first
  insert or update) and a case, one `record` per behaviour, with the trail of events.
- `Referrals`: `invite` and the public capture, whose lookup, count and insert lock
  nothing; the unique index of a link and address; the assessment of what was
  just inserted, and review and decision by operators. Only whether
  a signal is raised is kept of the score.
- `Campaigns`: one coupon. The advisory lock of the customer is taken by validations,
  that of the code by reservations; a redemption at the acceptance of a proposal may
  find the reservation ineligible.
- `PartnerSupport`: a message reads the status without a lock and its INSERT takes a
  KEY SHARE of the case; triage, status and dispute decisions lock it.
- `Verification`, `PrivacyRights`: every handler locks the one row it is about.
- `AdDelivery`: the usage is counted in the SELECT that chooses, which locks nothing.
- `RateWindow`: `store` is "redis", where the script is one step that may run after the
  caller has given up, or "memory", where a request is one step and the oldest bucket is
  evicted at the limit. A bucket is a set of members, as Redis' sorted sets are, whose scores
  are their times; one admission adds the same member (a random UUID, here its code, its time
  and its place in that tick) to the bucket of each of its rules. Time is a bounded clock.
- `ProviderSchedule`: the provider's writes lock the settings; block and booking meet
  in the triggers under the advisory lock, and in exclusion constraints.
- `Onboarding`: a first completion has no row to lock, so two of them meet at the
  primary key; matching and coverage are replaced against what was read.
- `Sessions`: tabs share the cookie. A request carries the cookie of when it was sent, an
  answer sets it when it arrives, in any order; revocation, insertion and
  resolution at the API are steps of their own, and before a call runs the BFF asks whether
  the session's role is in the list of the route. Most routes are of one role; categories, regions,
  privacy and onboarding are of several and are not told what the tab shows (`SharedLists`),
  so a tab whose cookie another replaced acts there in the other's role.

### PageMutations and PageReads

Forty forms and thirty-six panels of `demo-experience.tsx` follow a few
protocols. Each is a record of the choices it makes, mapped to its handler: whether it
has one key for the dialog, the last fingerprint's key, a key for every fingerprint or
none; whether the fingerprint has the version, a success closes the form, and a
success drops the key; and for a panel whether it is about one of several subjects, whether
it polls, how many requests a read has, when it shows nothing again, whether a new read aborts the
one in progress, is kept beside it or is skipped, which button reads again, whether the
answer to an action is shown or makes it read again, and whether its user may begin one
action while another is unanswered. The behaviour is written once over these choices,
and the initial states range over all of them. The server's side is
the decision of `Idempotency`, in one step.

No panel holds a read and an action apart, and the answer to an action that is shown
(`WriteShown`) aborts no read. `crossed` says of the read that was last begun alone whether
answers were on their way with it that nothing orders: two reads kept at once, or an action beside a read
or another action in a panel that shows answers or keeps reads. Once it is true the panel may show an older
state; `CrossingPanels` are the seven in which that comes about, and section 7 says how in each.
An answer that arrives after its form or panel was closed still notifies, and calls `onSaved` or
`onClose` of what is no longer there; the models end with the mount and do not follow it.

## 3. Runs

| Run | Instance | Shows |
|---|---|---|
| `idempotency` | 3 connections, 1 key, 2 contents, 1 body | one effect and one record per key under races, retries, crashes, lost acknowledgements and expiry; nobody waits forever, records are final, `KeyedOnce` is implemented |
| `upload` | 2 connections, a reconciliation, symmetry; one key with 2 contents and 2 bodies, or two keys with one | metadata, record, answers and bytes agree; untouched candidates are orphans; the limit of images holds for uploads that counted together |
| `upload_purge` | 1 connection, 2 keys, 1 deletion per run | orphans are purged however they sort |
| `upload_compensation` | 2 connections, 1 key | **violated**: the compensation removes the object of a committed attachment |
| `upload_reconcile` | 1 connection, 1 key, a reconciliation | **violated**: an equal rewrite between HEAD and DELETE is deleted |
| `market` | 2 transactions, 2 providers, 2 requests, limits 1 | one acceptance per booking, the limit of active proposals, decisions final, no status going back, and every transaction ends in spite of circular waits |
| `market_late_proposal` | 2 transactions, 2 providers, 1 request | **violated**: a proposal committed after the decline stays 'sent' on a booked request |
| `market_amount` | 2 transactions, 1 provider, 2 amounts | **violated**: an accepted proposal changes its amount |
| `booking` | 2 transactions, 2 bookings, 2 event ids, 1 author, 2 ratings, symmetry; 8 prices and 7 reservations at the birth of a single booking | one path and one ending; reviews stand; the ledger balances and money follows the booking under repeated, reordered and misdirected events; snapshots reconcile at every threshold and rounding; no circular wait |
| `delivery` | 1 notification for 1 device and 2 processes, 3 attempts; 2 simulations, 2 keys, a pool of 2, 3 versions; 2 messages of the other and 1 of the page | attempts are bounded and outcomes final, pending deliveries end; a look at the schedule delivers once and simulations end; reading never goes back and later messages appear |
| `workflows` | 2 calls (or tabs) of each of fifteen workflows, symmetry | the catalog stays usable, trails have no gap and no change is blind, limits and admissions are kept, verdicts have their grounds, what is settled stays, keys execute once until the page shows it, panels show their subject unless answers crossed, agendas do not overlap, sessions are accounted for |
| `regions` | 2 calls, 2 regions, 3 quarters | **violated**: two deactivations leave no region active |

The five violated runs are the findings of `PROJECT.json`, each a disagreement
between the code and a sentence of the code, the documentation or a test.

`delivery` and `workflows` put independent modules in one instance: a variable says
which of them a behaviour is about, and the others stay in one initial state. The
states are the sum of theirs, and each part of a property is of one module's variables, so the
run says of each what a run of its own would.

The properties a run checks are conjunctions of named parts, one for each promise, and
each part is stated and explained at its own definition: `DecidedOnce` is
`OneReservation`, `EffectOnce`, `NoStuckKey` and `AnswersAgree`; `FinanceReconciles` is
`SnapshotReconciles`, `LedgerBalances`, `EventsTellStatus` and `MoneyFollowsBooking`. Of workflows
that promise the same, `MCWorkflows` joins the parts: `LimitsHold`, `ChangesWereSeen`,
`CatalogStaysUsable`, `VerdictsHaveTheirGrounds`, `SettledStays`. Every part has its own
mutant of the code that breaks it. `RecordsAreFinal` follows from the promise of
`KeyedOnce` and is not checked again by the run; it is proved.

Bounds. The keys of idempotency never interact (each guard and update concerns
one key), so one key is enough there and the connections are what matters: three
are one that holds the key and two that wait. The limit of images and the limit of proposals are 1, which a
second concurrent call already exceeds; the code's 3 only adds calls. Two
providers are enough for the circle of two acceptances and for the decline of
another's proposal; a late proposal needs one transaction paused while another accepts.
`effects` is bounded by `EffectOnce`, a part of `DecidedOnce`, itself. In the life of a booking, two transactions are
enough, since one can pause anywhere while the other runs call after call; two event ids are a repetition and a
new event for the same intent; two bookings are what one event id can be confused
between. The prices lie around the minimum, every coupon's
threshold and the rounding of the shares; the theorems cover all others. Three
constraints cut what has nothing to do with each other: `OneKeyOrOneContent` (two
keys or two contents), `OnePriceOrOneBirth` (calls race at one price, with wrong amounts stated by one
settlement at a time and reviews, which touch no other booking, committed where one booking is
alone; the other prices are for the birth of a booking alone), and
`TriageAlone` (the triage of a referral, which locks and reads its row only, goes on beside
captures that do not commit).

In `workflows` the second call is the one that comes in between, anywhere; limits
are 1 or 2, which two calls already pass if nothing holds them. Trails and
versions are bounded (`MaxEvents`, `MaxTicketEvents`, `MaxDsEvents`, `MaxSaves`,
`MaxScheduleVersion`, `MaxVersion`): three or more entries are two writes that race over what
a third wrote. `MaxClock` is twice the window of `RateWindow`, `MaxDecided` more
decisions than one window of the shared limit admits, and `MaxBuckets` one less than the keys in play. `MaxMinted`
= 3 keys are a first attempt, another content and a third; `MaxStates` = 3 versions of what a
panel reads are one older and one newer than what it shows, and `MaxReads` = 2 is a read and
the one kept beside it. `Sessions` has two roles, each with routes of its own, and routes of both. `MaxAttempts` is 3 for the
code's 5: one attempt fails, one is lost and one is left. `MaxSessions` = 2 is a
session and the one that replaces it.

Fairness. `Idempotency!FairSpec` is weak fairness of `Advance` per connection: a
connection whose next statement can execute executes it. Errors are never
forced, so `WaitsEnd` does not rest on them. `FairUploadSpec` asks that
time passes, that the scheduler starts a run every day and that a run proceeds;
`OrphansArePurged` holds under its own premises (uploads stop, runs stop failing).
`Marketplace!FairSpec` is strong fairness of a transaction's next statement,
because PostgreSQL queues the waiters of a row, so one whose lock is free again
and again gets it; and weak fairness of the deadlock detector. In `delivery`,
`PushFairness` asks it of one process only (`Answering`), whose timer runs and whose provider
answers, and lets the others hang; `SchedulesFairness` asks that statements and timeouts of the
pool come (strong fairness for the two that wait for a lock others keep taking),
`ConversationFairness` that the page's timer fires and, by strong fairness, that of all
synchronisations not all fail. Recipients, operators and errors are never forced.
`workflows` and `booking` are about safety only.

## 4. Proofs

`IdempotencyProofs` proves, for any sets of connections, keys, contents and
bodies, under the two assumptions on the constants `NoBody` and `NoRow` only (the
code's SQL NULL and the missing row, which are none of the real values):

- `TypeCorrect`, `EffectOnceHolds`, `NoStuckKeyHolds`, `AnswersAgreeHolds`,
  `OneReservationHolds`: the safety invariants, together `DecidedOnceHolds`;
- `RecordsAreFinalHolds`: the action property;
- `Implementation`: `Spec => ImplementsPromise`, the refinement of `KeyedOnce`.

None of the invariants is inductive alone: `EffectOnce` needs to know that a
transaction about to COMMIT either holds both the completed record and the effect or
neither, and `AnswersAgree` that what a connection is about to answer is what the
table says. `IInv` adds these: `Transaction(c)` ties what a connection has staged
to where it is, and `Reads(c)` ties the value it carries, from the
lookup to the reply, to the committed record of its key. `OneReservation`
carries the unique index: it is what makes the INSERT of one connection harmless to
the others. There is one lemma per action; the refinement uses `IInv` to show that a
COMMIT with a staged record is `Decide`, a `Reply` is `Answer`, and all else
stutters.

`FinancialSnapshotProofs` proves `AllocationsReconcile` and
`DiscountLeavesMinimum` for every rule the CHECK admits, every reservation and
every amount: three rounded shares of an amount never exceed it (`SharesFit`), since
their percentages add up to at most the whole.

`BookingLifecycleProofs` proves, for any sets of transactions, bookings, events,
participants and ratings, and any rule, prices and reservations within the
assumptions of the module:

- `TypeCorrect`, `EndingsCoherent`, `LedgerAlwaysBalances`, `StatusTellsEvents`,
  `MoneyAlwaysFollows`, `SnapshotsReconcile`: the invariants of its run, the
  last four together `FinanceAlwaysReconciles`;
- `BookingsFollowPath`, `ReviewsAlwaysStand`: the action properties, together
  `PastAlwaysStands`;
- `CallsNeverDeadlock`: no set of calls waits in a circle.

The invariant `IInv` adds to them that locks exclude (`Exclusive`) and what a
transaction knows at each statement: with the booking locked, its status is the
one read (`Moving`); a review that goes on is of a completed booking
(`Reviewing`); and for an event (`Paying`) that a final status once read is still
the status, and that with intent and key locked the checks it made still hold. The
heart of the argument is `Paying`: the booking of the join may be stale, but the only
statuses an event relies on are completed and cancelled, which no step leaves.
`OthersStay` says once what a step of another transaction may do to these facts,
`LockStep`, `LookStep` and `CommitStep` what is left to show of each kind of
statement, and then there is one lemma per action.

`CallsNeverDeadlock` needs one more invariant, `InOrder`: what a call has locked lies in
tables that come before its statement (`Behind`). Whoever is waited for is then
further on in one order of tables, and of any calls the one that is furthest waits for none
of the others.

`PrivateUploadProofs`, for any connections, keys, contents and limit of images.
`UploadsFollowTheProtocol` shows that the upload, with the bucket, the clock and the
reconciliation around it, takes only steps of `Idempotency` or leaves its variables
alone (`ProtocolStep`), so what is proved of the key holds of uploads
(`UploadsAreDecidedOnce`, `UploadsKeepThePromise`) and `IInv` may be assumed in every step. On top of it,
`UploadInv` gives `UploadTypeCorrect`, `FilesMatchAnswersHolds`, `AttachmentLimitHolds` and
`CandidatesAreOrphans`. It adds how far an upload is in the protocol
(`Phases`), that between its put and its end the object under its key is its own or gone, and
young (`FreshObjects`), and that of all uploads of a request one at a time has counted,
with a count that still holds (`OneInsertion`).

`MarketplaceProofs`, for any transactions, requests, providers, amounts and limits:
`MarketTypeCorrect`, `BookedByOneAcceptanceHolds`, `ProposalLimitIsKept` and the action
property `DecisionsAreFinalHolds`. `MarketInv` says what the draft of a transaction may hold
at each statement of the two handlers (`Preparation`, `ProposerDraft`, `AccepterDraft`),
that drafts never meet on a row, a request, a booking or a profile (`Locks`), and that a
new proposal is written under the lock of the profile it was counted under
(`Counted`). A deadlock's victim only gives up a draft, so it is one more step.

`DeliveryProofs`, for any processes, devices, notifications, keys, requests, messages and
bounds: `DeliveryTypeCorrect`, `QueueTellsSendsHolds`, `OutcomesAreFinalHold`,
`CyclesAreToldHolds` and `ReadCursorAdvancesHolds`, all from `DeliverySpec`.
`PushInv` counts the requests on their way as attempts (`SendsAreCounted`: accepted
plus under way never exceed the attempts of the row, which is why a lapsed
lease does no harm), and knows that an ended delivery holds no lease (`EndedIsFree`).
`ReportsInv` has the one holder of the row lock, which found the schedule as its
client saw it (`LockHolderIsCurrent`), and that every recorded key looked at a
version that has passed (`LooksAreOfThePast`). `TalkInv` has that a message
begins once and is fetched only after it committed.

`ConsoleProofs` and `WorkflowsProofs` prove, from `WorkflowsSpec` and for any calls, tabs,
rows, limits and bounds, every property of the run `workflows`, one theorem each (and
`RegionsKeepHoods`, `RegionsTypeCorrect` from `RegionsSpec`). Each module has its inductive
invariant, named parts that say why the property holds although others come in between:

| Invariant | What it adds to the properties |
|---|---|
| `RegionsInv` | a region's row is held by one call, and what its trigger found there still stands at COMMIT (`StillBacked`); the counts of the service are not used, which is what the run `regions` shows |
| `CatalogInv` | one call writes the locked list (`OneWriter`), and the list after it is usable whatever order was seen before the wait (`UsableAfter`) |
| `DeskInv` | the trail leads to the row (`TrailLeadsHere`), who sees the current version sees the current value (`ViewsAreTrue`), the locked row is as it was read (`LockedRowIsRead`) |
| `VerificationInv`, `PrivacyInv`, `TicketInv` | the row has one holder and is as it read it (`ReviewHolds`, `LockedRequestIsRead`, `ErrandStands`); a message was admitted before any resolution, whatever came since |
| `ReferralsInv` | captures under way have their place in the limit (`PlacesAreCounted`); what a capture or triage has seen is not undone by others (`VisitStands`) |
| `AdInv` | the same count for selected deliveries (`ImpressionsCounted`) |
| `CouponInv` | under the code's lock the uses counted leave room for one more (`ReservesHold`); of a customer's validations one at a time has an answer, and tells why only below the limit (`ValidationsHold`) |
| `SessionInv` | a call that was let in has its session's role, which is in the list of its route, and what a request revoked has ended or is counted lost (`FlightsHold`); a live session that is nowhere is on its way (`LiveOnesKnown`) |
| `AgendaInv` | who changes the agenda has its version, and the span of who has passed the trigger is still free (`TasksHold`); of every span the last event tells its state (`TrailTold`) |
| `PanelInv` | no version is of the future (`VersionsPast`); until answers cross there is one read, of its subject (`OneRead`), no part of it older than what is shown (`ReadsNewer`); where the answer to an action is shown, the action is alone and newer than what is shown (`ActionsNewer`), and forms read or act, never both (`FormsTakeTurns`) |
| `OnboardingInv` | there is a sequence of coverages the trail leads through to the one of now (`CoverageTold`); the alternation follows from the least event that would break it |
| `RateInv` | the admissions of a tick are numbered (`NumberedInTick`), so that no two are one member |
| `PageInv` | which requests of a page are still held, sent or executed under their key (`UnseenPending`, `LedgerOnce`), and that what was announced was executed before what is awaited (`ToldBefore`) |

Every one of these invariants was first checked by TLC on the instance of its run. The
proofs showed where the models were loosely typed (a pending COMMIT's list, the page's
awaited request) and that the windows of `RateWindow` had to be sets, as they are in
Redis: the provers know nothing of a filtered sequence.

Assumptions on the constants are in the modules, named, and evaluated by the runs:
values that stand for no row or no call are none of the real ones; limits are naturals, most
of them positive; sets that are counted (calls of captures and of advertising, orders, categories,
texts of a conversation) are finite; there is at least one category, one request, provider and amount,
one key of a simulation and one value of a versioned record; a region has a neighborhood; a
customer's limit is at most the coupon's (the CHECK of 0032 requires it).

Induction is used where the library's well-founded minimum reaches it: `LeastElement`
takes the first event that breaks an alternation. Recursive definitions stay with TLC.

Only model-checked: liveness, since fairness is out of the prover's reach (`WaitsEnd`,
`OrphansArePurged`, `TransactionsEnd`, `PendingEnds`, `SimulationsEnd`,
`LaterMessagesArrive`), and the violated properties. Every safety invariant and action
property of the passing runs has its theorem.

## 5. Plan

Done: every component with state that others rely on has a module, and every safety property
a run checks has a proof. Next:

1. Abstract specifications of the versioned record (`OperationDesk`, `PrivacyRights`) and of
   an agenda (`ProviderSchedule`), with the refinements proved.
2. The uploads of messages, documents and tickets as instances of `PrivateUpload`.

## 6. Not modelled

- Metrics, health probes, HTTP headers, the migrations runner (alone, before the API starts)
  and the backup drill: no state that another part relies on while it runs.
- Reads that only show: overviews, dashboards, reports, lists. How the page
  shows them is in `PageReads`; what the queries compute is data.
- Layout and form state of the page; edits lost to a reload are listed below.
- The uploads of messages, verification documents and ticket files: they
  take the steps of `PrivateUpload` in the same order and are not repeated.
- The limit of five open support cases of a partner (`partner-support.service.ts:323-330`), a count
  without a lock like those of `AdDelivery` and `Referrals`, and the deadlines of cases.
- Row-level policies, except where they add a check that concurrency can
  affect (the insert policies of attachments and of cancellations).
- Hashes, signatures and tokens are taken as injective and unforgeable. One
  exception met while reading is listed below: the checksum of a privacy
  export covers no dates.
- Notifications, audit rows and histories that are inserted beside a write
  and read by nobody in the model.

## 7. Known behaviour without a property

Met while modelling, and promised otherwise by no property: either no document says
what should happen, or it is a matter of data or presentation. The models have those
that are steps.

- `private-storage-reconciliation.mjs:115`: an upload that commits between the listing and the
  references is counted as a missing reference although its object exists.
- `marketplace.service.ts:741`: the job limit is checked at the proposal and not at the
  acceptance, so accepted proposals can exceed it. `:730`: the slot is computed with
  minutes that an update of the proposal may change before the acceptance locks it.
- `finance.service.ts:170`: a second delivery of an event that waited for the first is
  answered as a conflict, and only a later one as a duplicate.
- `0031_web_push_subscriptions.sql:127`: a process that dies on the last attempt leaves a
  delivery that is never claimed again; `PendingEnds` counts it as used up.
- `operations.service.ts:2210`: a repeated delivery of a report whose answer was lost meets the
  check of the version before its key, and gets 409 instead of the recorded answer of
  `docs/security/idempotency.md:38`; it delivers nothing twice (`OneDeliveryPerLook`).
- `demo-experience.tsx:4591`: a conversation that is empty when opened has no cursor and is not
  synchronised; `:4709`: a message sent may be shown twice; `:3885`: a key kept after a lost
  answer serves a later wish of the same content; `:2138`: a dialog with one key meets the
  conflict when its content is edited after a lost answer; `:1640`: the badge skips a read, and it
  and the notification center fail silently; `:3849`: a reload overwrites edits.
- Panels that may go back to an older state, or stay there (`CrossingPanels`): `:2482` and `:3882`
  show the answer of `uploadDocument` and `saveWeekly` and leave a GET in flight, begun by
  "Atualizar", `onChanged` or `onSaved` (`:2495`) or by `createBlock` and `cancelBlock` (`:3918`, `:3944`),
  whose older answer may come last; the `load()` of a booking (`:4197`, `:4225`, `:4254`) is not
  aborted and the three busy flags are separate, so two of them overlap, as do those of the
  proposals (`:4309`); the slots of a proposal are read without an abort (`:4341`); a review of a
  verification sent again under its key (`:3650`) is answered with what it was; and the onboarding
  form (`:6095`) can be cancelled and submitted again before its first answer.
- `:2541`, `:3348`: an answer that comes after its dialog was closed still notifies and calls
  `onSaved` and `onClose`.
- `_proxy.ts:110`, `privacy/route.ts:5`, `demo-experience.tsx:6805`: a customer's tab whose cookie became the
  provider's in another tab can post a privacy request, complete an onboarding or read categories and
  regions, and it runs as the provider. Routes of one role refuse such a call.
- `verifications.service.ts:271`: a document of an approved verification can be replaced;
  `:166`: `changes_requested` has no transition out.
- `privacy.service.ts:240`: `canonicalJson` (`idempotency.ts:24`) makes `{}` of every Date, so the
  checksum of an export does not cover dates.
- `0042_provider_schedule.sql:120`: the trigger of a booking reads the week without a lock.
- `onboarding.service.ts:78`: two first completions both store version 1 and record 'completed';
  `:200`: what was checked may be deactivated before the COMMIT.
- `auth/session/route.ts:83`: a sign-out whose revocation fails leaves the session until it
  expires; `_session.ts:31`: a call authorised before a sign-out runs after it.
