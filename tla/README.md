# ScanFlow API: TLA+ models, model checking and proofs

ScanFlow is a multi-tenant barcode-scanning back end: an API (one or more
replicas, `src/index.ts`), one worker process (`src/worker.ts`), MongoDB and
Redis. Mongo is used without transactions, and Redis only through single
commands and two Lua scripts, so every guarantee that spans two documents, or a
document and a cache entry, rests on the order of awaited calls. The models here
take that order apart: **one step is one awaited Mongo, Redis or HTTP call**, and
any other request, the worker, or a failure may come between two steps.

Paths below are relative to the repository.

## 1. Inventory

| Component | State | Operations | Talks to |
|---|---|---|---|
| Scan submission (`services/user/scans.service.ts`) | `tbl_scan`, unique on (organization, `client_scan_id`) | `createScan`, `batchCreateScans` (a loop over it) | quota cache, webhook delivery |
| Quota cache (`services/quota.service.ts`) | Redis hash `org:<id>:activeSub` (limit, expiresAt, used); `tbl_usage` as its durable mirror | reserve and release (Lua), refill from Mongo, reconcile (30 s), flush, quota alerts | subscription lifecycle writes and deletes the hash |
| Subscription lifecycle (`services/subscription.service.ts`) | `tbl_subscription`: status, `queue_priority`, dates; one active and a queue per organization | grant, cancel, cancel from queue, renew (continue, promote, recreate), force, reorder, adjust limits, expire and promote (every minute), normalise at boot | quota cache, notifications, e-mail |
| Webhook delivery (`queues/webhook.worker.ts`, `services/user/webhooks.service.ts`) | `tbl_webhookDelivery`, `tbl_webhookConfig`, Redis lock per organization, BullMQ queue | create and enqueue, flush (claim, post, record), sweep every second | customers' endpoints |
| Payment and checkout (`services/payment.service.ts`, `services/public-checkout.service.ts`) | `tbl_payment`, guest leads | checkout, gateway success and failure notifications | creates organizations, grants subscriptions |
| Support desk (`services/support.service.ts`) | tickets, messages, events, read marks | create, message, note, update, close, auto-close; lists, thread, read marks, counters, panel of files | notifications, e-mail, attachments |
| Attachment storage (`services/support-storage.service.ts`, `services/support-attachment-types.ts`) | temp directory, disk | accept or refuse a file, save a request's files, remove one | support desk |
| Notifications (`services/notification.service.ts`, `queues/notification.*`, `queues/support.queue.ts`) | notifications, unique sparse (user, `dedupe_key`); BullMQ jobs | dispatch by the request and again by the queue, create or refresh, read, read all, expire | everything above |
| Dashboard cache (`services/admin/dashboard.cache.ts`) | Redis entries and locks per widget | get-or-compute, background refresh, invalidate | every mutation invalidates it |
| Dashboards and reports (`services/admin/dashboard.service.ts`, `services/user/org-dashboard.service.ts`, `utils/dashboard-time.ts`) | none | counts, lists, alerts and charts over days of a time zone | reads all of the above |
| Reminders (`cron/subscription/`, `services/subscription-notification.service.ts`) | `reminders_sent`, `app_reminders_sent` of a subscription | mail sweep (30 min), in-app notices | e-mail, notifications |
| Operators, organizations, profile (`services/user/operators.service.ts`, `services/admin/organizations.service.ts`, `services/user/profile.service.ts`) | users, organizations, operator ids and their counter | create, update, roles, PINs, status, delete; id migration | dashboard cache, subscription lifecycle |
| Plans and prices (`services/admin/plans.service.ts`, `utils/plan-features.util.ts`) | plans | create, update, status, delete, two price migrations | checkout, lifecycle |
| Countries (`services/country-resolver.service.ts`, `scripts/migrate-country-aliases.ts`) | country rows with aliases | resolve, seed, rename what is stored | organizations |
| Worker (`worker.ts`, `cron/`) | in-process running flags | boot: normalise, expire, reconcile, remind; then timers at 1 s, 30 s, 60 s, 30 min, 1 h | all of the above |
| Authentication (`services/auth.service.ts`, `token.service.ts`) | users, token rows | login, PIN login, refresh, logout | - |
| Invoices, e-mail, leads and contact forms, web settings, HTTP shell | single rows, or none | rendering, I/O, forms | - |

### What is hard, and what makes each part correct

* **Quota.** The counter a scan is charged against is a cache entry that can
  vanish, be rebuilt from two collections while it is charged, be mirrored by
  the worker, and be dropped at expiry. Correct: the limit is never overshot, no
  unit is lost or invented, a caller's answer agrees with the database.
* **Subscriptions.** Nine operations read, decide and write in separate calls, on
  rows nothing locks. Correct: one active subscription, ended rows stay ended,
  nothing expires early, the queue is packed 1..n, the active subscription has
  one Usage row and its hash.
* **Webhooks.** Sweeps start every second without waiting for the last one; the
  lock is shorter than the call it protects, is deleted by whoever finishes, and
  fails open. Correct: no row in two hands, bounded retries, no settled row
  reopened, no row lost, each one settled in the end.
* **Checkout.** Gateways repeat notifications; the grant and the payment row are
  separate writes. Correct: one subscription per payment, no paid order failed.
* **Support.** Status transitions are checked on a ticket read earlier; a thread is
  paged by times that are stamped before the insert. Correct: a closed ticket stays
  closed, a retried message is stored once, a ticket with a new customer reply is not
  closed as stale, who polls a thread misses nothing, no file is lost or left behind.
* **Notifications.** The lookup and the unique index disagree about read rows.
  Correct: an event is visible unread after it happened, once per key.
* **Dashboard cache.** A stampede lock with expiry, and invalidation by scan and
  delete while a computation runs. Correct: one computation at a time, and what is
  shown is current in the end.
* **Two places that decide the same.** Prices are stored and computed, limits are in a
  hash, a usage row and a plan, names are in an organization and its administrator's
  account, the panel and the server both judge a file, three charts draw the same
  scans. Correct: they agree, also after an edit of one of them.

`PROJECT.json` lists every hazard with its line, and the properties that cover it.

## 2. Plan

| Order | Modules | Status |
|---|---|---|
| 1 | `QuotaPermits`, `ScanQuota`: abstract pool of permits, and the hot path that implements it | done, proved |
| 2 | `WebhookDelivery` | done, safety proved |
| 3 | `SubscriptionLifecycle` | done, safety proved |
| 4 | `OrderBook`, `CheckoutProvisioning`: gateway notifications, lead, organization, grant | done, safety and refinement proved |
| 5 | `TicketBook`, `SupportTicket`: ticket status, messages, files, auto-close | done, safety and refinement proved |
| 6 | `SupportNews`: dispatch of support events, create-or-refresh under the unique index, queue retries | done, safety proved |
| 7 | `DashboardCache`: lock, background refresh, invalidation | done, one refresh at a time proved |
| 8 | `QuotaPeriods`, `QuotaAlerts`: quota cache and lifecycle over two periods, and the alert | done, proved |
| 9 | `ExpiryMails`, `ExpiryNotices`, `SupportThread`, `AttachmentStorage`, `AttachmentFiles` | done, proved |
| 9 | `Operators`, `Organizations` | done, proved |
| 9 | `PlanCatalog` | done, proved |
| 10 | `Dashboards`, `DashboardDays`, `SupportViews`, `AttachmentRules`, `Countries`, `Questions`, `Totals`: operators over data, without steps | done, proved |

Abstract specifications: the pool of permits (`QuotaPermits`), an order book that
settles each order once (`OrderBook`), a ticket whose requests are atomic
(`TicketBook`). Runs: one per question; the bounds are two or three actors, the smallest
number of rows that lets two of them differ, and one limit that can be reached.
Components that share no state are explored one at a time by the same run.
Left of the plan: nothing with steps; section 5 ends with what is only checked.

## 3. The models

### ScanQuota and QuotaPermits

One organization, one subscription period. `hash` is the Redis hash (its limit and
date are the period's constants), `usage` the Usage row, `scans` the collection
under its unique index, `pc[r]` where each `createScan` call stands, `seen[r]` what a
refilling call has read, `mirror` and `expiry` where the worker's two passes are. A Redis
read that fails is a missing hash to those passes, and a delete that fails is only logged
(`ReconcileRead`, `ExpiryRead`, `ExpiryDrop`).

| Actions | Code |
|---|---|
| `ReserveUnit`, `ReserveDenied`, `ReserveMiss`, `ReserveMissAgain`, `ReserveDown` | `RESERVE_SCRIPT`'s four answers and `createScan`'s reaction, quota.service.ts:117-176, scans.service.ts:49-68 |
| `ReadSub`, `ReadUsage`, `CountScans`, `WriteHash` | `populateActiveSubCache`, one action per await |
| `Lookup`, `Insert`, `StoreFails`, `Release`, `ReleaseLost`, `Enqueue` | scans.service.ts:70-110, `RELEASE_SCRIPT` |
| `ReconcileFind/Read/Write`, `ExpiryRead/Flush/Drop/Save` | the worker's passes over this subscription |
| `Crash`, `WorkerCrash`, `LoseHash`, `Lapse` | process death, eviction or TTL, the clock |

History variables record what a property must condition on: `overlapped` (a refill
began while another request was charging or refilling), `cold` (the hash was missing
at some time), `leaked` (a request ended holding a unit and no scan).

`scan_quota` checks the properties with three requests, two client ids and a
limit of two: enough for a duplicate, a loser of the unique index and a request
too many at once. `scan_quota_overshoot` drops the condition and finds two scans
stored under a limit of one; the repository's tests state the claim without it.
`ImplementsPermits` is the refinement: until refills overlap, every step is a step or
a stutter of the pool of permits in `QuotaPermits`.

Left out: the organization check, `REDIS_URL` unset, the read-back of the winner
after a lost insert, the fields of a scan.

### WebhookDelivery

One organization's rows, its lock and the flushes of the worker process. `held[f]`
and `copy[f]` are the in-memory rows of a flush: `retry_count` is what it read when it
claimed, which is what `markBatchFailed` decides by. Time is three events: a row's
debounce or backoff has passed (`Ripen`), the 1500 ms lock has passed
(`LockExpires`), a POST fails (`PostFails`, the abort timer included). `Throw` is a Mongo
error outside the `try`, `Crash` the death of the process with all its flushes.

`webhook_delivery` takes two rows, two flushes, batches of two and two attempts: a
full and a partial batch, a first and a last attempt, two flushes on the same rows.
`exposed` remembers that a flush ran without the lock's protection (Redis failed, or
the lock expired under a running flush); `OneFlushPerRow`, `RetriesWithinLimit` and
`SettledIsFinal` hold without it, `SettledForAReason` and `ProcessingIsHeld` always.
`webhook_double_send` shows that the claim on the status is not enough by itself, as
the comment on the lock says it is: `claimPendingBatch` re-reads by status, not by owner.

`eventually` (scene `hooks`: one row, two flushes) checks that a pending row settles
unless a flush dropped it as 'processing'. Fairness: an awaited call ends (weak, per
flush), the sweep starts every second (weak, `Acquire`), clocks advance (weak, `Ripen`,
`LockExpires`), and Mongo does not throw on the same query for ever (strong on
`Find` and `Mark`). Nothing is assumed about crashes, Redis failures, failing posts or
config edits. The lock is fair because nobody else uses the key.

Left out: the signature and body, edits of batch size and retry limit, the job's own
retries (a lost job changes nothing: the sweep flushes any pending row).

### SubscriptionLifecycle

The subscriptions of one organization, numbered by creation. An operation is the
sequence of its awaited calls; `op`, `pc` and `reg` are its name, its next step and what it has
read. The nine operations share steps as the code shares functions:

| Operation | Code | Steps |
|---|---|---|
| grant | `grantSubscription` | ReadActive, ReadQueue, Insert, (MakeUsage, WriteCache) |
| cancel | `cancelActiveSubscription` | FindActive, Retire, DropCache, promotion, NormRead, NormWrite |
| cancelQueued | `cancelQueuedSubscription` | FindQueued, Dequeue, NormRead, NormWrite |
| continue | `renewSubscription` | FindActive, Extend, WriteCache, ReadQueue, (Shift, Insert), NormRead, NormWrite |
| promote | `renewSubscription` | FindActive, FindHead, then cancel |
| recreate | `renewSubscription` | FindActive, Retire, DropCache, then grant, NormRead, NormWrite |
| force | `forceActivateSubscription` | FindActive, PurgeUsage, Retire, DropCache, Insert, MakeUsage, WriteCache, NormRead, NormWrite |
| reorder | `reorderSubscriptionQueue` | Arrange, Rearrange, NormRead, NormWrite, RedateRead, Redate |
| expire | `activateEligibleSubscriptions` | ListOverdue, (ExpireDrop, ExpireSave), DueFutures, CheckActive, promotion |

promotion is Earliest, Activate, MakeUsage, WriteCache, NormRead, NormWrite. Only
expire excludes itself (`cron-runner.ts`). Dates are ticks of one billing cycle.

`stale` remembers that a caller wrote although another caller had changed a
subscription since it last read. The unconditional claim is false, and
`subscription_two_actives` shows it in five states. The properties say what
remains true of every interleaving, crash and lost Redis write without such a write:
the sequences of calls themselves are right, and an optimistic version check at the
writes would be enough. `OneActive`, `ExpiredWasOver` and `EndedStaysEnded` also
hold after a crash anywhere; `QueuePacked` and `ActiveIsBacked` are about moments when every
operation has run to its end.

Bounds (`subscription_lifecycle`): two callers, three subscriptions (an active one
and a queue of two, or one more ended), clock 0..2, no renewal beyond date 3, one
fault in a behaviour. States after a stale write are not explored further: `stale`
never becomes false and every property is conditional on it. The view leaves out the hash
and the Usage rows after a fault and the dates of cancelled rows: no step
reads them, and no property does in those states.

Left out: plans, prices, trials, an admin's own start date, the Payment row of a
manual grant, e-mails and notifications, the counter and `adjustScanLimits` (`ScanQuota`,
`QuotaPeriods`).

Seen while modelling, not claimed anywhere in the repository: recreate with a
queue puts the new subscription at the end of it and leaves the organization without
an active one until the every-minute job finds a queue entry that is due.

### CheckoutProvisioning and OrderBook

Leads, gateway orders, payments, organizations with their administrator, and grants.
`Checkout(o)` is the customer's side; a handler `h` is one webhook request, which walks
through `processGatewaySuccess` and, on an error, its catch block.

| Actions | Code |
|---|---|
| `CreateLead`, `OpenOrder`, `CreatePayment`, `Capture` (external) | `createCheckout`, public-checkout.service.ts:115-220 |
| `Notify`, with `Verified` | the controllers' signature checks, public-checkout.controller.ts:33-133, razorpay.service.ts:54-86 |
| `FindPayment`, `FindLead`, `FindOrganization`, `GrantSubscription`, `SavePayment`, `SaveLead` | `processGatewaySuccess`, payment.service.ts:28-137 |
| `IsEmailTaken`, `FindTaken`, `CreateOrganization`, `CreateUser` | `createOrganization` as it is called there |
| `FailLead`, `FailPayment` | the catch block, payment.service.ts:138-158 |
| `Strike` (`Throw` or `Die`) | any await throws, or the process dies |

`checkout` takes two orders of one customer, two handlers and one fault. `SuccessIsBacked`
holds always: a paid order names an organization that was granted a subscription for this
order. `ContentionOnly` says where doubled organizations and organizations without an
administrator come from, `ImplementsOrderBook` that an order whose notifications were
handled one after the other is settled exactly once. `CapturedIsSettled` is liveness under
weak fairness of a handler's steps and strong fairness of the gateway's notifications of an
unsettled order, which gateways promise; the one exception is a death between the two
writes of the catch block, after which the failed lead turns every notification away.
`checkout_razorpay` shows that no Razorpay notification is ever accepted: the same header
is compared with the signatures of two different texts.

### SupportTicket and TicketBook

Tickets, their messages and files, the requests on them and the auto-close job.
A request reads the ticket, decides on what it read (`snap`) and writes later.

| Actions | Code (support.service.ts) |
|---|---|
| `CountActive`, `Submit`, `InsertTicket`, `InsertFirstMessage`, `FailFirstMessage` | `createTicket`, 732-863 |
| `BeginReply`, `InsertReply`, `FailReply`, `ApplyReply`, `WriteEvent` | `addMessage`, 1306-1456 |
| `AddNote`, `BeginClose`/`WriteClose`, `BeginUpdate`/`WriteUpdate` | `addNote`, `closeTicket`, `updateTicket` |
| `RemoveFile`, `Tombstone` | `removeAttachment`, 1246-1287 |
| `Age`, `FindStale`, `CloseStale`, `TellStale` | `runAutoCloseJob`, 1868-1882 |
| `Die`, `WorkerDies` | a process dies between two writes |

`support_desk` takes two tickets, two requests, two client ids and one file, at most three messages
on a ticket, four requests and one fault: a retry meets its first attempt, a reply meets a
close, the job meets a reply, the cap of one is reached. `disturbed` are the tickets two
writers overlapped on or one left half done; on all others `ImplementsTicketBook`,
`PreviewIsNewest` and `TrailTellsStatus` say that requests behave as if they were atomic.
`OneReplyPerClientId`, `FilesAccounted` and `ClosedReopensOnlyByStaleUpdate` hold for every ticket.

### SupportThread, SupportViews, AttachmentRules, AttachmentStorage, AttachmentFiles

`SupportThread` is a panel that reads a thread while it is written: `Stamp`, `Insert`, `Publish`
are the three moments of a message (its time, its row, the ticket's preview), `Ask` a page
of `listMessages`, `MarkShown` and `Mark` the two forms of `markTicketAsRead`. A message whose
time is before that of one already shown (`late`), or equal to it, can be missed: the
properties say that nothing else can, what is counted as unread, and when a read receipt is
true. `AttachmentStorage` has two requests of two files that share both caps, and any two
failed calls; `UploadsAccounted` allows files on the disk without a message only after a
failure (`torn`), and temp files of requests that were refused before `saveAttachments`.
`AttachmentFiles` is the panel of a ticket's files with two removals at a time:
what it lists can be opened, each file is on one page, and a removed one has its event.
`AttachmentRules` (which files are taken, and what the panel is told) and `SupportViews`
(lists, counters, whose turn, the account snapshot) are operators over samples.

### SupportNews

The events of one ticket, each dispatched by the request itself and again by the worker's
job. A writer `w` is one dispatch: `LookUp` the recipients, then per user `FindUnread` and
`Refresh` or `Create`, with `WriteFails` for an error, `ApiDies` and `WorkerDies` for a death.
`Added` is BullMQ's: a job id that is kept is not added again, `TakeApp`, `AppFails` and the
hand-over of a dead worker's job repeat up to the limit. `NewsInView`, a part of
`InViewAndComputedOnce`: whoever a dispatch is done
with finds an unread row of the event's key, unless he has read one since (or one has expired),
his write failed or the process died before it, or he had read a row of the same key before. The last
exception is a real loss, the finding of `news_blocked`: the unique index counts read rows, the look-up does not.
`EveryEventHandled` is liveness: requests and workers go on (weak fairness), jobs have a
bounded number of attempts (here two).

### DashboardCache

One widget with its entry and lock, two requests in the foreground or background, one
change with its invalidation (`Change`, `Invalidate`, `InvalidateFails`). `Age` and
`LockExpires` are the clock. `CacheConverges`: whatever overtakes the invalidation, the entry
is current in the end (weak fairness of the requests' steps and of `Age`, Redis' expiry); and
while the lock is with its holder (`~lost`), one request computes. `lost` also covers
`refreshInBackground` deleting a lock it did not get.

### QuotaPeriods and QuotaAlerts

`QuotaPeriods` composes the counter with the lifecycle: two subscriptions, the second queued
or granted later; `Charge` and `Refill` are the steps of `ScanQuota` taken whole,
`PassFind/Read/Write` the reconcile pass, `End(kind, s)` with `FlushRead`, `FlushWrite`,
`Purge`, `Retire`, `Drop` the ways a subscription ends (expire, cancel, force, recreate),
`Promote`, `PromoteDue`, `Grant`, `MakeUsage`, `ResetHash` the ways one begins,
`Adjust...` the five writes of `adjustScanLimits`. `PeriodsAddUp`: what a subscription used that has
expired or was cancelled or recreated is on record scan by scan, but for the interleavings its comment
lists as blurring the count; a subscription replaced by force has no row any more, so what it used is lost
although it was flushed (subscription.service.ts:916-917, against quota.service.ts:251); and a row
never counts more than was granted. `QuotaAlerts` runs two checks at a time against a counter and a
limit that move: a level on record was told, and the notification stands at it or at a higher one,
but after two runs that overlapped (`crowded`) and told the lower level last (`lowered`).
quota.service.ts:302 calls that safe because of a condition with `$or`; neither write has one.

### ExpiryMails, ExpiryNotices

The mail sweep goes through windows and due subscriptions, mails, then records;
`MailFails`, `MarkFails`, `FindFails`, `WorkerDies` are the failures. `MailedOnce` counts mails per
window, `SweepRemindsAll` is about a whole run: if nothing failed and the day did not
change, everyone due was reminded. Notices claim the window first and then write the row, by several
workers; `ShownOnce`.

### Operators, Organizations, PlanCatalog

`Operators`: two calls at a time over four users in two organizations whose names change,
with the counter of ids, both unique indexes, and the id migration. `CredentialsFitRole`,
`IdIsForLife`, `NumbersAreFresh`. `Organizations`: an update saves the organization and
then the administrator's copy; `Mirrored` says when the two are the same, which they are not after
the administrator's own edits (`EditProfile`: the profile, and `updateOperatorById`). `PlanCatalog`:
two editors and the migrations of currency and cycle over old rows; a save writes the fields
that differ from the row it read (Mongoose), a migration its own. `PricesFollow` relates the stored quarterly price to what it follows from, `SoldPlansHavePrice`, `NamesAreUnique`.

### Dashboards, DashboardDays, Countries

No steps: operators over one state of the database, a zone and a range, or a table. Their
properties relate two computations: counts that add up, the admin's and the
organization's numbers for the same rows, lists against counters, days that
partition a range, charts of the same scans, names before and after the migration. The two queries of a team are
cut as in the code: some `TeamLimit` active operators are read (500, in no order), and the `TopLimit`
(10) with the most scans are listed; here the limits are 3 and 2, of up to four operators. The limit of a
row without a usage row is that of the scan feature, or for the super admin of the first feature
(`RowLimit`). The counter in Redis may be ahead of the usage row, until it is copied, or behind
it, when a unit that was copied is given back (quota.service.ts:180-188), so `PagesAgree` compares page
and dashboard while the two are the same. Instants
are hours, and a zone changes its offset once, by an hour, at any hour of a day. `Totals` is
what `$sum` and the sums over results do: a total is the number of the things counted, not a
fold, which is what makes it provable that counting by day and adding up is counting.

`Questions` puts the questions to these modules and to `SupportViews` and `AttachmentRules`:
`DaysAgree`, `ReportsAgree`, `DeskAgrees`, `NamesAgree` are what must hold of one zone and range,
one database, one desk and one table. Its constants are the sets of what is asked about;
`QuestionAssumption` says what may be in them (section 5), `MCQuestions` has the samples for TLC.
`dayBuckets` is a finite function here, cut off after more turns than a range has days.

### Eventually and BackOffice

Components that share no state are explored one at a time, by `Eventually` (those with work that
must be done in the end) and `BackOffice` (the others); `MCEventually` and `MCBackOffice` are
their instances for TLC. The initial state picks a
`scene`; in a scene one component takes its own steps and the variables of the others stay at
one initial value, so the state space is the sum of the components', and a property of another scene
is about a state that does not change. Each component keeps its own module, bounds
and, in `Eventually`, its fairness. The scene `questions` of `BackOffice` asks one question
of a module without steps: every element of the sample sets of `MCQuestions` is one state.
A property there is the conjunction of what the components state about one concern, and
its mutants break different components.

## 4. Runs

| Run | Module, cfg | Result |
|---|---|---|
| `scan_quota` | MCScanQuota | five properties hold, about 2.2 million states |
| `scan_quota_overshoot` | MCScanQuota, MCScanQuotaOvershoot.cfg | `NeverOvershoots` violated |
| `webhook_delivery` | MCWebhookDelivery | six properties hold, about 4.8 million states |
| `webhook_double_send` | MCWebhookDelivery, MCWebhookDoubleSend.cfg | `NoDoubleSend` violated |
| `subscription_lifecycle` | MCSubscriptionLifecycle | six properties hold, about 3.0 million states |
| `subscription_two_actives` | MCSubscriptionLifecycle, MCSubscriptionTwoActives.cfg | `SingleActive` violated |
| `checkout` | MCCheckoutProvisioning | five properties hold, about 350 thousand states |
| `checkout_razorpay` | MCCheckoutProvisioning, MCCheckoutRazorpay.cfg | `RazorpayIsSettled` violated |
| `support_desk` | MCSupportTicket | eight properties hold, about 890 thousand states |
| `eventually` | MCEventually | one invariant and three liveness properties hold, about 120 thousand states in three scenes |
| `news_blocked` | MCEventually, MCNewsBlocked.cfg | `ReadRowDoesNotBlock` violated |
| `back_office` | MCBackOffice | six properties hold, about 440 thousand states in eleven scenes |

Deadlock is checked where the system never stops (webhooks); the requests of the other
models are finite in number (`MaxServed`, `MaxRequests`, `MaxSubs` and the like), so they
stop when they are used up. Requests, flushes and callers are symmetric where no liveness is checked.
Every constant named `Max...` is a bound and says so where it is declared; they are as large
as the interesting case needs: a first and a last attempt, a retry and its original, one fault anywhere
(two for uploads, so that a clean-up fails as well), one unit over a limit.
Definitions marked "(Mutant)" stand beside the definition they break: each
property is shown to fail with one of them in place.

## 5. Proofs

`ScanQuotaProofs` proves five theorems for every finite set of requests and client ids and
every limit, from `QuotaAssumption` (the sets are finite, the limit a natural number, the
marker is no request):

* `TypeCorrect`: `TypeOK` is inductive as it stands.
* `AnswersCorrect`: `StoreInv` adds that the owner of a stored scan has come past its
  insert and carries that client id, and that each finished answer agrees with the store.
* `QuotaCorrect`: the claim is not inductive, since a refill may later lower the counter.
  `QuotaInv` adds: without overlap a refilling request excludes every
  charging one (`RefillInv`), what it is about to write covers every unit
  (`SeedInv`), a live counter covers every unit (`CoverInv`), and units never pass
  the limit (`BoundInv`). The proof has one step per action; moves that touch no
  unit, moves that add one and moves that drop one are separate lemmas.
* `CountCorrect`: `CountInv` adds that leaked requests have ended and that a warm counter is
  the sum of the units and the leaks.
* `Refinement`: every step under `QuotaInv` is a step or stutter of `QuotaPermits`, or overlaps.

`WebhookDeliveryProofs` proves the six safety properties for every finite set of rows and
of flushes, every batch size and every positive `retry_limit` (`WebhookAssumption`):

* `FlushesDisjoint` needs that while the lock protects at most one flush is under way
  and the key exists (`Exclusion`), and that an idle flush holds nothing (`Hands`).
* `LimitRespected` and `SettledStays` need what that one flush relies on
  (`Protected`): its rows stay 'processing' with the retry count it read, and a
  pending row has an attempt left.
* `ReasonsCorrect` and `KeepersCorrect` hold without the lock. They rest on `Hands` (the
  count a flush read is never above the row's, a batch about to be marked delivered
  was answered with 2xx) and on `Keepers`: the flush that answers for a 'processing'
  row is between claim and unlock. That is stronger than holding the row, which a
  flush that threw still does until it unlocks.

`SubscriptionLifecycleProofs` proves types and three safety properties for any number of
callers, subscriptions and cycles (`LifecycleAssumption`). Types need `ShapeInv`: the loops
over a list never start on an empty one. The safety properties share one invariant.
`Knows(p)` lists what caller `p` may rely on at each stage if nobody changed a
subscription since it read: about to activate or insert, there is no active
subscription; about to retire or renew, the one it read is still the only one;
about to expire, the period it picked is over. `OthersKnow` shows that a step takes
no caller's knowledge away without making its read old, `CallerKnows` goes through the 27
steps, and `StepEnds` draws the consequences for ended rows. `OneActiveCorrect`,
`ExpiryCorrect` and `EndedCorrect` follow. The bounds of the model are
constants here, so the proofs hold for every value of them, but the bound of one fault in
a behaviour is part of the actions.

The rest of the module goes on from that invariant to the two properties of the moments when
every operation has ended. In between neither holds, and each invariant says who has yet to
supply what is missing:

* `ActiveBackedCorrect`: an active subscription has its Usage row, or none and exactly one
  caller about to make it, or a caller about to retire it (`Counted`); what was never activated
  has no row and nobody about to make one (`UnstartedInv`); the hash is right or somebody is on
  the way to write it (`Described`).
* `QueuePackedCorrect`: the queue is packed or some caller owes it a renumbering (`Owes`). It
  needs that a caller with a current read holds a list of exactly the queue when it numbers it
  and the place behind the queue when it inserts (`KnowsQueue`), which operations may stand at
  which stage (`OpInv`), and that what is not queued has no position (`Unplaced`).

`CheckoutProvisioningProofs` proves the safety properties and the refinement for every finite
set of orders, handlers and addresses and any number of faults (`CheckoutAssumption`):

* `TypeCorrect` needs that the tables are finite (`Types`), for their rows to be numbered.
* `SuccessCorrect`: a handler past the grant remembers an organization it granted its order
  to (`Backed`), and only its save makes the order paid.
* `ContentionCorrect`: `Alone(e)` says what holds of an address nobody contended for: one
  handler resolves it, finds no organization and no user when it is about to create them, and
  every organization has its admin unless that handler is about to create it.
* `OrderBookCorrect`: `Undisturbed(o)` says that an order has one handler at most and how
  that handler finds lead, payment and grants at each stage (`Stands`). With it each step is
  a grant, a payment, a failure or a stutter of `OrderBook`; any step of a disturbed order
  is one the book allows (`BookRow`).

`SupportTicketProofs` proves the seven safety properties and the refinement for every finite
set of tickets, requests and files, any client ids, any cap and any number of faults
(`SupportAssumption`; the marker is none of these, and a ticket can hold a message):

* `TypeCorrect`: `Types` adds to `TypeOK` what a request carries at each stage, and `Births`
  that a ticket whose creator is not done with it has no messages and is in nobody else's
  hands. All other proofs start from both.
* `RepliesOnce` is inductive with them: each step appends one message at most (`LogMoves`).
* `ReopeningCorrect` needs `Readings`: an update writes a status the workflow allows from the
  one it read, so one that read a closed ticket changes its assignee at most.
* `TrailCorrect` and `PreviewCorrect` are about moments between requests. `Told` and
  `Previewed` say what holds in between: an event that is still to be written names the
  status, and the messages newer than the preview are those of replies still to be applied.
* `CapCorrect`: a creation that counted and was not overtaken still finds room (`Room`).
* `FilesCorrect`: a file belongs to one request or to one message (`Owned`), is in the
  store while a request has it, and out of it while its message is being emptied.
* `TicketBookCorrect`: `Orderly` adds that nobody spoke after the previewed message, and no
  customer since the ticket was resolved. With it each write is one of the book's
  (`BookWrite`), and any write of a disturbed ticket is one the book allows (`BookDisturb`).

`BackOfficeProofs` (quotas, threads, reminders, days, reports) and `BackOfficeRecordsProofs` (accounts, plans,
types, questions) prove all six properties of `BackOffice`, and `EventuallyProofs` the invariant of `Eventually`. One component runs in a scene (`SceneSteps`), so each property is proved from the
invariants of the components it is about, one lemma per action. They hold for any number of
subscriptions, workers, runs, users, messages, files and requests, any windows, thresholds and
page size, and any bound of the models. Assumed is that the sets a maximum or a count is taken
of are finite, that amounts and times are naturals, that somebody of either side of a ticket is not
of the other, that no file is uploaded by two requests, that the accounts of the start have the
credentials of their roles and numbers within their organization's count, that an
administrator has a name, that statuses and addresses at the start and in bodies are
those there are and a roster is within the bound on ids, that prices are naturals, and that an old plan that is sold by the quarter
has a price for it (the `ASSUME`s of the two modules).

* `QuotaCorrect`: for the periods, `PeriodInv` says that one subscription is active and the
  ending knows whether there is one (`OneStands`), that the live hash counts every charge of its
  period, which is the active one unless a new period is about to reset it (`HashCounts`), that a
  row of a period that is over, or about to be, was copied and no pass is to write over it
  (`RowsKeep`), that a period has a row from its beginning and none after force has deleted it
  (`RowsMade`), and that hash, row and
  charges stay within a limit the period had (`LimitsHold`). The counts are about what is not
  `blurred`: the races named at `PeriodsAddUp`. For the alerts, a level is written to the row after it
  was told (`LevelsTold`), a run that is alone raises the notification first (`AloneRaises`), and until
  a lower level was told after a higher one the notification follows the row (`RowFollows`).
* `ThreadsCorrect`: ids are given once, also to messages that are stamped and not stored
  (`IdsApart`), and a mark of somebody who marks what is shown is the time of a shown message or an
  earlier one (`MarksSeen`). `PanelMissesNothing` is inductive with these: what the first
  messages after a cursor leave out is behind them (`FirstComeFirst`). The files of an upload are where
  its stage says (`FilesInPlace`), and a removed file is gone, kept by an error, or in a removal's
  hands (`RemovalsTell`). That every file is on one page is arithmetic on the number of
  messages before it (`OnePage`, `PagesApart`).
* `RemindersCorrect`: `Loop` says that the list of a run has each subscription once and
  without a record of the window; `Counted`, that mails beyond the first are lost records;
  `Underway`, that a run without faults has reminded everyone of the windows behind it, and of
  its own window all but those on its list. Ends only move to later days, so whoever was due
  for a window when the run began, and is at its end, was due all the while. In the app, a claim is held by one run (`ClaimsApart`).
* `AccountsCorrect`: `OneHolder` says that an account is in the hands of one call, and what that
  one has read is what the row still has, unless it is `raced`; `Fitting`, that a call about to
  write leaves a person whose credentials fit his role, and `AllFitting`, that the rows do.
  `NumbersApart` has the argument for ids: numbers of an organization, in rows and on the way
  to one, differ and are within its counter, so the next one is new whatever prefix it is
  given. For an organization and its administrator, requests with a field in common know of each
  other (`Crossing`); a field that only one has is in the row what that request read, or what it is
  about to copy (`Alone`); a field others have had is set apart, or about to be (`Unsettled`).
  So a copy that comes late copies what is there.
* `RulesCorrect`, plans: a row on which no two writers met is still the row that whoever is about to
  write it has read, in the fields he writes (`Copies`), so what he computed from it follows from
  what will be stored (`PricesHold`). Rescaling price and quarterly price rounds each to a cent, which
  is the two cents of `PricesFollow`.
* `RulesCorrect`, questions: a question is one there is (`QuestionInv`), so the rest is arithmetic
  and finite sets, for every value of the constants rather than for the samples:
  * Days (`DaysMatch`): what the clocks show never goes back by more than an hour (`ClockRuns`), so
    later is not on an earlier day, and a midnight that is shown is the first instant of its day
    (`MidnightFound`); where none is shown, no hour of an earlier day
    is after the one the code finds (`ToUtcIsLate`). The cursor of `dayBuckets` is at the midnight of the first day plus its number of turns:
    the first turn at which it would not be is a contradiction, by the least natural of a set that is not empty
    (`LeastExists`), the only induction this prover can do. Months are found the same way.
  * Charts and reports: `CountFibers` (the things of a finite set are as many as those of each
    key, added up) and facts on unions and bounds of `Total` give each sum.
    Two organizations, two tickets and a file are cases of their fields. That there are the most active
    of a finite team (`LargestAre`) goes by the least size of a list that would not do.
  * Countries: keys of distinct rows of a table that is unambiguous stay apart when one of them is
    seeded, so a name finds the row whose key it has (`ResolveOwn`).
  Assumed is (`QuestionAssumption`) that a zone changes by at most an hour, a preset has a day at least, a
  range does not end before it starts, months are consecutive, of a day at least, and reach back before
  every instant asked about; that the scans of a week are among those of the month; and that counts,
  sizes and limits are naturals. Nothing is assumed of the two counters, or of the usage row's limit: what
  needs it to grant the plan's says so (`GrantsPlan`; `adjustScanLimits` only raises it). A zone that skips a midnight,
  or is ahead of UTC and shows one twice, is excluded for the ranges that meet it
  (`HasMidnights`). What the code does there is `ShiftsReachDays`: a day added is the next day
  but for one case, in which it stays (below), and that is proved of every zone.
* `TypeCorrect`: the invariants above with what `TypeOK` says besides. A row of usage holds no
  more than all that was charged, whatever reads, resets and passes carry between hash and rows
  (`ScansCounted`; `scans` is there for it). A level is a threshold (`LevelsGiven`). A message in
  flight is not from later than now, nor is a mark (`TimesKept`). Documents in the hands of a call
  have addresses and statuses there are, and so have bodies (`AccountDetails`, `StatusKept`).
* `NewsCorrect`: of a writer's audience everyone was told, is on its list, met a failed
  write, or has a read row of the key, which shut him out (`TellsAll`); a death takes those it left
  out from the audience. The row that is to be refreshed may be read first, and then its user has seen
  the event. A row that expires was read.
* `CacheCorrect`: while no lock was lost, whoever computes holds it (`OneInside`). With
  `NewsCorrect` it is the run's invariant, `InViewAndComputedOnce` (`SceneInvariantCorrect`).

What is only checked: liveness (`EventuallySettled`, `EveryEventHandled`, `CacheConverges`,
`CapturedIsSettled`), which this prover cannot do. Every invariant and every action property of the
passing runs, and the three refinements, are theorems. The conversions the models leave out
(section 6) are neither checked nor proved.

## 6. Not modelled

* Authentication and tokens: each request looks one user up and writes once or twice; its hazard
  is listed and has no property.
* Invoices, e-mail templates and SMTP, validation, routing, rate limits, logging: rendering and
  I/O without a protocol state of their own.
* FAQ, leads of the contact form and web settings: forms over single rows. The status of
  a lead during a checkout is in `CheckoutProvisioning`.
* Of the worker, the heartbeat and the purge of old rows; of a manual grant, the payment row;
  of attachments, download tokens, previews and the room on the disk; the one-off scripts
  that backfill previews and operator counters.
* No composition of all components: each run has the ones that share state. Operations of
  several components on one organization meet only where a row, a hash or an index is
  shared, and there the models have both sides.

### Seen while modelling

Besides the findings of the violation runs, the code and its comments differ here. The models
follow the code; where a property would fail, its comment names the exception.

* Support: a reply read before a ticket was resolved and applied after it lets the auto-close
  close a ticket with a newer customer message, which the comment at
  support.service.ts:1865 rules out. `createTicket` never stores its `client_message_id`.
  `sumAttachmentBytes` aggregates with string ids, so the caps never count. A thread polled by
  `created_at` misses messages inserted behind a shown one. Two removals of one file write two
  events, and a failed unlink is not retried. Temp files of requests refused early stay, and so do
  the files moved before a later one of the same request failed.
* Notifications: in-app recipients are filtered by status, mail recipients are not, although
  notification.queue.ts:48 says that one mirrors the other. `checkSubscriptionReminders`,
  `notifySubscriptionExpired` and `checkQuotaAlerts` have no caller in `src/`.
* Reminders: a renewal extends the end without resetting the record of reminders.
* Quota: recreate retires the subscription before it flushes, so the flush finds none, and force
  deletes the row it has flushed to (subscription.service.ts:917), although the comment at
  quota.service.ts:251 has the counter "never lost" by either; two overlapping alert runs can leave
  the lower level (quota.service.ts:302 says they are safe); an adjustment that is overtaken by a promotion writes the next
  period's hash; an adjusted limit is lost when the hash is rebuilt from the plan's features;
  raising the limit never lowers the alert's level.
* Dashboards: counts of the summary and of plans include deleted organizations
  (dashboard.service.ts:56 says everywhere excluded); the organization's page never takes the
  live counter and shows the limit before adjustments; a plan without a scan feature has no limit for the
  organization and that of its first feature for the super admin (dashboard.service.ts:33); the three charts of scans use
  three different days. `shiftDaysUtc` is "DST-safe" by its comment (dashboard-time.ts:106), but
  west of UTC, where the clocks skip a midnight (America/Santiago, each September), `zonedTimeToUtc`
  finds 23:00 of the day before: a day added stays on the day, and the loop of `dayBuckets`
  takes the same step for ever (`ShiftsReachDays`). The default zone changes no clocks. Ahead of UTC a midnight
  that is skipped is taken an hour late, and of one that is shown twice the second is taken.
* Cache: a background refresh that did not get the lock deletes it (dashboard.cache.ts:123),
  although one caller is to refresh (12-14).
* Accounts: the role endpoint can make an operator without id; an administrator's own
  edit of the profile is not copied to the organization, and an update that fails half way is not undone;
  a status toggled from an old read revives what was deleted.
* Plans: editing only the cycle discards a quarterly price that was given; edits that cross a
  migration leave a price that does not follow.
* Countries: `seedAliases` saves only if the number of aliases changes.
* Files: spreadsheets with printer settings are refused as macro-enabled, texts that begin
  with MZ as programs.
