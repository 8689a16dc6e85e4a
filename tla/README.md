# Formal verification of the job, money, scheduling and engagement paths

TLA+ models of the parts of this repository whose correctness depends on the
order in which workers, requests, webhooks and transactions interleave, the TLC
configurations that check them on small instances, and TLAPS proofs of the main
safety properties for every value of the constants.

Run inside this directory:

    tlc -workers 2 -config JobQueue_leases.cfg MCJobQueue    # one model-checking run
    tlapm Jobs_proofs.tla                                    # one proof module

`PROJECT.json` lists the components, runs, mutants (one seeded bug per checked
property), the map from definitions to source lines, hazards and theorems. Paths
below are relative to the repository root; `finance/` stands for
`packages/finance/src/`.

Contents: 1 system, 2 modules, 3 correspondence with the code, 4 runs, 5 bounds,
6 fairness, 7 proofs, 8 observed while reading, 9 what is not modelled, 10 plan.

---------------------------------------------------------------------------

## 1. The system

A property-services platform: a Next.js application (`apps/web`), a worker
process (`apps/worker`), PostgreSQL with row-level security (`packages/db`), and
packages for finance, integrations, notifications and the pure domain. All
durable state is in PostgreSQL; the processes keep only what is in flight.
Transactions run at READ COMMITTED, so everything that must not race takes row
locks (`FOR UPDATE`), relies on a unique or exclusion constraint, or compares a
status in its WHERE clause.

### Inventory

| Component | State | Operations | Hard behaviour | Modelled |
|---|---|---|---|---|
| Durable job queue: `packages/db/src/jobs.ts`, `apps/worker/src/{runner,scheduler,main}.ts` | `jobs` rows; executions in flight per worker | enqueue, claim, complete, fail, reap, admin retry, start, stop, crash | leases without fencing, late workers, exhausted attempts, shutdown while a claim is awaited | `JobQueue` |
| Transactional outbox: `packages/db/src/jobs.ts`, `apps/worker/src/outbox.ts` | `outbox_events` rows, relay transactions | append, claim a batch, route in savepoints, commit, requeue | ids that commit out of order, partial failure inside a batch, concurrent relays | `Outbox`, `EventDelivery` |
| Payment attempts, verification, settlement: `finance/{payment-attempts,settlement}.ts` | attempts, invoice, allocations, journals | create, open at provider, verify, settle, reverse | four callers settle the same attempt on stale reads and stale answers | `Payments` |
| Charge webhooks: `finance/provider-events.ts`, `packages/integrations/src/payments` | stored events | receive, plan, verify | lost, repeated and late events | `Payments` |
| Invoice settlement: `finance/{bank-transfers,credit-notes,invoices}.ts` | invoice, receipts, credit notes | submit, confirm, reject, credit, void, mark overdue | several kinds of money meet on one balance | `Payments` |
| Payment reconciliation: `finance/reconciliation*.ts` | exceptions | verify what is overdue | it is the only repair when a webhook is lost | `Payments` |
| Refunds: `finance/refunds.ts` | refunds, their journals, provider reference | request, approve, reject, submit, apply events, poll | three reporters of one outcome, lost answers, events without ids | `Refunds` |
| API idempotency keys: `apps/web/src/lib/api/idempotency.ts` | `idempotency_keys` rows | claim, replay, complete, release, expire, purge | stale locks, late completions and releases by key only | `IdempotencyKeys` |
| Appointments and holds: `apps/web/src/server/appointments` | appointments, `slot_reservations` under an exclusion constraint | hold, purge, time off, book, reschedule, cancel, confirm, remind | clocks read before a lock is waited for, a scan that writes what it read earlier | `Booking` |
| Calendar sync: `apps/worker/src/handlers/calendar.ts` | appointment, `event_syncs` row, provider events | sync, delete, retry, push | appointment read before, written after the network call; two jobs and the organiser at one event | `CalendarSync` |
| Notifications: `packages/notifications/src/{dispatch,send}.ts` | delivery attempts | dispatch, defer, send, record | send outside the transaction, queued rows that are being sent | no, sections 8 and 10 |
| Offline field sync: `apps/web/src/lib/partner/offline`, `components/partner/visits` | a draft on a device, in a page and in a running synchronisation; files, evidence and visit on the server | capture, autosave, upload, link, submit, clear, discard; staff cancel or reject the visit | calls that fail or lose their answers, tabs that close, three writers of one draft | `OfflineSync` |
| Quotes and engagements: `finance/engagements` | quotes, versions, acceptances, invoice, service request | draft, issue, accept, reject, expire, cancel, settle, credit, void | row locks taken in different orders, an expiry job that reads without locks | `Quotes` |
| Chargebacks: `finance/chargebacks.ts` | chargebacks, journals | open, submit evidence, resolve | resolution before the opening | no, section 10 |
| Document numbers: `finance/numbering.ts` | the largest number in use | next number | boundary at 9999 | no, section 8 |
| The rest (rentals, tenders, procurement, projects, files, search, markets, authorization, adapters, UI, contracts) | see `PROJECT.json` | | | no, section 9 |

For components that are not modelled, `PROJECT.json` names the files that carry most
of their code, not every file.

### What makes each modelled component correct

* **Job queue.** A job is executed by one worker at a time while its lock is a
  lease. It is `succeeded` only after its handler committed, goes to `dead` only
  when it deserves it, is tried a bounded number of times, and is never lost.
* **Outbox.** "A job exists if and only if the change committed": nothing runs
  for a change that was rolled back, and every committed event reaches all of
  its handlers or waits visibly for an operator.
* **Payments.** An attempt is settled only for money the provider really took,
  in full and in the right environment, exactly once. The invoice, the
  allocations, the journal and the held deposits agree whatever overlaps. Money
  that was taken is settled or shown to finance.
* **Refunds.** No more is refunded than was paid; the liability account agrees
  with the records; a refund is settled only when the provider processed one;
  what is concluded stays concluded; what is approved is concluded.
* **Idempotency keys.** One request at a time is inside the handler, the work of a
  key is done once, and every answer of the key is that of the same work and body,
  up to crashes and requests slower than the stale limit.
* **Booking.** Nobody is booked twice; a hold is kept until it expires; an active
  appointment has one reservation, of its own time; reminders name the present time.
* **Calendar.** One event for an appointment, at its time; when they disagree,
  staff are shown it; nothing stays pending without a job.
* **Offline sync.** What was stored on the device is there until the server has
  it; nothing is recorded twice; the draft leaves the device in the end.
* **Quotes.** One open offer for a request, one agreement under an engagement, after
  a cancellation that voids no open invoice on which nothing was paid or credited, and
  offers that lapsed do not stay open.

### How the components interact

    request ──tx──> business rows + jobs row ──────────────┐
       │                                                   v
       └──tx──> business rows + outbox row ─relay─> jobs ──claim──> handler ──tx──> business rows
                                                                      │
    provider webhook ──tx──> stored event + jobs row                  └──call──> payment provider
    scheduler ──> reap stale locks, relay, payments.reconcile_pending,
                  appointments.scan_reminders, bookings.expire_holds, engagements.expire_quotes,
                  invoices.mark_overdue
    API request ──> idempotency key ──> handler of the endpoint
    appointment ──tx──> job calendar.sync ──> organiser's calendar ──push──> conflict shown
    partner's device ──> uploads, evidence links, visit ──> file scan job
    staff ──> the visit cancelled or rejected beside it
    quote accepted ──tx──> invoice ──payment settled──> engagement in progress

Handlers call the provider between transactions, never inside one. That gap,
between reading a row, asking the network and writing the row, is where most
hazards of sections 3 and 8 are.

## 2. Modules

| Module | Models | Extends / instances |
|---|---|---|
| `JobContract` | abstract: what the queue promises the code that enqueues | |
| `JobQueue` | the `jobs` table, runners, reaper, shutdown, admin retry | `JobContract` by refinement |
| `Outbox` | outbox rows and relay transactions | |
| `EventDelivery` | the outbox composed with the queue's contract, up to handlers' effects | `Outbox`, `JobContract` |
| `Payments` | attempts, verification, settlement, webhooks, reconciliation, transfers, credit notes, voids, due dates on one invoice | |
| `Refunds` | refunds of one settled attempt | |
| `IdempotencyKeys` | one key: its row and the requests that carry it | |
| `Booking` | appointments, reservations, time off, reminder scans | |
| `CalendarSync` | one appointment, its event, its jobs, the push of edits | |
| `OfflineSync` | one visit draft, its page, its synchronisations, the server's side | |
| `Quotes` | the quotes, acceptances and invoice of one request, row locks and deadlocks | |
| `Sums` | sums of amounts, for the books of payments and refunds | |
| `MC*` | constants and symmetry for TLC | the module after `MC` |
| `Jobs_proofs` | theorems and proofs | `JobQueue`, `EventDelivery` |
| other `*_proofs` | theorems and proofs | the module before `_proofs` |

`EventDelivery` uses the contract instead of `JobQueue`. `Jobs_proofs` proves
that the queue implements the contract while no handler outlives the reaper's
cutoff, so the composition stands for the relay over the real queue at a fraction
of the states.

Definitions named `X_Something` beside a definition `X` (for example
`LockIsStale_NoCutoff`) are seeded bugs. No specification uses them; `PROJECT.json`
names the property each one must break when it replaces `X`.

## 3. Correspondence with the code

Every definition that models code is mapped to its lines in `PROJECT.json`. This
section explains the reading: what a step is, and what was abstracted.

A step is one database transaction, one network call, or one stretch of a
process between two `await`s. A transaction that locks every row it decides on is
atomic. A read without a lock whose result is used after an `await` is a step of
its own, and the model keeps what was read (`tick`, `verifier[v].read`,
`submitter[s].report`, `poller`). Receipts, audit rows and outbox rows written
beside a state change commit with it and no modelled decision reads them back, so
they are not variables. Who is permitted to do what is left out: the models take
the steps of every permitted actor.

### JobQueue

* `status`, `attempts`, `lockedBy`, `lastError` are the columns of `jobs`.
  `locked_at` is abstracted to `claims[j]`: an execution remembers which claim it
  runs under, and a lock is stale when no execution of the current claim is left,
  or, with `SlowHandlers`, at any time. Back-off delays are abstracted: a
  pending job may be claimed at any later moment.
* `ReadCapacity` and `ClaimJobs` are the two halves of `JobRunner.tick` around
  its `await`. `Stop` may fall between them, as in the code: the claimed jobs are
  executed although `stop()` already took its list of executions to await.
* `HandlerCommits`, `HandlerThrows`, `CompleteJob`, `FailJob` are the steps of
  `execute`. `completeJob` and `failJob` update by id only, so a late worker acts
  on a row that may be somebody else's; `FailJob` decides on the attempts of the
  claimed copy.
* `Crash` is any death of the process, including an unhandled rejection when
  `failJob` itself fails. A handler with no registration is the fatal outcome of
  `HandlerThrows`.

### Outbox and EventDelivery

* `row` is the life of an outbox row: appended in a business transaction that is
  still open, committed (`live`), rolled back (`lost`), `published`. Ids are taken
  at the insert, so rows become visible in another order than their ids.
* A relay's transaction is `batch`, `routed` and `failed`: what it has locked and
  still has to route, what it will publish, what failed in its savepoint. Jobs,
  published marks and failure counts become visible together in `CommitRelay`;
  `AbortRelay` undoes all of it.
* `SKIP LOCKED` is `e \notin Locked` in `Claimable`.
* In `EventDelivery` the jobs a relay commits are submitted to `JobContract` in
  the same step, as they are in the same transaction.

### Payments

* A verification (`verifier`) runs through assigned, loaded, answered, and ends.
  It reads the attempt unlocked (`LoadAttempt`), asks the provider
  (`AskProvider`), and applies the answer under locks (`Apply`). The decision is
  taken on what was read; the transition is judged on what is locked then.
  Callers are customers, webhook workers and the reconciliation job, with their
  different treatment of success and failure in `Succeed` and `Throw`.
* `CreateAttempt`, `InitializeAtProvider`, `RecordOpened`/`RecordRefused` are the
  two transactions and the call of `createPaymentAttempt`; `AbortOpening` is a
  death, or a failure of the last transaction, between them.
* The version columns are not modelled: every update that compares a version does
  so under the row's lock, where the comparison cannot fail.
* `MarkOverdue` is the worker's `invoices.mark_overdue`
  (`apps/worker/src/handlers/maintenance.ts:25-40`): an UPDATE outside the protocol of
  the other writers, that reads nothing first, counts no version, waits for the row's
  lock and then tests the status again. The due date may have passed at any time.
  `overdue` hides whether something was paid, so attempts, allocations, credits and
  voids are modelled for that status too; a part payment takes it away and the next run
  sets it again. Other writers of invoices (estates, schedules,
  leases) only create and label new ones.
* The engagement is only followed from `awaiting_payment` to `in_progress`, the step
  payments cause.
* A stored event is processed under the environment it was stored with
  (`provider-events.ts:103,202,219`), so the plan's own check of the environment never
  refuses one and is left out. What the provider answers may name another environment;
  that check is in `Apply`.
* `environment_mismatch` and `provider_event_flagged` are merged with
  `verification_mismatch`, and the per-day deduplication of exceptions is
  abstracted to a set. Reading an event and flagging it are one step.
* Rejecting a rejected transfer changes nothing, and is a stutter. `SubmitTransfer`
  reads the invoice unlocked, as in the code.
* The provider is external: `charge` and `ReportsOf` are the answers the code
  distinguishes. An unpaid checkout may be answered as pending or abandoned.

### Refunds

* A submission (`submitter`) is the first transaction, the call, the transaction
  that records the answer and, for an answer beyond `pending`, the transaction
  that applies it. The processing of a webhook (`eventWorker`) is plan, find and
  apply: the refund is looked up twice, and may be another the second time.
  The poll reads a row, asks, and applies, row by row.
* Two submitters of one refund stand for a submission whose lease was lost while
  it was still running.
* The submission and event jobs are retried without a limit in this module; the
  limit of 10 attempts is the queue's matter (`DeadForAReason`).
* `EventsNamed` says whether refund webhooks carry the provider's refund id. It
  is FALSE where the question depends on it, because the events in
  `packages/integrations/src/payments/fixtures/refund-{processed,failed,pending}.json`
  carry none. Amounts are always carried.
* The attempt stays `successful`, staff exceptions are not recorded, and the
  separation of requester and approver is not modelled.

### IdempotencyKeys

* `row` is the row of one requester, endpoint and key: absent, locked or completed,
  with its hash, its response and, as a history, whose claim set `locked_at`. Time
  is two facts, `fresh` (the lock is younger than `LOCK_STALE_MS`) and `expired`.
* `claimKey` is two steps, `Insert` with ON CONFLICT DO NOTHING and, after a
  conflict, `Examine` with the row locked. The handler runs between transactions.
* `CompleteKey` and `ReleaseKey` go by key only, as in the code, so a request that
  was overtaken writes to a row that is another's. `Crash` is the death of the
  process and also a `completeKey` that fails: both leave the lock behind.
* A request takes less than the day a key lives: `Expire` happens with none in
  progress.

### Booking

* Requests are single transactions that lock the rows they decide on, but the clock
  is read before the lock is waited for: `RequestTimes` are the times a request may
  believe in. The exclusion constraint is `Free`.
* The reminder scan reads without locks (`ScanReads`) and writes later
  (`ScanWrites`), so changes come between. `ScanDies` loses its transaction.
* Availability windows, buffers, free/busy and the notice period only narrow the
  choice of a slot, and are left out.

### CalendarSync

* A job is read, call, persist (`Take`, `Call`, `Persist`), with `EtagRefused` and
  `ReadAgain` for an answer 412, and `LoadForDeletion` and `MarkCancelled` for
  deletions. Events are keyed by the conference request id their id derives from.
* The organiser moves or deletes the event; the push job lists (`ListChanges`),
  compares (`Compare`) and writes (`WriteConflict`) in separate steps.
* `overtaken`, `edited` and `crossed` are histories: a change under a running job
  or an unrecorded event, an edit of the organiser, a push beside either.
* A lease outlives its job here, and a job does not run out of attempts. Conference
  polling, watch channels, sync tokens and credentials are left out.

### OfflineSync

* The draft exists three times: `device`, `page.draft` and `syncs[s].copy`. Each is
  written where the code writes it; nothing merges them.
* A server call and the note of its answer on the device are one action;
  `Interrupt` is the call that fails, the answer that is lost, and `Reload` the tab
  that closes between two steps.
* `beside` counts what is done while a synchronisation runs. The code has no answer
  for it, so most properties are stated for `beside = 0`; `ClearedWhenConfirmed` is
  stated for every case.
* `syncState` is abstracted to `Confirmed`, findings to a version number, a photo to
  its place in the list. A scheduled visit's draft carries its id from the start, and so
  does that of a visit a partner starts unscheduled: it is created on the server first
  (`visits-list.tsx:414-436`). Only staff inspectors open a draft without a visit
  (`visits-list.tsx:277`), so the reason that `site-visits.ts:813` wants from partners is
  never missing and is left out.
* `CancelVisit` is `cancelSiteVisit` and `rejectUnscheduledSiteVisit`. The first tests an
  unlocked read for an open visit and writes by id, so it may overwrite a submission made
  in between; the second takes submitted visits. Both leave findings and evidence, so the
  model keeps two values for the one status of the code: `cancelled`, before a
  submission was recorded, and `withdrawn`, after it. The unlocked read has no effect of
  its own and is merged into the write.
* A link of a file whose scanner failed (`scan_failed`) is refused for good
  (`evidence.ts:107-115`). `Scan` counts that with the rejected files: that a later scan
  may find the file clean comes too late for the photo.

### Quotes

* `quote` holds the status, the current version and whether that version's validity
  passed. `session` is an open transaction with the rows it has locked: quote, then
  request, for issue, answer and rejection (an issue then takes the quotes it
  supersedes); request, then invoice, for a cancellation; invoice, then request, for
  a payment. `BreakDeadlock` is PostgreSQL's abort of one transaction of a circle.
* `invoice` tells what the code branches on: `issued` (nothing paid or credited, due or
  overdue), `reduced` (something was, in part), `paid`, `void`. `voidUnpaidInvoicesForRequest`
  selects the first with FOR UPDATE and re-tests a row it waited for, so a payment or a
  credit that came first keeps the invoice. A payment that completes an invoice, or meets
  a paid one, goes on to the request (`StartSettling`, `Settle`); a part payment, a credit
  note and the voiding of one invoice lock the invoice only, and are one step each
  (`SettlePart`, `CreditInvoice`, `VoidInvoice`).
* The engagement state `accepted` never rests: the acceptance moves on to
  `awaiting_payment` or `in_progress` in its own transaction.
* The customer's own transition reads without a lock, but its update compares the
  version it read, so it is one step.
* `expireQuotes` reads (`ReadLapsed`) and updates by id (`ExpireRead`). `overtaken`
  records that it overwrote a quote that had changed since; `released` that staff
  cancelled and asked to void what is unpaid.

## 4. Runs

The state counts are those of the listed configurations.

| Run | States | Question | Answer |
|---|---|---|---|
| `jobqueue_leases` | 473 045 | Does a job ever have two executions, with two workers, crashes and shutdowns, and does the queue implement `JobContract`? | never, and yes, while no handler outlives the cutoff |
| `jobqueue_slow` | 235 430 | What remains when handlers outlive the cutoff, and does every job settle? | earned success and settling remain; exclusiveness does not |
| `event_delivery` | 38 325 | Does each committed event have exactly its jobs, and do they all settle, with two relays, failing savepoints and commits out of order? | yes, unless the event waits for an operator at the routing maximum |
| `payments_books` | 2 259 986 | Do invoice, allocations, journal and deposits agree when two attempts, a transfer, a credit note, a void and the due date meet? | yes |
| `payments_found` | 69 955 | Do a webhook worker and the reconciliation job settle an attempt only for real money, and is money that was taken settled or shown to finance, webhook or not? | yes, with the webhook always; without it as long as the attempt is open |
| `refunds_books` | 863 756 | Do amounts, liability and settlement of two refunds tie under submission, webhooks and poll? | yes |
| `refunds_concluded` | 340 159 | Do conclusions stay, and is every approved refund concluded? | yes |
| `idempotency_keys` | 48 503 | How often is the work of a key done, and what is replayed to whom, with a crash, an overtaken request, expiry and purge? | once, and once more at most for each of the two; replays are faithful unless a request was overtaken |
| `booking` | 484 159 | Who has a slot, and what is reminded, when clocks are late and scans are slow? | one owner always; reminders are right unless the appointment changed inside a scan |
| `calendar_sync` | 717 507 | Does the calendar follow the appointment, and do staff see when it does not? | yes, unless a change overtakes a running job |
| `offline_sync` | 1 279 964 | Is anything lost, recorded twice or cleared too early, also when staff withdraw the visit, and does the draft leave the device? | no, and yes, as long as nothing is done beside a running synchronisation |
| `quotes` | 388 816 | What is the customer offered and bound to, and what is left of her invoice after a cancellation? | one offer, one agreement, no open invoice but one that had been paid or credited in part; the quote's own status may be overwritten by the expiry job |

### What the properties say

* `LeaseExclusive`: two executions of one job never overlap, over all workers and
  restarts. `SuccessNeedsWork` survives late workers, since each worker completes
  only what it committed itself.
* `ContractSpec`: the queue refines `JobContract`; running and pending are both
  "open", and lost or repeated claims are invisible.
* `JobsIffPublished`: no job exists for an event that was rolled back, whose
  savepoint failed, or whose relay transaction was lost, and all of them exist for
  a published one.
* `SettlementEarned`: allocated if and only if settled, and only for a charge that
  succeeded in full. `ClosedStays`: late answers never reopen or repost, unless
  the opening of the attempt is still unfinished (observation 5).
* `InvoiceConsistent`: an invoice is never paid beyond its total and is `paid` exactly
  when nothing is owed; `issued`, `partially_paid` and `void` say whether money came,
  `overdue` does not. `NothingSwallowed`, `LedgerTies`: an overpayment is held in full,
  and the accounts tie to the records, unless an overpayment was reversed (observation 2).
* `MoneyAccounted`, `OpenMoneyFound`: with its webhook, money taken is settled or
  flagged; without it, the reconciliation job finds it while the attempt is open.
  An attempt closed as abandoned whose customer pays later, and whose webhook is
  lost, is found by nothing (`payment-attempts.ts:396`).
* `NeverOverRefunded`, `LiabilityTies`, `SettledOnlyIfProcessed`, `ConcludedStays`,
  `ApprovedConcludes`: the refund properties of section 1.
* `SingleFlight`, `ReplayFaithful`, `OneAnswer` hold while no request outlives the
  stale limit. `ExecutedOnce` holds always: late releases and completions by key let
  in no more executions than there were deaths and overtaken requests.
* `ReservationMatches`, `NoDoubleBooking`, `HeldIsKept` hold whatever clock a request
  read. `RemindersMatch` excludes changes between the read and the write of a scan.
* `OneEvent` and `PendingHasJob` hold always. `CalendarAgrees` and `DriftIsShown`
  exclude what the histories record; `EventuallySettled` says a 412 does not spin.
* `OneEvidence`, `NoRepeatedUpload`, `NothingLost`, `EventuallyCleared` are about a
  device whose owner lets each synchronisation end, and every failure besides;
  `ClearedWhenConfirmed` holds whoever writes to the draft. It says that the server had
  recorded the submission and the photos, not that the visit still is submitted: staff may
  withdraw it before the draft is cleared, and the device is not told.
* `OneOffer`, `OneAgreement`, `CancellationHolds` hold in every interleaving,
  deadlocks and the expiry job included; only the status of an accepted quote is
  excluded when the job overwrote it. `CancellationHolds` does not say that nothing is
  owed: an invoice that was paid or credited in part stays collectable (observation 20),
  and its rest may be paid later without starting the work again. `OffersExpire` says
  that neither a held lock nor a deadlock keeps a lapsed offer open.

Every invariant and action property that a run checks is also proved for every value
of the constants (section 7), and so is what a variable may contain (`TypeOK`), which
the runs do not repeat. Some theorems are about properties no run needs any more:
`CapacityRespected` and `DeadIsDeserved` of `JobQueue`, `RelaysDisjoint` of `Outbox`,
`SettlesAnInvoice` of `Quotes`.

Limits of single properties, besides the exclusions they state: `EventDelivered` is
checked with a batch that holds every event, so events that fail again and again at the
head of a batch are not what it shows; `ExecutedOnce` does not count a handler that
commits and then throws or answers with an error; `OneEvent` has one organiser and one
calendar, which do not change between retries.

## 5. Bounds

Each bound is a constant and is named in its module. The instances are the
smallest in which the hazard of the run can happen.

* JobQueue: two workers and two jobs, so that one worker can take over a job of
  the other while a second job keeps it busy; two attempts, so that the last one
  differs from the first; two faults, so that a shutdown or crash can follow
  another; one administrator retry. The slow run gives one worker two slots: a
  released job is claimed again by the same runner while its first execution is
  late, which is the same race as with two workers.
* Outbox: two events, one with two targets (partial failure) and one that commits
  first with the larger id; two relays; a batch of two; two routing attempts.
* Payments: one attempt verified by a webhook job and the reconciliation job, with
  every outcome of the charge and two faults; two attempts, a transfer that may
  overpay, an installment and a credit note for the books. The total of 3 is the least
  in which a part payment, a rest and an overpayment differ. Ages stand for "younger
  than ten minutes", "older" and "older than a day". Customers who verify at the same
  time are covered by the theorems, which bound no number of verifiers.
* Refunds: two refunds of amounts 1 or 2 of a payment of 3, so that two may or may
  not fit; two provider refunds. The statuses `processing` and `needs_attention` are
  left out of the instances, as the code maps both to `pending`; the proofs cover
  every status.
* IdempotencyKeys: five requests, since a release by an overtaken request lets in a
  third, whose successor replays; two bodies; one fault and one overtaken request,
  so that each of the bound's summands is reached.
* Booking: two appointments and three reservations, the least for a reschedule that
  swaps one beside another appointment; two overlapping slots of one person and one
  of another; two scans; two lead times, since the tighter one marks the wider.
* CalendarSync: two workers, two times, three request ids, and two disturbances in
  all (`MaxDisturbances` bounds reschedules, retries, edits, refused calls, lost
  answers and crashes together), so that any two of them combine.
* OfflineSync: two photos, of which one may be refused while the other is linked;
  one fault, one thing done beside a synchronisation and the withdrawal of a submitted
  visit, of which any two meet (`MaxTroubles`); three files, one more than photos.
  One synchronisation at a time; several are covered by the theorems.
* Quotes: two quotes and two transactions, the least for every deadlock here; two
  versions, the first with payment in advance; one expiry job.
* `CHECK_DEADLOCK FALSE` is set where the system may rest: everything bounded was
  used up, all jobs are done, all refunds are concluded. The job-queue runs and
  `booking` check deadlock.

## 6. Fairness

* JobQueue: weak fairness of timers (tick, reaper), of starting a process that is
  down (`restart: unless-stopped`, `deploy/docker-compose.prod.yml:99`), of finishing a
  shutdown, and of an execution going on, since no handler hangs for ever: the
  adapters' calls have time-outs. No fairness of enqueueing, of the
  administrator, or of faults.
* EventDelivery: business transactions end, relays poll and route, and jobs run.
  The last is what `EveryJobSettles` says of the queue.
* Payments: calls and transactions end, time passes, the webhook endpoint takes
  what was sent, and the reconciliation job ticks and works through its list. The
  planning of an event is strongly fair: the queue comes back to a job whose
  worker was busy or died, which `EveryJobSettles` shows. Nothing is assumed of
  the customer.
* Refunds: submissions go on, the poll goes on, and the provider eventually
  processes or fails what it accepted. Nothing is assumed of webhooks, so each of
  them may be lost.
* CalendarSync: each worker keeps taking jobs and finishes what it took (weak
  fairness per worker). Nothing is assumed of the organiser, the staff or the push.
* OfflineSync: a synchronisation that began goes on while its tab lives, a list of
  photos being added is set, files are scanned, and the inspector presses Sync again
  while the draft is there. Without the last nothing leaves a device.
* Quotes: strong fairness of each transaction's steps and of the update of the expiry
  job, since PostgreSQL grants row locks in the order they were asked for and breaks
  circles; weak fairness of the job's read, which the scheduler runs every 15 minutes
  (`apps/worker/src/scheduler.ts:23`). Nothing is assumed of customers and staff.

## 7. Proofs

The theorems hold for every value of the constants that satisfies the named
assumption of the module (`QueueAssumption`, `OutboxAssumption`,
`PaymentsAssumption`, `RefundsAssumption`, `KeysAssumption`, `BookingAssumption`,
`CalendarAssumption`, `OfflineAssumption`, `QuotesAssumption`): any number of jobs,
workers, events, attempts, refunds, requests, appointments, photos, quotes and amounts,
any bound on faults.
The assumptions say that identifiers of different kinds differ, that amounts and
limits are natural numbers, and, where something is counted, that the identifiers
are finitely many; TLC evaluates them in every run.

Each argument is an inductive invariant, needed because the property alone does
not survive every step:

* **`Jobs_proofs`, the queue**: `Inv` adds `LockHeld` (an execution holds the current
  claim of a running row, while no handler outlives the cutoff) and
  `CommittedWorked` (a handler that returned has committed) to the types and the
  two properties. `OneExecutionPerJob` and `SuccessIsEarned` follow, the second
  with slow handlers as well. `QueueImplementsContract` is the refinement: each
  action is a step of `JobContract` on the open/done/buried state or a stutter.
  `LockHeld` is what makes an update by id harmless there. `CapacityIsRespected`
  rests on `Fits` (what runs on a worker, and what its tick has still room for, are
  together no more than its concurrency), with the cardinality lemmas `SizeOfUnion`
  and `SizeOfReplacement`; `DeadForAReason` on `OwnAttempts` (an execution counts
  the attempts its row counts).
* **`Jobs_proofs`, the outbox**: `OutboxInv` adds that what a relay holds is committed
  and unpublished (`HeldLive`), and held only inside a transaction (`HeldInside`).
  `OutboxTypes`, `JobIffCommitted` and `RelaysNeverShare` follow. Over the queue's
  contract (`EventDelivery`), `InStep` says that the queue knows exactly the jobs that
  relays committed and that only those have effects: `JobIffCommittedInDelivery` and
  `EffectsNeedPublication` follow, and since the queue implements
  the contract (`QueueImplementsContract`) they speak of the real queue.
* **`Payments_proofs`**: `IInv` is `TypeOK`, `Opened` (no checkout can be paid
  before the attempt came back from the provider), `Believed` (an answer that is
  being applied was true once, and a charge that succeeded can only have been
  reversed since), `Untouched` (on an invoice that is not paid off and shows no payment no
  attempt was ever settled) and the
  three safety properties. `Believed` is the core: it bounds what a stale answer
  may claim, so re-matching under the lock is enough. Lemmas treat the books
  (`ReceiveBooks`, `CreditBooks`, `VoidBooks`, `OverdueBooks`) apart from the verifications.
  `SettledOnlyIfCharged`, `InvoiceAlwaysConsistent`, `NoKoboSwallowed` and the
  action property `ClosedForGood` follow, besides `TypesHold`. `LedgerAlwaysTies` adds
  `Tied`: what is paid, the deposits and the receivable are sums over the journals, at
  every step, a reversal of a part that was held included (it returns the whole
  amount); each of the operations that post changes one summand of each sum.
* **`Refunds_proofs`**: `IInv` is `TypeOK`, `Owned` (a reference is a provider
  refund of the same record), `ApprovedOnce` (whatever left `requested` has its
  approval journal, so a failed refund cannot be approved again), `Believed`
  (events, submissions and polls in progress say what was true and still is) and
  `SettledOnlyIfProcessed`. What was said of the provider stays true under
  `Stable` (statuses stay created, amounts of created refunds stay, processed
  stays processed), so each action only shows that it is stable and what it adds.
  `TypeCorrect`, `SettlementIsProcessed` and `ConcludedForGood` follow. `NeverTooMuch`
  and `BooksTie` are about sums: a step moves one refund into or out of what counts, is
  owed or is paid out, and a request compares the sum of what counts before it adds to
  it. That a refund enters the liability once is `ApprovedOnce` again.
* **`IdempotencyKeys_proofs`**: `Lease` (while none was overtaken, the request in
  progress holds the fresh lock with its own hash) makes updates by key harmless and
  gives `OneInside` and `ReplaysAreFaithful`. `Budget` counts executions and the
  requests that may still become one against faults, overtaken requests and the one
  the key allows; a row that refuses a claim is worth one more. It gives
  `ExecutionsAreBounded` in every case. `ExpiredIdle` and `NotYet` close the key's
  life; `GivenIsStored` gives `OneAnswerPerKey`.
* **`Booking_proofs`**: `RowsDisjoint` and `ReservationMatches` are inductive together
  and give `TablesAgree` and `NobodyIsDoubleBooked`; `HoldsAreKept` needs only that a
  request's clock is not ahead. `SeenOnce`, `ScansFit` and `MarksFit` (what a scan
  will write still fits the appointment, what is marked was sent) give
  `RemindersAreRight`. The least lead time exists by well-foundedness.
* **`CalendarSync_proofs`**: `OneId` (the only request id an event derives from is the
  booking's, because a worker that knows of no event keeps it) gives `NoSecondEvent`;
  `Undisturbed` (while no change overtakes a job every worker works for the
  appointment as it is, and what is recorded is right or still has a job) gives
  `CalendarFollows`; `PendingIsSettled` is inductive with the types. `Watched` is the
  same for the push, while none is crossed: what it holds is the event as it is
  (`Current`), an event it has looked at changes only unseen or is shown (`Noticed`),
  and a conflict has its cause (`Blamed`). It gives `DriftShown`.
* **`OfflineSync_proofs`**: `AllTruthful` (every list of photos, wherever kept, names
  existing files and calls linked only what is evidence) holds always and gives
  `ClearedOnlyWhenConfirmed`. While nothing is done beside a synchronisation,
  `Orderly` holds: the lists that can reach the server remember the file under which a
  photo became evidence (`Remembers`) and carry what was stored (`Faithful`); it gives
  `NoPhotoTwice` and `NothingDisappears`. `Budget` counts: the files there are and the
  uploads that any list can still ask for are together no more than the photos taken
  and the calls lost, and gives `NoUploadTwice`.
* **`Quotes_proofs`**: `Inv` has two halves. `Staged` follows the engagement: before
  the agreement nothing is accepted or billed, no step leads back to before it, and
  cancelled is final; with it `OneOffer`, `OneAgreement` and `CancellationHolds` are
  inductive. `Locked` (a transaction holds the rows of its operation, no two the same
  one) and `Known` (only quotes that exist are locked or read) protect what a
  transaction saw before it waited: `RejectsAnOffer` and `SettlesAnInvoice`. They give
  `OnlyOffersAreRejected` and `SettlementFindsItsInvoice`, besides `TypesHold`,
  `OneOfferAtATime`, `AgreementIsUnique` and `CancellationIsFinal`.

Sums (`Sums`) count units instead of recurring over a set, so that the theorems on
cardinality of the library replace the induction the installed provers cannot do:
`SumAdd` and `SumRemove` say what one summand does to a sum.

### Only model-checked

* Liveness (`EveryJobSettles`, `EventDelivered`, `MoneyAccounted`,
  `OpenMoneyFound`, `ApprovedConcludes`, `EventuallySettled`, `EventuallyCleared`,
  `OffersExpire`): the prover has no rules for fairness.

No invariant and no action property of a run is only model-checked. Deadlock
freedom, which the job-queue runs and `booking` check, speaks of enabled actions and is
out of the prover's reach too.

## 8. Observed while reading

Places where the code does something other than its comments or docs say, or that a
property has to exclude. None is claimed by a run.

Jobs and money:

1. `packages/db/src/jobs.ts:217`: the reaper releases an exhausted job to `pending`,
   while the header of the file says exhausted jobs move to `dead`. A job that kills
   its worker is tried for ever.
2. `finance/settlement.ts:439`: the reversal of a payment that was partly held as a
   deposit credits the whole amount to the receivables and leaves the deposit.
   `LedgerTies` is stated for payments that were not reversed that way.
3. `finance/refunds.ts:360`: when the answer to `createRefund` is lost, the retried job
   calls it again under the same key; `refunds.ts:324` and
   `docs/providers/paystack.md:108` say it never does.
4. `finance/refunds.ts:606`: an event without an id is given to the newest refund of the
   attempt, so of two refunds of one amount the wrong one may be settled.
5. `finance/payment-attempts.ts:215` writes `pending` whatever the attempt became
   during the provider's call, while `machines.ts:217` declares the closed states
   terminal. `ClosedStays` is stated for attempts whose opening is over.
6. `machines.ts:239` has no move from `uncertain` to `abandoned`, so an abandoned
   checkout that became uncertain is flagged again and again and never closes.
7. `finance/reconciliation.ts:56` takes the 200 oldest attempts; as many that stay
   uncertain keep newer ones from being polled.
8. `machines.ts:304` allows a failed refund to be approved again "with corrected
   details", but the approval journal exists already and the approval always fails.
9. `finance/numbering.ts:31`: the largest document number is found by text order, which
   ends at 9999 in a year.

API, bookings and calendar:

10. `apps/web/src/lib/api/idempotency.ts:229`: a request that was overtaken completes by
    key and may store its response in a row that carries another body's hash.
11. `calendar.ts:1072`: the reminder scan writes back what it read, over the reset of a
    reschedule in between (`mutate.ts:163`).
12. `calendar.ts:604`: a cancellation during the creation of an event finds none to
    delete; the event stays, although `machines.ts:816` says "calendar event cancelled".
13. `calendar.ts:622`: after a 412 an older job reads the event again and writes its
    older time over the newer one. A conflict stays shown when the organiser moves the
    event back.

Field capture:

14. `sync.ts:353`: the synchronisation stores its own copy of the draft after each step.
    Edits stored meanwhile are overwritten, a discarded draft comes back, and a
    second synchronisation, or the page's autosave, makes it forget a file, so that a
    photo becomes evidence twice (`docs/guides/partner-quick-start.md:76`: "Retrying
    never duplicates anything").
15. `site-visits.ts:353`: findings edited after the visit was submitted are ignored by
    the replay, and the draft is cleared.
16. `evidence.ts:107`: a photo linked after its scan failed is refused for good. The
    synchronisation of visits reports transient server errors as refusals, and
    `buildSyncItem` sends no `unscheduledReason`, which
    `docs/guides/partner-quick-start.md:79` describes; partners do without it because
    their unscheduled visits are created online.
17. `site-visits.ts:545-552`: a cancellation tests the status it read without a lock and
    writes by id, so it may overwrite a submission, which the test excludes, and the
    `accessNote` submitted with it.

Quotes:

18. `quotes.ts:760`: the expiry job sets to expired by id what it read as issued; an
    acceptance, or a new version, in between is overwritten. Two jobs may announce one
    expiry twice.
19. `quotes.ts:499` marks a quote expired and then throws in the same transaction, so
    the mark is undone.
20. `machines.ts:149` says of a cancellation "Unpaid invoices are voided". That is so for
    staff who ask for it, and for invoices on which nothing was paid or credited
    (`invoices.ts:461-470`): a partly paid or partly credited one stays collectable. A
    customer's cancellation (`apps/web/src/server/requests/transition.ts`) voids nothing.
    `CancellationHolds` is stated for staff and for untouched invoices.
21. `machines.ts:130-136`: a customer may pause while payment is awaited and resume into
    `in_progress`, past the "verified payment or staff override" of `machines.ts:93`.

Notifications (not modelled):

22. `send.ts:192`: `recordSendOutcome` writes unconditionally, over a delivery receipt
    that came first; a row stays `queued` when its job dies between send and record.

## 9. Not modelled, and why

* Calculators, ranking, formatting, validation schemas, routes and UI: no
  interleaving, and unit tests reach them. Amounts are small integers here.
* Authorization and row-level security: decisions of one request on declarative
  policies.
* Notifications and chargebacks: they would be the next modules. A dispatch is a row
  under a unique key, a call and a record; what can go wrong in it is the lost answer
  and the late record that `Refunds` and `CalendarSync` show on other rows. A
  chargeback extends `Payments` by the accounts of a dispute.
* Within the modelled parts: drafting and issuing of invoices, invoices that staff make out
  by hand for a request (also after its cancellation), exports and the daily
  summary of reconciliation, disputes, conference polling, watch channels and sync
  tokens of calendars, report drafts and encryption on devices, fee bases and
  templates of quotes, review and delivery of engagements.
* Rentals, tenders, procurement, projects, purchase, maintenance, assignments,
  conversations, leads: state machines of one row, changed by one person in one
  transaction. They come after the plan below.
* Provider adapters: network I/O. What the code distinguishes in their answers is
  in `Payments`, `Refunds`, `CalendarSync` and `OfflineSync`.
* PostgreSQL is assumed: atomic transactions, row locks granted in order, detected
  deadlocks, unique and exclusion constraints.

## 10. Plan

Done, each with its proofs, in this order: `JobContract`, `JobQueue`; `Outbox`,
`EventDelivery`; `Payments`; `Refunds`; `IdempotencyKeys`; `Booking`; `CalendarSync`;
`OfflineSync`; `Quotes`.

Next:

| Module | Questions | Theorems |
|---|---|---|
| `Notifications` | Is a message sent once per dedupe key, up to the provider's own deduplication? Is every queued attempt concluded? | at most one row per key, final rows stay final |
| `Chargebacks` | Do out-of-order disputes lose money in the accounts? | extends `Payments` |
| `Files` | Is a file served only after its scan, whatever the order of finalize, scan and grant? | a grant names a clean file |

The contract of the queue is to be composed with `Refunds` and `CalendarSync` as
it is with the outbox, so that a job that runs out of attempts is part of them.

Lines the existing modules do not reach yet (`server/` stands for
`apps/web/src/server/`):

* Notifications: `dispatch.ts:309`, a crash between the provider's answer and its
  record; `send.ts:274`, an unlocked read before a deferred send.
* Payments: `reconciliation.ts:51`, a charge reversed after its settlement is only
  seen when somebody verifies it again; `credit-notes.ts:123`, a credit note that
  completes an invoice does not start the engagement;
  `reconciliation-exceptions.ts:58`, a second failure of one attempt on one day.
* Refunds: `refunds.ts:337`, a refund submitted after its attempt was reversed;
  `:601`, an event's own refund hidden behind two newer ones.
* JobQueue: `runner.ts:137`, a handler that never returns keeps its slot;
  `server/admin/operations/jobs.ts:258`, staff retry a job whose late worker still
  runs, which `SuccessIsEarned` covers and no run does.
* Calendar: the persist transaction and a reschedule lock the same rows in different
  orders; PostgreSQL aborts one, as `Quotes` models for its transactions.
