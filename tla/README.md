# Subscription reconciler: TLA+ verification

The subscription reconciler decides whether a user has premium access. Three
sources grant or revoke it: an app store that pushes webhooks, a carrier that is
polled, a marketplace that sends bulk revocations. Each source owns one row per
user in `user_entitlements`; a periodic sweep closes rows whose expiry has passed.
The program is Go over PostgreSQL at READ COMMITTED. All its concurrency is
between database transactions, of API handlers and of worker processes.

## Inventory

| Component | State | Operations | Interacts through |
|---|---|---|---|
| Store webhook ingestion (`application/store_webhook.go`, `http/store_webhook.go`) | `store_events`, `processed_events`, the STORE row, `audit_logs`, `notifications` | `ProcessStoreWebhook`: validate, compute the transition, one transaction | advisory lock per user, unique `event_id`, row locks; the provider's retries |
| Entitlement projection (`postgres/client.go: upsertEntitlement`) | `user_entitlements`, `audit_logs` | lock, read, ordered upsert, audit on change | called by all writers but the sweep |
| Expiration sweep (`client.go: ReconcileExpiredEntitlements`, `worker/expiration.go`) | the same rows | claim a batch with SKIP LOCKED, close, audit | row locks only |
| Notification sender (`application/notifications.go`, worker) | `notifications.sent_at` | claim due rows, marking them sent | row locks |
| Marketplace revocation (`application/marketplace_revoke.go`) | `marketplace_revocations`, `processed_events`, MARKETPLACE rows | one transaction per user, monthly key | advisory lock, unique key, row locks; the marketplace's retries |
| Carrier polling (`application/carrier_polling.go`, worker, carrier client) | `carrier_polled_at`, CARRIER rows | claim a batch, call the carrier, upsert a changed status | row locks for the claim, advisory lock for the upsert, HTTP with a 5 s timeout |
| Canonical query, timeline query (`application/entitlement_query.go`, `timeline.go`) | none | one statement and the clock; a page and a count | the tables, without locks |
| Worker process, API process | goroutines | run at once, tick, drain, cancel | context cancellation |
| Migrations, sqlc output, configuration | schema | | |

What is hard here: webhooks arrive late, twice and in any order; an attempt fails
or its answer is lost at any point; the sweep writes the same rows without the
advisory lock; decisions (has the grant elapsed, is the event newer, did the state
change) are taken on values read earlier; timestamps come from four clocks (event
time, receipt, start of transaction, expiry); month arithmetic is neither monotone
nor injective. What makes each part correct:

- ingestion: an acknowledged event is never lost, every event is acknowledged in
  the end, the newest event owns the projection;
- projection: rows only advance, access is earned, the audit log is the history of
  the row;
- sweep: an expiration is recorded once, for the grant that had ended, and no
  expired row stays open;
- notifications: the current grant has a notice, one per UTC day, sent at most once;
- marketplace: a user is revoked once per key or can be retried; other sources are
  untouched;
- carrier: no two workers poll a user at once; an old answer does not undo a newer
  state;
- queries: the answer is that of the highest-priority source that is active now.

## Modules

| Module | What it is |
|---|---|
| `Entitlements` | The rules that are pure functions: validation, expiry of an event, `Newer`, `StateChanged`, `IsActive`, `Expirable`, `Expired`, UTC day of a notice. Declares the calendar (`MonthLater`) and its assumptions. |
| `EntitlementLedger` | The abstract specification: accepted events and rows, each event and each batch of expirations in one atomic step. |
| `StoreReconciler` | The store side statement by statement: handlers and sweepers, transactions, locks, failures, lost answers. All properties of the core are stated here. |
| `StoreReconcilerProofs` | The inductive invariant, the safety theorems and the refinement. |
| `StoreAuditProofs` | On top of it, the audit log, the notices and the loss of access, with a sweep and without. |
| `PollingLedger` | The abstract specification of polling: claims and revocations, each in one step, without workers. |
| `CarrierPolling` | Polling workers: the claim that advances `carrier_polled_at`, the calls with their timeouts, the upsert of a late answer, stops. |
| `CarrierPollingProofs` | Its invariant, the spacing of claims, the condition under which no user is polled twice, and why a revocation is justified. |
| `CarrierLedgerProofs` | On top of it, that the workers implement `PollingLedger`. |
| `NotificationOutbox` | The abstract specification of the table: notices wait, are taken, are handed over. |
| `Notifications` | The notifications table between the webhooks that schedule and the senders that claim. |
| `NotificationsProofs` | Its invariant; a notice is dispatched at most once; the table implements the outbox. |
| `RevocationLedger` | The abstract specification of bulk revocation: a ledger with one revocation per user and month, and answers. |
| `Marketplace` | Bulk revocations: a request goes through its users, one transaction each; retries, grants and the sweep beside it. |
| `MarketplaceProofs` | Its invariant: what the monthly key and the 202 stand for; requests never deadlock. |
| `MarketplaceLedgerProofs` | On top of it, the counts, and that requests implement `RevocationLedger`. |
| `Queries` | The canonical entitlement and the timeline as a reader sees them while all sources and the sweep write. |
| `QueriesProofs` | Its invariant: both reads are right although they take no lock. |
| `MC...` | One module per behaviour module with calendars, payloads and symmetry for TLC; one `.cfg` per run. |

The definitions called variants (for instance `UpsertUnconditionally`) are the
mistakes the properties are there to catch; no specification uses them.
`PROJECT.json` pairs each with the property that fails for it.

### How the core corresponds to the code

A handler's record `tx[h]` holds what the goroutine of one request holds: its
payload, `active` as `computeStateTransition` found it on receipt, `now` (the
`NOW()` of its transaction) and `prev` (the row it read). Its program counter is the
last statement that returned:

| Action | Code |
|---|---|
| `ReceiveWebhook` | decode, `Validate`, `computeStateTransition` with `time.Now()` |
| `BeginTx` | `BeginTx`, which fixes `NOW()` |
| `InsertStoreEvent`, `AnswerDuplicate` | `INSERT ... ON CONFLICT (event_id) DO NOTHING`; it waits while another transaction holds the same key, and zero rows mean 202 with `isDuplicate` |
| `LockAndRead` | `pg_advisory_xact_lock`, the plain `SELECT`, the early return for an event that is not newer |
| `Upsert` | `INSERT ... ON CONFLICT DO UPDATE ... WHERE last_event_time <`; it waits for the row lock and judges the row as it then is; it keeps the row locked even if it changes nothing |
| `Commit` | audit row if the state differs from the one *read*, notice if changed and active, processed marker, `COMMIT`, and the 202, which may be lost |
| `Rollback` | any error, cancellation or crash before the commit |
| `SweepBegin`, `SweepClaim`, `SweepCommit`, `SweepRollback` | `BEGIN`; `SELECT ... ORDER BY expires_at LIMIT n FOR UPDATE SKIP LOCKED`; the loop of `ExpireEntitlement` and audit inserts with `COMMIT`; any failure |

A transaction's writes become visible at its commit, so they are not kept apart:
`Commit` derives them from the record. Locks are not variables either; they are
functions of the program counters (`KeyLocked`, `UserLocked`, `RowLocked`). Merged
into one action are: the advisory lock with the SELECT it protects (a sweep between
the two is a sweep before both), and the statements after the upsert with the commit
(they write rows nobody else can see or, for one user, touch). `audit[u]` is in
commit order, which for one user and source is also the order of the ids.

Left out of the data: reasons, product ids, `updated_at`, JSON, logging. PostgreSQL's
behaviour (READ COMMITTED, lock waits, EvalPlanQual re-checks, SKIP LOCKED, first-in
first-out lock queues) is modelled as documented by PostgreSQL. Hash collisions of the
advisory lock only block more and are not modelled.

`worker/expiration.go` runs a sweep at start-up and at every tick, and another one at
once after a full batch. All that the tables can tell of this is when a batch begins, so
`SweepBegin` is possible whenever a sweeper is idle, and that it does begin is the
fairness of `SweepStep`. The loop over users in `application/expiration.go`, which runs if
the repository cannot sweep in batches, is reached with test doubles only: the PostgreSQL
client always can.

### How carrier polling corresponds to the code

`work[w]` is what the goroutine of one worker holds: the claimed rows it has not
called about, how many it has taken from the batch, the user, answer and deadline of the call,
and the event time of the write.

| Action | Code |
|---|---|
| `Wake` | `pollOnce`, at start-up and at every tick of the ticker |
| `ClaimBegin` | `time.Now()` for the cutoff and `BEGIN`, which fixes `NOW()` |
| `ClaimSelect` | the CTE: due and active rows, oldest first, limit, `FOR UPDATE SKIP LOCKED` |
| `ClaimCommit` | `SET carrier_polled_at = NOW()` and `COMMIT`, before any call |
| `Call`, `Reply` | `GetPlanStatus` for the next user; the carrier looks the plan up |
| `CallFails` | timeout, network error, a status other than 200, a body that is not understood |
| `Judge` | the comparison with the claimed row and `time.Now()` |
| `Upsert` | `UpsertEntitlement`, one transaction under the advisory lock, which waits for a claim's row lock |
| `EndBatch` | `pollOnce`: another claim after a full batch, the end of the cycle after a short one |
| `Stop` | a failed claim or write, cancellation, a crash |
| `PlanChanges` | the environment: a plan starts or ends at the carrier |

The upsert is one step here because every writer in this module takes the advisory
lock; `StoreReconciler` has it statement by statement against a writer that does not.
Workers and database share one clock: with two, the distances below change by the
difference of the clocks. Between
`time.Now()` and `BEGIN` time may pass, which only makes the cutoff older. Rows that
were polled at the same time are taken in any order; the code breaks the tie by user
id. The sweep does not touch these rows: polling writes no expiry.

`Prompt` tells two kinds of schedule apart. If it is `TRUE`, time passes for a worker
only between cycles and in calls, which then end by their deadline. If it is `FALSE`, a
worker may also pause between any two steps, and an answer may be taken after the
deadline, since a paused process finds the timer and the socket ready together.

A closed carrier row stays closed: the claim selects active rows only, as README.md:125
says, and nothing else writes CARRIER rows. So the service's comparison of an active
answer with an inactive row (carrier_polling.go:66-74), which carrier_polling_test.go:78
exercises with a stubbed claim, has no instance here: `Judge` compares with an active row.

### How notifications correspond to the code

`ScheduleNotification` is the insert under the unique index on user, type and UTC day;
when a webhook does it is in `StoreReconciler`. A sender's `SendBegin`, `SendClaim` and
`SendCommit` are the statements of `ClaimDueNotifications`, `SendReturn` is its return to
`sendOnce`, which claims again after a full batch; `returned` counts, as history, how
often a notice came back from a claim. The repository sends nothing after that. `Stop` is
any failure, cancellation or crash; after the commit it loses the batch in hand, which
the documented "at-most-once notification claiming" (README.md:123) allows.

### How marketplace corresponds to the code

`req[h]` is what one request's goroutine holds: the list, the index of the loop, `batchTS`,
the count, the row read in the current transaction, and the locks that transaction has: the
revocation's key, the advisory lock of the user and the row. Each statement adds its lock, the
end of the transaction gives them all back; `WaitsFor` reads them there.

| Action | Code |
|---|---|
| `Receive` | decode, `ValidRequest` (not empty, at most `MaxUsers`), `batchTS := time.Now()` |
| `InsertRevocation`, `SkipRecorded` | `BEGIN` and `INSERT ... ON CONFLICT (event_id) DO NOTHING`, which waits for a transaction holding the key; zero rows end the transaction and the user is not counted |
| `LockAndRead`, `Upsert` | `upsertEntitlement` inside that transaction, as in the core |
| `Commit` | audit row, `processed_events` marker, `COMMIT`; the loop counts the user and goes on |
| `CommitUnseen` | the commit took effect and the connection broke: the handler sees a failure |
| `Respond` | 202 with the count, which may be lost on its way |
| `Abort` | a failed statement, a cancelled request or a crash at any point; the rest of the list is not tried |
| `Grant`, `Sweep`, `Tick` | the environment; a grant is an active MARKETPLACE row, which nothing in the repository writes but the tests; the sweep is one step |

The key is the user and the month of `batchTS` (`KeyOf`), so that requests of different
months have different keys, and a repeated user inside one list finds its own key.
`reported` and `answered` are history: the counts and the 202s the marketplace has seen.

### How the queries correspond to the code

One user, and one reader who does one thing at a time: reads are by user and share
nothing. Writers commit in one step, which sets `created_at` to the start of their
transaction, at most `MaxWait` ago (`Started`).

| Action | Code |
|---|---|
| `AskEntitlement`, `ReadRows` | the request, and `GetEntitlementsByUser`, one statement |
| `AnswerEntitlement` | `time.Now()` after the rows, the loop over them (`Better`), the answer |
| `EndQuery` | the answer is taken, or the statement failed |
| `Observe` | history: which sources were active at some instant, and which all the time |
| `AskTimeline` | validation of `limit` and `offset` in the handler (`ValidPage`) |
| `ReadPage` | `ORDER BY created_at DESC LIMIT .. OFFSET ..`: any listing in that order, since ties are broken by nothing |
| `CountTotal`, `TimelineFails` | `CountAuditLogsByUser` and the response; a failure of either statement |
| `TurnPage`, `CloseTimeline` | a client that asks for the next page until it has skipped the total |
| `Write`, `Sweep` | an upsert of one of the three sources; a batch of the sweep, whose audit rows share one `created_at` |

The defaults and limits in `application/timeline.go` have no effect after the handler's
own; a limit that is not a number is read as 100. Two things a reader should know, which
`CanonicalIsCurrent` and `PagingMissesNothing` leave room for because the code does:

- The clock is read after the rows. A row that is renewed after it was read and whose old
  expiry passes before the clock is read does not count, and neither does a source that
  takes over from another in between, so the answer may be `NONE` though access never
  lapsed.
- Audit rows of one sweep transaction over several sources have the same `created_at`. Two
  pages may list them differently, and one of them may be on neither.

## Runs

Constants: the clock runs from `StartClock` to `MaxClock` (bound on `Tick`), `Skew` is
how far ahead of the server an event's time may be (the code does not check it, so the
theorems hold for every value), `OneDay` is 2 so that two expiries can share a UTC day.
The calendar is `1->5, 2->4, 3->6, 4->5, 5->7`: a later grant may end earlier, and two
grants may end together, as around the end of January.

| Run | Instance | Shows |
|---|---|---|
| `store_one_user` | 1 user, 2 handlers, 1 sweeper, 3 payloads, clock 3..5 | `TypeOK`, `NoAcceptedEventLost`, `AccessIsEarned`, `AccessIsLostForCause`, `AuditTipMatchesProjection`, `CurrentGrantHasNotice`, `ExpirationExtendsHistory`, `HistoryForksAtExpirations`, `LastEventTimeAdvances`, and that the core implements the ledger (`ImplementsLedger`) |
| `webhooks_only` | `FairSpec`, 1 user, 2 handlers, no sweeper, 4 payloads with a tie and an invalid one, no skew, clock 3..4 | `AuditChain`, `EventTimeDrivesState`, `CurrentGrantHasNotice`: what the advisory lock guarantees as long as every writer takes it; `EveryEventAcknowledged` |
| `sweep_liveness` | `FairSpec`, 2 users, 1 handler, 2 sweepers, batches of 1, clock 3..5 | `ExpirationExtendsHistory`, `ExpiredIsSwept`, `EveryEventAcknowledged` |
| `audit_chain_with_sweep` | as `store_one_user`, no skew | `AuditChain` is violated |
| `event_time_with_sweep` | as `store_one_user`, no skew | `EventTimeDrivesState` is violated |
| `timeline_order` | as `webhooks_only`, no skew | `TimelineIsChronological` is violated |
| `carrier_prompt` | 2 users, 2 prompt workers, batches of 2, calls of 2, staleness 3, clock 3..8 | `CollisionsComeLate`, `RevokedOnlyWithoutPlan` |
| `carrier_paused` | `FairSpec`, 2 users, 2 workers that pause, batches of 1, staleness 1, clock 2..3, failures until 2 | `TypeOK`, `AuditRecordsTransitions`, `ClaimsAreSpaced`, `ImplementsLedger`, `EndedPlanIsRevoked` |
| `carrier_collision` | batches of 2 calls of 5, staleness 6, no failures | `NoUserPolledTwice` is violated |
| `notifications` | `FairSpec`, 1 user, 2 senders, batches of 1, notices at 2, 3, 4 and 7, clock 1..4, failures until 3 | `TypeOK`, `DispatchedAtMostOnce`, `ImplementsOutbox`, `DueIsDispatched` |
| `marketplace` | `FairSpec`, 2 users, 2 handlers, lists `<<u1, u2>>` and `<<u2, u2, u1>>`, an empty and a too long one, grants at 1 and 2 that end at 3, clock 2..3 over the end of a month | `TypeOK`, `RecordedIsApplied`, `AnsweredIsRecorded`, `AuditNamesItsRevocation`, `CountsAreRevocations`, `NoCircularWait`, `ImplementsLedger`, `EveryRequestAnswered` |
| `queries` | 5 writes of three sources, limits -1..3 of at most 2, offsets -1, 0 and 3, waits of 1, 4 audit rows, clock 2..3 | `TypeOK`, `CanonicalIsCurrent`, `TotalCoversPage`, `PagingMissesNothing` |

Two handlers are enough for every pairwise conflict the locks can have; a third adds a
waiter, not a new order of two critical sections. Two events after the first, one of
them newer than the end of the first grant, are what it takes for the sweep to change
the outcome of a judgement. The clock passes the end of a grant while it is being
written, and stays before the end of another.

In `carrier_prompt` a batch may take four time units and a claim lasts three, as in the code
500 seconds and 300, so collisions do happen there; the clock lets a user be claimed again
while another worker drains, and after one that stopped. `CollisionsComeLate` is tight: with
one call less, or one time unit more between the claims, it is violated. In `carrier_paused` the second
instant is enough for a user to be in two workers' hands, with an older and a newer
answer; longer clocks (up to 5) give the same results, and all but the liveness property
are proved. `LastFailure` bounds when calls fail and workers stop. Of the four times of a
notice two fall on one day, and one is never reached.

In `marketplace` the lists name the users in opposite orders, so that two requests meet at
either key and would wait for each other if locks outlived a user's transaction; the second
list meets its own key, and a request of the new month meets a row revoked in the old one. The
grants fall before and into the instant of a request and end in that of another, so a revocation
finds the row granted as early as itself, granted earlier, or swept. In `queries` the
clock passes the end of a store purchase and of a marketplace grant together, with a
renewal and a carrier plan that survive; four audit rows and pages of one or two make a
walk of up to four pages, with ties and with rows that are inserted between pages or
below the front. Both graphs are complete: in `marketplace` each list can be sent any
number of times, in `queries` a reader asks any number of times.

### What the violations say

1. **The audit log does not chain when a sweep intervenes.** A grant ends at 4. A
   cancellation at 5 reads the row, still open, under the advisory lock; the sweep,
   which does not take that lock, closes the row and commits; the cancellation's upsert
   then finds a row that is already closed, and audits a second transition from the open
   grant to no access. README.md:341 promises a history without no-op transitions. The
   projection itself stays right: the upsert judges the row it locks
   (`LastEventTimeAdvances`, `ImplementsLedger`). What is left of the history is
   `HistoryForksAtExpirations`: an audit row continues the one before, or that one is an
   expiration and the row starts from the grant that expired, with a later event.
2. **Arrival order decides after a sweep.** The sweep stores the old expiry as
   `last_event_time`. A renewal made before the expiry and delivered after the sweep is
   older than that and refused; delivered before the sweep it extends access by a month.
   migrations/SCHEMA.md:198 says arrival time is ignored. `webhooks_only` shows that it
   is, without the sweep. With it, `AccessIsLostForCause` is what a user can rely on: no
   accepted event is newer than a row without access, and an event that takes access away
   or a grant that has ended made that row.
3. **The timeline may be out of order.** `created_at` is the start of the transaction.
   Of two concurrent webhooks the one that began first may take the advisory lock last.
4. **A slow carrier defeats the claim.** 100 calls of up to 5 seconds take 500 seconds,
   the claim protects a user for 300. `carrier_collision` keeps that ratio: the second
   user of a batch becomes due while it waits for the first one's call, and another worker
   claims it. migrations/SCHEMA.md:202 promises zero collisions. What holds instead is
   `CollisionsComeLate`: before the 300th second, or the 60th call of a batch if only calls
   take time, nobody else gets one of its users; 59 calls per batch would be safe.
   `carrier_paused` shows that a collision does not corrupt the audit log.

### Fairness

`FairSpec` adds: weak fairness of each handler's and each sweeper's next step (goroutines
and the ticker run; PostgreSQL grants locks in order, and every lock is held by a
transaction that ends); strong fairness of the delivery of each event that is not
acknowledged (the provider retries, and `net/http` has a goroutine for every request, so
other requests cannot keep it out) and of the arrival of its 202, so that not every answer
is lost; and `FailuresCease`: from some time on no transaction is rolled back,
the one that has just found its event recorded excepted. Without the last, a database
that always fails would be a counterexample to anything. The clock need not advance.

`FairSpec` of `Marketplace`: weak fairness of each handler's next step, and for each
valid request strong fairness of sending it again until a 202 for it is seen, and of that
202 arriving. `FailuresCease` bounds failures (`Abort`) only. Commits whose answer
is lost need no bound, since each puts a key on record, and up to the bound of the clock
there are finitely many.

`FairSpec` of `CarrierPolling` and of `Notifications`: weak fairness of each worker's
next step, waking included (tickers fire, goroutines run, calls end because
`http.Client` has a timeout), and of the clock. Failures end by `LastFailure`: a carrier
that never answers is never believed. Plans may go on changing, and
`EndedPlanIsRevoked` excuses a plan that comes back; it asks for a user who was not
claimed within the window, since such a user becomes due without the clock passing its
bound.

## Proofs

`StoreReconcilerProofs` proves, for all values of the constants under
`CalendarAssumption`, `NullAssumption` and `PayloadAssumption` (a month later is later,
`NULL` is no number, row or part of a row, event ids identify events):

| Theorem | Statement |
|---|---|
| `TypeCorrectness` | `Spec => []TypeOK` |
| `Invariance` | `Spec => []IInv` |
| `AcceptedEventsAreKept` | `Spec => []NoAcceptedEventLost` |
| `AccessIsAlwaysEarned` | `Spec => []AccessIsEarned` |
| `RowsOnlyAdvance` | `Spec => LastEventTimeAdvances` |
| `Refinement` | `Spec => ImplementsLedger` |

None of these properties is inductive. `NoAcceptedEventLost` depends on what a handler
will do next: a commit at "skipped" is harmless only if the row is still at least as new
as the event. `IInv` therefore adds that judgements stand (`JudgementStands`), which for
"written" rests on the row lock (`RowsExclusive`, `HandlersExclusive`: nobody else can
change the row) and for "skipped", where only the advisory lock is held and the sweep may
change the row, on rows advancing, which in turn needs that a grant ends after its event
(`ExpiryFollowsEvent`): the sweep moves `last_event_time` from the event to the expiry.
`ClaimStands` is the same for the sweep, and makes its re-check redundant.
`EventsAccounted` and `ActiveIsEarned` are the strengthened forms of the two safety
properties. Each action has a lemma; steps that only change one handler's record share
`HandlerIInv`, steps of a sweeper `SweeperIInv`.

The refinement maps the core's tables to the ledger's and is proved step by step from
`IInv`: `Commit` is `Accept` with the time of receipt as witness, `SweepCommit` is
`Expire`, everything else stutters.

`StoreAuditProofs`, under the same assumptions:

| Theorem | Statement |
|---|---|
| `HistoryInvariance` | `Spec => []HInv` |
| `AuditTipIsCurrent` | `Spec => []AuditTipMatchesProjection` |
| `ExpirationsExtendHistory` | `Spec => []ExpirationExtendsHistory` |
| `HistoryForksOnlyAtExpirations` | `Spec => []HistoryForksAtExpirations` |
| `AccessIsOnlyLostForCause` | `Spec => []AccessIsLostForCause` |
| `CurrentGrantsAreNoticed` | `Spec => []CurrentGrantHasNotice` |
| `WebhooksChain` | if `Sweepers = {}`, `Spec => []AuditChain` |
| `WebhooksOrderByEventTime` | if `Sweepers = {}`, `Spec => []EventTimeDrivesState` |

A handler decides whether to audit and to notify on the row it read, and the sweep does
not take its lock. `PrevStands` says what is left of that reading: the row is as it was
read, or the sweep has closed the grant that was read. In the second case a write that
passes is a change also against the row as it is: closing a grant moves `last_event_time`
to its end, so the event is newer than that and a new grant ends later still. Hence the
last audit row is the row's state, and a grant that suppresses its notice as no change is
one that already has a notice. It also says how the new audit row joins the log: in the
first case to the tip, in the second (`ExpiredSince`: the tip is the expiration of what was
read) beside it, and nowhere else. `RowsAreOfEvents` says whose work a row is: of an event,
as judged at its receipt (`FromEvent`), or the remains of a grant that has ended
(`FromGrant`); with `EventsAccounted`, that nothing accepted is newer, this is why access is
only lost for a cause. With no sweeper only the first case of both is left, which is the
chain and the order by event time. The runs `audit_chain_with_sweep` and
`event_time_with_sweep` show that the condition cannot be dropped.

`CarrierPollingProofs` (under `PollingAssumption`):

| Theorem | Statement |
|---|---|
| `TypeCorrectness` | `Spec => []TypeOK` |
| `AuditIsChained` | `Spec => []AuditRecordsTransitions` |
| `ClaimsKeepTheirDistance` | `Spec => ClaimsAreSpaced` |
| `CollisionsAreLate` | `Spec => []CollisionsComeLate` |
| `RevocationsAreJustified` | if `Prompt`, `Spec => []RevokedOnlyWithoutPlan` |

`IInv` says that past its call a worker has a user and past the reply an answer
(`WorkSound`), and that what a claim has locked stays due and is locked by nobody else
(`ClaimsDue`, `LocksExclusive`), which is what spaces the claims. `CollisionsAreLate` has an invariant of its own, `CInv`. A user in
hand bears a stamp no older than the batch (`HeldIsFresh`), so a second claim finds it due
only a window after the first (`ClaimsApart`). A prompt worker is on time: the clock is
within its `Budget`, the time of its claim and a timeout for every call made (`OnTime`), so
by then it has made as many calls as fill a window. Neither batch size nor timeout is
limited: the theorem covers the code's constants.
`RevocationsAreJustified` follows the answer instead (`AnswerFresh`): a negative answer
was true when the carrier gave it, and a prompt worker stamps it before the deadline of
the call, so the stamp is at most `CallTimeout` after the plan was last absent.

`CarrierLedgerProofs.Refinement` proves `Spec => ImplementsLedger`, for prompt workers and
for workers that pause. `ClaimCommit` is `Claim` as of the time the claim began: its rows
are still active, because who would close one waits for the row lock, and still due
(`ClaimsDue`). An `Upsert` that is newer than the row is `Revoke`, anything else stutters.
`Grounded` carries what `Revoke` asks for from the claim through the call to the write: the
user was claimed, the answer is negative, and the plan was absent since the first poll; the
witness for the time of the answer is the last time without a plan or, if that is later
than the write, the write. Only the distance of answer and write needs `Prompt`, and comes
from `AnswerFresh`; of TLC's runs `carrier_paused` has the ledger, and `carrier_prompt` checks
that distance as `RevokedOnlyWithoutPlan`.

`NotificationsProofs` (under `NoticeAssumption`): `TypeCorrectness`,
`NoticesAreDispatchedAtMostOnce`, `Spec => []DispatchedAtMostOnce`, and `Refinement`,
`Spec => ImplementsOutbox`. The invariant adds
`LocksStand` (a locked notice is not marked and has one locker) and `ClaimsStand` (a
claimed one is marked, not yet returned, and in one sender's hands): the mark keeps two
claims apart after the locks are gone. The refinement maps unmarked notices to those
waiting, marked ones to those taken and returned ones to those handed over: `SendCommit`
takes a batch, `SendReturn` hands it over, an insert that meets no conflict announces. It
needs that only scheduled notices are marked and that a locked one is due (`TableStands`).

`MarketplaceProofs` (under `RequestAssumption` and the assumptions of `Entitlements`):

| Theorem | Statement |
|---|---|
| `Invariance`, `TypeCorrectness` | `Spec => []IInv`, `Spec => []TypeOK` |
| `RecordedRevocationsAreApplied` | `Spec => []RecordedIsApplied` |
| `AnsweredRequestsAreRecorded` | `Spec => []AnsweredIsRecorded` |
| `AuditNamesRevocationsOnce` | `Spec => []AuditNamesItsRevocation` |

The key of an open transaction is not on record (`KeyIsFresh`) and in one transaction only
(`HandlersExclusive`), so its audit row is the first with that trigger. A commit records
what `RecordedIsApplied` promises because the judgement on the row stands until then
(`JudgementStands`): a written row is locked, and for a row found new enough only grants
and the sweep may follow, which make it newer (`ExpiryFollowsEvent`). `PassedAreRecorded`
carries `AnsweredIsRecorded` along the loop. `RequestsNeverDeadlock`,
`Spec => []NoCircularWait`, rests on `LocksHeld`, a part of the invariant: the locks that
statements add and the end of a transaction gives back are, wherever the request is, those
of one transaction, key, user and row in this order. Hence who waits has fewer of them than
who holds (`WaitsAreOrdered`), and a circle has no furthest member. A request that kept a
user's advisory lock while it goes on to the next user would break it.

`MarketplaceLedgerProofs` proves `CountsAreOfRevocations`, `Spec => []CountsAreRevocations`,
and `Refinement`, `Spec => ImplementsLedger`. That sums stay below the number of revocations
is not inductive and would be an induction over the handlers; `CountsAreRevocations` says
instead which revocations are counted, by disjoint sets: those the answers have paid for,
and for each request some of the users it has passed (`Covers`). A commit adds the new
revocation to its own request's set, an answer moves that set to the paid ones, a failure
gives it up (`Recount`, with one lemma for each kind of step). In the refinement `Install`, which a
`Commit` and a `CommitUnseen` share, is `Revoke` as of the receipt: the key is fresh, and the
row is as judged. `Respond` is `Answer`: the loop is through, so all users are in the ledger,
and the paid sets bound the total. `UnderWay` adds that a request in progress is a list that was
sent and not received in the future, and counts no more users than it has passed.

`QueriesProofs` (under `QueryAssumption` and the same):

| Theorem | Statement |
|---|---|
| `Invariance`, `TypeCorrectness` | `Spec => []IInv`, `Spec => []TypeOK` |
| `CanonicalIsAlwaysCurrent` | `Spec => []CanonicalIsCurrent` |
| `TotalsCoverPages` | `Spec => []TotalCoversPage` |
| `PagingIsComplete` | `Spec => []PagingMissesNothing` |

For the first, `QuerySound` keeps the rows read and the observed history together: a
source that was steady so far is in the rows as it is now. Paging rests on ranks.
`Rank(log, id)` is the number of audit rows with a later `created_at`; in any listing an
untied row is at place `Rank + 1` (`ListedByRank`), and a rank never falls, since the log
only grows (`RankGrows`). So an untied row that was not seen on the pages so far is at or
past the next offset (`UnseenLieAhead`), and when the offset reaches the total there is
none.

Every invariant, action property and refinement that a passing run checks is proved, for
`RevokedOnlyWithoutPlan`, `AuditChain` and `EventTimeDrivesState` under
the conditions above, which their runs meet. Only model-checked are the liveness properties, which are beyond the prover (fairness, `ENABLED`),
and the violations. No RECURSIVE operator is declared in any module.

## Plan

1. Core: `Entitlements`, `EntitlementLedger`, `StoreReconciler`, proofs. Done.
2. `CarrierPolling` and `Notifications`, with proofs. Done.
3. `Marketplace` with its proofs. Done.
4. `Queries`: the three sources and the sweep on the rows of one user, both reads. Done, with
   proofs.
5. Proofs of the audit and notification properties of the core, of what holds without a
   sweep, and of justified revocations. Done.
6. Abstract specifications of polling, notifications and bulk revocation with the proofs that
   they are implemented; the counts and deadlock freedom of bulk revocation; what can be
   relied on, with a sweep, of the audit log and of a user's access. Done.
7. Left: a proof that the one-step sweep of `Marketplace` and `Queries` is what
   `StoreReconciler` refines to; an abstract specification of the two reads.

## Not modelled

- `cmd/api`: start-up, routing and shutdown keep no state. A request that a shutdown cuts
  off is a rollback in the models. (`main.go:49` registers `/health` before
  the `router.Use` of lines 55-57; chi, which is not in the repository, documents that
  middleware comes before routes.)
- `cmd/worker`: the loops are in the models of what they drive; start-up and
  the wait for them to end change nothing that is persisted.
- The creation of CARRIER rows and of active MARKETPLACE rows: no operation of the program
  does either. Carrier rows are there from the start, grants are external.
- `GetDueNotifications` and `MarkNotificationSent`: no caller in the program.
- The Go side of the sqlc output, running the migrations, JSON, the log level, the
  mock carrier: no state, or nothing a model could add.
