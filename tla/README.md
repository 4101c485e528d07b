# Payman in TLA+

Models, model checking and proofs about Payman, an invoicing and payment service
(Rust, axum, PostgreSQL, Redis). Source paths below are relative to the
repository; `PROJECT.json` maps every definition to the lines it stands for.

## The system

| Part | State it keeps | Operations | Talks to |
|---|---|---|---|
| Pay handler, `src/services/payments.rs`, `src/workers/payment.rs` | `invoices`, `payment_attempts`, `idempotency_keys` | lookup, claim (transaction 1), charge over HTTP, settle (transaction 2) or leave pending | provider, webhook dispatch |
| Reconciliation worker, `src/workers/payment_status_worker.rs` | the same rows; the batch of its last SELECT | a tick a minute: reconcile what is due, expire what is 24 hours old | provider, webhook dispatch |
| Mock provider, `src/bin/psp.rs` | outcomes by attempt, in memory | charge, get outcome | - |
| Invoices, `src/services/invoices.rs` | `invoices`, `invoice_line_items` | create, edit, finalize, void, get, list | webhook dispatch |
| Webhook dispatch and worker, `src/workers/webhook*.rs` | `webhook_deliveries` | insert a row per endpoint; every 30 s post up to ten due rows, record, retry | subscribers |
| Webhook endpoints, `src/services/webhook.rs` | `webhook_endpoints` | create, get, list, soft delete | - |
| Rate limiter, `src/middleware/rate_limiter.rs` | a sorted set per key in Redis | one script per request | Redis |
| Connection pool, `src/main.rs:43` | five connections | taken and given back by every statement or transaction | PostgreSQL and its row locks |
| Customers, businesses, API keys, errors, the rest of `main.rs` | rows without behaviour, wiring | inserts, reads, field validation | - |

Everything shared lives in PostgreSQL at its default isolation level, READ
COMMITTED. Handlers run concurrently, one task each; a client that hangs up
drops its handler's future at the await it is in. The two workers are endless
loops of one task each. Webhook dispatches are detached tasks.

What is hard about it: the handler and the worker settle the same attempts
without looking at what they overwrite; the provider decides before or after
everybody has stopped waiting; a crash or hang-up may come between any two
statements; locks on versions are taken in one statement and relied on in
others; the rate limiter's clock is read long before its script runs; sums of prices are
taken before the prices are looked at; and everybody shares five connections and
the row locks of their transactions.
`PROJECT.json` lists these hazards line by line with the properties that cover
them.

What makes each part correct:

* payments: one attempt per key and invoice; one claim per version; nothing
  recorded but the provider's verdict; nothing pending or processing for ever;
  one charge per invoice;
* invoices: the documented state machine, one winner per version, a total that is
  the sum of the line items, in the table and in every answer;
* invoices and payments together: what may still change an invoice was let in while it
  was a draft, and a payment is claimed only after a finalization, with a later version
  than everybody who was let in;
* the pool: nobody waits for ever but who talks to a silent provider or subscriber;
* webhooks: delivered means received, a bounded number of posts, every delivery
  comes to an end, nothing after the endpoint's deletion;
* rate limiter: no more than the limit in a window, no denial without cause.

## Modules

| Module | Models | Extends |
|---|---|---|
| `Payments` | pay handler, provider client, reconciliation worker, provider | |
| `AttemptLedger` | abstract: what the pay endpoint promises per key and invoice | |
| `PaymentsRefinement` | the mapping from `Payments` to `AttemptLedger` | `Payments` |
| `PaymentsProofs`, `LedgerProofs` | theorems about the two above | |
| `InvoiceLifecycle` | create, get, edit, finalize, void, and payment as the row shows it | |
| `LifecycleProofs` | theorems about it | `InvoiceLifecycle` |
| `System` | one invoice and its payments: `InvoiceLifecycle` and `Payments` on one row | instances of `InvoiceLifecycle` and `PaymentsRefinement` |
| `SystemProofs` | theorems about the composition | `System`, instances of `LifecycleProofs` and `LedgerProofs` |
| `InvoiceTotals` | the i64 sum and the order of checks in create and edit | |
| `TotalsProofs` | theorems about it | `InvoiceTotals` |
| `ConnectionPool` | connections and row locks of all tasks | |
| `PoolProofs` | theorems about it | `ConnectionPool` |
| `WebhookDelivery` | endpoints, dispatch tasks, delivery worker, subscribers | |
| `WebhookProofs` | theorems about it | `WebhookDelivery` |
| `RateLimiter` | the sliding log of one key | |
| `RateProofs` | theorems about it | `RateLimiter` |
| `RetrySchedule` | the minutes of the reconciliation of one attempt | |
| `MC...` | symmetry, starting points and small inputs for TLC | the module named |

### Payments

A payment attempt is named by the request whose claim inserts it, so one request
has one handler position (`pc`), at most one row of `payment_attempts`
(`attempt`, `waiting` for a `next_retry_at` in the future, `old` for a
`created_at` 24 hours back), one entry of the provider (`psp`) and one answer.
`idem[k][i]` is the row of `idempotency_keys` for a key and an invoice, `body`
its stored response reduced to the status in it. `"expired"` is the status
`failed` with the failure code `reconciliation_timeout`.

| Action | Code |
|---|---|
| `ReplayStored`, `MissStored` | the lookup, restricted to the last 24 hours |
| `ClaimAttempt`, `ClaimRefused` | transaction 1, or its 409 and its unique-index violation |
| `SendCharge`, `PspDecide` | POST /charge; the provider makes up its mind at any time, or refuses |
| `SettleSucceeded`, `SettleFailed`, `SettleUnknown` | transaction 2, or the timeout path |
| `RequestLost`, `Crash` | the handler ends at an await; the process ends |
| `Tick`, `Reconcile...`, `SelectExpired`, `Expire`, `TickEnd` | the worker, row by row of the batches it has selected |
| `Stall` | the provider's answer has begun and its body never comes |
| `PspRestart` | the provider loses its store: `forgotten` are the outcomes it no longer tells |
| `BackoffElapsed`, `Age` | time |

A transaction is one step: its first UPDATE locks the row through which every
other writer of the rows it touches must pass, and what it has written is not
seen before its commit. That these transactions never deadlock is `DeadlocksAreEdits`
of `ConnectionPool`. The worker's GET and its transaction are one step since the
provider's answer does not change once given; after a restart it has none, and a
verdict read just before the restart is one read then.

Left out: amounts and card tokens, the business (all invoices belong to one),
retry counts and minutes. `stale` is a history variable: attempts the worker has
settled while their handler was still at it, or after it had.

### InvoiceLifecycle

One invoice. Transactions are cut into a step per statement up to the one that
locks the invoice row, because at READ COMMITTED each statement sees what is
committed when it starts. `items` holds whose lists of line items are in the
table, `total` whose list `total_cents` is the sum of. A DELETE is two steps:
what it sees is fixed when it starts (`seen`), and it ends when whoever deleted
the same rows before it has ended. `PayClaim` and `PaySettle` are the pay
handler and the worker as far as the row shows them; `Payments` has them in full.
`Ahead` says how far above the current version a client may guess: 0 models
clients that send a version they have read. A `get`, and an edit without line items,
answer with a row and line items read by two statements (`GetRow`, `GetItems`;
`EditKeepItems`, `EditReply`): `heard` is the total answered, `seen` the line items,
`torn` the calls between whose two statements an edit committed.

An edit may commit after the invoice was finalized, voided or even paid: its version is
counted up in a statement of its own, its transaction comes later. `ChangesWereLetIn`
says what remains true: whoever changes line items or total then was let in, with an
older version than the call that ended the draft.

### System

`InvoiceLifecycle` and `Payments` share one invoice row. `Payments` sees it as its
only invoice, by an instance that builds its functions from `state` and `ver`;
`InvoiceLifecycle` sees of payments only `claimed`, whether there is an attempt. A
step is a call's (`CallStep`) or a payment's (`PayStep`); the latter waits when it
writes the row and an edit has locked it (`WritesRow`). In place of `PayClaim` and
`PaySettle`, which allow any settlement at any time, the invoice meets the handlers,
batches and expiries that really occur. `FinalizedBeforePaid` compares versions only: it
does not say that the amount charged is the one the client agreed to, which the code does
not guarantee (an edit let in may change it late). `Reopened` is the one thing a client
that guesses versions can do to payments: a finalize whose check saw a draft, and whose
version is only reached by a claim, opens an invoice that is being paid or has been.
`PaymentsStaySafe` excepts it, for `CleanInvoiceIsExact` only. `Asked` narrows what calls
may ask, for the model checker only.

### InvoiceTotals

Quantities and amounts are numbers, an i64 runs from `-Half` to `Half - 1`, and `Wrap` is
what a release build does with what does not fit. `Create` and `EditItems` look at the
total, the due date and the items in the order of the code; what is refused in the
middle is rolled back, but an edit's version is spent: `SpendVersion` is the statement
that counts it up, without a look at the business, committed before the edit's
transaction begins. `Meetings` are what that transaction may meet: the caller's draft,
another business's invoice (404), an invoice finalized or voided since (422), or a failed
statement. `Leave` is that finalization or voiding. The CHECKs of the table (`Positive`)
are part of create and edit.

### ConnectionPool

A task is a list of steps: take a connection, wait for a row's lock, give all back,
talk HTTP. `Pay`, `Tick`, `Edit`, `Update` and `Deliver` are the pay handler, the
payment worker on one attempt, an edit, finalize or void, and the webhook worker on
one delivery. `Skip` is a statement off the task's path, `Leave` an early end at any
step (an early return, an error, the pool's own timeout of 30 seconds, a client that
hangs up), `DeadlockAbort` PostgreSQL's victim. All tasks work on one invoice;
attempts differ by the request that made them (`mine`).

### WebhookDelivery

An event is a dispatch task; a delivery is an event and an endpoint. `due` holds
the rows whose `next_retry_at` is past. The worker's POST and the UPDATE that
records its result are two steps, and the subscriber may have taken the webhook
whatever the result. `lost` counts the results that a failed UPDATE or a crash
kept from the row.

### RateLimiter

Time is discrete. `Ask` reads the clock, `Allow` and `Deny` are the script,
atomic in Redis, any time within `MaxDelay` later; the sorted set holds requests,
whose score is the time they read.

### RetrySchedule

One pending attempt, minute by minute, with the values of the code: 64 bits, cap
of 16 minutes, 24 hours. `wait` is `next_retry_at` seen from now. The worker ticks
once a minute; a tick finds the attempt not due, gets no usable answer
(`TickInVain`), is told the provider does not know it (`NotFound`), settles it, or
expires it. The overflow is that of a release build, which the Dockerfile makes;
a debug build would panic there, and the worker's task would end.

## Runs

| Run | Instance | Shows |
|---|---|---|
| `payments` | 1 invoice, 3 requests, 2 keys, versions 2 to 4, 1 crash or restart; 2.1 million states | what relates attempts to each other and to the invoice: keys, versions, "processing", "paid", answers, charges |
| `payments_live` | 2 requests, 2 keys, versions 2 to 4, 1 crash or restart, fairness; 106 thousand states | what is about one attempt, another beside it: its records, its events, `SettledForGood`, `PendingResolved`, `ProcessingReleased`, and that `Payments` implements `AttemptLedger` |
| `lifecycle` | 3 calls, versions up to 5, none guessed; 258 thousand states | total, line items, reads, versions, state machine, and that late changes were let in |
| `system` | 2 calls, 2 requests, 2 keys, versions up to 6, guessed up to 2 ahead; 430 thousand states | payments come with later versions than everybody let in, payments stay safe, the composition implements `InvoiceLifecycle` |
| `totals` | words of 4 bits (`Half` is 8), up to 3 line items of 9 kinds, versions up to 3; 256 thousand states | stored invoices are sound, the total is the sum unless it exceeds twice `Half`, what a refusal costs |
| `pool` | 3 tasks of any kind, 2 connections, fairness; 278 thousand states | which transactions deadlock, and that silence holds up nobody else |
| `webhooks` | 1 event, 2 endpoints, batches of 1, 5 attempts, 1 lost result per delivery, fairness; 43 thousand states | received, retry budget, no post after the end, every delivery ends |
| `rate_limiter` | 4 requests, window 4, limit 2, delay up to 2, clock up to 8; 115 thousand states | what the limit guarantees when scripts run late |
| `double_charge` | 3 requests, 3 keys, no crash | **violated**: at most one successful payment per invoice |
| `paid_reopened` | 2 requests | **violated**: paid is terminal |
| `items_total` | 2 calls | **violated**: the total is that of the line items |
| `retry_schedule` | the code's constants; 1 million states | **violated**: from the fifth retry on the delay is 16 minutes |

Bounds. Two requests show every race between one attempt and the next, the third
is what a stale row of a batch needs: one attempt settled twice, one reopened, one
that claims what was reopened. Two keys are one shared and one not. Versions
start at the open invoice's and go as far as claims and settlements of two earlier
requests take them. One crash suffices for every cut through the other actions;
the theorems hold for any number. The webhook run keeps the code's five attempts,
and batches of one, smaller than the number of deliveries, make the LIMIT bite.
In the rate limiter the clock outlives the window, so entries and the key expire.
Invoices share nothing but the key space, so the runs of `Payments` have one; the
theorems hold for any number. `payments` and `payments_live` start where requests and
keys have their roles (`MostlyFirstKey`, `InOrder`): all other starts are renamings.

In `system` two calls are an edit and the finalize, the finalize and a void, or two
finalizations that a payment can meet; six versions are creation, one finalization and two
claims with their settlements, or both calls and one payment with one more claim.
With two calls an edit or a void beside a payment comes first, with version 1.
A finalize may guess up to 2 ahead, which is the version a claim leaves behind: `Reopened`
occurs, as `PaymentsStaySafe` without its exception is violated. Calls are those that write
the row in the largest number of ways: gets, edits without a due date or items and edits of other
businesses' invoices are in `lifecycle`. Crashes are left to `payments`; the theorem has them.

In `totals` 4 bits hold -8 to 7. Two items of 3 times 2 wrap to -4 and are refused; one
of 3 times 7 wraps to 5, positive again, as it is beyond 16, twice the range of the
positive numbers; -1 times -2 is the positive product of two negatives. So every way
for a total to be positive but wrong occurs.

In `pool` two connections for three tasks are contention as five for six would be: a
ring of two waiting for locks, or both connections taken, with a task outside. The
theorems hold for any number of tasks and connections.

Deadlock is checked in `totals` only: the other models stop when all requests are
answered, all calls are made or all tasks are over.

### What the violations say

* `double_charge`. The worker selects a pending attempt; its handler settles it as
  failed; the client pays again with the next version; the worker, still holding
  the old row, finds the invoice in processing and reopens it under the second
  attempt; a third request claims it; two charges succeed.
* `paid_reopened`. The worker settles an attempt as failed before its handler
  does; another request pays the invoice; the first handler then writes `open`.
* `items_total`. The second edit starts its DELETE while the first has deleted and
  not yet committed: it waits, then removes what it saw at its start, not what the
  first one inserted.
* `retry_schedule`. If every answer is 404, the 63rd retry is due 959 minutes after
  the payment; its backoff, 2 to the 63, has overflowed before `min(16)` sees it,
  and from then on the attempt is asked about in every tick.

Other differences between documentation and code, which follow from single lines or
were seen while reading, and have no run: an edit whose transaction has read a draft
writes line items and total after the invoice has left the draft state
(`API_DOC.md:220`: "Once finalized to `open`, the invoice is immutable");
`void_invoice` looks up the transition to `open`, so an open invoice cannot be voided
(`API_DOC.md:325`); the worker's query does not look at `active`, so deliveries made
before an endpoint's deletion are posted after it (`API_DOC.md:502`); a sum beyond 2
to the 64 can wrap to a positive total and is stored (`API_DOC.md:212`); the pay endpoint never answers 202 (`API_DOC.md:377`), and a wrong state is a
409, not a 422 (`API_DOC.md:401`); the first webhook retry comes after one minute,
not two (`API_DOC.md:544`).

### Fairness

`FairSpec` of Payments: a handler that runs goes on; the worker's loop never ends
(`payment_status_worker.rs:15`); time passes. A database error may end a tick at
any statement, so the expiry's SELECT and UPDATE have strong fairness: they are
possible again and again and do not fail every time. Nothing is assumed of the
provider's verdict or its silence, not even that an answer it has begun ends, as
the bodies are read outside the 5 second timeout
(`workers/payment.rs:29`, `payment_status_worker.rs:138`): a worker that is stalled
for ever settles nothing, so the liveness properties are promised unless it is. For
the same reason `Age` takes a handler to be over within the 24 hours after its claim. The
liveness is that of the release build the Dockerfile makes: in a debug build the
overflow mentioned above ends the worker's loop.

`FairSpec` of WebhookDelivery: the worker's loop never ends, backoffs elapse, and
the process stays up long enough, again and again, for a selected delivery to be
posted (strong fairness, as a crash can abandon any one batch). The result of a
POST is recorded but for `MaxLost` times per delivery: without that bound a
crash after every POST would post for ever, in the model as in the code.

`FairSpec` of ConnectionPool: the pool and the database serve their waiters in turn
(strong fairness of `Acquire`, `Lock` and `Release`), and the database breaks rings
of waiting transactions. HTTP has no fairness. That a silent provider holds up nobody
else is then a fact about the code: no task has a connection in hand when it talks.

## Proofs

All theorems are checked by TLAPS with the SMT, Zenon and LS4 backends, from the
named assumptions on the constants only.

*PaymentsProofs* (any sets of invoices, keys, requests and versions, any number of
crashes). The safety properties are not inductive by themselves; `IInv` adds

* `HandlerInv`: where a handler can be, given its attempt: unless the worker has
  interfered, the attempt of a handler in flight is pending, and never old;
* `WorkerInv`: what the worker's batch can hold: nothing expired in the first
  loop, only pending and old rows in the second. With `HandlerInv` this is why
  expiry never overwrites an outcome;
* `KeyInv`: key rows and attempts belong together one to one, for ever: it is the
  unique index, not the lookup, that makes keys idempotent;
* `VersionInv`: a claimed version is below the invoice's version. The worker and
  the expiry do not count it up, but the claim before them did;
* `AnswerInv`, `InvoiceInv` and `CleanInv`: on an invoice without stale settlement
  and expiry at most one attempt is live and the state shows which kind, so the
  unconditional second write is harmless exactly there.

`OutcomesAreFinal` then shows that the only second write an attempt ever gets
repeats the first. `Steps` reduces every step to the ten that write records.

*LedgerProofs*: `Spec => ImplementsLedger`. `OnePlace` shows that a step on one
attempt changes one place of the ledger; a first outcome is a `Resolve`, a second
one a stutter.

*LifecycleProofs* (any number of calls, any versions): types, total, line items,
versions, reads, `ChangesWereLetIn`; and, under `Ahead = 0`, `LegalTransitions`. That
assumption is needed there, and nowhere else: a client that guesses the next version can
have a finalize, whose check saw a draft, reopen the invoice after a concurrent edit or
voiding. `StateInv` is the heart of it: a
call about to write the state has seen a draft that still is one, or holds a version that
is used up. `DraftInv` needs no such assumption: the version bump lets edits into a draft
only, every end of the draft uses up a version above theirs, and payments find an invoice
that a finalize has won.

*SystemProofs*. First `Spec => ImplementsLifecycle`. `PayInv` is the little the mapping
needs of the payments' state: a handler that has charged and a row the worker holds belong
to an attempt. `PayEffects` sorts the steps of `Payments` into those that leave the
invoice's row alone, claims and settlements; a claim is a `PayClaim`, a settlement a
`PaySettle` or no step at all. So what `LifecycleProofs` shows of the row, line items and
calls holds of the composition (`LifeInv`), by an instance of that module.

`PaymentsStaySafe`, all eight invariants of `Payments` in the composition, does not follow
the same way: the composition does not implement `Payments`, whose invoices are finalized
beforehand and have no other writers. `PaymentsProofs` therefore keeps `IInv` in two
parts. `AttemptInv` speaks of attempts, keys, handlers, worker and answers, not of the
invoice's row, and is kept whatever others do to that row; so is, in the composition, the
refinement of `AttemptLedger`, which needs nothing else. `RowInv` is about the row:
claimed versions are below it, "processing" has a pending attempt, "paid" a charge, and
clean invoices are exact. `CallEffects` sorts what calls do to the row, and by `DraftInv`
only a finalize can still win once a payment is claimed, with a version above the
claimed one, which leaves "open": all of `RowInv` survives that but `CleanInv`, and from
then on the invoice is `Reopened` for good. `PaidAfterFinalization` adds that a claim
uses up the present version, which is above those of all who were let in (`VersionInv`
of `LifecycleProofs`), and that later only a finalize wins. None of these theorems
restricts the versions clients send.

*TotalsProofs* (any size of words, any quantities and amounts, lists of any length). The
sums are recursive functions, and what they compute is proved by induction in the form of
sets of numbers: `UpTo` says that a set with 0 that is closed under the next number up to a
bound has every number up to it, from the least element of what is missing. `SumIsCongruent`: the
wrapped sum differs from the true one by a multiple of the number of words;
`TrueSumIsPositive`: the true sum of positive items is positive. A positive word that
differs from a positive number up to twice the range by such a multiple is that number
(`CongruentIsEqual`): hence `TotalIsTheSum`, at 64 bits as at 4, and `SpentInVain`: an edit
that met its draft, with no past due date and a sum in range, is not refused.

*RateProofs* (any limit, window and delay, any requests): types, completeness of the
log, the rate within a window shorter by the delay, justified denials. `Times` bounds a script's
time by the time it read, `LogHolds` says what the sorted set contains and how long the key
lives. An admission counts, in the log it finds, at least the admissions that its window
holds, so the count stays within the limit; the sets counted are subsets of the finitely
many admitted so far, whatever the set of requests.

*PoolProofs* (any number of tasks and connections): types and the pool's bound, and
`DeadlocksAreEdits`. `Order` reads off each program what follows a lock: after an
attempt comes the invoice, after the key row the end; `LockInv` says what a task that
waits at a step can hold. Three links of a chain of waiting tasks then lead to two
edits.

*WebhookProofs* (any events, endpoints and retry limits): types, delivered means
received, the retry budget, ended deliveries are not posted. `FreshInv`: a task
inserts only rows that do not exist. `HeldInv`: the rows in the worker's hands are
pending and held once, which is why an ended delivery is not posted. `BudgetInv`:
posts are at most attempts counted, results lost and the one under way.

Only model-checked: liveness (`PendingResolved`, `ProcessingReleased`,
`DeliveriesEnd`, `SilenceHoldsUpNobody`), since fairness and ENABLED are out of the
prover's reach. Every invariant and action property the passing runs check is also proved,
and was checked by TLC before, as were the inductive invariants. `ImplementsLedger` of the
composition is proved and in no run: TLC finds it true on the instance of `system`, but both
refinements together take the run too close to five minutes.

## Not modelled

Customers, businesses, API keys, field validation, error formatting and start-up
have no behaviour of their own: single statements, or one transaction of inserts into
rows nobody else has seen. `ConnectionPool` has the connections they take. Signatures,
payloads and messages are data no property is about. Lists of invoices, customers and
endpoints are one SELECT each and change nothing.

## Plan

1. Proofs about `RetrySchedule`: how many retries fit into 24 hours, and that the delays are
   the documented ones up to the overflow.
2. The webhook's minutes, 1, 2, 4, 8 where `API_DOC.md:544` has 2, 4, 8, 16, beside
   `RetrySchedule`.
3. Webhook dispatch in the composition, so that events are those of settlements and
   finalizations that occurred.
