# Verification of the loyalty points transfer engine

The engine moves points from one loyalty program to another: it debits the
user's source account, asks the destination program's partner to credit the
member over HTTP, and settles or compensates. These modules model that saga and
what finishes it after a crash, and the parts around it: idempotency, the
circuit breaker, rates and their cache, row locks, the rate limiter and the
queries. TLC checks them on small instances, and TLAPS proves their safety
properties for every instance.

## 1. Inventory

| Part (source) | State | Operations | What makes it hard | What it should guarantee | Module |
|---|---|---|---|---|---|
| Transfer saga (`services/transfer_service.py`) | transfer row, request locals | `_debit_source`, `_mark_submitted`, `credit_points`, `_apply_partner_outcome`, `settle_transfer`, `reverse_transfer` | crash between any two commits; reconcilers on the same row | the engine and the partner agree; no points lost or paid twice | `TransferSaga` |
| State machine (`domain/transfer_state.py`) | status, event trail | `record_creation`, `transition` | several actors move one row | a reached resolution can be committed | `TransferSaga` |
| Ledger (`services/ledger.py`) | balances, journals, row locks | `post_journal`, `lock_accounts_for_update` | concurrent debits of one account, lock order | books balance, no overdraft, each journal once, no deadlock | `TransferSaga`, `LedgerLocks` |
| Partner call (`partners/resilience.py`, `http_partner.py`) | attempts, deadline, breaker | attempt, retry, deadline, breaker transitions | timeouts of applied requests; late results | an unknown outcome is never reported as not sent; one trial at a time | `TransferSaga`, `CircuitBreaker` |
| Partner (`partner_simulator/`) | credits by reference | `create_credit`, `get_credit` | late application, lost answers | idempotent on the reference | `TransferSaga` |
| Reconciliation (`services/reconciliation.py`, `workers/reconciler.py`) | lease, attempts, claimed batch | `claim_due`, `reconcile`, `_apply`, `_reverse_interrupted`, escalation | stale answers, expired leases, failing rounds, the admin endpoint | no wrong resolution, no transfer in limbo | `TransferSaga` |
| Idempotency (`services/idempotency.py`, `api/idempotency.py`) | key row, Redis lock | `begin`, `complete`, `release`, cleanup | Redis down, take-over of a slow request, released keys | the handler runs alone, faithful replays, points moved once | `Idempotency` |
| Rates (`rate_engine.py`, `rate_repository.py`, `rate_admin.py`, `rate_cache.py`) | versions, bonuses, cache | conversion, new version, invalidate, fill | rounding, overlapping intervals, stale fills | the right version, bounded staleness | `RateEngine`, `RatePricing` |
| Rate limiter (`cache/rate_limiter.py`) | window counter | `hit` | window edges, Redis down | at most the limit per window | `RateLimiter` |
| Queries (`services/transfer_queries.py`) | none | cursor pagination, details | inserts between pages, changes between statements | no transfer skipped or repeated | `TransferQueries` |
| HTTP shell, logging, metrics, scripts | none | | | | not modelled |

`PROJECT.json` lists every part with its status, the lines each definition
models, and the hazards with the properties that would catch them.

## 2. Modules

| Module | Content |
|---|---|
| `TransferContract` | What the engine promises about one transfer: points are held, then delivered (the partner credited) or returned (it did not, and never does). |
| `TransferSaga` | Saga, state machine, ledger, partner call, partner and reconcilers in one specification, with the properties and the fairness. |
| `Idempotency` | The layer around POST /v1/transfers: Redis lock, key record, handler, retries, cleanup. |
| `CircuitBreaker` | One partner's breaker with all the calls that share it. |
| `RateEngine` | Conversion, limits, intervals and `get_route` as pure operators. |
| `RatePricing` | Rate changes, bonuses, cache, quotes and transfers of one route at the same time. |
| `LedgerContract` | What the engine takes a ledger transaction for: one step that changes all its balances, or none. |
| `LedgerLocks` | The inside of the ledger transactions that `TransferSaga` takes for one step: one row lock, one update at a time. It implements `LedgerContract`. |
| `RateLimiter`, `TransferQueries` | The fixed window, the cursor and the page, as pure operators. |
| `TransferRoutes` | POST through the limiter, the list page by page and the details of a transfer, interleaved. |
| `MC...` | Values of the constants for TLC. |
| `TransferSagaProofs` | The theorems about the saga (section 4): types, agreement with the partner, the refinement, the stuck window, and what is written to a row. |
| `TransferLedgerProofs` | The theorems about the saga that need sums or powers: balances and the schedule. |
| `IdempotencyProofs`, `CircuitBreakerProofs`, `RatePricingProofs`, `LedgerLocksProofs`, `TransferRoutesProofs` | The theorems about the other modules. |
| `ArithmeticLemmas` | What the proofs need of sums over finite sets, powers of two, least elements and division. |

Definitions whose comment begins with "Variant" are plausible bugs of the
definition that follows them; `PROJECT.json` pairs each with the property that it breaks.

### How `TransferSaga` corresponds to the code

* **Tables.** `user_balance`, `clearing`, `settlement` are `accounts.balance` by
  account type; `journals` holds the journal types posted per transfer. `status`,
  `created_at`, `next_verification_at`, `verification_attempts`, `failure_code`
  are columns of `transfers`, `events` is `transfer_events`. `NO_ROW` stands for
  a transfer not yet inserted, `NoTime` for NULL.
* **Requests.** Request `t`, if it gets through, creates transfer `t`. `pc` is
  where `create_transfer` stands: `new`, `debited`, `submitted`, `ready` and
  `waiting` (inside the partner call), `outcome`, `done`; `refused` is a business
  error and `dead` a crash, a failed database step or a 5xx. `result`,
  `possibly_applied`, `tries`, `call_started` are the locals of
  `ResilientPartnerAdapter.credit_points`.
* **Transactions.** A `unit_of_work` is one action. It locks the transfer row,
  re-reads it, and only then decides, so nothing that concerns the transfer can
  come between; a failed one leaves nothing behind (`Interrupted`, `RoundFails`).
  That balances shared with other transfers do not come between either is what
  `LedgerLocks` shows (`TransactionsAreAtomic`).
* **The partner call** is made outside any transaction and is many actions:
  `SendAttempt`, then one of `AttemptSucceeded`, `AttemptRejected`,
  `AttemptNotSent`, `AttemptUnknown`. `PartnerApplies` may happen while an
  attempt waits, and for up to `MaxLate` after the client gave up on it.
* **Reconcilers.** A member of `Workers` is an activity that reconciles: a worker
  loop or an admin call. `ClaimDue` is `claim_due` with order, limit, lease and
  SKIP LOCKED (any row another actor is about to write may be skipped).
  `Reconcile` is the snapshot and the decision from it, `PartnerReplies` and
  `StatusKnown` the status check, `Apply` and `ReverseInterrupted` the
  transactions. `_apply` reads the clock before it takes the lock; `since`
  remembers that moment. `RoundFails` is any exception, stop or crash.
* **Time** is one discrete clock. `Tick` cannot pass a partner call's or a status
  check's deadline while it runs (`asyncio.timeout`), nor `PrepMax` after
  `created_at` while a request has not reached its partner call, nor `OutcomeMax`
  after the call's deadline while its outcome is being written (pool, statement and
  lock timeouts bound both).

Abstractions: the conversion is part of the request (`destination_points`);
whether the circuit breaker admits an attempt is free; an attempt that could be
retried may also end the call, because the jittered delay may not fit the budget;
a batch is worked through in any order; `now` of `claim_due` and of
`_apply_partner_outcome` is the moment of their commit; database and application
clocks agree; `completed_at`, `updated_at`, messages and metadata are left out.

### The other modules

**`Idempotency`.** `pc` follows a request through `run_idempotent`: the lock
(`AcquireLock`, with an answer that may be lost either way), the three steps of
`_claim` (`ClaimLoad`, `ClaimInsert`, `ReadWinner`: at READ COMMITTED each
statement sees what is committed by then), the handler (`Refuse`, `Debit`,
`Details`, `HandlerRaises`), `Complete` or `Release`, `ReleaseLock`. `record[k]`
is the row of `idempotency_keys`, found again by its id as the code does;
`transfer[k]` is the row that `uq_transfers_user_idempotency_key` allows once.
`Crash` may happen anywhere, `RedisForgets` at any time, and a client repeats its
request until it has an answer. Times are ages and stop where no comparison in
the code tells them apart.

**`CircuitBreaker`.** Everything between two awaits is one action: `Turn` asks
the breaker, then the budget, then sends; `Succeeds`, `Fails`, `TimesOut` record
the result and decide on a retry. `Raises` is an exception the HTTP adapter does
not classify, or a cancelled task: nothing is recorded. `lost`, `streak` and
`quiet` are history.

**`RatePricing`.** `StampRate` is `create_rate_version` up to `clock_timestamp()`
under the advisory lock, `CommitRate` the rest with the commit, `Invalidate` what
follows it. A quote reads its clock, then `CacheHit` or `CacheMiss`, `LoadRate`,
`LoadBonus` (statements with snapshots of their own), `CacheSet`; a transfer goes
to the database. Routes share nothing, so there is one. It may start with any
table that rate changes can leave behind (`History`: numbered versions that follow
each other without a gap, the last one open); that the seed writes such a table
is an assumption.

**`LedgerLocks`.** A transaction is a debit, a settlement or a reversal. It takes
the transfer's row, then accounts in the order of their ids FOR NO KEY UPDATE; a
debit checks the balance, inserts (unique key, then FOR KEY SHARE on the accounts
it references, in any order); then the updates, then the commit. `Abort` may end
it anywhere. `ShareConflicts` says whether the two lock modes exclude each other;
in PostgreSQL they do not.

**`TransferRoutes`.** `Post`, `Hit`, `HitFailsOpen` are the limiter, with an INCR
that reaches Redis up to `MaxLag` after the clock was read; `Begin` and `Commit`
bracket the insert, so that rows appear later than their `created_at`;
`Transition` writes status and event together. One reader walks the pages or reads
one transfer in the two statements of `get_transfer_details`.

## 3. What TLC checks

| Run | Instance | Shows |
|---|---|---|
| `saga_race` | 1 request, 2 reconcilers (symmetric), 2 attempts, late application | `PartnerAgreement`, `InterruptedNeverSent`, `ScheduleFitsStatus`, `ResolutionNeverRaises`, `RecordsMatchStatus`, `TypeOK`, and that the saga implements `TransferContract` |
| `saga_ledger` | 4 requests, shared accounts, one key used twice, 1 reconciler, batch of 2 | `NoOverdraft`, `OneTransferPerKey`, `BalancesMatchTransfers`, `ProgramBalancesSumToZero` |
| `saga_liveness` | 1 request, 2 reconcilers, fairness | `EveryTransferResolves` |
| `saga_window` | stuck window longer than `PrepMax + Deadline + OutcomeMax` | `LiveRequestUntouched` |
| `tight_grace` | grace of 3 against a deadline of 2 | **violates** `NotReceivedIsFinal` |
| `tight_window` | window of 3 against a deadline of 2 | **violates** `LiveRequestUntouched` |
| `idempotency` | 2 clients of one key, same or different bodies, 1 crash or exception, a balance that covers one debit of the larger body | `RunsAlone`, `ReplayAnswersTheRequest`, `PointsMovedOnce`, `PromptAnswerIsKept`, `EveryClientIsAnswered`, `TypeOK` |
| `retry_answer` | the same with one body | **violates** `BusinessErrorMeansNoTransfer` |
| `breaker` | 3 calls, threshold 2, 2 attempts, 1 exception | `TrialIsAlone`, `TrialIsMade`, `PartnerIsLeftAlone`, `Recovers`, `TypeOK` |
| `rates` | 2 admins (symmetric), 1 quote after another, 1 transfer, 2 versions, overlapping bonuses to choose from | `OneVersionApplies`, `TermsNeverChange`, `PricedInForce`, `BonusIsReal`, `QuoteIsRecent`, `SplittingNeverPays`, `TypeOK` |
| `locks` | 3 debits in both directions, a settlement and a reversal of one transfer | `NoWaitCycle`, `DebitNeverBounces`, `TransactionsAreAtomic` (it implements `LedgerContract`), `TypeOK` |
| `routes` | 3 transfers (1 there before), pages of 1, limit of 1 | `WindowLimit`, `RetryLeavesWindow`, `WalkIsComplete`, `TimelineCoversStatus`, `TypeOK` |

**Bounds.** *Saga:* one transfer is enough for agreement, since transfers share
only accounts; two reconcilers give every race between them and with the request.
`Horizon` lets the grace end and a status check run after it; times beyond it are
treated as the horizon, so nothing scheduled is lost. `LastArrival` keeps
requests from starting late. `OutcomeMax` reaches past the horizon, and so bounds
nothing, except where the window is the question: there it is 1, and the window of 5
is one more than `PrepMax + Deadline + OutcomeMax`. The ledger run drops timing depth for the number of
requests: the accounts hold less than the requests together ask for.
*Idempotency:* two requests give every race for a key; four ids are never all in
use, so a new row always finds one; a lock TTL of 1 and a key TTL of 2 make
take-over and expiry happen within a request. *Breaker:* three calls are a trial,
a call that is refused and one whose result comes late; the cooldown of 4 is just
longer than a call (2) with its lag (1). *Rates:* within `MaxTime` = 4 a version
is replaced, a bonus begins and ends, and an entry of TTL 2 outlives both.
*Locks:* two debits of one account, two with one key in opposite directions and
two resolutions of one transfer; ids mix the accounts of users and of the system.
*Routes:* a window is two seconds of two ticks each, so that Retry-After has to
round; late commits and equal `created_at` occur. Deadlock is not checked where
the clock or the work runs out by design (the saga, `locks`, `routes`), nor in
`idempotency`, where clients that are answered stop.

**Fairness.** *Saga:* the clock and a live request's steps are weakly fair (an
awaited call ends by its deadline); so is the end of every status check. One
designated worker polls for ever, as the loop in `workers/reconciler.py` does,
which catches every failed round, and is strongly fair in the steps it reaches
again and again: its rounds may fail, but not always at the same point. All other
reconcilers may stop or fail for ever, and nothing is assumed of the partner.
*Idempotency:* the clock and the steps of every request, the client's retry
included (`EveryClientIsAnswered` is about a client that keeps asking); crashes
are bounded. *Breaker:* the clock, the end of every attempt (`asyncio.timeout`)
and of every sleep; that calls keep coming is an assumption on the traffic,
without which no breaker closes. No other specification needs fairness.

### Where documents and code differ

Three runs show a statement of the repository that the code does not keep:

* **The windows** (`tight_grace`, `tight_window`). Both run from `created_at`. The
  validator in `app/config.py` compares them with the partner deadline alone,
  which starts only with the partner call. With settings it accepts, a request can
  outlive the stuck window and a credit can land after a reversal as not received,
  although `reconciliation.py` says that a live request is never touched and that
  no earlier request can still land. The default values leave ample room; the
  validator does not ensure it.
* **"Business errors (4xx) mean no transfer was created"** (`retry_answer`,
  `api/routes/transfers.py`). A retry that takes over the record of a request which
  died after its debit meets the balance check before the unique key, and is told
  INSUFFICIENT_BALANCE although its transfer exists. `PointsMovedOnce` holds in the
  same model: no points are lost, but the answer is wrong and is stored.

Smaller differences, stated in the properties or assumptions as the code has them:

* `README.md` says that a key with a different body is answered 422. After a
  release (5xx) or a take-over the record is gone, and the other body runs.
* `rate_engine.py` says that rounding favours the platform by less than one point.
  That is true of each of the two steps; with a bonus the total may differ by more.
  What holds of the total is `SplittingNeverPays`.
* `rate_cache.py` says that an entry never lives past `valid_until`. Its TTL counts
  from a clock read before the load, so it may by the time of one load: hence
  `MaxLoad` in `QuoteIsRecent`. `BonusIsReal` holds because the price checks the
  bonus' period again.
* A rate change is in force from `clock_timestamp()`, a moment before its commit;
  who prices in between uses the old version (`MaxCommit` in `PricedInForce`).
* A half-open trial that ends in an exception the HTTP adapter does not classify
  (an `httpx` error that is no `TransportError`), or in a cancellation, is never
  recorded, and the breaker then admits nobody: `lost` in `TrialIsMade` and
  `Recovers`.
* Nor does anything validate that the cooldown outlasts a call
  (`CooldownOutlastsCall`; the defaults keep it). With a cooldown no longer than the
  deadline, a call that sleeps between its attempts while the breaker opens may come
  back late as the trial, find its budget spent and leave without an attempt
  (`resilience.py`, 209-218): the trial is lost as well. `TrialIsMade` and
  `TrialIsAlone` say that this does not happen where the cooldown is long enough.
* The limiter keeps its counter one second longer than its window. `WindowLimit`
  therefore assumes that INCR reaches Redis within a second of the clock read
  (`MaxLag <= Second`); the socket timeout of one second justifies it once a
  connection stands.
* `get_transfer_details` reads the transfer and then its events, so a timeline may
  be ahead of the status beside it, but never lacks it (`TimelineCoversStatus`).
  A transfer that commits during a walk and is newer than the cursor is not listed
  in that walk; `WalkIsComplete` speaks of those that were there.

## 4. What TLAPS proves

Every invariant and action property that a passing run checks, except one that
states ENABLED, for any number of requests, users, programs, reconcilers, calls,
transactions and accounts, and any settings the assumptions of the module admit.

**Saga.**

* `TypeCorrect`: `Spec => []TypeOK`, one lemma per group of actions.
* `AgreementHolds`: `Spec => []PartnerAgreement`, assuming
  * `GraceCoversInFlight`: the grace exceeds `PrepMax + Deadline + MaxLate` (the
    last moment a credit can land) by more than one further `Deadline`, because
    the answer NOT_FOUND may be that much older than the clock read by `_apply`;
  * `RejectIsFinal`: a partner that refused a reference never applies it. The code
    relies on it: a 4xx after an UNKNOWN attempt reverses at once. Without it TLC
    finds an attempt that ends UNKNOWN, a retry that is rejected, the reversal, and
    then the application of the first attempt. The simulator can behave like that
    when its mode is changed to REJECT while a SLOW request is under way.
* `ContractImplemented`: `Spec => ImplementsContract` under the same assumptions.

`PartnerAgreement` is not inductive: that a reversal is right depends on what is
still in flight. The strengthening `AgreementInv` says, per transfer, how far the
request can be for each status (`StageInv`), what the call's locals tell about
the partner (`CallInv`), when anything in flight must have landed (`TimeInv`),
what a reversed transfer may still have in flight, namely nothing (`ResolvedInv`),
and, per reconciler, what an answer in hand tells (`TaskInv`: COMPLETED means
credited; NOT_FOUND means not credited, or asked too early to matter). The
refinement uses the same invariant: it makes every `PartnerApplies` happen while
the points are held.

* `NeverOverdrawn` (`NoOverdraft`), `KeyCreatesOne` (`OneTransferPerKey`),
  `BalancesTellTransfers` (`BalancesMatchTransfers`) and `PointsAreConserved`
  (`ProgramBalancesSumToZero`), from the assumptions on the constants alone.
  `LedgerStep` reduces every step of every actor to one of five: the tables stay, a
  transfer is debited, moves on, is settled or is reversed. Each invariant is then
  a matter of these five. Those about sums use `SumChange`: changing one value
  changes a sum by as much. `BalancesTellTransfers` has three parts: clearing holds
  the open transfers (`ClearingIsOpenTransfers`), and for settlement and for user
  accounts each of the five steps changes the balance by what it changes in the sum
  of the moves (`SettlementChange`, `UserChange`, `SumFollows`). That the books
  balance at the start is `SeedAssumption`, what `scripts/seed.py` does: it opens
  every account with a balanced journal.
* `RecordsTellStatus` (`RecordsMatchStatus`): the journals of a transfer
  (`JournalsFollowStatus`) and its events are those of its status. The trail of
  a reversed row depends on its failure code: one reversed as interrupted has no
  PARTNER_SUBMITTED on its way, one reversed as not received may have been verified
  before or not. Every write leaves the row it moves with its trail, and all others
  alone (`Trails`); an escalation from PARTNER_SUBMITTED records the
  PENDING_VERIFICATION it passes through.
* `ScheduleIsKept` (`ScheduleFitsStatus`): a row that waits for verification has a
  next check, none is put off beyond the longest wait of the settings, and a resolved
  one has none. Every time that a next check is computed from is at most now, and a
  delay or a backoff, however often it has doubled, is positive and at most one of
  `Waits` (`ScheduleInv`, `BackoffWaits`).
* `CodesTellStatus`: the reversal codes are on REVERSED rows and nowhere else, and
  VERIFICATION_EXHAUSTED on rows an operator has. With it `NotReceivedStaysTrue`
  (`NotReceivedIsFinal`) follows from `AgreementHolds`, under its assumptions:
  `tight_grace` shows that the validator's comparison is not enough for it.
* `ResolutionsAreLegal`: once a transaction that resolves a transfer has checked the
  status under the row lock, its journal is not yet posted and all its moves are
  declared. This is the content of `ResolutionNeverRaises` without ENABLED.
* `InterruptedWasNeverSent` (`InterruptedNeverSent`), from the assumptions on the
  constants alone. As long as no status past SOURCE_DEBITED is committed, nothing
  was sent and the request is at its beginning or gone; a reversal as interrupted
  starts from such a state, and the request then finds its row resolved (`Unsent`).
* `LiveRequestIsLeftAlone` (`LiveRequestUntouched`), assuming `WindowCoversRequest`:
  the stuck window exceeds `PrepMax + Deadline + OutcomeMax`. This is what the
  validator does not ask for; `tight_window` shows that a window longer than the
  deadline is not enough. A request is live from its debit until its outcome is
  committed or it has failed. A live request is on time and its transfer in a status only it changes (`Timely`), so a row that is
  due belongs to a request that is over (`Attends`).

**Idempotency.** `HandlerRunsAlone` (`RunsAlone`), `ReplayIsOwn`
(`ReplayAnswersTheRequest`), `PromptAnswerKept` (`PromptAnswerIsKept`),
`KeyPaysOnce` (`PointsMovedOnce`) and `IdempotencyTypeCorrect`. The Redis lock
plays no part in the argument; the record's id does. A running
request knows its row by an id nobody else has, and the row is there, unfinished and as old as the claim, while the request is younger
than the lock TTL (`ClaimHolds`). A row that a claim is about to delete is
reusable and stays so, although it is not read again (`SeenIsReusable`). A
finished row answers its own fingerprint (`RowAnswers`), and so does whatever a
request stores or is told (`SpeaksOfItsBody`). `KeyPaysOnce` needs only the types:
what the balance lacks is a sum over the keys, and a handler changes it and the
balance together, for a key that has no transfer yet.

**Breaker.** `LeftAlone` (`PartnerIsLeftAlone`) and `BreakerTypeCorrect` hold for any
positive settings, `TrialAlone` and `TrialMade` assuming `CooldownOutlastsCall`. The
invariant has two parts for that reason: `Bookkeeping`, which every setting keeps, and
`Trials`, which rests on the cooldown. A call under way while the breaker is open was admitted before it opened, hence is at
least as old as the opening (`Ages`); when the cooldown is over none is left, and
the trial is alone. `Counts` ties the code's counter to the failures since the last
success, `InFlight` the flag to the state.

**Rates.** `ExactlyOneVersion` (`OneVersionApplies`), `TermsAreKept`
(`TermsNeverChange`), `TransfersPricedInForce` (`PricedInForce`), `BonusesAreReal`
(`BonusIsReal`), `SplittingIsNoGain` (`SplittingNeverPays`), `QuotesAreRecent`
(`QuoteIsRecent`) and `PricingTypes`, from three invariants on top of each other.

* `IInv`: a change closes the open version at the moment its own begins, and the
  CHECK on the period refuses one that would end as it begins, so the table stays a
  `History`. A row keeps its terms and its beginning, and its end only ever moves
  to a moment at most `MaxCommit` ago; a transfer that found a version in force
  therefore stays backed by it (`Backed`), whatever is committed later. Bonuses are
  never deleted, so one that was loaded or is cached is a row (`Known`), and the
  price checks its period again.
* `SoundInv`: rows obey the CHECK constraints, and every price is the value of its
  amount under the terms of its version (`Worth`). The value is superadditive,
  because both divisions round down.
* `RecentInv`: versions begin and end at moments of changes (`TableInv`), so between
  two changes one version applies and bonuses come and go by the clock alone; a
  cache entry was loaded for some moment, was current then, and expires at most one
  load too late (`EntryInv`).

The rows an installation starts with satisfy the CHECK constraints and have begun
(`OpeningAssumption`); `create_rate_version` never makes one that begins later.
`QuoteIsRecent` has a case that needs two quotes at the same time: one fills the
cache after a bonus has ended, the other, which read its clock before that, hits
the entry and misses the bonus that ended meanwhile. The `rates` run has one quote
after another, so it does not show this case; TLC confirmed the property on an
instance with two quotes and one admin (19,582,505 states), which is too large to
be kept as a run.

**Locks.** `NoDeadlock` (`NoWaitCycle`), `WaitsGoForward`, `DebitCovered`
(`DebitNeverBounces`), `TransactionsAtomic` (`TransactionsAreAtomic`) and
`LocksTypeCorrect`. `Staged` says what a
transaction has locked in each phase and that the locked ids are below the ones
still to be locked, `Exclusive` that no account is locked twice. A wait therefore
goes to a transaction further ahead; the distance to the end of the protocol is a
natural number that decreases along every wait, and a nonempty group has a member
at which it is least: that one waits for nobody of the group.

`TransactionsAtomic` is the refinement of `LedgerContract`. What is committed
(`Committed`) is the balance without the updates of transactions that have not
ended; since only the holder of a row lock updates it, at most one such transaction
counts per account (`OnlyPoster`). `AtomicInv` adds that what a transaction has
checked under its locks is still true of what is committed: the balance covers the
debit, the key has no transfer, the transfer has no resolution (`DebitReady`,
`ResolveReady`), and that no two hold one key or one transfer row (`KeysExclude`).
A commit is then a step of the contract, and every other step, a rollback included,
is a stutter.

**Routes.** `LimitHolds` (`WindowLimit`), `RetryIsCounted` (`RetryLeavesWindow`),
`TimelineIsUpToDate` (`TimelineCoversStatus`), `WalkListsAll` (`WalkIsComplete`) and
`RouteTypes`.

* `LimitInv`: until no INCR for a window can come any more, its counter has not
  expired and is at least the number it let in. This is where the extra second of
  the TTL is needed.
* `RetryLeavesWindow` is inductive with the clock (`ClockInv`): rounding the rest of
  the window up to seconds never ends before the window.
* `SeenInv`: the events shown are those of a later moment than the status shown, and
  status and events of a row grow together (`RowInv`).
* `WalkInv`: what a walk has listed is not older than its cursor, what was there when
  it began and is not listed is older, and nothing is listed twice. A page is a
  prefix of the matching rows in the query's order (`ListPage`). That such an order
  exists is a lemma too (`NewestSorted`): each row is put at the position that the
  number of newer rows gives it. New rows and late commits do not disturb it, since
  rows keep their time and id.

`RoutesAssumption` asks for finitely many requests, and `QueriesAssumption` for a
value that is no cursor.

**Sums and powers.** `ArithmeticLemmas` proves what the library's folds compute on
every finite set. The induction is by least counterexample: a set of the smallest
size for which a claim fails has a member whose removal leaves a set for which it
holds.

**Only model-checked.** Liveness (`EveryTransferResolves`, `EveryClientIsAnswered`,
`Recovers`), because fairness is outside the prover; `ResolutionNeverRaises`, because
ENABLED is (`ResolutionsAreLegal` is what can be proved of it). The properties of the
`violation` runs are false for the settings of those runs; `LiveRequestUntouched`
and `NotReceivedIsFinal` are proved for settings that leave enough time, and
`BusinessErrorMeansNoTransfer` is not kept by the code.

## 5. Not modelled

* Logging, metrics, middleware, health checks, schemas and presenters, error
  texts, masking, containers, the seed and demo scripts, migrations: no state that
  a property speaks of.
* Refusals without state: inactive programs, the platform's limit on a transfer,
  equal source and destination programs, header and body validation. `Refuse` in
  `TransferSaga` and `Idempotency` may happen at any time and stands for them.
* The JSON form of a cache entry, the text form of a cursor and the fingerprint's
  hash: the models keep the fields. A collision of fingerprints is excluded.
* Errors that the checked properties exclude or that no state depends on:
  `validate_journal` and the CHECK on balances are not asked in `PostJournal`
  (`NoOverdraft`, `ProgramBalancesSumToZero` and, with every lock and statement,
  `DebitNeverBounces` say that they have nothing to refuse); a cursor that cannot be
  decoded is answered INVALID_CURSOR before any query.
* A transfer whose resolution raises in every round for a reason outside the model
  (data it cannot parse, say): `run_once` logs it and goes on, and it stays due.
  `ResolutionNeverRaises` says that no reachable state is such a reason. One that the
  model cannot have is the range of `timedelta`: `backoff` doubles the base before it
  takes the minimum, and overflows if `reconciliation_max_attempts` (5 by default)
  allows more than some forty inconclusive checks.
* Balances, programs and rate listings: one query each, shown as read.
* The simulator's controls (failure modes, reset): its answers are free choices,
  restricted only by `RejectIsFinal`.
* Clock skew between processes, and PostgreSQL and Redis beyond the guarantees the
  code relies on: READ COMMITTED, row locks, unique keys, atomic commits; SET NX,
  INCR and TTLs.
