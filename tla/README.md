# YieldVault-RWA: a TLA+ verification project

YieldVault-RWA is a vault for tokenised real-world assets on Stellar. A Soroban
contract (Rust) keeps the shares, the assets behind them and the rules about who
may change what; an Express server (TypeScript) signs and submits operations,
copies on-chain events into a database and serves a React client. This directory
models the parts where the order of steps matters, model-checks them with TLC on
small instances, and proves the most important results with TLAPS for every
value of the constants.

Paths below are relative to `src/`. `PROJECT.json` maps every definition to the
lines it models and lists the hazards each property is for.

## 1. Inventory

### The contract (`contracts/vault/src`)

| Part | State | Operations | What is hard | Correct when |
|---|---|---|---|---|
| arithmetic (`math.rs`, `fee_math.rs`) | none | conversions, fee | rounding direction, width of i128 | rounding never favours the caller |
| ledger (`lib.rs`) | totals kept twice, share balances, pending withdrawals, watermarks, fees | deposit, batch, withdraw, execute, invest, divest, rebalance, yields, claim | long sequences of legal calls; the same funds in four books | shares owned, claims covered, custody, price never falls |
| governance (`lib.rs`, `emergency.rs`, `upgrade.rs`) | admin and nominee, approvers, proposals, ballots, pause and reason, version | rotation, pause, emergency proposals, votes, upgrade | roles that change between two signatures | two signers, once, by majority, by nomination |
| shipments (`lib.rs`) | status of each id, one sorted index per status | add, move, paged query | pages read while the index changes | index exact; a scan misses and repeats nothing |
| checkpoints (`lib.rs` 699-763), oracle (`oracle.rs`) | records nothing acts on; none | record, read back; validate | nothing that another entry point sees | not modelled |

A call of the contract is atomic: an error or a panic reverts it. So there is
no interleaving inside a call, and the hazard is the sequence of calls by
different parties.

### The server (`backend/src`)

| Part | State | What is hard | Correct when |
|---|---|---|---|
| nonces (`walletNonce.ts`, `middleware/walletSignedAction.ts`) | nonces in memory or Redis | copies of a request, expiry, two-step writes | a nonce is a single-use token, issued for this wallet and action; their number is bounded |
| vault endpoints (`vaultEndpoints.ts`) with idempotency store, wallet lock, daily limit, Soroban client | lock set, completed and pending keys, overrides, rows | overlap at every await, lost replies, failed writes, restarts | locks exact, no resubmission, a success is recorded, everybody answered, the limit passed only by overlap |
| circuit breaker (`circuitBreaker.ts`) | state, window, time of opening | calls that return under another state | opens when it must, closes again |
| event polling (`eventPollingService.ts`) | cursor, processed events, leader lock, timers | overlapping activities with a stale cursor, partial pages, crashes | loses nothing but what a page left out; catches up |
| webhooks (`webhookDelivery.ts`) | endpoints, deliveries, dead letters | writes of what was read before an await; retry timers | only endpoints that answered are sent to; letters match failures; everything settles |
| email queue (`emailQueue.ts`) | rows with a status and a retry count | sent but not recorded; crash while processing | duplicates and stranded rows have a fault behind them; the rest settles |
| scheduled jobs and shutdown (`apySnapshot.ts`, `dbBackupJob.ts`, `jobGovernance.ts`, `gracefulShutdown.ts`) | timers, backups, APY table and its copy, connections | jobs against shutdown, backfill against the nightly job, pruning after failures | a whole backup is kept; the copy follows the table; the process ends |
| latency alerts (`latencyMonitoring.ts`) | windows of measurements, last alert | two sources of alerts, lost sendings | spaced, and sent in the end |
| sessions (`auth.ts`) | refresh tokens and families in Redis | two refreshes of one token, replay against rotation | one usable token, revoked for good |
| impersonation (`impersonationSessionService.ts`) | sessions and ledger in two stores | each write may go to the other store | what is shown is in the ledger; ended is over |
| API keys, admin changes (`apiKeyAuth.ts`, `apiKeyAudit.ts`, `adminReceipt.ts`, `adminAudit.ts`, `index.ts`) | keys, switches, receipts, trail | change first, record after an await | what is in force is documented |
| filters (`middleware/*`, `index.ts`) | configuration, maintenance flag, audit log | order of the filters, writes that await a signature | under maintenance the writes drain |
| rate limiter (`rateLimiter.ts`), cache (`middleware/cache.ts`) | counters, cached answers | windows, rounding, stores after invalidation | bounded, and staleness explained |
| lists (`pagination.ts`, `listEndpoints.ts`, `transactionEndpoints.ts`, `dateRange.ts`) | cursors of clients | lists that change between pages, ties | nothing missed, nothing twice |
| referrals (`referralService.ts`) | codes, relations | two codes for a wallet, yield from history | credited to the owner, with the yield that accrued |
| exports (`exportJobs.ts`, `bulkExportJobs.ts`) | jobs, rows, checksums | writes nobody waits for | downloads recorded; a row lags only when a write went astray |

Node runs one continuation at a time: the steps of a handler between two awaits
are atomic, and every await is a point where any other handler, timer or admin
call may run. That is where the models cut handlers into actions.

### The web client (`frontend/src`)

| Part | State | What is hard | Correct when |
|---|---|---|---|
| HTTP calls (`lib/api`) | attempts of a call | answers lost after the server acted | only safe calls are repeated |
| query cache (`useVaultMutations.ts`) | cached data, snapshots | roll-back over newer data | optimism is corrected |
| wizard (`VaultDashboard.tsx` and hooks) | URL, form, allowance, summary | handlers that wait and bring back old parameters | one submission, as shown, approved |
| wallet session (`WalletConnect.tsx`, `AuthContext.tsx`, `App.tsx`) | flags in the browser, timers | polls that answer late, other tabs | the user's disconnect and the expiry stand |
| network (`usePolling.ts`, `useRetryState.ts`, `OfflineBanner.tsx`), health light (`useHealthStatus.ts`), timeline (`useTransactionTimeline.ts`) | last answers, timers | answers out of order, hung fetches | what is shown is explained; stale data is renewed |
| pages (`Portfolio.tsx`, `TransactionHistory.tsx`, filters, preferences) | URL, boxes, loads, local storage | writes over a URL not rendered yet, superseded loads | choices kept, holdings owned |

A browser tab runs one event at a time too. What is cut into steps here: awaits,
timers, and the rendering of React, which lets a handler run with the values of
an earlier render.

### How the parts meet

A client asks the server for a nonce, signs, and posts a deposit or withdrawal.
The server checks nonce, limit and lock, submits a contract call through the
circuit breaker, writes a row and mirrors the totals. The contract emits events;
the polling service reads them from the RPC by ledger and marks them processed.
Admin routes delete idempotency keys, override limits and replay ledgers. Inside
the contract, governance sets the pause flag and the benji strategy that the
ledger reads.

In the models: `VaultOperation` extends `WalletNonce` and adds its own variables
and steps to the same requests, so the whole path of a request is one behaviour.
`Vault` and `Governance` share the pause flag and the benji strategy:
`Governance` decides when they may change, and `Vault` lets `set_paused` and
`execute_strategy_proposal` happen at any time, which allows at least everything
governance allows. An emergency divest is the public `divest` of `Vault`.
`ScheduledJobs` composes the schedulers with the shutdown that stops them;
`ResponseCache` the cache with the vault operations that invalidate it;
`AdminChanges` the switches with receipts, audit entries and the death of the
process; `Connectivity` the server's health check with the browser that polls it.

Parts that share no variable are model-checked in one run, one part at a time: a
variable `focus` chooses in the initial state which part takes steps, and the
others rest in their initial states. No behaviour of a part is lost by that, and
a property of a part is checked in every one of its states.

## 2. Modules and how they correspond to the code

| Module | Models | Proofs | Run |
|---|---|---|---|
| `VaultMath` | `math.rs`, `fee_math.rs` | lemmas in `VaultProofs` | through `Vault` |
| `Vault` | ledger, strategies, yields, fees, settings of `lib.rs` | `VaultProofs` | VaultUsers, VaultBooks, VaultOverdraw (`MCVault`) |
| `Governance`, `Shipments` | rotation, pause, emergency, DAO, migration; shipment index | `GovernanceProofs` | Governance (`MCGovernance`) |
| `WalletNonce` | `walletNonce.ts`, `walletSignedAction.ts`, `walletSignature.ts` | `VaultOperationProofs` | OperationSigned, Console |
| `TokenUse` | abstract: a token is given once and used at most once | implemented by `WalletNonce`, proved | OperationSigned |
| `VaultOperation` | `vaultEndpoints.ts`, `idempotency.ts`, `walletLock.ts`, `withdrawalDailyLimit.ts`, `sorobanClient.ts` | `VaultOperationProofs` | OperationKeys, OperationSigned (`MCVaultOperation`) |
| `EventPolling` | `eventPollingService.ts` | `WorkersProofs` | EventPolling, EventMissed |
| `Webhooks`, `EmailQueue`, `ScheduledJobs`, `ApySnapshots`, `CircuitBreaker`, `LatencyAlerts` | background work of the server | `WorkersProofs` | Workers (`MCWorkers`) |
| `Impersonation`, `AdminChanges` (API keys and switches), `Pipeline` (rate limiter and filters), `ResponseCache` | what administrators do, and the filters and caches around a handler | `ConsoleProofs` | Console (`MCConsole`) |
| `CursorPages`, `LivePages`, `Referrals`, `Exports` | what clients are handed: pages, codes, files | `ConsoleProofs` | Console (`MCConsole`) |
| `AuthSessions`, `Timeline`, `Connectivity` (the health check too), `HistoryTable`, `WalletViews` (preferences too) | what keeps a browser in step with the server | `BrowserProofs` | Browser (`MCBrowser`) |
| `Wizard`, `WalletSession`, `QueryCache`, `ApiClient` | a submission in the browser | `SubmissionProofs` | Submission (`MCSubmission`) |
| `Sums` | nothing: lemmas about sums over finite sets, least numbers and strict orders | itself | |

`MCWorkers`, `MCConsole`, `MCBrowser` and `MCSubmission` are the compositions of
their parts as well as the modules the runs instantiate; `WorkersProofs`,
`ConsoleProofs`, `BrowserProofs` and `SubmissionProofs` are about their `Spec`.

Actions carry the names of the functions they model. A definition marked
"Mutant" is a plausible bug of the definition after it; it is used by no
specification and serves to show that the properties notice it.

**Vault.** One action per entry point, enabled exactly when the call would
succeed. The integers are unbounded and `Fits` is the representability of an
i128, so an overflow that panics disables the action. `batch_deposit` is the one
entry point with several steps: its loop keeps `State` in memory while entries
write other keys, and `batch_left` keeps other calls out until the batch ends.
The underlying token, the strategies' fund value and the clock are the
environment. Strategies behave like `benji_strategy.rs`: `deposit` and
`withdraw` move exactly the amount. Two history variables, `invested` and
`booked`, say what was sent to strategies and which Korean yield was booked.

`LeavesPendingAlone` is an assumption about users that the contract does not
enforce: nobody with a pending large withdrawal calls `withdraw` again. With it
the claims are covered; without it they are not (section 6).
Only the run VaultUsers uses it; every theorem holds with and without it.

**Governance.** An action is enabled when the address whose signature the code
requires could make the call; who signed is visible in `nominated_by`,
`initiator` and the history `executions`. Proposals and ballots are kept as the
code keeps them, ballots with their contents.

**Shipments.** `scan` is a client that reads the pages of one status with the
cursor it was given. `stayed` is the set of ids that were in the status all the
time, the only ones a scan may be asked to return.

**WalletNonce.** `pc` is where a handler is between awaits. The middleware
validates, checks the signature, and consumes; consuming validates again and
marks. With Redis the mark is a read and a write with an await in between, in
memory it is one step. `issued` and `admitted` are history.

**VaultOperation.** The handler after the middleware: read the day's sum, decide
on the limit, take the lock and look up the key, submit, create the row, mirror,
answer. A failed submission is answered 502 or 503, a database failure 500;
`submitReplyLost` is a submission the network has and the server does not know
of. `forget` is the admin's deletion of a key or its TTL. `restart` empties what
is in memory and breaks every connection. The circuit breaker is not composed
in: to the handler it is one more reason for 503, which `submitRejected` always
allows. The branch of the store that awaits another request's pending promise is
not an action: `PendingNeverShared` shows that it is dead code for this handler.

**TokenUse** says what signed actions promise of a nonce, without stores,
awaits or expiry: it is given once, for one purpose, and lets one user through.
`WalletNonce!Tokens` is the refinement mapping: `given` is `issued`, `usedBy` of
a nonce are the admitted requests whose body names it.

**CircuitBreaker.** Timestamps are ages, capped at `Horizon`, so that the clock
runs for ever. `streak` remembers the ages of the last failures since a success.

**EventPolling.** An instance has activities that overlap: the replay on start,
polls, and manual replays. Each reads the cursor, then the head, fetches a page,
processes its events one write at a time, and then moves the cursor; each step
may fail while `faultless` is false. `dropped` is history: what a page left out of
its range, or a manual replay jumped over.

**Webhooks.** Endpoints and deliveries are in memory, as in the code. A probe
and an attempt are two steps each; the record of a probe holds the endpoint that
the code holds across its await, and writes it back. `answered` remembers which
endpoints ever answered a challenge. The paged admin list over the same
deliveries is in **LivePages**, with its own smaller state.

**EmailQueue.** Rows survive a crash, the worker's batch does not. Each write of
`processEmail` and `handleFailure` is a step that may fail, and the counts used
are the ones read with the batch.

**ScheduledJobs** has the two timers, the backup job with retries (dump, upload,
prune), and `GracefulShutdownHandler`. A rejection nobody handles ends the
process, and a supervisor starts it again. **ApySnapshots** has the table and
the copy in memory, changed by the nightly job, pruning, a backfill and readers.
A query is a step and what follows its answer is another, so a reader may merge
rows that are out of date by then. `DatabaseManager` sends writes to the primary
and reads to a replica, which is a list of the states it has still to go through,
or to the primary when the replica fails. A failed query is taken to have changed
nothing, and a restart empties the copy and ends every task.

**AuthSessions.** The Redis entries are a sequence in the order they were
written, which is the order they expire in. A refresh is read, check, mark and
issue; `logout` verifies a token and changes nothing, as in the code.

**Impersonation** is the hybrid mode: every call asks the database, and goes on
with memory when it refuses or its answer is lost. The write of a session and the
write of the ledger are two calls, either of which may fail; a restart takes what
is in memory. Hybrid is also what an unset `IMPERSONATION_SESSION_STORAGE` means
(`storageSet` is chosen at the start), but then the route of the wallet asks for no
session: `viewWithoutSession` shows the wallet, and no ledger knows of it.

**AdminChanges** cuts each route, of the API keys and of the switches, at the await
of its record. A refused record outside a `try` ends the process and with it what was changed.

**Pipeline** has the counters of the rate limiter, on their own, and then one
request at a time through the filters in the order
`index.ts` mounts them; each filter is the condition under which it answers by
itself. A signed write awaits its nonce, so that it may be let in before
maintenance begins and reach its handler afterwards.

**CursorPages** and **LivePages** are clients that follow the cursors they get;
`CursorPages` filters and sorts again for each page, as the code does. Its rows
are a set whose elements carry their place, so that a filter is a subset, and the
sort puts each row where the number of rows before it says: `sort` is stable, so
rows that compare equal stand as their places do. The transactions of `LivePages`
are counted and fetched in two queries while rows come in, and its webhook
deliveries are cut to the retention between two pages.

**Referrals.** `calculateUserYield` is computed as the code does, from the whole
history of transactions and share prices, and compared with what accrues step by
step. **Exports**: an artifact is told by wallet and format, its checksum by the
artifact. **ResponseCache**: the data is a version number, so a stale answer is
one whose version is old; the store is a function from keys, and `evictLru` may
drop any of the entries that were used longest ago. `Matched` are the keys that the
patterns of the vault operations match: those of routes the application declares
itself, and no key of a mounted router, which lacks the mount point.

**The browser.** Effects, timers and answers are actions; what a closure
captured is kept in the record of the call that holds it. `Wizard` keeps the URL
of the last render beside the one last written: a handler that waited writes the
parameters it started with. `QueryCache` describes cached data by the set of
mutations whose optimistic change it contains. `WalletSession` is one tab with the
poll of the extension, and the storage it shares with the other tabs, which connect,
renew and disconnect at any time (`otherTabStarts`, `otherTabEnds`); `taken` is
history: another tab has removed the start of this one's session. `HistoryTable`
has the boxes with their timers, the URL, the resets of the panel and of the empty
table, and the page that follows. The other
modules are described in their headers.

## 3. Runs

| Run | Instance | Shows |
|---|---|---|
| VaultUsers | 2 users with 3 tokens, deposits of 1 and 3, threshold 2, timelock and cooldown 1, pauses, both yields | no interleaving of two holders takes from either: Redeemable, PriceNeverFalls |
| VaultBooks | 1 user; every setting with 1 strategy, up to 4 changed at a time, or 2 strategies with gifts under the defaults | the vault holds what its books say, and the books agree: Custody, BooksAgree |
| VaultOverdraw | as VaultUsers, without the assumption about users | ClaimsCovered is violated: finding 1 |
| Governance | 3 addresses, 2 proposals of each kind, 2 strategies; 4 shipment ids, pages of 1 and 2 | roles that change at any time never weaken a decision; a scan under change misses and repeats nothing |
| OperationKeys | 3 requests out of 4 bodies, 1 key shared, limit 2, overrides, midnight | lock and store stay exact through every failure; OvershootIsOverlap |
| OperationSigned | 3 copies of one signed deposit, 1 restart | the path implements TokenUse; all are answered |
| EventPolling | 1 instance, start, poll and manual replay overlapping, 2 ledgers, pages of 1 | crashes, stale cursors and failures lose nothing more; it catches up |
| EventMissed | 1 instance, 2 ledgers, error bodies | NoEventSkipped is violated: finding 2 |
| Workers | 6 parts: 1 endpoint and 3 deliveries; 2 emails, 2 faults, 1 replay; 2 days of jobs, 2 faults; 3 dates, a backfill, a reader and a replica; 3 calls through the breaker; 2 endpoints' latencies | what the background work promises, and that it settles |
| Console | 12 parts: nonces over Redis, impersonation, keys, changes, limiter, filters, three kinds of pages, referrals, exports, cache | what administrators change is documented, and what clients read is complete |
| Browser | 7 parts: refresh sessions, timeline, network, table, health, wallet pages, preferences in 2 tabs | what is shown is explained, and each settles |
| Submission | 4 parts: wizard with 2 wallets and 2 submissions, session, query cache, HTTP calls | what is sent is what was shown, once, and the user's decisions stand |

The properties of a run are listed in `PROJECT.json`. Many are conjunctions of
parts, as `DeliveriesAccounted == LettersMatchFailures /\ ...`: what a reader
would ask of one subject is one property, and every part is a definition of its
own, stated in words before it. The types of `Vault` and `Governance` are proved
rather than checked by a run.

### Bounds, and why they are enough

* Numbers of the vault are small, but with `MaxI128` 6 to 14 every checked
  operation both succeeds and overflows, and prices such as 3 assets for 2 shares
  make both conversions round. Two holders are the fewest for one to take from
  the other; one whose shares are pending and one who stays. `BPS_DENOMINATOR` 2
  makes fees of one half. `MaxTime` is what a timelock and a cooldown need to
  run out one after the other.
* `OneTrack` of VaultBooks explores either the settings, any four of them away
  from their defaults, or two strategies with gifts; a batch has two entries, the
  fewest in which one sees what another wrote. The theorems cover the rest.
* `OneTrack` of Governance explores the strategy votes, the shipments and
  everything else, each from the initial state of the others. They share no
  variable but the admin, and voting does not depend on who that is; the theorems
  need no such bound.
* Three addresses let the roles of admin, primary and secondary meet and part.
  Two proposals let one be confused with the other. Four shipment ids let a page
  of two be followed by another while ids appear before, at and after the cursor;
  page size 0 is refused, and 3 is cut to `MAX_PAGE_SIZE`.
* Three requests are enough for one to run, one to wait and one to come
  afterwards. The four bodies cover one key for two routes, one key for two
  wallets, and a withdrawal without a key that passes the limit together with the
  first. Console has a cap of one nonce and two issuers, so that they pass it
  together.
* EventPolling: with `batchSize` 1 and two ledgers a replay has two batches; with
  `PageLimit` 1 and one event a ledger a poll of both leaves one out. One instance
  with three activities already overlaps everything that touches the cursor; the
  manual ranges start before and beyond it.
* Workers: with a retention of one delivery and three deliveries the list is cut
  while older ones are retried; two attempts are one retry; a probe overlaps
  every change of its endpoint. Two emails are one batch, of which one fails or is
  replayed while the other is sent; two faults are a failed write in the path that
  handles a failed write. The breaker needs 2 * 3 - 1 failures in memory for its
  property, and three calls so that late failures meet a half-open breaker. Two
  days let pruning meet a day without a backup. A replica one write behind is
  enough for a backfill to miss a row; three dates and a retention of one day let a
  reader bring back a date that was pruned, and a restart or a failed query may meet
  each of these.
* Console: two or three concurrent calls of each part are enough for one to pass
  another at every await; one or two faults let a record fail alone and together
  with the one it overlaps. Lists have 0, 3 and 6 rows and limits up to 3, so that
  pages end before, at and after the end of the list. `SecondMs` 2 and a window
  of 3 ticks make both ends of a wait round. The cache has a key the patterns match
  and one they miss, room for one of them, and an answer lives for one tick of two.
* Browser: two refreshes of one session and three tokens; two hashes shown three
  times, so that a hash is left and shown again; three edits of the filters: a text,
  a second one that meets it before its timer fires, and a reset of both; two health requests at a
  time; two wallets with three changes; two tabs and two preferences.
* Submission: two wallets with different balances, an amount below the minimum
  and a linked one above the balance, two mounts of the page so that an answer
  arrives in a page that did not ask; two mutations over one refetch; two tries of
  a call and two runs of a query. The session meets two restarts, and other tabs
  without a bound.
* Symmetry is used for users, requests, issuers, the addresses other than the first
  admin, and the submissions in the browser, only in runs without liveness.

Deadlock is checked for Governance and EventPolling. In the other runs a finite
supply (tokens, time, requests, deliveries, edits) runs out and the system stops.

### Fairness, and why the code justifies it

* Circuit breaker: the clock runs; a caller that may call does (users and the
  polling clients keep coming); a call that was let through settles. The last
  is an assumption about the transport: `sorobanClient.ts:32` sets no timeout, so
  a connection that stays open without an answer would hold its caller, and in
  `VaultOperation` its wallet lock, as long. Nothing makes the RPC recover:
  `Recovers` starts from the recovery.
* VaultOperation: weak fairness of each request's handler. Continuations run when
  their promise settles, and RPC and database calls are assumed to settle, as
  above. No fairness of clients, admins or the clock.
* EventPolling: weak fairness of each activity, of the poll timer while it is
  set (`setInterval`), and of `faultsEnd`: failures are not for ever. No fairness of
  start, stop, exit, the lock or new ledgers. `PollerCatchesUp` releases an
  instance that was stopped or died.
* Workers: a delivery's attempts end (they carry a time limit) and its retry
  timer fires; the worker of the queue, once started, is a `setInterval`, and its
  backoff runs out; the drain timeout fires; the check of latencies is a
  `setInterval`. No fairness of admins, signals, crashes or providers' answers.
* Browser: the store answers each call of a refresh; polls are timers; a fetch of
  a query, a load of holdings and an answer of the extension come in the end; a
  health request is aborted after its limit if it is not answered; React renders;
  a box's timer fires. No fairness of the user, the network or the server's state.
* Console and Submission check safety only.

## 4. Theorems

TLAPS checks these for every value of the constants that satisfies the named
assumptions of the modules.

| Theorem | States |
|---|---|
| `VaultProofs!TypeCorrect` | types; idle assets, fees and token balances are never negative |
| `VaultProofs!VaultCustody` | tokens of the vault cover idle assets and unclaimed fees |
| `VaultProofs!BooksHold` | the two copies of the supply agree, and total_assets is idle + invested + booked |
| `VaultProofs!SharePriceNeverFalls` | no step lowers total_assets per share |
| `VaultProofs!SharesRedeemable` | the balances always add up to the supply, and all claims together are covered as long as nobody has been paid for more shares than they held |
| `VaultProofs!OverdraftsAreExplained` | that ends in one way: a request is executed whose shares its user no longer holds, and it came to that by a withdrawal of that user beside it |
| `GovernanceProofs!GovernanceTypes`, `PauseHasReason` | types, pause reasons |
| `GovernanceProofs!AuthorityHolds` | the nominee is the current admin's, an emergency has two signers, and one execution |
| `GovernanceProofs!BenjiIsElected` | executed proposals keep their majority, and the benji strategy comes from one |
| `GovernanceProofs!TalliesAreBallots` | a tally is the weight of the ballots cast, one a voter |
| `GovernanceProofs!ListingsAreExact` | each index is the sorted set of its shipments; a scan misses and repeats nothing |
| `VaultOperationProofs!NonceIssuedForIt` | either store: a nonce gets only what it was issued for through |
| `VaultOperationProofs!NonceSingleUse` | in-memory store: no two requests with one nonce |
| `VaultOperationProofs!NonceImplementsToken` | in-memory store, enforced: the nonce service implements `TokenUse` |
| `VaultOperationProofs!OperationTyped` | types; what is mirrored is in the table, what is in the table is on the network |
| `VaultOperationProofs!OneAtATime` | the lock set is the wallets at work, one operation of each; no promise is shared |
| `VaultOperationProofs!AnswersAreBacked` | a 201 is sent, recorded and mirrored, for its key and fingerprint |
| `VaultOperationProofs!KeysAreSentOnce` | nothing is sent again under an answered key the store still has |
| `VaultOperationProofs!LimitPassedOnlyByOverlap` | a day's limit is passed only by withdrawals that overlapped or were overridden |
| `VaultOperationProofs!OperationImplementsToken` | in-memory store, enforced: the whole path, with restarts, implements `TokenUse` |
| `WorkersProofs!LossesAreKnown` | an event is passed over only where a page or a manual replay left it out |
| `WorkersProofs!LossesAreExplained` | those are three: an error body read as an empty page, a page full before the event, a manual replay beyond the cursor or the head; no failure, restart or overlap loses an event |
| `WorkersProofs!WebhooksAccounted`, `DeletionLasts` | letters match failures, only who answered is sent to; a deleted endpoint stays deleted |
| `WorkersProofs!EmailsAreAccounted` | duplicates, given up and stranded emails have their reason |
| `WorkersProofs!GuardsAlwaysHold` | the breaker opens after 2 * threshold - 1 failures of a window; alerts are spaced |
| `WorkersProofs!JobsKeepWhatIsStored` | a whole backup stays; a backfill replaces nothing that the database it asked had seen; the APY copy follows the table but for dates that tasks or late readers met on |
| `WorkersProofs!WorkersTyped` | types of all the workers |
| `ConsoleProofs!TrailIsLeft` | what administrators do is in the ledger, the key trail, the receipts and the audit log, but for entries a restart lost; a wallet is shown without a session only with the mode unset |
| `ConsoleProofs!StalenessIsExplained` | a stale answer was raced, left by a failed operation, or has a key no pattern matches and expires within its time to live |
| `ConsoleProofs!AnswersStay` | a client that waited as told is refused only behind others; an ended impersonation shows nothing; no write joins under maintenance |
| `ConsoleProofs!LimitsAreKept` | two windows' requests in the length of one at most; live nonces stay under the limit and the issuers under way |
| `ConsoleProofs!HandedOutIsKept` | exports match their rows, codes credit their owner, the yield is the one that accrued |
| `ConsoleProofs!PagesMissNone` | whoever follows cursors misses nothing, in all three kinds of lists |
| `ConsoleProofs!ConsoleTyped` | types of all twelve parts |
| `BrowserProofs!SessionsStay` | a refresh session has one usable token and one more per overlap; a revoked family stays revoked |
| `BrowserProofs!ShownTrue` | what the timeline, the banner, the light, the table, the holdings and the preferences show is true of what they show it for |
| `BrowserProofs!NothingReturns` | the light follows the order of the checks, a known network stays known, a page turn sticks |
| `BrowserProofs!BrowserTyped` | types of all the browser's parts |
| `SubmissionProofs!Soundness` | one submission at a time, as shown, approved, carried out once |
| `SubmissionProofs!OptimismEnds` | what was written in advance is fetched again |
| `SubmissionProofs!SessionIsTheUsers` | only the user undoes a disconnection; expiry stands; a connection the user made is limited until another tab takes its limit |
| `SubmissionProofs!SubmissionTyped` | types of the wizard, the session, the cache and the calls |

**Sums.** A sum over a set is a fold, and a fold is recursive: induction over the
set is out of the provers' reach as a rule, but not as a fact about well-founded
orders. `SumsExist` and `SumsUnique` take a smallest subset for which a sum would
not be determined, and find a smaller one; what a proof uses is then `SumAdd`,
`SumRemove`, `SumUpdate`, `SumSubset` and `SumMonotone`. In the same way
`StepInduction` goes along an interval, and `RankedSequence` says that numbering
the elements of a finite set by how many are below them puts each in one place.

**Vault.** `IInv` is `TypeOK /\ SupplyCopiesAgree /\ Custody /\ AssetsAccounted`.
Custody is not inductive alone: a withdrawal pays from the vault's tokens and
needs `idle` to be a natural number, and the type of `idle` after a withdrawal
needs the assets paid not to exceed what was idle or recalled. `SupplyCopiesAgree`
is needed because a deposit overwrites the stored supply from `State` while a
batch adds to it. There is one lemma per operation, and lemmas for what they
share (`TransferMoves`, `MintStep`, `BurnStep`, `CreditStep`, `ConfigureStep`).
The price theorem rests on two facts about rounding, `MintKeepsPrice` and
`BurnKeepsPrice`: if the quotient is rounded down then new assets times old
shares is at least old assets times new shares. It says nothing of a state whose supply
is not positive or whose total is negative, where there is no price.
`OwnInv` adds to it that the balances add up to the supply, which every step keeps,
even one that drives a balance below zero. While none is (`NoneOverdrawn`), the claims
are covered, by rounding each down (`ClaimsAddUp`). `OverdraftHasItsCause` says of a
step what ends that: only `execute_withdrawal` of a request that is not covered, and
a request that was covered stays so unless its user withdraws beside it. Nothing is
assumed of the users. The assumptions are
`WidthAssumption`, `BpsAssumption`, `AddressAssumption` (the vault, the admin,
the treasury, users and strategies are different accounts) and
`NumberAssumption` (arguments are positive where the code requires it).

**Governance.** `IInv` adds `ExecutionsMarked` to the properties: an execution
names a proposal that is marked executed. Without it, a step could execute an id
again, or append a proposal under the id of an execution. `TallyInv` adds that
every ballot is on a proposal that exists, so that a new proposal starts without
any. `ShipmentInv` is about the shipments: each index is exact, what a scan has
been shown is ascending and below its cursor, and what stayed in the status and is
not above the cursor has been shown. An insertion and a removal are proved by
places (`InsertedPlaces`, `RemovedPlaces`), and so is where `first_above` splits.

**WalletNonce.** `IInv` follows a request: once past the first validation, its
nonce was issued for what it asks, and entries of the store say what they were
issued for, so a mark cannot change that. `MInv` adds, for the in-memory store,
that the nonce of an admitted request is marked used, or expired and gone
(`Spent`): a nonce is never issued twice, so neither becomes usable again. No
request is ever between the read and the write of a mark, which is exactly what
fails with Redis.
The refinement needs nothing more: a mark is a `Use` because of `Spent`, a save
is a `Give` because a value is fresh, and every other step stutters
(`TokensStutter`). It is proved for the signed routes on their own (`NonceSpec`) and, with the
operation behind them, its failures and restarts, in `VaultOperationProofs`.

**VaultOperation.** `OInv` relates a handler's place to what it has left behind
(`Progress`: what is on the network, in the table, mirrored), the lock set to the
places (`LockTracksOperations`), and the store to both. `NoResubmission` is about a
step that sends, so the invariant must say why such a step is impossible:
`AnsweredIsCompleted` (an answered 201 is found under its key unless the key was
dropped) and `RunningIsPending` (as long as its key is not dropped, an operation
under way is the pending one of its key, and nothing has completed under it).
`PendingRuns` and `CompletedIsMirrored` say the same from the entries' side: each is
of an operation with that key, under way or carried out. That a replay never meets
a pending entry (`NotShared`) needs the lock as well: the fingerprint names the
wallet, and a wallet with an operation under way is locked. `LimitInv` is for the
daily limit: a withdrawal under way or recorded was within the limit with the rows
it had summed, or is excused (`EvaluatedOrExcused`), and what a summed row had
summed itself, and still counts, has been summed too (`SummedInTurn`). Rows that
did not overlap have summed each other in turn, so the last of them knows them all.

**EventPolling.** `OnlyKnownLosses` speaks of the cursor, while the steps that move
it use what a task read long before. `BehindIsKnown` says of every task that the
events before its own start are known, whatever the cursor is now, and
`PageIsKnown` that what its page covers is processed, lost or still to do. `CInv`
adds for `LossesAreExplained` that a range the poller fetches of itself ends at a
closed ledger, so that no event can come after the page was read. What is left are
the three causes the theorem names, each with the event it concerns: an error body,
a page with `PageLimit` events before it, a manual replay. The run EventMissed meets
the first of them. The documentation knows none of the three.

**Workers.** One invariant for each part. `WInv` (webhooks): an endpoint that says
verified has answered its challenge, and so has one whose copy a handler holds
across its await; a delivery that waits has an attempt left; a dead letter is of a
delivery to its own endpoint. `EInv` (emails): a row that waits has tries left and
was sent no more often than it had an excuse; the tries a row counts were refused
or lost to faults; the row at the head of the batch is related to both by the step
the worker is at. `BInv` (breaker): `WindowsOK` says of each number of last failures
how old the window must be, since the property's streak may lie across two windows.
Ages in the breaker are capped, and `OlderKeeps` shows that capping keeps their
order. `LInv` (alerts): the tracker's last alert is the log's. `JInv` (jobs): a run
that prunes has stored its dump today, and the dump is whole unless one was
truncated; the metrics count a run exactly while it is under way. `AInv` (APY): every
state the replica may show, and so the answer a backfill works with, knows each date
of the table whose value is not younger than the last write in it (`ReplicaOK`,
`TaskOK`); and what a task is about to copy is in the table, or something else
happened to its date meanwhile.

**Console.** The parts share no variable, so each has its own invariant and
`PartsRun` reduces a step of the whole to a step of one part.
`RInv` (cache): every version of the data belongs to an operation under way, one
that succeeded or one that failed after its row; and an answer older than a
version whose operation succeeded was stored after the invalidation, or has a key
that no pattern matches and expires within its time to live (`Excused`). `MInv`
(impersonation): whatever is stored in either store was noted as started, is about
to be, or lost that entry in a restart (`Trail`), and a request about to show a
wallet in a session was noted as an access; neither follows from the ledger alone,
since each call falls from one store to the other by itself. `KInv` (keys):
an accepted key is seeded, in the trail or made by a call under way, and, as long
as no event was refused, so is what each call would put back without counting that
call: this is why it takes two refusals for an unnoted key to come back. `AdInv`
(switches): unless two handlers worked on an item at a time, the one about to ask
for its receipt made it what it is, and with none the last receipt since the
process started tells. `PipeInv`: the audit log is, place by place, the end of the
list of what ended.

`LInv` (limiter): the requests let through since a window began are its count, and
those since one window earlier are at most a limit more; a client that was refused
was told a time not before the end of the window that stands, unless that window was
opened after the refusal. `NInv` (nonces): the live nonces of a wallet and the issuers
that have found room for one more are bounded together, since either turns into
the other. `HeldInv` and `BulkInv` (exports): what was handed out is the checksum
of its row, and the writes of a bulk export that nothing overtook stand in their
order. `CInv` (codes): a call that is about to create a code has a wallet, and the
code goes to it. `YInv` (yield): what is added up along the ledger is what was put
in and taken out, and the shares left at the last price are worth what accrued; no
withdrawal was of more shares than there were, so that cutting the shares at zero
never hides a loss. `LedgerGrows` says that a transaction appended at the end
changes no price before it, `FirstPrice` that the first snapshot sets the price of
everything before it, which is why it must not change the worth.

The pages have three invariants. `PgInv` (transactions): every row before the
cursor that was there at the opening has been given, and no more rows are skipped
than stand before the cursor; new rows come in at the top and rows of one
timestamp in any order, which is why the skip count is an inequality.
`DlInv` (deliveries): what was shown is in order, the cursor is the last of it, and
what was there at the opening and still is was shown or is older than the cursor.
`LstInv` (collections): the rows a client has seen are an unbroken stretch of the
list, the next cursor is inside it or at its end, and the previous cursor a row from
which one page reaches back to it; as long as the client went only forward, the
trail is the first places of the list. `PrecedesOrders` shows that the comparison
with its ties is a strict order, and so `ItemsOnce` that sorting loses and repeats
no row.

`ConsoleTyped` needs one more invariant for each part whose type speaks of a bound.
`ImpTyped`: a request past its lookup works on a session. `KeysCounted`: events
and calls that will write one are bounded together. `AdBounded`, `PipeBounded`:
supplies that only run out. `CacheBounded`: the store has room for an answer after
the eviction, an answer is of a version there has been, there are no more versions
than operations that wrote one, and of every version one operation, so that none
is counted both as carried out and as failed.

**Browser.** Again one invariant for each part. `KInv` and `ClaimsCounted`
(sessions): the mark of a revoked family outlives every token it had that is not
used, and a session has one claim to a usable token, of a refresh that will use one
up or of a token nobody has read, and one more for each overlap; a refresh that
reads a token another has read is an overlap, and one that finishes passes its claim
on. `TInv` (timeline): the loop of the row on show is the last one, and any other
that still runs was left in the middle of a poll. `HInv` (light): only the last
request may still set the light, and the answers of all before it are discarded.
`VInv` (holdings, network): a load that is still mounted is one for the connected
wallet. `PInv` (preferences): a preference a tab shows is in storage unless tabs
wrote in a crowd. `FInv` (table): how a box may stand whose choice is not lost
(`Kept`): the box shows the choice and the URL has it or will have it, or the box was
reset beside it or with the empty table.

**Submission.** `WzInv` is `PageOK /\ Held /\ Shown`: what the page may show in
each step of the URL, what a transaction on its way must agree with, and that a
summary is on show only while nothing of its page is on its way. `SInv` adds to
the types that a disconnection by the user stands, that a session runs out only
when its time is over, and that a connection the user made has a start unless another
tab removed it (`taken`). `QInv`: cached data holds no submission that was not
made. `CInv`: a POST never waits to be sent again, and until it settles the server
has not acted on it; ids are drawn in order.

**Assumptions.** Each is named in the module that declares the constant, TLC
evaluates it in every run, and none excludes what the code may meet. Most say that
a bound of the model is a natural number, that a supply is finite, or that a limit
is positive, as the configuration of the code requires, or keep names apart. One
says more. `RefAssumption`: an amount is a multiple of every share price, that is, amounts are
counted in units so small that the decimals of the code divide exactly.
`LeavesPendingAlone` is not an assumption but a switch of `withdraw`, on in VaultUsers
and off in VaultOverdraw; the theorems hold for both.

**Only model-checked.** The liveness properties, because the prover has no rule for
fairness and ENABLED: `EveryRequestAnswered`, `PollerCatchesUp`, `WorkSettles`,
`BrowserSettles`. Every other property of a passing run is a theorem, `Redeemable` as
long as nobody was overpaid: that nobody is under `LeavesPendingAlone`, the run
VaultUsers shows and no theorem does. Not proved either is what no property speaks of: that the recursive definitions of the models
compute the same as the loops of the code for inputs outside the instances.

## 5. What is not modelled

* In the ledger: `UserDeposit` and the per-user cap, which can never be set
  because `set_per_user_cap` reads `DataKey::Admin`, a key nothing writes
  (`test.rs:1617` expects otherwise); checkpoints, which no entry point acts on;
  views and events. `oracle.rs`, which nothing calls.
* Amounts of the `VaultState` mirror; formats of addresses, signatures, messages
  and amounts; HTTP headers and logging.
* The source account's sequence number: two submissions of different wallets use
  the same account (`sorobanClient.ts:146`) and one of them may be rejected, which
  is an outcome `submitRejected` has.
* The best-effort copies of webhook rows that nothing reads back; the in-memory
  store of refresh tokens (a step where Redis takes two); storage modes of
  impersonation other than hybrid; read-only admin routes; schemas of bodies.
* In the client: rendering, charts, formatting, dialogs with one open flag
  (`Modal.tsx`, `CommandPalette.tsx`, `FileUpload.tsx`), printing and sharing.
* The components that `PROJECT.json` lists as not modelled, with their reasons.

## 6. Findings

1. **A large withdrawal does not lock its shares** (run VaultOverdraw).
   `withdraw` above the threshold only stores a request (`lib.rs:1543`), and
   `execute_withdrawal` (`lib.rs:1558`) does not check the balance again. A user
   who withdraws the same shares in smaller parts and then executes the request
   is paid twice, and `share_balance` goes negative. `math.rs:24` promises "The
   vault is always solvent (total_assets ≥ sum of all redemption claims)";
   `docs/DEPOSIT_WITHDRAWAL_LIFECYCLE.md:187` says the shares are locked.
2. **An error answer of the RPC loses events** (run EventMissed). A JSON-RPC
   error in an HTTP 200 reads as an empty range (`eventPollingService.ts:424`) and
   the cursor passes it. `backend/docs/EVENT_REPLAY.md:5` says the service
   "ensures no on-chain events are missed".

Other disagreements met while modelling. TLC found behaviours for the ones
marked (t), with properties that are not part of the runs listed above because
they only restate the defect:

* (t) `execute_withdrawal` looks at neither the pause nor the cooldown
  (`docs/CONTRACTS_ARCHITECTURE.md:550` and `lib.rs:269`: a paused vault refuses
  withdrawals; `lib.rs:2076`: the cooldown).
* (t) With Redis, two copies of a request pass with one nonce: `markUsed`
  (`walletNonce.ts:188`) reads and then writes, while `walletNonce.ts:5` says
  "single-use" and line 349 "Atomically".
* (t) In `HALF_OPEN` every call goes through (`circuitBreaker.ts:70`), where the
  comment at line 7 speaks of one probe. A late success of a call from before
  closes an open circuit.
* (t) Two withdrawals may pass the daily limit together
  (`withdrawalDailyLimit.ts:104`), since neither is a row yet when the other is
  checked.
* (t) The fingerprint of the idempotency store leaves out the route
  (`vaultEndpoints.ts:262`): a withdrawal with the key and body of a deposit is
  answered with the deposit's response.
* (t) With nonces enforced an exact retry is refused 401 before the idempotency
  store sees it (`vaultEndpoints.ts:334`); `docs/api/ERROR_CODE_CATALOG.md:288`
  describes the replay.
* After a lost reply or a failed database write the client sees 502 or 500,
  nothing is stored under the key, and a retry submits again
  (`docs/api/ERROR_CODE_CATALOG.md:139` warns of it).
* (t) A range of more than 1000 events is cut (`eventPollingService.ts:417`) and the
  cursor moves past the rest; a manual replay moves the cursor to its own end
  (`:237`), forward or back.
* (t) A start whose replay fails never polls (`:50`; `EVENT_REPLAY.md:233`: "Service
  will retry on next poll cycle"), and a follower never takes over (`:64`).
* Lock renewal overwrites another instance's lock (`:171`); a stop during start
  leaves a poll timer behind (`:53`).
* `divest` (`lib.rs:1730`) needs no signature, although its documentation says
  admin. Weights of votes are chosen by the voter. `oracle.rs` is called by
  nothing. Korean yield raises the price with no tokens behind it
  (`lib.rs:787`), and `report_benji_yield` (`lib.rs:2182`) may be paid from the
  principal the strategy was given. Emergency proposals never expire.
  `ForceUpgrade` skips the migration that `upgrade` runs.
* The server calls the contract with other names and arguments than it has, and
  the `VaultState` mirror keeps its share price at 1. A signature does not cover
  the amount, and a nonce is spent before the body is validated.
* Sessions: the logout routes call no store, though `index.ts:652` says the
  session is revoked. Nothing in the server registers a first API key;
  `validateApiKey` sets no role, so RBAC treats every key as `admin`, and
  `hasRequiredApiKeyRole` is not exported by `apiKeyAuth.ts`, which the
  super-admin routes and the withdrawal override need. The list of active
  impersonations returns expired ones from the database.
* Rate limiter: the readiness of Redis is read while the module loads
  (`rateLimiter.ts:315`), before the lazy client connects, so with `REDIS_URL` set
  nothing is limited. Rate-limited and oversized admin requests are not audited,
  despite `index.ts:508`. A POST is redirected with 301.
* Background work: the email worker is never started by the server; a failing APY
  job rejects out of its scheduler despite the comment at `apySnapshot.ts:158`; a
  backfill that asks a lagging replica replaces a value written before it began,
  though `apySnapshot.ts:194` says "Existing snapshots are not overwritten"; a reader
  whose answer comes late puts an old or a pruned value into the copy (`:262`); a
  second SIGTERM during the drain exits at once; retried webhook deliveries are
  not cut to the retention; cancelling a bulk export always answers 409, since a
  job has run before the answer that names it is sent; a vault operation that
  fails after its row was written leaves the caches as they are.
* Cache: `buildCacheKey` (`middleware/cache.ts:101`) takes the path below the router,
  so the patterns that begin with `GET:/api/v1` match no answer of a mounted router,
  though `vaultEndpoints.ts:29` says they clear the "vault, transactions, and
  portfolio entries"; such answers stay until they expire. The pattern of
  `referralService.ts:80` is for routes that are not cached at all.
* Impersonation: with `IMPERSONATION_SESSION_STORAGE` unset the wallet is shown
  without a session (`index.ts:1682`), although the comment at `index.ts:1646` asks for
  a valid one.
* Lists: `prevCursor` of the second page leads to the second row; a range of 366
  whole days is refused although the message says at most 366; a wallet's history
  repeats the cursor's row (`transactionEndpoints.ts:35` against 178-186) and does
  not cap the limit without a wallet. `index.ts:346-440` is dead code.
* Health: the server answers 503 whenever anything is not `up`, so the client's
  "degraded" is never shown; job failures are never reset; the check of the RPC
  looks at its URL only; the light is green before the first check.
* Wizard: after Done or Try Again it stays at `step=result` with nothing shown,
  since a functional `setSearchParams` does not queue (`e2e/deposit-withdraw.spec.ts:114`
  expects the return); a click on the other tab leaves the old one; a late success
  brings the user back to a blank wizard; an approval of an earlier amount
  confirms a larger one; the fee is estimated for an empty amount; the share link
  uses a parameter nobody reads; a withdrawal of 0.5 submits 1 share.
* Wallet session: dismissing the expiry warning does not last; "Reconnect" in the
  modal does nothing while connected; after "Go to Home" the poll reconnects
  without a time limit; another tab's disconnect removes this tab's session start.
* Network: the banner stays at "retrying" after a retry cycle has ended;
  `useRetryState` reports "retrying" only after React Query has given up;
  `lastUpdated` is stamped after a failed refetch. In the timeline a poll that was
  under way when another row was clicked may end the tracking of the new one.
* Pages: an amount that does not parse sends every page turn back to page 1; Reset
  does not cancel text that is still waiting; the asset filter is not applied;
  after a change of wallet and a failed load the old holdings stay beside the
  error; a disconnect while loading leaves `isLoading` set; two tabs overwrite
  each other's preferences.

## 7. Plan

Done: the ledger, governance, shipments; the deposit and withdrawal path, event
polling, background work, admin and list handlers, sessions; the browser's
submission path and its pages; a theorem for every safety property and every action
property the runs check.

To do next: the in-memory store of refresh tokens, the other storage modes of
impersonation, and two server instances over one Redis where the parts model one.

Abstract specifications still worth stating: a ledger of shares without the two
copies of each total, which `Vault` implements; a log of events consumed at least
once, which `EventPolling` implements as long as nothing is dropped; an operation
that happens at most once per answered key, which `VaultOperation` implements.

## 8. Running

    tlc -workers 2 -config VaultUsers.cfg MCVault
    tlapm VaultProofs.tla

`PROJECT.json` gives the module and the configuration of every run. The longest
runs take a minute or two, the proofs a few minutes each.
