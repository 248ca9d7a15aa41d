# A verification project for money-manager-server

The server keeps a user's money: income and expense, recurring transactions,
budgets, investments, bank accounts linked through Enable Banking, and the
notifications about all of these. Two or three replicas run the same binary on
one PostgreSQL (and an optional Redis): each serves the API and runs three
maintenance workers. Nobody leads. What keeps replicas, users and providers out of
each other's way is row locks, status columns, leases, unique indexes and
timestamps in tables; that is what these modules are about.

Contents: [inventory](#inventory), [plan](#plan), [modules](#modules),
[runs](#runs), [bounds](#bounds), [fairness](#fairness), [proofs](#proofs),
[findings](#findings), [not modelled](#not-modelled),
[how to run](#how-to-run). Paths are under `src/internal/` unless they say otherwise.

## Inventory

For each component: the state it keeps, its operations, whom it talks to, what is
hard, and what makes it correct.

**Scheduled money** (`service/schedules.go`, `repository/schedules.go`).
State: `transaction_schedules` with the watermark `materialized_through`,
`transaction_schedule_occurrences`, the transactions made of them. Operations:
create, edit, pause, resume, archive; once a minute on every replica list the active
schedules, materialise occurrences up to a horizon, post due ones in batches, queue
reminders of the others. It writes to the transactions and to the outbox.
Hard: replicas and users work from rows they read earlier, in several transactions;
a run may stop between any two. Correct when a date is booked once, never once archiving has
struck it off, never again after the user deleted it, and when no date is lost.

**Notification delivery** (`service/notifications.go`,
`repository/notification_delivery.go`, `repository/notifications.go`). State:
`notification_outbox`, `push_devices`, `notification_deliveries` with attempts, lock
time and next attempt. Operations: claim a batch, send each, record each; register
and deactivate devices. Other components only insert into the outbox. Hard: a push
cannot be taken back, so between the provider's answer and the record of it a crash
or a timeout repeats it; claims of dead runs must be taken over, those of living ones
never; devices change hands and users leave meanwhile. Correct when a push is doubled
only for that reason, and every notification ends.

**Open banking synchronisation** (`service/open_banking_sync.go`,
`repository/open_banking_sync.go`). State: `open_banking_accounts` with
`last_synced_at`, `next_sync_at`, `sync_claimed_until`; imported `transactions`;
`open_banking_transaction_suppressions`. Operations: claim due accounts, fetch
a window of dates, import in one transaction that locks the account row, release after
a failure; the same sync at a user's request without a claim. Hard: imports apply
data that was fetched before the user deleted or corrected something, before another
import, before the account was disconnected. Correct when replicas never fetch an
account at once, deletions and corrections last, and the ledger follows the bank.

**Open banking authorization** (`service/open_banking_authorization.go`,
`service/open_banking_accounts.go`, `repository/open_banking.go`). State:
`open_banking_authorizations` (pending, processing, completed, failed), connections,
sessions at the provider. Operations: start, callback, store, read, disconnect. Hard:
database and provider cannot be changed together, the callback may come twice, late or
before the start has finished. Correct when a callback is used once, a stored
connection has a live session and no session is forgotten.

**Investments** (`service/investments.go`, `repository/investments.go`,
`service/investment_schedules.go`, `service/scheduled_investments.go`). State: trades,
investment schedules and occurrences. Operations: buy, sell and delete under an
advisory lock of user, asset and broker; scheduled buys at a price fetched before the
transaction that posts them. Hard: a trade changes the holding at every later date;
prices are missing or stale; two replicas post. Correct when at no date more is
sold than held and each occurrence is bought once.

**Budgets and alerts** (`service/budgets.go`, `repository/budgets.go`). State: budgets,
`budget_alerts`. Operations: evaluate all budgets in the minute run. Hard: two replicas
evaluate at once while spending moves. Correct when each level is reported once a period.

**Portfolio and its history** (`service/investment_portfolio.go`,
`service/investment_portfolio_history.go`, `marketdata/marketstack.go`). State:
`investment_market_history`, the daily closes of stocks, shared by all users. Operations: value the
open positions of a user; draw the chart of their past, for which missing closes are fetched and
stored. Hard: two pieces of code replay the same trades, one for today and one for every day of the
past, and count differently what they cannot price; a table filled by the charts of others is taken
for complete when its ends look right. Correct when both agree on every day both can value and a
chart has no holes.

**Market data** (`marketdata/*`). State: in memory, a cache of quotes with one fetch in
flight for a key, and a limiter that admits one request per interval from a bounded queue.
Hard: callers that give up while queued or while others wait for their fetch. Correct
when admissions keep their distance, nobody waits for those who left, a fetch is shared
and a value is not served past its time.

**Response cache** (`service/investment_cache.go`). State: Redis keys, one for each user and view,
that a change deletes. Hard: a reader stores what it computed before a writer's change. Correct when
an answer older than the last completed write is not served.

**Authentication rate limiter, client address** (`router/rate_limit.go`,
`router/client_ip.go`). State: windows per identifier and address in memory. Hard: the
address comes from headers a client may have begun. Correct when an address has no more
attempts in a window than allowed, no client is counted under an address it likes, and
memory is bounded.

**Migrations** (`repository/migrations.go`). State: `schema_migrations`, the schema.
Hard: replicas start at once and may die half-way. Correct when each migration takes
effect once, in order.

**Server lifecycle** (`app/app.go`, `app/workers.go`). State: HTTP server, three worker
loops, the store. Correct when nothing uses the store after it is closed and every
shutdown ends.

**Recurrence** (`recurrence/recurrence.go`, `service/schedule_recurrence.go`): the pure rule that
gives the dates of a schedule in a window. Hard: it leaps to the window instead of counting from the
start, and months are of different length. Correct when it gives the dates that fit the rule,
whatever the window.

**Users and tokens, categories, transactions and imports, exports, manual prices,
configuration, router, provider clients**: single statements, pure functions or I/O. Where
they change state the components above depend on (deleting a user, a transaction, a
category correction), the change is an action of those modules. All components named
before are modelled, two of them in part: of the push and the market data clients, what they answer
and how long it is kept, not how it is encoded.

How they interact: workers and requests share only the database. The schedules,
budgets, investments and bank imports insert into the outbox inside their own
transactions; delivery reads it. Deleting a transaction is an operation of one
component that two others must survive (a posted occurrence, a suppression). Deleting
a user removes rows under every run. Every worker loop runs one run at a time with a
timeout shorter than its period.

## Plan

In the order of what would hurt a user most.

| # | Module | Abstract specification, main properties | State |
|---|--------|------------------------------------------|-------|
| 1 | `ScheduledMoney` | implements `PostingLedger`; no date twice, none lost, backlog cleared | done, proved |
| 2 | `NotificationDelivery` | no take-over of a living claim, no double push without an unrecorded one, all end | done, safety proved |
| 3 | `OpenBankingSync` | one fetcher, pace, deletions and corrections last, ledger fresh | done, proved |
| 4 | `OpenBankingAuthorization` | a callback is used once; sessions and connections agree | done, proved |
| 5 | `InvestmentLedger` | at no moment more sold than held | done, proved |
| 6 | `InvestmentSchedules` | bought once, no date lost, retried without a price | done, proved |
| 7 | `BudgetAlerts` | each level once a period, and each that is crossed | done, safety proved |
| 8 | `MarketRequests` | no slot is wasted on callers who left, shared fetch | done, proved |
| 9 | `ResponseCache` | no answer older than a finished write, but for a bounded time | done, proved |
| 10 | `StockHistory` | a chart has no holes, whoever filled the table | done, proved |
| 11 | `InvestmentPortfolio` | the two ledgers agree with the trades and each other | done, proved |
| 12 | `Recurrence` | the leaps against a definition that does not leap | done, proved |
| 13 | `ServerLifecycle` | migrations once and in order, nothing uses a closed store | done, safety proved |
| 14 | `AuthRateLimiter` | fewer than two full windows in any window of an address; no address of a client's choice | done, proved |

Composition: the components share only the outbox and the transactions, so each
module has the others' effect on it as actions (`Emit`, `DeleteTransaction`,
`DeleteUser`, `Disconnect`) instead of one module of everything; the state space of
the product would hide what each run is to show. The exception is
`InvestmentSchedules`, which extends `InvestmentLedger`: both write the trades of a position
under the same lock. Modules 7 to 14 are small and share nothing; they share one run.

Theorems, in order of worth: posting and its refinement, the pace and the safety of bank imports,
codes and sessions, purchases and their watermark, that nothing is oversold, claims and pushes of
deliveries, alerts, answers, charts, quotes and admissions, attempts, the life of a replica, the
dates of a rule, the two ledgers of a portfolio. All of these are proved: no safety property is left
that is only checked.

## Modules

Actions are named after the functions they model, and variables after tables or
locals; `PROJECT.json` gives the lines of each definition. An action is one database
transaction or one statement. What a process keeps between two of them (a snapshot, a
batch, the fetched data) is a variable of its own, so it can be stale.

**`PostingLedger`** is the promise of scheduled money: dates are taken while the schedule is
open and booked in batches, each at most once. Closing a schedule strikes off dates nobody has
taken, and these are never booked; one that is taken and not struck off may be booked after the
schedule was closed.

**`ScheduledMoney`** has processes of two kinds, workers (`ListActive`, then `Skip`,
`Upsert` and `Mark` for each schedule, `PostSelect`, `PostCommit`, `QueueReminders`) and
requests (`Create`, `BeginUpdate`/`CommitUpdate` and the materialisation that follows,
`BeginSetStatus`, `CommitPause`, `CommitResume`, `DeleteTransaction`, and archiving).
`PostSelect` takes the `FOR UPDATE SKIP LOCKED` locks and `PostCommit` releases them, with
everything else free to happen between. Archiving is the transaction it is in the code:
`ArchiveBegin` updates the schedule and takes the snapshot of the second statement (`seen`),
`ArchiveSkip` comes to its rows one by one and waits for those a batch has locked (`held` are those
it has), `ArchiveCommit` or `ArchiveFails` ends it. Until then others read the old status, and
whoever writes the schedule's row waits. A definition is a set of dates, a start, whether the
server posts, and a time zone, one day ahead or not. `Fail` stops any process anywhere.

**`NotificationDelivery`**: `Claim` is the whole claiming transaction, written as the
sequence of its statements (`Freed`, `GivenUp`, `Closed`, `FannedOut`, `Due`, `First`); `Send` has
every answer a provider client reports, the lost one included; `Record` and `Commit` are
separate since under READ COMMITTED the statement that recomputes the outbox row does not
see a delivery another replica is about to commit. Users register, hand over and deactivate
devices, enter quiet hours, delete their account.

**`OpenBankingSync`**: `Claim` sets the lease and the next time of an account, `Fetch` takes
what the bank has in the window of dates, `Begin` locks the account row and reads the suppressions,
`Commit` writes. `AskForSync` is the user's sync, with the default dates or any others up to today.
`Link` and `Disconnect` give the same bank account a new row, as `StoreOpenBankingConnection` does.
Time is relative: an account counts the ticks to `next_sync_at` and `sync_claimed_until`, an entry
those since its date (`dated`, which begins with `DateComes`), so the model has no end of time and
liveness is about for ever. `DefaultWindow` slides: every import sets `last_synced_at` to now, of
which remains what is dated more than `Overlap` before it (`behind`). `passed` is history only: what
a sync of other dates has left behind.

**`OpenBankingAuthorization`** follows an authorization from `Create` over `Started` and `Name`
(the user has the URL only after the provider's id is stored) to the callback: `Claim`,
`Exchange`, `Store`, or `CleanUp` and `Fail`, each with its failure, the lost answer included.
`Disconnect` and `DeleteMe` `Close` sessions first and remove rows then. The session at the
provider is a variable of its own, since it outlives the rows. A request whose context is
cancelled (`Cancel`) still walks its error path, and only `CleanUp` works then, because it has a
context of its own (`openBankingCleanupContext`); one whose replica dies (`Stop`) does nothing more.

**`InvestmentLedger`** has the trades of one position (a user's holding of an asset at a broker;
others have locks of their own). A request `Ask`s, `Check`s and `Commit`s, or `Refuse`s. `Check` is
the advisory lock and the window query in one action, since nobody changes trades without the lock;
what was read before the lock, the deleted row and the early look at the holding, is in `Ask`. A
trade is a signed quantity at a day; `Valid` is the window over `(occurred_at, id)`.

**`InvestmentSchedules`** extends it with the last two parts of the minute run: `ListActive`, then
`Store` and `Mark` for each schedule (two transactions, `ON CONFLICT DO NOTHING` between them and a
definition that is as old as the list), then `ListDue`, and for each occurrence `NoQuote`, or
`Begin`, which locks the occurrence, looks at it again and takes the lock of the position, and
`Post` or `PostFails`; `Gone` is an occurrence another replica or a request was faster with.
`Create`, `Edit` and `SetStatus` are one statement each. A price comes and goes (`PriceGoes`,
`PriceComes`), which stands for the hour of posting too, until which an occurrence is passed over
like one that has no price.

**`BudgetAlerts`**: a run is one transaction. `Begin` reads the day and thereby the period,
`Evaluate` is the snapshot of the one statement that reads spending, `Insert` adds its rows one by
one and waits for a row another replica has inserted and not committed (`IsFree`: the unique index),
`QueueNotification` decides for each row whether the user wants to know, `Commit` makes all of it
seen, `Rollback` nothing. Users create, edit and archive budgets, spend, correct and mute at any
moment.

**`MarketRequests`** has a call from `Hit`, `Join` or `Start` to its answer. A call that fetches
`Enqueue`s or is turned away (`TurnAway`), may leave while it is queued (`LeaveQueue`), is admitted
by the worker (`Take`, then `Skip` or `Admit`) and `Send`s. Its place in the queue stays after it
left. `ahead`, the requests there were before it, and `waited` are history only. `Share` gives its
result, an error too, to whoever joined. Time is relative: the distance to the last admission, the
age of a quote, what is `left` of the time of a call.

**`ResponseCache`**: `Load`, `Compute` (reads the trades as they are then), `Store`; a writer
commits and then deletes the entries of all views. Redis fails at any of these. `since` counts the
time from each change, up to the bound the property speaks of.

**`AuthRateLimiter`** has the address a request is counted under (`ClientIP`: the connection, or
what the trusted proxies add to the headers) and the table of windows with its sweep. The chain of
proxies is chosen in the beginning. A client may come through it or directly and put anything before
what the first proxy adds, also entries that are no address. History only are `log`, the ages of the
last attempts at an account that were let through under an address, and `known`, the addresses a
client was counted under.

**`ServerLifecycle`** is `app.Run` of each replica: `Open`, the migrations one by one under the
session lock (`Acquire`, `SkipApplied`, `Begin`, `Commit`, `Unlock`), `StartWorkers`, requests, the
signal, the drained or timed out `Shutdown`, the wait for the workers, `Close`. Connections are
`reachable`, and requests begin, until `Shutdown` is done with them, also after the signal. A
listener or a migration may fail, and a replica `Die`s anywhere, whereupon the database drops its
lock.

**`StockHistory`**: `List` reads the stored closes of a chart and decides whether its ends are
there; if not, `Upsert` is the fetch and the statement that stores what came, or the fetch or the
statement fails. Between the two other requests store theirs. A set of days the market is closed is
chosen in the beginning. `skipped` is history only: days a shorter chart passed over.

**`Recurrence`** has the operators of the rule, and one step that completes what was asked and
computes a window. Days are numbers of a calendar given by the first days of its months (`FirstOf`),
of any lengths, and whatever comes after it is one date, `Beyond`; the reference `Fits` says of a
single day whether it belongs to the rule.

**`InvestmentPortfolio`**: `Book` and `Remove` are the two transactions, back-dated trades included,
with the conditions under which they commit. `Portfolio` is an operator: `Replay` applies the trades
in their order. A chart is asked for once, then trades rest: `AskChart` is what comes before the
loop, `ChartTrade` and `ChartThisDay` are the passes of `calculateDailyInvestmentHistory`,
`AnswerChart` is what comes after it. What has a quote or a history, and whether there is a client
for histories of stocks at all, is given by a scenario. The portfolio shows what is `Supported`, the
chart what is `Chartable`; the rest each counts as `supportedInvestmentTrades` does, by symbol and
broker, whatever the listing (`OpenHoldings`, `LeftOut`). A trade before the start of the range is
applied on its first day; a crypto currency without a history fails the chart, a stock without one
is left out and counted.

`MC*` modules give TLC its instances; `*Proofs` modules hold the theorems. `MCServerParts` puts the
last eight side by side: `part`, chosen in the initial state, says which of them moves while the
variables of the others rest, so the states of the run are the sum and not the product of theirs.

## Runs

| Run | What it asks | Result |
|-----|--------------|--------|
| `scheduled_money_safety` | two replicas, one user, one fault: booked once, no date lost, deletion final, refinement of `PostingLedger` | holds |
| `scheduled_money_liveness` | more is due than a batch takes, one fault: everything is posted and reminded, the horizon kept | holds |
| `scheduled_money_reminders` | the same with a reminder batch smaller than what waits | violated, finding 1 |
| `scheduled_money_edit` | an edit that stops half-way while a replica works from old rows | violated, finding 2 |
| `notification_delivery` | two replicas, two devices, every answer, lost answers, crashes, handed-over devices | holds |
| `open_banking_sync` | two replicas and a user's sync of an account that changes, with corrections, deletions, a disconnection and one fault | holds |
| `open_banking_history` | a user's sync overlaps the first background sync | violated, finding 3 |
| `open_banking_relink` | the bank is disconnected and linked again | violated, finding 4 |
| `open_banking_authorization` | two authorizations, callbacks that come twice, two requests that disconnect or delete the account, one fault, cancellation or crash | holds |
| `open_banking_revocation` | the account is deleted while a callback is at work | violated, finding 5 |
| `investments` | two replicas buy for a schedule that is edited, paused, archived and resumed, while two requests buy, sell and delete in the same position; missing prices, failures, crashes | holds |
| `server_parts` | each of the eight small components alone: replicas that evaluate budgets, calls for quotes, cached answers, logins, replicas that start, migrate and stop, charts, rules, ledgers | holds |

What the properties say beyond the table:

- `PostedExactlyOnce` equates the number of transactions ever inserted for a date with the status of
  its occurrence, so it covers rows an edit deletes and inserts again and transactions the user
  deleted. `NoDateLost` relates rows to the watermark: a hole behind it is never filled by any later
  run.
- `HeldByOne` is about what a run has in memory: its claim is still its own when it sends.
  `TwiceOnlyIfUnrecorded` counts pushes against outcomes lost on the way to the database; it is the
  precise form of README.md:233, and weaker than "once".
- `Paced` is weaker than README.md:231 ("at most once every six hours") by the time of an import,
  because `next_sync_at` is six hours after a clock read before the import began.
- `NoForgottenSession` names the only sessions that may be left over while the user exists: of a
  lost answer, of a refused deletion, of a replica that died. A cancelled request is none of these.
  `EventuallyOver` says that a request without a fault of its own succeeds, whatever an earlier
  attempt or another request did to its sessions.
- `NeverOversold` is about every moment of the past, since trades are back-dated and deleted; the
  texts are those of the conflicts `service/investments.go` answers. `BoughtOnce` counts purchases
  ever made, so deleting the trade does not make room for another one.
- `EachLevelOnce` also says that an alert on record without a notification is one the user had
  muted: a commit is all or nothing. `CrossedIsReported` is the other half, that a level is reported
  at all.
- `NoSlotWasted` accounts for every interval a request has waited in the queue: each belongs to a
  request before it that was admitted, and what is left over is the present pause. It fails if a
  caller that left costs a slot, in the queue or while the worker waits with it, and if anybody is
  overtaken. `ServedFresh` also says that nobody joins a fetch that is over.
- `AnswersCatchUp` has no "never stale": a reader may store after the invalidation what it computed
  before. It says that this is the only way, a failing Redis apart, and how long it can last.
- `AttemptsBounded` is about any stretch of time, not the window of the code; two adjacent windows
  allow nearly twice the limit, and no more, to each address an account is tried from. A client is
  counted under its own address and, behind several proxies, under that of the last of them, which
  all clients share (see the observations); under no other.
- `OrderlyLife` allows a handler to outlive the store in one case, a `Shutdown` that timed out.
  `WorkIsDone` is `CrossedIsReported` and `StopsInTheEnd`, that a replica which begins to stop is
  down in the end.
- `ChartComplete` names what may be missing from a chart: see the observations below.
- `LedgersAgree` says that neither loop ends with the error it has for a sale larger than its holding
  (`Fails`, `oversold`); that what is invested less what was realized is what the trades cost
  (`MoneyKept`); that supported positions are counted once each and the others once with their
  listings, by the portfolio and by the chart (`CountedOnce`);
  that the chart has one point for each day, which is the portfolio as it was that day
  (`PointsArePast`); and that sampling keeps its ends (`EndsShown`).
- `EventuallyFresh` asks that imports that were reordered, failed or lost a race are made good by
  later ones, although each moves the window on. It is about what the next sync would fetch while
  nothing fetched before is still to be imported: only then is a change certain to be caught. It
  excuses what a user's sync of other dates passed over, since that loses entries (`passed`).
- `LedgerRefined` promises no more of an archived schedule than that what was struck off stays so;
  the stronger "nothing is booked once it is archived" does not hold, see the observations.

## Bounds

| Bound | Where | Why enough |
|-------|-------|-----------|
| two replicas | safety runs | every conflict in the code is between two holders of a row or a claim; the theorems are for any number |
| one replica, two schedules with the same two dates | liveness of scheduled money | the hardest case for progress: four dates, one a batch, and nobody else clears the backlog |
| `MaxDay` 2, `Horizon` 1 | `ScheduledMoney` | the window moves, dates leave it and enter it, and the zone is ahead of the server |
| `PostLimit` 1 or 2 | `ScheduledMoney` | fewer than what is due, so batches are cut |
| `MaxRequests` 3 (1 in delivery) | all | create, edit and one more change; in delivery one change at any point of a run |
| `MaxFaults` 1 | all | a fault at any single step; liveness needs faults to end |
| `MaxAttempts` 2, `TTL` 3, `LockTTL` 1, `RunTime` 1 | delivery | retry, giving up, expiry, take-over and a run at its timeout all occur |
| `Interval` 3, `ClaimTTL` 2, `RunTime` 1, `ImportTime` 1 | sync | the order of the real six hours, five minutes and four minutes |
| `Overlap` 1, `History` 3 | sync | the order of three and ninety days; an entry leaves the three days, then the ninety, between imports |
| one item, `MaxVersion` 2 | sync, passing run | it appears and changes, so imports out of order differ; items share only the window; the other runs have an old one besides |
| two authorizations, callbacks and requests | authorization | a claim is contested, a session is closed twice, one connection is there when the other is stored |
| one schedule, two plans, two days | investments | an edit moves the start and takes dates away; a run before midnight overlaps one after; both dates are due at once with `BatchSize` 1 |
| `MaxEvents` 3 | investments | requests and faults share it: buy, sell and delete; or create, pause, resume; or create and two faults |
| `Quantities` {1} | investments | a sale that depends on one buy; more buys add nothing to who depends on whom |
| one account | sync, passing run | two accounts share nothing but the size of a batch, which the proofs have in general; the relink run has two |
| one budget, thresholds 50 and 100, `MaxPeriod` 1, `MaxChanges` 3 | budgets | one spending crosses a level or both; a run of the old period overlaps one of the new; create, spend and one more change |
| three calls for two keys, `QueueSize` 1, `Interval` 2, `TTL` 1, `Timeout` 5 | market | one fetches, one joins, one of another key waits; the queue is full; a caller waits out two intervals, or times out before its slot and before its answer |
| two readers, a writer, two views, `MaxWrites` 1 | cache | a store before, between and after commit and invalidation; of a second change nothing new depends |
| two clients, no, one and two proxies, `Limit` 2, `Window` 2, `SweepEvery` 3 | limiter | a header with another client or with no address, both ways to the server, a sweep inside a window |
| two replicas, three starts, two migrations, one worker | life | one migrates while the other waits or dies, a restart finds half of it done |
| six days, one without a close, `Overlap` 1, `StaleAfter` 2, first trades on two days, ranges 0 and 1 | charts | a backfill, a refresh, a gap that a short chart leaves, a closed day inside a chart and at its end |
| five months with a leap February, intervals 0 (none given), 2 and 3 | rules | the 29th to 31st in each length of month, windows that begin in the middle of an interval |
| five positions (two of one stock, its second listing, one unlisted), three trades of one unit on two of three days, four scenarios | portfolio | a partial sale of two buys, a buy dated before it, a deletion; two listings at one broker; histories of stocks not configured, quotes of crypto currencies failing, an instrument without history, quote or early close |
| ranges 0 ("max") and 1, `SampleLimit` 2 | portfolio | a chart that begins with its first trade or after it; three points that are sampled |

`requests`, `faults`, `day` and `clock` are cut off by guards named in the modules' CONSTANTS.

## Fairness

Weak fairness of a worker's steps: each loop has a ticker for as long as the process lives, and a
run goes from statement to statement; a replica that dies is restarted, and its run begins anew.
Weak fairness of an archive that has begun, whose transaction goes on once the locks it waits for
are released; it may also fail. Weak fairness of `Tick` where time matters. In `OpenBankingSync`
also of an import a user began, since a handler runs to its end unless it fails (`SyncFails`). In
`OpenBankingAuthorization` weak fairness of a callback and of a request that removes, as every call
they make has a timeout. In `InvestmentSchedules` weak fairness of a run, of the handlers and of
`PriceComes`: an asset has a price again some time (an assumption on the market: a batch is filled
with the earliest occurrences, so a hundred that never have a price would keep out every later one).
In `MCServerParts` weak fairness of each replica's budget run, which the minute ticker repeats, and
of the life of a replica: statements, worker runs and `Shutdown` have timeouts, so they end; no
signal and no restart is promised. Users, the bank and providers owe nothing, and a run may be
refused or fail as often as its bound allows. `Tick` waits while a run is at its timeout: the
context of each run ends it (`app/workers.go`).

## Proofs

Eight modules of theorems; each is for every value of the constants its assumption admits.

`ScheduledMoneyProofs`, assuming `ScheduledMoneyAssumption` (positive horizon and batches, workers
and clients distinct) and, for the last of them, `StartsFirst` (no date of a definition is before
its start, which `recurrence.Occurrences` sees to): `TypeCorrect`, `PostedOnce`, `LocksProtect`,
`DeletionFinal`, `LedgerImplemented`, `NoDateIsLost`. `PostedExactlyOnce` alone is not inductive:
`PostCommit` inserts for every row it locked, so the proof needs that a locked row is planned, has
one holder and, if its schedule is archived by now, was not there when that began (`LocksHold`),
that an archive holds planned rows of its snapshot nobody else has (`ArchivesHold`), that an
unposted row has no transaction (`TxnLinks`), and that whatever a process works on was created
(`Defined`, `Begun`, `Known`). The refinement maps a locked row to a date that is taken and the
snapshot of a committed archive to the dates struck off. A step keeps what is open (`OpenStaysOpen`),
struck off (`SeenStays`, `StruckStays`) and taken (`TakenStays`), or is the step of the ledger
that changes it (`LedgerStep`); only `PostCommit` books, and it books what is taken, not booked and
not struck off. `NoDateLost` says of the rows that all dates up to the watermark are there
(`Covered`). A process moves the watermark to the end of the window it inserted, so the proof
follows it from its list (`Listed`) over the rows it inserts (`Inserted`) to the mark (`Working`);
that others insert, post and skip meanwhile does not matter, as nothing but an edit deletes a row
(`Kept`).

`NotificationDeliveryProofs`, assuming `NotificationAssumption` (above all `RunTime <= LockTTL`: a
run ends before its claims count as abandoned, 25 seconds and ten minutes in the code):
`TypeCorrect`, `ClaimsAreExclusive`, `DoubledOnlyIfUnrecorded`, `SentWasTaken`, `SettledIsFinal`. A
claim in hand carries the time of its own run (`Locked`), which is too young for another claim to
take over (`Runs`), and a row that vanished belongs to a user who left for good (`Swept`). `TypeOK`
bounds the attempts, for which `Tried` says that whatever waits for another has had fewer. The
pushes are counted: one that is not made up for by an unrecorded one is about to be recorded, or no
run will repeat it (`Counted`); and an outbox row says `sent` only if a provider took one
(`Truthful`).

`OpenBankingSyncProofs`, assuming `SyncAssumption` (a run and an import together are shorter than
the interval, a run shorter than a claim, three days and an import shorter than ninety):
`TypeCorrect`, `Inductive`, `NeverTwoFetchers`, `ClaimsArePaced`, `DeletionIsFinal`,
`CorrectionIsKept`. `OneFetcher` does not rest on the lease, which a user's import clears and a
failed sync of another request's time may outlive, but on arithmetic: `next_sync_at` was set a whole
interval ahead by the claim and never earlier than that less an import by anyone else (`Spaced`),
while a run that still works is younger than its timeout (`InHand`). `DeletedStaysDeleted` rests on
the foreign key of the suppression: whoever imports holds the account row, so every deletion is
either before the suppressions were read or after the commit (`Remembered`, `AtWork`).

`OpenBankingAuthorizationProofs`, assuming no more than that names differ
(`AuthorizationAssumption`): `TypeCorrect`, `Inductive`, `CodesAreUsedOnce`, `RowsAreTrue`,
`SessionsAreKept`, for any number of authorizations, callbacks and requests. The properties need
each other and what ties the two sides together: an authorization nobody claimed has nothing at
the provider and no callback (`Fresh`), what the user can follow was named (`Linked`), where a
callback is tells what is at the provider (`AtWork`), a stored connection had a session
(`Opened`), and a request comes to the row only after the session is closed (`Closing`). There is
one lemma for each action.

`InvestmentSchedulesProofs`, assuming positive quantities, numbers as ids and days, and that names
of replicas and requests differ (`LedgerAssumption`, `SchedulesAssumption`): `TypeCorrect`,
`PurchasesAreSingle`, `NoDateIsLost`. `BoughtOnce` needs that what a run is about to buy is planned
(`Locked`), which the lock of the position gives, since it is held by the run that posts and nobody
else. `NoDateLost` needs that a list a run still has agrees with the watermark it was read with
(`Listed`) and that at the mark every date up to the run's own is stored (`Marking`), whichever
replica stored it; only inserts that ignore conflicts make this work without a lock. That the next
occurrence of a batch and the next schedule of a list exist is proved from the least element of a
set of numbers.

`NothingOversold`, in the same module, is about the sales of every moment. A trade is booked or
deleted only by who holds the lock of the position and has just looked at the window of the others
(`Sound`), so it is enough that what was checked is what is written. A window compares sums, and the
sum over a set is an inductive definition: that it grows by the trade that is added is proved from
the smallest set for which it does not.

`ServerProofs` has four small components.

- Budgets: `BudgetsTyped`, `ReportedOnce`. `EachLevelOnce` needs that what a replica has inserted is
  not on record yet (`Unseen`), which holds because an insert waits for the uncommitted row of
  another and conflicts with a committed one, and that a replica between transactions holds nothing
  (`NothingHeld`).
- Cached answers, assuming that one lives for some time (`ResponseCacheAssumption`): `CacheTyped`,
  `AnswersAreCurrent`. What the property says of an entry is true because of what is true of the
  reader that stores it: a change it lacks was committed since it read the trades (`ReadRecently`),
  and it lacks none that was finished before, unless it is marked as overtaken (`Aware`).
- The rate limiter, `AttemptsAreBounded`, for any chains of proxies and any headers, with entries
  that are no address or without (`LimiterAssumption`: proxies are not clients). The address a client
  is counted under is its own or the last proxy's, by cases of `ClientIP` (`AddressIsKnown`,
  `KnownAs`). The counter of a window is the number of attempts since it began (`Counted`), of which
  two windows hold at most twice the limit.
- The life of a replica, `LifeIsOrderly`: the schema is the sequence of migrations up to the version
  on record, but for the one the holder of the lock is at (`SchemaInOrder`, `Migrating`), and who
  serves, works or can still be reached has seen all of it and keeps the store open (`WorkingAt`).

`MarketDataProofs` has the three that deal with prices.

- Charts, assuming numbers as days (`HistoryAssumption`): `HistoryTyped`, `ChartsAreComplete`. The
  proof is about the shared table: between two stored days nothing is missing but what was skipped
  (`Continuous`), since every fetch goes on to the present and so joins what is there or passes over
  days before it. The same holds of what a request has read, although the table grows under it
  (`Listed`).
- Quotes and admissions, assuming that a call asks for one key (`MarketAssumption`):
  `NoSlotIsWasted`, `QuotesAreFresh`. A call is at one place of the queue at most, also after it
  left (`QueuedOnce`), and whoever is in front of a waiting one, or with the worker, was there when
  it came (`InLine`), so an interval passes for it only with a request before it that is then
  admitted (`LineMoves`); the call on record as fetching a key is the one that fetches it
  (`OneFetch`).
- Portfolio and chart, for any finite set of positions, any trades in the past, prices, histories
  and ranges (`PortfolioAssumption`): `PortfolioTyped`, `LedgersAlwaysAgree`. First the loops: sums
  and replays over sets are unfolded (`SumStep`, `ReplayStep`), a replay into its last trade applied
  to the replay of the others. By induction over parts of the set, a replay of sound trades holds of
  a position what its trades sum up to (`QuantityIsNet`), fails at none of them (`NeverFails`) and
  keeps the money (`MoneyOf`). Soundness is what the two transactions check, and a buy needs no
  check (`SoundWithBuy`). Then the chart: its ledger is at each step that of the portfolio, less the
  realized profit, for the trades it has come past (`ChartedNext`), and these are the first of those
  it can show. The inductive invariant `PortfolioInv` has this (`InOrder`, `LedgerOfCharted`), that
  the chart has come to the day its number of points says (`OnTheWay`, `Arrived`), and what each
  point is (`PointsHold`). On the way it turns out that a quote is asked for every open position,
  although the code looks at all brokers together (`OpenAssetIs`), and that what is counted as not
  supported is open, although the code adds up several listings (`OpenHoldingsAre`). The cost
  removed by a sale is rounded in the module, a fraction in the code; that both ledgers remove the
  same is what matters.

`RecurrenceProofs`: `DatesAreThoseOfRule`, for any calendar, any rule a request can ask for and any
window (`RecurrenceAssumption`: first days ascend, weekdays are 1 to 7, days of a month at most 31,
a window does not end before it begins). A leap by division finds the first date not before its
target (`LeapIs`, `NextMonth`): the dates of a daily and of a weekly rule are multiples of a step
after the first, those of a monthly one lie in months that are (`Weeks`, `MonthsOfRule`), one in
each, the clamped day (`ClampedIs`). `NextOnOrAfter` therefore passes over no date and stops at none
that does not fit (`NextIs`), and the loop gathers them all (`OccurrencesAre`), which is shown for
the last day from which it would not.

Induction is done by a least or a greatest counterexample in all of these: the provers have no
induction over data, but a set of numbers, or of finite sets, has a minimal element.

Only model-checked: everything about liveness (`DueIsPosted`, `DueIsReminded`, `HorizonKept`,
`EveryNotificationSettles`, `EventuallyFresh`, `EventuallyOver`, `DueIsBought`, `WorkIsDone`): TLAPS
has no support for ENABLED and so none for fairness.

## Findings

1. **Reminders starve** (`repository/schedules.go:431`). The batch of due occurrences to remind of
   is cut before those already reminded are left out, and they stay due. Once it is full of them,
   nobody gets a reminder.
2. **An edit can lose dates** (`service/schedules.go:115`). It commits in two transactions; if it
   stops in between, a replica that listed the schedule before moves the watermark past dates that
   have no occurrence.
3. **Old history is announced** (`repository/open_banking_sync.go:181`). Whether an import is the
   first is decided when it begins, the window it fetched long before. A background sync of ninety
   days that is overtaken by a user's sync of a few announces every old expense.
4. **Entries twice after linking again** (`repository/open_banking_sync.go:127`). Imports are
   idempotent per account row, and every link makes a new one.
5. **A bank stays authorized after the account is deleted** (`service/auth.go:89`). `DeleteMe` lists
   the sessions once. A callback at work meanwhile stores its connection after that; it goes with
   the user, and its session at the provider with nobody left to close it.

Observations without a run. Of archiving: an occurrence that another replica, with a list it read
before, inserts after the snapshot of the statement that skips planned rows
(`repository/schedules.go:185`) stays planned; a posting batch that read the schedule as active
before the archive committed posts it afterwards. Of bank syncs: any sync sets `last_synced_at` to
now (`repository/open_banking_sync.go:219`), also a user's sync of other dates, which may be a
narrow first one. What it did not cover and is dated more than three days back is then never fetched
by default, nor is a change of an entry that old, although imports "refresh changed pending or
booked records" (README.md:227). Of the client's address: behind two or more trusted proxies a
header with an entry that is no address makes `clientIP` (`router/client_ip.go:26`) count the client
as the last proxy, so it has a second window, common to all who do so, while README.md:140 says that
the limit of an account cannot be bypassed by spoofed headers. Of the portfolio: two listings of one
symbol at one broker, both without support, are counted as one
(`service/investment_portfolio.go:117`), which without a Marketstack key, the default, all stocks
are in the chart (`service/investment_portfolio_history.go:89`).

Of the others: an authorization whose callback was cut off stays `processing` for ever;
a device token that another user registers receives deliveries already queued for the former one,
and one the app registers again just before its refusal is recorded is deactivated all the same
(`repository/notification_delivery.go:187`); an expired lease is never the reason an account is
claimed again, because a failed background sync leaves `next_sync_at` six hours ahead, so it is
retried only then; a planned occurrence re-created by a replica with old rows keeps the old amount
after an edit. Of investment schedules: an edit that falls between a run's list and its mark can
leave the watermark ahead of dates that have no occurrence (`NoDateLost` leaves edited schedules
out); an edit keeps the occurrences that are planned; the watermark can move back, when a run before
midnight marks after one past it, which only repeats inserts that are ignored; a resumed schedule
buys the dates missed in the pause, each at the price of its date, with the amount the schedule has
when it is posted.

Of bank entries: one without a reference of the bank is known by a hash of its text
(`service/open_banking_sync.go:263`), so two equal ones are imported as one, and one the bank
rewords is imported again; the module has entries with references.

Of charts: a chart with a short range that is asked for after nobody asked for long stores its
closes with a gap before them, and no later chart fills the gap, because only the ends are looked at
(`skipped`; docs/investment-integrations.md:30 speaks of backfilling "a missing range"). Rows being
shared, a user whose first trade is up to seven days before the first stored row never gets those
closes. When the day before the first trade has no close, the chart has no price for its first day
unless an earlier one is stored. Of budgets: two replicas can insert the same rows in different
order and deadlock; PostgreSQL ends one of them, which is `Rollback` here and repeats a minute
later. A change of the kind of period keeps an alert on record if the new period begins on the same
day. Of the lifecycle: after a `Shutdown` that timed out, handlers may use a closed store until the
process is gone.

## Not modelled

- In `InvestmentLedger` the money of a trade: price, fee, currency; only quantities decide what may
  be sold (`InvestmentPortfolio` has the money). The early answer of a repeated request.
- How dates follow from a rule, inside `ScheduledMoney` and `InvestmentSchedules`: there a
  definition is a set of dates, and `Recurrence` has the rule; amounts, currencies, descriptions.
- Market data: the parsing of answers, the search for the quote of an instant, Trading 212 and
  Coinbase (their clients fetch, decode and cache as the one for Kraken does), the choice of a
  provider, manual prices; rounding of money and conversions between currencies in portfolio and
  chart.
- Devices of a platform without credentials; token caches of the push clients.
- Pages of one bank fetch and the normalisation of an entry; every entry is an expense and the
  preference for spending alerts is on.
- Clocks of replicas that differ, and how fast statements are: a tick is coarser than a statement.
- `Claim` of deliveries and of accounts as several steps: rows under another claim's lock are
  skipped, so two claims behave as one after the other.
- A deadlock between `DeleteTransaction` and an import is modelled by its outcome, one of the two
  fails; which one PostgreSQL picks does not matter to the properties.
- Router, configuration, models, password hashing, token signing, CSV parsing and import, exports,
  the keyword categories of bank entries, provider HTTP: stateless, single statements or pure I/O.

## How to run

In this directory, for a run of `PROJECT.json`:

    tlc -workers 2 -config ScheduledMoneySafety.cfg MCScheduledMoney.tla
    tlapm ScheduledMoneyProofs.tla

`ScheduledMoneySafety.cfg`, `ScheduledMoneyLiveness.cfg`, `OpenBankingSync.cfg` and
`ServerParts.cfg` take two to three minutes, `NotificationDelivery.cfg` and
`InvestmentSchedules.cfg` about a minute each, the others seconds. Each module of proofs takes a few
minutes at most.
